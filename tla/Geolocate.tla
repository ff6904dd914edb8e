----------------------------- MODULE Geolocate -----------------------------
(***************************************************************************)
(* The computing half of tdoa::process, and tdoa::correlate (tdoa.cpp):    *)
(* one cohort is sorted by power, the strongest capture becomes the master *)
(* every other one is correlated with, the correlations run concurrently   *)
(* on the captures themselves, and the time differences they return are    *)
(* attributed to node sites from which the optimiser locates the emitter.  *)
(*                                                                         *)
(* The signals are abstracted to what was done to the samples of a         *)
(* capture; whether a correlation is usable and whether a fit is good      *)
(* depends on the signal and is left open.                                 *)
(***************************************************************************)
EXTENDS Naturals, Sequences, FiniteSets

CONSTANTS Captures,         \* captures a cohort may consist of
          Powers,           \* values of capture::_power
          ThreeDimensions,  \* _threeDimensions
          MaxRounds         \* bound of the model: cohorts processed

ASSUME GeolocateAssumption ==
  /\ IsFiniteSet(Captures)
  /\ Powers \subseteq Nat /\ Powers # {}
  /\ ThreeDimensions \in BOOLEAN
  /\ MaxRounds \in Nat

NoCapture == "none"

VARIABLES pc,         \* where tdoa::process is
          round,      \* which call of process this is
          members,    \* the captures of this cohort
          power,      \* their powers
          cohort,     \* *_packets[key] once it is sorted
          data,       \* what was done to iqData of each capture
          task,       \* the std::async of each capture
          next,       \* the future or launch the loop is at
          slot,       \* i of the loop over the futures
          locations,  \* _locations
          attempt,    \* attempts of the optimiser
          result,     \* the tdoaResult of this call
          out         \* history: the results pushed to _resultQ

vars == <<pc, round, members, power, cohort, data, task, next, slot,
          locations, attempt, result, out>>

Master == cohort[1]
Count == IF ThreeDimensions THEN 4 ELSE 3
Used == {cohort[j] : j \in 1..Len(cohort)}

(* A location holds the site of one capture and the time difference that   *)
(* the correlation of one capture returned; round says which call made it. *)
Location == [site : Captures, delta : Captures, power : Powers, round : 1..MaxRounds]

Init ==
  /\ pc = "idle"
  /\ round = 0
  /\ members = {}
  /\ power = [c \in Captures |-> CHOOSE p \in Powers : TRUE]
  /\ cohort = <<>>
  /\ data = [c \in Captures |-> "spectrum"]
  /\ task = [c \in Captures |-> "none"]
  /\ next = 1 /\ slot = 0 /\ attempt = 0
  /\ locations = <<>>
  /\ result = "none"
  /\ out = <<>>

-----------------------------------------------------------------------------
(* A new cohort of captures, whose samples the nodes have transformed.     *)
Begin ==
  /\ pc = "idle"
  /\ round < MaxRounds
  /\ round' = round + 1
  /\ members' \in SUBSET Captures \ {{}}
  /\ power' \in [Captures -> Powers]
  /\ data' = [c \in Captures |-> "spectrum"]
  /\ task' = [c \in Captures |-> "none"]
  /\ locations' = <<>>
  /\ result' = "none"
  /\ cohort' = <<>>
  /\ pc' = IF Cardinality(members') > 2 THEN "sort" ELSE "cleanup"
  /\ UNCHANGED <<next, slot, attempt, out>>

(* The orders std::sort may leave the cohort in: equal powers in any order *)
SortedByPower ==
  {s \in [1..Cardinality(members) -> members] :
     \A i, j \in DOMAIN s : i < j => s[i] # s[j] /\ power[s[i]] >= power[s[j]]}

(* Mutant of Prepare: the master is not conjugated. *)
PrepareWithoutConj ==
  /\ pc = "sort"
  /\ \E s \in SortedByPower :
       cohort' = SubSeq(s, 1, IF Len(s) > Count THEN Count ELSE Len(s))
  /\ next' = 1
  /\ pc' = "launch"
  /\ UNCHANGED <<round, members, power, data, task, slot, locations, attempt, result, out>>

(* Sort by power, drop what exceeds Count, conjugate the master. *)
Prepare ==
  /\ pc = "sort"
  /\ \E s \in SortedByPower :
       /\ cohort' = SubSeq(s, 1, IF Len(s) > Count THEN Count ELSE Len(s))
       /\ data' = [data EXCEPT ![s[1]] = "conjugate"]
  /\ next' = 1
  /\ pc' = "launch"
  /\ UNCHANGED <<round, members, power, task, slot, locations, attempt, result, out>>

(* std::async for each capture in turn; started tasks run meanwhile. *)
Launch ==
  /\ pc = "launch"
  /\ next <= Len(cohort)
  /\ task' = [task EXCEPT ![cohort[next]] = "started"]
  /\ next' = next + 1
  /\ UNCHANGED <<pc, round, members, power, cohort, data, slot, locations, attempt, result, out>>

Launched ==
  /\ pc = "launch"
  /\ next > Len(cohort)
  /\ next' = 1 /\ slot' = 0
  /\ pc' = "collect"
  /\ UNCHANGED <<round, members, power, cohort, data, task, locations, attempt, result, out>>

-----------------------------------------------------------------------------
(* tdoa::correlate in the task of capture c *)
TaskUnchanged == UNCHANGED <<pc, round, members, power, cohort, next, slot,
                             locations, attempt, result, out>>

CorrelateSelf(c) ==
  /\ task[c] = "started" /\ c = Master
  /\ task' = [task EXCEPT ![c] = "usable"]
  /\ UNCHANGED data
  /\ TaskUnchanged

(* decimation unknown, sizes differ or captures more than 100 ns apart *)
CorrelateReject(c) ==
  /\ task[c] = "started" /\ c # Master
  /\ task' = [task EXCEPT ![c] = "unusable"]
  /\ UNCHANGED data
  /\ TaskUnchanged

CorrelateMultiply(c) ==
  /\ task[c] = "started" /\ c # Master
  /\ data' = [data EXCEPT ![c] = "product"]
  /\ task' = [task EXCEPT ![c] = "multiplied"]
  /\ TaskUnchanged

(* invert and look for a peak of more than five times the mean *)
CorrelatePeak(c) ==
  /\ task[c] = "multiplied"
  /\ data' = [data EXCEPT ![c] = "correlation"]
  /\ \E verdict \in {"usable", "unusable"} : task' = [task EXCEPT ![c] = verdict]
  /\ TaskUnchanged

Correlate(c) == \/ CorrelateSelf(c) \/ CorrelateReject(c)
                \/ CorrelateMultiply(c) \/ CorrelatePeak(c)

-----------------------------------------------------------------------------
(* Mutant of CollectUsable: an unfinished future is taken as usable. *)
CollectUnfinished ==
  /\ pc = "collect"
  /\ next <= Len(cohort)
  /\ task[cohort[next]] # "unusable"
  /\ locations' = Append(locations,
                         [site  |-> cohort[slot + 1],
                          delta |-> cohort[next],
                          power |-> power[cohort[slot + 1]],
                          round |-> round])
  /\ slot' = slot + 1
  /\ next' = next + 1
  /\ UNCHANGED <<pc, round, members, power, cohort, data, task, attempt, result, out>>

(* ftr.get() in the order of the cohort.  The site is that of entry i++,   *)
(* which only usable correlations advance.                                 *)
CollectUsable ==
  /\ pc = "collect"
  /\ next <= Len(cohort)
  /\ task[cohort[next]] = "usable"
  /\ locations' = Append(locations,
                         [site  |-> cohort[slot + 1],
                          delta |-> cohort[next],
                          power |-> power[cohort[slot + 1]],
                          round |-> round])
  /\ slot' = slot + 1
  /\ next' = next + 1
  /\ UNCHANGED <<pc, round, members, power, cohort, data, task, attempt, result, out>>

CollectUnusable ==
  /\ pc = "collect"
  /\ next <= Len(cohort)
  /\ task[cohort[next]] = "unusable"
  /\ next' = next + 1
  /\ UNCHANGED <<pc, round, members, power, cohort, data, task, slot, locations, attempt, result, out>>

Collected ==
  /\ pc = "collect"
  /\ next > Len(cohort)
  /\ result' = "allocated"
  /\ attempt' = 0
  /\ pc' = "solve"
  /\ UNCHANGED <<round, members, power, cohort, data, task, next, slot, locations, out>>

(* Mutant of TooFew: three locations are not enough. *)
TooFewForSpace ==
  /\ pc = "solve"
  /\ Len(locations) <= 3
  /\ result' = "lost"
  /\ pc' = "cleanup"
  /\ UNCHANGED <<round, members, power, cohort, data, task, next, slot, locations, attempt, out>>

(* Two locations or fewer: the result stays allocated and unreachable.     *)
TooFew ==
  /\ pc = "solve"
  /\ Len(locations) <= 2
  /\ result' = "lost"
  /\ pc' = "cleanup"
  /\ UNCHANGED <<round, members, power, cohort, data, task, next, slot, locations, attempt, out>>

(* Mutant of FitGood: a fix from two sites is accepted. *)
FitGoodFromTwo ==
  /\ pc = "solve"
  /\ Len(locations) >= 2
  /\ attempt < 2
  /\ out' = Append(out, locations)
  /\ result' = "pushed"
  /\ pc' = "cleanup"
  /\ UNCHANGED <<round, members, power, cohort, data, task, next, slot, locations, attempt>>

(* simplex::optimise, at most twice *)
FitGood ==
  /\ pc = "solve"
  /\ Len(locations) > 2
  /\ attempt < 2
  /\ out' = Append(out, locations)
  /\ result' = "pushed"
  /\ pc' = "cleanup"
  /\ UNCHANGED <<round, members, power, cohort, data, task, next, slot, locations, attempt>>

FitBad ==
  /\ pc = "solve"
  /\ Len(locations) > 2
  /\ attempt < 2
  /\ attempt' = attempt + 1
  /\ UNCHANGED <<pc, round, members, power, cohort, data, task, next, slot, locations, result, out>>

GiveUp ==
  /\ pc = "solve"
  /\ Len(locations) > 2
  /\ attempt = 2
  /\ result' = "deleted"
  /\ pc' = "cleanup"
  /\ UNCHANGED <<round, members, power, cohort, data, task, next, slot, locations, attempt, out>>

(* The captures are deleted and the map entry erased.                      *)
Cleanup ==
  /\ pc = "cleanup"
  /\ data' = [c \in Captures |-> IF c \in Used \/ Cardinality(members) <= 2
                                   THEN "deleted" ELSE data[c]]
  /\ pc' = "idle"
  /\ UNCHANGED <<round, members, power, cohort, task, next, slot, locations, attempt, result, out>>

Process == \/ Prepare \/ Launch \/ Launched
           \/ CollectUsable \/ CollectUnusable \/ Collected
           \/ TooFew \/ FitGood \/ FitBad \/ GiveUp \/ Cleanup

Next == Begin \/ Process \/ \E c \in Captures : Correlate(c)

Spec == Init /\ [][Next]_vars
-----------------------------------------------------------------------------
TypeOK ==
  /\ pc \in {"idle", "sort", "launch", "collect", "solve", "cleanup"}
  /\ round \in 0..MaxRounds
  /\ members \subseteq Captures
  /\ power \in [Captures -> Powers]
  /\ cohort \in Seq(Captures) /\ Len(cohort) <= Count
  /\ data \in [Captures -> {"spectrum", "conjugate", "product", "correlation", "deleted"}]
  /\ task \in [Captures -> {"none", "started", "multiplied", "usable", "unusable"}]
  /\ next \in 1..Count + 1
  /\ slot \in 0..Count
  /\ locations \in Seq(Location) /\ Len(locations) <= Count
  /\ attempt \in 0..2
  /\ result \in {"none", "allocated", "pushed", "deleted", "lost"}
  /\ out \in Seq(Seq(Location))

(* A published location never mixes up time differences: each is used with *)
(* the site of the capture it was measured on.  tdoa.cpp:190 asks for this *)
(* ("make sure we observe the sorted order of the packets").               *)
ResultsPaired ==
  \A k \in DOMAIN out : \A j \in DOMAIN out[k] : out[k][j].site = out[k][j].delta

(* A published location rests on at least three different sites, the       *)
(* strongest first, all of one call of process.                            *)
ResultsWellFormed ==
  \A k \in DOMAIN out :
    /\ Len(out[k]) > 2
    /\ \A i, j \in DOMAIN out[k] :
         i < j => /\ out[k][i].site # out[k][j].site
                  /\ out[k][i].power >= out[k][j].power
                  /\ out[k][i].round = out[k][j].round

(* The captures used are at least as strong as those left out, and the     *)
(* master is at least as strong as every other capture.                    *)
StrongestUsed ==
  cohort # <<>> => /\ \A c \in members : power[Master] >= power[c]
                   /\ \A c \in Used, d \in members \ Used : power[c] >= power[d]

(* Captures are deleted only when no correlation works on them any more:   *)
(* the loop over the futures waits for every one of them, usable or not.   *)
Busy(c) == task[c] \in {"started", "multiplied"}
NoTaskOnDeleted == \A c \in Captures : Busy(c) => data[c] # "deleted" /\ data[Master] # "deleted"

(* Between any two steps of process and its tasks: the strongest captures  *)
(* are in use, none is deleted under a task, and what was published rests  *)
(* on three sites of one call.                                             *)
GeolocateInv == TypeOK /\ StrongestUsed /\ NoTaskOnDeleted /\ ResultsWellFormed

(* A result that was allocated is pushed or deleted, or it is lost and no  *)
(* location is published: that takes a correlation that failed, so memory  *)
(* is lost with bad measurements only, and every good one is tried.        *)
LostOnlyAfterFailure ==
  result = "lost" => \E c \in Used : task[c] = "unusable"

(* Each correlation multiplies an untouched spectrum by the conjugated     *)
(* one of the master, however the tasks interleave.                        *)
CorrelatesWithConjugate ==
  [][\A c \in Captures : (task[c] = "started" /\ task'[c] = "multiplied")
       => data[c] = "spectrum" /\ data[Master] = "conjugate"]_vars

=============================================================================
