-------------------------- MODULE GeolocateProofs --------------------------
(***************************************************************************)
(* Proofs about Geolocate, for any captures, powers and order of the       *)
(* tasks.  First the pairing: a location computed on the surface of the    *)
(* earth (three captures) never attributes a time difference to the wrong  *)
(* site.  Then the concurrent correlations: each multiplies an untouched   *)
(* spectrum by the conjugated one of the master, no capture is deleted     *)
(* under a task, the strongest captures are in use, what is published      *)
(* rests on three sites of one call, and a result is lost only when a      *)
(* correlation failed.                                                     *)
(***************************************************************************)
EXTENDS Geolocate, FiniteSetTheorems, TLAPS

Paired(locs) == \A j \in 1..Len(locs) : locs[j].site = locs[j].delta

(* Where the loops stand.  While no correlation has failed, the slot keeps *)
(* step with the future; with three captures a failure leaves two          *)
(* locations at most, too few to be published.                             *)
LoopInv ==
  /\ pc \in {"sort", "launch"} => locations = <<>>
  /\ pc = "launch" => next <= Len(cohort) + 1
  /\ pc # "idle" => round \in 1..MaxRounds
  /\ pc = "collect" => /\ slot = Len(locations)
                       /\ slot < next
                       /\ next <= Len(cohort) + 1
                       /\ slot = next - 1 => Paired(locations)
  /\ pc = "solve" => (~ThreeDimensions /\ Len(locations) > 2 => Paired(locations))

PairedOut == ~ThreeDimensions => \A k \in 1..Len(out) : Paired(out[k])

IInv == TypeOK /\ LoopInv /\ PairedOut

LEMMA CountType == Count \in Nat /\ Count \in 3..4 /\ (~ThreeDimensions => Count = 3)
BY GeolocateAssumption DEF Count

LEMMA InitOk == Init => IInv
<1> SUFFICES ASSUME Init PROVE IInv
  OBVIOUS
<1>1. (CHOOSE p \in Powers : TRUE) \in Powers
  BY GeolocateAssumption
<1>2. power \in [Captures -> Powers]
  BY <1>1 DEF Init
<1>3. /\ data \in [Captures -> {"spectrum", "conjugate", "product", "correlation", "deleted"}]
      /\ task \in [Captures -> {"none", "started", "multiplied", "usable", "unusable"}]
  BY DEF Init
<1>4. /\ cohort \in Seq(Captures) /\ Len(cohort) = 0
      /\ locations \in Seq(Location) /\ Len(locations) = 0
      /\ out \in Seq(Seq(Location)) /\ Len(out) = 0
  BY DEF Init
<1>5. TypeOK
  BY <1>2, <1>3, <1>4, CountType, GeolocateAssumption DEF Init, TypeOK
<1>6. LoopInv /\ PairedOut
  BY <1>4 DEF Init, LoopInv, PairedOut
<1> QED BY <1>5, <1>6 DEF IInv

LEMMA BeginOk ==
  ASSUME IInv, Begin
  PROVE  IInv'
<1>1. /\ locations' = <<>> /\ cohort' = <<>> /\ round' = round + 1 /\ round < MaxRounds
      /\ members' \subseteq Captures /\ power' \in [Captures -> Powers]
      /\ pc' \in {"sort", "cleanup"}
      /\ result' = "none"
      /\ UNCHANGED <<next, slot, attempt, out>>
  BY DEF Begin
<1>2. /\ data' \in [Captures -> {"spectrum", "conjugate", "product", "correlation", "deleted"}]
      /\ task' \in [Captures -> {"none", "started", "multiplied", "usable", "unusable"}]
  BY DEF Begin
<1>3. round' \in 1..MaxRounds
  BY <1>1, GeolocateAssumption DEF IInv, TypeOK
<1>4. /\ cohort' \in Seq(Captures) /\ Len(cohort') = 0
      /\ locations' \in Seq(Location) /\ Len(locations') = 0
  BY <1>1
<1>5. TypeOK'
  BY <1>1, <1>2, <1>3, <1>4, CountType, GeolocateAssumption DEF IInv, TypeOK, Count
<1>6. LoopInv'
  BY <1>1, <1>3 DEF LoopInv
<1> QED BY <1>1, <1>5, <1>6 DEF IInv, PairedOut

LEMMA PrepareOk ==
  ASSUME IInv, Prepare
  PROVE  IInv'
<1>1. PICK s \in SortedByPower :
        /\ cohort' = SubSeq(s, 1, IF Len(s) > Count THEN Count ELSE Len(s))
        /\ data' = [data EXCEPT ![s[1]] = "conjugate"]
  BY DEF Prepare
<1>2. /\ pc = "sort" /\ pc' = "launch" /\ next' = 1
      /\ UNCHANGED <<round, members, power, task, slot, locations, attempt, result, out>>
  BY DEF Prepare
<1>3. Cardinality(members) \in Nat
  BY GeolocateAssumption, FS_Subset, FS_CardinalityType DEF IInv, TypeOK
<1>4. s \in Seq(Captures)
  <2>1. s \in [1..Cardinality(members) -> Captures]
    BY DEF SortedByPower, IInv, TypeOK
  <2> QED BY <2>1, <1>3
<1>5. cohort' \in Seq(Captures) /\ Len(cohort') <= Count /\ Len(cohort') \in Nat
  <2>1. CASE Len(s) > Count
    <3>1. cohort' = SubSeq(s, 1, Count)
      BY <1>1, <2>1
    <3> QED BY <1>4, <2>1, <3>1, CountType
  <2>2. CASE ~(Len(s) > Count)
    <3>1. cohort' = SubSeq(s, 1, Len(s))
      BY <1>1, <2>2
    <3> QED BY <1>4, <2>2, <3>1, CountType
  <2> QED BY <2>1, <2>2
<1>6. data' \in [Captures -> {"spectrum", "conjugate", "product", "correlation", "deleted"}]
  BY <1>1 DEF IInv, TypeOK
<1>7. TypeOK'
  BY <1>2, <1>5, <1>6, CountType DEF IInv, TypeOK, Count
<1>8. LoopInv'
  BY <1>2, <1>5 DEF IInv, LoopInv
<1> QED BY <1>2, <1>7, <1>8 DEF IInv, PairedOut

LEMMA LaunchOk ==
  ASSUME IInv, Launch \/ Launched
  PROVE  IInv'
<1>1. pc = "launch" /\ locations = <<>> /\ next <= Len(cohort) + 1 /\ round \in 1..MaxRounds
  BY DEF Launch, Launched, IInv, LoopInv
<1>2. UNCHANGED <<round, members, power, cohort, data, locations, attempt, result, out>>
  BY DEF Launch, Launched
<1>3. Len(cohort) \in Nat /\ Len(cohort) <= Count /\ next \in Nat
  BY CountType DEF IInv, TypeOK
<1>4. CASE Launch
  <2>1. /\ task' = [task EXCEPT ![cohort[next]] = "started"]
        /\ next' = next + 1 /\ next <= Len(cohort) /\ UNCHANGED <<pc, slot>>
    BY <1>4 DEF Launch
  <2>2. task' \in [Captures -> {"none", "started", "multiplied", "usable", "unusable"}]
    BY <2>1 DEF IInv, TypeOK
  <2>3. TypeOK'
    BY <1>2, <1>3, <2>1, <2>2, CountType DEF IInv, TypeOK, Count
  <2>4. LoopInv'
    BY <1>1, <1>2, <1>3, <2>1 DEF LoopInv
  <2> QED BY <1>2, <2>3, <2>4 DEF IInv, PairedOut
<1>5. CASE Launched
  <2>1. next' = 1 /\ slot' = 0 /\ pc' = "collect" /\ UNCHANGED task
    BY <1>5 DEF Launched
  <2>2. TypeOK'
    BY <1>2, <2>1, CountType DEF IInv, TypeOK, Count
  <2>3. LoopInv'
    BY <1>1, <1>2, <1>3, <2>1 DEF LoopInv, Paired
  <2> QED BY <1>2, <2>2, <2>3 DEF IInv, PairedOut
<1> QED BY <1>4, <1>5

LEMMA CorrelateOk ==
  ASSUME IInv, NEW c \in Captures, Correlate(c)
  PROVE  IInv'
<1>1. UNCHANGED <<pc, round, members, power, cohort, next, slot, locations, attempt, result, out>>
  BY DEF Correlate, CorrelateSelf, CorrelateReject, CorrelateMultiply, CorrelatePeak, TaskUnchanged
<1>2. /\ data' \in [Captures -> {"spectrum", "conjugate", "product", "correlation", "deleted"}]
      /\ task' \in [Captures -> {"none", "started", "multiplied", "usable", "unusable"}]
  <2>1. CASE CorrelateSelf(c)
    BY <2>1 DEF CorrelateSelf, IInv, TypeOK
  <2>2. CASE CorrelateReject(c)
    BY <2>2 DEF CorrelateReject, IInv, TypeOK
  <2>3. CASE CorrelateMultiply(c)
    BY <2>3 DEF CorrelateMultiply, IInv, TypeOK
  <2>4. CASE CorrelatePeak(c)
    BY <2>4 DEF CorrelatePeak, IInv, TypeOK
  <2> QED BY <2>1, <2>2, <2>3, <2>4 DEF Correlate
<1>3. TypeOK'
  BY <1>1, <1>2 DEF IInv, TypeOK, Count
<1> QED BY <1>1, <1>3 DEF IInv, LoopInv, PairedOut

(* A usable correlation adds one location; as long as none failed, its     *)
(* site is that of the capture it belongs to.                              *)
LEMMA CollectUsableOk ==
  ASSUME IInv, CollectUsable
  PROVE  IInv'
<1> DEFINE loc == [site  |-> cohort[slot + 1],
                   delta |-> cohort[next],
                   power |-> power[cohort[slot + 1]],
                   round |-> round]
<1>1. /\ pc = "collect" /\ next <= Len(cohort)
      /\ locations' = Append(locations, loc)
      /\ slot' = slot + 1 /\ next' = next + 1
      /\ UNCHANGED <<pc, round, members, power, cohort, data, task, attempt, result, out>>
  BY DEF CollectUsable
<1>2. /\ slot = Len(locations) /\ slot < next
      /\ slot = next - 1 => Paired(locations)
      /\ round \in 1..MaxRounds
  BY <1>1 DEF IInv, LoopInv
<1>3. /\ cohort \in Seq(Captures) /\ Len(cohort) <= Count /\ Len(cohort) \in Nat
      /\ next \in Nat /\ next >= 1 /\ slot \in Nat /\ locations \in Seq(Location)
      /\ power \in [Captures -> Powers]
  BY CountType DEF IInv, TypeOK
<1>4. slot + 1 \in 1..Len(cohort) /\ next \in 1..Len(cohort)
  BY <1>1, <1>2, <1>3
<1>5. cohort[slot + 1] \in Captures /\ cohort[next] \in Captures
  BY <1>3, <1>4
<1>6. loc \in Location
  BY <1>2, <1>3, <1>5 DEF Location
<1>7. /\ locations' \in Seq(Location) /\ Len(locations') = Len(locations) + 1
      /\ \A j \in 1..Len(locations) : locations'[j] = locations[j]
      /\ locations'[Len(locations) + 1] = loc
  BY <1>1, <1>3, <1>6
<1>8. TypeOK'
  <2>1. Len(locations') <= Count /\ slot' \in 0..Count /\ next' \in 1..Count + 1
    BY <1>1, <1>2, <1>3, <1>4, <1>7, CountType
  <2> QED BY <1>1, <1>7, <2>1, CountType DEF IInv, TypeOK, Count
<1>9. slot' = next' - 1 => Paired(locations')
  <2>1. SUFFICES ASSUME slot = next - 1, NEW j \in 1..Len(locations')
                 PROVE  locations'[j].site = locations'[j].delta
    BY <1>1, <1>3 DEF Paired
  <2>2. CASE j \in 1..Len(locations)
    BY <1>2, <1>7, <2>1, <2>2 DEF Paired
  <2>3. CASE j = Len(locations) + 1
    <3>1. slot + 1 = next
      BY <1>3, <2>1
    <3> QED BY <1>7, <2>3, <3>1
  <2> QED BY <1>2, <1>3, <1>7, <2>2, <2>3
<1>10. LoopInv'
  BY <1>1, <1>2, <1>3, <1>7, <1>9 DEF LoopInv
<1> QED BY <1>1, <1>8, <1>10 DEF IInv, PairedOut

LEMMA CollectUnusableOk ==
  ASSUME IInv, CollectUnusable
  PROVE  IInv'
<1>1. /\ pc = "collect" /\ next <= Len(cohort) /\ next' = next + 1
      /\ UNCHANGED <<pc, round, members, power, cohort, data, task, slot, locations, attempt, result, out>>
  BY DEF CollectUnusable
<1>2. Len(cohort) \in Nat /\ Len(cohort) <= Count /\ next \in Nat /\ slot \in Nat
  BY CountType DEF IInv, TypeOK
<1>3. TypeOK'
  BY <1>1, <1>2, CountType DEF IInv, TypeOK, Count
<1>4. slot' < next' /\ next' <= Len(cohort') + 1 /\ ~(slot' = next' - 1)
  BY <1>1, <1>2 DEF IInv, LoopInv
<1>5. LoopInv'
  BY <1>1, <1>4 DEF IInv, LoopInv
<1> QED BY <1>1, <1>3, <1>5 DEF IInv, PairedOut

(* With three captures, more than two locations mean that none failed. *)
LEMMA CollectedOk ==
  ASSUME IInv, Collected
  PROVE  IInv'
<1>1. /\ pc = "collect" /\ next > Len(cohort) /\ pc' = "solve"
      /\ result' = "allocated" /\ attempt' = 0
      /\ UNCHANGED <<round, members, power, cohort, data, task, next, slot, locations, out>>
  BY DEF Collected
<1>2. TypeOK'
  BY <1>1, CountType DEF IInv, TypeOK, Count
<1>3. ASSUME ~ThreeDimensions, Len(locations) > 2 PROVE Paired(locations)
  <2>1. /\ slot = Len(locations) /\ slot < next /\ next <= Len(cohort) + 1
        /\ slot = next - 1 => Paired(locations)
    BY <1>1 DEF IInv, LoopInv
  <2>2. Len(cohort) <= 3 /\ Len(cohort) \in Nat /\ next \in Nat /\ slot \in Nat
    BY <1>3, CountType DEF IInv, TypeOK
  <2>3. slot = next - 1
    BY <1>1, <1>3, <2>1, <2>2
  <2> QED BY <2>1, <2>3
<1>4. LoopInv'
  BY <1>1, <1>3 DEF IInv, LoopInv
<1> QED BY <1>1, <1>2, <1>4 DEF IInv, PairedOut

LEMMA FitGoodOk ==
  ASSUME IInv, FitGood
  PROVE  IInv'
<1>1. /\ pc = "solve" /\ pc' = "cleanup" /\ Len(locations) > 2
      /\ out' = Append(out, locations) /\ result' = "pushed"
      /\ UNCHANGED <<round, members, power, cohort, data, task, next, slot, locations, attempt>>
  BY DEF FitGood
<1>2. /\ out' \in Seq(Seq(Location)) /\ Len(out') = Len(out) + 1
      /\ \A k \in 1..Len(out) : out'[k] = out[k]
      /\ out'[Len(out) + 1] = locations /\ Len(out) \in Nat
  BY <1>1 DEF IInv, TypeOK
<1>3. TypeOK'
  BY <1>1, <1>2 DEF IInv, TypeOK, Count
<1>4. LoopInv'
  BY <1>1 DEF IInv, LoopInv
<1>5. PairedOut'
  <2>1. SUFFICES ASSUME ~ThreeDimensions, NEW k \in 1..Len(out')
                 PROVE  Paired(out'[k])
    BY DEF PairedOut, Paired
  <2>2. CASE k \in 1..Len(out)
    BY <1>2, <2>1, <2>2 DEF IInv, PairedOut
  <2>3. CASE k = Len(out) + 1
    BY <1>1, <1>2, <2>1, <2>3 DEF IInv, LoopInv
  <2> QED BY <1>2, <2>2, <2>3
<1> QED BY <1>3, <1>4, <1>5 DEF IInv

LEMMA RestOk ==
  ASSUME IInv, TooFew \/ FitBad \/ GiveUp \/ Cleanup
  PROVE  IInv'
<1>1. UNCHANGED <<round, members, power, cohort, task, next, slot, locations, out>>
  BY DEF TooFew, FitBad, GiveUp, Cleanup
<1>2. attempt' \in 0..2 /\ result' \in {"none", "allocated", "pushed", "deleted", "lost"}
  BY DEF TooFew, FitBad, GiveUp, Cleanup, IInv, TypeOK
<1>3. data' \in [Captures -> {"spectrum", "conjugate", "product", "correlation", "deleted"}]
  BY DEF TooFew, FitBad, GiveUp, Cleanup, IInv, TypeOK
<1>4. pc # "idle" /\ (pc' \in {"cleanup", "idle"} \/ (pc = "solve" /\ pc' = pc))
  BY DEF TooFew, FitBad, GiveUp, Cleanup
<1>5. TypeOK'
  BY <1>1, <1>2, <1>3, <1>4 DEF IInv, TypeOK, Count
<1>6. LoopInv'
  BY <1>1, <1>4 DEF IInv, LoopInv
<1> QED BY <1>1, <1>5, <1>6 DEF IInv, PairedOut

LEMMA NextOk == IInv /\ [Next]_vars => IInv'
<1> SUFFICES ASSUME IInv, [Next]_vars PROVE IInv'
  OBVIOUS
<1>1. CASE UNCHANGED vars
  BY <1>1 DEF vars, IInv, TypeOK, Count, LoopInv, PairedOut
<1> QED BY <1>1, BeginOk, PrepareOk, LaunchOk, CorrelateOk, CollectUsableOk,
           CollectUnusableOk, CollectedOk, FitGoodOk, RestOk DEF Next, Process

LEMMA Invariance == Spec => []IInv
BY InitOk, NextOk, PTL DEF Spec

(* Types, including that _locations never outgrows the captures used. *)
THEOREM GeolocateTypeCorrect == Spec => []TypeOK
<1>1. IInv => TypeOK
  BY DEF IInv
<1> QED BY <1>1, Invariance, PTL

(* On the surface of the earth the entry i++ picks is always the capture   *)
(* the time difference belongs to, whatever correlations fail: after a     *)
(* failure too few locations are left for a result.                        *)
THEOREM PairedOnSurface ==
  ASSUME ~ThreeDimensions
  PROVE  Spec => []ResultsPaired
<1>1. IInv => ResultsPaired
  <2> SUFFICES ASSUME IInv,
                      NEW k \in DOMAIN out, NEW j \in DOMAIN out[k]
               PROVE  out[k][j].site = out[k][j].delta
    BY DEF ResultsPaired
  <2>1. out \in Seq(Seq(Location)) /\ PairedOut
    BY DEF IInv, TypeOK
  <2>2. k \in 1..Len(out)
    BY <2>1
  <2>3. out[k] \in Seq(Location)
    BY <2>1, <2>2
  <2>4. j \in 1..Len(out[k])
    BY <2>3
  <2> QED BY <2>1, <2>2, <2>4 DEF PairedOut, Paired
<1> QED BY <1>1, Invariance, PTL

-----------------------------------------------------------------------------

(* The sorted cohort: from the moment it is cut to Count captures it does  *)
(* not change, and it holds the strongest members.                         *)
CohortInv ==
  /\ pc = "sort" => cohort = <<>> /\ Cardinality(members) > 2
  /\ pc \in {"launch", "collect", "solve"} => Len(cohort) > 2
  /\ \A j \in 1..Len(cohort) : cohort[j] \in members
  /\ \A i, j \in 1..Len(cohort) :
       i < j => cohort[i] # cohort[j] /\ power[cohort[i]] >= power[cohort[j]]
  /\ \A j \in 1..Len(cohort), d \in members \ Used : power[cohort[j]] >= power[d]

(* Where tasks may be and what they have done to the samples.  The futures *)
(* before the one the loop is at have been waited for, so no task outlives *)
(* the loop over them.                                                     *)
TaskInv ==
  /\ pc = "sort" => \A c \in Captures : task[c] = "none" /\ data[c] = "spectrum"
  /\ pc = "launch" => \A c \in Captures :
       task[c] # "none" => \E j \in 1..(next - 1) : c = cohort[j]
  /\ pc = "collect" => \A c \in Captures :
       Busy(c) => \E j \in next..Len(cohort) : c = cohort[j]
  /\ pc \notin {"launch", "collect"} => \A c \in Captures : ~Busy(c)
  /\ pc \in {"launch", "collect"} =>
       /\ data[Master] = "conjugate" /\ task[Master] # "multiplied"
       /\ \A c \in Captures :
            /\ data[c] # "deleted"
            /\ task[c] \in {"none", "started"} /\ c # Master => data[c] = "spectrum"

(* What the locations rest on, and what is known when they are too few.    *)
LocationInv ==
  /\ pc \in {"sort", "launch", "collect"} => result = "none"
  /\ pc \in {"collect", "solve"} =>
       /\ Len(locations) <= Len(cohort)
       /\ \A i \in 1..Len(locations) : /\ locations[i].site = cohort[i]
                                       /\ locations[i].power = power[cohort[i]]
                                       /\ locations[i].round = round
  /\ pc = "collect" => \/ slot = next - 1
                       \/ \E j \in 1..Len(cohort) : task[cohort[j]] = "unusable"
  /\ pc = "solve" => \/ Len(locations) > 2
                     \/ \E j \in 1..Len(cohort) : task[cohort[j]] = "unusable"

WInv == CohortInv /\ TaskInv /\ LocationInv /\ LostOnlyAfterFailure /\ ResultsWellFormed

LEMMA CohortFacts ==
  ASSUME IInv
  PROVE  /\ cohort \in Seq(Captures) /\ Len(cohort) \in Nat
         /\ \A j \in 1..Len(cohort) : cohort[j] \in Captures
         /\ \A c \in Captures : power[c] \in Nat
         /\ members \subseteq Captures
         /\ task \in [Captures -> {"none", "started", "multiplied", "usable", "unusable"}]
         /\ data \in [Captures -> {"spectrum", "conjugate", "product", "correlation", "deleted"}]
         /\ next \in Nat /\ next >= 1 /\ slot \in Nat /\ locations \in Seq(Location)
<1>1. cohort \in Seq(Captures) /\ power \in [Captures -> Powers] /\ locations \in Seq(Location)
  BY DEF IInv, TypeOK
<1>2. \A c \in Captures : power[c] \in Nat
  BY <1>1, GeolocateAssumption
<1>3. next \in Nat /\ next >= 1 /\ slot \in Nat
  BY CountType DEF IInv, TypeOK
<1>4. \A j \in 1..Len(cohort) : cohort[j] \in Captures
  BY <1>1
<1> QED BY <1>1, <1>2, <1>3, <1>4 DEF IInv, TypeOK

-----------------------------------------------------------------------------
(* What the parts of the invariant need to be kept by a step that leaves   *)
(* their variables alone.                                                  *)
LEMMA CohortKept ==
  ASSUME CohortInv, UNCHANGED <<cohort, members, power>>, pc' # "sort",
         pc' \in {"launch", "collect", "solve"} => pc \in {"launch", "collect", "solve"}
  PROVE  CohortInv'
BY DEF CohortInv, Used

LEMMA LostKept ==
  ASSUME LostOnlyAfterFailure, UNCHANGED <<cohort, task, result>>
  PROVE  LostOnlyAfterFailure'
BY DEF LostOnlyAfterFailure, Used

LEMMA NotLost ==
  ASSUME result # "lost"
  PROVE  LostOnlyAfterFailure
BY DEF LostOnlyAfterFailure

LEMMA WellFormedKept ==
  ASSUME ResultsWellFormed, UNCHANGED out
  PROVE  ResultsWellFormed'
BY DEF ResultsWellFormed

-----------------------------------------------------------------------------
LEMMA InitTasks == Init => WInv
<1> SUFFICES ASSUME Init PROVE WInv
  OBVIOUS
<1>1. /\ pc = "idle" /\ Len(cohort) = 0 /\ members = {} /\ result = "none" /\ out = <<>>
      /\ task = [c \in Captures |-> "none"]
  BY DEF Init
<1>2. CohortInv
  BY <1>1 DEF CohortInv
<1>3. TaskInv
  BY <1>1 DEF TaskInv, Busy
<1>4. LocationInv /\ LostOnlyAfterFailure
  BY <1>1 DEF LocationInv, LostOnlyAfterFailure
<1>5. ResultsWellFormed
  BY <1>1 DEF ResultsWellFormed
<1> QED BY <1>2, <1>3, <1>4, <1>5 DEF WInv

LEMMA BeginTasks ==
  ASSUME IInv, WInv, Begin
  PROVE  WInv'
<1>1. /\ pc' = IF Cardinality(members') > 2 THEN "sort" ELSE "cleanup"
      /\ cohort' = <<>> /\ result' = "none" /\ UNCHANGED out
      /\ task' = [c \in Captures |-> "none"] /\ data' = [c \in Captures |-> "spectrum"]
  BY DEF Begin
<1>2. Len(cohort') = 0
  BY <1>1
<1>3. CohortInv'
  BY <1>1, <1>2 DEF CohortInv
<1>4. TaskInv'
  BY <1>1 DEF TaskInv, Busy
<1>5. LocationInv' /\ LostOnlyAfterFailure'
  BY <1>1 DEF LocationInv, LostOnlyAfterFailure
<1> QED BY <1>1, <1>3, <1>4, <1>5, WellFormedKept DEF WInv

(* The sort leaves the members in order of their power, so that the cut    *)
(* at Count keeps the strongest.                                           *)
LEMMA PrepareTasks ==
  ASSUME IInv, WInv, Prepare
  PROVE  WInv'
<1>1. PICK s \in SortedByPower :
        /\ cohort' = SubSeq(s, 1, IF Len(s) > Count THEN Count ELSE Len(s))
        /\ data' = [data EXCEPT ![s[1]] = "conjugate"]
  BY DEF Prepare
<1>2. /\ pc = "sort" /\ pc' = "launch" /\ next' = 1
      /\ UNCHANGED <<round, members, power, task, slot, locations, attempt, result, out>>
  BY DEF Prepare
<1>3. Cardinality(members) \in Nat /\ Cardinality(members) > 2 /\ IsFiniteSet(members)
  BY <1>2, GeolocateAssumption, FS_Subset, FS_CardinalityType DEF IInv, TypeOK, WInv, CohortInv
<1>4. /\ s \in Seq(members) /\ Len(s) = Cardinality(members)
      /\ \A i, j \in 1..Len(s) : i < j => s[i] # s[j] /\ power[s[i]] >= power[s[j]]
  BY <1>3 DEF SortedByPower
<1> DEFINE n == IF Len(s) > Count THEN Count ELSE Len(s)
<1>5. n \in Nat /\ n > 2 /\ n <= Len(s)
  BY <1>3, <1>4, CountType
<1>6. /\ Len(cohort') = n
      /\ \A j \in 1..n : cohort'[j] = s[j] /\ s[j] \in members
  <2>1. cohort' = SubSeq(s, 1, n)
    BY <1>1
  <2> HIDE DEF n
  <2> QED BY <1>4, <1>5, <2>1
<1>7. \A c \in Captures : power[c] \in Nat
  BY CohortFacts
<1>8. \A d \in members : \E k \in 1..Len(s) : d = s[k]
  <2>1. s \in [1..Cardinality(members) -> members] /\ DOMAIN s = 1..Len(s)
    BY <1>4 DEF SortedByPower
  <2>2. IsInjective(s)
    <3> SUFFICES ASSUME NEW a \in 1..Len(s), NEW b \in 1..Len(s), a # b
                 PROVE  s[a] # s[b]
      BY <2>1 DEF IsInjective
    <3>1. a < b \/ b < a
      OBVIOUS
    <3> QED BY <1>4, <3>1
  <2>3. s \in Injection(1..Cardinality(members), members)
    BY <2>1, <2>2 DEF Injection
  <2>4. Cardinality(1..Cardinality(members)) = Cardinality(members)
    BY <1>3, FS_Interval
  <2>5. s \in Surjection(1..Cardinality(members), members)
    BY <1>3, <2>3, <2>4, FS_Injection
  <2> QED BY <1>4, <2>5 DEF Surjection
<1>9. CohortInv'
  <2>1. \A j \in 1..n : cohort'[j] \in members'
    BY <1>2, <1>6
  <2>2. \A i, j \in 1..n : i < j => /\ cohort'[i] # cohort'[j]
                                    /\ power'[cohort'[i]] >= power'[cohort'[j]]
    BY <1>2, <1>4, <1>5, <1>6
  <2>3. ASSUME NEW j \in 1..n, NEW d \in members' \ Used'
        PROVE  power'[cohort'[j]] >= power'[d]
    <3>1. PICK k \in 1..Len(s) : d = s[k]
      BY <1>2, <1>8
    <3>2. k \notin 1..n
      BY <1>6, <3>1 DEF Used
    <3>3. j < k /\ j \in 1..Len(s)
      BY <1>5, <3>2
    <3> QED BY <1>2, <1>4, <1>6, <3>1, <3>3
  <2> HIDE DEF n
  <2> QED BY <1>2, <1>5, <1>6, <2>1, <2>2, <2>3 DEF CohortInv
<1>10. TaskInv'
  <2>1. \A c \in Captures : task[c] = "none" /\ data[c] = "spectrum"
    BY <1>2 DEF WInv, TaskInv
  <2>2. Master' = s[1] /\ Master' \in Captures
    BY <1>5, <1>6 DEF Master, IInv, TypeOK
  <2>3. data'[Master'] = "conjugate" /\ \A c \in Captures : c # Master' => data'[c] = "spectrum"
    BY <1>1, <2>1, <2>2, CohortFacts
  <2> QED BY <1>2, <2>1, <2>2, <2>3 DEF TaskInv
<1>11. LocationInv' /\ LostOnlyAfterFailure'
  BY <1>2 DEF WInv, LocationInv, LostOnlyAfterFailure
<1> QED BY <1>2, <1>9, <1>10, <1>11, WellFormedKept DEF WInv

LEMMA LaunchTasks ==
  ASSUME IInv, WInv, Launch
  PROVE  WInv'
<1>1. /\ pc = "launch" /\ next <= Len(cohort) /\ next' = next + 1
      /\ task' = [task EXCEPT ![cohort[next]] = "started"]
      /\ UNCHANGED <<pc, round, members, power, cohort, data, slot, locations, attempt, result, out>>
  BY DEF Launch
<1>2. next \in 1..Len(cohort) /\ cohort[next] \in Captures
  BY <1>1, CohortFacts
<1>3. \A j \in 1..(next - 1) : cohort[j] # cohort[next]
  BY <1>2, CohortFacts DEF WInv, CohortInv
<1>4. task[cohort[next]] = "none"
  BY <1>1, <1>2, <1>3 DEF WInv, TaskInv
<1>5. \A c \in Captures : task'[c] = IF c = cohort[next] THEN "started" ELSE task[c]
  BY <1>1, CohortFacts
<1>6. TaskInv'
  <2>1. ASSUME NEW c \in Captures, task'[c] # "none"
        PROVE  \E j \in 1..(next' - 1) : c = cohort'[j]
    <3>1. CASE c = cohort[next]
      BY <1>1, <1>2, <3>1, CohortFacts
    <3>2. CASE c # cohort[next]
      <4>1. PICK j \in 1..(next - 1) : c = cohort[j]
        BY <1>1, <1>5, <2>1, <3>2 DEF WInv, TaskInv
      <4>2. j \in 1..(next' - 1)
        BY <1>1, <4>1, CohortFacts
      <4> QED BY <1>1, <4>1, <4>2
    <3> QED BY <3>1, <3>2
  <2>2. Master \in Captures /\ Master' = Master
    BY <1>1, <1>2, CohortFacts DEF Master
  <2>3. /\ data'[Master'] = "conjugate" /\ task'[Master'] # "multiplied"
        /\ \A c \in Captures :
             /\ data'[c] # "deleted"
             /\ task'[c] \in {"none", "started"} /\ c # Master' => data'[c] = "spectrum"
    BY <1>1, <1>4, <1>5, <2>2 DEF WInv, TaskInv
  <2> QED BY <1>1, <2>1, <2>3 DEF TaskInv
<1>7. LocationInv' /\ LostOnlyAfterFailure'
  BY <1>1 DEF WInv, LocationInv, LostOnlyAfterFailure
<1> QED BY <1>1, <1>6, <1>7, CohortKept, WellFormedKept DEF WInv

LEMMA LaunchedTasks ==
  ASSUME IInv, WInv, Launched
  PROVE  WInv'
<1>1. /\ pc = "launch" /\ next > Len(cohort) /\ next' = 1 /\ slot' = 0 /\ pc' = "collect"
      /\ UNCHANGED <<round, members, power, cohort, data, task, locations, attempt, result, out>>
  BY DEF Launched
<1>2. next - 1 = Len(cohort) /\ locations = <<>>
  BY <1>1, CohortFacts DEF IInv, LoopInv
<1>3. TaskInv'
  <2>1. Master' = Master
    BY <1>1 DEF Master
  <2>2. ASSUME NEW c \in Captures, Busy(c)'
        PROVE  \E j \in next'..Len(cohort') : c = cohort'[j]
    BY <1>1, <1>2, <2>2 DEF WInv, TaskInv, Busy
  <2> QED BY <1>1, <2>1, <2>2 DEF WInv, TaskInv
<1>4. LocationInv'
  BY <1>1, <1>2, CohortFacts DEF WInv, LocationInv
<1>5. LostOnlyAfterFailure'
  BY <1>1, LostKept DEF WInv
<1> QED BY <1>1, <1>3, <1>4, <1>5, CohortKept, WellFormedKept DEF WInv

(* A task works on its own capture and reads the master, which no task     *)
(* writes: the master's own task never gets to the product.                *)
LEMMA CorrelateTasks ==
  ASSUME IInv, WInv, NEW c \in Captures, Correlate(c)
  PROVE  WInv'
<1>1. /\ UNCHANGED <<pc, round, members, power, cohort, next, slot, locations, attempt, result, out>>
      /\ task[c] \in {"started", "multiplied"}
  BY DEF Correlate, CorrelateSelf, CorrelateReject, CorrelateMultiply, CorrelatePeak, TaskUnchanged
<1>2. pc \in {"launch", "collect"} /\ Master' = Master
  BY <1>1 DEF WInv, TaskInv, Busy, Master
<1>3. /\ data[Master] = "conjugate" /\ task[Master] # "multiplied"
      /\ \A d \in Captures : /\ data[d] # "deleted"
                             /\ task[d] \in {"none", "started"} /\ d # Master => data[d] = "spectrum"
  BY <1>2 DEF WInv, TaskInv
<1>4. /\ task'[c] \in {"multiplied", "usable", "unusable"} /\ data'[c] # "deleted"
      /\ \A d \in Captures \ {c} : task'[d] = task[d] /\ data'[d] = data[d]
      /\ c = Master => data' = data /\ task'[c] = "usable"
  <2>1. CASE CorrelateSelf(c)
    BY <1>3, <2>1, CohortFacts DEF CorrelateSelf
  <2>2. CASE CorrelateReject(c)
    BY <1>3, <2>2, CohortFacts DEF CorrelateReject
  <2>3. CASE CorrelateMultiply(c)
    BY <2>3, CohortFacts DEF CorrelateMultiply
  <2>4. CASE CorrelatePeak(c)
    BY <1>3, <2>4, CohortFacts DEF CorrelatePeak
  <2> QED BY <2>1, <2>2, <2>3, <2>4 DEF Correlate
<1>5. Master \in Captures
  BY <1>2, CohortFacts DEF WInv, CohortInv, Master
<1>6. TaskInv'
  <2>1. ASSUME pc' = "launch", NEW d \in Captures, task'[d] # "none"
        PROVE  \E j \in 1..(next' - 1) : d = cohort'[j]
    BY <1>1, <1>4, <2>1 DEF WInv, TaskInv
  <2>2. ASSUME pc' = "collect", NEW d \in Captures, Busy(d)'
        PROVE  \E j \in next'..Len(cohort') : d = cohort'[j]
    BY <1>1, <1>4, <2>2 DEF WInv, TaskInv, Busy
  <2>3. data'[Master'] = "conjugate" /\ task'[Master'] # "multiplied"
    BY <1>2, <1>3, <1>4, <1>5
  <2>4. \A d \in Captures :
          /\ data'[d] # "deleted"
          /\ task'[d] \in {"none", "started"} /\ d # Master' => data'[d] = "spectrum"
    BY <1>2, <1>3, <1>4
  <2> QED BY <1>1, <1>2, <2>1, <2>2, <2>3, <2>4 DEF TaskInv
<1>7. LocationInv' /\ LostOnlyAfterFailure'
  <2>1. \A d \in Captures : task[d] = "unusable" => task'[d] = "unusable"
    BY <1>1, <1>4
  <2>2. ASSUME \E j \in 1..Len(cohort) : task[cohort[j]] = "unusable"
        PROVE  \E j \in 1..Len(cohort) : task'[cohort[j]] = "unusable"
    BY <2>1, <2>2, CohortFacts
  <2> QED BY <1>1, <1>2, <2>2 DEF WInv, LocationInv, LostOnlyAfterFailure
<1> QED BY <1>1, <1>2, <1>6, <1>7, CohortKept, WellFormedKept DEF WInv

-----------------------------------------------------------------------------
LEMMA CollectUsableTasks ==
  ASSUME IInv, WInv, CollectUsable
  PROVE  WInv'
<1> DEFINE loc == [site  |-> cohort[slot + 1],
                   delta |-> cohort[next],
                   power |-> power[cohort[slot + 1]],
                   round |-> round]
<1>1. /\ pc = "collect" /\ next <= Len(cohort) /\ task[cohort[next]] = "usable"
      /\ locations' = Append(locations, loc)
      /\ slot' = slot + 1 /\ next' = next + 1
      /\ UNCHANGED <<pc, round, members, power, cohort, data, task, attempt, result, out>>
  BY DEF CollectUsable
<1>2. slot = Len(locations) /\ slot < next
  BY <1>1 DEF IInv, LoopInv
<1>3. /\ Len(locations') = slot + 1 /\ Len(locations') <= Len(cohort)
      /\ \A i \in 1..slot : locations'[i] = locations[i]
      /\ locations'[slot + 1] = loc
  BY <1>1, <1>2, CohortFacts
<1>4. TaskInv'
  <2>1. ASSUME NEW c \in Captures, Busy(c)
        PROVE  \E j \in (next + 1)..Len(cohort) : c = cohort[j]
    <3>1. PICK j \in next..Len(cohort) : c = cohort[j]
      BY <1>1, <2>1 DEF WInv, TaskInv
    <3>2. j # next
      BY <1>1, <2>1, <3>1 DEF Busy
    <3> QED BY <3>1, <3>2, CohortFacts
  <2> QED BY <1>1, <2>1 DEF WInv, TaskInv, Busy, Master
<1>5. LocationInv'
  <2>1. ASSUME NEW i \in 1..Len(locations')
        PROVE  /\ locations'[i].site = cohort[i] /\ locations'[i].power = power[cohort[i]]
               /\ locations'[i].round = round
    <3>1. CASE i \in 1..slot
      BY <1>1, <1>2, <1>3, <3>1 DEF WInv, LocationInv
    <3>2. CASE i = slot + 1
      BY <1>3, <3>2
    <3> QED BY <1>3, <2>1, <3>1, <3>2, CohortFacts
  <2>2. slot' = next' - 1 \/ \E j \in 1..Len(cohort) : task[cohort[j]] = "unusable"
    BY <1>1, CohortFacts DEF WInv, LocationInv
  <2> QED BY <1>1, <1>3, <2>1, <2>2 DEF WInv, LocationInv
<1> QED BY <1>1, <1>4, <1>5, CohortKept, LostKept, WellFormedKept DEF WInv

LEMMA CollectUnusableTasks ==
  ASSUME IInv, WInv, CollectUnusable
  PROVE  WInv'
<1>1. /\ pc = "collect" /\ next <= Len(cohort) /\ task[cohort[next]] = "unusable"
      /\ next' = next + 1
      /\ UNCHANGED <<pc, round, members, power, cohort, data, task, slot, locations, attempt, result, out>>
  BY DEF CollectUnusable
<1>2. TaskInv'
  <2>1. ASSUME NEW c \in Captures, Busy(c)
        PROVE  \E j \in (next + 1)..Len(cohort) : c = cohort[j]
    <3>1. PICK j \in next..Len(cohort) : c = cohort[j]
      BY <1>1, <2>1 DEF WInv, TaskInv
    <3>2. j # next
      BY <1>1, <2>1, <3>1 DEF Busy
    <3> QED BY <3>1, <3>2, CohortFacts
  <2> QED BY <1>1, <2>1 DEF WInv, TaskInv, Busy, Master
<1>3. LocationInv'
  <2>1. next \in 1..Len(cohort)
    BY <1>1, CohortFacts
  <2> QED BY <1>1, <2>1 DEF WInv, LocationInv
<1> QED BY <1>1, <1>2, <1>3, CohortKept, LostKept, WellFormedKept DEF WInv

(* Once every future was waited for, no task is left; and if all were      *)
(* usable, every capture in use has a location.                            *)
LEMMA CollectedTasks ==
  ASSUME IInv, WInv, Collected
  PROVE  WInv'
<1>1. /\ pc = "collect" /\ next > Len(cohort) /\ pc' = "solve" /\ result' = "allocated"
      /\ UNCHANGED <<round, members, power, cohort, data, task, next, slot, locations, out>>
  BY DEF Collected
<1>2. \A c \in Captures : ~Busy(c)
  BY <1>1, CohortFacts DEF WInv, TaskInv
<1>3. TaskInv'
  BY <1>1, <1>2 DEF TaskInv, Busy
<1>4. LocationInv'
  <2>1. slot = Len(locations) /\ Len(cohort) > 2
    BY <1>1 DEF IInv, LoopInv, WInv, CohortInv
  <2>2. Len(locations) > 2 \/ \E j \in 1..Len(cohort) : task[cohort[j]] = "unusable"
    BY <1>1, <2>1, CohortFacts DEF WInv, LocationInv
  <2> QED BY <1>1, <2>2 DEF WInv, LocationInv
<1>5. LostOnlyAfterFailure'
  BY <1>1 DEF LostOnlyAfterFailure
<1> QED BY <1>1, <1>3, <1>4, <1>5, CohortKept, WellFormedKept DEF WInv

-----------------------------------------------------------------------------
LEMMA TooFewTasks ==
  ASSUME IInv, WInv, TooFew
  PROVE  WInv'
<1>1. /\ pc = "solve" /\ Len(locations) <= 2 /\ result' = "lost" /\ pc' = "cleanup"
      /\ UNCHANGED <<round, members, power, cohort, data, task, next, slot, locations, attempt, out>>
  BY DEF TooFew
<1>2. \E j \in 1..Len(cohort) : task[cohort[j]] = "unusable"
  BY <1>1, CohortFacts DEF WInv, LocationInv
<1>3. LostOnlyAfterFailure'
  BY <1>1, <1>2 DEF LostOnlyAfterFailure, Used
<1>4. TaskInv' /\ LocationInv'
  BY <1>1 DEF WInv, TaskInv, LocationInv, Busy
<1> QED BY <1>1, <1>3, <1>4, CohortKept, WellFormedKept DEF WInv

LEMMA FitGoodTasks ==
  ASSUME IInv, WInv, FitGood
  PROVE  WInv'
<1>1. /\ pc = "solve" /\ Len(locations) > 2 /\ out' = Append(out, locations)
      /\ result' = "pushed" /\ pc' = "cleanup"
      /\ UNCHANGED <<round, members, power, cohort, data, task, next, slot, locations, attempt>>
  BY DEF FitGood
<1>2. TaskInv' /\ LocationInv' /\ LostOnlyAfterFailure'
  BY <1>1 DEF WInv, TaskInv, LocationInv, Busy, LostOnlyAfterFailure
<1>3. /\ DOMAIN out' = 1..(Len(out) + 1) /\ DOMAIN out = 1..Len(out) /\ Len(out) \in Nat
      /\ \A k \in 1..Len(out) : out'[k] = out[k]
      /\ out'[Len(out) + 1] = locations
  BY <1>1 DEF IInv, TypeOK
<1>4. DOMAIN locations = 1..Len(locations) /\ Len(locations) \in Nat
  BY CohortFacts
<1>5. ASSUME NEW i \in DOMAIN locations, NEW j \in DOMAIN locations, i < j
      PROVE  /\ locations[i].site # locations[j].site
             /\ locations[i].power >= locations[j].power
             /\ locations[i].round = locations[j].round
  <2>1. i \in 1..Len(locations) /\ j \in 1..Len(locations) /\ Len(locations) <= Len(cohort)
    BY <1>1, <1>4, <1>5 DEF WInv, LocationInv
  <2>2. i \in 1..Len(cohort) /\ j \in 1..Len(cohort)
    BY <1>4, <2>1, CohortFacts
  <2>3. cohort[i] # cohort[j] /\ power[cohort[i]] >= power[cohort[j]]
    BY <1>5, <2>2 DEF WInv, CohortInv
  <2> QED BY <1>1, <2>1, <2>3 DEF WInv, LocationInv
<1>6. ResultsWellFormed'
  <2> SUFFICES ASSUME NEW k \in DOMAIN out'
               PROVE  /\ Len(out'[k]) > 2
                      /\ \A i, j \in DOMAIN out'[k] :
                           i < j => /\ out'[k][i].site # out'[k][j].site
                                    /\ out'[k][i].power >= out'[k][j].power
                                    /\ out'[k][i].round = out'[k][j].round
    BY DEF ResultsWellFormed
  <2>1. CASE k \in 1..Len(out)
    BY <1>3, <2>1 DEF WInv, ResultsWellFormed
  <2>2. CASE k = Len(out) + 1
    BY <1>1, <1>3, <1>5, <2>2
  <2> QED BY <1>3, <2>1, <2>2
<1> QED BY <1>1, <1>2, <1>6, CohortKept DEF WInv

LEMMA EndTasks ==
  ASSUME IInv, WInv, FitBad \/ GiveUp \/ Cleanup
  PROVE  WInv'
<1>1. /\ pc' = pc \/ pc' \in {"cleanup", "idle"}
      /\ pc \in {"solve", "cleanup"}
      /\ UNCHANGED <<round, members, power, cohort, task, next, slot, locations, out>>
      /\ result' = result \/ result' = "deleted"
  BY DEF FitBad, GiveUp, Cleanup
<1>2. TaskInv' /\ LocationInv'
  BY <1>1 DEF WInv, TaskInv, LocationInv, Busy
<1>3. LostOnlyAfterFailure'
  BY <1>1 DEF WInv, LostOnlyAfterFailure, Used
<1> QED BY <1>1, <1>2, <1>3, CohortKept, WellFormedKept DEF WInv

LEMMA NextTasks == IInv /\ WInv /\ [Next]_vars => WInv'
<1> SUFFICES ASSUME IInv, WInv, [Next]_vars PROVE WInv'
  OBVIOUS
<1>1. CASE UNCHANGED vars
  <2>1. CohortInv' /\ TaskInv' /\ LocationInv'
    BY <1>1 DEF vars, WInv, CohortInv, TaskInv, LocationInv, Used, Busy, Master
  <2> QED BY <1>1, <2>1, LostKept, WellFormedKept DEF vars, WInv
<1> QED BY <1>1, BeginTasks, PrepareTasks, LaunchTasks, LaunchedTasks, CorrelateTasks,
           CollectUsableTasks, CollectUnusableTasks, CollectedTasks, TooFewTasks,
           FitGoodTasks, EndTasks DEF Next, Process

LEMMA TasksInvariant == Spec => []WInv
BY InitTasks, NextTasks, Invariance, PTL DEF Spec

-----------------------------------------------------------------------------
(* In every state between two steps of process and its tasks the strongest *)
(* captures are in use and none is deleted under a task, for any captures, *)
(* any powers and any order of the tasks; and what was published rests on  *)
(* at least three sites of one call.                                       *)
THEOREM GeolocateConsistent == Spec => []GeolocateInv
<1>1. IInv /\ WInv => GeolocateInv
  <2> SUFFICES ASSUME IInv, WInv PROVE GeolocateInv
    OBVIOUS
  <2>1. StrongestUsed
    <3> SUFFICES ASSUME cohort # <<>>
                 PROVE  /\ \A c \in members : power[Master] >= power[c]
                        /\ \A c \in Used, d \in members \ Used : power[c] >= power[d]
      BY DEF StrongestUsed
    <3>1. 1 \in 1..Len(cohort) /\ Master \in Captures
      BY CohortFacts DEF Master
    <3>2. \A c \in Used, d \in members \ Used : power[c] >= power[d]
      BY CohortFacts DEF WInv, CohortInv, Used
    <3>3. ASSUME NEW c \in Used PROVE power[Master] >= power[c]
      <4>1. PICK j \in 1..Len(cohort) : c = cohort[j]
        BY <3>3, CohortFacts DEF Used
      <4>2. CASE j = 1
        BY <3>1, <4>1, <4>2, CohortFacts DEF Master
      <4>3. CASE 1 < j
        BY <3>1, <4>1, <4>3 DEF WInv, CohortInv, Master
      <4> QED BY <4>2, <4>3
    <3>4. Master \in Used
      BY <3>1 DEF Master, Used
    <3> QED BY <3>2, <3>3, <3>4
  <2>2. NoTaskOnDeleted
    <3> SUFFICES ASSUME NEW c \in Captures, Busy(c)
                 PROVE  data[c] # "deleted" /\ data[Master] # "deleted"
      BY DEF NoTaskOnDeleted
    <3>1. pc \in {"launch", "collect"}
      BY DEF WInv, TaskInv
    <3> QED BY <3>1 DEF WInv, TaskInv
  <2> QED BY <2>1, <2>2 DEF IInv, WInv, GeolocateInv
<1> QED BY <1>1, Invariance, TasksInvariant, PTL

(* The result of a call is lost only if a correlation failed.              *)
THEOREM LostResults == Spec => []LostOnlyAfterFailure
<1>1. WInv => LostOnlyAfterFailure
  BY DEF WInv
<1> QED BY <1>1, TasksInvariant, PTL

(* However the tasks interleave, a correlation finds its own samples       *)
(* untouched and those of the master conjugated.                           *)
THEOREM MultipliesSpectra == Spec => CorrelatesWithConjugate
<1> DEFINE Multiplies ==
      \A c \in Captures : (task[c] = "started" /\ task'[c] = "multiplied")
         => data[c] = "spectrum" /\ data[Master] = "conjugate"
<1>1. IInv /\ WInv /\ [Next]_vars => [Multiplies]_vars
  <2> SUFFICES ASSUME IInv, WInv, Next,
                      NEW c \in Captures, task[c] = "started", task'[c] = "multiplied"
               PROVE  data[c] = "spectrum" /\ data[Master] = "conjugate"
    OBVIOUS
  <2>1. pc \in {"launch", "collect"}
    BY DEF WInv, TaskInv, Busy
  <2>2. c # Master
    <3>1. PICK d \in Captures : Correlate(d)
      <4>1. CASE Begin
        BY <4>1 DEF Begin
      <4>2. CASE Launch
        <5>1. task' = [task EXCEPT ![cohort[next]] = "started"]
          BY <4>2 DEF Launch
        <5> QED BY <5>1, CohortFacts
      <4>3. CASE Process /\ ~Launch
        <5>1. UNCHANGED task
          BY <4>3 DEF Process, Prepare, Launched, CollectUsable, CollectUnusable, Collected,
                      TooFew, FitGood, FitBad, GiveUp, Cleanup
        <5> QED BY <5>1
      <4> QED BY <4>1, <4>2, <4>3 DEF Next, Process
    <3>2. c = d
      BY <3>1, CohortFacts DEF Correlate, CorrelateSelf, CorrelateReject, CorrelateMultiply, CorrelatePeak
    <3> QED BY <3>1, <3>2, CohortFacts DEF Correlate, CorrelateSelf, CorrelateReject, CorrelateMultiply, CorrelatePeak
  <2> QED BY <2>1, <2>2 DEF WInv, TaskInv
<1> QED BY <1>1, Invariance, TasksInvariant, PTL DEF Spec, CorrelatesWithConjugate
=============================================================================
