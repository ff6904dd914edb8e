-------------------------------- MODULE Tdoa --------------------------------
(***************************************************************************)
(* The collector: tdoa::run, tdoa::manageBuffer and the bookkeeping half   *)
(* of tdoa::process (tdoa.cpp).  Node threads push captures into _sharedQ; *)
(* one tdoa thread takes them, groups them by a coarse time key into       *)
(* cohorts (_packets), and processes a cohort when as many captures as     *)
(* there are nodes have arrived, or when too many cohorts are held.        *)
(*                                                                         *)
(* A capture is a heap object with one owner at a time.  The model keeps   *)
(* the owner of every capture: the queue, a cohort, nobody any more        *)
(* (freed), or nobody although it still exists (leaked).                   *)
(***************************************************************************)
EXTENDS Naturals, Sequences, FiniteSets

CONSTANTS Nodes,          \* the entries of tdoa::_nodes
          Times,          \* the time stamps (capture::_time) that occur
          KeyResolution,  \* time units per key: 1000000 ns in tdoa::run
          Interval,       \* least time between two captures of one node
          Copies,         \* bound of the model: pushes of one received packet
          BufferLimit,    \* cohorts held before the oldest is given up: 5
          MinUsed,        \* captures a location needs: 3
          MaxUsed,        \* captures used for one location: 3, or 4 in 3-D
          MaxQueue        \* bound of the model on the length of _sharedQ

ASSUME NodesAssumption == IsFiniteSet(Nodes) /\ Nodes # {}
ASSUME TimesAssumption == IsFiniteSet(Times) /\ Times \subseteq Nat
ASSUME ParameterAssumption ==
  /\ KeyResolution \in Nat \ {0}
  /\ Interval \in Nat
  /\ Copies \in Nat \ {0}
  /\ BufferLimit \in Nat
  /\ MinUsed \in Nat \ {0} /\ MaxUsed \in Nat /\ MinUsed <= MaxUsed
  /\ MaxQueue \in Nat

(* A capture stands for one heap object.  A node decodes a received packet *)
(* once per turn of node::run, and again in turns whose receive failed, so *)
(* copy numbers the decodes of one packet.                                 *)
Capture == [node : Nodes, time : Times, copy : 1..Copies]
NoCapture == [node |-> "none", time |-> 0, copy |-> 0]

Key(c) == c.time \div KeyResolution
Keys == {t \div KeyResolution : t \in Times}

VARIABLES sharedQ,    \* _sharedQ: what the nodes pushed and nobody popped
          packets,    \* _packets: the cohort of each key, {} when absent
          packet,     \* the local of tdoa::run
          pc,         \* where the tdoa thread is
          terminate,  \* _terminate
          pushed,     \* history: every capture ever pushed
          freed,      \* captures deleted
          leaked,     \* captures no pointer reaches and nobody deleted
          results     \* history: the captures each pushed result rests on

vars == <<sharedQ, packets, packet, pc, terminate, pushed, freed, leaked, results>>

Held == {k \in Keys : packets[k] # {}}

Init ==
  /\ sharedQ = <<>>
  /\ packets = [k \in Keys |-> {}]
  /\ packet = NoCapture
  /\ pc = "loop"
  /\ terminate = FALSE
  /\ pushed = {} /\ freed = {} /\ leaked = {} /\ results = {}

-----------------------------------------------------------------------------
(* Mutant of NodePush: captures of one node come in any order. *)
NodePushUnordered(c) ==
  /\ c \notin pushed
  /\ Len(sharedQ) < MaxQueue
  /\ sharedQ' = Append(sharedQ, c)
  /\ pushed' = pushed \cup {c}
  /\ UNCHANGED <<packets, packet, pc, terminate, freed, leaked, results>>

(* node::run in a node's thread: the captures of one node come in order of *)
(* their time, a measurement interval apart, and a further copy of a       *)
(* packet follows the one before it.                                       *)
NodePush(c) ==
  /\ c \notin pushed
  /\ \A d \in pushed : d.node = c.node => d.time = c.time \/ d.time + Interval <= c.time
  /\ c.copy = 1 \/ [c EXCEPT !.copy = c.copy - 1] \in pushed
  /\ Len(sharedQ) < MaxQueue
  /\ sharedQ' = Append(sharedQ, c)
  /\ pushed' = pushed \cup {c}
  /\ UNCHANGED <<packets, packet, pc, terminate, freed, leaked, results>>

(* tdoa::stop, called by main *)
Stop ==
  /\ ~terminate
  /\ terminate' = TRUE
  /\ UNCHANGED <<sharedQ, packets, packet, pc, pushed, freed, leaked, results>>

-----------------------------------------------------------------------------
(* tdoa::run: while (!_terminate) *)
LoopTest ==
  /\ pc = "loop"
  /\ pc' = IF terminate THEN "stopped" ELSE "front"
  /\ UNCHANGED <<sharedQ, packets, packet, terminate, pushed, freed, leaked, results>>

(* packet = _sharedQ.front(): blocks while the queue is empty and leaves   *)
(* the pointer in the queue.                                               *)
Front ==
  /\ pc = "front"
  /\ sharedQ # <<>>
  /\ packet' = Head(sharedQ)
  /\ pc' = "add"
  /\ UNCHANGED <<sharedQ, packets, terminate, pushed, freed, leaked, results>>

(* Nodes push only captures with samples, so the else branch that deletes  *)
(* an empty one is never taken.                                            *)
Add ==
  /\ pc = "add"
  /\ packets' = [packets EXCEPT ![Key(packet)] = @ \cup {packet}]
  /\ pc' = "manage"
  /\ UNCHANGED <<sharedQ, packet, terminate, pushed, freed, leaked, results>>

(* tdoa::process keeps the MaxUsed strongest captures; which they are      *)
(* depends on the signal.                                                  *)
StrongestOf(cohort) ==
  {used \in SUBSET cohort :
     Cardinality(used) = IF Cardinality(cohort) > MaxUsed THEN MaxUsed
                                                          ELSE Cardinality(cohort)}

(* A result needs MinUsed usable correlations and a good fit; the    *)
(* captures dropped from the vector are not deleted.                       *)
Locate(k) ==
  /\ Cardinality(packets[k]) >= MinUsed
  /\ \E used \in StrongestOf(packets[k]) :
       /\ freed' = freed \cup used
       /\ leaked' = leaked \cup (packets[k] \ used)
       /\ \/ results' = results
          \/ \E r \in SUBSET used :
               Cardinality(r) >= MinUsed /\ results' = results \cup {r}

(* Mutant of Discard: the captures of a small cohort are not deleted. *)
DiscardWithoutDelete(k) ==
  /\ Cardinality(packets[k]) < MinUsed
  /\ UNCHANGED <<freed, leaked, results>>

Discard(k) ==
  /\ Cardinality(packets[k]) < MinUsed
  /\ freed' = freed \cup packets[k]
  /\ UNCHANGED <<leaked, results>>

(* Mutant of Process: the map entry is not erased. *)
ProcessWithoutErase(k) ==
  /\ packets' = packets
  /\ Locate(k) \/ Discard(k)

Process(k) ==
  /\ packets' = [packets EXCEPT ![k] = {}]
  /\ Locate(k) \/ Discard(k)

(* tdoa::manageBuffer, first half *)
BufferEmpty ==
  /\ pc = "manage"
  /\ Held = {}
  /\ pc' = "pop"
  /\ UNCHANGED <<sharedQ, packets, packet, terminate, pushed, freed, leaked, results>>

(* Mutant of EvictOldest: the newest cohort is given up. *)
EvictNewest ==
  /\ pc = "manage"
  /\ Cardinality(Held) > BufferLimit
  /\ \E k \in Held : (\A j \in Held : k >= j) /\ Process(k)
  /\ pc' = "scan"
  /\ UNCHANGED <<sharedQ, packet, terminate, pushed>>

EvictOldest ==
  /\ pc = "manage"
  /\ Cardinality(Held) > BufferLimit
  /\ \E k \in Held : (\A j \in Held : k <= j) /\ Process(k)
  /\ pc' = "scan"
  /\ UNCHANGED <<sharedQ, packet, terminate, pushed>>

BufferFits ==
  /\ pc = "manage"
  /\ Held # {} /\ Cardinality(Held) <= BufferLimit
  /\ pc' = "scan"
  /\ UNCHANGED <<sharedQ, packets, packet, terminate, pushed, freed, leaked, results>>

(* Mutant of Complete: a cohort that allows a location is complete. *)
EnoughToLocate(k) == Cardinality(packets[k]) >= MinUsed

(* Mutant of Complete: the comparison is off by one. *)
MoreThanComplete(k) == Cardinality(packets[k]) > Cardinality(Nodes)

(* tdoa::manageBuffer, the loop over the map in key order *)
Complete(k) == Cardinality(packets[k]) = Cardinality(Nodes)

ProcessComplete ==
  /\ pc = "scan"
  /\ \E k \in Held : /\ Complete(k)
                     /\ \A j \in Held : Complete(j) => k <= j
                     /\ Process(k)
  /\ pc' = "manage"
  /\ UNCHANGED <<sharedQ, packet, terminate, pushed>>

(* Mutant of NoneComplete: the loop ends at the first incomplete cohort. *)
SomeIncomplete ==
  /\ pc = "scan"
  /\ \E k \in Held : ~Complete(k)
  /\ pc' = "pop"
  /\ UNCHANGED <<sharedQ, packets, packet, terminate, pushed, freed, leaked, results>>

NoneComplete ==
  /\ pc = "scan"
  /\ \A k \in Held : ~Complete(k)
  /\ pc' = "pop"
  /\ UNCHANGED <<sharedQ, packets, packet, terminate, pushed, freed, leaked, results>>

(* _sharedQ.pop() at the end of the turn *)
Pop ==
  /\ pc = "pop"
  /\ sharedQ' = Tail(sharedQ)
  /\ packet' = NoCapture
  /\ pc' = "loop"
  /\ UNCHANGED <<packets, terminate, pushed, freed, leaked, results>>

TdoaThread == \/ LoopTest \/ Front \/ Add
              \/ BufferEmpty \/ EvictOldest \/ BufferFits
              \/ ProcessComplete \/ NoneComplete \/ Pop

Next == \/ \E c \in Capture : NodePush(c)
        \/ Stop
        \/ TdoaThread

Spec == Init /\ [][Next]_vars
FairSpec == Spec /\ WF_vars(TdoaThread)

-----------------------------------------------------------------------------
TypeOK ==
  /\ sharedQ \in Seq(Capture)
  /\ packets \in [Keys -> SUBSET Capture]
  /\ packet \in Capture \cup {NoCapture}
  /\ pc \in {"loop", "front", "add", "manage", "scan", "pop", "stopped"}
  /\ terminate \in BOOLEAN
  /\ pushed \subseteq Capture
  /\ freed \subseteq pushed
  /\ leaked \subseteq pushed
  /\ results \subseteq SUBSET pushed

(* The queue entries that still own their capture.  From the moment the    *)
(* head was added to a cohort until it is popped, the cohort owns it.      *)
OwnFrom == IF pc \in {"manage", "scan", "pop"} THEN 2 ELSE 1
QueueOwns == {sharedQ[i] : i \in OwnFrom..Len(sharedQ)}
CohortOwns == UNION {packets[k] : k \in Keys}

(* No pointer the program may still follow points to a deleted capture:    *)
(* neither one of a cohort, nor a queue entry still to be taken, nor the   *)
(* local the thread is about to add.                                       *)
NoUseAfterFree ==
  /\ (QueueOwns \cup CohortOwns) \cap freed = {}
  /\ pc = "add" => packet \notin freed

(* Every capture pushed has exactly one fate at every moment: no capture   *)
(* is lost between queue and cohorts, and none is in two cohorts.          *)
Conservation ==
  /\ pushed = QueueOwns \cup CohortOwns \cup freed \cup leaked
  /\ QueueOwns \cap CohortOwns = {}
  /\ freed \cap leaked = {}
  /\ leaked \cap (QueueOwns \cup CohortOwns) = {}
  /\ \A j, k \in Keys : j # k => packets[j] \cap packets[k] = {}

(* The reorder buffer is bounded: between two turns of the loop at most    *)
(* BufferLimit cohorts are held, one more until manageBuffer has run.      *)
BufferBound ==
  Cardinality(Held) <= IF pc = "manage" THEN BufferLimit + 1 ELSE BufferLimit

(* Between two turns no complete cohort waits, and none ever has more      *)
(* captures than there are nodes, so the == test of manageBuffer cannot    *)
(* be jumped over.                                                         *)
NoCompleteCohortWaits ==
  /\ \A k \in Keys : Cardinality(packets[k]) <= Cardinality(Nodes)
  /\ pc \in {"loop", "front", "add", "pop"} => \A k \in Held : ~Complete(k)

(* Some captures of key k were processed already. *)
Closed(k) == \E c \in freed \cup leaked : Key(c) = k

(* A capture that arrives after its cohort was given up opens the key once *)
(* more, alone; manageBuffer throws it out in the same turn, because the   *)
(* cohorts that overtook it are all still held.  So stragglers take no     *)
(* place in the buffer.                                                    *)
StragglersDiscarded ==
  \A k \in Held : Closed(k) => pc = "manage" /\ packets[k] = {packet}

(* No measurement is located twice, however its captures are delayed. *)
OneResultPerKey ==
  \A r, s \in results : (\E c \in r, d \in s : Key(c) = Key(d)) => r = s

(* A capture contributes to at most one result, and a result rests on      *)
(* MinUsed to MaxUsed captures of one key.                                 *)
ResultsSound ==
  /\ \A r \in results : /\ Cardinality(r) \in MinUsed..MaxUsed
                        /\ \A c, d \in r : Key(c) = Key(d)
  /\ \A r, s \in results : r # s => r \cap s = {}

(* Captures of at least BufferLimit keys newer than k were pushed *)
Overtaken(k) == Cardinality({Key(c) : c \in {d \in pushed : Key(d) > k}}) >= BufferLimit

(* Slow nodes are waited for: a cohort with captures missing is given up   *)
(* only when captures of BufferLimit newer keys have been pushed.          *)
GivenUpOnlyWhenOvertaken ==
  [][\A k \in Keys :
       (k \in Held /\ ~Complete(k) /\ packets'[k] = {}) => Overtaken(k)]_vars

(* process pops the captures beyond the MaxUsed strongest off the cohort   *)
(* and forgets them.  That is all that is ever forgotten: when no more     *)
(* nodes are configured than are used for a location, nothing is leaked,   *)
(* whatever becomes of late, discarded and located captures.               *)
NothingLeaked == Cardinality(Nodes) <= MaxUsed => leaked = {}

(* The state of the collector in every step: within the bound, no complete *)
(* cohort is left waiting, nothing is forgotten that need not be, and what *)
(* was published rests on captures of one measurement, each used once.     *)
CollectorInv ==
  TypeOK /\ BufferBound /\ NoCompleteCohortWaits /\ NothingLeaked /\ ResultsSound

(* Queued(c): c is in the queue, taken or not *)
Queued(c) == \E i \in 1..Len(sharedQ) : sharedQ[i] = c

(* The thread keeps up: a pushed capture leaves the queue unless the       *)
(* program is being stopped.                                               *)
QueueDrains ==
  \A c \in Capture : Queued(c) ~> (terminate \/ ~Queued(c))

(* A measurement every node has delivered is used and its captures are     *)
(* released, unless the cohort was given up first.                         *)
DeliveredByAll(k) == \A n \in Nodes : \E c \in pushed : c.node = n /\ Key(c) = k
Resolved(k) == \A c \in pushed : Key(c) = k => c \in freed \cup leaked
DeliveredIsResolved ==
  \A k \in Keys : DeliveredByAll(k) ~> (terminate \/ Overtaken(k) \/ Resolved(k))

(* The tdoa thread keeps up with the nodes, in both respects.              *)
CollectorKeepsUp == QueueDrains /\ DeliveredIsResolved
=============================================================================
