----------------------------- MODULE TdoaProofs -----------------------------
(***************************************************************************)
(* Proofs about the collector of module Tdoa, for every set of nodes, every*)
(* set of time stamps and every value of the parameters.                   *)
(***************************************************************************)
EXTENDS Tdoa, FiniteSetTheorems, TLAPS

(* The head of the queue is the capture in hand until it is popped. *)
InHand == pc \in {"add", "manage", "scan", "pop"}
            => /\ Len(sharedQ) > 0
               /\ packet = sharedQ[1]

(* Queue entries are distinct, and those the queue still owns are owned by *)
(* nobody else.                                                            *)
QueueOk ==
  /\ \A i \in 1..Len(sharedQ) : sharedQ[i] \in pushed
  /\ \A i, j \in 1..Len(sharedQ) : sharedQ[i] = sharedQ[j] => i = j
  /\ \A i \in OwnFrom..Len(sharedQ) :
       /\ sharedQ[i] \notin freed
       /\ sharedQ[i] \notin leaked
       /\ \A k \in Keys : sharedQ[i] \notin packets[k]

CohortOk ==
  \A k \in Keys : \A c \in packets[k] :
     c \in pushed /\ Key(c) = k /\ c \notin freed /\ c \notin leaked

FateOk ==
  /\ \A c \in freed : c \notin leaked
  /\ \A c \in pushed : \/ \E i \in OwnFrom..Len(sharedQ) : sharedQ[i] = c
                       \/ \E k \in Keys : c \in packets[k]
                       \/ c \in freed
                       \/ c \in leaked

OwnerInv == TypeOK /\ InHand /\ QueueOk /\ CohortOk /\ FateOk

-----------------------------------------------------------------------------
(* Every capture has a key among Keys, and a key is a natural number. *)
LEMMA KeyType == \A c \in Capture : Key(c) \in Keys
BY DEF Capture, Key, Keys

LEMMA KeysNat == Keys \subseteq Nat
<1>1. ASSUME NEW t \in Times PROVE t \div KeyResolution \in Nat
  BY TimesAssumption, ParameterAssumption
<1> QED BY <1>1 DEF Keys

(* What processing a cohort does to the owners: it empties exactly that    *)
(* cohort and parts its captures between freed and leaked.                 *)
LEMMA ProcessEffect ==
  ASSUME TypeOK, NEW k \in Keys, Process(k)
  PROVE  /\ packets' = [packets EXCEPT ![k] = {}]
         /\ \E used \in SUBSET packets[k] :
              /\ freed' = freed \cup used
              /\ leaked' = leaked \cup (packets[k] \ used)
         /\ results' \subseteq results \cup SUBSET packets[k]
<1>1. packets' = [packets EXCEPT ![k] = {}]
  BY DEF Process
<1>2. CASE Locate(k)
  <2>1. PICK used \in StrongestOf(packets[k]) :
          /\ freed' = freed \cup used
          /\ leaked' = leaked \cup (packets[k] \ used)
          /\ \/ results' = results
             \/ \E r \in SUBSET used : results' = results \cup {r}
    BY <1>2 DEF Locate
  <2>2. used \in SUBSET packets[k]
    BY <2>1 DEF StrongestOf
  <2> QED BY <1>1, <2>1, <2>2
<1>3. CASE Discard(k)
  <2>1. /\ packets[k] \in SUBSET packets[k]
        /\ freed' = freed \cup packets[k]
        /\ leaked' = leaked \cup (packets[k] \ packets[k])
    BY <1>3 DEF Discard
  <2> QED BY <1>1, <1>3, <2>1 DEF Discard
<1> QED BY <1>2, <1>3 DEF Process

-----------------------------------------------------------------------------
LEMMA TypeInit == Init => TypeOK
<1> SUFFICES ASSUME Init PROVE TypeOK
  OBVIOUS
<1>1. sharedQ \in Seq(Capture)
  BY DEF Init
<1>2. packets \in [Keys -> SUBSET Capture]
  BY DEF Init
<1> QED BY <1>1, <1>2 DEF Init, TypeOK

(* Type correctness of each step of the thread that processes a cohort. *)
LEMMA TypeProcess ==
  ASSUME TypeOK, CohortOk, NEW k \in Keys, Process(k)
  PROVE  /\ packets' \in [Keys -> SUBSET Capture]
         /\ freed' \subseteq pushed
         /\ leaked' \subseteq pushed
         /\ results' \subseteq SUBSET pushed
<1>1. packets[k] \subseteq pushed
  BY DEF CohortOk
<1>2. PICK used \in SUBSET packets[k] :
        /\ freed' = freed \cup used
        /\ leaked' = leaked \cup (packets[k] \ used)
  BY ProcessEffect
<1>3. packets' = [packets EXCEPT ![k] = {}]
  BY ProcessEffect
<1>4. packets' \in [Keys -> SUBSET Capture]
  BY <1>3 DEF TypeOK
<1>5. results' \subseteq results \cup SUBSET packets[k]
  BY ProcessEffect
<1> QED BY <1>1, <1>2, <1>4, <1>5 DEF TypeOK

-----------------------------------------------------------------------------
(* Processing a cohort, as EvictOldest and ProcessComplete do it, keeps    *)
(* the owners apart.                                                       *)
LEMMA OwnerProcess ==
  ASSUME OwnerInv, NEW k \in Keys, Process(k),
         pc \in {"manage", "scan"}, pc' \in {"manage", "scan"},
         UNCHANGED <<sharedQ, packet, terminate, pushed>>
  PROVE  OwnerInv'
<1> USE DEF OwnerInv
<1>1. packets' = [packets EXCEPT ![k] = {}]
  BY ProcessEffect
<1>2. PICK used \in SUBSET packets[k] :
        /\ freed' = freed \cup used
        /\ leaked' = leaked \cup (packets[k] \ used)
  BY ProcessEffect
<1>3. OwnFrom' = OwnFrom
  BY DEF OwnFrom
<1>4. \A j \in Keys : packets'[j] = IF j = k THEN {} ELSE packets[j]
  BY <1>1 DEF TypeOK
<1>5. TypeOK'
  <2>1. /\ packets' \in [Keys -> SUBSET Capture]
        /\ freed' \subseteq pushed
        /\ leaked' \subseteq pushed
        /\ results' \subseteq SUBSET pushed
    BY TypeProcess
  <2> QED BY <2>1 DEF TypeOK
<1>6. InHand'
  BY DEF InHand
<1>7. QueueOk'
  <2>1. \A i \in OwnFrom..Len(sharedQ) :
          /\ sharedQ[i] \notin freed'
          /\ sharedQ[i] \notin leaked'
          /\ \A j \in Keys : sharedQ[i] \notin packets'[j]
    BY <1>2, <1>4 DEF QueueOk
  <2> QED BY <2>1, <1>3 DEF QueueOk
<1>8. CohortOk'
  <2>1. ASSUME NEW j \in Keys, NEW c \in packets'[j]
        PROVE  c \in pushed /\ Key(c) = j /\ c \notin freed' /\ c \notin leaked'
    <3>1. j # k /\ c \in packets[j]
      BY <1>4
    <3>2. c \notin packets[k]
      BY <3>1 DEF CohortOk
    <3> QED BY <3>1, <3>2, <1>2 DEF CohortOk
  <2> QED BY <2>1 DEF CohortOk, Key
<1>9. FateOk'
  <2>1. \A c \in freed' : c \notin leaked'
    BY <1>2 DEF FateOk, CohortOk
  <2>2. \A c \in packets[k] : c \in freed' \/ c \in leaked'
    BY <1>2
  <2>3. \A c \in pushed : \/ \E i \in OwnFrom..Len(sharedQ) : sharedQ[i] = c
                          \/ \E j \in Keys : c \in packets'[j]
                          \/ c \in freed'
                          \/ c \in leaked'
    BY <1>2, <1>4, <2>2 DEF FateOk
  <2> QED BY <2>1, <2>3, <1>3 DEF FateOk
<1> QED BY <1>5, <1>6, <1>7, <1>8, <1>9

(* A step that only moves the thread on changes no owner. *)
LEMMA OwnerMove ==
  ASSUME OwnerInv,
         UNCHANGED <<sharedQ, packets, pushed, freed, leaked, results>>,
         OwnFrom' = OwnFrom, TypeOK', InHand'
  PROVE  OwnerInv'
<1>1. QueueOk'
  BY DEF OwnerInv, QueueOk
<1>2. CohortOk'
  BY DEF OwnerInv, CohortOk, Key
<1>3. FateOk'
  BY DEF OwnerInv, FateOk
<1> QED BY <1>1, <1>2, <1>3 DEF OwnerInv

-----------------------------------------------------------------------------
LEMMA OwnerInit == Init => OwnerInv
<1> SUFFICES ASSUME Init PROVE OwnerInv
  OBVIOUS
<1>1. TypeOK
  BY TypeInit
<1>2. Len(sharedQ) = 0 /\ OwnFrom = 1
  BY DEF Init, OwnFrom
<1>3. InHand /\ QueueOk
  BY <1>2 DEF Init, InHand, QueueOk
<1>4. CohortOk /\ FateOk
  BY DEF Init, CohortOk, FateOk
<1> QED BY <1>1, <1>3, <1>4 DEF OwnerInv

(* A node appends a capture nobody has seen before. *)
LEMMA OwnerNodePush ==
  ASSUME OwnerInv, NEW c \in Capture, NodePush(c)
  PROVE  OwnerInv'
<1> USE DEF OwnerInv
<1>1. /\ c \notin pushed
      /\ pushed' = pushed \cup {c}
      /\ UNCHANGED <<packets, packet, pc, terminate, freed, leaked, results>>
      /\ sharedQ' = Append(sharedQ, c)
  BY DEF NodePush
<1>2. /\ Len(sharedQ') = Len(sharedQ) + 1
      /\ Len(sharedQ) \in Nat
      /\ \A i \in 1..Len(sharedQ) : sharedQ'[i] = sharedQ[i]
      /\ sharedQ'[Len(sharedQ) + 1] = c
      /\ sharedQ' \in Seq(Capture)
  BY <1>1 DEF TypeOK
<1>3. OwnFrom' = OwnFrom /\ OwnFrom \in 1..2
  BY <1>1 DEF OwnFrom
<1>4. OwnFrom <= Len(sharedQ) + 1
  BY <1>2 DEF OwnFrom, InHand
<1>5. TypeOK'
  BY <1>1, <1>2 DEF TypeOK
<1>6. InHand'
  BY <1>1, <1>2 DEF InHand
<1>7. c \notin freed /\ c \notin leaked /\ \A k \in Keys : c \notin packets[k]
  BY <1>1 DEF TypeOK, CohortOk
<1>8. QueueOk'
  <2>1. \A i \in 1..Len(sharedQ') : i \in 1..Len(sharedQ) \/ i = Len(sharedQ) + 1
    BY <1>2
  <2>2. \A i \in 1..Len(sharedQ') : sharedQ'[i] \in pushed'
    BY <1>1, <1>2, <2>1 DEF QueueOk
  <2>3. \A i, j \in 1..Len(sharedQ') : sharedQ'[i] = sharedQ'[j] => i = j
    BY <1>1, <1>2, <2>1 DEF QueueOk
  <2>4. ASSUME NEW i \in OwnFrom..Len(sharedQ')
        PROVE  /\ sharedQ'[i] \notin freed
               /\ sharedQ'[i] \notin leaked
               /\ \A k \in Keys : sharedQ'[i] \notin packets[k]
    <3>1. CASE i \in OwnFrom..Len(sharedQ)
      BY <3>1, <1>2, <1>3 DEF QueueOk
    <3>2. CASE i = Len(sharedQ) + 1
      BY <3>2, <1>2, <1>7
    <3> QED BY <3>1, <3>2, <1>2, <1>3
  <2> QED BY <2>2, <2>3, <2>4, <1>1, <1>3 DEF QueueOk
<1>9. CohortOk'
  BY <1>1 DEF CohortOk, Key
<1>10. FateOk'
  <2>1. ASSUME NEW d \in pushed'
        PROVE  \/ \E i \in OwnFrom..Len(sharedQ') : sharedQ'[i] = d
               \/ \E k \in Keys : d \in packets[k]
               \/ d \in freed
               \/ d \in leaked
    <3>1. CASE d = c
      <4>1. Len(sharedQ) + 1 \in OwnFrom..Len(sharedQ')
        BY <1>2, <1>3, <1>4
      <4> QED BY <3>1, <4>1, <1>2
    <3>2. CASE \E i \in OwnFrom..Len(sharedQ) : sharedQ[i] = d
      <4>1. PICK i \in OwnFrom..Len(sharedQ) : sharedQ[i] = d
        BY <3>2
      <4>2. i \in OwnFrom..Len(sharedQ') /\ sharedQ'[i] = d
        BY <4>1, <1>2, <1>3
      <4> QED BY <4>2
    <3> QED BY <3>1, <3>2, <1>1 DEF FateOk
  <2>2. \A d \in freed' : d \notin leaked'
    BY <1>1 DEF FateOk
  <2> QED BY <2>1, <2>2, <1>1, <1>3 DEF FateOk
<1> QED BY <1>5, <1>6, <1>8, <1>9, <1>10

(* Adding the capture in hand hands it from the queue to its cohort. *)
LEMMA OwnerAdd ==
  ASSUME OwnerInv, Add
  PROVE  OwnerInv'
<1> USE DEF OwnerInv
<1>1. /\ pc = "add" /\ pc' = "manage"
      /\ packets' = [packets EXCEPT ![Key(packet)] = @ \cup {packet}]
      /\ UNCHANGED <<sharedQ, packet, terminate, pushed, freed, leaked, results>>
  BY DEF Add
<1>2. OwnFrom = 1 /\ OwnFrom' = 2
  BY <1>1 DEF OwnFrom
<1>3. Len(sharedQ) \in Nat /\ Len(sharedQ) > 0 /\ packet = sharedQ[1]
  BY <1>1 DEF InHand, TypeOK
<1>4. packet \in Capture /\ packet \in pushed /\ Key(packet) \in Keys
  BY <1>3, KeyType DEF QueueOk, TypeOK
<1>5. \A k \in Keys : packets'[k] = IF k = Key(packet) THEN packets[k] \cup {packet}
                                                     ELSE packets[k]
  BY <1>1, <1>4 DEF TypeOK
<1>6. TypeOK'
  <2>1. packets' \in [Keys -> SUBSET Capture]
    BY <1>1, <1>4 DEF TypeOK
  <2> QED BY <2>1, <1>1 DEF TypeOK
<1>7. InHand'
  BY <1>1, <1>3 DEF InHand
<1>8. QueueOk'
  <2>1. ASSUME NEW i \in 2..Len(sharedQ)
        PROVE  /\ sharedQ[i] \notin freed
               /\ sharedQ[i] \notin leaked
               /\ \A k \in Keys : sharedQ[i] \notin packets'[k]
    <3>1. sharedQ[i] # packet
      BY <1>3 DEF QueueOk
    <3>2. i \in OwnFrom..Len(sharedQ)
      BY <1>2, <1>3
    <3> QED BY <3>1, <3>2, <1>5 DEF QueueOk
  <2> QED BY <2>1, <1>1, <1>2 DEF QueueOk
<1>9. CohortOk'
  <2>1. 1 \in OwnFrom..Len(sharedQ)
    BY <1>2, <1>3
  <2>2. packet \notin freed /\ packet \notin leaked
    BY <2>1, <1>3 DEF QueueOk
  <2>3. ASSUME NEW k \in Keys, NEW c \in packets'[k]
        PROVE  c \in pushed /\ Key(c) = k /\ c \notin freed /\ c \notin leaked
    BY <2>2, <1>4, <1>5 DEF CohortOk
  <2> QED BY <2>3, <1>1 DEF CohortOk, Key
<1>10. FateOk'
  <2>1. ASSUME NEW d \in pushed
        PROVE  \/ \E i \in 2..Len(sharedQ) : sharedQ[i] = d
               \/ \E k \in Keys : d \in packets'[k]
               \/ d \in freed
               \/ d \in leaked
    <3>1. CASE d = packet
      BY <3>1, <1>4, <1>5
    <3>2. CASE d # packet /\ \E i \in 1..Len(sharedQ) : sharedQ[i] = d
      BY <3>2, <1>3
    <3> QED BY <3>1, <3>2, <1>2, <1>5 DEF FateOk
  <2> QED BY <2>1, <1>1, <1>2 DEF FateOk
<1> QED BY <1>6, <1>7, <1>8, <1>9, <1>10

(* Popping removes the entry whose capture a cohort has taken over. *)
LEMMA OwnerPop ==
  ASSUME OwnerInv, Pop
  PROVE  OwnerInv'
<1> USE DEF OwnerInv
<1>1. /\ pc = "pop" /\ pc' = "loop"
      /\ sharedQ' = Tail(sharedQ)
      /\ packet' = NoCapture
      /\ UNCHANGED <<packets, terminate, pushed, freed, leaked, results>>
  BY DEF Pop
<1>2. OwnFrom = 2 /\ OwnFrom' = 1
  BY <1>1 DEF OwnFrom
<1>3. Len(sharedQ) \in Nat /\ Len(sharedQ) > 0 /\ sharedQ # <<>>
  BY <1>1 DEF InHand, TypeOK
<1>4. /\ Len(sharedQ') = Len(sharedQ) - 1
      /\ \A i \in 1..Len(sharedQ') : sharedQ'[i] = sharedQ[i + 1]
      /\ sharedQ' \in Seq(Capture)
  BY <1>1, <1>3 DEF TypeOK
<1>5. TypeOK'
  BY <1>1, <1>4 DEF TypeOK
<1>6. InHand'
  BY <1>1 DEF InHand
<1>7. \A i \in 1..Len(sharedQ') : i + 1 \in 1..Len(sharedQ) /\ i + 1 \in OwnFrom..Len(sharedQ)
  BY <1>2, <1>3, <1>4
<1>8. QueueOk'
  <2>1. \A i \in 1..Len(sharedQ') :
          /\ sharedQ'[i] \in pushed
          /\ sharedQ'[i] \notin freed
          /\ sharedQ'[i] \notin leaked
          /\ \A k \in Keys : sharedQ'[i] \notin packets[k]
    BY <1>4, <1>7 DEF QueueOk
  <2>2. ASSUME NEW i \in 1..Len(sharedQ'), NEW j \in 1..Len(sharedQ'),
               sharedQ'[i] = sharedQ'[j]
        PROVE  i = j
    <3>1. i + 1 = j + 1
      BY <2>2, <1>4, <1>7 DEF QueueOk
    <3> QED BY <3>1
  <2> QED BY <2>1, <2>2, <1>1, <1>2 DEF QueueOk
<1>9. CohortOk'
  BY <1>1 DEF CohortOk, Key
<1>10. FateOk'
  <2>1. ASSUME NEW i \in 2..Len(sharedQ)
        PROVE  \E j \in 1..Len(sharedQ') : sharedQ'[j] = sharedQ[i]
    <3>1. i - 1 \in 1..Len(sharedQ') /\ (i - 1) + 1 = i
      BY <1>3, <1>4
    <3>2. sharedQ'[i - 1] = sharedQ[(i - 1) + 1]
      BY <3>1, <1>4
    <3> QED BY <3>1, <3>2
  <2>2. \A d \in pushed : \/ \E i \in 2..Len(sharedQ) : sharedQ[i] = d
                          \/ \E k \in Keys : d \in packets[k]
                          \/ d \in freed
                          \/ d \in leaked
    BY <1>2 DEF FateOk
  <2>3. \A d \in pushed : \/ \E j \in 1..Len(sharedQ') : sharedQ'[j] = d
                          \/ \E k \in Keys : d \in packets[k]
                          \/ d \in freed
                          \/ d \in leaked
    BY <2>1, <2>2
  <2>4. \A c \in freed : c \notin leaked
    BY DEF FateOk
  <2> QED BY <2>3, <2>4, <1>1, <1>2 DEF FateOk
<1> QED BY <1>5, <1>6, <1>8, <1>9, <1>10

-----------------------------------------------------------------------------
LEMMA OwnerNext == OwnerInv /\ [Next]_vars => OwnerInv'
<1> SUFFICES ASSUME OwnerInv, [Next]_vars PROVE OwnerInv'
  OBVIOUS
<1>1. ASSUME NEW c \in Capture, NodePush(c) PROVE OwnerInv'
  BY <1>1, OwnerNodePush
<1>2. CASE Stop
  BY <1>2, OwnerMove DEF Stop, OwnerInv, TypeOK, InHand, OwnFrom
<1>3. CASE LoopTest
  <2>1. OwnFrom' = OwnFrom /\ InHand' /\ TypeOK'
    BY <1>3 DEF LoopTest, OwnerInv, TypeOK, InHand, OwnFrom
  <2> QED BY <1>3, <2>1, OwnerMove DEF LoopTest
<1>4. CASE Front
  <2>1. OwnFrom' = OwnFrom
    BY <1>4 DEF Front, OwnFrom
  <2>2. /\ Len(sharedQ) > 0
        /\ Head(sharedQ) = sharedQ[1]
        /\ Head(sharedQ) \in Capture
    BY <1>4 DEF Front, OwnerInv, TypeOK
  <2>3. InHand' /\ TypeOK'
    BY <1>4, <2>2 DEF Front, OwnerInv, TypeOK, InHand
  <2> QED BY <1>4, <2>1, <2>3, OwnerMove DEF Front
<1>5. CASE Add
  BY <1>5, OwnerAdd
<1>6. CASE BufferEmpty
  <2>1. OwnFrom' = OwnFrom /\ InHand' /\ TypeOK'
    BY <1>6 DEF BufferEmpty, OwnerInv, TypeOK, InHand, OwnFrom
  <2> QED BY <1>6, <2>1, OwnerMove DEF BufferEmpty
<1>7. CASE EvictOldest
  <2>1. PICK k \in Keys : Process(k)
    BY <1>7 DEF EvictOldest, Held
  <2> QED BY <1>7, <2>1, OwnerProcess DEF EvictOldest
<1>8. CASE BufferFits
  <2>1. OwnFrom' = OwnFrom /\ InHand' /\ TypeOK'
    BY <1>8 DEF BufferFits, OwnerInv, TypeOK, InHand, OwnFrom
  <2> QED BY <1>8, <2>1, OwnerMove DEF BufferFits
<1>9. CASE ProcessComplete
  <2>1. PICK k \in Keys : Process(k)
    BY <1>9 DEF ProcessComplete, Held
  <2> QED BY <1>9, <2>1, OwnerProcess DEF ProcessComplete
<1>10. CASE NoneComplete
  <2>1. OwnFrom' = OwnFrom /\ InHand' /\ TypeOK'
    BY <1>10 DEF NoneComplete, OwnerInv, TypeOK, InHand, OwnFrom
  <2> QED BY <1>10, <2>1, OwnerMove DEF NoneComplete
<1>11. CASE Pop
  BY <1>11, OwnerPop
<1>12. CASE UNCHANGED vars
  <2>1. OwnFrom' = OwnFrom /\ InHand' /\ TypeOK'
    BY <1>12 DEF vars, OwnerInv, TypeOK, InHand, OwnFrom
  <2> QED BY <1>12, <2>1, OwnerMove DEF vars
<1> QED BY <1>1, <1>2, <1>3, <1>4, <1>5, <1>6, <1>7, <1>8, <1>9, <1>10, <1>11, <1>12
        DEF Next, TdoaThread

LEMMA OwnerInvariant == Spec => []OwnerInv
BY OwnerInit, OwnerNext, PTL DEF Spec

(* Every variable of the collector keeps its type: in particular results   *)
(* and deletions only ever concern captures that were pushed.              *)
THEOREM TypeCorrect == Spec => []TypeOK
<1>1. OwnerInv => TypeOK
  BY DEF OwnerInv
<1> QED BY <1>1, OwnerInvariant, PTL

(* tdoa::run takes the pointer with front() and pops it only at the end of *)
(* the turn, while process may already have deleted the capture: no        *)
(* pointer the program may still follow is a dangling one.                 *)
THEOREM NeverUsedAfterFree == Spec => []NoUseAfterFree
<1>1. ASSUME OwnerInv PROVE NoUseAfterFree
  <2>1. \A c \in QueueOwns : c \notin freed
    BY <1>1 DEF OwnerInv, QueueOk, QueueOwns
  <2>2. \A c \in CohortOwns : c \notin freed
    BY <1>1 DEF OwnerInv, CohortOk, CohortOwns
  <2>3. ASSUME pc = "add" PROVE packet \notin freed
    <3>1. OwnFrom = 1 /\ Len(sharedQ) \in Nat
      BY <1>1, <2>3 DEF OwnFrom, OwnerInv, TypeOK
    <3>2. Len(sharedQ) > 0 /\ packet = sharedQ[1]
      BY <1>1, <2>3 DEF OwnerInv, InHand
    <3>3. 1 \in OwnFrom..Len(sharedQ)
      BY <3>1, <3>2
    <3> QED BY <1>1, <3>2, <3>3 DEF OwnerInv, QueueOk
  <2> QED BY <2>1, <2>2, <2>3 DEF NoUseAfterFree
<1>2. OwnerInv => NoUseAfterFree
  BY <1>1
<1> QED BY <1>2, OwnerInvariant, PTL

(* Every capture a node pushed is, at every moment, in exactly one place:  *)
(* waiting in the queue, in one cohort, deleted, or leaked.                *)
THEOREM CapturesConserved == Spec => []Conservation
<1>1. ASSUME OwnerInv PROVE Conservation
  <2>1. OwnFrom \in 1..2 /\ OwnFrom..Len(sharedQ) \subseteq 1..Len(sharedQ)
    BY <1>1 DEF OwnFrom, OwnerInv, TypeOK
  <2>2. \A c \in QueueOwns : c \in pushed
    BY <1>1, <2>1 DEF OwnerInv, QueueOk, QueueOwns
  <2>3. \A c \in CohortOwns : c \in pushed
    BY <1>1 DEF OwnerInv, CohortOk, CohortOwns
  <2>4. \A c \in pushed : c \in QueueOwns \cup CohortOwns \cup freed \cup leaked
    BY <1>1 DEF OwnerInv, FateOk, QueueOwns, CohortOwns
  <2>5. pushed = QueueOwns \cup CohortOwns \cup freed \cup leaked
    BY <1>1, <2>2, <2>3, <2>4 DEF OwnerInv, TypeOK
  <2>6. \A c \in QueueOwns : c \notin CohortOwns /\ c \notin leaked
    BY <1>1 DEF OwnerInv, QueueOk, QueueOwns, CohortOwns
  <2>7. \A c \in CohortOwns : c \notin leaked
    BY <1>1 DEF OwnerInv, CohortOk, CohortOwns
  <2>8. freed \cap leaked = {}
    BY <1>1 DEF OwnerInv, FateOk
  <2>9. \A j, k \in Keys : j # k => packets[j] \cap packets[k] = {}
    BY <1>1 DEF OwnerInv, CohortOk
  <2> QED BY <2>5, <2>6, <2>7, <2>8, <2>9 DEF Conservation
<1>2. OwnerInv => Conservation
  BY <1>1
<1> QED BY <1>2, OwnerInvariant, PTL

-----------------------------------------------------------------------------
(* The sizes of cohorts and of the buffer. *)
LEMMA KeysFinite == IsFiniteSet(Keys)
<1> DEFINE f == [t \in Times |-> t \div KeyResolution]
<1>1. f \in Surjection(Times, Keys)
  BY DEF Surjection, Keys
<1> QED BY <1>1, FS_Surjection, TimesAssumption

LEMMA NodesCardinality == Cardinality(Nodes) \in Nat /\ Cardinality(Nodes) > 0
BY NodesAssumption, FS_CardinalityType, FS_EmptySet

LEMMA HeldFinite == IsFiniteSet(Held) /\ Cardinality(Held) \in Nat
BY KeysFinite, FS_Subset, FS_CardinalityType DEF Held

LEMMA HeldFiniteNext == IsFiniteSet(Held') /\ Cardinality(Held') \in Nat
BY KeysFinite, FS_Subset, FS_CardinalityType DEF Held

(* No cohort outgrows the number of nodes, and the thread leaves           *)
(* manageBuffer with no complete cohort behind it.                         *)
SizeOk == \A k \in Keys : /\ IsFiniteSet(packets[k])
                          /\ Cardinality(packets[k]) <= Cardinality(Nodes)
RestOk == pc \notin {"manage", "scan"} => \A k \in Held : ~Complete(k)

CohortInv == OwnerInv /\ SizeOk /\ RestOk /\ BufferBound

LEMMA CohortInit == Init => CohortInv
<1> SUFFICES ASSUME Init PROVE CohortInv
  OBVIOUS
<1>1. \A k \in Keys : packets[k] = {}
  BY DEF Init
<1>2. Held = {}
  BY <1>1 DEF Held
<1>3. SizeOk
  BY <1>1, FS_EmptySet, NodesCardinality DEF SizeOk
<1>4. RestOk
  BY <1>2 DEF RestOk
<1>5. BufferBound
  BY <1>2, FS_EmptySet, ParameterAssumption DEF BufferBound
<1> QED BY <1>3, <1>4, <1>5, OwnerInit DEF CohortInv

(* Adding a capture lengthens one cohort by one and opens at most one. *)
LEMMA CohortAdd ==
  ASSUME CohortInv, Add
  PROVE  SizeOk' /\ RestOk' /\ BufferBound'
<1>1. /\ pc = "add" /\ pc' = "manage"
      /\ packets' = [packets EXCEPT ![Key(packet)] = @ \cup {packet}]
  BY DEF Add
<1>2. packet = sharedQ[1] /\ Len(sharedQ) > 0 /\ sharedQ \in Seq(Capture)
  BY <1>1 DEF CohortInv, OwnerInv, InHand, TypeOK
<1>3. Key(packet) \in Keys
  BY <1>2, KeyType
<1>4. \A k \in Keys : packets'[k] = IF k = Key(packet) THEN packets[k] \cup {packet}
                                                     ELSE packets[k]
  BY <1>1, <1>3 DEF CohortInv, OwnerInv, TypeOK
<1>5. SizeOk'
  <2>1. ASSUME NEW k \in Keys
        PROVE  IsFiniteSet(packets'[k]) /\ Cardinality(packets'[k]) <= Cardinality(Nodes)
    <3>1. CASE k = Key(packet)
      <4>1. /\ IsFiniteSet(packets[k])
            /\ Cardinality(packets[k]) \in Nat
            /\ Cardinality(packets[k]) <= Cardinality(Nodes)
        BY FS_CardinalityType DEF CohortInv, SizeOk
      <4>2. Cardinality(packets[k]) < Cardinality(Nodes)
        <5>1. CASE packets[k] = {}
          BY <5>1, FS_EmptySet, NodesCardinality
        <5>2. CASE packets[k] # {}
          BY <5>2, <4>1, <1>1, NodesCardinality DEF CohortInv, RestOk, Held, Complete
        <5> QED BY <5>1, <5>2
      <4>3. /\ IsFiniteSet(packets[k] \cup {packet})
            /\ Cardinality(packets[k] \cup {packet}) <= Cardinality(packets[k]) + 1
        BY <4>1, FS_AddElement
      <4>4. Cardinality(packets[k] \cup {packet}) \in Nat
        BY <4>3, FS_CardinalityType
      <4>5. Cardinality(packets[k] \cup {packet}) <= Cardinality(Nodes)
        BY <4>1, <4>2, <4>3, <4>4, NodesCardinality
      <4> QED BY <3>1, <1>4, <4>3, <4>5
    <3>2. CASE k # Key(packet)
      BY <3>2, <1>4 DEF CohortInv, SizeOk
    <3> QED BY <3>1, <3>2
  <2> QED BY <2>1 DEF SizeOk
<1>6. RestOk'
  BY <1>1 DEF RestOk
<1>7. BufferBound'
  <2>1. Held' \subseteq Held \cup {Key(packet)}
    BY <1>4 DEF Held
  <2>2. /\ IsFiniteSet(Held \cup {Key(packet)})
        /\ Cardinality(Held \cup {Key(packet)}) <= Cardinality(Held) + 1
    BY HeldFinite, FS_AddElement
  <2>3. Cardinality(Held') <= Cardinality(Held \cup {Key(packet)})
    BY <2>1, <2>2, FS_Subset
  <2>4. Cardinality(Held) <= BufferLimit
    BY <1>1 DEF CohortInv, BufferBound
  <2>5. Cardinality(Held \cup {Key(packet)}) \in Nat
    BY <2>2, FS_CardinalityType
  <2>6. Cardinality(Held') <= BufferLimit + 1
    BY <2>2, <2>3, <2>4, <2>5, HeldFinite, HeldFiniteNext, ParameterAssumption
  <2> QED BY <2>6, <1>1 DEF BufferBound
<1> QED BY <1>5, <1>6, <1>7

(* Processing empties one cohort and touches no other. *)
LEMMA CohortProcess ==
  ASSUME CohortInv, NEW k \in Held, Process(k)
  PROVE  /\ SizeOk'
         /\ Held' = Held \ {k}
         /\ Cardinality(Held') = Cardinality(Held) - 1
<1>1. packets' = [packets EXCEPT ![k] = {}]
  BY DEF Process
<1>2. \A j \in Keys : packets'[j] = IF j = k THEN {} ELSE packets[j]
  BY <1>1 DEF CohortInv, OwnerInv, TypeOK
<1>3. SizeOk'
  BY <1>2, FS_EmptySet, NodesCardinality DEF CohortInv, SizeOk
<1>4. Held' = Held \ {k}
  BY <1>2 DEF Held
<1>5. Cardinality(Held') = Cardinality(Held) - 1
  BY <1>4, HeldFinite, FS_RemoveElement
<1> QED BY <1>3, <1>4, <1>5

LEMMA CohortNext == CohortInv /\ [Next]_vars => CohortInv'
<1> SUFFICES ASSUME CohortInv, [Next]_vars PROVE CohortInv'
  OBVIOUS
<1>1. OwnerInv'
  BY OwnerNext DEF CohortInv
<1>2. ASSUME UNCHANGED packets
      PROVE  SizeOk' /\ Held' = Held /\ \A k \in Keys : Complete(k)' = Complete(k)
  BY <1>2 DEF CohortInv, SizeOk, Held, Complete
<1>3. CASE UNCHANGED <<packets, pc>>
  BY <1>1, <1>2, <1>3 DEF CohortInv, RestOk, BufferBound, Held
<1>4. CASE LoopTest \/ Front \/ Pop
  <2>1. pc \notin {"manage", "scan"} /\ pc' \notin {"manage", "scan"} /\ UNCHANGED packets
    BY <1>4 DEF LoopTest, Front, Pop
  <2>2. RestOk' /\ BufferBound'
    BY <2>1, <1>2 DEF CohortInv, RestOk, BufferBound, Held
  <2> QED BY <1>1, <1>2, <2>1, <2>2 DEF CohortInv
<1>5. CASE Add
  BY <1>1, <1>5, CohortAdd DEF CohortInv
<1>6. CASE BufferEmpty
  BY <1>1, <1>2, <1>6, FS_EmptySet, ParameterAssumption
     DEF BufferEmpty, CohortInv, RestOk, BufferBound
<1>7. CASE EvictOldest
  <2>1. PICK k \in Held : Process(k)
    BY <1>7 DEF EvictOldest
  <2>2. pc = "manage" /\ pc' = "scan"
    BY <1>7 DEF EvictOldest
  <2>3. Cardinality(Held) <= BufferLimit + 1
    BY <2>2 DEF CohortInv, BufferBound
  <2>4. Cardinality(Held') <= BufferLimit
    BY <2>1, <2>3, CohortProcess, HeldFinite, ParameterAssumption
  <2>5. RestOk' /\ BufferBound'
    BY <2>2, <2>4 DEF RestOk, BufferBound
  <2> QED BY <1>1, <2>1, <2>5, CohortProcess DEF CohortInv
<1>8. CASE BufferFits
  BY <1>1, <1>2, <1>8 DEF BufferFits, CohortInv, RestOk, BufferBound
<1>9. CASE ProcessComplete
  <2>1. PICK k \in Held : Process(k)
    BY <1>9 DEF ProcessComplete
  <2>2. pc = "scan" /\ pc' = "manage"
    BY <1>9 DEF ProcessComplete
  <2>3. Cardinality(Held) <= BufferLimit
    BY <2>2 DEF CohortInv, BufferBound
  <2>4. Cardinality(Held') <= BufferLimit + 1
    BY <2>1, <2>3, CohortProcess, HeldFinite, ParameterAssumption
  <2>5. RestOk' /\ BufferBound'
    BY <2>2, <2>4 DEF RestOk, BufferBound
  <2> QED BY <1>1, <2>1, <2>5, CohortProcess DEF CohortInv
<1>10. CASE NoneComplete
  <2>1. pc = "scan" /\ pc' = "pop" /\ UNCHANGED packets /\ \A k \in Held : ~Complete(k)
    BY <1>10 DEF NoneComplete
  <2>2. RestOk'
    BY <2>1, <1>2 DEF RestOk, Held
  <2>3. BufferBound'
    BY <2>1, <1>2 DEF CohortInv, BufferBound
  <2> QED BY <1>1, <1>2, <2>1, <2>2, <2>3 DEF CohortInv
<1> QED BY <1>3, <1>4, <1>5, <1>6, <1>7, <1>8, <1>9, <1>10
        DEF Next, TdoaThread, NodePush, Stop, vars

LEMMA CohortInvariant == Spec => []CohortInv
BY CohortInit, CohortNext, PTL DEF Spec

(* However far the nodes run apart, manageBuffer holds at most BufferLimit *)
(* cohorts when it is left, and one more while it is entered.              *)
THEOREM BufferBounded == Spec => []BufferBound
<1>1. CohortInv => BufferBound
  BY DEF CohortInv
<1> QED BY <1>1, CohortInvariant, PTL

(* The == comparison of manageBuffer cannot be jumped over: no cohort ever *)
(* outgrows the number of nodes, and none waits complete between turns.    *)
THEOREM CompleteCohortsProcessed == Spec => []NoCompleteCohortWaits
<1>1. CohortInv => NoCompleteCohortWaits
  BY DEF CohortInv, SizeOk, RestOk, NoCompleteCohortWaits
<1> QED BY <1>1, CohortInvariant, PTL

(* The reorder buffer tolerates slow nodes: a cohort that still misses     *)
(* captures is given up by manageBuffer only when captures of at least     *)
(* BufferLimit newer keys have been pushed.                                *)
THEOREM SlowNodesWaitedFor == Spec => GivenUpOnlyWhenOvertaken
<1>1. ASSUME CohortInv, [Next]_vars, NEW k \in Held, ~Complete(k), packets'[k] = {}
      PROVE  Overtaken(k)
  <2>1. packets[k] # {} /\ k \in Keys
    BY <1>1 DEF Held
  <2>2. PICK j \in Held : Process(j) /\ (EvictOldest \/ ProcessComplete)
    <3>1. packets[k] # packets'[k]
      BY <1>1, <2>1
    <3>2. ~Add
      <4>1. SUFFICES ASSUME Add PROVE FALSE
        OBVIOUS
      <4>2. packets' = [packets EXCEPT ![Key(packet)] = @ \cup {packet}]
        BY <4>1 DEF Add
      <4>3. packets[k] \subseteq packets'[k]
        BY <1>1, <2>1, <4>2 DEF CohortInv, OwnerInv, TypeOK
      <4> QED BY <1>1, <2>1, <4>3
    <3> QED BY <1>1, <3>1, <3>2
            DEF Next, TdoaThread, NodePush, Stop, LoopTest, Front, BufferEmpty,
                EvictOldest, BufferFits, ProcessComplete, NoneComplete, Pop, vars
  <2>3. j = k
    <3>1. packets' = [packets EXCEPT ![j] = {}]
      BY <2>2 DEF Process
    <3> QED BY <1>1, <2>1, <3>1 DEF CohortInv, OwnerInv, TypeOK
  <2>4. EvictOldest
    <3>1. SUFFICES ASSUME ProcessComplete PROVE FALSE
      BY <2>2
    <3>2. PICK i \in Held : Complete(i) /\ Process(i)
      BY <3>1 DEF ProcessComplete
    <3>3. packets' = [packets EXCEPT ![i] = {}]
      BY <3>2 DEF Process
    <3>4. i = k
      BY <1>1, <2>1, <3>3 DEF CohortInv, OwnerInv, TypeOK
    <3> QED BY <1>1, <3>2, <3>4
  <2>5. PICK i \in Held : (\A h \in Held : i <= h) /\ Process(i)
    BY <2>4 DEF EvictOldest
  <2>6. i = k
    <3>1. packets' = [packets EXCEPT ![i] = {}]
      BY <2>5 DEF Process
    <3> QED BY <1>1, <2>1, <3>1 DEF CohortInv, OwnerInv, TypeOK
  <2>7. Cardinality(Held) > BufferLimit
    BY <2>4 DEF EvictOldest
  <2> DEFINE newer == {Key(c) : c \in {d \in pushed : Key(d) > k}}
  <2>8. Held \ {k} \subseteq newer
    <3>1. ASSUME NEW h \in Held, h # k PROVE h \in newer
      <4>1. PICK c \in packets[h] : TRUE
        BY DEF Held
      <4>2. c \in pushed /\ Key(c) = h
        BY <1>1, <4>1 DEF CohortInv, OwnerInv, CohortOk, Held
      <4>3. h > k
        <5>1. h \in Nat /\ k \in Nat
          BY <2>1, KeysNat DEF Held
        <5>2. k <= h
          BY <2>5, <2>6
        <5> QED BY <3>1, <5>1, <5>2
      <4> QED BY <4>2, <4>3
    <3> QED BY <3>1
  <2>9. newer \subseteq Keys
    BY <1>1, KeyType DEF CohortInv, OwnerInv, TypeOK
  <2>10. IsFiniteSet(newer) /\ Cardinality(newer) \in Nat
    BY <2>9, KeysFinite, FS_Subset, FS_CardinalityType
  <2>11. Cardinality(Held \ {k}) = Cardinality(Held) - 1
    BY HeldFinite, FS_RemoveElement, <1>1
  <2>12. Cardinality(Held \ {k}) <= Cardinality(newer)
    BY <2>8, <2>10, FS_Subset
  <2>13. Cardinality(newer) >= BufferLimit
    BY <2>7, <2>10, <2>11, <2>12, HeldFinite, ParameterAssumption
  <2> QED BY <2>13 DEF Overtaken
<1>2. CohortInv /\ [Next]_vars
        => [\A k \in Keys : (k \in Held /\ ~Complete(k) /\ packets'[k] = {}) => Overtaken(k)]_vars
  BY <1>1
<1> QED BY <1>2, CohortInvariant, PTL DEF Spec, GivenUpOnlyWhenOvertaken

-----------------------------------------------------------------------------
(* What a result rests on. *)
ResultOk(r) == /\ r \subseteq freed
               /\ IsFiniteSet(r)
               /\ Cardinality(r) \in MinUsed..MaxUsed
               /\ \A c, d \in r : Key(c) = Key(d)

ResultInv == /\ CohortInv
             /\ \A r \in results : ResultOk(r)
             /\ \A r, s \in results : r # s => r \cap s = {}

(* Processing a cohort adds at most one result, made of captures of that   *)
(* cohort that it deletes.                                                 *)
LEMMA ResultProcess ==
  ASSUME ResultInv, NEW k \in Keys, Process(k), CohortInv'
  PROVE  ResultInv'
<1>1. freed \subseteq freed'
  BY DEF Process, Locate, Discard
<1>2. \A r \in results : ResultOk(r)'
  BY <1>1 DEF ResultInv, ResultOk, Key
<1>3. CASE results' = results
  BY <1>2, <1>3 DEF ResultInv
<1>4. CASE results' # results
  <2>1. PICK used \in StrongestOf(packets[k]) :
          /\ freed' = freed \cup used
          /\ \E r \in SUBSET used : Cardinality(r) >= MinUsed /\ results' = results \cup {r}
    BY <1>4 DEF Process, Locate, Discard
  <2>2. PICK r \in SUBSET used : Cardinality(r) >= MinUsed /\ results' = results \cup {r}
    BY <2>1
  <2>3. used \subseteq packets[k] /\ IsFiniteSet(packets[k])
    BY <2>1 DEF StrongestOf, ResultInv, CohortInv, SizeOk
  <2>4. IsFiniteSet(used) /\ Cardinality(used) \in Nat /\ Cardinality(packets[k]) \in Nat
    BY <2>3, FS_Subset, FS_CardinalityType
  <2>5. Cardinality(used) <= MaxUsed
    BY <2>1, <2>4, ParameterAssumption DEF StrongestOf
  <2>6. IsFiniteSet(r) /\ Cardinality(r) <= Cardinality(used) /\ Cardinality(r) \in Nat
    BY <2>4, FS_Subset, FS_CardinalityType
  <2>7. Cardinality(r) \in MinUsed..MaxUsed
    BY <2>2, <2>4, <2>5, <2>6, ParameterAssumption
  <2>8. \A c \in r : Key(c) = k /\ c \notin freed
    BY <2>3 DEF ResultInv, CohortInv, OwnerInv, CohortOk
  <2>9. ResultOk(r)'
    BY <2>1, <2>6, <2>7, <2>8 DEF ResultOk, Key
  <2>10. \A s \in results : r \cap s = {}
    BY <2>8 DEF ResultInv, ResultOk
  <2> QED BY <1>2, <2>2, <2>9, <2>10 DEF ResultInv
<1> QED BY <1>3, <1>4

LEMMA ResultNext == ResultInv /\ [Next]_vars => ResultInv'
<1> SUFFICES ASSUME ResultInv, [Next]_vars PROVE ResultInv'
  OBVIOUS
<1>1. CohortInv'
  BY CohortNext DEF ResultInv
<1>2. CASE UNCHANGED <<freed, results>>
  BY <1>1, <1>2 DEF ResultInv, ResultOk, Key
<1>3. CASE EvictOldest
  BY <1>1, <1>3, ResultProcess DEF EvictOldest, Held
<1>4. CASE ProcessComplete
  BY <1>1, <1>4, ResultProcess DEF ProcessComplete, Held
<1> QED BY <1>2, <1>3, <1>4
        DEF Next, TdoaThread, NodePush, Stop, LoopTest, Front, Add, BufferEmpty,
            BufferFits, NoneComplete, Pop, vars

LEMMA ResultInvariant == Spec => []ResultInv
<1>1. Init => ResultInv
  <2>1. Init => results = {}
    BY DEF Init
  <2> QED BY <2>1, CohortInit DEF ResultInv
<1> QED BY <1>1, ResultNext, PTL DEF Spec

(* A location rests on at least MinUsed captures of one key, at most the   *)
(* MaxUsed strongest, and no capture is ever used for two locations.       *)
THEOREM ResultsAreSound == Spec => []ResultsSound
<1>1. ResultInv => ResultsSound
  BY DEF ResultInv, ResultOk, ResultsSound
<1> QED BY <1>1, ResultInvariant, PTL

(* With no more nodes than captures used, all captures of a cohort that is *)
(* processed are deleted, since a cohort never outgrows the nodes.         *)
LEMMA AllFreed ==
  ASSUME CohortInv, Cardinality(Nodes) <= MaxUsed, NEW k \in Keys, Process(k)
  PROVE  leaked' = leaked
<1>1. CASE Locate(k)
  <2>1. PICK used \in StrongestOf(packets[k]) : leaked' = leaked \cup (packets[k] \ used)
    BY <1>1 DEF Locate
  <2>2. IsFiniteSet(packets[k]) /\ Cardinality(packets[k]) <= Cardinality(Nodes)
    BY DEF CohortInv, SizeOk
  <2>3. Cardinality(packets[k]) \in Nat /\ ~(Cardinality(packets[k]) > MaxUsed)
    BY <2>2, NodesCardinality, FS_CardinalityType, ParameterAssumption
  <2>4. used \subseteq packets[k] /\ Cardinality(used) = Cardinality(packets[k])
    BY <2>1, <2>3 DEF StrongestOf
  <2>5. used = packets[k]
    BY <2>2, <2>4, FS_Subset
  <2> QED BY <2>1, <2>5
<1>2. CASE Discard(k)
  BY <1>2 DEF Discard
<1> QED BY <1>1, <1>2 DEF Process

(* Nothing is leaked unless more nodes are configured than are used for a  *)
(* location.                                                               *)
THEOREM LeaksNeedExtraNodes == Spec => []NothingLeaked
<1>1. Init => NothingLeaked
  BY DEF Init, NothingLeaked
<1>2. ASSUME CohortInv, NothingLeaked, [Next]_vars
      PROVE  NothingLeaked'
  <2>1. CASE UNCHANGED leaked
    BY <1>2, <2>1 DEF NothingLeaked
  <2>2. CASE EvictOldest \/ ProcessComplete
    <3>1. PICK k \in Held : Process(k)
      BY <2>2 DEF EvictOldest, ProcessComplete
    <3>2. Cardinality(Nodes) <= MaxUsed => leaked' = leaked
      BY <1>2, <3>1, AllFreed DEF Held
    <3> QED BY <1>2, <3>2 DEF NothingLeaked
  <2> QED BY <1>2, <2>1, <2>2
          DEF Next, TdoaThread, NodePush, Stop, LoopTest, Front, Add, BufferEmpty,
              BufferFits, NoneComplete, Pop, vars
<1> QED BY <1>1, <1>2, CohortInvariant, PTL DEF Spec

-----------------------------------------------------------------------------
(* Times a whole key apart have different keys. *)
LEMMA IntervalSeparatesKeys ==
  ASSUME NEW a \in Nat, NEW b \in Nat, a + KeyResolution <= b
  PROVE  a \div KeyResolution < b \div KeyResolution
<1> DEFINE R == KeyResolution
           p == a \div R
           q == b \div R
<1>1. R \in Nat /\ R > 0
  BY ParameterAssumption
<1>2. p \in Nat /\ q \in Nat
  BY <1>1
<1>3. R * p <= a /\ a < R * p + R
  BY <1>1
<1>4. R * q <= b /\ b < R * q + R
  BY <1>1
<1>5. SUFFICES ASSUME q <= p PROVE FALSE
  BY <1>2
<1>6. R * q <= R * p /\ R * p \in Nat /\ R * q \in Nat
  BY <1>1, <1>2, <1>5
<1> QED BY <1>1, <1>3, <1>4, <1>6

(* With measurements at least a key apart and each packet delivered once,  *)
(* a node has at most one capture per key.                                 *)
OneCapturePerKey ==
  \A c, d \in pushed : c.node = d.node /\ Key(c) = Key(d) => c = d

OncePerKey == Copies = 1 /\ Interval >= KeyResolution

(* So what a node pushes is newer than all it pushed before. *)
LEMMA PushedNewer ==
  ASSUME OncePerKey, OwnerInv, NEW c \in Capture, NodePush(c),
         NEW d \in pushed, d.node = c.node
  PROVE  Key(d) < Key(c)
<1>1. d.time = c.time \/ d.time + Interval <= c.time
  BY DEF NodePush
<1>2. d \in Capture /\ c # d
  BY DEF NodePush, OwnerInv, TypeOK
<1>3. d.copy \in 1..1 /\ c.copy \in 1..1
  BY <1>2 DEF Capture, OncePerKey
<1>4. \A i, j \in 1..1 : i = j
  OBVIOUS
<1>5. d.time \in Nat /\ c.time \in Nat
  BY <1>2, TimesAssumption DEF Capture
<1>6. d.time # c.time
  <2>1. d.copy = c.copy
    BY <1>3, <1>4
  <2> QED BY <1>2, <2>1 DEF Capture
<1>7. d.time + KeyResolution <= c.time
  BY <1>1, <1>5, <1>6, ParameterAssumption DEF OncePerKey
<1> QED BY <1>5, <1>7, IntervalSeparatesKeys DEF Key

-----------------------------------------------------------------------------
(* The order in which the captures of one node arrive. *)
Added == CohortOwns \cup freed \cup leaked

OrderInv ==
  /\ OneCapturePerKey
  /\ \A i, j \in 1..Len(sharedQ) :
       i < j /\ sharedQ[i].node = sharedQ[j].node => Key(sharedQ[i]) < Key(sharedQ[j])
  /\ \A i \in OwnFrom..Len(sharedQ) : \A c \in Added :
       c.node = sharedQ[i].node => Key(c) < Key(sharedQ[i])

(* Cohort k was closed although node n may still deliver to it, only if    *)
(* BufferLimit newer cohorts are held; so a straggler is the oldest and    *)
(* the one too many.                                                       *)
Passed(n, k) == \E c \in Added : c.node = n /\ Key(c) >= k
NewerHeld(k) == {j \in Held : j > k}

ClosedOk == \A k \in Keys : Closed(k) =>
               \/ \A n \in Nodes : Passed(n, k)
               \/ Cardinality(NewerHeld(k)) >= BufferLimit
StragglerOk == \A k \in Held : Closed(k) =>
                  /\ pc = "manage"
                  /\ packets[k] = {packet}
                  /\ Cardinality(Held) > BufferLimit
                  /\ \A j \in Held : k <= j

StragglerInv == ResultInv /\ OrderInv /\ ClosedOk /\ StragglerOk

LEMMA NewerHeldFinite ==
  \A k \in Keys : IsFiniteSet(NewerHeld(k)) /\ Cardinality(NewerHeld(k)) \in Nat
BY HeldFinite, FS_Subset, FS_CardinalityType DEF NewerHeld

LEMMA NewerHeldFiniteNext ==
  \A k \in Keys : IsFiniteSet(NewerHeld(k)') /\ Cardinality(NewerHeld(k)') \in Nat
BY HeldFiniteNext, FS_Subset, FS_CardinalityType DEF NewerHeld

(* Processing a cohort adds nothing to and takes nothing from what was     *)
(* added, and closes its key.                                              *)
LEMMA AddedProcess ==
  ASSUME OwnerInv, NEW k \in Keys, Process(k)
  PROVE  /\ Added' = Added
         /\ \A j \in Keys : Closed(j)' => Closed(j) \/ j = k
<1>1. packets' = [packets EXCEPT ![k] = {}]
  BY ProcessEffect DEF OwnerInv
<1>2. PICK used \in SUBSET packets[k] :
        /\ freed' = freed \cup used
        /\ leaked' = leaked \cup (packets[k] \ used)
  BY ProcessEffect DEF OwnerInv
<1>3. \A j \in Keys : packets'[j] = IF j = k THEN {} ELSE packets[j]
  BY <1>1 DEF OwnerInv, TypeOK
<1>4. Added' = Added
  <2>1. \A c : c \in Added' => c \in Added
    BY <1>2, <1>3 DEF Added, CohortOwns
  <2>2. \A c : c \in Added => c \in Added'
    BY <1>2, <1>3 DEF Added, CohortOwns
  <2> QED BY <2>1, <2>2
<1>5. \A c \in packets[k] : Key(c) = k
  BY DEF OwnerInv, CohortOk
<1>6. \A c : c \in freed' \cup leaked' => c \in freed \cup leaked \/ c \in packets[k]
  BY <1>2
<1>7. \A j \in Keys : Closed(j)' => Closed(j) \/ j = k
  BY <1>5, <1>6 DEF Closed, Key
<1> QED BY <1>4, <1>7

(* A complete cohort has a capture of every node. *)
LEMMA CompleteHasAll ==
  ASSUME CohortInv, OneCapturePerKey, NEW k \in Keys, Complete(k), NEW n \in Nodes
  PROVE  \E c \in packets[k] : c.node = n
<1> DEFINE f == [c \in packets[k] |-> c.node]
<1>1. packets[k] \subseteq pushed /\ pushed \subseteq Capture /\ \A c \in packets[k] : Key(c) = k
  BY DEF CohortInv, OwnerInv, TypeOK, CohortOk
<1>2. f \in [packets[k] -> Nodes]
  BY <1>1 DEF Capture
<1>3. \A x, y \in packets[k] : f[x] = f[y] => x = y
  BY <1>1 DEF OneCapturePerKey
<1>4. f \in Injection(packets[k], Nodes)
  BY <1>2, <1>3 DEF Injection, IsInjective
<1>5. f \in Surjection(packets[k], Nodes)
  BY <1>4, FS_Injection, NodesAssumption DEF Complete
<1>6. PICK c \in packets[k] : f[c] = n
  BY <1>5 DEF Surjection
<1> QED BY <1>6

-----------------------------------------------------------------------------
LEMMA OrderInit == Init => OrderInv
<1> SUFFICES ASSUME Init PROVE OrderInv
  OBVIOUS
<1>1. Len(sharedQ) = 0 /\ OwnFrom = 1 /\ pushed = {}
  BY DEF Init, OwnFrom
<1> QED BY <1>1 DEF OrderInv, OneCapturePerKey

LEMMA OrderNodePush ==
  ASSUME OncePerKey, OwnerInv, OrderInv, NEW c \in Capture, NodePush(c)
  PROVE  OrderInv'
<1>1. /\ c \notin pushed
      /\ pushed' = pushed \cup {c}
      /\ UNCHANGED <<packets, packet, pc, terminate, freed, leaked, results>>
      /\ sharedQ' = Append(sharedQ, c)
  BY DEF NodePush
<1>2. /\ Len(sharedQ') = Len(sharedQ) + 1
      /\ Len(sharedQ) \in Nat
      /\ \A i \in 1..Len(sharedQ) : sharedQ'[i] = sharedQ[i]
      /\ sharedQ'[Len(sharedQ) + 1] = c
  BY <1>1 DEF OwnerInv, TypeOK
<1>3. OwnFrom' = OwnFrom /\ OwnFrom \in 1..2 /\ Added' = Added
  BY <1>1 DEF OwnFrom, Added, CohortOwns
<1>4. \A d \in pushed : d.node = c.node => Key(d) < Key(c)
  BY PushedNewer
<1>5. \A i \in 1..Len(sharedQ) : sharedQ[i] \in pushed
  BY DEF OwnerInv, QueueOk
<1>6. \A d \in Added : d \in pushed
  BY DEF OwnerInv, TypeOK, CohortOk, Added, CohortOwns
<1>7. \A d \in pushed : Key(d) \in Nat /\ Key(c) \in Nat
  BY KeyType, KeysNat DEF OwnerInv, TypeOK
<1>8. OneCapturePerKey'
  <2>1. \A d \in pushed : d.node = c.node => Key(d) # Key(c)
    BY <1>4, <1>7
  <2> QED BY <1>1, <2>1 DEF OrderInv, OneCapturePerKey, Key
<1>9. ASSUME NEW i \in 1..Len(sharedQ'), NEW j \in 1..Len(sharedQ'),
             i < j, sharedQ'[i].node = sharedQ'[j].node
      PROVE  Key(sharedQ'[i]) < Key(sharedQ'[j])
  <2>1. i \in 1..Len(sharedQ) /\ sharedQ'[i] = sharedQ[i]
    BY <1>2, <1>9
  <2>2. CASE j \in 1..Len(sharedQ)
    BY <1>2, <1>9, <2>1, <2>2 DEF OrderInv
  <2>3. CASE j = Len(sharedQ) + 1
    BY <1>2, <1>4, <1>5, <1>9, <2>1, <2>3
  <2> QED BY <1>2, <2>2, <2>3
<1>10. ASSUME NEW i \in OwnFrom..Len(sharedQ'), NEW d \in Added, d.node = sharedQ'[i].node
       PROVE  Key(d) < Key(sharedQ'[i])
  <2>1. CASE i \in OwnFrom..Len(sharedQ)
    BY <1>2, <1>3, <1>10, <2>1 DEF OrderInv
  <2>2. CASE i = Len(sharedQ) + 1
    BY <1>2, <1>4, <1>6, <1>10, <2>2
  <2> QED BY <1>2, <1>3, <2>1, <2>2
<1> QED BY <1>3, <1>8, <1>9, <1>10 DEF OrderInv, Key

LEMMA OrderAdd ==
  ASSUME OwnerInv, OrderInv, Add
  PROVE  OrderInv' /\ Added' = Added \cup {packet}
<1>1. /\ pc = "add" /\ pc' = "manage"
      /\ packets' = [packets EXCEPT ![Key(packet)] = @ \cup {packet}]
      /\ UNCHANGED <<sharedQ, packet, terminate, pushed, freed, leaked, results>>
  BY DEF Add
<1>2. Len(sharedQ) \in Nat /\ Len(sharedQ) > 0 /\ packet = sharedQ[1] /\ packet \in Capture
  BY <1>1 DEF OwnerInv, InHand, TypeOK
<1>3. \A k \in Keys : packets'[k] = IF k = Key(packet) THEN packets[k] \cup {packet}
                                                     ELSE packets[k]
  BY <1>1, <1>2, KeyType DEF OwnerInv, TypeOK
<1>4. Added' = Added \cup {packet}
  <2>1. \A c : c \in Added' => c \in Added \cup {packet}
    BY <1>1, <1>3 DEF Added, CohortOwns
  <2>2. packet \in packets'[Key(packet)] /\ Key(packet) \in Keys
    BY <1>2, <1>3, KeyType
  <2>3. \A c : c \in Added => c \in Added'
    BY <1>1, <1>3 DEF Added, CohortOwns
  <2>4. packet \in Added'
    BY <2>2 DEF Added, CohortOwns
  <2> QED BY <2>1, <2>3, <2>4
<1>5. OwnFrom = 1 /\ OwnFrom' = 2
  BY <1>1 DEF OwnFrom
<1>6. ASSUME NEW i \in 2..Len(sharedQ), NEW c \in Added', c.node = sharedQ[i].node
      PROVE  Key(c) < Key(sharedQ[i])
  <2>1. i \in OwnFrom..Len(sharedQ) /\ i \in 1..Len(sharedQ) /\ 1 \in 1..Len(sharedQ) /\ 1 < i
    BY <1>2, <1>5
  <2>2. CASE c \in Added
    BY <1>6, <2>1, <2>2 DEF OrderInv
  <2>3. CASE c = packet
    BY <1>2, <1>6, <2>1, <2>3 DEF OrderInv
  <2> QED BY <1>4, <2>2, <2>3
<1>7. OneCapturePerKey'
  BY <1>1 DEF OrderInv, OneCapturePerKey, Key
<1>8. \A i, j \in 1..Len(sharedQ') :
        i < j /\ sharedQ'[i].node = sharedQ'[j].node => Key(sharedQ'[i]) < Key(sharedQ'[j])
  BY <1>1 DEF OrderInv
<1> QED BY <1>1, <1>4, <1>5, <1>6, <1>7, <1>8 DEF OrderInv, Key

LEMMA OrderPop ==
  ASSUME OwnerInv, OrderInv, Pop
  PROVE  OrderInv'
<1>1. /\ pc = "pop" /\ pc' = "loop"
      /\ sharedQ' = Tail(sharedQ)
      /\ UNCHANGED <<packets, terminate, pushed, freed, leaked, results>>
  BY DEF Pop
<1>2. OwnFrom = 2 /\ OwnFrom' = 1 /\ Added' = Added
  BY <1>1 DEF OwnFrom, Added, CohortOwns
<1>3. Len(sharedQ) \in Nat /\ Len(sharedQ) > 0 /\ sharedQ # <<>> /\ sharedQ \in Seq(Capture)
  BY <1>1 DEF OwnerInv, InHand, TypeOK
<1>4. /\ Len(sharedQ') = Len(sharedQ) - 1
      /\ \A i \in 1..Len(sharedQ') : sharedQ'[i] = sharedQ[i + 1]
  BY <1>1, <1>3
<1>5. \A i \in 1..Len(sharedQ') : i + 1 \in 1..Len(sharedQ) /\ i + 1 \in OwnFrom..Len(sharedQ)
  BY <1>2, <1>3, <1>4
<1>6. ASSUME NEW i \in 1..Len(sharedQ'), NEW j \in 1..Len(sharedQ'),
             i < j, sharedQ'[i].node = sharedQ'[j].node
      PROVE  Key(sharedQ'[i]) < Key(sharedQ'[j])
  <2>1. i + 1 < j + 1
    BY <1>6
  <2> QED BY <1>4, <1>5, <1>6, <2>1 DEF OrderInv
<1>7. ASSUME NEW i \in 1..Len(sharedQ'), NEW c \in Added, c.node = sharedQ'[i].node
      PROVE  Key(c) < Key(sharedQ'[i])
  BY <1>4, <1>5, <1>7 DEF OrderInv
<1> QED BY <1>1, <1>2, <1>6, <1>7 DEF OrderInv, OneCapturePerKey, Key

(* Steps that leave queue and ownership alone keep the order. *)
LEMMA OrderMove ==
  ASSUME OrderInv, UNCHANGED <<sharedQ, pushed>>, Added' = Added, OwnFrom' = OwnFrom
  PROVE  OrderInv'
BY DEF OrderInv, OneCapturePerKey, Key

-----------------------------------------------------------------------------
(* A straggler's key is overtaken by BufferLimit cohorts, so the straggler *)
(* is the oldest of one cohort too many.                                   *)
LEMMA StragglerAdd ==
  ASSUME StragglerInv, Add, CohortInv'
  PROVE  ClosedOk' /\ StragglerOk'
<1> DEFINE p == packet
           kp == Key(packet)
<1>1. /\ pc = "add" /\ pc' = "manage"
      /\ packets' = [packets EXCEPT ![kp] = @ \cup {p}]
      /\ UNCHANGED <<sharedQ, packet, terminate, pushed, freed, leaked, results>>
  BY DEF Add
<1>2. OwnerInv /\ CohortInv /\ OrderInv
  BY DEF StragglerInv, ResultInv, CohortInv
<1>3. /\ Len(sharedQ) \in Nat /\ Len(sharedQ) > 0
      /\ p = sharedQ[1] /\ p \in Capture /\ kp \in Keys /\ p.node \in Nodes
  <2>1. /\ Len(sharedQ) \in Nat /\ Len(sharedQ) > 0
        /\ p = sharedQ[1] /\ p \in Capture
    BY <1>1, <1>2 DEF OwnerInv, InHand, TypeOK
  <2>2. kp \in Keys
    BY <2>1, KeyType
  <2>3. p.node \in Nodes
    BY <2>1 DEF Capture
  <2> QED BY <2>1, <2>2, <2>3
<1>4. \A k \in Keys : packets'[k] = IF k = kp THEN packets[k] \cup {p} ELSE packets[k]
  BY <1>1, <1>3, <1>2 DEF OwnerInv, TypeOK
<1>5. Held' = Held \cup {kp}
  BY <1>3, <1>4 DEF Held
<1>6. Added' = Added \cup {p}
  BY <1>2, OrderAdd
<1>7. \A k \in Keys : Closed(k)' <=> Closed(k)
  BY <1>1 DEF Closed, Key
<1>8. ASSUME NEW k \in Keys, Closed(k)
      PROVE  (\A n \in Nodes : Passed(n, k)') \/ Cardinality(NewerHeld(k)') >= BufferLimit
  <2>1. CASE \A n \in Nodes : Passed(n, k)
    BY <1>6, <2>1 DEF Passed, Key
  <2>2. CASE Cardinality(NewerHeld(k)) >= BufferLimit
    <3>1. NewerHeld(k) \subseteq NewerHeld(k)'
      BY <1>5 DEF NewerHeld
    <3>2. Cardinality(NewerHeld(k)) <= Cardinality(NewerHeld(k)')
      BY <3>1, NewerHeldFiniteNext, FS_Subset
    <3> QED BY <2>2, <3>2, NewerHeldFinite, NewerHeldFiniteNext, ParameterAssumption
  <2> QED BY <1>8, <2>1, <2>2 DEF StragglerInv, ClosedOk
<1>9. ClosedOk'
  BY <1>7, <1>8 DEF ClosedOk
<1>10. ASSUME NEW k \in Held', Closed(k)
       PROVE  /\ packets'[k] = {p}
              /\ Cardinality(Held') > BufferLimit
              /\ \A j \in Held' : k <= j
  <2>1. k \notin Held
    BY <1>1, <1>10 DEF StragglerInv, StragglerOk
  <2>2. k = kp /\ packets[k] = {}
    BY <1>3, <1>5, <1>10, <2>1 DEF Held
  <2>3. ~Passed(p.node, k)
    <3>1. 1 \in OwnFrom..Len(sharedQ)
      BY <1>1, <1>3 DEF OwnFrom
    <3>2. \A c \in Added : c.node = p.node => Key(c) < k
      BY <1>2, <1>3, <2>2, <3>1 DEF OrderInv
    <3>3. \A c \in Added : Key(c) \in Nat
      BY <1>2, KeyType, KeysNat DEF OwnerInv, TypeOK, CohortOk, Added, CohortOwns
    <3> QED BY <1>3, <2>2, <3>2, <3>3, KeysNat DEF Passed
  <2>4. Cardinality(NewerHeld(k)) >= BufferLimit
    BY <1>3, <1>10, <2>2, <2>3 DEF StragglerInv, ClosedOk
  <2>5. Cardinality(Held) <= BufferLimit
    BY <1>1, <1>2 DEF CohortInv, BufferBound
  <2>6. NewerHeld(k) \subseteq Held
    BY DEF NewerHeld
  <2>7. Cardinality(NewerHeld(k)) <= Cardinality(Held)
    BY <2>6, HeldFinite, FS_Subset
  <2>8. Cardinality(NewerHeld(k)) = Cardinality(Held) /\ Cardinality(Held) = BufferLimit
    BY <1>3, <2>2, <2>4, <2>5, <2>7, HeldFinite, NewerHeldFinite, ParameterAssumption
  <2>9. NewerHeld(k) = Held
    BY <2>6, <2>8, HeldFinite, FS_Subset
  <2>10. \A j \in Held' : k <= j
    <3>1. \A j \in Held : j > k
      BY <2>9 DEF NewerHeld
    <3>2. k \in Nat /\ Held \subseteq Nat
      BY <1>3, <2>2, KeysNat DEF Held
    <3>3. ASSUME NEW j \in Held' PROVE k <= j
      <4>1. CASE j \in Held
        BY <3>1, <3>2, <4>1
      <4>2. CASE j = k
        BY <3>2, <4>2
      <4> QED BY <1>5, <2>2, <4>1, <4>2
    <3> QED BY <3>3
  <2>11. Cardinality(Held') = BufferLimit + 1
    BY <1>5, <2>1, <2>2, <2>8, HeldFinite, FS_AddElement
  <2>12. packets'[k] = {p}
    BY <1>3, <1>4, <2>2
  <2> QED BY <2>10, <2>11, <2>12, ParameterAssumption
<1>11. StragglerOk'
  <2>1. \A k \in Held' : k \in Keys
    BY DEF Held
  <2> QED BY <1>1, <1>7, <1>10, <2>1 DEF StragglerOk
<1> QED BY <1>9, <1>11

(* Giving up the oldest cohort leaves BufferLimit newer ones. *)
LEMMA StragglerEvict ==
  ASSUME StragglerInv, EvictOldest
  PROVE  ClosedOk' /\ StragglerOk'
<1>1. PICK k \in Held : (\A j \in Held : k <= j) /\ Process(k)
  BY DEF EvictOldest
<1>2. k \in Keys /\ Held \subseteq Nat /\ Held \subseteq Keys
  BY KeysNat DEF Held
<1>3. OwnerInv /\ CohortInv /\ Cardinality(Held) > BufferLimit
  BY DEF StragglerInv, ResultInv, CohortInv, EvictOldest
<1>4. Added' = Added /\ \A j \in Keys : Closed(j)' => Closed(j) \/ j = k
  BY <1>1, <1>2, <1>3, AddedProcess
<1>5. Held' = Held \ {k} /\ Cardinality(Held') = Cardinality(Held) - 1
  BY <1>1, <1>3, CohortProcess
<1>6. ASSUME NEW j \in Keys, Closed(j)'
      PROVE  (\A n \in Nodes : Passed(n, j)') \/ Cardinality(NewerHeld(j)') >= BufferLimit
  <2>1. CASE j <= k
    <3>1. NewerHeld(j)' = Held'
      <4>1. \A i \in Held' : i > j
        BY <1>1, <1>2, <1>5, <2>1, KeysNat
      <4> QED BY <4>1 DEF NewerHeld
    <3> QED BY <1>3, <1>5, <3>1, HeldFinite, HeldFiniteNext, ParameterAssumption
  <2>2. CASE ~(j <= k)
    <3>1. Closed(j) /\ k \notin NewerHeld(j)
      BY <1>2, <1>4, <1>6, <2>2, KeysNat DEF NewerHeld
    <3>2. NewerHeld(j)' = NewerHeld(j)
      BY <1>5, <3>1 DEF NewerHeld
    <3>3. \A n \in Nodes : Passed(n, j)' <=> Passed(n, j)
      BY <1>4 DEF Passed, Key
    <3> QED BY <3>1, <3>2, <3>3 DEF StragglerInv, ClosedOk
  <2> QED BY <2>1, <2>2
<1>7. ASSUME NEW j \in Held', Closed(j)' PROVE FALSE
  <2>1. j \in Held /\ j # k /\ Closed(j)
    BY <1>2, <1>4, <1>5, <1>7
  <2>2. j <= k /\ k <= j
    BY <1>1, <2>1 DEF StragglerInv, StragglerOk
  <2> QED BY <1>2, <2>1, <2>2
<1> QED BY <1>6, <1>7 DEF ClosedOk, StragglerOk

(* After a complete cohort no straggler can come. *)
LEMMA StragglerComplete ==
  ASSUME StragglerInv, ProcessComplete
  PROVE  ClosedOk' /\ StragglerOk'
<1>1. PICK k \in Held : Complete(k) /\ Process(k)
  BY DEF ProcessComplete
<1>2. k \in Keys /\ Held \subseteq Keys
  BY DEF Held
<1>3. OwnerInv /\ CohortInv /\ OneCapturePerKey /\ pc = "scan"
  BY DEF StragglerInv, ResultInv, CohortInv, OrderInv, ProcessComplete
<1>4. Added' = Added /\ \A j \in Keys : Closed(j)' => Closed(j) \/ j = k
  BY <1>1, <1>2, <1>3, AddedProcess
<1>5. Held' = Held \ {k}
  BY <1>1, <1>3, CohortProcess
<1>6. \A j \in Keys : j <= k => \A n \in Nodes : Passed(n, j)'
  <2>1. SUFFICES ASSUME NEW j \in Keys, j <= k, NEW n \in Nodes PROVE Passed(n, j)
    BY <1>4 DEF Passed, Key
  <2>2. PICK c \in packets[k] : c.node = n
    BY <1>1, <1>2, <1>3, CompleteHasAll
  <2>3. c \in Added /\ Key(c) = k
    BY <1>2, <1>3, <2>2 DEF Added, CohortOwns, OwnerInv, CohortOk
  <2>4. k >= j
    BY <1>2, <2>1, KeysNat
  <2> QED BY <2>2, <2>3, <2>4 DEF Passed
<1>7. ASSUME NEW j \in Keys, Closed(j)'
      PROVE  (\A n \in Nodes : Passed(n, j)') \/ Cardinality(NewerHeld(j)') >= BufferLimit
  <2>1. CASE j <= k
    BY <1>6, <2>1
  <2>2. CASE ~(j <= k)
    <3>1. Closed(j) /\ k \notin NewerHeld(j)
      BY <1>2, <1>4, <1>7, <2>2, KeysNat DEF NewerHeld
    <3>2. NewerHeld(j)' = NewerHeld(j)
      BY <1>5, <3>1 DEF NewerHeld
    <3>3. \A n \in Nodes : Passed(n, j)' <=> Passed(n, j)
      BY <1>4 DEF Passed, Key
    <3> QED BY <3>1, <3>2, <3>3 DEF StragglerInv, ClosedOk
  <2> QED BY <2>1, <2>2
<1>8. ASSUME NEW j \in Held', Closed(j)' PROVE FALSE
  <2>1. j \in Held /\ Closed(j)
    BY <1>2, <1>4, <1>5, <1>8
  <2>2. pc = "manage"
    BY <2>1 DEF StragglerInv, StragglerOk
  <2> QED BY <1>3, <2>2
<1> QED BY <1>7, <1>8 DEF ClosedOk, StragglerOk

(* Steps that leave cohorts and deleted captures alone. *)
LEMMA StragglerMove ==
  ASSUME StragglerInv, UNCHANGED <<packets, freed, leaked>>,
         \A k \in Held : Closed(k) => pc' = "manage" /\ packet' = packet
  PROVE  ClosedOk' /\ StragglerOk'
<1>1. Held' = Held /\ Added' = Added
  BY DEF Held, Added, CohortOwns
<1>2. \A k \in Keys : Closed(k)' <=> Closed(k)
  BY DEF Closed, Key
<1>3. \A k \in Keys : /\ NewerHeld(k)' = NewerHeld(k)
                      /\ \A n \in Nodes : Passed(n, k)' <=> Passed(n, k)
  BY <1>1 DEF NewerHeld, Passed, Key
<1>4. ClosedOk'
  BY <1>2, <1>3 DEF StragglerInv, ClosedOk
<1>5. \A k \in Held : k \in Keys
  BY DEF Held
<1>6. StragglerOk'
  BY <1>1, <1>2, <1>5 DEF StragglerInv, StragglerOk
<1> QED BY <1>4, <1>6

(* At most one result per key: a second one would rest on a straggler's    *)
(* cohort, which has a single capture.                                     *)
LEMMA OneResultProcess ==
  ASSUME MinUsed > 1, StragglerInv, OneResultPerKey, NEW k \in Held, Process(k)
  PROVE  OneResultPerKey'
<1>1. OwnerInv /\ k \in Keys
  BY DEF StragglerInv, ResultInv, CohortInv, Held
<1>2. CASE Closed(k)
  <2>1. packets[k] = {packet}
    BY <1>2 DEF StragglerInv, StragglerOk
  <2>2. Cardinality(packets[k]) = 1
    BY <2>1, FS_Singleton
  <2>3. results' = results
    BY <2>2, ParameterAssumption DEF Process, Locate, Discard
  <2> QED BY <2>3 DEF OneResultPerKey, Key
<1>3. CASE ~Closed(k)
  <2>1. CASE results' = results
    BY <2>1 DEF OneResultPerKey, Key
  <2>2. CASE results' # results
    <3>1. PICK r \in SUBSET packets[k] : results' = results \cup {r}
      <4>1. PICK used \in StrongestOf(packets[k]) : \E r \in SUBSET used : results' = results \cup {r}
        BY <2>2 DEF Process, Locate, Discard
      <4>2. used \subseteq packets[k]
        BY <4>1 DEF StrongestOf
      <4> QED BY <4>1, <4>2
    <3>2. \A c \in r : Key(c) = k
      BY <1>1, <3>1 DEF OwnerInv, CohortOk
    <3>3. \A s \in results : \A d \in s : d \in freed /\ Key(d) # k
      BY <1>3 DEF StragglerInv, ResultInv, ResultOk, Closed
    <3> QED BY <3>1, <3>2, <3>3 DEF OneResultPerKey, Key
  <2> QED BY <2>1, <2>2
<1> QED BY <1>2, <1>3

LEMMA StragglerNext ==
  ASSUME OncePerKey, StragglerInv, [Next]_vars
  PROVE  StragglerInv'
<1>1. OwnerInv /\ CohortInv /\ ResultInv /\ OrderInv /\ ClosedOk /\ StragglerOk
  BY DEF StragglerInv, ResultInv, CohortInv
<1>2. ResultInv' /\ CohortInv'
  BY <1>1, ResultNext DEF ResultInv
<1>3. SUFFICES OrderInv' /\ ClosedOk' /\ StragglerOk'
  BY <1>2 DEF StragglerInv
<1>4. ASSUME NEW c \in Capture, NodePush(c)
      PROVE  OrderInv' /\ ClosedOk' /\ StragglerOk'
  <2>1. UNCHANGED <<packets, packet, pc, freed, leaked>>
    BY <1>4 DEF NodePush
  <2> QED BY <1>1, <1>4, <2>1, OrderNodePush, StragglerMove DEF StragglerOk
<1>5. CASE Add
  BY <1>1, <1>2, <1>5, OrderAdd, StragglerAdd
<1>6. CASE EvictOldest
  <2>1. Added' = Added /\ UNCHANGED <<sharedQ, pushed>> /\ OwnFrom' = OwnFrom
    BY <1>1, <1>6, AddedProcess DEF EvictOldest, Held, OwnFrom
  <2> QED BY <1>1, <1>6, <2>1, OrderMove, StragglerEvict
<1>7. CASE ProcessComplete
  <2>1. Added' = Added /\ UNCHANGED <<sharedQ, pushed>> /\ OwnFrom' = OwnFrom
    BY <1>1, <1>7, AddedProcess DEF ProcessComplete, Held, OwnFrom
  <2> QED BY <1>1, <1>7, <2>1, OrderMove, StragglerComplete
<1>8. CASE Pop
  <2>1. UNCHANGED <<packets, freed, leaked>> /\ pc = "pop"
    BY <1>8 DEF Pop
  <2> QED BY <1>1, <1>8, <2>1, OrderPop, StragglerMove DEF StragglerOk
<1>9. CASE Stop \/ UNCHANGED vars
  <2>1. UNCHANGED <<sharedQ, packets, packet, pc, pushed, freed, leaked>>
    BY <1>9 DEF Stop, vars
  <2>2. Added' = Added /\ OwnFrom' = OwnFrom
    BY <2>1 DEF Added, CohortOwns, OwnFrom
  <2> QED BY <1>1, <2>1, <2>2, OrderMove, StragglerMove DEF StragglerOk
<1>10. CASE LoopTest \/ Front \/ BufferEmpty \/ BufferFits \/ NoneComplete
  <2>1. /\ UNCHANGED <<sharedQ, packets, pushed, freed, leaked>>
        /\ OwnFrom' = OwnFrom
    BY <1>10 DEF LoopTest, Front, BufferEmpty, BufferFits, NoneComplete, OwnFrom
  <2>2. Added' = Added
    BY <2>1 DEF Added, CohortOwns
  <2>3. \A k \in Held : ~Closed(k)
    <3>1. CASE pc # "manage"
      BY <1>1, <3>1 DEF StragglerOk
    <3>2. CASE BufferEmpty
      BY <3>2 DEF BufferEmpty
    <3>3. CASE BufferFits
      <4>1. ~(Cardinality(Held) > BufferLimit)
        BY <3>3, HeldFinite, ParameterAssumption DEF BufferFits
      <4> QED BY <1>1, <4>1 DEF StragglerOk
    <3> QED BY <1>10, <3>1, <3>2, <3>3 DEF LoopTest, Front, NoneComplete
  <2> QED BY <1>1, <2>1, <2>2, <2>3, OrderMove, StragglerMove
<1> QED BY <1>4, <1>5, <1>6, <1>7, <1>8, <1>9, <1>10 DEF Next, TdoaThread

LEMMA StragglerInit == Init => StragglerInv
<1> SUFFICES ASSUME Init PROVE StragglerInv
  OBVIOUS
<1>1. CohortInv /\ OrderInv
  BY CohortInit, OrderInit
<1>2. ResultInv
  BY <1>1 DEF Init, ResultInv
<1>3. \A k \in Keys : packets[k] = {} /\ ~Closed(k)
  BY DEF Init, Closed
<1> QED BY <1>1, <1>2, <1>3 DEF StragglerInv, ClosedOk, StragglerOk, Held

(* When measurements are at least a key apart and every packet is          *)
(* delivered once, captures that arrive after their cohort was given up    *)
(* never stay in the buffer: manageBuffer discards each in its own turn.   *)
THEOREM StragglersLeaveAtOnce ==
  ASSUME OncePerKey
  PROVE  Spec => []StragglersDiscarded
<1>1. StragglerInv /\ [Next]_vars => StragglerInv'
  BY StragglerNext
<1>2. StragglerInv => StragglersDiscarded
  BY DEF StragglerInv, StragglerOk, StragglersDiscarded
<1> QED BY <1>1, <1>2, StragglerInit, PTL DEF Spec

(* Under the same conditions, and as a location needs more than one        *)
(* capture, no measurement is located twice.                               *)
THEOREM AtMostOneResult ==
  ASSUME OncePerKey, MinUsed > 1
  PROVE  Spec => []OneResultPerKey
<1>1. StragglerInv /\ [Next]_vars => StragglerInv'
  BY StragglerNext
<1>2. Init => OneResultPerKey
  BY DEF Init, OneResultPerKey
<1>3. ASSUME StragglerInv, OneResultPerKey, [Next]_vars PROVE OneResultPerKey'
  <2>1. CASE UNCHANGED results
    BY <1>3, <2>1 DEF OneResultPerKey, Key
  <2>2. CASE EvictOldest \/ ProcessComplete
    BY <1>3, <2>2, OneResultProcess DEF EvictOldest, ProcessComplete
  <2> QED BY <1>3, <2>1, <2>2
          DEF Next, TdoaThread, NodePush, Stop, LoopTest, Front, Add, BufferEmpty,
              BufferFits, NoneComplete, Pop, vars
<1>4. StragglerInv /\ OneResultPerKey /\ [Next]_vars => OneResultPerKey'
  BY <1>3
<1> QED BY <1>1, <1>2, <1>4, StragglerInit, PTL DEF Spec
(* All that holds of the collector between any two of its steps, for every *)
(* number of nodes, captures and held cohorts: the invariant of the runs.  *)
THEOREM CollectorConsistent == Spec => []CollectorInv
<1>1. TypeOK /\ BufferBound /\ NoCompleteCohortWaits /\ NothingLeaked /\ ResultsSound
        => CollectorInv
  BY DEF CollectorInv
<1> QED BY <1>1, TypeCorrect, BufferBounded, CompleteCohortsProcessed,
           LeaksNeedExtraNodes, ResultsAreSound, PTL
=============================================================================
