-------------------------- MODULE SafeQueueProofs --------------------------
(***************************************************************************)
(* Proofs about SafeQueue for any number of producers and items: no wakeup *)
(* is lost, front() and pop() agree, and the queue implements Channel.     *)
(***************************************************************************)
EXTENDS SafeQueue, TLAPS

(* Who holds the mutex is told by where the threads are. *)
LockOk ==
  /\ \A p \in Producers : pc[p] \in {"push", "notify", "unlock"} <=> m = p
  /\ pc[Consumer] \in {"test", "pop"} <=> m = Consumer
  /\ Consumer \in waiting <=> pc[Consumer] = "wait"

(* The queue holds what was sent and not yet taken. *)
ContentOk ==
  /\ Len(sent) = Len(taken) + Len(q)
  /\ \A i \in 1..Len(q) : q[i] = sent[Len(taken) + i]

(* A producer that has the lock has an item left to push. *)
MadeOk == \A p \in Producers : pc[p] = "push" => made[p] < MaxItems

PcType == pc \in [Threads -> ProducerPc \cup ConsumerPc]

IInv == /\ TypeOK /\ PcType /\ MadeOk
        /\ LockOk /\ NoLostWakeup /\ FrontPopAgree /\ ContentOk

LEMMA InitOk == Init => IInv
<1> SUFFICES ASSUME Init PROVE IInv
  OBVIOUS
<1> USE ThreadAssumption, MaxItemsAssumption
<1>1. /\ \A p \in Producers : pc[p] = "idle"
      /\ pc[Consumer] = "front"
      /\ pc \in [Threads -> ProducerPc \cup ConsumerPc]
  BY DEF Init, Threads, ProducerPc, ConsumerPc
<1>2. q \in Seq(Item) /\ sent \in Seq(Item) /\ taken \in Seq(Item) /\ Len(q) = 0
  BY DEF Init
<1>3. made \in [Producers -> 0..MaxItems]
  BY DEF Init
<1>4. TypeOK
  BY <1>1, <1>2, <1>3 DEF Init, TypeOK, ProducerPc, ConsumerPc
<1>5. LockOk
  BY <1>1 DEF Init, LockOk
<1>6. NoLostWakeup /\ FrontPopAgree
  BY <1>1 DEF Init, NoLostWakeup, FrontPopAgree
<1>7. ContentOk
  BY <1>2 DEF Init, ContentOk
<1> QED BY <1>1, <1>4, <1>5, <1>6, <1>7 DEF IInv, PcType, MadeOk

(* A step of producer p that moves it to to leaves every other thread      *)
(* where it is.                                                            *)
LEMMA GotoEffect ==
  ASSUME PcType, NEW t \in Threads, NEW from, NEW to, Goto(t, from, to)
  PROVE  /\ pc[t] = from
         /\ pc'[t] = to
         /\ \A s \in Threads : s # t => pc'[s] = pc[s]
BY DEF Goto, PcType

LEMMA PushLockOk ==
  ASSUME IInv, NEW p \in Producers, PushLock(p)
  PROVE  IInv'
<1> USE ThreadAssumption
<1>1. p \in Threads /\ p # Consumer /\ Consumer \in Threads /\ Producers \subseteq Threads
  BY DEF Threads
<1>2. /\ pc[p] = "idle" /\ pc'[p] = "push"
      /\ \A s \in Threads : s # p => pc'[s] = pc[s]
  BY <1>1, GotoEffect DEF IInv, PushLock
<1>3. PcType'
  BY <1>1 DEF IInv, PcType, PushLock, Goto, ProducerPc
<1>4. /\ m = Nobody /\ m' = p
      /\ UNCHANGED <<q, waiting, made, val, sent, taken>>
  BY DEF PushLock
<1>5. TypeOK'
  BY <1>1, <1>2, <1>4 DEF IInv, TypeOK, ProducerPc
<1>6. LockOk'
  BY <1>1, <1>2, <1>4 DEF IInv, LockOk
<1>7. NoLostWakeup'
  BY <1>1, <1>2, <1>4 DEF IInv, NoLostWakeup
<1>8. FrontPopAgree' /\ ContentOk'
  BY <1>1, <1>2, <1>4 DEF IInv, FrontPopAgree, ContentOk
<1>9. MadeOk'
  BY <1>1, <1>2, <1>4 DEF IInv, MadeOk, PushLock
<1> QED BY <1>3, <1>5, <1>6, <1>7, <1>8, <1>9 DEF IInv

(* Appending keeps the head, and the content stays what was sent. *)
LEMMA PushItemOk ==
  ASSUME IInv, NEW p \in Producers, PushItem(p)
  PROVE  IInv' /\ \E x \in Item : sent' = Append(sent, x)
<1> USE ThreadAssumption, MaxItemsAssumption
<1> DEFINE x == [from |-> p, nr |-> made[p] + 1]
<1>1. p \in Threads /\ p # Consumer /\ Consumer \in Threads /\ Producers \subseteq Threads
  BY DEF Threads
<1>2. /\ pc[p] = "push" /\ pc'[p] = "notify"
      /\ \A s \in Threads : s # p => pc'[s] = pc[s]
  BY <1>1, GotoEffect DEF IInv, PushItem
<1>3. PcType'
  BY <1>1 DEF IInv, PcType, PushItem, Goto, ProducerPc
<1>4. /\ q' = Append(q, x) /\ sent' = Append(sent, x)
      /\ made' = [made EXCEPT ![p] = @ + 1]
      /\ UNCHANGED <<m, waiting, val, taken>>
  BY DEF PushItem
<1>5. made[p] + 1 \in 1..MaxItems
  BY <1>2 DEF IInv, TypeOK, MadeOk
<1>6. x \in Item
  BY <1>5 DEF Item
<1>7. /\ q \in Seq(Item) /\ sent \in Seq(Item) /\ taken \in Seq(Item)
      /\ q' \in Seq(Item) /\ sent' \in Seq(Item)
      /\ Len(q') = Len(q) + 1 /\ Len(sent') = Len(sent) + 1
      /\ \A i \in 1..Len(q) : q'[i] = q[i]
      /\ \A i \in 1..Len(sent) : sent'[i] = sent[i]
      /\ q'[Len(q) + 1] = x /\ sent'[Len(sent) + 1] = x
  BY <1>4, <1>6 DEF IInv, TypeOK
<1>8. TypeOK'
  <2>1. made' \in [Producers -> 0..MaxItems]
    BY <1>4, <1>5 DEF IInv, TypeOK
  <2> QED BY <1>1, <1>2, <1>4, <1>7, <2>1 DEF IInv, TypeOK, ProducerPc
<1>9. LockOk'
  BY <1>1, <1>2, <1>4 DEF IInv, LockOk
<1>10. NoLostWakeup'
  BY <1>2 DEF NoLostWakeup
<1>11. FrontPopAgree'
  <2>1. q # <<>> => q' # <<>> /\ Head(q') = Head(q)
    BY <1>4, <1>6, <1>7
  <2> QED BY <1>1, <1>2, <1>4, <2>1 DEF IInv, FrontPopAgree
<1>12. ContentOk'
  <2>1. Len(sent') = Len(taken) + Len(q')
    BY <1>7 DEF IInv, ContentOk
  <2>2. ASSUME NEW i \in 1..Len(q') PROVE q'[i] = sent'[Len(taken) + i]
    <3>1. CASE i \in 1..Len(q)
      <4>1. Len(taken) + i \in 1..Len(sent)
        BY <1>7, <3>1 DEF IInv, ContentOk
      <4> QED BY <1>7, <3>1, <4>1 DEF IInv, ContentOk
    <3>2. CASE i = Len(q) + 1
      <4>1. Len(taken) + i = Len(sent) + 1
        BY <1>7, <3>2 DEF IInv, ContentOk
      <4> QED BY <1>7, <3>2, <4>1
    <3> QED BY <1>7, <3>1, <3>2
  <2> QED BY <1>4, <2>1, <2>2 DEF ContentOk
<1>13. MadeOk'
  BY <1>1, <1>2, <1>4 DEF IInv, MadeOk, TypeOK
<1> QED BY <1>3, <1>4, <1>6, <1>8, <1>9, <1>10, <1>11, <1>12, <1>13 DEF IInv

(* A notification leaves nobody waiting: there is one consumer. *)
LEMMA PushNotifyOk ==
  ASSUME IInv, NEW p \in Producers, PushNotify(p)
  PROVE  IInv'
<1> USE ThreadAssumption
<1>1. p \in Threads /\ p # Consumer /\ Consumer \in Threads /\ Producers \subseteq Threads
  BY DEF Threads
<1>2. pc[p] = "notify" /\ UNCHANGED <<q, m, made, val, sent, taken>>
  BY DEF PushNotify
<1>3. /\ pc'[p] = "unlock" /\ waiting' = {}
      /\ pc'[Consumer] = IF waiting = {} THEN pc[Consumer] ELSE "relock"
      /\ \A s \in Producers : s # p => pc'[s] = pc[s]
      /\ PcType'
  <2>1. waiting \subseteq {Consumer}
    BY DEF IInv, TypeOK
  <2>2. CASE waiting = {}
    <3>1. pc' = [pc EXCEPT ![p] = "unlock"] /\ waiting' = {}
      BY <2>2 DEF PushNotify
    <3> QED BY <1>1, <2>2, <3>1 DEF IInv, PcType, ProducerPc
  <2>3. CASE waiting = {Consumer}
    <3>1. pc' = [pc EXCEPT ![p] = "unlock", ![Consumer] = "relock"] /\ waiting' = {}
      BY <2>3 DEF PushNotify
    <3> QED BY <1>1, <2>3, <3>1 DEF IInv, PcType, ProducerPc, ConsumerPc
  <2> QED BY <2>1, <2>2, <2>3
<1>4. waiting # {} => pc[Consumer] = "wait"
  BY DEF IInv, LockOk, TypeOK
<1>5. TypeOK'
  BY <1>1, <1>2, <1>3 DEF IInv, TypeOK, ProducerPc, ConsumerPc
<1>6. LockOk'
  BY <1>1, <1>2, <1>3, <1>4 DEF IInv, LockOk, TypeOK
<1>7. NoLostWakeup' /\ FrontPopAgree'
  BY <1>2, <1>3 DEF IInv, NoLostWakeup, FrontPopAgree
<1>8. ContentOk' /\ MadeOk'
  BY <1>2, <1>3 DEF IInv, ContentOk, MadeOk
<1> QED BY <1>3, <1>5, <1>6, <1>7, <1>8 DEF IInv

LEMMA PushUnlockOk ==
  ASSUME IInv, NEW p \in Producers, PushUnlock(p)
  PROVE  IInv'
<1> USE ThreadAssumption
<1>1. p \in Threads /\ p # Consumer /\ Consumer \in Threads /\ Producers \subseteq Threads
  BY DEF Threads
<1>2. /\ pc[p] = "unlock" /\ pc'[p] = "idle"
      /\ \A s \in Threads : s # p => pc'[s] = pc[s]
  BY <1>1, GotoEffect DEF IInv, PushUnlock
<1>3. PcType'
  BY <1>1 DEF IInv, PcType, PushUnlock, Goto, ProducerPc
<1>4. m' = Nobody /\ UNCHANGED <<q, waiting, made, val, sent, taken>>
  BY DEF PushUnlock
<1>5. m = p
  BY <1>2 DEF IInv, LockOk
<1>6. TypeOK'
  BY <1>1, <1>2, <1>4 DEF IInv, TypeOK, ProducerPc
<1>7. LockOk'
  BY <1>1, <1>2, <1>4, <1>5 DEF IInv, LockOk
<1>8. NoLostWakeup'
  <2>1. \A s \in Producers : pc[s] = "notify" => pc'[s] = "notify"
    BY <1>1, <1>2
  <2> QED BY <1>4, <2>1 DEF IInv, NoLostWakeup
<1>9. FrontPopAgree' /\ ContentOk' /\ MadeOk'
  BY <1>1, <1>2, <1>4 DEF IInv, FrontPopAgree, ContentOk, MadeOk
<1> QED BY <1>3, <1>6, <1>7, <1>8, <1>9 DEF IInv

-----------------------------------------------------------------------------
(* What every step of the consumer leaves alone. *)
LEMMA ConsumerStep ==
  ASSUME IInv, NEW to \in ConsumerPc, pc' = [pc EXCEPT ![Consumer] = to]
  PROVE  /\ pc'[Consumer] = to
         /\ \A p \in Producers : pc'[p] = pc[p]
         /\ PcType'
<1>1. Consumer \in Threads /\ Producers \subseteq Threads
  BY DEF Threads
<1> QED BY <1>1, ThreadAssumption DEF IInv, PcType

(* The steps of the consumer that neither wait nor touch an item. *)
LEMMA ConsumerLockOk ==
  ASSUME IInv, FrontLock \/ FrontRelock \/ PopLock
  PROVE  IInv'
<1> USE ThreadAssumption
<1>1. PICK to \in {"test", "pop"} : /\ pc' = [pc EXCEPT ![Consumer] = to]
                                    /\ to = "pop" => pc[Consumer] = "work"
                                    /\ pc[Consumer] \in {"front", "relock", "work"}
  <2>1. CASE FrontLock \/ FrontRelock
    BY <2>1 DEF FrontLock, FrontRelock, Goto
  <2>2. CASE PopLock
    BY <2>2 DEF PopLock, Goto
  <2> QED BY <2>1, <2>2
<1>2. /\ pc'[Consumer] = to
      /\ \A p \in Producers : pc'[p] = pc[p]
      /\ PcType'
  <2>1. to \in ConsumerPc
    BY DEF ConsumerPc
  <2>2. pc' = [pc EXCEPT ![Consumer] = to]
    BY <1>1
  <2> QED BY <2>1, <2>2, ConsumerStep
<1>3. m = Nobody /\ m' = Consumer /\ UNCHANGED <<q, waiting, made, val, sent, taken>>
  BY DEF FrontLock, FrontRelock, PopLock
<1>4. TypeOK'
  BY <1>1, <1>2, <1>3 DEF IInv, TypeOK, ConsumerPc, Threads
<1>5. LockOk'
  <2>1. pc'[Consumer] \in {"test", "pop"} /\ pc'[Consumer] # "wait"
    BY <1>2
  <2>2. pc[Consumer] # "wait"
    BY <1>1
  <2>3. \A p \in Producers : pc'[p] \in {"push", "notify", "unlock"} <=> m' = p
    BY <1>2, <1>3 DEF IInv, LockOk
  <2>4. Consumer \in waiting' <=> pc'[Consumer] = "wait"
    BY <1>3, <2>1, <2>2 DEF IInv, LockOk
  <2> QED BY <1>3, <2>1, <2>3, <2>4 DEF LockOk
<1>6. NoLostWakeup'
  BY <1>2, <1>3 DEF IInv, NoLostWakeup
<1>7. FrontPopAgree'
  <2>1. pc'[Consumer] \in {"work", "pop"} => pc[Consumer] = "work"
    BY <1>1, <1>2
  <2> QED BY <1>3, <2>1 DEF IInv, FrontPopAgree
<1>8. ContentOk' /\ MadeOk'
  BY <1>2, <1>3 DEF IInv, ContentOk, MadeOk
<1> QED BY <1>2, <1>4, <1>5, <1>6, <1>7, <1>8 DEF IInv

LEMMA FrontWaitOk ==
  ASSUME IInv, FrontWait
  PROVE  IInv'
<1> USE ThreadAssumption
<1>1. /\ pc'[Consumer] = "wait"
      /\ \A p \in Producers : pc'[p] = pc[p]
      /\ PcType'
  BY ConsumerStep DEF FrontWait, Goto, ConsumerPc
<1>2. /\ pc[Consumer] = "test" /\ q = <<>>
      /\ waiting' = waiting \cup {Consumer} /\ m' = Nobody
      /\ UNCHANGED <<q, made, val, sent, taken>>
  BY DEF FrontWait, Goto
<1>3. TypeOK'
  BY <1>1, <1>2 DEF IInv, TypeOK, ConsumerPc
<1>4. LockOk'
  BY <1>1, <1>2 DEF IInv, LockOk
<1>5. NoLostWakeup' /\ FrontPopAgree'
  BY <1>1, <1>2 DEF NoLostWakeup, FrontPopAgree
<1>6. ContentOk' /\ MadeOk'
  BY <1>1, <1>2 DEF IInv, ContentOk, MadeOk
<1> QED BY <1>1, <1>3, <1>4, <1>5, <1>6 DEF IInv

LEMMA SpuriousWakeupOk ==
  ASSUME IInv, SpuriousWakeup
  PROVE  IInv'
<1> USE ThreadAssumption
<1>1. /\ pc'[Consumer] = "relock"
      /\ \A p \in Producers : pc'[p] = pc[p]
      /\ PcType'
  BY ConsumerStep DEF SpuriousWakeup, ConsumerPc
<1>2. /\ waiting' = waiting \ {Consumer} /\ pc[Consumer] = "wait"
      /\ UNCHANGED <<q, m, made, val, sent, taken>>
  BY DEF SpuriousWakeup, IInv, LockOk
<1>3. TypeOK'
  BY <1>1, <1>2 DEF IInv, TypeOK, ConsumerPc
<1>4. LockOk'
  BY <1>1, <1>2 DEF IInv, LockOk
<1>5. NoLostWakeup' /\ FrontPopAgree'
  BY <1>1, <1>2 DEF NoLostWakeup, FrontPopAgree
<1>6. ContentOk' /\ MadeOk'
  BY <1>1, <1>2 DEF IInv, ContentOk, MadeOk
<1> QED BY <1>1, <1>3, <1>4, <1>5, <1>6 DEF IInv

LEMMA FrontReadOk ==
  ASSUME IInv, FrontRead
  PROVE  IInv'
<1> USE ThreadAssumption
<1>1. /\ pc'[Consumer] = "work"
      /\ \A p \in Producers : pc'[p] = pc[p]
      /\ PcType'
  BY ConsumerStep DEF FrontRead, Goto, ConsumerPc
<1>2. /\ pc[Consumer] = "test" /\ q # <<>> /\ val' = Head(q) /\ m' = Nobody
      /\ UNCHANGED <<q, waiting, made, sent, taken>>
  BY DEF FrontRead, Goto
<1>3. Head(q) \in Item
  BY <1>2 DEF IInv, TypeOK
<1>4. TypeOK'
  BY <1>1, <1>2, <1>3 DEF IInv, TypeOK, ConsumerPc
<1>5. LockOk'
  BY <1>1, <1>2 DEF IInv, LockOk
<1>6. NoLostWakeup' /\ FrontPopAgree'
  BY <1>1, <1>2 DEF IInv, NoLostWakeup, FrontPopAgree
<1>7. ContentOk' /\ MadeOk'
  BY <1>1, <1>2 DEF IInv, ContentOk, MadeOk
<1> QED BY <1>1, <1>4, <1>5, <1>6, <1>7 DEF IInv

(* pop removes the item the consumer has seen, the next one of the channel.*)
LEMMA PopItemOk ==
  ASSUME IInv, PopItem
  PROVE  /\ IInv'
         /\ Len(taken) < Len(sent)
         /\ taken' = Append(taken, sent[Len(taken) + 1])
         /\ UNCHANGED sent
<1> USE ThreadAssumption
<1>1. /\ pc'[Consumer] = "front"
      /\ \A p \in Producers : pc'[p] = pc[p]
      /\ PcType'
  BY ConsumerStep DEF PopItem, Goto, ConsumerPc
<1>2. /\ pc[Consumer] = "pop"
      /\ q' = Tail(q) /\ taken' = Append(taken, val) /\ val' = NoItem /\ m' = Nobody
      /\ UNCHANGED <<waiting, made, sent>>
  BY DEF PopItem, Goto
<1>3. q # <<>> /\ val = Head(q)
  BY <1>2 DEF IInv, FrontPopAgree
<1>4. /\ q \in Seq(Item) /\ sent \in Seq(Item) /\ taken \in Seq(Item)
      /\ Len(q) > 0 /\ val = q[1] /\ val \in Item
  BY <1>3 DEF IInv, TypeOK
<1>5. /\ q' \in Seq(Item) /\ taken' \in Seq(Item)
      /\ Len(q') = Len(q) - 1 /\ Len(taken') = Len(taken) + 1
      /\ \A i \in 1..Len(q') : q'[i] = q[i + 1]
  BY <1>2, <1>3, <1>4
<1>6. val = sent[Len(taken) + 1] /\ Len(taken) < Len(sent)
  BY <1>4 DEF IInv, ContentOk
<1>7. TypeOK'
  BY <1>1, <1>2, <1>5 DEF IInv, TypeOK, ConsumerPc
<1>8. LockOk'
  BY <1>1, <1>2 DEF IInv, LockOk
<1>9. NoLostWakeup' /\ FrontPopAgree'
  BY <1>1, <1>2 DEF IInv, LockOk, NoLostWakeup, FrontPopAgree
<1>10. ContentOk'
  <2>1. Len(sent) = Len(taken') + Len(q')
    BY <1>4, <1>5 DEF IInv, ContentOk
  <2>2. ASSUME NEW i \in 1..Len(q') PROVE q'[i] = sent[Len(taken') + i]
    <3>1. i + 1 \in 1..Len(q) /\ Len(taken) + (i + 1) = Len(taken') + i
      BY <1>4, <1>5
    <3>2. q[i + 1] = sent[Len(taken) + (i + 1)]
      BY <3>1 DEF IInv, ContentOk
    <3> QED BY <1>5, <3>1, <3>2
  <2> QED BY <1>2, <2>1, <2>2 DEF ContentOk
<1>11. MadeOk'
  BY <1>1, <1>2 DEF IInv, MadeOk
<1> QED BY <1>1, <1>2, <1>6, <1>7, <1>8, <1>9, <1>10, <1>11 DEF IInv

-----------------------------------------------------------------------------
LEMMA StutterOk == IInv /\ UNCHANGED vars => IInv'
BY DEF IInv, vars, TypeOK, PcType, MadeOk, LockOk, NoLostWakeup, FrontPopAgree, ContentOk

(* Each step keeps the invariant and is a step of the channel or leaves it *)
(* alone.                                                                  *)
LEMMA NextOk == IInv /\ [Next]_vars => IInv' /\ [Chan!Next]_(Chan!vars)
<1> SUFFICES ASSUME IInv, [Next]_vars PROVE IInv' /\ [Chan!Next]_(Chan!vars)
  OBVIOUS
<1> USE DEF Chan!vars
<1>1. ASSUME NEW p \in Producers, PushLock(p) PROVE IInv' /\ UNCHANGED <<sent, taken>>
  BY <1>1, PushLockOk DEF PushLock
<1>2. ASSUME NEW p \in Producers, PushItem(p) PROVE IInv' /\ Chan!Next
  <2>1. PICK x \in Item : sent' = Append(sent, x)
    BY <1>2, PushItemOk
  <2>2. Chan!Put(x)
    BY <1>2, <2>1 DEF PushItem, Chan!Put
  <2> QED BY <1>2, <2>2, PushItemOk DEF Chan!Next
<1>3. ASSUME NEW p \in Producers, PushNotify(p) PROVE IInv' /\ UNCHANGED <<sent, taken>>
  BY <1>3, PushNotifyOk DEF PushNotify
<1>4. ASSUME NEW p \in Producers, PushUnlock(p) PROVE IInv' /\ UNCHANGED <<sent, taken>>
  BY <1>4, PushUnlockOk DEF PushUnlock
<1>5. CASE FrontLock \/ FrontRelock \/ PopLock
  BY <1>5, ConsumerLockOk DEF FrontLock, FrontRelock, PopLock
<1>6. CASE FrontWait
  BY <1>6, FrontWaitOk DEF FrontWait
<1>7. CASE FrontRead
  BY <1>7, FrontReadOk DEF FrontRead
<1>8. CASE PopItem
  BY <1>8, PopItemOk DEF Chan!Next, Chan!Take
<1>9. CASE SpuriousWakeup
  BY <1>9, SpuriousWakeupOk DEF SpuriousWakeup
<1>10. CASE UNCHANGED vars
  BY <1>10, StutterOk DEF vars
<1> QED BY <1>1, <1>2, <1>3, <1>4, <1>5, <1>6, <1>7, <1>8, <1>9, <1>10
        DEF Next, Produce, Consume

LEMMA Invariance == Spec => []IInv
<1>1. IInv /\ [Next]_vars => IInv'
  BY NextOk
<1> QED BY <1>1, InitOk, PTL DEF Spec

(* Types, for any set of producers. *)
THEOREM QueueTypeCorrect == Spec => []TypeOK
<1>1. IInv => TypeOK
  BY DEF IInv
<1> QED BY <1>1, Invariance, PTL

(* notify_one after every push, inside the lock, is enough: the consumer   *)
(* never sleeps while the queue holds an item nobody will notify it of.    *)
THEOREM WakeupNeverLost == Spec => []NoLostWakeup
<1>1. IInv => NoLostWakeup
  BY DEF IInv
<1> QED BY <1>1, Invariance, PTL

(* The unlocked time between front() and pop() is harmless with one        *)
(* consumer: pop() removes what front() returned.                          *)
THEOREM PopRemovesFront == Spec => []FrontPopAgree
<1>1. IInv => FrontPopAgree
  BY DEF IInv
<1> QED BY <1>1, Invariance, PTL

(* The queue is a reliable FIFO channel from its producers to its consumer.*)
THEOREM QueueIsChannel == Spec => ImplementsChannel
<1>1. Init => Chan!Init
  BY DEF Init, Chan!Init
<1>2. IInv /\ [Next]_vars => [Chan!Next]_(Chan!vars)
  BY NextOk
<1> QED BY <1>1, <1>2, Invariance, PTL DEF Spec, ImplementsChannel, Chan!Spec
(* The state of the queue is consistent between any two steps of its       *)
(* threads, for any set of producers.                                      *)
THEOREM QueueConsistent == Spec => []QueueInv
<1>1. IInv => QueueInv
  BY DEF IInv, QueueInv
<1> QED BY <1>1, Invariance, PTL
=============================================================================
