----------------------------- MODULE SafeQueue -----------------------------
(***************************************************************************)
(* SafeQueue (safeQueue.h) as the program uses it: several threads push,   *)
(* one thread waits in front(), works on the value and then calls pop().   *)
(* Both queues of the program have this shape: _sharedQ with the node      *)
(* threads and the tdoa thread, results with the tdoa thread and main.     *)
(*                                                                         *)
(* Mutex and condition variable are modelled as the C++ library specifies  *)
(* them: wait releases the mutex and joins the waiting threads in one      *)
(* step, notify_one wakes a waiting thread if there is one, a wait may     *)
(* also end spuriously, and a woken thread has to get the mutex again.     *)
(***************************************************************************)
EXTENDS Naturals, Sequences

CONSTANTS Producers,   \* threads that push
          Consumer,    \* the thread that calls front and pop
          Nobody,      \* value of the mutex when it is free
          MaxItems     \* bound of the model: items each producer pushes

ASSUME ThreadAssumption == /\ Consumer \notin Producers
                           /\ Nobody \notin Producers \cup {Consumer}
ASSUME MaxItemsAssumption == MaxItems \in Nat

Threads == Producers \cup {Consumer}
Item == [from : Producers, nr : 1..MaxItems]
NoItem == [from |-> Nobody, nr |-> 0]

VARIABLES q,        \* SafeQueue::q
          m,        \* SafeQueue::m: the thread that holds it, or Nobody
          waiting,  \* the threads waiting on SafeQueue::c
          pc,       \* where each thread is
          made,     \* how many items each producer has pushed
          val,      \* what front() returned to the consumer
          sent,     \* history: every item pushed, in order
          taken     \* history: every item handed to the consumer and popped

vars == <<q, m, waiting, pc, made, val, sent, taken>>

ProducerPc == {"idle", "push", "notify", "unlock"}
ConsumerPc == {"front", "test", "wait", "relock", "work", "pop"}

Init ==
  /\ q = <<>>
  /\ m = Nobody
  /\ waiting = {}
  /\ pc = [t \in Threads |-> IF t = Consumer THEN "front" ELSE "idle"]
  /\ made = [p \in Producers |-> 0]
  /\ val = NoItem
  /\ sent = <<>> /\ taken = <<>>

Goto(t, from, to) == pc[t] = from /\ pc' = [pc EXCEPT ![t] = to]

-----------------------------------------------------------------------------
(* push: lock_guard, q.push, c.notify_one, and the guard's destructor *)
PushLock(p) ==
  /\ Goto(p, "idle", "push")
  /\ made[p] < MaxItems
  /\ m = Nobody
  /\ m' = p
  /\ UNCHANGED <<q, waiting, made, val, sent, taken>>

PushItem(p) ==
  /\ Goto(p, "push", "notify")
  /\ LET x == [from |-> p, nr |-> made[p] + 1]
     IN  q' = Append(q, x) /\ sent' = Append(sent, x)
  /\ made' = [made EXCEPT ![p] = @ + 1]
  /\ UNCHANGED <<m, waiting, val, taken>>

(* Mutant of PushNotify: the consumer is notified only of a first item,    *)
(* by a test that looks at the queue after the push.                       *)
PushNotifyIfEmpty(p) ==
  /\ pc[p] = "notify"
  /\ IF q = <<>> /\ waiting # {}
       THEN /\ waiting' = {}
            /\ pc' = [pc EXCEPT ![p] = "unlock", ![Consumer] = "relock"]
       ELSE /\ waiting' = waiting
            /\ pc' = [pc EXCEPT ![p] = "unlock"]
  /\ UNCHANGED <<q, m, made, val, sent, taken>>

PushNotify(p) ==
  /\ pc[p] = "notify"
  /\ \/ /\ \E t \in waiting :
             /\ waiting' = waiting \ {t}
             /\ pc' = [pc EXCEPT ![p] = "unlock", ![t] = "relock"]
     \/ /\ waiting = {}
        /\ pc' = [pc EXCEPT ![p] = "unlock"]
        /\ UNCHANGED waiting
  /\ UNCHANGED <<q, m, made, val, sent, taken>>

PushUnlock(p) ==
  /\ Goto(p, "unlock", "idle")
  /\ m' = Nobody
  /\ UNCHANGED <<q, waiting, made, val, sent, taken>>

-----------------------------------------------------------------------------
(* front: unique_lock, while (q.empty()) c.wait(lock), copy the head.  The *)
(* lock is released with the return.                                       *)
FrontLock ==
  /\ Goto(Consumer, "front", "test")
  /\ m = Nobody
  /\ m' = Consumer
  /\ UNCHANGED <<q, waiting, made, val, sent, taken>>

FrontWait ==
  /\ Goto(Consumer, "test", "wait")
  /\ q = <<>>
  /\ waiting' = waiting \cup {Consumer}
  /\ m' = Nobody
  /\ UNCHANGED <<q, made, val, sent, taken>>

SpuriousWakeup ==
  /\ Consumer \in waiting
  /\ waiting' = waiting \ {Consumer}
  /\ pc' = [pc EXCEPT ![Consumer] = "relock"]
  /\ UNCHANGED <<q, m, made, val, sent, taken>>

(* Mutant of FrontRelock: after the wait the queue is not tested again. *)
FrontRelockNoTest ==
  /\ Goto(Consumer, "relock", "work")
  /\ m = Nobody
  /\ val' = IF q = <<>> THEN NoItem ELSE Head(q)
  /\ UNCHANGED <<q, m, waiting, made, sent, taken>>

FrontRelock ==
  /\ Goto(Consumer, "relock", "test")
  /\ m = Nobody
  /\ m' = Consumer
  /\ UNCHANGED <<q, waiting, made, val, sent, taken>>

FrontRead ==
  /\ Goto(Consumer, "test", "work")
  /\ q # <<>>
  /\ val' = Head(q)
  /\ m' = Nobody
  /\ UNCHANGED <<q, waiting, made, sent, taken>>

(* pop: lock_guard, q.pop, unlock *)
PopLock ==
  /\ Goto(Consumer, "work", "pop")
  /\ m = Nobody
  /\ m' = Consumer
  /\ UNCHANGED <<q, waiting, made, val, sent, taken>>

(* Mutant of PopItem: the newest item is removed instead of the oldest. *)
PopNewest ==
  /\ Goto(Consumer, "pop", "front")
  /\ q' = SubSeq(q, 1, Len(q) - 1)
  /\ taken' = Append(taken, val)
  /\ val' = NoItem
  /\ m' = Nobody
  /\ UNCHANGED <<waiting, made, sent>>

PopItem ==
  /\ Goto(Consumer, "pop", "front")
  /\ q' = Tail(q)
  /\ taken' = Append(taken, val)
  /\ val' = NoItem
  /\ m' = Nobody
  /\ UNCHANGED <<waiting, made, sent>>

-----------------------------------------------------------------------------
Produce(p) == PushLock(p) \/ PushItem(p) \/ PushNotify(p) \/ PushUnlock(p)

Consume == \/ FrontLock \/ FrontWait \/ FrontRelock \/ FrontRead
           \/ PopLock \/ PopItem

Next == \/ \E p \in Producers : Produce(p)
        \/ Consume
        \/ SpuriousWakeup

Spec == Init /\ [][Next]_vars

(* Every thread keeps running; no wakeup is owed but the notified ones. *)
FairSpec == /\ Spec
            /\ \A p \in Producers : WF_vars(Produce(p))
            /\ WF_vars(Consume)

-----------------------------------------------------------------------------
TypeOK ==
  /\ q \in Seq(Item)
  /\ m \in Threads \cup {Nobody}
  /\ waiting \subseteq {Consumer}
  /\ \A p \in Producers : pc[p] \in ProducerPc
  /\ pc[Consumer] \in ConsumerPc
  /\ made \in [Producers -> 0..MaxItems]
  /\ val \in Item \cup {NoItem}
  /\ sent \in Seq(Item)
  /\ taken \in Seq(Item)

(* The consumer never sleeps through an item: while it waits and the queue *)
(* is not empty, a producer is about to notify it.                         *)
NoLostWakeup ==
  (Consumer \in waiting /\ q # <<>>) => \E p \in Producers : pc[p] = "notify"

(* Between front() and pop() the lock is free and producers push, yet      *)
(* pop() removes the very item front() returned, and never pops an empty   *)
(* queue.                                                                  *)
FrontPopAgree ==
  pc[Consumer] \in {"work", "pop"} => q # <<>> /\ val = Head(q)

(* The state of the queue between any two steps of its threads: no wakeup  *)
(* is lost, and what front returned is what pop will remove.               *)
QueueInv == TypeOK /\ NoLostWakeup /\ FrontPopAgree

(* The queue of the abstract specification *)
Chan == INSTANCE Channel WITH Item <- Item, sent <- sent, taken <- taken

(* Nothing is lost, duplicated or reordered between push and pop. *)
ImplementsChannel == Chan!Spec

(* Moreover everything pushed is eventually taken, although nothing but    *)
(* the notification is sure to wake the consumer.                          *)
ImplementsFairChannel == Chan!FairSpec
=============================================================================
