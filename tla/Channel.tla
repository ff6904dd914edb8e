------------------------------ MODULE Channel ------------------------------
(***************************************************************************)
(* What the rest of the program expects of a SafeQueue: items come out     *)
(* exactly once and in the order in which they went in, and with a taker   *)
(* that keeps running none stays inside.                                   *)
(***************************************************************************)
EXTENDS Naturals, Sequences

CONSTANT Item

VARIABLES sent,   \* all items put in, in order
          taken   \* all items got out, in order

vars == <<sent, taken>>

Init == sent = <<>> /\ taken = <<>>

Put(x) ==
  /\ sent' = Append(sent, x)
  /\ UNCHANGED taken

Take ==
  /\ Len(taken) < Len(sent)
  /\ taken' = Append(taken, sent[Len(taken) + 1])
  /\ UNCHANGED sent

Next == Take \/ \E x \in Item : Put(x)

Spec == Init /\ [][Next]_vars
FairSpec == Spec /\ WF_vars(Take)
=============================================================================
