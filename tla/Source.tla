------------------------------- MODULE Source -------------------------------
(***************************************************************************)
(* What the collector is given by the nodes: the captures of each come in  *)
(* the order in which they were measured; one may come again, any number   *)
(* of times, but not once a later one of that node has come.               *)
(***************************************************************************)
EXTENDS Naturals

CONSTANTS Nodes,
          Captures  \* the captures of a node, by number or time

VARIABLE count  \* how often each has come

Init == count = [n \in Nodes |-> [c \in Captures |-> 0]]

Push(n, c) ==
  /\ \A later \in Captures : later > c => count[n][later] = 0
  /\ count' = [count EXCEPT ![n][c] = @ + 1]

Next == \E n \in Nodes, c \in Captures : Push(n, c)

Spec == Init /\ [][Next]_count
=============================================================================
