------------------------------- MODULE MCTdoa -------------------------------
(* Small instances of Tdoa for TLC.                                        *)
EXTENDS Tdoa, TLC

NodeSymmetry == Permutations(Nodes)

(* One measurement per key, as with a whole number of milliseconds between *)
(* measurements; the second of times 2, 3 is the same measurement seen by  *)
(* a node whose clock stamps it later.                                     *)
ThreeKeys == {0, 2, 4}
Jitter    == {0, 2, 3, 4}
=============================================================================
