------------------------------ MODULE Numerics ------------------------------
(***************************************************************************)
(* The numbers of the program: the time difference between two captures    *)
(* (Signal) and the axes of the error ellipse (Optimiser).                 *)
(***************************************************************************)
EXTENDS Signal, Optimiser

allVars == <<vars, optVars>>

NumericsInit == Init /\ OptInit

(* tdoa::process does one after the other.  The ellipse does not depend on     *)
(* what the nodes keep: it is computed before their first capture only.        *)
Correlating == step = "idle" /\ Next /\ UNCHANGED optVars
Optimising == twiddle = [m \in Node |-> NewTwiddle] /\ pc = "idle" /\ OptNext /\ UNCHANGED vars

NumericsNext == Correlating \/ Optimising

NumericsSpec == NumericsInit /\ [][NumericsNext]_allVars /\ WF_allVars(Optimising /\ Iterate)

(* A search ends, by its values or by the number of its turns. *)
SearchEnds == step = "search" ~> step = "returned"

(* The first search for an axis goes down, and all of them end.            *)
SearchDescends == BestNeverRises /\ SearchEnds

(* The numbers in every step: as many samples as were kept, vertices of    *)
(* the search they belong to, no negative axis.                            *)
NumericsInv == TypeOK /\ OptTypeOK /\ FirstSearchIsCurrent /\ AxesNotNegative
=============================================================================
