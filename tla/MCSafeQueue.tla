---------------------------- MODULE MCSafeQueue ----------------------------
(* Small instances of SafeQueue for TLC.  No symmetry: liveness is checked. *)
EXTENDS SafeQueue, TLC
=============================================================================
