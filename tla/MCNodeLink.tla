----------------------------- MODULE MCNodeLink -----------------------------
(* Small instances of NodeLink for TLC.                                    *)
EXTENDS NodeLink, TLC
=============================================================================
