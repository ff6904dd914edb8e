----------------------------- MODULE MCExamples -----------------------------
(* All the examples, responses of up to three packets. *)
EXTENDS Examples

AllPrograms == DOMAIN Script
=============================================================================
