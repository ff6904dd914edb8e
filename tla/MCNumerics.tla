----------------------------- MODULE MCNumerics -----------------------------
EXTENDS Numerics
=============================================================================
