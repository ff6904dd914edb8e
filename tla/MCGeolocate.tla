---------------------------- MODULE MCGeolocate ----------------------------
(* Small instances of Geolocate for TLC.                                   *)
EXTENDS Geolocate, TLC

CaptureSymmetry == Permutations(Captures)
=============================================================================
