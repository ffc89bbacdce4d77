---------------------------- MODULE MCConversion ----------------------------
(* Conversion for TLC: the formats and bounds are given by the cfg files. *)
EXTENDS Conversion
=============================================================================
