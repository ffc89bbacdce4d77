------------------------ MODULE MCImportPublication -------------------------
(* ImportPublication for TLC: imports are interchangeable, inodes too. *)
EXTENDS ImportPublication, TLC

CONSTANTS p, q, i1, i2, i3, i4, i5, i6

MCSymmetry == Permutations(Imports) \cup Permutations(Inodes)
=============================================================================
