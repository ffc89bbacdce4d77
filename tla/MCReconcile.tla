----------------------------- MODULE MCReconcile -----------------------------
(* Reconcile for TLC: three files with two contents, all interchangeable.      *)
EXTENDS Reconcile, TLC

CONSTANTS one, two, three, v1, v2

MCSymmetry == Permutations(Paths) \cup Permutations(Contents)
=============================================================================
