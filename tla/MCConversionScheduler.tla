---------------------- MODULE MCConversionScheduler ----------------------
(***************************************************************************)
(* Small instances of ConversionScheduler: two or three sources, in one    *)
(* folder or in two, that compete for one lane or use both.                *)
(***************************************************************************)
EXTENDS ConversionScheduler, TLC

CONSTANTS a, b, c, open, closed

MCOneFolder == [k \in Keys |-> open]
MCTwoFolders == [k \in Keys |-> IF k = c THEN closed ELSE open]

MCLight == [k \in Keys |-> "light"]
MCHeavy == [k \in Keys |-> "heavy"]
MCBothLanes == [k \in Keys |-> IF k = c THEN "heavy" ELSE "light"]

\* One slot per lane, or the code's default of two light slots and a heavy one.
MCSingle == [l \in Lanes |-> 1]
MCDefault == [l \in Lanes |-> IF l = "light" THEN 2 ELSE 1]

\* The sources of one folder and one lane, all with a classifier, are alike.
MCSymmetry == Permutations(Keys)
=============================================================================
