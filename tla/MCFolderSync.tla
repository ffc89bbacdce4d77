---------------------------- MODULE MCFolderSync ----------------------------
(* FolderSync for TLC: two folders and the window that shows one of them.  The *)
(* run checks liveness, so no symmetry.                                        *)
EXTENDS FolderSync

CONSTANTS f, g, w
=============================================================================
