--------------------------- MODULE MCDocumentSaves ---------------------------
(* DocumentSaves with one agent. *)
EXTENDS DocumentSaves

CONSTANT x
=============================================================================
