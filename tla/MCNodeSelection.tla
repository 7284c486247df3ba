--------------------------- MODULE MCNodeSelection ---------------------------
(* A word of five bits. *)
EXTENDS NodeSelection

AllOffsets == Signed
=============================================================================
