----------------------------- MODULE MCTreeLoops -----------------------------
(* Every call of the three loops on words of seven bits. *)
EXTENDS TreeLoops
=============================================================================
