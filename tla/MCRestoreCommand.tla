--------------------------- MODULE MCRestoreCommand ---------------------------
(* A small instance of RestoreCommand.  After node 5 the nodes 0, 2, 3, 4   *)
(* and 5 are alive, 3 is the victim of node 6.                              *)
EXTENDS RestoreCommand
=============================================================================
