-------------------------- MODULE MCSnapshotCommand --------------------------
(* Small instances of SnapshotCommand.  Node 8 is the first to be created   *)
(* with two victims (2 and 5); node 7 has the longest path below it.        *)
EXTENDS SnapshotCommand

(* The checkpoint is taken between commands, in the middle of a pruning,    *)
(* while the payload is written, or before the breadcrumb is.               *)
Checkpoints == {"idle", "destroy", "send", "open_crumb"}
=============================================================================
