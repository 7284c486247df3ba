---------------------------- MODULE BackupHistory ----------------------------
(***************************************************************************)
(* What a repository promises its user: a history of snapshots, numbered   *)
(* 0, 1, 2..., of which the latest and a thinning selection of the earlier *)
(* ones can be restored.                                                   *)
(*                                                                         *)
(* A snapshot is forgotten only when its time has come, which is while the *)
(* snapshot numbered Demise(n) is about to be taken; the next snapshot is  *)
(* taken only when exactly those whose time has not come are kept.         *)
(* The history may also be archived and recalled as a whole.               *)
(***************************************************************************)
EXTENDS FenwickTree

VARIABLES
  next,      \* the number of the next snapshot
  kept,      \* the snapshots that can be restored
  archive    \* the archived <<next, kept>>, or <<>>

vars == <<next, kept, archive>>

Init == next = 0 /\ kept = {} /\ archive = <<>>

Forget(n) == /\ n \in kept
             /\ n # 0 /\ Demise(n) = next
             /\ kept' = kept \ {n}
             /\ UNCHANGED <<next, archive>>

Take == /\ next = 0 \/ kept = {k \in 0..(next - 1) : Outlives(k, next)}
        /\ kept' = kept \cup {next}
        /\ next' = next + 1
        /\ UNCHANGED archive

Archive == archive = <<>> /\ archive' = <<next, kept>> /\ UNCHANGED <<next, kept>>

Recall == /\ archive # <<>>
          /\ next' = archive[1] /\ kept' = archive[2]
          /\ UNCHANGED archive

Next == (\E n \in kept : Forget(n)) \/ Take \/ Archive \/ Recall

Spec == Init /\ [][Next]_vars
=============================================================================
