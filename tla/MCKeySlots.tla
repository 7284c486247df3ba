----------------------------- MODULE MCKeySlots -----------------------------
(* Small instances of KeySlots: processes and keys are interchangeable.      *)
EXTENDS KeySlots, TLC

Symmetry == Permutations(Process) \cup Permutations(Key)
=============================================================================
