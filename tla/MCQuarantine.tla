----------------------------- MODULE MCQuarantine -----------------------------
(* Small instances of Quarantine.  Node 4 is the first to have a victim.    *)
EXTENDS Quarantine
=============================================================================
