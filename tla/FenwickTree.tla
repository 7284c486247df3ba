----------------------------- MODULE FenwickTree -----------------------------
(***************************************************************************)
(* The tree of snapshots (src/src/diffmonger.hpp).  A node is a natural    *)
(* number; node 0 is the root and is stored as a full image, every other   *)
(* node as the difference from its parent, which is the node with its      *)
(* lowest set bit cleared.  A node lives until the creation of the node    *)
(* returned by time_of_demise().                                           *)
(*                                                                         *)
(* These are the declarative forms: what the functions of diffmonger.hpp   *)
(* return.  Module TreeLoops has the loops that compute them.  Nothing     *)
(* here is recursive, so the module can be used in proofs.                 *)
(***************************************************************************)
EXTENDS Naturals

(***************************************************************************)
(* p is a power of two: all its divisors but 1 are even.                   *)
(***************************************************************************)
IsPow2(p) == \A d \in 1..p : p % d = 0 => d = 1 \/ d % 2 = 0

(***************************************************************************)
(* p is the lowest set bit of n: n is an odd multiple of a power of two.   *)
(***************************************************************************)
IsLSB(p, n) == n % (2 * p) = p /\ IsPow2(p)

(* node & -node *)
LSB(n) == CHOOSE p \in 1..n : IsLSB(p, n)

(* fenwick_parent(): the root is its own parent. *)
Parent(n) == IF n = 0 THEN 0 ELSE n - LSB(n)

(* time_of_demise(): the node whose creation kills n.  Undefined for 0. *)
Demise(n) == n + 3 * LSB(n)

(* Node k has not met its demise when node n is created. *)
Outlives(k, n) == k = 0 \/ Demise(k) > n

(* What alive_after(n) reports. *)
AliveAfter(n) == {k \in 0..n : Outlives(k, n)}

(* Faulty: a node dies one power of two too early. *)
FaultyPruned(n) == {j \in 1..n : j + 2 * LSB(j) = n}

(* What prune(n) reports. *)
Pruned(n) == {j \in 1..n : Demise(j) = n}

(* What is found of the nodes alive after n, as long as node n + 1 is not    *)
(* there: any of its victims may be gone.                                   *)
LeftAfter(n) == {AliveAfter(n) \ v : v \in SUBSET Pruned(n + 1)}

(* The Fenwick path of n without n and without the root: the nodes met by  *)
(* clearing set bits of n from the low end.  A node m is on it when m is n *)
(* with its low part, below the lowest set bit of m, taken away.           *)
ProperAncestors(n) == {m \in 1..(n - 1) : n - m < LSB(m)}

(* fenwick_path_inc_root(): n, its ancestors, and the root. *)
Path(n) == ProperAncestors(n) \cup {n, 0}
=============================================================================
