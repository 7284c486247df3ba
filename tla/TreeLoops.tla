------------------------------ MODULE TreeLoops ------------------------------
(***************************************************************************)
(* The three loops of src/src/diffmonger.hpp that walk the tree:           *)
(* fenwick_path_inc_root(), alive_after() and prune().  A behaviour is one *)
(* call; one step is one iteration.  The functor's arguments are collected *)
(* in the sequence "out", in the order of the calls.                       *)
(*                                                                         *)
(* Words go up to 2 * TopBit - 1 (TopBit is 2^63 in the code).  Masks are  *)
(* written with \div and %: for a power of two b, x & ~(b - 1) is          *)
(* (x \div b) * b, and x & (b - 1) is x % b.                               *)
(***************************************************************************)
EXTENDS FenwickTree, Sequences, FiniteSets

CONSTANT TopBit      \* the top bit of a word

ASSUME TopBitAssumption == TopBit \in Nat \ {0, 1} /\ IsPow2(TopBit)

Words == 0..(2 * TopBit - 1)

VARIABLES
  fn,      \* the function called
  node,    \* its argument
  cur,     \* the loop variable of the path and alive loops ("anchor")
  bits,    \* uint_2powm of the alive loop, mask of the prune loop
  out,     \* the nodes handed to the functor so far
  status   \* "run", "done", or "too_big" when "Node too big" was thrown

vars == <<fn, node, cur, bits, out, status>>

Init == /\ fn \in {"path", "alive", "prune"}
        /\ node \in Words
        /\ cur = node
        /\ bits = 1
        /\ out = <<>>
        /\ status = "run"

Running(f) == fn = f /\ status = "run"

(***************************************************************************)
(* The definitions named Faulty... are slips that the code could contain;  *)
(* put in the place of the definition after them, each makes one of the    *)
(* properties below fail.                                                  *)
(*                                                                         *)
(* for (; node; node -= node & -node) f(node); then f(0).                  *)
(***************************************************************************)
PathStep == /\ Running("path")
            /\ cur # 0
            /\ out' = Append(out, cur)
            /\ cur' = cur - LSB(cur)
            /\ UNCHANGED <<fn, node, bits, status>>

PathRoot == /\ Running("path")
            /\ cur = 0
            /\ out' = Append(out, 0)
            /\ status' = "done"
            /\ UNCHANGED <<fn, node, cur, bits>>

(***************************************************************************)
(* One iteration of alive_after(): what it reports, then how the anchor    *)
(* moves.  The test on the top bit comes after the anchor has moved and    *)
(* before it is reported.                                                  *)
(***************************************************************************)
Candidate == cur + bits \div 4

(* Faulty: the candidate whenever it is alive, as the comment in the code  *)
(* has it at first.                                                        *)
FaultyReportOverlap ==
  IF node - cur >= bits \div 4 /\ Candidate # cur
    THEN <<Candidate, cur>>
    ELSE <<cur>>

AliveReport ==
  IF node - cur >= (bits \div 2) + (bits \div 4) /\ Candidate # cur
    THEN <<Candidate, cur>>
    ELSE <<cur>>

(* Faulty: the mask forgotten. *)
FaultyNextAnchor == cur - 1

NextAnchor == ((cur - 1) \div bits) * bits

AliveStep == /\ Running("alive")
             /\ cur # 0
             /\ bits # TopBit
             /\ out' = out \o AliveReport
             /\ cur' = NextAnchor
             /\ bits' = 2 * bits
             /\ UNCHANGED <<fn, node, status>>

AliveTooBig == /\ Running("alive")
               /\ cur # 0
               /\ bits = TopBit
               /\ out' = out \o AliveReport
               /\ cur' = NextAnchor
               /\ status' = "too_big"
               /\ UNCHANGED <<fn, node, bits>>

AliveRoot == /\ Running("alive")
             /\ cur = 0
             /\ out' = out \o AliveReport
             /\ status' = "done"
             /\ UNCHANGED <<fn, node, cur, bits>>

(***************************************************************************)
(* prune(): bits is mask, which is 2^m - 1 with m >= 1.                    *)
(***************************************************************************)
AboveMask == node \div (bits + 1) # 0     \* node & ~mask
BelowMask == node % (bits + 1) # 0        \* node & mask

Stride == bits + (bits \div 2) + 2     \* k

(* Faulty: subtracts without asking whether there is room. *)
FaultyPruneStep == /\ Running("prune")
                   /\ AboveMask
                   /\ bits # TopBit - 1
                   /\ ~ BelowMask
                   /\ out' = Append(out, node - Stride)
                   /\ bits' = 2 * bits + 1
                   /\ UNCHANGED <<fn, node, cur, status>>

PruneStep == /\ Running("prune")
             /\ AboveMask
             /\ bits # TopBit - 1
             /\ ~ BelowMask
             /\ out' = IF node >= Stride THEN Append(out, node - Stride) ELSE out
             /\ bits' = 2 * bits + 1
             /\ UNCHANGED <<fn, node, cur, status>>

PruneTooBig == /\ Running("prune")
               /\ AboveMask
               /\ bits = TopBit - 1
               /\ status' = "too_big"
               /\ UNCHANGED <<fn, node, cur, bits, out>>

(* Faulty: tries the same mask again when a bit below it is set. *)
FaultyPruneEnd == /\ Running("prune")
                  /\ ~ AboveMask \/ (bits # TopBit - 1 /\ BelowMask)
                  /\ status' = IF AboveMask THEN "run" ELSE "done"
                  /\ UNCHANGED <<fn, node, cur, bits, out>>

PruneEnd == /\ Running("prune")
            /\ ~ AboveMask \/ (bits # TopBit - 1 /\ BelowMask)
            /\ status' = "done"
            /\ UNCHANGED <<fn, node, cur, bits, out>>

Step == \/ PathStep  \/ PathRoot
        \/ AliveStep \/ AliveTooBig \/ AliveRoot
        \/ PruneStep \/ PruneTooBig \/ PruneEnd

(* A finished call stays finished. *)
Returned == status # "run" /\ UNCHANGED vars

Next == Step \/ Returned

Spec == Init /\ [][Next]_vars /\ WF_vars(Step)

-----------------------------------------------------------------------------
Reported == {out[i] : i \in 1..Len(out)}

(* The variables range over what the C++ types hold, and the subtractions  *)
(* of the loops never borrow: assert(node >= cur) and                      *)
(* assert(candidate <= node) of alive_after().                             *)
TypeOK == /\ fn \in {"path", "alive", "prune"}
          /\ node \in Words
          /\ cur \in 0..node
          /\ bits \in Words
          /\ out \in Seq(0..node)
          /\ status \in {"run", "done", "too_big"}

(* prune() throws "Node too big" only for the two nodes with no bit below   *)
(* the top two; alive_after() for exactly the nodes with the top bit set.   *)
TooBig == CASE fn = "path"  -> {}
            [] fn = "alive" -> {n \in Words : n >= TopBit}
            [] fn = "prune" -> {TopBit, TopBit + TopBit \div 2}

(* Each function calls its functor with strictly decreasing nodes, so never *)
(* twice with one node; it throws "Node too big" for the nodes that leave   *)
(* no room in the word and for no other; and a call that returns has        *)
(* reported exactly the nodes its doc comment names: the path, the alive    *)
(* set, the nodes that die now (doc comments of the three functions).       *)
ReportsItsSet ==
  /\ \A i \in 1..(Len(out) - 1) : out[i] > out[i + 1]
  /\ status # "run" => (status = "too_big" <=> node \in TooBig)
  /\ status = "done" => Reported = CASE fn = "path"  -> Path(node)
                                     [] fn = "alive" -> AliveAfter(node)
                                     [] fn = "prune" -> Pruned(node)

(* What is kept is evenly thin and not much.  The gap between two           *)
(* neighbours reported by alive_after() is at most half of the distance to  *)
(* the newest node (test/node.cpp:135-148), and "the number retained is at  *)
(* most twice the tree's depth" (README.md:27), the depth being the number  *)
(* of nodes on the longest path.                                            *)
ThinsOut ==
  fn = "alive" =>
    /\ \A i \in 1..(Len(out) - 1) : 2 * (out[i] - out[i + 1] - 1) <= node - out[i + 1]
    /\ \E k \in 0..node : Len(out) <= 2 * Cardinality(Path(k))

(* Every call returns or throws. *)
Terminates == <>(status # "run")
=============================================================================
