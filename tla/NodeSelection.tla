---------------------------- MODULE NodeSelection ----------------------------
(***************************************************************************)
(* Which node "restore node=..." means: a node relative to the last        *)
(* trusted one (getNodeRelativeToLastTrusted() of RepositoryStructure.cpp) *)
(* or "+max", the newest (getNextSnapshotNode() and DiffmongerNode of      *)
(* CommandLineInterface.cpp).  A behaviour is one call; a step reads one   *)
(* id file.  On a mirror, the copying tool, which knows nothing of the     *)
(* repository lock, may add nodes between two reads.                       *)
(*                                                                         *)
(* Nodes are words of the size of Node::value_t (2^64 in the code); offsets *)
(* are signed words.  The command line's parser takes no plus sign, so     *)
(* that it passes only offsets that are not positive.                      *)
(***************************************************************************)
EXTENDS FenwickTree, Integers

CONSTANTS
  SignedMax,       \* the greatest signed word
  Offsets,         \* those asked for
  Ahead            \* how many untrusted nodes the mirror may have

MaxWord == 2 * SignedMax + 1
Words   == 0..MaxWord
Signed  == (-SignedMax - 1)..SignedMax

ASSUME SelectionAssumption == /\ SignedMax \in Nat \ {0}
                              /\ Offsets \subseteq Signed
                              /\ Ahead \in Nat

VARIABLES
  begin,   \* untrusted_begin of the breadcrumb: one more than the last trusted
  stored,  \* the nodes with an id file
  kind,    \* "relative" or "latest"
  offset,
  cursor,  \* the node whose id file is read next
  count,   \* i of the loop
  status,  \* "run", "found", "none" (no such node), "too_big" or "empty"
  got      \* the node found

vars == <<begin, stored, kind, offset, cursor, count, status, got>>

Untrusted == {n \in Words : begin <= n /\ n < begin + Ahead}

(* The breadcrumb's trusted nodes, where the victims of the next node may   *)
(* be gone, and some that are not trusted yet.                              *)
Init == /\ begin \in Words
        /\ IF begin = 0
             THEN stored \in SUBSET Untrusted
             ELSE \E old \in LeftAfter(begin - 1), new \in SUBSET Untrusted :
                    stored = old \cup new
        /\ \/ kind = "relative" /\ offset \in Offsets
           \/ kind = "latest" /\ offset = 0
        /\ cursor = begin /\ count = 0 /\ status = "run" /\ got = 0

(* The definitions named Faulty... are slips that the code could contain;   *)
(* put in the place of the definition after them, each makes a property     *)
(* below fail.                                                              *)
-----------------------------------------------------------------------------
Larger(a, b) == IF a < b THEN b ELSE a

(* Faulty: the least offset is not clamped. *)
FaultyOffsetPrime == offset - 1

(* offset_prime: the offset from untrusted_begin. *)
OffsetPrime == Larger(-SignedMax, offset) - 1

Returns(s) == /\ status' = s
              /\ UNCHANGED <<begin, stored, kind, offset, cursor, count, got>>

Finds(n) == /\ status' = "found" /\ got' = n
            /\ UNCHANGED <<begin, stored, kind, offset, cursor, count>>

Running(k) == status = "run" /\ kind = k

-----------------------------------------------------------------------------
(***************************************************************************)
(* Forward: the loop reads the id files from untrusted_begin on.           *)
(***************************************************************************)
Forward == Running("relative") /\ OffsetPrime > 0

WalkMissing == /\ Forward
               /\ cursor \notin stored
               /\ Returns("none")

(* Faulty: one read too few. *)
FaultyArrived == count = OffsetPrime - 1

Arrived == count = OffsetPrime

WalkFinds == /\ Forward
             /\ cursor \in stored
             /\ Arrived
             /\ Finds(cursor)

NextCursor == cursor + 1

(* Faulty: the greatest node has a next one. *)
FaultyWalkUnchecked == /\ Forward
                       /\ cursor \in stored
                       /\ ~ Arrived
                       /\ cursor' = NextCursor
                       /\ count' = count + 1
                       /\ UNCHANGED <<begin, stored, kind, offset, status, got>>

WalkOn == /\ Forward
          /\ cursor \in stored
          /\ ~ Arrived
          /\ cursor # MaxWord
          /\ cursor' = NextCursor
          /\ count' = count + 1
          /\ UNCHANGED <<begin, stored, kind, offset, status, got>>

(* next() of the greatest node throws. *)
WalkTooBig == /\ Forward
              /\ cursor \in stored
              /\ ~ Arrived
              /\ cursor = MaxWord
              /\ Returns("too_big")

(***************************************************************************)
(* Backward: one id file is read, that of untrusted_begin + offset.        *)
(***************************************************************************)
Backward == Running("relative") /\ OffsetPrime <= 0

BackTooBig == /\ Backward
              /\ begin > SignedMax
              /\ Returns("too_big")

InRange == OffsetPrime >= -begin

BackOutOfRange == /\ Backward
                  /\ begin <= SignedMax
                  /\ ~ InRange
                  /\ Returns("none")

(* The sum is unsigned: a negative one would be a node near the end.        *)
Target == IF begin + offset < 0 THEN begin + offset + MaxWord + 1 ELSE begin + offset

BackFinds == /\ Backward
             /\ begin <= SignedMax
             /\ InRange
             /\ Target \in stored
             /\ Finds(Target)

BackMissing == /\ Backward
               /\ begin <= SignedMax
               /\ InRange
               /\ Target \notin stored
               /\ Returns("none")

(***************************************************************************)
(* "+max" is one less than getNextSnapshotNode(), which never gets past a  *)
(* node that is there: it sets prev to the node it has just read.          *)
(***************************************************************************)
LatestOccupied == /\ Running("latest")
                  /\ cursor \in stored
                  /\ cursor' = cursor
                  /\ UNCHANGED <<begin, stored, kind, offset, count, status, got>>

LatestEmpty == /\ Running("latest")
               /\ cursor \notin stored
               /\ cursor = 0
               /\ Returns("empty")

(* Faulty: the next node instead of the newest. *)
FaultyLatestFinds == /\ Running("latest")
                     /\ cursor \notin stored
                     /\ cursor # 0
                     /\ Finds(cursor)

LatestFinds == /\ Running("latest")
               /\ cursor \notin stored
               /\ cursor # 0
               /\ Finds(cursor - 1)

-----------------------------------------------------------------------------
(* The copying tool, in any order.                                          *)
Arrives(n) == /\ n \notin stored
              /\ stored' = stored \cup {n}
              /\ UNCHANGED <<begin, kind, offset, cursor, count, status, got>>

Step == \/ WalkMissing \/ WalkFinds \/ WalkOn \/ WalkTooBig
        \/ BackTooBig \/ BackOutOfRange \/ BackFinds \/ BackMissing
        \/ LatestOccupied \/ LatestEmpty \/ LatestFinds

Next == Step \/ \E n \in Untrusted : Arrives(n)

Spec == Init /\ [][Next]_vars

-----------------------------------------------------------------------------
TypeOK == /\ begin \in Words /\ stored \subseteq Words
          /\ kind \in {"relative", "latest"} /\ offset \in Signed
          /\ cursor \in Words /\ count \in 0..MaxWord
          /\ status \in {"run", "found", "none", "too_big", "empty"}
          /\ got \in Words

(* "Arithmetic must not overflow; offset is allowed to be signedlimits::max()*)
(* and signedlimits::min()" (RepositoryStructure.cpp:399-400): neither the  *)
(* adjusted offset nor the negated untrusted_begin leaves the signed word,  *)
(* and the node that is read is the sum and not something modulo 2^64; and  *)
(* none is read for a number that, counted from the last trusted node, lies *)
(* before the root.                                                         *)
NeverOverflows ==
  kind = "relative" =>
    /\ OffsetPrime \in Signed
    /\ Backward /\ begin <= SignedMax => -begin \in Signed
    /\ Backward /\ begin <= SignedMax /\ InRange =>
         Target = begin + offset /\ begin - 1 + offset >= 0

(* Which node is found, for every offset.  One of 2 or more, counted from   *)
(* the last trusted node, finds the node asked for, and only when every     *)
(* node in between is there, whatever the copying tool adds meanwhile.      *)
(* Every other offset, 1 included, takes the branch without a walk, which   *)
(* adds it to begin and not to the last trusted node, begin - 1: what is    *)
(* found is the node after the one that is meant by "relative to the most   *)
(* recent trusted node" (CommandLineInterface.cpp:93-95).                   *)
RelativeFinds ==
  status = "found" /\ kind = "relative" =>
    IF offset > 1 THEN got = begin - 1 + offset /\ begin..got \subseteq stored
                  ELSE got = begin + offset

(* "+max", the default of restore, finds a node whose path is there to the  *)
(* root, although the pruning for the node after it may have begun.         *)
LatestIsRestorable ==
  status = "found" /\ kind = "latest" => Path(got) \subseteq stored
=============================================================================
