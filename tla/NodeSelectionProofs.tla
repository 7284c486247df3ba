------------------------ MODULE NodeSelectionProofs ------------------------
(***************************************************************************)
(* The arithmetic of getNodeRelativeToLastTrusted() for every size of the  *)
(* word, and what its loop and "+max" find while the copying tool is at    *)
(* work.                                                                   *)
(***************************************************************************)
EXTENDS NodeSelection, FenwickTreeProofs

(* How far the loop is, and that what has been read is there. *)
Reading == /\ kind = "relative" => /\ cursor = begin + count
                                   /\ \A n \in Words : begin <= n /\ n < cursor => n \in stored
           /\ kind = "latest" => cursor = begin

(* What is left of the trusted nodes when the next pruning has begun. *)
Trusted == begin # 0 => AliveAfter(begin - 1) \ Pruned(begin) \subseteq stored

NInv == /\ TypeOK /\ Reading /\ Trusted
        /\ NeverOverflows /\ RelativeFinds /\ LatestIsRestorable

-----------------------------------------------------------------------------
LEMMA Sizes ==
  /\ SignedMax \in Nat \ {0} /\ MaxWord = 2 * SignedMax + 1 /\ MaxWord \in Nat
  /\ Words = 0..MaxWord /\ Signed = (-SignedMax - 1)..SignedMax
  /\ Offsets \subseteq Signed /\ Ahead \in Nat
BY SelectionAssumption DEF MaxWord, Words, Signed

(* Nothing on the path of a node dies when the next node is created: the    *)
(* victims of prune() are on no path that is still needed.                  *)
LEMMA PathOutlives ==
  ASSUME NEW n \in Nat, NEW k \in Path(n)
  PROVE  k \in AliveAfter(n) \ Pruned(n + 1)
<1>1. CASE k = 0
  BY <1>1 DEF AliveAfter, Outlives, Pruned
<1>2. CASE k # 0
  <2>1. k \in Nat \ {0} /\ k <= n
    BY <1>2, PathType
  <2>2. LSB(k) \in 1..k /\ Demise(k) = k + 3 * LSB(k)
    BY <2>1, LSBProperty DEF Demise
  <2>3. n - k < LSB(k)
    BY <1>2, <2>1, <2>2 DEF Path, ProperAncestors
  <2>4. Demise(k) > n + 1
    BY <2>1, <2>2, <2>3
  <2>5. Demise(k) > n /\ Demise(k) # n + 1 /\ k \in 0..n
    BY <2>1, <2>2, <2>4
  <2>6. QED
    BY <2>5 DEF AliveAfter, Outlives, Pruned
<1>3. QED
  BY <1>1, <1>2

(* The clamped offset leaves room for the adjustment, and the guard leaves  *)
(* only sums that are nodes.                                                *)
LEMMA RangesFit ==
  ASSUME TypeOK
  PROVE  /\ OffsetPrime \in Signed
         /\ begin <= SignedMax => -begin \in Signed
         /\ begin <= SignedMax /\ InRange =>
              begin - 1 + offset >= 0 /\ Target = begin + offset
         /\ OffsetPrime > 0 <=> offset > 1
         /\ OffsetPrime > 0 => OffsetPrime = offset - 1
<1>1. /\ begin \in 0..MaxWord /\ offset \in (-SignedMax - 1)..SignedMax
      /\ SignedMax \in Nat \ {0}
  BY Sizes DEF TypeOK
<1>2. OffsetPrime = IF -SignedMax < offset THEN offset - 1 ELSE -SignedMax - 1
  BY <1>1 DEF OffsetPrime, Larger
<1>3. /\ OffsetPrime \in Signed
      /\ OffsetPrime > 0 <=> offset > 1
      /\ OffsetPrime > 0 => OffsetPrime = offset - 1
  BY <1>1, <1>2, Sizes
<1>4. begin <= SignedMax => -begin \in Signed
  BY <1>1, Sizes
<1>5. begin <= SignedMax /\ InRange => begin - 1 + offset >= 0 /\ Target = begin + offset
  BY <1>1, <1>2, Sizes DEF InRange, Target
<1>6. QED
  BY <1>3, <1>4, <1>5

-----------------------------------------------------------------------------
LEMMA InitSelection == Init => NInv
<1> SUFFICES ASSUME Init PROVE NInv
  OBVIOUS
<1>1. begin \in Words /\ begin \in Nat /\ begin <= MaxWord
  BY Sizes DEF Init
<1>2. Untrusted \subseteq Words
  BY DEF Untrusted
<1>3. begin # 0 => AliveAfter(begin - 1) \subseteq Words
  BY <1>1, Sizes DEF AliveAfter
<1>4. stored \subseteq Words /\ Trusted
  <2>1. CASE begin = 0
    BY <1>2, <2>1 DEF Init, Trusted
  <2>2. CASE begin # 0
    <3>1. PICK old \in LeftAfter(begin - 1), new \in SUBSET Untrusted : stored = old \cup new
      BY <2>2 DEF Init
    <3>2. begin - 1 + 1 = begin
      BY <1>1
    <3>3. old \subseteq AliveAfter(begin - 1) /\ AliveAfter(begin - 1) \ Pruned(begin) \subseteq old
      BY <3>1, <3>2 DEF LeftAfter
    <3>4. QED
      BY <1>2, <1>3, <2>2, <3>1, <3>3 DEF Trusted
  <2>3. QED
    BY <2>1, <2>2
<1>5. cursor = begin /\ count = 0 /\ status = "run" /\ got = 0
  BY DEF Init
<1>6. kind \in {"relative", "latest"} /\ offset \in Signed
  <2>1. 0 \in Signed
    BY Sizes
  <2>2. /\ kind \in {"relative", "latest"}
        /\ offset \in Offsets \/ offset = 0
    BY DEF Init
  <2>3. QED
    BY <2>1, <2>2, Sizes
<1>7. TypeOK
  BY <1>1, <1>4, <1>5, <1>6, Sizes DEF TypeOK
<1>8. Reading
  BY <1>1, <1>5, Sizes DEF Reading
<1>9. NeverOverflows
  BY <1>7, RangesFit DEF NeverOverflows
<1>10. RelativeFinds /\ LatestIsRestorable
  BY <1>5 DEF RelativeFinds, LatestIsRestorable
<1>11. QED
  BY <1>4, <1>7, <1>8, <1>9, <1>10 DEF NInv

LEMMA SelectionTypes ==
  ASSUME TypeOK, Reading, [Next]_vars
  PROVE  TypeOK'
<1> USE Sizes DEF TypeOK
<1>1. CASE WalkMissing
  BY <1>1 DEF WalkMissing, Returns
<1>2. CASE WalkFinds
  BY <1>2 DEF WalkFinds, Finds
<1>3. CASE WalkOn
  <2>1. cursor' = cursor + 1 /\ count' = count + 1 /\ cursor = begin + count
    BY <1>3 DEF WalkOn, NextCursor, Forward, Running, Reading
  <2>2. cursor' \in Words /\ count' \in 0..MaxWord
    BY <1>3, <2>1 DEF WalkOn
  <2>3. QED
    BY <1>3, <2>2 DEF WalkOn
<1>4. CASE WalkTooBig
  BY <1>4 DEF WalkTooBig, Returns
<1>5. CASE BackTooBig
  BY <1>5 DEF BackTooBig, Returns
<1>6. CASE BackOutOfRange
  BY <1>6 DEF BackOutOfRange, Returns
<1>7. CASE BackFinds
  BY <1>7 DEF BackFinds, Finds
<1>8. CASE BackMissing
  BY <1>8 DEF BackMissing, Returns
<1>9. CASE LatestOccupied
  BY <1>9 DEF LatestOccupied
<1>10. CASE LatestEmpty
  BY <1>10 DEF LatestEmpty, Returns
<1>11. CASE LatestFinds
  BY <1>11 DEF LatestFinds, Finds
<1>12. ASSUME NEW n \in Untrusted, Arrives(n)
       PROVE  TypeOK'
  BY <1>12 DEF Arrives, Untrusted
<1>13. CASE UNCHANGED vars
  BY <1>13 DEF vars
<1>14. QED
  BY <1>1, <1>2, <1>3, <1>4, <1>5, <1>6, <1>7, <1>8, <1>9, <1>10, <1>11, <1>12, <1>13
     DEF Next, Step

LEMMA ReadingStep ==
  ASSUME TypeOK, Reading, Trusted, [Next]_vars
  PROVE  Reading' /\ Trusted'
<1>1. CASE WalkOn
  <2>1. /\ cursor' = cursor + 1 /\ count' = count + 1 /\ cursor = begin + count
        /\ kind = "relative" /\ cursor \in stored /\ UNCHANGED <<begin, stored, kind>>
    BY <1>1 DEF WalkOn, NextCursor, Forward, Running, Reading
  <2>2. cursor \in Nat /\ count \in Nat /\ begin \in Nat /\ Words \subseteq Nat
    BY Sizes DEF TypeOK
  <2>3. \A n \in Words : begin <= n /\ n < cursor + 1 => n \in stored
    BY <2>1, <2>2 DEF Reading
  <2>4. QED
    BY <2>1, <2>2, <2>3 DEF Reading, Trusted
<1>2. CASE /\ UNCHANGED <<begin, kind, cursor, count>> /\ stored \subseteq stored'
  BY <1>2 DEF Reading, Trusted
<1>3. QED
  BY <1>1, <1>2 DEF Next, Step, vars, Returns, Finds, WalkMissing, WalkFinds, WalkTooBig,
     BackTooBig, BackOutOfRange, BackFinds, BackMissing, LatestOccupied, LatestEmpty,
     LatestFinds, Arrives

LEMMA FoundStep ==
  ASSUME NInv, TypeOK', [Next]_vars
  PROVE  RelativeFinds' /\ LatestIsRestorable'
<1> USE DEF NInv
<1>a. /\ Words \subseteq Nat /\ begin \in Nat /\ cursor \in Words /\ count \in Nat
      /\ offset \in Int
  BY Sizes DEF TypeOK
<1>1. CASE WalkFinds
  <2>1. /\ kind = "relative" /\ OffsetPrime > 0 /\ cursor \in stored /\ got' = cursor
        /\ count = OffsetPrime /\ UNCHANGED <<begin, stored, kind, offset>>
    BY <1>1 DEF WalkFinds, Finds, Forward, Running, Arrived
  <2>2. OffsetPrime = offset - 1 /\ offset > 1
    BY <2>1, RangesFit
  <2>3. cursor = begin + count /\ \A n \in Words : begin <= n /\ n < cursor => n \in stored
    BY <2>1 DEF Reading
  <2>4. got' = begin - 1 + offset /\ begin - 1 + offset >= 0
    BY <1>a, <2>1, <2>2, <2>3
  <2>5. begin..cursor \subseteq stored
    <3>1. \A n \in begin..cursor : n \in Words /\ (n < cursor \/ n = cursor)
      BY <1>a, Sizes
    <3>2. QED
      BY <1>a, <2>1, <2>3, <3>1
  <2>6. QED
    BY <2>1, <2>2, <2>4, <2>5 DEF RelativeFinds, LatestIsRestorable
<1>2. CASE BackFinds
  <2>1. /\ kind = "relative" /\ ~ (OffsetPrime > 0) /\ begin <= SignedMax /\ InRange
        /\ UNCHANGED <<begin, kind, offset>>
    <3>1. OffsetPrime \in Int
      BY RangesFit, Sizes
    <3>2. QED
      BY <1>2, <3>1 DEF BackFinds, Finds, Backward, Running
  <2>2. Target = begin + offset /\ ~ (offset > 1)
    BY <2>1, RangesFit
  <2>3. got' = Target
    BY <1>2 DEF BackFinds, Finds
  <2>4. QED
    BY <2>1, <2>2, <2>3 DEF RelativeFinds, LatestIsRestorable
<1>3. CASE LatestFinds
  <2>1. kind = "latest" /\ kind' = kind /\ stored' = stored /\ cursor = begin /\ cursor # 0
        /\ got' = cursor - 1
    BY <1>3 DEF LatestFinds, Finds, Running, Reading
  <2>2. begin - 1 \in Nat /\ (begin - 1) + 1 = begin /\ begin # 0
    BY <1>a, <2>1
  <2>3. Path(begin - 1) \subseteq stored
    BY <2>2, PathOutlives DEF Trusted
  <2>4. QED
    BY <2>1, <2>3 DEF RelativeFinds, LatestIsRestorable
<1>4. CASE status' # "found"
  BY <1>4 DEF RelativeFinds, LatestIsRestorable
<1>5. CASE UNCHANGED <<begin, kind, offset, status, got>> /\ stored \subseteq stored'
  BY <1>5 DEF RelativeFinds, LatestIsRestorable
<1>6. QED
  BY <1>1, <1>2, <1>3, <1>4, <1>5 DEF Next, Step, vars, Returns, WalkMissing, WalkOn,
     WalkTooBig, BackTooBig, BackOutOfRange, BackMissing, LatestOccupied, LatestEmpty,
     Arrives

LEMMA SelectionStep == NInv /\ [Next]_vars => NInv'
<1> SUFFICES ASSUME NInv, [Next]_vars PROVE NInv'
  OBVIOUS
<1>1. TypeOK'
  BY SelectionTypes DEF NInv
<1>2. Reading' /\ Trusted'
  BY ReadingStep DEF NInv
<1>3. NeverOverflows'
  BY <1>1, RangesFit, PTL DEF NeverOverflows
<1>4. RelativeFinds' /\ LatestIsRestorable'
  BY <1>1, FoundStep
<1>5. QED
  BY <1>1, <1>2, <1>3, <1>4 DEF NInv

(* Everything that NInv says holds at every step of every call, for every   *)
(* size of the word.                                                        *)
THEOREM Invariance == Spec => []NInv
<1>1. NInv /\ UNCHANGED vars => NInv'
  BY SelectionStep
<1>2. QED
  BY <1>1, InitSelection, SelectionStep, PTL DEF Spec

(* Type correctness: next() throws before the loop's node leaves the word.  *)
THEOREM SelectionTyped == Spec => []TypeOK
<1>1. NInv => TypeOK
  BY DEF NInv
<1>2. QED
  BY <1>1, Invariance, PTL

(* The comments of getNodeRelativeToLastTrusted() on overflow, and its      *)
(* guard: nothing is read for a number before the root's.                   *)
THEOREM ArithmeticFits == Spec => []NeverOverflows
<1>1. NInv => NeverOverflows
  BY DEF NInv
<1>2. QED
  BY <1>1, Invariance, PTL

(* Which node each offset finds: from 2 on the one asked for, with all that *)
(* are before it there; below, the one after it.                            *)
THEOREM RelativeFound == Spec => []RelativeFinds
<1>1. NInv => RelativeFinds
  BY DEF NInv
<1>2. QED
  BY <1>1, Invariance, PTL

(* restore without a node parameter: the newest node, with its path.        *)
THEOREM NewestRestorable == Spec => []LatestIsRestorable
<1>1. NInv => LatestIsRestorable
  BY DEF NInv
<1>2. QED
  BY <1>1, Invariance, PTL
=============================================================================
