-------------------------- MODULE TreeLoopsProofs --------------------------
(***************************************************************************)
(* What the three loops of diffmonger.hpp report, for a word of every      *)
(* size.  The inductive invariant IInv says how far each loop has come:    *)
(* what it has reported is what its set has above the loop variable (the   *)
(* path), within a distance of the node that doubles (alive_after), below  *)
(* a bit that moves up (prune).                                            *)
(***************************************************************************)
EXTENDS TreeLoops, FenwickTreeProofs, SequenceTheorems, FiniteSetTheorems

Elements(s) == {s[i] : i \in 1..Len(s)}

Descending(s) == \A i \in 1..(Len(s) - 1) : s[i] > s[i + 1]

(* The gaps of what is alive when node n is the newest. *)
Thin(s, n) == \A i \in 1..(Len(s) - 1) : 2 * (s[i] - s[i + 1] - 1) <= n - s[i + 1]

(***************************************************************************)
(* fenwick_path_inc_root() has reported the path above the loop variable.  *)
(***************************************************************************)
PathInv ==
  /\ cur \in Path(node)
  /\ bits = 1
  /\ status = "run" => Reported = {k \in Path(node) : k > cur}
  /\ status = "done" => Reported = Path(node)
  /\ status # "too_big"

(***************************************************************************)
(* alive_after() with the mask at 2 * q: the anchor is the multiple of q   *)
(* whose distance from the node is between q and 2 * q, and what is alive  *)
(* less than q away has been reported.  The last report is the anchor      *)
(* before this one, and there is room for what this iteration reports.     *)
(***************************************************************************)
AliveAt(q) ==
  /\ IsPow2(q)
  /\ bits = 2 * q
  /\ cur % q = 0
  /\ cur + q <= node /\ node < cur + 2 * q
  /\ Reported = {k \in AliveAfter(node) : node - k < q}
  /\ Len(out) + Len(AliveReport) <= 2 * Cardinality(Path(q - 1))
  /\ \E l \in 0..node : /\ Len(out) > 0 /\ out[Len(out)] = l
                        /\ l = cur + q \/ 2 * l = 2 * cur + q
                        /\ q <= 2 * (node - l) + 1 /\ node - l < q

AliveInv ==
  /\ Thin(out, node)
  /\ status = "run" => \/ bits = 1 /\ cur = node /\ out = <<>>
                       \/ \E q \in 1..(TopBit \div 2) : AliveAt(q)
  /\ status # "run" => \E k \in 0..node : Len(out) <= 2 * Cardinality(Path(k))
  /\ status = "done" => Reported = AliveAfter(node) /\ node < TopBit
  /\ status = "too_big" => node >= TopBit

(***************************************************************************)
(* prune() with the mask at 2 * p - 1: the node is a multiple of p, and    *)
(* the victims whose lowest set bit is below p have been reported.         *)
(***************************************************************************)
PruneAt(p) ==
  /\ IsPow2(p)
  /\ bits = 2 * p - 1
  /\ node % p = 0
  /\ Reported = {k \in Pruned(node) : LSB(k) < p}
  /\ \A i \in 1..Len(out) : out[i] + 3 * p > node

PruneInv ==
  /\ status = "run" => \E p \in 1..(TopBit \div 2) : PruneAt(p)
  /\ status = "done" => Reported = Pruned(node)
  /\ status # "run" => (status = "too_big" <=> node \in {TopBit, TopBit + TopBit \div 2})

IInv == /\ TypeOK
        /\ Descending(out)
        /\ fn = "path" => PathInv
        /\ fn = "alive" => AliveInv
        /\ fn = "prune" => PruneInv

-----------------------------------------------------------------------------
(***************************************************************************)
(* The depth of the tree grows by one node per bit.                        *)
(***************************************************************************)
LEMMA DepthDoubles ==
  ASSUME NEW q \in Nat \ {0}, IsPow2(q)
  PROVE  /\ IsFiniteSet(Path(q - 1))
         /\ Cardinality(Path(2 * q - 1)) = Cardinality(Path(q - 1)) + 1
<1> DEFINE S == Path(q - 1)
           T == {q + j : j \in S}
           f == [j \in S |-> q + j]
<1>1. S \subseteq 0..(q - 1)
  BY PathType
<1>2. IsFiniteSet(S)
  <2>1. IsFiniteSet(0..(q - 1))
    BY FS_Interval
  <2>2. QED BY <1>1, <2>1, FS_Subset
<1>3. f \in Bijection(S, T)
  <2>1. f \in Injection(S, T)
    <3>1. f \in [S -> T]
      OBVIOUS
    <3>2. \A i, j \in S : f[i] = f[j] => i = j
      BY <1>1
    <3> HIDE DEF f, S, T
    <3>3. QED BY <3>1, <3>2 DEF Injection, IsInjective
  <2>2. f \in Surjection(S, T)
    BY DEF Surjection
  <2>3. QED BY <2>1, <2>2 DEF Bijection
<1>4. IsFiniteSet(T) /\ Cardinality(T) = Cardinality(S)
  <2>1. ExistsBijection(S, T)
    BY <1>3 DEF ExistsBijection
  <2> HIDE DEF S, T
  <2>2. QED BY <1>2, <2>1, FS_Bijection
<1>5. 0 \notin T
  BY <1>1
<1>6. Cardinality(T \cup {0}) = Cardinality(T) + 1
  <2> HIDE DEF T
  <2>1. QED BY <1>4, <1>5, FS_AddElement
<1>7. Path(2 * q - 1) = T \cup {0}
  <2>1. 2 * q - 1 = q + (q - 1) /\ q - 1 \in 0..(q - 1)
    OBVIOUS
  <2>2. QED BY <2>1, PathDeeper
<1>8. QED
  BY <1>2, <1>4, <1>6, <1>7
-----------------------------------------------------------------------------
(***************************************************************************)
(* Appending a smaller node.                                               *)
(***************************************************************************)
LEMMA AppendLemma ==
  ASSUME NEW n \in Nat, NEW s \in Seq(0..n), NEW x \in 0..n
  PROVE  /\ Append(s, x) \in Seq(0..n)
         /\ Len(Append(s, x)) = Len(s) + 1 /\ Len(s) \in Nat
         /\ Append(s, x)[Len(s) + 1] = x
         /\ Elements(Append(s, x)) = Elements(s) \cup {x}
         /\ Elements(s) \subseteq 0..n
         /\ Descending(s) /\ (\A y \in Elements(s) : y > x) => Descending(Append(s, x))
         /\ Thin(s, n) /\ (Len(s) > 0 => 2 * (s[Len(s)] - x - 1) <= n - x)
              => Thin(Append(s, x), n)
<1> DEFINE t == Append(s, x)
<1>1. t \in Seq(0..n) /\ Len(t) = Len(s) + 1 /\ Len(s) \in Nat /\ t[Len(s) + 1] = x
  OBVIOUS
<1>2. \A i \in 1..Len(s) : t[i] = s[i] /\ s[i] \in 0..n
  OBVIOUS
<1> HIDE DEF t
<1>3. Elements(t) = Elements(s) \cup {x}
  <2>1. ASSUME NEW i \in 1..Len(t) PROVE t[i] \in Elements(s) \cup {x}
    <3>1. i = Len(s) + 1 \/ i \in 1..Len(s)
      BY <1>1
    <3>2. QED BY <1>1, <1>2, <3>1 DEF Elements
  <2>2. ASSUME NEW i \in 1..Len(s) PROVE s[i] \in Elements(t)
    <3>1. i \in 1..Len(t) /\ t[i] = s[i]
      BY <1>1, <1>2
    <3>2. QED BY <3>1 DEF Elements
  <2>3. x \in Elements(t)
    <3>1. Len(s) + 1 \in 1..Len(t)
      BY <1>1
    <3>2. QED BY <1>1, <3>1 DEF Elements
  <2>4. QED BY <2>1, <2>2, <2>3 DEF Elements
<1>4. Elements(s) \subseteq 0..n
  BY <1>2 DEF Elements
<1>5. ASSUME Descending(s), \A y \in Elements(s) : y > x PROVE Descending(t)
  <2> SUFFICES ASSUME NEW i \in 1..(Len(t) - 1) PROVE t[i] > t[i + 1]
    BY DEF Descending
  <2>1. CASE i = Len(s)
    <3>1. i \in 1..Len(s)
      BY <1>1
    <3>2. s[i] \in Elements(s)
      BY <3>1 DEF Elements
    <3>3. t[i] = s[i] /\ t[i + 1] = x
      BY <1>1, <1>2, <2>1, <3>1
    <3>4. QED BY <1>5, <3>2, <3>3
  <2>2. CASE i # Len(s)
    <3>1. i \in 1..Len(s) /\ i + 1 \in 1..Len(s) /\ i \in 1..(Len(s) - 1)
      BY <1>1, <2>2
    <3>2. QED BY <1>2, <1>5, <3>1 DEF Descending
  <2>3. QED BY <2>1, <2>2
<1>6. ASSUME Thin(s, n), Len(s) > 0 => 2 * (s[Len(s)] - x - 1) <= n - x
      PROVE  Thin(t, n)
  <2> SUFFICES ASSUME NEW i \in 1..(Len(t) - 1)
               PROVE  2 * (t[i] - t[i + 1] - 1) <= n - t[i + 1]
    BY DEF Thin
  <2>1. CASE i = Len(s)
    <3>1. i \in 1..Len(s) /\ Len(s) > 0
      BY <1>1, <2>1
    <3>2. QED BY <1>1, <1>2, <1>6, <2>1, <3>1
  <2>2. CASE i # Len(s)
    <3>1. i \in 1..Len(s) /\ i + 1 \in 1..Len(s) /\ i \in 1..(Len(s) - 1)
      BY <1>1, <2>2
    <3>2. t[i] = s[i] /\ t[i + 1] = s[i + 1]
      BY <1>2, <3>1
    <3>3. 2 * (s[i] - s[i + 1] - 1) <= n - s[i + 1]
      BY <1>6, <3>1 DEF Thin
    <3>4. QED BY <3>2, <3>3
  <2>3. QED BY <2>1, <2>2
<1>7. QED
  BY <1>1, <1>3, <1>4, <1>5, <1>6 DEF t

LEMMA ConcatLemma ==
  ASSUME NEW n \in Nat, NEW s \in Seq(0..n), NEW x \in 0..n, NEW y \in 0..n
  PROVE  /\ s \o <<x>> = Append(s, x)
         /\ s \o <<x, y>> = Append(Append(s, x), y)
         /\ Len(<<x>>) = 1 /\ Len(<<x, y>>) = 2
OBVIOUS

(***************************************************************************)
(* Division by a mask's power of two.                                      *)
(***************************************************************************)
LEMMA DivMod ==
  ASSUME NEW d \in Nat \ {0}, NEW x \in Nat
  PROVE  x \div d \in Nat /\ x % d \in 0..(d - 1) /\ x = d * (x \div d) + (x % d)
BY SMT

LEMMA DivModUnique ==
  ASSUME NEW d \in Nat \ {0}, NEW b \in Nat, NEW r \in 0..(d - 1)
  PROVE  (d * b + r) \div d = b /\ (d * b + r) % d = r
<1>1. (d * b + r) \div d = b
  BY SMT
<1>2. (d * b + r) % d = r
  BY SMT
<1>3. QED
  BY <1>1, <1>2

LEMMA MultipleMod ==
  ASSUME NEW d \in Nat \ {0}, NEW x \in Nat
  PROVE  x % d = 0 <=> \E b \in Nat : x = d * b
<1>1. ASSUME x % d = 0 PROVE x = d * (x \div d) /\ x \div d \in Nat
  <2>1. x = d * (x \div d) + (x % d) /\ x \div d \in Nat
    BY DivMod
  <2>2. d * (x \div d) \in Nat
    BY <2>1, SMT
  <2>3. QED BY <1>1, <2>1, <2>2
<1>2. ASSUME NEW b \in Nat, x = d * b PROVE x % d = 0
  <2>1. 0 \in 0..(d - 1) /\ d * b \in Nat
    BY <1>2
  <2>2. (d * b + 0) % d = 0
    BY <2>1, DivModUnique
  <2>3. d * b + 0 = x
    BY <1>2
  <2>4. QED BY <2>2, <2>3
<1>3. QED
  BY <1>1, <1>2

(***************************************************************************)
(* What the top bit is.                             *)
(***************************************************************************)
LEMMA TopBitFacts ==
  /\ TopBit \in Nat \ {0, 1} /\ IsPow2(TopBit)
  /\ TopBit \div 2 \in Nat \ {0} /\ TopBit = 2 * (TopBit \div 2) /\ IsPow2(TopBit \div 2)
<1>1. TopBit \in Nat \ {0, 1} /\ IsPow2(TopBit)
  BY TopBitAssumption
<1>2. PICK h \in Nat \ {0} : TopBit = 2 * h /\ IsPow2(h)
  BY <1>1, HalvePow2
<1>3. TopBit \div 2 = h
  BY <1>2
<1>4. QED
  BY <1>1, <1>2, <1>3

LEMMA OnePow2 == IsPow2(1)
BY DEF IsPow2

LEMMA InitInv == Init => IInv
<1> SUFFICES ASSUME Init PROVE IInv
  OBVIOUS
<1> USE DEF Init
<1>1. node \in Nat /\ cur = node /\ bits = 1 /\ out = <<>> /\ status = "run"
  BY TopBitFacts DEF Words
<1>2. TypeOK
  BY <1>1, TopBitFacts DEF TypeOK, Words
<1>3. Descending(out) /\ Thin(out, node) /\ Reported = {}
  BY <1>1 DEF Descending, Thin, Reported
<1>4. ASSUME fn = "path" PROVE PathInv
  <2>1. node \in Path(node) /\ {k \in Path(node) : k > node} = {}
    BY <1>1, PathType
  <2>2. QED BY <1>1, <1>3, <2>1 DEF PathInv
<1>5. ASSUME fn = "alive" PROVE AliveInv
  BY <1>1, <1>3 DEF AliveInv
<1>6. ASSUME fn = "prune" PROVE PruneInv
  <2>1. {k \in Pruned(node) : LSB(k) < 1} = {}
    <3>1. \A k \in Pruned(node) : k \in Nat \ {0}
      BY <1>1 DEF Pruned
    <3>2. \A k \in Pruned(node) : LSB(k) \in 1..k /\ k \in Nat
      BY <3>1, LSBProperty
    <3>3. QED BY <3>2
  <2>2. 1 \in 1..(TopBit \div 2) /\ node % 1 = 0
    BY <1>1, TopBitFacts
  <2>3. PruneAt(1)
    BY <1>1, <1>3, <2>1, <2>2, OnePow2 DEF PruneAt
  <2>4. QED BY <1>1, <2>2, <2>3 DEF PruneInv
<1>7. QED
  BY <1>2, <1>3, <1>4, <1>5, <1>6 DEF IInv

-----------------------------------------------------------------------------
(***************************************************************************)
(* The path loop.                                                          *)
(***************************************************************************)
LEMMA PathStepInv == IInv /\ PathStep => IInv'
<1> SUFFICES ASSUME IInv, PathStep PROVE IInv'
  OBVIOUS
<1>1. /\ fn = "path" /\ status = "run" /\ cur # 0
      /\ out' = Append(out, cur) /\ cur' = Parent(cur)
      /\ fn' = fn /\ node' = node /\ bits' = bits /\ status' = status
  BY DEF PathStep, Running, Parent
<1>2. /\ node \in Nat /\ node \in Words /\ cur \in 0..node /\ out \in Seq(0..node)
      /\ Descending(out) /\ bits \in Words
  BY TopBitFacts DEF IInv, TypeOK, Words
<1>3. PathInv /\ cur \in Path(node) /\ Elements(out) = {k \in Path(node) : k > cur}
  BY <1>1 DEF IInv, PathInv, Reported, Elements
<1>4. cur' \in Nat /\ cur' < cur
  BY <1>1, <1>2, ParentType
<1>5. cur' \in Path(node) /\ \A k \in Path(node) : k < cur => k <= cur'
  BY <1>1, <1>2, <1>3, PathSteps
<1>6. out' \in Seq(0..node) /\ Elements(out') = Elements(out) \cup {cur} /\ Descending(out')
  BY <1>1, <1>2, <1>3, AppendLemma
<1>7. TypeOK'
  BY <1>1, <1>2, <1>4, <1>6 DEF TypeOK, Words
<1>8. Elements(out') = {k \in Path(node) : k > cur'}
  <2>1. Path(node) \subseteq Nat
    BY <1>2, PathType
  <2>2. QED BY <1>2, <1>3, <1>4, <1>5, <1>6, <2>1
<1>9. PathInv'
  BY <1>1, <1>3, <1>5, <1>8 DEF PathInv, Reported, Elements
<1>10. QED
  BY <1>1, <1>6, <1>7, <1>9 DEF IInv

LEMMA PathRootInv == IInv /\ PathRoot => IInv'
<1> SUFFICES ASSUME IInv, PathRoot PROVE IInv'
  OBVIOUS
<1>1. /\ fn = "path" /\ status = "run" /\ cur = 0
      /\ out' = Append(out, cur) /\ cur' = cur
      /\ fn' = fn /\ node' = node /\ bits' = bits /\ status' = "done"
  BY DEF PathRoot, Running
<1>2. /\ node \in Nat /\ node \in Words /\ cur \in 0..node /\ out \in Seq(0..node)
      /\ Descending(out) /\ bits \in Words
  BY TopBitFacts DEF IInv, TypeOK, Words
<1>3. PathInv /\ cur \in Path(node) /\ Elements(out) = {k \in Path(node) : k > cur}
  BY <1>1 DEF IInv, PathInv, Reported, Elements
<1>4. out' \in Seq(0..node) /\ Elements(out') = Elements(out) \cup {cur} /\ Descending(out')
  BY <1>1, <1>2, <1>3, AppendLemma
<1>5. TypeOK'
  BY <1>1, <1>2, <1>4 DEF TypeOK
<1>6. Elements(out') = Path(node)
  <2>1. Path(node) \subseteq Nat
    BY <1>2, PathType
  <2>2. \A k \in Path(node) : k > cur \/ k = cur
    BY <1>1, <2>1
  <2>3. QED BY <1>3, <1>4, <2>2
<1>7. PathInv'
  BY <1>1, <1>3, <1>6 DEF PathInv, Reported, Elements
<1>8. QED
  BY <1>1, <1>4, <1>5, <1>7 DEF IInv

-----------------------------------------------------------------------------
(***************************************************************************)
(* The alive loop: what one iteration reports.                             *)
(***************************************************************************)
LEMMA AliveReports ==
  ASSUME TypeOK, Descending(out), Thin(out, node), NEW q \in Nat \ {0}, AliveAt(q)
  PROVE  /\ out \o AliveReport \in Seq(0..node)
         /\ Elements(out \o AliveReport) = {k \in AliveAfter(node) : node - k < 2 * q}
         /\ Descending(out \o AliveReport) /\ Thin(out \o AliveReport, node)
         /\ Len(out \o AliveReport) \in Nat \ {0}
         /\ (out \o AliveReport)[Len(out \o AliveReport)] = cur
         /\ Len(out \o AliveReport) <= 2 * Cardinality(Path(q - 1))
<1> DEFINE a == cur \div q
           h == q \div 2
           r == out \o AliveReport
<1>1. node \in Nat /\ cur \in 0..node /\ out \in Seq(0..node)
  BY TopBitFacts DEF TypeOK, Words
<1>2. /\ IsPow2(q) /\ bits = 2 * q /\ cur % q = 0 /\ cur + q <= node /\ node < cur + 2 * q
      /\ Elements(out) = {k \in AliveAfter(node) : node - k < q}
      /\ Len(out) + Len(AliveReport) <= 2 * Cardinality(Path(q - 1))
  BY DEF AliveAt, Reported, Elements
<1>3. PICK l \in 0..node : /\ Len(out) > 0 /\ out[Len(out)] = l
                           /\ l = cur + q \/ 2 * l = 2 * cur + q
                           /\ q <= 2 * (node - l) + 1 /\ node - l < q
  BY DEF AliveAt
<1>4. a \in Nat /\ cur = q * a
  <2>1. cur = q * (cur \div q) + (cur % q) /\ cur \div q \in Nat
    <3>1. cur \in Nat
      BY <1>1
    <3>2. QED BY <3>1, DivMod
  <2>2. q * (cur \div q) \in Nat
    BY <2>1, SMT
  <2>3. QED BY <1>2, <2>1, <2>2
<1>5. h \in Nat /\ (q = 1 => h = 0) /\ (q # 1 => q = 2 * h)
  <2>1. q # 1 => q = 2 * h
    BY <1>2, HalvePow2
  <2>2. QED BY <2>1
<1>6. \A k \in Nat : k \in AliveAfter(node) /\ q <= node - k /\ node - k < 2 * q
                        <=> k = cur \/ (k = cur + h /\ node - cur >= q + h)
  <2>1. PICK g \in Nat : g = q \div 2 /\ g = h
    OBVIOUS
  <2>2. PICK c \in Nat : c = cur /\ c = q * a /\ c + q <= node /\ node < c + 2 * q
    BY <1>1, <1>2, <1>4
  <2> HIDE DEF a, h
  <2>3. \A k \in Nat : k \in AliveAfter(node) /\ q <= node - k /\ node - k < 2 * q
                          <=> k = c \/ (k = c + g /\ node - c >= q + g)
    BY <1>1, <1>2, <1>4, <2>1, <2>2, AliveLevel
  <2>4. QED BY <2>1, <2>2, <2>3
<1>7. bits \div 2 = q /\ bits \div 4 = h
  BY <1>2
<1>8. AliveReport = IF node - cur >= q + h /\ h # 0 THEN <<cur + h, cur>> ELSE <<cur>>
  BY <1>1, <1>5, <1>7 DEF AliveReport, Candidate
<1> HIDE DEF a, h
<1>9. Elements(out) \subseteq 0..node /\ \A k \in Elements(out) : node - k < q
  BY <1>1, <1>2, AppendLemma
<1>10. CASE node - cur >= q + h /\ h # 0
  <2> DEFINE s == Append(out, cur + h)
  <2>1. cur + h \in 0..node /\ q = 2 * h
    BY <1>1, <1>5, <1>10
  <2>2. r = Append(s, cur)
    BY <1>1, <1>8, <1>10, <2>1, ConcatLemma
  <2>3. \A y \in Elements(out) : y > cur + h
    BY <1>1, <1>5, <1>9, <1>10
  <2>4. 2 * (out[Len(out)] - (cur + h) - 1) <= node - (cur + h)
    BY <1>1, <1>2, <1>3, <1>5, <1>10
  <2>5. /\ s \in Seq(0..node) /\ Descending(s) /\ Thin(s, node)
        /\ Elements(s) = Elements(out) \cup {cur + h}
        /\ Len(s) = Len(out) + 1 /\ s[Len(s)] = cur + h /\ Len(out) \in Nat
    <3> HIDE DEF s
    <3>1. QED BY <1>1, <2>1, <2>3, <2>4, AppendLemma DEF s
  <2> HIDE DEF s
  <2>6. \A y \in Elements(s) : y > cur
    BY <1>1, <1>5, <1>9, <1>10, <2>3, <2>5
  <2>7. 2 * (s[Len(s)] - cur - 1) <= node - cur
    BY <1>1, <1>5, <1>10, <2>1, <2>5
  <2>8. /\ r \in Seq(0..node) /\ Descending(r) /\ Thin(r, node)
        /\ Elements(r) = Elements(out) \cup {cur, cur + h}
        /\ Len(r) = Len(s) + 1 /\ r[Len(r)] = cur
    <3> HIDE DEF r
    <3>1. /\ r \in Seq(0..node) /\ Len(s) \in Nat
          /\ Elements(r) = Elements(s) \cup {cur}
          /\ Len(r) = Len(s) + 1 /\ r[Len(s) + 1] = cur
      BY <1>1, <2>2, <2>5, AppendLemma
    <3>2. Descending(r)
      BY <1>1, <2>2, <2>5, <2>6, AppendLemma
    <3>3. Thin(r, node)
      BY <1>1, <2>2, <2>5, <2>7, AppendLemma
    <3>4. QED BY <2>5, <3>1, <3>2, <3>3
  <2>9. Elements(r) = {k \in AliveAfter(node) : node - k < 2 * q}
    <3>1. \A k \in AliveAfter(node) : k \in Nat
      BY DEF AliveAfter
    <3>2. \A k \in AliveAfter(node) : node - k < 2 * q <=> node - k < q \/ k = cur \/ k = cur + h
      <4> SUFFICES ASSUME NEW k \in AliveAfter(node)
                   PROVE  node - k < 2 * q <=> node - k < q \/ k = cur \/ k = cur + h
        OBVIOUS
      <4>1. k \in Nat /\ (q <= node - k /\ node - k < 2 * q => k = cur \/ k = cur + h)
        BY <1>6, <3>1
      <4>2. QED BY <1>1, <1>2, <1>5, <1>10, <2>1, <4>1
    <3>3. cur \in AliveAfter(node) /\ cur + h \in AliveAfter(node)
      BY <1>1, <1>6, <1>10, <2>1
    <3> HIDE DEF r
    <3>4. QED BY <1>2, <2>8, <3>2, <3>3
  <2>10. Len(AliveReport) = 2
    BY <1>8, <1>10
  <2> HIDE DEF r
  <2>11. Len(r) \in Nat \ {0} /\ Len(r) <= 2 * Cardinality(Path(q - 1))
    BY <1>2, <2>5, <2>8, <2>10
  <2>12. QED BY <2>8, <2>9, <2>11 DEF r
<1>11. CASE ~ (node - cur >= q + h /\ h # 0)
  <2>1. r = Append(out, cur) /\ Len(AliveReport) = 1
    BY <1>1, <1>8, <1>11, ConcatLemma
  <2>2. \A y \in Elements(out) : y > cur
    BY <1>1, <1>2, <1>9
  <2>3. 2 * (out[Len(out)] - cur - 1) <= node - cur
    BY <1>1, <1>2, <1>3, <1>5, <1>11
  <2> HIDE DEF r
  <2>4. /\ r \in Seq(0..node) /\ Descending(r) /\ Thin(r, node)
        /\ Elements(r) = Elements(out) \cup {cur}
        /\ Len(r) = Len(out) + 1 /\ r[Len(r)] = cur /\ Len(out) \in Nat
    BY <1>1, <2>1, <2>2, <2>3, AppendLemma
  <2>5. Elements(r) = {k \in AliveAfter(node) : node - k < 2 * q}
    <3>1. \A k \in AliveAfter(node) : k \in Nat
      BY DEF AliveAfter
    <3>2. \A k \in AliveAfter(node) : node - k < 2 * q <=> node - k < q \/ k = cur
      BY <1>1, <1>2, <1>5, <1>6, <1>11, <3>1
    <3>3. cur \in AliveAfter(node)
      BY <1>1, <1>6
    <3>4. QED BY <1>2, <2>4, <3>2, <3>3
  <2>6. Len(r) \in Nat \ {0} /\ Len(r) <= 2 * Cardinality(Path(q - 1))
    BY <1>2, <2>1, <2>4
  <2>7. QED BY <2>4, <2>5, <2>6 DEF r
<1>12. QED
  BY <1>10, <1>11

(***************************************************************************)
(* The anchor moves down to a multiple of the doubled mask.                *)
(***************************************************************************)
LEMMA AnchorMoves ==
  ASSUME TypeOK, NEW q \in Nat \ {0}, AliveAt(q), cur # 0
  PROVE  /\ NextAnchor \in Nat /\ NextAnchor % (2 * q) = 0
         /\ cur = NextAnchor + q \/ cur = NextAnchor + 2 * q
         /\ NextAnchor + 2 * q <= node /\ node < NextAnchor + 4 * q
<1> DEFINE a == cur \div q
           b == (a - 1) \div 2
           M == (2 * q) * b
<1>1. node \in Nat /\ cur \in Nat /\ bits = 2 * q /\ cur % q = 0
      /\ cur + q <= node /\ node < cur + 2 * q
  BY TopBitFacts DEF TypeOK, Words, AliveAt
<1>2. a \in Nat /\ cur = q * a
  <2>1. cur = q * (cur \div q) + (cur % q) /\ cur \div q \in Nat
    <3>1. cur \in Nat
      BY <1>1
    <3>2. QED BY <3>1, DivMod
  <2>2. q * (cur \div q) \in Nat
    BY <2>1, SMT
  <2>3. QED BY <1>1, <2>1, <2>2
<1>3. a # 0
  BY <1>2, <1>1
<1>4. b \in Nat /\ (a = 2 * b + 1 \/ a = 2 * b + 2)
  <2> HIDE DEF a
  <2>1. QED BY <1>2, <1>3
<1> HIDE DEF a, b
<1>5. M \in Nat /\ (cur = M + q \/ cur = M + 2 * q)
  <2>1. q * (2 * b + 1) = (2 * q) * b + q /\ q * (2 * b + 2) = (2 * q) * b + 2 * q
    BY <1>4, SMT
  <2>2. (2 * q) * b \in Nat
    BY <1>4, SMT
  <2>3. QED BY <1>2, <1>4, <2>1, <2>2
<1>6. NextAnchor = M
  <2>1. PICK d \in 0..(2 * q - 1) : cur - 1 = (2 * q) * b + d
    <3> HIDE DEF M
    <3>1. cur - 1 - M \in 0..(2 * q - 1) /\ cur - 1 = M + (cur - 1 - M)
      BY <1>1, <1>5
    <3>2. QED BY <3>1 DEF M
  <2>2. 2 * q \in Nat \ {0}
    OBVIOUS
  <2>3. ((2 * q) * b + d) \div (2 * q) = b
    BY <1>4, <2>2, DivModUnique
  <2>4. NextAnchor = b * (2 * q)
    BY <1>1, <2>1, <2>3 DEF NextAnchor
  <2>5. b * (2 * q) = (2 * q) * b
    BY <1>4, SMT
  <2>6. QED BY <2>4, <2>5
<1>7. M % (2 * q) = 0
  <2>1. 2 * q \in Nat \ {0} /\ M \in Nat /\ b \in Nat /\ M = (2 * q) * b
    BY <1>4, <1>5
  <2> HIDE DEF M
  <2>2. QED BY <2>1, MultipleMod
<1> HIDE DEF M
<1>8. QED
  BY <1>1, <1>5, <1>6, <1>7

(***************************************************************************)
(* The first iteration reports the node itself.                            *)
(***************************************************************************)
LEMMA AliveFirst ==
  ASSUME TypeOK, bits = 1, cur = node, out = <<>>
  PROVE  /\ out \o AliveReport = <<node>>
         /\ out \o AliveReport \in Seq(0..node)
         /\ Elements(out \o AliveReport) = {node}
         /\ Descending(out \o AliveReport) /\ Thin(out \o AliveReport, node)
         /\ Len(out \o AliveReport) = 1
<1>1. node \in Nat /\ cur \in Nat
  BY TopBitFacts DEF TypeOK, Words
<1>2. AliveReport = <<cur>>
  BY <1>1 DEF AliveReport, Candidate
<1>3. out \o AliveReport = <<node>>
  BY <1>1, <1>2
<1>4. Elements(<<node>>) = {node}
  BY DEF Elements
<1>5. Descending(<<node>>) /\ Thin(<<node>>, node)
  <2>1. 1..(Len(<<node>>) - 1) = {}
    OBVIOUS
  <2>2. QED BY <2>1 DEF Descending, Thin
<1>6. <<node>> \in Seq(0..node) /\ Len(<<node>>) = 1
  BY <1>1
<1>7. QED
  BY <1>3, <1>4, <1>5, <1>6

LEMMA RootPathCard == IsFiniteSet(Path(0)) /\ Cardinality(Path(0)) = 1
<1>1. Path(0) = {0}
  BY DEF Path, ProperAncestors
<1>2. QED
  BY <1>1, FS_Singleton

LEMMA AliveStepInv == IInv /\ AliveStep => IInv'
<1> SUFFICES ASSUME IInv, AliveStep PROVE IInv'
  OBVIOUS
<1>1. /\ fn = "alive" /\ status = "run" /\ cur # 0 /\ bits # TopBit
      /\ out' = out \o AliveReport /\ cur' = NextAnchor /\ bits' = 2 * bits
      /\ fn' = fn /\ node' = node /\ status' = status
  BY DEF AliveStep, Running
<1>2. /\ TypeOK /\ node \in Nat /\ node \in Words /\ cur \in 0..node
      /\ Descending(out) /\ Thin(out, node)
  BY <1>1, TopBitFacts DEF IInv, TypeOK, Words, AliveInv
<1>3. (bits = 1 /\ cur = node /\ out = <<>>) \/ \E q \in 1..(TopBit \div 2) : AliveAt(q)
  BY <1>1 DEF IInv, AliveInv
<1>4. CASE bits = 1 /\ cur = node /\ out = <<>>
  <2>1. /\ out' = <<node>> /\ out' \in Seq(0..node) /\ Elements(out') = {node}
        /\ Descending(out') /\ Thin(out', node) /\ Len(out') = 1
    BY <1>1, <1>2, <1>4, AliveFirst
  <2>2. cur' = node - 1 /\ cur' \in Nat /\ node # 0
    BY <1>1, <1>2, <1>4 DEF NextAnchor
  <2>3. TypeOK'
    BY <1>1, <1>2, <1>4, <2>1, <2>2, TopBitFacts DEF TypeOK, Words
  <2>4. {k \in AliveAfter(node) : node - k < 1} = {node}
    <3>1. Demise(node) > node
      BY <1>2, <2>2, DemiseType
    <3>2. node \in AliveAfter(node)
      BY <1>2, <3>1 DEF AliveAfter, Outlives
    <3>3. \A k \in AliveAfter(node) : node - k < 1 <=> k = node
      BY <1>2 DEF AliveAfter
    <3>4. QED BY <3>2, <3>3
  <2>5. AliveReport' = <<cur'>>
    BY <1>1, <1>4, <2>2 DEF AliveReport, Candidate
  <2>6. AliveAt(1)'
    <3>1. Len(out') + Len(AliveReport') <= 2 * Cardinality(Path(1 - 1))
      BY <2>1, <2>5, RootPathCard
    <3>2. Reported' = Elements(out')
      BY DEF Reported, Elements
    <3>3. out'[Len(out')] = node
      BY <2>1
    <3>4. bits' = 2 * 1 /\ cur' % 1 = 0 /\ cur' + 1 <= node' /\ node' < cur' + 2 * 1
      BY <1>1, <1>2, <1>4, <2>2
    <3>5. \E l \in 0..node' : /\ Len(out') > 0 /\ out'[Len(out')] = l
                              /\ l = cur' + 1 \/ 2 * l = 2 * cur' + 1
                              /\ 1 <= 2 * (node' - l) + 1 /\ node' - l < 1
      BY <1>1, <1>2, <2>1, <2>2, <3>3
    <3>6. QED BY <1>1, <2>1, <2>4, <3>1, <3>2, <3>4, <3>5, OnePow2 DEF AliveAt
  <2>7. AliveInv'
    BY <1>1, <2>1, <2>6, TopBitFacts DEF AliveInv
  <2>8. QED BY <1>1, <2>1, <2>3, <2>7 DEF IInv
<1>5. ASSUME NEW q \in 1..(TopBit \div 2), AliveAt(q) PROVE IInv'
  <2>1. q \in Nat \ {0} /\ IsPow2(q) /\ bits = 2 * q /\ cur + q <= node /\ node < cur + 2 * q
    BY <1>5, TopBitFacts DEF AliveAt
  <2>2. /\ out' \in Seq(0..node) /\ Len(out') \in Nat \ {0} /\ out'[Len(out')] = cur
        /\ Elements(out') = {k \in AliveAfter(node) : node - k < 2 * q}
        /\ Descending(out') /\ Thin(out', node)
        /\ Len(out') <= 2 * Cardinality(Path(q - 1))
    BY <1>1, <1>2, <1>5, <2>1, AliveReports
  <2>3. /\ cur' \in Nat /\ cur' % (2 * q) = 0
        /\ cur = cur' + q \/ cur = cur' + 2 * q
        /\ cur' + 2 * q <= node /\ node < cur' + 4 * q
    BY <1>1, <1>2, <1>5, <2>1, AnchorMoves
  <2>4. 2 * q \in 1..(TopBit \div 2) /\ IsPow2(2 * q) /\ 2 * q \in Nat \ {0}
    <3>1. 2 * q < TopBit
      BY <1>1, <2>1, TopBitFacts
    <3>2. IsPow2(2 * q) /\ 2 * q \in Nat \ {0}
      BY <2>1, DoublePow2
    <3>3. 2 * (2 * q) <= TopBit
      BY <3>1, <3>2, TopBitFacts, Pow2Apart
    <3>4. QED BY <3>2, <3>3, TopBitFacts
  <2>5. bits' = 2 * (2 * q) /\ bits' \in Words
    BY <1>1, <2>1, <2>4, TopBitFacts DEF Words
  <2>6. TypeOK'
    BY <1>1, <1>2, <2>1, <2>2, <2>3, <2>5 DEF TypeOK
  <2>7. AliveAt(2 * q)'
    <3>1. Len(AliveReport') <= 2
      BY DEF AliveReport
    <3>2. Len(out') + Len(AliveReport') <= 2 * Cardinality(Path(2 * q - 1))
      <4>1. Cardinality(Path(2 * q - 1)) = Cardinality(Path(q - 1)) + 1
            /\ Cardinality(Path(q - 1)) \in Nat
        BY <2>1, DepthDoubles, FS_CardinalityType
      <4>2. Len(AliveReport') \in Nat
        BY DEF AliveReport
      <4>3. QED BY <2>2, <3>1, <4>1, <4>2
    <3>3. Reported' = Elements(out')
      BY DEF Reported, Elements
    <3>4. \E l \in 0..node' : /\ Len(out') > 0 /\ out'[Len(out')] = l
                              /\ l = cur' + 2 * q \/ 2 * l = 2 * cur' + 2 * q
                              /\ 2 * q <= 2 * (node' - l) + 1 /\ node' - l < 2 * q
      <4>1. cur = cur' + 2 * q \/ 2 * cur = 2 * cur' + 2 * q
        BY <2>3, <2>1
      <4>2. 2 * q <= 2 * (node - cur) + 1 /\ node - cur < 2 * q
        BY <1>2, <2>1
      <4>3. QED BY <1>1, <1>2, <2>2, <4>1, <4>2
    <3>5. cur' + 2 * q <= node' /\ node' < cur' + 2 * (2 * q)
      BY <1>1, <2>1, <2>3
    <3>6. Reported' = {k \in AliveAfter(node') : node' - k < 2 * q}
      BY <1>1, <2>2, <3>3
    <3>7. QED BY <2>3, <2>4, <2>5, <3>2, <3>4, <3>5, <3>6 DEF AliveAt
  <2>8. AliveInv'
    BY <1>1, <2>2, <2>4, <2>7 DEF AliveInv
  <2>9. QED BY <1>1, <2>2, <2>6, <2>8 DEF IInv
<1>6. QED
  BY <1>3, <1>4, <1>5

LEMMA AliveTooBigInv == IInv /\ AliveTooBig => IInv'
<1> SUFFICES ASSUME IInv, AliveTooBig PROVE IInv'
  OBVIOUS
<1>1. /\ fn = "alive" /\ status = "run" /\ cur # 0 /\ bits = TopBit
      /\ out' = out \o AliveReport /\ cur' = NextAnchor /\ bits' = bits
      /\ fn' = fn /\ node' = node /\ status' = "too_big"
  BY DEF AliveTooBig, Running
<1>2. /\ TypeOK /\ node \in Nat /\ node \in Words /\ cur \in 0..node
      /\ Descending(out) /\ Thin(out, node)
  BY <1>1, TopBitFacts DEF IInv, TypeOK, Words, AliveInv
<1>3. PICK q \in 1..(TopBit \div 2) : AliveAt(q)
  BY <1>1, TopBitFacts DEF IInv, AliveInv
<1>4. q \in Nat \ {0} /\ bits = 2 * q /\ cur + q <= node /\ node < cur + 2 * q
  BY <1>3, TopBitFacts DEF AliveAt
<1>5. /\ out' \in Seq(0..node) /\ Len(out') \in Nat \ {0}
      /\ Descending(out') /\ Thin(out', node)
      /\ Len(out') <= 2 * Cardinality(Path(q - 1))
  BY <1>1, <1>2, <1>3, <1>4, AliveReports
<1>6. cur' \in Nat /\ cur' + 2 * q <= node
  BY <1>1, <1>2, <1>3, <1>4, AnchorMoves
<1>7. TypeOK'
  BY <1>1, <1>2, <1>4, <1>5, <1>6 DEF TypeOK
<1>8. AliveInv'
  <2>1. node >= TopBit /\ q - 1 \in 0..node
    BY <1>1, <1>2, <1>4, <1>6, TopBitFacts
  <2>2. \E k \in 0..node : Len(out') <= 2 * Cardinality(Path(k))
    BY <1>5, <2>1
  <2>3. QED BY <1>1, <1>5, <2>1, <2>2 DEF AliveInv
<1>9. QED
  BY <1>1, <1>5, <1>7, <1>8 DEF IInv

LEMMA AliveRootInv == IInv /\ AliveRoot => IInv'
<1> SUFFICES ASSUME IInv, AliveRoot PROVE IInv'
  OBVIOUS
<1>1. /\ fn = "alive" /\ status = "run" /\ cur = 0
      /\ out' = out \o AliveReport /\ cur' = cur /\ bits' = bits
      /\ fn' = fn /\ node' = node /\ status' = "done"
  BY DEF AliveRoot, Running
<1>2. /\ TypeOK /\ node \in Nat /\ node \in Words /\ bits \in Words
      /\ Descending(out) /\ Thin(out, node)
  BY <1>1, TopBitFacts DEF IInv, TypeOK, Words, AliveInv
<1>3. (bits = 1 /\ cur = node /\ out = <<>>) \/ \E q \in 1..(TopBit \div 2) : AliveAt(q)
  BY <1>1 DEF IInv, AliveInv
<1>4. Reported' = Elements(out')
  BY DEF Reported, Elements
<1>5. CASE bits = 1 /\ cur = node /\ out = <<>>
  <2>1. /\ out' \in Seq(0..node) /\ Elements(out') = {0}
        /\ Descending(out') /\ Thin(out', node) /\ Len(out') = 1
    BY <1>1, <1>2, <1>5, AliveFirst
  <2>2. AliveAfter(0) = {0}
    BY DEF AliveAfter, Outlives
  <2>3. TypeOK'
    BY <1>1, <1>2, <1>5, <2>1 DEF TypeOK
  <2>4. \E k \in 0..node : Len(out') <= 2 * Cardinality(Path(k))
    <3>1. node = 0 /\ 0 \in 0..node
      BY <1>1, <1>5
    <3>2. Len(out') <= 2 * Cardinality(Path(0))
      BY <2>1, RootPathCard
    <3>3. QED BY <3>1, <3>2
  <2>5. AliveInv'
    <3>1. node = 0
      BY <1>1, <1>5
    <3>2. Reported' = AliveAfter(node)
      BY <1>4, <2>1, <2>2, <3>1
    <3>3. node < TopBit
      BY <3>1, TopBitFacts
    <3>4. QED BY <1>1, <2>1, <2>4, <3>2, <3>3 DEF AliveInv
  <2>6. QED BY <1>1, <2>1, <2>3, <2>5 DEF IInv
<1>6. ASSUME NEW q \in 1..(TopBit \div 2), AliveAt(q) PROVE IInv'
  <2>1. q \in Nat \ {0} /\ q <= node /\ node < 2 * q /\ 2 * q <= TopBit
    BY <1>1, <1>2, <1>6, TopBitFacts DEF AliveAt
  <2>2. /\ out' \in Seq(0..node) /\ Len(out') \in Nat \ {0}
        /\ Elements(out') = {k \in AliveAfter(node) : node - k < 2 * q}
        /\ Descending(out') /\ Thin(out', node)
        /\ Len(out') <= 2 * Cardinality(Path(q - 1))
    BY <1>1, <1>2, <1>6, <2>1, AliveReports
  <2>3. Elements(out') = AliveAfter(node)
    <3>1. \A k \in AliveAfter(node) : node - k < 2 * q
      BY <1>2, <2>1 DEF AliveAfter
    <3>2. QED BY <2>2, <3>1
  <2>4. TypeOK'
    BY <1>1, <1>2, <2>2 DEF TypeOK
  <2>5. node < TopBit /\ q - 1 \in 0..node
    BY <1>2, <2>1, TopBitFacts
  <2>6. \E k \in 0..node : Len(out') <= 2 * Cardinality(Path(k))
    BY <2>2, <2>5
  <2>7. AliveInv'
    BY <1>1, <1>4, <2>2, <2>3, <2>5, <2>6 DEF AliveInv
  <2>8. QED BY <1>1, <2>2, <2>4, <2>7 DEF IInv
<1>7. QED
  BY <1>3, <1>5, <1>6

-----------------------------------------------------------------------------
(***************************************************************************)
(* The prune loop.  The victim with lowest set bit p is the node minus     *)
(* 3 * p: there is one when the node is a multiple of 2 * p, and none with *)
(* a lowest set bit from p upwards when it is not.                         *)
(***************************************************************************)
LEMMA VictimAt ==
  ASSUME NEW n \in Nat, NEW p \in Nat \ {0}, IsPow2(p), n % (2 * p) = 0, n # 0
  PROVE  \A k \in Nat : k \in Pruned(n) /\ LSB(k) = p <=> k = n - 3 * p /\ n >= 3 * p
<1>1. PICK j \in Nat : n = (2 * p) * j
  <2>1. 2 * p \in Nat \ {0}
    OBVIOUS
  <2>2. QED BY <2>1, MultipleMod
<1>2. ASSUME NEW k \in Nat, k \in Pruned(n), LSB(k) = p
      PROVE  k = n - 3 * p /\ n >= 3 * p
  BY <1>2 DEF Pruned, Demise
<1>3. ASSUME n >= 3 * p
      PROVE  n - 3 * p \in Pruned(n) /\ LSB(n - 3 * p) = p
  <2>1. j >= 2
    <3>1. (2 * p) * 0 = 0 /\ (2 * p) * 1 = 2 * p
      OBVIOUS
    <3>2. j # 0 /\ j # 1
      BY <1>1, <1>3, <3>1
    <3>3. QED BY <3>2
  <2>2. n - 3 * p = p * (2 * (j - 2) + 1)
    <3>1. (2 * p) * j = p * (2 * (j - 2) + 1) + 3 * p
      BY <2>1, SMT
    <3>2. p * (2 * (j - 2) + 1) \in Nat
      BY <2>1, SMT
    <3>3. QED BY <1>1, <3>1, <3>2
  <2>3. j - 2 \in Nat
    BY <2>1
  <2>4. n - 3 * p \in Nat \ {0} /\ LSB(n - 3 * p) = p
    BY <2>2, <2>3, LSBUnique
  <2>5. n - 3 * p \in 1..n /\ (n - 3 * p) + 3 * p = n
    BY <2>4
  <2>6. QED BY <2>4, <2>5 DEF Pruned, Demise
<1>4. QED
  BY <1>2, <1>3

LEMMA NoVictimAbove ==
  ASSUME NEW n \in Nat, NEW p \in Nat \ {0}, IsPow2(p), n % (2 * p) # 0 \/ n < 4 * p
  PROVE  \A k \in Pruned(n) : LSB(k) < p
<1> SUFFICES ASSUME NEW k \in Pruned(n), ~ (LSB(k) < p) PROVE FALSE
  OBVIOUS
<1>1. k \in Nat \ {0} /\ k + 3 * LSB(k) = n
  BY DEF Pruned, Demise
<1> DEFINE r == LSB(k)
<1>2. r \in Nat \ {0} /\ IsPow2(r) /\ r <= k
  <2>1. r \in 1..k /\ IsPow2(r)
    BY <1>1, LSBProperty
  <2>2. QED BY <1>1, <2>1
<1>3. PICK s \in Nat : k = r * (2 * s + 1)
  BY <1>1, LSBProperty
<1>4. r >= p /\ k + 3 * r = n
  BY <1>1, <1>2
<1> HIDE DEF r
<1>5. PICK t \in Nat \ {0} : r = p * t
  <2>1. CASE r = p
    BY <2>1
  <2>2. CASE r # p
    <3>1. p < r
      BY <1>2, <1>4, <2>2
    <3>2. PICK u \in Nat : r = p * (2 * u)
      BY <1>2, <3>1, Pow2Divides
    <3>3. u # 0
      BY <1>2, <3>2
    <3>4. 2 * u \in Nat \ {0}
      BY <3>3
    <3>5. QED BY <3>2, <3>4
  <2>3. QED BY <2>1, <2>2
<1>6. n = (2 * p) * (t * (s + 2))
  <2>1. r * (2 * s + 1) + 3 * r = (2 * r) * (s + 2)
    BY <1>2, SMT
  <2>2. (2 * (p * t)) * (s + 2) = (2 * p) * (t * (s + 2))
    BY SMT
  <2>3. QED BY <1>3, <1>4, <1>5, <2>1, <2>2
<1>7. n % (2 * p) = 0
  <2>1. 2 * p \in Nat \ {0} /\ t * (s + 2) \in Nat
    BY SMT
  <2>2. QED BY <1>6, <2>1, MultipleMod
<1>8. n >= 4 * p
  BY <1>1, <1>2, <1>4
<1>9. QED
  BY <1>7, <1>8

LEMMA PruneState ==
  ASSUME IInv, Running("prune")
  PROVE  /\ TypeOK /\ Descending(out) /\ node \in Nat /\ node \in Words /\ out \in Seq(0..node)
         /\ \E p \in 1..(TopBit \div 2) :
              /\ p \in Nat \ {0} /\ IsPow2(p) /\ bits = 2 * p - 1 /\ 2 * p <= TopBit
              /\ node % p = 0
              /\ Elements(out) = {k \in Pruned(node) : LSB(k) < p}
              /\ \A y \in Elements(out) : y + 3 * p > node
              /\ bits + 1 = 2 * p /\ Stride = 3 * p
<1>1. TypeOK /\ Descending(out) /\ node \in Nat /\ node \in Words /\ out \in Seq(0..node)
  BY TopBitFacts DEF IInv, TypeOK, Words
<1>2. PICK p \in 1..(TopBit \div 2) : PruneAt(p)
  BY DEF IInv, PruneInv, Running
<1>3. p \in Nat \ {0} /\ IsPow2(p) /\ bits = 2 * p - 1 /\ 2 * p <= TopBit /\ node % p = 0
  BY <1>2, TopBitFacts DEF PruneAt
<1>4. /\ Elements(out) = {k \in Pruned(node) : LSB(k) < p}
      /\ \A y \in Elements(out) : y + 3 * p > node
  BY <1>2 DEF PruneAt, Reported, Elements
<1>5. bits + 1 = 2 * p /\ bits \div 2 = p - 1 /\ Stride = 3 * p
  BY <1>3 DEF Stride
<1>6. QED
  BY <1>1, <1>3, <1>4, <1>5

LEMMA PruneStepInv == IInv /\ PruneStep => IInv'
<1> SUFFICES ASSUME IInv, PruneStep PROVE IInv'
  OBVIOUS
<1>1. /\ Running("prune") /\ fn = "prune" /\ status = "run" /\ AboveMask /\ bits # TopBit - 1
      /\ ~ BelowMask /\ bits' = 2 * bits + 1
      /\ out' = IF node >= Stride THEN Append(out, node - Stride) ELSE out
      /\ fn' = fn /\ node' = node /\ cur' = cur /\ status' = status
  BY DEF PruneStep, Running
<1>2. TypeOK /\ Descending(out) /\ node \in Nat /\ node \in Words /\ out \in Seq(0..node)
  BY <1>1, PruneState
<1>3. PICK p \in 1..(TopBit \div 2) :
        /\ p \in Nat \ {0} /\ IsPow2(p) /\ bits = 2 * p - 1 /\ 2 * p <= TopBit
        /\ Elements(out) = {k \in Pruned(node) : LSB(k) < p}
        /\ \A y \in Elements(out) : y + 3 * p > node
        /\ bits + 1 = 2 * p /\ Stride = 3 * p
  BY <1>1, PruneState
<1>4. node % (2 * p) = 0 /\ node # 0
  BY <1>1, <1>2, <1>3 DEF AboveMask, BelowMask
<1>5. 2 * p \in 1..(TopBit \div 2) /\ IsPow2(2 * p) /\ bits' = 2 * (2 * p) - 1
  <2>1. 2 * p < TopBit
    BY <1>1, <1>3, TopBitFacts
  <2>2. IsPow2(2 * p) /\ 2 * p \in Nat \ {0}
    BY <1>3, DoublePow2
  <2>3. 2 * (2 * p) <= TopBit
    BY <2>1, <2>2, TopBitFacts, Pow2Apart
  <2>4. QED BY <1>1, <1>3, <2>2, <2>3, TopBitFacts
<1>6. \A k \in Nat : k \in Pruned(node) /\ LSB(k) = p <=> k = node - 3 * p /\ node >= 3 * p
  BY <1>2, <1>3, <1>4, VictimAt
<1>7. \A k \in Pruned(node) : LSB(k) < 2 * p <=> LSB(k) < p \/ LSB(k) = p
  <2> SUFFICES ASSUME NEW k \in Pruned(node)
               PROVE  LSB(k) < 2 * p <=> LSB(k) < p \/ LSB(k) = p
    OBVIOUS
  <2>1. k \in Nat \ {0}
    BY <1>2 DEF Pruned
  <2>2. LSB(k) \in Nat \ {0} /\ IsPow2(LSB(k))
    <3>1. LSB(k) \in 1..k /\ IsPow2(LSB(k))
      BY <2>1, LSBProperty
    <3>2. QED BY <2>1, <3>1
  <2>3. p < LSB(k) => 2 * p <= LSB(k)
    BY <1>3, <2>2, Pow2Apart
  <2>4. QED BY <1>3, <2>2, <2>3
<1>8. /\ out' \in Seq(0..node) /\ Descending(out')
      /\ Elements(out') = {k \in Pruned(node) : LSB(k) < 2 * p}
      /\ \A y \in Elements(out') : y + 3 * (2 * p) > node
  <2>1. CASE node >= 3 * p
    <3>1. out' = Append(out, node - 3 * p) /\ node - 3 * p \in 0..node
      BY <1>1, <1>2, <1>3, <2>1
    <3>2. Elements(out) \subseteq Nat
      BY <1>2, AppendLemma, <3>1
    <3>3. \A y \in Elements(out) : y > node - 3 * p
      BY <1>2, <1>3, <3>2
    <3>4. /\ out' \in Seq(0..node) /\ Descending(out')
          /\ Elements(out') = Elements(out) \cup {node - 3 * p}
      BY <1>2, <3>1, <3>3, AppendLemma
    <3>5. Elements(out') = {k \in Pruned(node) : LSB(k) < 2 * p}
      <4>1. node - 3 * p \in Pruned(node) /\ LSB(node - 3 * p) = p
        BY <1>6, <2>1, <3>1
      <4>2. \A k \in Pruned(node) : LSB(k) = p => k = node - 3 * p
        BY <1>2, <1>6 DEF Pruned
      <4>3. QED BY <1>3, <1>7, <3>4, <4>1, <4>2
    <3>6. \A y \in Elements(out') : y + 3 * (2 * p) > node
      BY <1>2, <1>3, <3>2, <3>4
    <3>7. QED BY <3>4, <3>5, <3>6
  <2>2. CASE ~ (node >= 3 * p)
    <3>1. out' = out
      BY <1>1, <1>3, <2>2
    <3>2. \A k \in Pruned(node) : LSB(k) # p
      BY <1>2, <1>6, <2>2 DEF Pruned
    <3>3. Elements(out) \subseteq Nat
      BY <1>2, AppendLemma
    <3>4. \A y \in Elements(out') : y + 3 * (2 * p) > node
      BY <1>2, <1>3, <2>2, <3>1, <3>3
    <3>5. QED BY <1>2, <1>3, <1>7, <3>1, <3>2, <3>4
  <2>3. QED BY <2>1, <2>2
<1>9. TypeOK'
  BY <1>1, <1>2, <1>5, <1>8, TopBitFacts DEF TypeOK, Words
<1>10. PruneAt(2 * p)'
  <2>1. (2 * p) \in Nat \ {0} /\ Len(out') \in Nat
    BY <1>3, <1>8
  <2>2. \A i \in 1..Len(out') : out'[i] \in Elements(out')
    BY DEF Elements
  <2>3. QED BY <1>1, <1>4, <1>5, <1>8, <2>2 DEF PruneAt, Reported, Elements
<1>11. PruneInv'
  BY <1>1, <1>5, <1>10 DEF PruneInv
<1>12. QED
  BY <1>1, <1>8, <1>9, <1>11 DEF IInv

LEMMA PruneTooBigInv == IInv /\ PruneTooBig => IInv'
<1> SUFFICES ASSUME IInv, PruneTooBig PROVE IInv'
  OBVIOUS
<1>1. /\ Running("prune") /\ fn = "prune" /\ AboveMask /\ bits = TopBit - 1
      /\ fn' = fn /\ node' = node /\ cur' = cur /\ bits' = bits /\ out' = out
      /\ status' = "too_big"
  BY DEF PruneTooBig, Running
<1>2. TypeOK /\ Descending(out) /\ node \in Nat /\ node \in Words
  BY <1>1, PruneState
<1>3. PICK p \in Nat \ {0} : bits + 1 = 2 * p /\ bits = 2 * p - 1 /\ node % p = 0
  BY <1>1, PruneState
<1>4. TopBit = 2 * p /\ TopBit \div 2 = p
  BY <1>1, <1>3, TopBitFacts
<1>5. node >= 2 * p /\ node < 4 * p
  <2>1. node \div (2 * p) # 0
    BY <1>1, <1>3 DEF AboveMask
  <2>2. node < 2 * p => (2 * p) * 0 + node = node /\ node \in 0..(2 * p - 1) /\ 2 * p \in Nat \ {0}
    BY <1>2
  <2>3. node < 2 * p => node \div (2 * p) = 0
    BY <1>2, SMT
  <2>4. node < 4 * p
    BY <1>2, <1>4 DEF Words
  <2>5. QED BY <1>2, <2>1, <2>3, <2>4
<1>6. node = 2 * p \/ node = 3 * p
  <2>1. PICK j \in Nat : node = p * j
    BY <1>2, <1>3, MultipleMod
  <2>2. p * 4 = p * 3 + p /\ p * 3 = 3 * p /\ p * 2 = 2 * p /\ p * 1 = p
    OBVIOUS
  <2>3. p * j < p * 3 + p
    BY <1>5, <2>1, <2>2
  <2>4. p * 2 < p * j + p
    BY <1>5, <2>1, <2>2
  <2>5. j <= 3 /\ 2 <= j
    BY <2>3, <2>4, MultiplesApart
  <2>6. QED BY <2>1, <2>2, <2>5
<1>7. TypeOK' /\ Descending(out')
  BY <1>1, <1>2 DEF TypeOK
<1>8. PruneInv'
  BY <1>1, <1>4, <1>6 DEF PruneInv
<1>9. QED
  BY <1>1, <1>7, <1>8 DEF IInv

LEMMA PruneEndInv == IInv /\ PruneEnd => IInv'
<1> SUFFICES ASSUME IInv, PruneEnd PROVE IInv'
  OBVIOUS
<1>1. /\ Running("prune") /\ fn = "prune" /\ status' = "done"
      /\ ~ AboveMask \/ (bits # TopBit - 1 /\ BelowMask)
      /\ fn' = fn /\ node' = node /\ cur' = cur /\ bits' = bits /\ out' = out
  BY DEF PruneEnd, Running
<1>2. TypeOK /\ Descending(out) /\ node \in Nat /\ node \in Words
  BY <1>1, PruneState
<1>3. PICK p \in Nat \ {0} :
        /\ IsPow2(p) /\ bits + 1 = 2 * p /\ bits = 2 * p - 1 /\ node % p = 0 /\ 2 * p <= TopBit
        /\ Elements(out) = {k \in Pruned(node) : LSB(k) < p}
  BY <1>1, PruneState
<1>4. 2 * p \in Nat \ {0}
  OBVIOUS
<1>5. CASE ~ AboveMask
  <2>1. node \div (2 * p) = 0
    BY <1>3, <1>5 DEF AboveMask
  <2>2. node < 2 * p
    <3>1. /\ node = (2 * p) * (node \div (2 * p)) + (node % (2 * p))
          /\ node % (2 * p) \in 0..(2 * p - 1)
      BY <1>2, <1>4, DivMod
    <3>2. (2 * p) * 0 = 0
      OBVIOUS
    <3>3. QED BY <2>1, <3>1, <3>2
  <2>3. node < 4 * p /\ node < TopBit
    BY <1>2, <1>3, <2>2, TopBitFacts
  <2>4. \A k \in Pruned(node) : LSB(k) < p
    BY <1>2, <1>3, <2>3, NoVictimAbove
  <2>5. Reported' = Pruned(node)
    BY <1>1, <1>3, <2>4 DEF Reported, Elements
  <2>6. node \notin {TopBit, TopBit + TopBit \div 2}
    BY <1>2, <2>3, TopBitFacts
  <2>7. TypeOK' /\ Descending(out')
    BY <1>1, <1>2 DEF TypeOK
  <2>8. QED BY <1>1, <2>5, <2>6, <2>7 DEF IInv, PruneInv
<1>6. CASE bits # TopBit - 1 /\ BelowMask
  <2>1. node % (2 * p) # 0
    BY <1>3, <1>6 DEF BelowMask
  <2>2. \A k \in Pruned(node) : LSB(k) < p
    BY <1>2, <1>3, <2>1, NoVictimAbove
  <2>3. Reported' = Pruned(node)
    BY <1>1, <1>3, <2>2 DEF Reported, Elements
  <2>4. node \notin {TopBit, TopBit + TopBit \div 2}
    <3> DEFINE h == TopBit \div 2
    <3>1. p < h /\ h \in Nat \ {0} /\ IsPow2(h) /\ TopBit = 2 * h
      BY <1>3, <1>6, TopBitFacts
    <3> HIDE DEF h
    <3>2. PICK t \in Nat : h = p * (2 * t)
      BY <1>3, <3>1, Pow2Divides
    <3>3. p * (2 * t) = (2 * p) * t /\ 2 * ((2 * p) * t) = (2 * p) * (2 * t)
          /\ 3 * ((2 * p) * t) = (2 * p) * (3 * t)
      BY SMT
    <3>4. 2 * h = (2 * p) * (2 * t) /\ 3 * h = (2 * p) * (3 * t)
      BY <3>2, <3>3
    <3>5. 2 * t \in Nat /\ 3 * t \in Nat
      OBVIOUS
    <3>6. node # 2 * h /\ node # 3 * h
      BY <1>2, <1>4, <2>1, <3>4, <3>5, MultipleMod
    <3>7. TopBit + h = 3 * h
      BY <3>1
    <3>8. QED BY <3>1, <3>6, <3>7 DEF h
  <2>5. TypeOK' /\ Descending(out')
    BY <1>1, <1>2 DEF TypeOK
  <2>6. QED BY <1>1, <2>3, <2>4, <2>5 DEF IInv, PruneInv
<1>7. QED
  BY <1>1, <1>5, <1>6

-----------------------------------------------------------------------------
(***************************************************************************)
(* The invariant holds in every state of every call.                       *)
(***************************************************************************)
LEMMA StutterInv == IInv /\ UNCHANGED vars => IInv'
<1> SUFFICES ASSUME IInv, UNCHANGED vars PROVE IInv'
  OBVIOUS
<1>1. fn' = fn /\ node' = node /\ cur' = cur /\ bits' = bits /\ out' = out /\ status' = status
  BY DEF vars
<1>2. Reported' = Reported /\ AliveReport' = AliveReport
  BY <1>1 DEF Reported, AliveReport, Candidate
<1>3. TypeOK' /\ Descending(out')
  BY <1>1 DEF IInv, TypeOK
<1>4. ASSUME fn = "path" PROVE PathInv'
  BY <1>1, <1>2, <1>4 DEF IInv, PathInv
<1>5. ASSUME fn = "alive" PROVE AliveInv'
  <2>1. \A q \in 1..(TopBit \div 2) : AliveAt(q) => AliveAt(q)'
    BY <1>1, <1>2 DEF AliveAt
  <2>2. QED BY <1>1, <1>2, <1>5, <2>1 DEF IInv, AliveInv
<1>6. ASSUME fn = "prune" PROVE PruneInv'
  <2>1. \A p \in 1..(TopBit \div 2) : PruneAt(p) => PruneAt(p)'
    BY <1>1, <1>2 DEF PruneAt
  <2>2. QED BY <1>1, <1>2, <1>6, <2>1 DEF IInv, PruneInv
<1>7. QED
  BY <1>1, <1>3, <1>4, <1>5, <1>6 DEF IInv

LEMMA NextInv == IInv /\ [Next]_vars => IInv'
<1> SUFFICES ASSUME IInv, [Next]_vars PROVE IInv'
  OBVIOUS
<1>1. CASE PathStep    BY <1>1, PathStepInv
<1>2. CASE PathRoot    BY <1>2, PathRootInv
<1>3. CASE AliveStep   BY <1>3, AliveStepInv
<1>4. CASE AliveTooBig BY <1>4, AliveTooBigInv
<1>5. CASE AliveRoot   BY <1>5, AliveRootInv
<1>6. CASE PruneStep   BY <1>6, PruneStepInv
<1>7. CASE PruneTooBig BY <1>7, PruneTooBigInv
<1>8. CASE PruneEnd    BY <1>8, PruneEndInv
<1>9. CASE UNCHANGED vars BY <1>9, StutterInv
<1>10. QED
  BY <1>1, <1>2, <1>3, <1>4, <1>5, <1>6, <1>7, <1>8, <1>9 DEF Next, Step, Returned

THEOREM Invariance == Spec => []IInv
<1>1. QED
  BY InitInv, NextInv, PTL DEF Spec

(* The loops stay within their words and never subtract below zero          *)
(* (assert(node >= cur) and assert(candidate <= node) of alive_after()).    *)
THEOREM LoopTypes == Spec => []TypeOK
<1>1. IInv => TypeOK
  BY DEF IInv
<1>2. QED
  BY <1>1, Invariance, PTL

(* Each of the three functions reports exactly the set its doc comment      *)
(* names, in strictly decreasing order, and throws "Node too big" for       *)
(* exactly the nodes that leave no room in a word, of whatever size.        *)
THEOREM LoopsReport == Spec => []ReportsItsSet
<1>1. IInv => ReportsItsSet
  <2> SUFFICES ASSUME IInv PROVE ReportsItsSet
    OBVIOUS
  <2>1. \A i \in 1..(Len(out) - 1) : out[i] > out[i + 1]
    BY DEF IInv, Descending
  <2>2. CASE fn = "path"
    BY <2>1, <2>2 DEF IInv, PathInv, ReportsItsSet, TooBig
  <2>3. CASE fn = "alive"
    <3>1. TooBig = {n \in Words : n >= TopBit}
      BY <2>3 DEF TooBig
    <3>2. node \in Words /\ node \in Nat /\ status \in {"run", "done", "too_big"}
      BY TopBitFacts DEF IInv, TypeOK, Words
    <3>3. status # "run" => (status = "too_big" <=> node \in TooBig)
      BY <2>3, <3>1, <3>2, TopBitFacts DEF IInv, AliveInv
    <3>4. status = "done" => Reported = AliveAfter(node)
      BY <2>3 DEF IInv, AliveInv
    <3>5. QED BY <2>1, <2>3, <3>3, <3>4 DEF ReportsItsSet
  <2>4. CASE fn = "prune"
    <3>1. TooBig = {TopBit, TopBit + TopBit \div 2}
      BY <2>4 DEF TooBig
    <3>2. QED BY <2>1, <2>4, <3>1 DEF IInv, PruneInv, ReportsItsSet
  <2>5. QED BY <2>2, <2>3, <2>4 DEF IInv, TypeOK
<1>2. QED
  BY <1>1, Invariance, PTL

(* What is kept is evenly thin (test/node.cpp:135-148) and never more than  *)
(* twice the tree's depth (README.md:27), for a word of every size.         *)
THEOREM KeptIsThin == Spec => []ThinsOut
<1>1. IInv => ThinsOut
  <2> SUFFICES ASSUME IInv, fn = "alive" PROVE ThinsOut
    BY DEF ThinsOut
  <2>1. AliveInv /\ node \in Nat
    BY TopBitFacts DEF IInv, TypeOK, Words
  <2>2. \E k \in 0..node : Len(out) <= 2 * Cardinality(Path(k))
    <3>1. CASE status # "run"
      BY <2>1, <3>1 DEF AliveInv
    <3>2. CASE out = <<>>
      <4>1. 0 \in 0..node /\ Len(out) = 0
        BY <2>1, <3>2
      <4>2. QED BY <4>1, RootPathCard
    <3>3. ASSUME NEW q \in 1..(TopBit \div 2), AliveAt(q)
          PROVE  \E k \in 0..node : Len(out) <= 2 * Cardinality(Path(k))
      <4>1. q \in Nat \ {0} /\ IsPow2(q) /\ q - 1 \in 0..node
        BY <2>1, <3>3, TopBitFacts DEF AliveAt, IInv, TypeOK
      <4>2. Cardinality(Path(q - 1)) \in Nat
        BY <4>1, DepthDoubles, FS_CardinalityType
      <4>3. Len(AliveReport) \in Nat /\ Len(out) \in Nat
        BY DEF AliveReport, IInv, TypeOK
      <4>4. Len(out) + Len(AliveReport) <= 2 * Cardinality(Path(q - 1))
        BY <3>3 DEF AliveAt
      <4>5. QED BY <4>1, <4>2, <4>3, <4>4
    <3>4. QED BY <2>1, <3>1, <3>2, <3>3 DEF AliveInv
  <2>3. QED BY <2>1, <2>2 DEF AliveInv, Thin, ThinsOut
<1>2. QED
  BY <1>1, Invariance, PTL

-----------------------------------------------------------------------------
(***************************************************************************)
(* Why every call returns or throws (Terminates), for a word of every      *)
(* size.  Each iteration clears a bit of the path's variable or doubles    *)
(* the mask of the other two, which stops at the top bit; and the three    *)
(* branches of each loop leave no case out, so there is one to take.       *)
(***************************************************************************)
Remaining == IF status # "run"  THEN 0
             ELSE IF fn = "path" THEN cur + 1
             ELSE 2 * TopBit - bits

(* What is left is a number. *)
LEMMA RemainingType == IInv => Remaining \in Nat /\ (status = "run" => Remaining > 0)
<1> SUFFICES ASSUME IInv PROVE Remaining \in Nat /\ (status = "run" => Remaining > 0)
  OBVIOUS
<1>1. cur \in Nat /\ 2 * TopBit - bits \in Nat /\ 2 * TopBit - bits > 0
  <2>1. cur \in Nat /\ bits \in 0..(2 * TopBit - 1) /\ TopBit \in Nat
    BY TopBitFacts DEF IInv, TypeOK, Words
  <2>2. QED
    BY <2>1
<1>2. CASE status # "run"
  BY <1>2 DEF Remaining
<1>3. CASE status = "run" /\ fn = "path"
  BY <1>1, <1>3 DEF Remaining
<1>4. CASE status = "run" /\ fn # "path"
  <2>1. Remaining = 2 * TopBit - bits
    BY <1>4 DEF Remaining
  <2>2. QED
    BY <1>1, <2>1
<1>5. QED
  BY <1>2, <1>3, <1>4

(* A mask has a bit. *)
LEMMA MaskNotEmpty == IInv /\ status = "run" /\ fn # "path" => bits \in Nat \ {0}
<1> SUFFICES ASSUME IInv, status = "run", fn # "path" PROVE bits \in Nat \ {0}
  OBVIOUS
<1>1. bits \in Nat /\ fn \in {"alive", "prune"}
  BY TopBitFacts DEF IInv, TypeOK, Words
<1>2. CASE fn = "alive"
  <2>1. ASSUME NEW q \in 1..(TopBit \div 2), AliveAt(q) PROVE bits # 0
    <3>1. bits = 2 * q /\ q \in Nat \ {0}
      BY <2>1, TopBitFacts DEF AliveAt
    <3>2. QED
      BY <3>1
  <2>2. QED
    BY <1>1, <1>2, <2>1 DEF IInv, AliveInv
<1>3. CASE fn = "prune"
  <2>1. ASSUME NEW p \in 1..(TopBit \div 2), PruneAt(p) PROVE bits # 0
    <3>1. bits = 2 * p - 1 /\ p \in Nat \ {0}
      BY <2>1, TopBitFacts DEF PruneAt
    <3>2. QED
      BY <3>1
  <2>2. QED
    BY <1>1, <1>3, <2>1 DEF IInv, PruneInv
<1>4. QED
  BY <1>1, <1>2, <1>3

(* One iteration of each loop. *)
LEMMA FewerLeft ==
  ASSUME IInv, IInv', Step
  PROVE  Remaining \in Nat /\ Remaining' < Remaining
<1>1. /\ Remaining \in Nat /\ Remaining > 0 /\ status = "run"
      /\ Remaining' \in Nat
  <2>1. status = "run"
    BY DEF Step, Running, PathStep, PathRoot, AliveStep, AliveTooBig, AliveRoot,
           PruneStep, PruneTooBig, PruneEnd
  <2>2. (Remaining \in Nat)'
    BY RemainingType, PTL
  <2>3. QED
    BY <2>1, <2>2, RemainingType
<1>2. CASE PathRoot \/ AliveTooBig \/ AliveRoot \/ PruneTooBig \/ PruneEnd
  <2>1. status' # "run"
    BY <1>2 DEF PathRoot, AliveTooBig, AliveRoot, PruneTooBig, PruneEnd
  <2>2. Remaining' = 0
    BY <2>1 DEF Remaining
  <2>3. QED
    BY <1>1, <2>2
<1>3. CASE PathStep
  <2>1. cur \in Nat \ {0}
    BY <1>3, TopBitFacts DEF PathStep, IInv, TypeOK, Words
  <2>2. LSB(cur) \in 1..cur
    BY <2>1, LSBProperty
  <2>3. cur' = cur - LSB(cur) /\ fn = "path" /\ fn' = fn /\ status' = "run"
    BY <1>1, <1>3 DEF PathStep, Running
  <2>4. Remaining = cur + 1 /\ Remaining' = cur' + 1
    BY <1>1, <2>3 DEF Remaining
  <2>5. QED
    BY <1>1, <2>1, <2>2, <2>3, <2>4
<1>4. CASE AliveStep \/ PruneStep
  <2>1. fn # "path" /\ fn' = fn /\ status' = "run"
    BY <1>1, <1>4 DEF AliveStep, PruneStep, Running
  <2>2. bits' = 2 * bits \/ bits' = 2 * bits + 1
    BY <1>4 DEF AliveStep, PruneStep
  <2>3. Remaining = 2 * TopBit - bits /\ Remaining' = 2 * TopBit - bits'
    BY <1>1, <2>1 DEF Remaining
  <2>4. bits \in Nat \ {0} /\ TopBit \in Nat
    BY <1>1, <2>1, MaskNotEmpty, TopBitFacts
  <2>5. QED
    BY <1>1, <2>2, <2>3, <2>4
<1>5. QED
  BY <1>1, <1>2, <1>3, <1>4 DEF Step

LeavesLess == Remaining \in Nat /\ Remaining' < Remaining

(* No call goes on for ever: every iteration of the three loops brings it   *)
(* nearer to its end, whatever the size of a word.                          *)
THEOREM EveryCallIsFinite == Spec => [][LeavesLess]_vars
<1>1. IInv /\ IInv' /\ [Next]_vars => [LeavesLess]_vars
  BY FewerLeft DEF Next, Returned, LeavesLess
<1>2. QED
  BY <1>1, Invariance, PTL DEF Spec
=============================================================================
