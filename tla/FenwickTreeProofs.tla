------------------------- MODULE FenwickTreeProofs -------------------------
(***************************************************************************)
(* What the functions of diffmonger.hpp guarantee for every node.  The     *)
(* result the repository rests on is AncestorsOutlive: the parent of a     *)
(* node dies strictly after the node, so that pruning never takes away     *)
(* the base of a stored difference.                                        *)
(*                                                                         *)
(* Induction is done by taking a least counterexample.                     *)
(***************************************************************************)
EXTENDS FenwickTree, WellFoundedInduction, TLAPS

(***************************************************************************)
(* Every inhabited set of natural numbers has a least element.             *)
(***************************************************************************)
LEMMA LeastElement ==
  ASSUME NEW T \in SUBSET Nat, T # {}
  PROVE  \E x \in T : \A y \in T : x <= y
<1> DEFINE R == {w \in Nat \X Nat : w[1] < w[2]}
<1>1. IsWellFoundedOn(R, Nat)
  BY NatLessThanWellFounded DEF OpToRel
<1>2. \E x \in T : \A y \in T : ~ (<<y, x>> \in R)
  <2> HIDE DEF R
  <2> QED BY <1>1, WFMin
<1>3. PICK x \in T : \A y \in T : ~ (<<y, x>> \in R)
  BY <1>2
<1>4. ASSUME NEW y \in T PROVE x <= y
  <2>1. <<y, x>> \in Nat \X Nat /\ ~ (<<y, x>> \in R)
    BY <1>3
  <2>2. ~ (y < x)
    BY <2>1
  <2>3. QED BY <2>2
<1>5. QED
  BY <1>3, <1>4

(***************************************************************************)
(* Every number is even or odd.                                            *)
(***************************************************************************)
LEMMA Halving ==
  ASSUME NEW n \in Nat
  PROVE  \E h \in Nat : n = 2 * h \/ n = 2 * h + 1
<1>1. n \div 2 \in Nat /\ n % 2 \in 0..1 /\ n = (2 * (n \div 2)) + (n % 2)
  OBVIOUS
<1>2. QED
  BY <1>1

(***************************************************************************)
(* The parity of a multiple.                                               *)
(***************************************************************************)
LEMMA OddTimesOdd ==
  ASSUME NEW x \in Nat, NEW y \in Nat
  PROVE  \E z \in Nat : (2 * x + 1) * (2 * y + 1) = 2 * z + 1
<1>1. (2 * x + 1) * (2 * y + 1) = 2 * (2 * (x * y) + x + y) + 1
  BY SMT
<1>2. 2 * (x * y) + x + y \in Nat
  BY SMT
<1>3. QED
  BY <1>1, <1>2

(***************************************************************************)
(* The definitions of FenwickTree by products instead of remainders.       *)
(***************************************************************************)
LEMMA Pow2Factors ==
  ASSUME NEW p \in Nat \ {0}
  PROVE  IsPow2(p) <=> \A d, e \in 1..p : d * e = p => d = 1 \/ d % 2 = 0
<1>1. ASSUME NEW d \in 1..p, p % d = 0 PROVE \E e \in 1..p : d * e = p
  <2>1. p \div d \in Nat /\ p = d * (p \div d) + (p % d)
    BY SMT
  <2>2. d * (p \div d) = p
    BY <1>1, <2>1, SMT
  <2>3. QED BY <2>1, <2>2, SMT
<1>2. ASSUME NEW d \in 1..p, NEW e \in 1..p, d * e = p PROVE p % d = 0
  <2>1. p % d \in 0..(d - 1) /\ p \div d \in Nat /\ p = d * (p \div d) + (p % d)
    BY SMT
  <2>2. d * (e - (p \div d)) = p % d
    BY <1>2, <2>1, SMT
  <2>3. e = p \div d
    BY <2>1, <2>2, SMT
  <2>4. QED BY <1>2, <2>1, <2>3, SMT
<1>3. QED
  BY <1>1, <1>2 DEF IsPow2

LEMMA LSBMultiple ==
  ASSUME NEW p \in Nat \ {0}, NEW n \in Nat
  PROVE  IsLSB(p, n) <=> /\ \E q \in 0..n : n = p * (2 * q + 1)
                         /\ IsPow2(p)
<1>1. ASSUME n % (2 * p) = p PROVE \E q \in 0..n : n = p * (2 * q + 1)
  <2>1. n \div (2 * p) \in Nat /\ n = (2 * p) * (n \div (2 * p)) + (n % (2 * p))
    BY SMT
  <2>2. n = p * (2 * (n \div (2 * p)) + 1)
    BY <1>1, <2>1, SMT
  <2>3. n \div (2 * p) <= n
    BY <2>1, <2>2, SMT
  <2> DEFINE k == n \div (2 * p)
  <2>4. k \in 0..n /\ n = p * (2 * k + 1)
    BY <2>1, <2>2, <2>3
  <2> HIDE DEF k
  <2>5. QED BY <2>4
<1>2. ASSUME NEW q \in 0..n, n = p * (2 * q + 1) PROVE n % (2 * p) = p
  <2> DEFINE k == n \div (2 * p)
             r == n % (2 * p)
  <2>1. k \in Nat /\ r \in 0..(2 * p - 1) /\ n = (2 * p) * k + r
    BY SMT
  <2> HIDE DEF k, r
  <2>2. (2 * p) * (q - k) = r - p
    BY <1>2, <2>1, SMT
  <2>3. q = k
    BY <2>1, <2>2, SMT
  <2>4. r = p
    BY <2>1, <2>2, <2>3, SMT
  <2>5. QED BY <2>4 DEF r
<1>3. QED
  BY <1>1, <1>2 DEF IsLSB

(***************************************************************************)
(* Powers of two are closed under doubling.                                *)
(***************************************************************************)
LEMMA DoublePow2 ==
  ASSUME NEW p \in Nat \ {0}, IsPow2(p)
  PROVE  IsPow2(2 * p)
<1>0. 2 * p \in Nat \ {0}
  OBVIOUS
<1> SUFFICES ASSUME NEW d \in 1..(2 * p), NEW e \in 1..(2 * p), d * e = 2 * p, d % 2 # 0
             PROVE  d = 1
  BY <1>0, Pow2Factors
<1>1. PICK x \in Nat : d = 2 * x + 1
  BY Halving
<1>2. PICK y \in Nat : e = 2 * y
  <2>1. ASSUME NEW y \in Nat, e = 2 * y + 1 PROVE FALSE
    <3>1. PICK z \in Nat : d * e = 2 * z + 1
      BY <1>1, <2>1, OddTimesOdd
    <3>2. QED BY <3>1
  <2>2. e \in Nat
    OBVIOUS
  <2>3. PICK h \in Nat : e = 2 * h \/ e = 2 * h + 1
    BY <2>2, Halving
  <2>4. QED BY <2>1, <2>3
<1>3. d * y = p
  <2>1. d * e = 2 * (d * y)
    BY <1>2, SMT
  <2>2. d * y \in Nat
    BY SMT
  <2>3. QED BY <2>1, <2>2
<1>4. d \in 1..p /\ y \in 1..p
  <2>1. y # 0
    BY <1>2
  <2>2. d <= d * y
    BY <2>1, SMT
  <2>3. y <= d * y
    BY <2>1, SMT
  <2>4. QED BY <1>3, <2>1, <2>2, <2>3
<1>5. QED
  BY <1>3, <1>4, Pow2Factors

(***************************************************************************)
(* Powers of two are closed under halving, and only 1 is odd.              *)
(***************************************************************************)
LEMMA HalvePow2 ==
  ASSUME NEW p \in Nat \ {0}, IsPow2(p), p # 1
  PROVE  \E h \in Nat \ {0} : p = 2 * h /\ IsPow2(h)
<1>1. p % 2 = 0
  <2>1. p * 1 = p /\ p \in 1..p /\ 1 \in 1..p
    OBVIOUS
  <2>2. QED BY <2>1, Pow2Factors
<1>2. PICK h \in Nat : p = 2 * h
  BY <1>1, Halving
<1>3. IsPow2(h)
  <2>0. h \in Nat \ {0}
    BY <1>2
  <2> SUFFICES ASSUME NEW d \in 1..h, NEW e \in 1..h, d * e = h
               PROVE  d = 1 \/ d % 2 = 0
    BY <2>0, Pow2Factors
  <2>1. d * (2 * e) = p
    <3>1. d * (2 * e) = 2 * (d * e)
      BY SMT
    <3>2. QED BY <3>1, <1>2
  <2>2. d \in 1..p /\ 2 * e \in 1..p
    BY <1>2
  <2>3. QED BY <2>1, <2>2, Pow2Factors
<1>4. QED
  BY <1>2, <1>3

(***************************************************************************)
(* Of two different powers of two, the larger is an even multiple of the   *)
(* smaller.                                                                *)
(***************************************************************************)
LEMMA Pow2Divides ==
  ASSUME NEW a \in Nat \ {0}, NEW b \in Nat \ {0}, IsPow2(a), IsPow2(b), a < b
  PROVE  \E t \in Nat : b = a * (2 * t)
<1> DEFINE Good(y) == \A x \in Nat \ {0} :
                         IsPow2(x) /\ x < y => \E t \in Nat : y = x * (2 * t)
           Bad == {y \in Nat \ {0} : IsPow2(y) /\ ~ Good(y)}
<1>1. Bad = {}
  <2> SUFFICES ASSUME Bad # {} PROVE FALSE
    OBVIOUS
  <2>1. PICK y \in Bad : \A z \in Bad : y <= z
    <3>1. Bad \in SUBSET Nat
      OBVIOUS
    <3> HIDE DEF Bad
    <3>2. QED BY <3>1, LeastElement
  <2>2. PICK x \in Nat \ {0} : IsPow2(x) /\ x < y /\ ~ \E t \in Nat : y = x * (2 * t)
    OBVIOUS
  <2>3. y \in Nat \ {0} /\ IsPow2(y) /\ y # 1
    BY <2>2
  <2>4. PICK h \in Nat \ {0} : y = 2 * h /\ IsPow2(h)
    BY <2>3, HalvePow2
  <2>5. CASE x = 1
    <3>1. y = x * (2 * h)
      BY <2>4, <2>5
    <3>2. QED BY <3>1, <2>2
  <2>6. CASE x # 1
    <3>1. PICK g \in Nat \ {0} : x = 2 * g /\ IsPow2(g)
      BY <2>6, <2>2, HalvePow2
    <3>2. g < h /\ h < y
      BY <2>2, <2>3, <2>4, <3>1
    <3>3. h \notin Bad
      <4> HIDE DEF Bad
      <4>1. ~ (y <= h)
        BY <2>3, <3>2
      <4>2. QED BY <2>1, <4>1
    <3>4. PICK t \in Nat : h = g * (2 * t)
      BY <3>1, <3>2, <3>3, <2>4
    <3>5. x * (2 * t) = 2 * (g * (2 * t))
      BY <3>1, SMT
    <3>6. y = x * (2 * t)
      BY <3>4, <3>5, <2>4
    <3>7. QED BY <3>6, <2>2
  <2>7. QED BY <2>5, <2>6
<1>2. QED
  BY <1>1

(***************************************************************************)
(* Every positive number has a lowest set bit.                             *)
(***************************************************************************)
LEMMA LSBExists ==
  ASSUME NEW n \in Nat \ {0}
  PROVE  \E p \in 1..n : IsLSB(p, n)
<1> DEFINE Bad == {y \in Nat \ {0} : ~ \E p \in 1..y : IsLSB(p, y)}
<1>1. Bad = {}
  <2> SUFFICES ASSUME Bad # {} PROVE FALSE
    OBVIOUS
  <2>1. PICK y \in Bad : \A z \in Bad : y <= z
    <3>1. Bad \in SUBSET Nat
      OBVIOUS
    <3> HIDE DEF Bad
    <3>2. QED BY <3>1, LeastElement
  <2>2. y \in Nat \ {0}
    BY <2>1
  <2>3. PICK h \in Nat : y = 2 * h \/ y = 2 * h + 1
    BY <2>2, Halving
  <2>4. CASE y = 2 * h + 1
    <3>1. IsPow2(1)
      BY Pow2Factors
    <3>2. h \in 0..y /\ y = 1 * (2 * h + 1) /\ 1 \in 1..y
      BY <2>2, <2>4
    <3>3. QED BY <3>1, <3>2, <2>1, <2>2, LSBMultiple
  <2>5. CASE y = 2 * h
    <3>1. h \in Nat \ {0} /\ h < y
      BY <2>2, <2>5
    <3>2. PICK p \in 1..h : IsLSB(p, h)
      BY <3>1, <2>1
    <3>3. PICK q \in 0..h : h = p * (2 * q + 1)
      BY <3>1, <3>2, LSBMultiple
    <3>4. y = (2 * p) * (2 * q + 1)
      <4>1. (2 * p) * (2 * q + 1) = 2 * (p * (2 * q + 1))
        BY SMT
      <4>2. QED BY <4>1, <3>3, <2>5
    <3>5. IsPow2(2 * p)
      BY <3>2, DoublePow2 DEF IsLSB
    <3>6. 2 * p \in 1..y /\ q \in 0..y
      BY <3>1, <2>5
    <3>7. IsLSB(2 * p, y)
      BY <2>2, <3>2, <3>4, <3>5, <3>6, LSBMultiple
    <3>8. QED BY <3>6, <3>7, <2>1
  <2>6. QED BY <2>3, <2>4, <2>5
<1>2. QED
  BY <1>1

(***************************************************************************)
(* node & -node is a power of two whose odd multiple the node is.          *)
(***************************************************************************)
LEMMA LSBProperty ==
  ASSUME NEW n \in Nat \ {0}
  PROVE  /\ LSB(n) \in 1..n
         /\ IsPow2(LSB(n))
         /\ \E q \in Nat : n = LSB(n) * (2 * q + 1)
<1>1. LSB(n) \in 1..n /\ IsLSB(LSB(n), n)
  BY LSBExists DEF LSB
<1> DEFINE p == LSB(n)
<1>2. p \in Nat \ {0} /\ n \in Nat
  BY <1>1
<1> HIDE DEF p
<1>3. IsLSB(p, n)
  BY <1>1 DEF p
<1>4. IsPow2(p) /\ \E q \in Nat : n = p * (2 * q + 1)
  BY <1>2, <1>3, LSBMultiple
<1>5. QED
  BY <1>1, <1>4 DEF p

(***************************************************************************)
(* Where fenwick_parent() and time_of_demise() lie.                        *)
(***************************************************************************)
LEMMA ParentType ==
  ASSUME NEW n \in Nat
  PROVE  Parent(n) \in Nat /\ (n # 0 => Parent(n) < n)
<1>1. CASE n = 0
  BY <1>1 DEF Parent
<1>2. CASE n # 0
  <2>1. LSB(n) \in 1..n
    BY <1>2, LSBProperty
  <2>2. QED BY <1>2, <2>1 DEF Parent
<1>3. QED
  BY <1>1, <1>2

LEMMA DemiseType ==
  ASSUME NEW n \in Nat \ {0}
  PROVE  Demise(n) \in Nat /\ Demise(n) > n + 2
<1>1. LSB(n) \in 1..n
  BY LSBProperty
<1>2. QED
  BY <1>1 DEF Demise

(* The lowest set bit of a node's parent is at least twice that of the      *)
(* node: clearing a bit moves up the word.                                 *)
LEMMA ParentThinner ==
  ASSUME NEW n \in Nat \ {0}, Parent(n) # 0
  PROVE  LSB(Parent(n)) >= 2 * LSB(n)
<1> DEFINE p == LSB(n)
           m == Parent(n)
           r == LSB(m)
<1>1. p \in Nat \ {0} /\ IsPow2(p) /\ m = n - p
  <2>1. LSB(n) \in 1..n /\ IsPow2(LSB(n))
    BY LSBProperty
  <2>2. QED BY <2>1 DEF Parent
<1>2. PICK q \in Nat : n = p * (2 * q + 1)
  BY LSBProperty
<1>3. m = (2 * p) * q
  <2>1. p * (2 * q + 1) = (2 * p) * q + p
    BY <1>1, SMT
  <2>2. (2 * p) * q \in Nat
    BY <1>1, SMT
  <2> HIDE DEF p, m
  <2>3. QED BY <1>1, <1>2, <2>1, <2>2
<1>4. m \in Nat \ {0}
  BY ParentType
<1>5. r \in Nat \ {0} /\ IsPow2(r)
  <2> HIDE DEF m
  <2>1. LSB(m) \in 1..m /\ IsPow2(LSB(m))
    BY <1>4, LSBProperty
  <2>2. QED BY <1>4, <2>1
<1>6. PICK s \in Nat : m = r * (2 * s + 1)
  BY <1>4, LSBProperty
<1>7. r >= 2 * p
  <2> SUFFICES ASSUME r < 2 * p PROVE FALSE
    BY <1>1, <1>5
  <2>1. IsPow2(2 * p) /\ 2 * p \in Nat \ {0}
    BY <1>1, DoublePow2
  <2> HIDE DEF p, m, r
  <2>2. PICK t \in Nat : 2 * p = r * (2 * t)
    BY <2>1, <1>5, Pow2Divides
  <2>3. (2 * p) * q = r * (2 * (t * q))
    <3>1. (r * (2 * t)) * q = r * (2 * (t * q))
      BY <1>5, SMT
    <3>2. QED BY <2>2, <3>1
  <2>4. r * (2 * s + 1) = r * (2 * (t * q))
    BY <2>3, <1>3, <1>6
  <2>5. t * q \in Nat
    BY SMT
  <2>6. 2 * s + 1 = 2 * (t * q)
    BY <2>4, <2>5, <1>5, SMT
  <2>7. QED BY <2>5, <2>6
<1>8. QED
  BY <1>7

(***************************************************************************)
(* The parent of a node dies after the node does, unless it is the root,   *)
(* which never dies.  This is what makes the deletions of tree::prune()    *)
(* safe for every stored difference: see the comment on lines 261-291 of   *)
(* diffmonger.hpp, which proves the weaker fact that the victims are not   *)
(* on the path of the node being created.                                  *)
(***************************************************************************)
THEOREM AncestorsOutlive ==
  ASSUME NEW n \in Nat \ {0}, Parent(n) # 0
  PROVE  Demise(Parent(n)) > Demise(n)
<1> DEFINE p == LSB(n)
           m == Parent(n)
           r == LSB(m)
<1>1. m \in Nat \ {0}
  BY ParentType
<1>2. p \in 1..n /\ m = n - p
  BY LSBProperty DEF Parent
<1>3. r \in 1..m
  <2> HIDE DEF m
  <2>1. QED BY <1>1, LSBProperty
<1>4. r >= 2 * p
  BY ParentThinner
<1>5. Demise(n) = n + 3 * p /\ Demise(m) = m + 3 * r
  BY DEF Demise
<1>6. QED
  <2> HIDE DEF p, m, r
  <2>1. Demise(m) > Demise(n)
    BY <1>1, <1>2, <1>3, <1>4, <1>5
  <2>2. QED BY <2>1 DEF m

(* Between a node and the end of its lowest set bit, the bits are those     *)
(* below it.                                                               *)
LEMMA BitsBelow ==
  ASSUME NEW k \in Nat \ {0}, NEW c \in Nat, k < c, c - k < LSB(k)
  PROVE  c - k + LSB(c) <= LSB(k) /\ LSB(c) <= c - k
<1> DEFINE p == LSB(c)
           r == LSB(k)
<1>1. c \in Nat \ {0}
  OBVIOUS
<1>2. p \in Nat \ {0} /\ IsPow2(p) /\ r \in Nat \ {0} /\ IsPow2(r)
  <2>1. LSB(c) \in 1..c /\ IsPow2(LSB(c)) /\ LSB(k) \in 1..k /\ IsPow2(LSB(k))
    BY <1>1, LSBProperty
  <2>2. QED BY <2>1
<1>3. PICK s \in Nat : c = p * (2 * s + 1)
  BY <1>1, LSBProperty
<1>4. PICK q \in Nat : k = r * (2 * q + 1)
  BY LSBProperty
<1>d. c - k < r
  OBVIOUS
<1> HIDE DEF p, r
<1>5. ASSUME NEW x \in Nat, c = r * x
      PROVE  FALSE
  <2>1. x > 2 * q + 1
    <3> SUFFICES ASSUME x <= 2 * q + 1 PROVE FALSE
      OBVIOUS
    <3>1. r * x <= r * (2 * q + 1)
      BY <1>2, SMT
    <3>2. QED BY <1>4, <1>5, <3>1
  <2>2. r * x >= r * (2 * q + 1) + r
    <3>1. PICK y \in Nat : x = (2 * q + 1) + 1 + y
      <4>1. x - (2 * q + 2) \in Nat /\ x = (2 * q + 1) + 1 + (x - (2 * q + 2))
        BY <2>1
      <4>2. QED BY <4>1
    <3>2. r * x = r * (2 * q + 1) + r + r * y
      BY <1>2, <3>1, SMT
    <3>3. r * y \in Nat /\ r * (2 * q + 1) \in Nat
      BY <1>2, SMT
    <3>4. QED BY <1>2, <3>2, <3>3
  <2>3. QED BY <1>2, <1>4, <1>5, <1>d, <2>2
<1>6. p < r
  <2>1. p # r
    <3> SUFFICES ASSUME p = r PROVE FALSE
      OBVIOUS
    <3>1. c = r * (2 * s + 1) /\ 2 * s + 1 \in Nat
      BY <1>3
    <3>2. QED BY <1>5, <3>1
  <2>2. ~ (r < p)
    <3> SUFFICES ASSUME r < p PROVE FALSE
      OBVIOUS
    <3>1. PICK t \in Nat : p = r * (2 * t)
      BY <1>2, Pow2Divides
    <3>2. c = r * ((2 * t) * (2 * s + 1)) /\ (2 * t) * (2 * s + 1) \in Nat
      <4>1. (r * (2 * t)) * (2 * s + 1) = r * ((2 * t) * (2 * s + 1))
        BY <1>2, SMT
      <4>2. (2 * t) * (2 * s + 1) \in Nat
        BY SMT
      <4>3. QED BY <1>3, <3>1, <4>1, <4>2
    <3>3. QED BY <1>5, <3>2
  <2>3. QED BY <1>2, <2>1, <2>2
<1>7. PICK t \in Nat : r = p * (2 * t)
  BY <1>2, <1>6, Pow2Divides
<1> DEFINE low == t * (2 * q + 1)
<1>8. low \in Nat
  BY SMT
<1>9. k = p * (2 * low)
  <2>1. (p * (2 * t)) * (2 * q + 1) = p * (2 * (t * (2 * q + 1)))
    BY <1>2, SMT
  <2>2. QED BY <1>4, <1>7, <2>1
<1> HIDE DEF low
<1>10. 2 * s + 1 > 2 * low
  <2> SUFFICES ASSUME 2 * s + 1 <= 2 * low PROVE FALSE
    BY <1>8
  <2>1. p * (2 * s + 1) <= p * (2 * low)
    BY <1>2, <1>8, SMT
  <2>2. QED BY <1>3, <1>9, <2>1
<1>11. PICK e \in Nat : 2 * s + 1 = 2 * low + 2 * e + 1
  <2>1. s - low \in Nat /\ 2 * s + 1 = 2 * low + 2 * (s - low) + 1
    BY <1>8, <1>10
  <2>2. QED BY <2>1
<1>12. c = k + p * (2 * e) + p
  <2>1. p * (2 * low + 2 * e + 1) = p * (2 * low) + p * (2 * e) + p
    BY <1>2, <1>8, SMT
  <2>2. QED BY <1>3, <1>9, <1>11, <2>1
<1>13. p * (2 * e) \in Nat
  BY <1>2, SMT
<1>14. e < t
  <2> SUFFICES ASSUME t <= e PROVE FALSE
    OBVIOUS
  <2>1. p * (2 * t) <= p * (2 * e)
    BY <1>2, SMT
  <2>2. QED BY <1>2, <1>7, <1>12, <1>13, <1>d, <2>1
<1>15. p * (2 * t) >= p * (2 * e) + 2 * p
  <2>1. PICK y \in Nat : t = e + 1 + y
    <3>1. t - (e + 1) \in Nat /\ t = e + 1 + (t - (e + 1))
      BY <1>14
    <3>2. QED BY <3>1
  <2>2. p * (2 * t) = p * (2 * e) + 2 * p + p * (2 * y)
    BY <1>2, <2>1, SMT
  <2>3. p * (2 * y) \in Nat
    BY <1>2, SMT
  <2>4. QED BY <1>2, <1>13, <2>2, <2>3
<1>16. c - k + p <= r /\ p <= c - k
  BY <1>2, <1>7, <1>12, <1>13, <1>15
<1>17. QED
  BY <1>16 DEF p, r

(* What fenwick_path_inc_root() reports goes down to the root.              *)
LEMMA PathType ==
  ASSUME NEW n \in Nat
  PROVE  Path(n) \subseteq 0..n /\ n \in Path(n) /\ 0 \in Path(n)
BY DEF Path, ProperAncestors

(* The parent of a node on a path is on the path too, and nothing of the    *)
(* path is between the two: a restore that goes through the path from the  *)
(* root on has received each node's base just before.                      *)
LEMMA PathSteps ==
  ASSUME NEW n \in Nat, NEW c \in Path(n), c # 0
  PROVE  /\ Parent(c) \in Path(n)
         /\ \A k \in Path(n) : k < c => k <= Parent(c)
<1>1. c \in Nat \ {0} /\ c <= n
  BY PathType
<1>2. LSB(c) \in 1..c /\ Parent(c) = c - LSB(c) /\ Parent(c) \in Nat /\ Parent(c) < c
  BY <1>1, LSBProperty, ParentType DEF Parent
<1>3. n - c < LSB(c)
  <2>1. CASE c = n
    BY <1>1, <1>2, <2>1
  <2>2. CASE c # n
    BY <1>1, <2>2 DEF Path, ProperAncestors
  <2>3. QED BY <2>1, <2>2
<1>4. Parent(c) \in Path(n)
  <2>1. CASE Parent(c) = 0
    BY <2>1 DEF Path
  <2>2. CASE Parent(c) # 0
    <3>1. LSB(Parent(c)) >= 2 * LSB(c)
      BY <1>1, <2>2, ParentThinner
    <3>2. LSB(Parent(c)) \in Nat
      <4>1. Parent(c) \in Nat \ {0}
        BY <1>2, <2>2
      <4>2. LSB(Parent(c)) \in 1..Parent(c)
        BY <4>1, LSBProperty
      <4>3. QED BY <4>1, <4>2
    <3>3. Parent(c) \in 1..(n - 1) /\ n - Parent(c) < LSB(Parent(c))
      BY <1>1, <1>2, <1>3, <2>2, <3>1, <3>2
    <3>4. QED BY <3>3 DEF Path, ProperAncestors
  <2>3. QED BY <2>1, <2>2
<1>5. ASSUME NEW k \in Path(n), k < c
      PROVE  k <= Parent(c)
  <2>1. CASE k = 0
    BY <1>2, <2>1
  <2>2. CASE k # 0
    <3>1. k \in Nat \ {0} /\ LSB(k) \in Nat /\ n - k < LSB(k)
      <4>1. k \in Nat \ {0} /\ k # n
        BY <1>1, <1>5, <2>2, PathType
      <4>2. n - k < LSB(k)
        BY <1>5, <2>2, <4>1 DEF Path, ProperAncestors
      <4>3. QED BY <4>1, <4>2, LSBProperty
    <3>2. c - k < LSB(k)
      BY <1>1, <3>1
    <3>3. LSB(c) <= c - k
      BY <1>1, <1>5, <3>1, <3>2, BitsBelow
    <3>4. QED BY <1>1, <1>2, <3>1, <3>3
  <2>3. QED BY <2>1, <2>2
<1>6. QED
  BY <1>4, <1>5

(* The path of a node on a path is part of it.                              *)
LEMMA PathNested ==
  ASSUME NEW n \in Nat, NEW k \in Path(n)
  PROVE  Path(k) \subseteq Path(n)
<1> SUFFICES ASSUME NEW j \in Path(k), j # 0, j # k, k # n
             PROVE  j \in Path(n)
  BY PathType
<1>1. k \in Nat /\ k <= n /\ j \in Nat \ {0} /\ j < k
  <2>1. k \in Nat /\ k <= n
    BY PathType
  <2>2. QED BY <2>1, PathType
<1>2. k - j < LSB(j) /\ n - k < LSB(k)
  BY <1>1 DEF Path, ProperAncestors
<1>3. LSB(j) \in Nat /\ LSB(k) \in Nat
  <2>1. k \in Nat \ {0}
    BY <1>1
  <2>2. LSB(j) \in 1..j /\ LSB(k) \in 1..k
    BY <1>1, <2>1, LSBProperty
  <2>3. QED BY <1>1, <2>2
<1>4. k - j + LSB(k) <= LSB(j)
  BY <1>1, <1>2, BitsBelow
<1>5. j \in 1..(n - 1) /\ n - j < LSB(j)
  BY <1>1, <1>2, <1>3, <1>4
<1>6. QED
  BY <1>5 DEF Path, ProperAncestors

(***************************************************************************)
(* Multiples of d that are less than d apart are in order.                 *)
(***************************************************************************)
LEMMA MultiplesApart ==
  ASSUME NEW d \in Nat \ {0}, NEW a \in Nat, NEW b \in Nat, d * a < d * b + d
  PROVE  a <= b
<1>1. a > b => d * a >= d * b + d
  BY SMT
<1>2. d * a \in Nat /\ d * b \in Nat
  BY SMT
<1>3. QED
  BY <1>1, <1>2

(***************************************************************************)
(* An odd multiple is not an even multiple.                                *)
(***************************************************************************)
LEMMA OddNotEven ==
  ASSUME NEW d \in Nat \ {0}, NEW a \in Nat, NEW b \in Nat
  PROVE  d * (2 * a + 1) # d * (2 * b)
<1> SUFFICES ASSUME d * (2 * a + 1) = d * (2 * b) PROVE FALSE
  OBVIOUS
<1>1. 2 * a + 1 = 2 * b
  BY SMT
<1>2. QED
  BY <1>1

(***************************************************************************)
(* Of two different powers of two, the larger is at least the double of    *)
(* the smaller.                                                            *)
(***************************************************************************)
LEMMA Pow2Apart ==
  ASSUME NEW a \in Nat \ {0}, NEW b \in Nat \ {0}, IsPow2(a), IsPow2(b), a < b
  PROVE  2 * a <= b
<1>1. PICK t \in Nat : b = a * (2 * t)
  BY Pow2Divides
<1>2. t # 0 => a * (2 * t) >= 2 * a
  BY SMT
<1>3. t # 0
  BY <1>1
<1>4. QED
  BY <1>1, <1>2, <1>3

(***************************************************************************)
(* Only one power of two has n as an odd multiple.                         *)
(***************************************************************************)
LEMMA LSBUnique ==
  ASSUME NEW p \in Nat \ {0}, NEW q \in Nat, IsPow2(p)
  PROVE  p * (2 * q + 1) \in Nat \ {0} /\ LSB(p * (2 * q + 1)) = p
<1> DEFINE n == p * (2 * q + 1)
           r == LSB(n)
<1>1. n \in Nat \ {0}
  BY SMT
<1>2. r \in Nat \ {0} /\ IsPow2(r)
  <2> HIDE DEF n
  <2>1. LSB(n) \in 1..n /\ IsPow2(LSB(n))
    BY <1>1, LSBProperty
  <2>2. QED BY <1>1, <2>1
<1>3. PICK s \in Nat : n = r * (2 * s + 1)
  <2> HIDE DEF n
  <2>1. QED BY <1>1, LSBProperty
<1>d. n = p * (2 * q + 1)
  OBVIOUS
<1> HIDE DEF n, r
<1>4. ~ (r < p)
  <2> SUFFICES ASSUME r < p PROVE FALSE
    OBVIOUS
  <2>1. PICK t \in Nat : p = r * (2 * t)
    BY <1>2, Pow2Divides
  <2>2. n = r * (2 * (t * (2 * q + 1)))
    <3>1. (r * (2 * t)) * (2 * q + 1) = r * (2 * (t * (2 * q + 1)))
      BY <1>2, SMT
    <3>2. QED BY <1>d, <2>1, <3>1
  <2>3. t * (2 * q + 1) \in Nat
    BY SMT
  <2>4. QED BY <1>2, <1>3, <2>2, <2>3, OddNotEven
<1>5. ~ (p < r)
  <2> SUFFICES ASSUME p < r PROVE FALSE
    OBVIOUS
  <2>1. PICK t \in Nat : r = p * (2 * t)
    BY <1>2, Pow2Divides
  <2>2. n = p * (2 * (t * (2 * s + 1)))
    <3>1. (p * (2 * t)) * (2 * s + 1) = p * (2 * (t * (2 * s + 1)))
      BY SMT
    <3>2. QED BY <1>3, <2>1, <3>1
  <2>3. t * (2 * s + 1) \in Nat
    BY SMT
  <2>4. QED BY <1>d, <2>2, <2>3, OddNotEven
<1>6. r = p
  BY <1>2, <1>4, <1>5
<1>7. QED
  BY <1>1, <1>6 DEF r, n

(***************************************************************************)
(* The lowest set bit of a multiple of p is not below p ...                *)
(***************************************************************************)
LEMMA LSBOfMultiple ==
  ASSUME NEW p \in Nat \ {0}, NEW j \in Nat \ {0}, IsPow2(p)
  PROVE  p * j \in Nat \ {0} /\ LSB(p * j) >= p
<1> DEFINE n == p * j
           r == LSB(n)
<1>1. n \in Nat \ {0}
  BY SMT
<1>2. r \in Nat \ {0} /\ IsPow2(r)
  <2> HIDE DEF n
  <2>1. LSB(n) \in 1..n /\ IsPow2(LSB(n))
    BY <1>1, LSBProperty
  <2>2. QED BY <1>1, <2>1
<1>3. PICK s \in Nat : n = r * (2 * s + 1)
  <2> HIDE DEF n
  <2>1. QED BY <1>1, LSBProperty
<1>d. n = p * j
  OBVIOUS
<1> HIDE DEF n, r
<1>4. ~ (r < p)
  <2> SUFFICES ASSUME r < p PROVE FALSE
    OBVIOUS
  <2>1. PICK t \in Nat : p = r * (2 * t)
    BY <1>2, Pow2Divides
  <2>2. n = r * (2 * (t * j))
    <3>1. (r * (2 * t)) * j = r * (2 * (t * j))
      BY <1>2, SMT
    <3>2. QED BY <1>d, <2>1, <3>1
  <2>3. t * j \in Nat
    BY SMT
  <2>4. QED BY <1>2, <1>3, <2>2, <2>3, OddNotEven
<1>5. r >= p
  BY <1>2, <1>4
<1>6. QED
  BY <1>1, <1>5 DEF r, n

(***************************************************************************)
(* ... and a number whose lowest set bit is not below p is a multiple.     *)
(***************************************************************************)
LEMMA MultipleOfLSB ==
  ASSUME NEW k \in Nat \ {0}, NEW p \in Nat \ {0}, IsPow2(p), LSB(k) >= p
  PROVE  \E j \in Nat \ {0} : k = p * j
<1> DEFINE r == LSB(k)
<1>1. r \in Nat \ {0} /\ IsPow2(r)
  <2>1. LSB(k) \in 1..k /\ IsPow2(LSB(k))
    BY LSBProperty
  <2>2. QED BY <2>1
<1>2. PICK s \in Nat : k = r * (2 * s + 1)
  BY LSBProperty
<1>d. r >= p
  OBVIOUS
<1> HIDE DEF r
<1>3. CASE r = p
  BY <1>2, <1>3
<1>4. CASE r # p
  <2>0. p < r
    BY <1>1, <1>4, <1>d
  <2>1. PICK t \in Nat : r = p * (2 * t)
    BY <1>1, <2>0, Pow2Divides
  <2>2. (p * (2 * t)) * (2 * s + 1) = p * ((2 * t) * (2 * s + 1))
    BY SMT
  <2>3. (2 * t) * (2 * s + 1) \in Nat
    BY SMT
  <2>4. k = p * ((2 * t) * (2 * s + 1))
    BY <1>2, <2>1, <2>2
  <2>5. (2 * t) * (2 * s + 1) # 0
    BY <2>3, <2>4
  <2>6. QED BY <2>3, <2>4, <2>5
<1>5. QED
  BY <1>3, <1>4

(***************************************************************************)
(* The nodes alive after "node" whose distance from it is between q and    *)
(* 2 * q: there are one or two of them, the anchor of alive_after() and    *)
(* the point half of q above it, the latter only when it has not come too  *)
(* close to the node.                                                      *)
(***************************************************************************)
LEMMA AliveLevel ==
  ASSUME NEW q \in Nat \ {0}, IsPow2(q), NEW a \in Nat,
         NEW cur \in Nat, cur = q * a, NEW h \in Nat, h = q \div 2,
         NEW node \in Nat, cur + q <= node, node < cur + 2 * q
  PROVE  \A k \in Nat :
           k \in AliveAfter(node) /\ q <= node - k /\ node - k < 2 * q
             <=> k = cur \/ (k = cur + h /\ node - cur >= q + h)
<1> DEFINE Lhs(k) == k \in AliveAfter(node) /\ q <= node - k /\ node - k < 2 * q
           Rhs(k) == k = cur \/ (k = cur + h /\ node - cur >= q + h)
<1>c. cur \in Nat /\ cur + q <= node /\ node < cur + 2 * q
  OBVIOUS
<1>h. h \in Nat /\ ((q = 1 /\ h = 0) \/ (q = 2 * h /\ h # 0 /\ IsPow2(h)))
  <2>1. CASE q = 1
    BY <2>1
  <2>2. CASE q # 1
    BY <2>2, HalvePow2
  <2>3. QED BY <2>1, <2>2
<1>1. Lhs(cur)
  <2>1. CASE cur = 0
    BY <2>1, <1>c DEF AliveAfter, Outlives
  <2>2. CASE cur # 0
    <3>1. a # 0
      BY <2>2
    <3>2. LSB(cur) >= q /\ LSB(cur) \in Nat
      <4>1. cur \in Nat \ {0}
        BY <1>c, <2>2
      <4>2. LSB(cur) \in 1..cur
        BY <4>1, LSBProperty
      <4>3. LSB(q * a) >= q
        BY <3>1, LSBOfMultiple
      <4>4. QED BY <1>c, <4>2, <4>3
    <3>3. cur \in 0..node /\ Demise(cur) > node
      BY <1>c, <3>2 DEF Demise
    <3>4. QED BY <1>c, <3>3 DEF AliveAfter, Outlives
  <2>3. QED BY <2>1, <2>2
<1>2. ASSUME node - cur >= q + h PROVE Lhs(cur + h)
  <2>1. CASE h = 0
    <3>1. cur + h = cur
      BY <1>c, <2>1
    <3>2. QED BY <1>1, <3>1
  <2>2. CASE h # 0
    <3>1. q = 2 * h /\ IsPow2(h)
      BY <1>h, <2>2
    <3>2. cur + h = h * (2 * a + 1)
      BY <3>1, <1>h, SMT
    <3>3. LSB(cur + h) = h
      <4>1. QED BY <1>h, <2>2, <3>1, <3>2, LSBUnique
    <3>4. cur + h \in 0..node /\ Demise(cur + h) > node
      BY <1>2, <1>c, <1>h, <3>1, <3>3 DEF Demise
    <3>5. QED BY <1>2, <1>c, <1>h, <2>2, <3>1, <3>4 DEF AliveAfter, Outlives
  <2>3. QED BY <2>1, <2>2
<1>3. ASSUME NEW k \in Nat, Lhs(k) PROVE Rhs(k)
  <2>1. k > cur - q /\ k < cur + q /\ k + q <= node
    <3>1. QED BY <1>3, <1>c
  <2>2. CASE k = 0
    <3>1. q * a < q * 0 + q
      BY <2>1, <2>2, <1>c
    <3>2. a = 0
      BY <3>1, MultiplesApart
    <3>3. QED BY <2>2, <3>2
  <2>3. CASE k # 0
    <3> DEFINE r == LSB(k)
    <3>1. r \in Nat \ {0} /\ IsPow2(r)
      <4>1. LSB(k) \in 1..k /\ IsPow2(LSB(k))
        BY <2>3, LSBProperty
      <4>2. QED BY <4>1
    <3>2. k + 3 * r > node
      BY <1>3, <2>3 DEF AliveAfter, Outlives, Demise
    <3>3. CASE r >= q
      <4>1. PICK j \in Nat \ {0} : k = q * j
        BY <2>3, <3>3, MultipleOfLSB
      <4>2. q * j < q * a + q /\ q * a < q * j + q
        BY <2>1, <4>1, <1>c
      <4>3. j <= a /\ a <= j
        BY <4>2, MultiplesApart
      <4>4. j = a
        BY <4>3
      <4>5. QED BY <4>1, <4>4
    <3>4. CASE r < q
      <4>r. k + r + r + r > node
        <5> HIDE DEF r
        <5>1. QED BY <3>1, <3>2
      <4>s. PICK s \in Nat : k = r * (2 * s + 1)
        BY <2>3, LSBProperty
      <4> HIDE DEF r
      <4>1. h # 0 /\ q = 2 * h /\ IsPow2(h)
        BY <1>h, <3>1, <3>4
      <4>2. ~ (h < r)
        <5>1. h < r => 2 * h <= r
          BY <1>h, <4>1, <3>1, Pow2Apart
        <5>2. QED BY <5>1, <4>1, <3>1, <3>4, <1>h
      <4>3. ~ (r < h)
        <5>1. r < h => 2 * r <= h
          BY <1>h, <4>1, <3>1, Pow2Apart
        <5>2. QED BY <5>1, <4>1, <3>1, <2>1, <4>r, <1>h
      <4>4. r = h
        BY <4>2, <4>3, <1>h, <3>1
      <4>5. k = q * s + h
        <5>1. h * (2 * s + 1) = (2 * h) * s + h
          BY <1>h, SMT
        <5>2. QED BY <5>1, <4>s, <4>4, <4>1
      <4>6. s <= a
        <5>1. q * s < q * a + q
          <6>1. q * s \in Nat
            BY SMT
          <6>2. QED BY <2>1, <4>5, <6>1, <1>h, <1>c
        <5>2. QED BY <5>1, MultiplesApart
      <4>7. ~ (s < a)
        <5> SUFFICES ASSUME s < a PROVE FALSE
          OBVIOUS
        <5>1. q * a >= q * s + q /\ q * s \in Nat
          BY SMT
        <5>2. cur >= q * s + q
          BY <5>1
        <5>3. QED BY <5>1, <5>2, <4>5, <4>4, <4>r, <4>1, <1>h, <1>c
      <4>8. s = a
        BY <4>6, <4>7
      <4>9. k = cur + h
        BY <4>5, <4>8
      <4>10. QED BY <4>9, <2>1, <1>c, <1>h
    <3>5. QED BY <3>1, <3>3, <3>4
  <2>4. QED BY <2>2, <2>3
<1>4. QED
  BY <1>1, <1>2, <1>3

(***************************************************************************)
(* Setting a bit above all others of m adds one node to its path.          *)
(***************************************************************************)
LEMMA PathDeeper ==
  ASSUME NEW q \in Nat \ {0}, IsPow2(q), NEW m \in 0..(q - 1)
  PROVE  Path(q + m) = {0} \cup {q + j : j \in Path(m)}
<1>1. LSB(q) = q
  <2>1. q * (2 * 0 + 1) = q
    OBVIOUS
  <2>2. LSB(q * (2 * 0 + 1)) = q
    BY LSBUnique
  <2>3. QED BY <2>1, <2>2
<1>2. ASSUME NEW j \in 1..(q - 1) PROVE LSB(q + j) = LSB(j) /\ LSB(j) \in Nat
  <2> DEFINE r == LSB(j)
  <2>1. r \in 1..j /\ IsPow2(r)
    <3>1. j \in Nat \ {0}
      OBVIOUS
    <3>2. QED BY <3>1, LSBProperty
  <2>2. PICK s \in Nat : j = r * (2 * s + 1)
    <3>1. j \in Nat \ {0}
      OBVIOUS
    <3>2. QED BY <3>1, LSBProperty
  <2> HIDE DEF r
  <2>3. r < q /\ r \in Nat \ {0}
    BY <2>1
  <2>4. PICK t \in Nat : q = r * (2 * t)
    BY <2>1, <2>3, Pow2Divides
  <2>5. q + j = r * (2 * (t + s) + 1)
    <3>1. r * (2 * t) + r * (2 * s + 1) = r * (2 * (t + s) + 1)
      BY <2>3, SMT
    <3>2. QED BY <3>1, <2>2, <2>4
  <2>6. LSB(r * (2 * (t + s) + 1)) = r
    BY <2>1, <2>3, LSBUnique
  <2>7. LSB(q + j) = r
    BY <2>5, <2>6
  <2>8. QED BY <2>3, <2>7 DEF r
<1>3. ASSUME NEW i \in Path(q + m), i # 0
      PROVE  \E j \in Path(m) : i = q + j
  <2>1. CASE i = q + m
    BY <2>1, PathType
  <2>2. CASE i # q + m
    <3>1. i \in 1..(q + m - 1) /\ q + m - i < LSB(i)
      BY <1>3, <2>2 DEF Path, ProperAncestors
    <3>2. ~ (i < q)
      <4> SUFFICES ASSUME i < q PROVE FALSE
        OBVIOUS
      <4>1. i \in Nat \ {0} /\ LSB(i) \in Nat
        <5>1. i \in Nat \ {0}
          BY <3>1
        <5>2. LSB(i) \in 1..i
          BY <5>1, LSBProperty
        <5>3. QED BY <5>1, <5>2
      <4>2. q - i < LSB(i)
        BY <3>1, <4>1
      <4>3. LSB(q) <= q - i
        BY <4>1, <4>2, BitsBelow
      <4>4. QED BY <1>1, <4>1, <4>3
    <3>3. CASE i = q
      BY <3>3, PathType
    <3>4. CASE i > q
      <4>1. i - q \in 1..(m - 1) /\ i - q \in 1..(q - 1) /\ i = q + (i - q)
        BY <3>1, <3>4
      <4>2. LSB(i) = LSB(i - q)
        BY <1>2, <4>1
      <4>3. m - (i - q) < LSB(i - q)
        BY <3>1, <4>1, <4>2
      <4>4. i - q \in Path(m)
        BY <4>1, <4>3 DEF Path, ProperAncestors
      <4>5. QED BY <4>1, <4>4
    <3>5. QED BY <3>1, <3>2, <3>3, <3>4
  <2>3. QED BY <2>1, <2>2
<1>4. ASSUME NEW j \in Path(m) PROVE q + j \in Path(q + m)
  <2>1. j \in 0..m
    BY PathType
  <2>2. CASE j = m
    BY <2>2 DEF Path
  <2>3. CASE j # m /\ j = 0
    <3>1. q \in 1..(q + m - 1) /\ q + m - q < LSB(q) /\ q + j = q
      BY <2>1, <2>3, <1>1
    <3>2. QED BY <3>1 DEF Path, ProperAncestors
  <2>4. CASE j # m /\ j # 0
    <3>1. j \in 1..(m - 1) /\ m - j < LSB(j)
      BY <2>1, <2>4 DEF Path, ProperAncestors
    <3>2. LSB(q + j) = LSB(j) /\ LSB(j) \in Nat
      BY <3>1, <1>2
    <3>3. q + j \in 1..(q + m - 1) /\ q + m - (q + j) < LSB(q + j)
      BY <3>1, <3>2
    <3>4. QED BY <3>3 DEF Path, ProperAncestors
  <2>5. QED BY <2>2, <2>3, <2>4
<1>5. 0 \in Path(q + m)
  BY PathType
<1>6. QED
  BY <1>3, <1>4, <1>5

-----------------------------------------------------------------------------
(***************************************************************************)
(* A set of nodes alive after n is what may be left of them when it has    *)
(* all that live longer than n + 1.                                        *)
(***************************************************************************)
LEMMA LeftAfterIs ==
  ASSUME NEW n \in Nat, NEW F,
         \A k \in F : k \in 0..n /\ Outlives(k, n),
         \A k \in 0..n : Outlives(k, n + 1) => k \in F
  PROVE  F \in LeftAfter(n)
<1>1. F \subseteq AliveAfter(n)
  BY DEF AliveAfter
<1>2. AliveAfter(n) \ F \subseteq Pruned(n + 1)
  <2> SUFFICES ASSUME NEW k \in AliveAfter(n) \ F PROVE k \in Pruned(n + 1)
    OBVIOUS
  <2>1. k \in 0..n /\ Outlives(k, n) /\ ~ Outlives(k, n + 1)
    BY DEF AliveAfter
  <2>2. k # 0 /\ k \in Nat
    BY <2>1 DEF Outlives
  <2>3. Demise(k) \in Nat /\ Demise(k) > n /\ ~ (Demise(k) > n + 1)
    BY <2>1, <2>2, DemiseType DEF Outlives
  <2>4. Demise(k) = n + 1 /\ k \in 1..(n + 1)
    BY <2>1, <2>2, <2>3
  <2>5. QED
    BY <2>4 DEF Pruned
<1>3. F = AliveAfter(n) \ (AliveAfter(n) \ F)
  BY <1>1
<1>4. QED
  BY <1>2, <1>3 DEF LeftAfter
=============================================================================
