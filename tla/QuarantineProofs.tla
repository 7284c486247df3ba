--------------------------- MODULE QuarantineProofs ---------------------------
(***************************************************************************)
(* IInv is an inductive invariant of Quarantine, for every value of the    *)
(* bounds, and the properties of the mirror follow from it.                *)
(*                                                                         *)
(* The primary and the mirror meet in one argument: a node arrives only    *)
(* while the primary keeps it, the primary keeps no node that its latest   *)
(* one has killed, and the mirror trusts only nodes that the primary has   *)
(* taken.  So what the mirror has pruned cannot arrive again.              *)
(***************************************************************************)
EXTENDS Quarantine, FenwickTreeProofs

(***************************************************************************)
(* The inductive invariant.                                                *)
(***************************************************************************)
(* The primary holds the nodes that its latest one has not killed; what is  *)
(* on the mirror was taken.                                                 *)
PrimaryInv == /\ \A n \in Nodes : n < next => stamp[n] \in Times
              /\ \A n \in kept : n < next /\ Outlives(n, next - 1)
              /\ \A n \in mirror : n < next

(* The nodes below b that the mirror trusts have been paid for with time,   *)
(* the first at root.                                                       *)
Earned(c, root) == /\ root \in Times
                   /\ root + (c.begin - 1) * MinGap <= c.at
                   /\ c.at <= latest

InOrder(b) == \A k \in 0..(b - 1) : \A j \in 0..k : stamp[j] <= stamp[k]

(* The mirror is what breadcrumb c says. *)
Consistent(c) ==
  /\ c.begin <= next
  /\ c.begin > 0 => Earned(c, rootAt)
  /\ InOrder(c.begin)
  /\ \A k \in 0..(c.begin - 1) : Outlives(k, c.begin) => k \in mirror
  /\ \A k \in mirror : k < c.begin => Outlives(k, c.begin - 1)

MirrorInv == /\ bread # Torn => Consistent(CrumbOf(bread))
             /\ clock <= latest

(* What the process remembers agrees with the files. *)
MemoryInv == pc # "idle" => /\ bread = Torn <=> pc = "write"
                            /\ bread # Torn => crumb = CrumbOf(bread)
                            /\ Consistent(crumb)
                            /\ now <= latest

(* From the decision to trust a node until the breadcrumb says so. *)
TrustInv == /\ pc \in {"prune", "open", "write"} =>
                 /\ crumb.begin \in mirror
                 /\ updated.begin = crumb.begin + 1
                 /\ Earned(updated, IF crumb.begin = 0 THEN updated.at ELSE rootAt)
                 /\ InOrder(updated.begin)
                 /\ \A v \in victims : Demise(v) = crumb.begin
                 /\ \A k \in mirror : k < crumb.begin =>
                                         Outlives(k, crumb.begin) \/ k \in victims
            /\ pc \in {"open", "write"} => victims = {}

(* The nodes trusted so far are those that the breadcrumbs count, also      *)
(* while the file is cut short.  Until the primary has the node after them, *)
(* none of them is missing: there is no node for whose sake one could go.   *)
HistoryInv ==
  /\ Consistent([begin |-> trusted, at |-> latest])
  /\ bread # Torn => CrumbOf(bread).begin = trusted
  /\ pc # "idle" => crumb.begin = trusted
  /\ next = trusted => \A k \in 0..(trusted - 1) : Outlives(k, trusted - 1) => k \in mirror

(* Whatever step is the last one, and whatever arrives in between, the      *)
(* breadcrumb and the nodes of the mirror agree.                            *)
IInv == TypeOK /\ PrimaryInv /\ MirrorInv /\ MemoryInv /\ TrustInv /\ HistoryInv

-----------------------------------------------------------------------------
LEMMA Constants ==
  /\ MaxNode \in Nat /\ MaxTime \in Nat /\ MinGap \in Nat
  /\ MaxSetBacks \in Nat /\ MaxCrashes \in Nat
  /\ \A t \in PrimaryTimes : t \in Times
  /\ NoFile \notin Nat /\ Torn \notin Nat /\ NoFile # Torn
  /\ NoFile \notin Crumbs /\ Torn \notin Crumbs
  /\ NoCrumb \in Crumbs
<1>1. Crumbs \subseteq [begin : Nat, at : Nat]
  BY QuarantineAssumption DEF Crumbs, Times
<1>2. PrimaryTimes \subseteq Times
  BY QuarantineAssumption DEF Times
<1>3. NoCrumb \in Crumbs
  BY QuarantineAssumption DEF NoCrumb, Crumbs, Times
<1>4. NoFile \notin [begin : Nat, at : Nat] /\ Torn \notin [begin : Nat, at : Nat]
  BY QuarantineAssumption
<1>5. NoFile \notin Nat /\ Torn \notin Nat
  BY QuarantineAssumption
<1>6. QED
  BY <1>1, <1>2, <1>3, <1>4, <1>5, QuarantineAssumption

(* The tree of the primary is the tree of the mirror. *)
LEMMA SameTree ==
  /\ \A k, n : Primary!Outlives(k, n) <=> Outlives(k, n)
  /\ \A n : Primary!Demise(n) = Demise(n)
BY DEF Primary!Outlives, Outlives, Primary!Demise, Demise, Primary!LSB, LSB,
   Primary!IsLSB, IsLSB, Primary!IsPow2, IsPow2

(* A node lives at least until the second node after it. *)
LEMMA Lives ==
  ASSUME NEW k \in Nat
  PROVE  /\ k # 0 => Demise(k) \in Nat
         /\ Outlives(k, k) /\ Outlives(k, k + 1)
BY DemiseType DEF Outlives

LEMMA OutlivesLess ==
  ASSUME NEW k \in Nat, NEW n \in Nat, NEW m \in Nat, m <= n, Outlives(k, n)
  PROVE  Outlives(k, m)
BY DemiseType DEF Outlives

-----------------------------------------------------------------------------
(* A breadcrumb names a node, and the loop goes on only after a node that   *)
(* the mirror has. *)
LEMMA TypeStep ==
  IInv /\ [Next]_vars => TypeOK'
<1> SUFFICES ASSUME IInv, [Next]_vars PROVE TypeOK'
  OBVIOUS
<1>a. TypeOK
  BY DEF IInv
<1>b. 0 \in Times /\ NoCrumb \in Crumbs
  BY Constants DEF Times
<1> USE DEF TypeOK
<1>1. ASSUME NEW t \in PrimaryTimes, PrimaryTakes(t) PROVE TypeOK'
  <2>1. next' = next + 1 /\ kept' = kept \cup {next} /\ next \in Nodes /\ t \in Times
    BY <1>1, Constants DEF PrimaryTakes, Primary!Take
  <2>2. next' \in 0..(MaxNode + 1) /\ kept' \subseteq Nodes
    BY <1>a, <2>1, Constants DEF Nodes
  <2>3. stamp' \in [Nodes -> Times \cup {NoFile}]
    BY <1>a, <1>1, <2>1 DEF PrimaryTakes
  <2>4. setBacks' \in 0..MaxSetBacks
    BY <1>a, <1>1, Constants DEF PrimaryTakes
  <2>5. QED
    BY <1>a, <1>1, <2>2, <2>3, <2>4 DEF PrimaryTakes, mirrorVars, processVars
<1>2. ASSUME NEW n \in kept, PrimaryForgets(n) PROVE TypeOK'
  BY <1>a, <1>2 DEF PrimaryForgets, Primary!Forget, mirrorVars, processVars, boundVars
<1>3. ASSUME NEW n \in kept, Sync(n) PROVE TypeOK'
  BY <1>a, <1>3 DEF Sync, primaryVars, processVars, boundVars
<1>4. CASE StartPruning
  <2>1. CrumbOf(bread) \in Crumbs
    BY <1>a, <1>b, <1>4 DEF StartPruning, CrumbOf
  <2>2. QED
    BY <1>a, <1>4, <2>1 DEF StartPruning, primaryVars, mirrorVars, boundVars, ControlStates
<1>5. CASE StartFails
  BY <1>a, <1>5 DEF StartFails, vars, primaryVars, mirrorVars, processVars, boundVars
<1>6. CASE Trust
  <2>1. crumb.begin \in Nodes /\ crumb.at \in Times /\ now \in Times
    BY <1>a, <1>6 DEF Trust, Crumbs
  <2>2. CASE crumb.begin = 0
    BY <1>a, <1>6, <2>1, <2>2, Constants DEF Trust, Updated, Crumbs, Pruned, Nodes,
       primaryVars, mirrorVars, boundVars, ControlStates
  <2>3. CASE crumb.begin # 0
    <3>1. crumb.begin < next
      BY <1>6 DEF Trust, IInv, PrimaryInv
    <3>2. Candidate \in Times
      BY <2>1, <3>1 DEF Candidate, IInv, PrimaryInv
    <3>3. QuarantineEnds \in Nat /\ TrustedAt \in Nat /\ TrustedAt <= EffectiveNow
      BY <1>6, <2>1, <2>3, <3>2, Constants
         DEF Trust, MayTrust, TrustedAt, Larger, QuarantineEnds, EffectiveNow, Times
    <3>4. TrustedAt \in Times
      BY <2>1, <3>3, Constants DEF EffectiveNow, Larger, Times
    <3>5. Updated \in Crumbs
      BY <2>1, <2>3, <3>4, Constants DEF Updated, Crumbs, Nodes
    <3>6. Pruned(crumb.begin) \subseteq Nodes \ {0}
      BY <2>1, Constants DEF Pruned, Nodes
    <3>7. QED
      BY <1>a, <1>6, <3>5, <3>6 DEF Trust, primaryVars, mirrorVars, boundVars, ControlStates
  <2>4. QED
    BY <2>2, <2>3
<1>7. CASE Stop
  BY <1>a, <1>b, <1>7 DEF Stop, End, primaryVars, mirrorVars, boundVars, ControlStates
<1>8. ASSUME NEW v \in victims, DeleteNode(v) PROVE TypeOK'
  BY <1>a, <1>8 DEF DeleteNode, primaryVars, boundVars
<1>9. CASE PruneDone
  BY <1>a, <1>9 DEF PruneDone, primaryVars, mirrorVars, boundVars, ControlStates
<1>10. CASE OpenCrumb
  BY <1>a, <1>10 DEF OpenCrumb, primaryVars, boundVars, ControlStates
<1>11. CASE WriteCrumb
  <2>1. rootAt' \in Times \cup {NoFile}
    BY <1>a, <1>11 DEF WriteCrumb, Crumbs
  <2>2. trusted' \in 0..(MaxNode + 1)
    BY <1>a, <1>11 DEF WriteCrumb, Crumbs
  <2>3. QED
    BY <1>a, <1>11, <2>1, <2>2 DEF WriteCrumb, primaryVars, boundVars, ControlStates
<1>12. CASE Crash
  BY <1>a, <1>b, <1>12, Constants DEF Crash, End, primaryVars, mirrorVars, ControlStates
<1>13. CASE Tick
  BY <1>a, <1>13, Constants DEF Tick, Larger, Times, primaryVars, mirrorVars, processVars,
     boundVars
<1>14. ASSUME NEW t \in Times, SetBack(t) PROVE TypeOK'
  BY <1>a, <1>14, Constants DEF SetBack, primaryVars, mirrorVars, processVars
<1>15. CASE UNCHANGED vars
  BY <1>a, <1>15 DEF vars, primaryVars, mirrorVars, processVars, boundVars
<1> HIDE DEF TypeOK
<1>16. QED
  BY <1>1, <1>2, <1>3, <1>4, <1>5, <1>6, <1>7, <1>8, <1>9, <1>10, <1>11, <1>12, <1>13,
     <1>14, <1>15 DEF Next, PrimaryStep, PruneCommand

-----------------------------------------------------------------------------
(* The primary: what it holds, its latest node has not killed. *)
LEMMA PrimaryStepKeeps ==
  IInv /\ [Next]_vars => PrimaryInv'
<1> SUFFICES ASSUME IInv, [Next]_vars PROVE PrimaryInv'
  OBVIOUS
<1>a. TypeOK /\ PrimaryInv
  BY DEF IInv
<1>b. next \in Nat
  BY <1>a, Constants DEF TypeOK
<1>1. ASSUME NEW t \in PrimaryTimes, PrimaryTakes(t) PROVE PrimaryInv'
  <2>1. /\ next' = next + 1 /\ kept' = kept \cup {next} /\ next \in Nodes /\ t \in Times
        /\ stamp' = [stamp EXCEPT ![next] = t] /\ mirror' = mirror
    BY <1>1, Constants DEF PrimaryTakes, Primary!Take, mirrorVars
  <2>2. \A n \in Nodes : n < next' => stamp'[n] \in Times
    BY <1>a, <1>b, <2>1 DEF TypeOK, PrimaryInv, Nodes
  <2>3. ASSUME NEW n \in kept' PROVE n < next' /\ Outlives(n, next' - 1)
    <3>1. CASE n = next
      BY <1>b, <2>1, <3>1, Lives
    <3>2. CASE n \in kept
      <4>1. next # 0 /\ n < next /\ n \in Nat
        BY <1>a, <1>b, <3>2 DEF PrimaryInv, TypeOK, Nodes
      <4>2. Primary!Outlives(n, next)
        BY <1>1, <3>2, <4>1 DEF PrimaryTakes, Primary!Take
      <4>3. Outlives(n, next)
        BY <4>2, SameTree
      <4>4. next' - 1 = next
        BY <1>b, <2>1
      <4>5. n < next'
        BY <1>b, <2>1, <4>1
      <4>6. QED
        BY <4>3, <4>4, <4>5
    <3>3. QED
      BY <2>1, <3>1, <3>2
  <2>4. \A n \in mirror' : n < next'
    BY <1>a, <1>b, <2>1 DEF PrimaryInv, TypeOK, Nodes
  <2>5. QED
    BY <2>2, <2>3, <2>4 DEF PrimaryInv
<1>2. ASSUME NEW n \in kept, PrimaryForgets(n) PROVE PrimaryInv'
  BY <1>a, <1>2 DEF PrimaryForgets, Primary!Forget, mirrorVars, PrimaryInv
<1>3. ASSUME NEW n \in kept, Sync(n) PROVE PrimaryInv'
  BY <1>a, <1>3 DEF Sync, primaryVars, PrimaryInv
<1>4. ASSUME UNCHANGED primaryVars, mirror' \subseteq mirror PROVE PrimaryInv'
  BY <1>a, <1>4 DEF primaryVars, PrimaryInv
<1>5. CASE \/ StartPruning \/ StartFails \/ PruneCommand \/ Crash \/ Tick
           \/ (\E t \in Times : SetBack(t)) \/ UNCHANGED vars
  BY <1>4, <1>5 DEF StartPruning, StartFails, PruneCommand, Trust, Stop, DeleteNode,
     PruneDone, OpenCrumb, WriteCrumb, Crash, Tick, SetBack, vars, mirrorVars
<1>6. QED
  BY <1>1, <1>2, <1>3, <1>5 DEF Next, PrimaryStep

-----------------------------------------------------------------------------
(***************************************************************************)
(* Consistent(c) with the state it speaks of as parameters.                *)
(***************************************************************************)
Agrees(c, nx, st, mi, root, la) ==
  /\ c.begin <= nx
  /\ c.begin > 0 => root \in Times /\ root + (c.begin - 1) * MinGap <= c.at /\ c.at <= la
  /\ \A k \in 0..(c.begin - 1) : \A j \in 0..k : st[j] <= st[k]
  /\ \A k \in 0..(c.begin - 1) : Outlives(k, c.begin) => k \in mi
  /\ \A k \in mi : k < c.begin => Outlives(k, c.begin - 1)

LEMMA Agreement ==
  /\ \A c : Consistent(c) <=> Agrees(c, next, stamp, mirror, rootAt, latest)
  /\ Consistent(crumb)' <=> Agrees(crumb', next', stamp', mirror', rootAt', latest')
  /\ Consistent(CrumbOf(bread))'
       <=> Agrees(CrumbOf(bread'), next', stamp', mirror', rootAt', latest')
BY DEF Consistent, Earned, InOrder, Agrees, CrumbOf, NoCrumb

(* What other steps than those of the command itself may do to the files. *)
LEMMA Frame ==
  ASSUME NEW c \in Crumbs, next \in Nat, next' \in Nat, next <= next',
         \A k \in Nat : k < next => stamp'[k] = stamp[k],
         latest \in Nat, latest' \in Nat, latest <= latest', rootAt' = rootAt,
         \A k \in mirror : k \notin mirror' => ~ Outlives(k, c.begin),
         \A k \in mirror' \ mirror : k < c.begin => Outlives(k, c.begin - 1),
         Agrees(c, next, stamp, mirror, rootAt, latest)
  PROVE  Agrees(c, next', stamp', mirror', rootAt', latest')
<1>1. c.begin \in Nat /\ c.at \in Nat /\ c.begin <= next
  BY Constants DEF Crumbs, Times, Agrees
<1>2. \A k \in 0..(c.begin - 1) : \A j \in 0..k : stamp'[j] <= stamp'[k]
  <2> SUFFICES ASSUME NEW k \in 0..(c.begin - 1), NEW j \in 0..k PROVE stamp'[j] <= stamp'[k]
    OBVIOUS
  <2>1. k \in Nat /\ j \in Nat /\ k < next /\ j < next
    BY <1>1
  <2>2. stamp[j] <= stamp[k]
    BY DEF Agrees
  <2>3. QED
    BY <2>1, <2>2
<1>3. \A k \in 0..(c.begin - 1) : Outlives(k, c.begin) => k \in mirror'
  BY DEF Agrees
<1>4. \A k \in mirror' : k < c.begin => Outlives(k, c.begin - 1)
  BY DEF Agrees
<1>5. c.begin <= next'
  BY <1>1
<1>6. c.begin > 0 =>
        rootAt' \in Times /\ rootAt' + (c.begin - 1) * MinGap <= c.at /\ c.at <= latest'
  BY <1>1 DEF Agrees
<1>7. QED
  BY <1>2, <1>3, <1>4, <1>5, <1>6 DEF Agrees

(* The breadcrumb of the file and that of the process are what matters. *)
LEMMA CrumbTypes ==
  ASSUME TypeOK
  PROVE  /\ crumb \in Crumbs /\ updated \in Crumbs
         /\ bread # Torn => CrumbOf(bread) \in Crumbs
         /\ crumb.begin \in Nat /\ crumb.at \in Nat
         /\ updated.begin \in Nat /\ updated.at \in Nat
         /\ next \in Nat /\ latest \in Nat /\ clock \in Nat /\ now \in Nat
         /\ mirror \subseteq Nat /\ victims \subseteq Nat \ {0}
BY Constants DEF TypeOK, Crumbs, CrumbOf, Times, Nodes

-----------------------------------------------------------------------------
(***************************************************************************)
(* The breadcrumb file and the process's breadcrumb agree with the files.  *)
(***************************************************************************)
LEMMA MirrorStep ==
  IInv /\ [Next]_vars => MirrorInv' /\ MemoryInv'
<1> SUFFICES ASSUME IInv, [Next]_vars PROVE MirrorInv' /\ MemoryInv'
  OBVIOUS
<1>a. TypeOK /\ PrimaryInv /\ MirrorInv /\ MemoryInv /\ TrustInv
  BY DEF IInv
<1>b. /\ crumb \in Crumbs /\ updated \in Crumbs
      /\ bread # Torn => CrumbOf(bread) \in Crumbs
      /\ crumb.begin \in Nat /\ crumb.at \in Nat
      /\ next \in Nat /\ latest \in Nat /\ clock \in Nat /\ now \in Nat
      /\ mirror \subseteq Nat
  BY <1>a, CrumbTypes
<1> DEFINE Good(c) == Agrees(c, next, stamp, mirror, rootAt, latest)
           GoodNext(c) == Agrees(c, next', stamp', mirror', rootAt', latest')
<1>c. /\ bread # Torn => Good(CrumbOf(bread))
      /\ pc # "idle" => Good(crumb)
  BY <1>a, Agreement DEF MirrorInv, MemoryInv
(* A step that leaves the breadcrumbs alone. *)
<1>d. ASSUME bread' = bread, crumb' = crumb, pc' = pc, now' = now,
             clock' <= latest', now <= latest => now' <= latest',
             bread # Torn => GoodNext(CrumbOf(bread)),
             pc # "idle" => GoodNext(crumb)
      PROVE  MirrorInv' /\ MemoryInv'
  <2>1. MirrorInv'
    BY <1>d, Agreement DEF MirrorInv
  <2>2. MemoryInv'
    <3>1. CrumbOf(bread)' = CrumbOf(bread)
      BY <1>d DEF CrumbOf, NoCrumb
    <3>2. Consistent(crumb)' <=> GoodNext(crumb)
      BY <1>d, Agreement
    <3> HIDE DEF GoodNext
    <3>3. QED
      BY <1>a, <1>d, <3>1, <3>2 DEF MemoryInv
  <2>3. QED
    BY <2>1, <2>2
(* The process ends. *)
<1>e. ASSUME End, UNCHANGED <<next, stamp, mirror, bread, clock, rootAt, latest>>
      PROVE  MirrorInv' /\ MemoryInv'
  <2>1. MirrorInv'
    <3>1. bread' # Torn => GoodNext(CrumbOf(bread'))
      BY <1>c, <1>e
    <3>2. QED
      BY <1>a, <1>e, <3>1, Agreement DEF MirrorInv
  <2>2. MemoryInv'
    BY <1>e DEF MemoryInv, End
  <2>3. QED
    BY <2>1, <2>2
<1> HIDE DEF Good, GoodNext
<1>1. ASSUME NEW t \in PrimaryTimes, PrimaryTakes(t) PROVE MirrorInv' /\ MemoryInv'
  <2>1. /\ next' = next + 1 /\ stamp' = [stamp EXCEPT ![next] = t] /\ next \in Nodes
        /\ UNCHANGED <<mirror, bread, clock, crumb, pc, now, rootAt, latest>>
    BY <1>1 DEF PrimaryTakes, Primary!Take, mirrorVars, processVars
  <2>2. next' \in Nat /\ next <= next' /\ \A k \in Nat : k < next => stamp'[k] = stamp[k]
    <3>1. ASSUME NEW k \in Nat, k < next PROVE stamp'[k] = stamp[k]
      <4>1. k \in Nodes /\ k # next
        BY <2>1, <3>1, Constants DEF Nodes
      <4>2. QED
        BY <1>a, <2>1, <4>1 DEF TypeOK
    <3>2. QED
      BY <1>b, <2>1, <3>1
  <2>3. ASSUME NEW c \in Crumbs, Good(c) PROVE GoodNext(c)
    <3>1. mirror' = mirror /\ latest' = latest /\ rootAt' = rootAt
      BY <2>1
    <3>2. latest' \in Nat /\ latest <= latest'
      BY <1>b, <3>1
    <3>3. QED
      BY <1>b, <2>2, <2>3, <3>1, <3>2, Frame DEF Good, GoodNext
  <2>4. QED
    BY <1>a, <1>b, <1>c, <1>d, <2>1, <2>3 DEF MirrorInv
<1>2. ASSUME NEW n \in kept, PrimaryForgets(n) PROVE MirrorInv' /\ MemoryInv'
  <2>1. UNCHANGED <<next, stamp, mirror, bread, clock, crumb, pc, now, rootAt, latest>>
    BY <1>2 DEF PrimaryForgets, Primary!Forget, mirrorVars, processVars
  <2>2. \A c : Good(c) => GoodNext(c)
    BY <2>1 DEF Good, GoodNext
  <2>3. QED
    BY <1>a, <1>b, <1>c, <1>d, <2>1, <2>2 DEF MirrorInv
<1>3. ASSUME NEW n \in kept, Sync(n) PROVE MirrorInv' /\ MemoryInv'
  <2>1. /\ mirror' = mirror \cup {n}
        /\ UNCHANGED <<next, stamp, bread, clock, crumb, pc, now, rootAt, latest>>
    BY <1>3 DEF Sync, primaryVars, processVars
  <2>2. ASSUME NEW c \in Crumbs, Good(c) PROVE GoodNext(c)
    <3>1. c.begin \in Nat /\ c.begin <= next
      BY <2>2, CrumbTypes, Constants DEF Crumbs, Good, Agrees
    <3>2. n \in Nat /\ n < next /\ Outlives(n, next - 1)
      BY <1>a, Constants DEF PrimaryInv, TypeOK, Nodes
    <3>3. n < c.begin => Outlives(n, c.begin - 1)
      BY <1>b, <3>1, <3>2, OutlivesLess
    <3>4. QED
      BY <1>b, <2>1, <2>2, <3>3, Frame DEF Good, GoodNext
  <2>3. QED
    BY <1>a, <1>b, <1>c, <1>d, <2>1, <2>2 DEF MirrorInv
<1>4. CASE StartPruning
  <2>1. /\ bread # Torn /\ pc' = "check" /\ crumb' = CrumbOf(bread) /\ now' = clock
        /\ UNCHANGED <<next, stamp, mirror, bread, clock, rootAt, latest>>
    BY <1>4 DEF StartPruning, primaryVars, mirrorVars
  <2>2. GoodNext(CrumbOf(bread')) /\ CrumbOf(bread') = crumb'
    BY <1>c, <2>1 DEF Good, GoodNext
  <2>3. MirrorInv'
    BY <1>a, <2>1, <2>2, Agreement DEF MirrorInv, GoodNext
  <2>4. Consistent(crumb)'
    BY <2>2, Agreement DEF GoodNext
  <2>5. MemoryInv'
    BY <1>a, <2>1, <2>2, <2>4 DEF MemoryInv, MirrorInv, CrumbOf, NoCrumb
  <2>6. QED
    BY <2>3, <2>5
<1>5. CASE StartFails \/ UNCHANGED vars \/ \E t \in Times : SetBack(t)
  <2>1. /\ UNCHANGED <<next, stamp, mirror, bread, crumb, pc, now, rootAt, latest>>
        /\ clock' <= clock
    BY <1>5, <1>b, Constants DEF StartFails, vars, SetBack, primaryVars, mirrorVars,
       processVars, Times
  <2>2. \A c : Good(c) => GoodNext(c)
    BY <2>1 DEF Good, GoodNext
  <2>3. clock' <= latest'
    <3>1. clock' \in Nat
      BY TypeStep, CrumbTypes, Constants DEF TypeOK, Times
    <3>2. QED
      BY <1>a, <1>b, <2>1, <3>1 DEF MirrorInv
  <2>4. QED
    BY <1>a, <1>b, <1>c, <1>d, <2>1, <2>2, <2>3
<1>6. CASE Trust \/ PruneDone
  <2>1. /\ UNCHANGED <<next, stamp, mirror, bread, clock, crumb, now, rootAt, latest>>
        /\ pc \in {"check", "prune"} /\ pc' \in {"prune", "open"}
    BY <1>6 DEF Trust, PruneDone, primaryVars, mirrorVars
  <2>2. MirrorInv' /\ Consistent(crumb)'
    <3>1. GoodNext(crumb') /\ (bread' # Torn => GoodNext(CrumbOf(bread')))
      BY <1>c, <2>1 DEF Good, GoodNext
    <3>2. QED
      BY <1>a, <2>1, <3>1, Agreement DEF MirrorInv, GoodNext
  <2>3. CrumbOf(bread)' = CrumbOf(bread)
    BY <2>1 DEF CrumbOf, NoCrumb
  <2>4. QED
    BY <1>a, <2>1, <2>2, <2>3 DEF MemoryInv
<1>7. CASE Stop \/ Crash
  BY <1>7, <1>e DEF Stop, Crash, primaryVars, mirrorVars
<1>8. ASSUME NEW v \in victims, DeleteNode(v) PROVE MirrorInv' /\ MemoryInv'
  <2>1. /\ mirror' = mirror \ {v} /\ pc = "prune"
        /\ UNCHANGED <<next, stamp, bread, clock, crumb, pc, now, rootAt, latest>>
    BY <1>8 DEF DeleteNode, primaryVars
  <2>2. ~ Outlives(v, crumb.begin)
    BY <1>a, <1>b, <2>1, CrumbTypes DEF TrustInv, Outlives
  <2>3. Good(crumb) => GoodNext(crumb)
    <3>1. \A k \in mirror : k \notin mirror' => ~ Outlives(k, crumb.begin)
      BY <2>1, <2>2
    <3>2. mirror' \ mirror = {}
      BY <2>1
    <3>3. next' \in Nat /\ next <= next' /\ latest' \in Nat /\ latest <= latest'
      BY <1>b, <2>1
    <3>4. QED
      BY <1>b, <2>1, <3>1, <3>2, <3>3, Frame DEF Good, GoodNext
  <2>4. bread # Torn => CrumbOf(bread) = crumb
    BY <1>a, <2>1 DEF MemoryInv
  <2>5. QED
    BY <1>a, <1>b, <1>c, <1>d, <2>1, <2>3, <2>4 DEF MirrorInv
<1>10. CASE OpenCrumb
  <2>1. /\ bread' = Torn /\ pc = "open" /\ pc' = "write"
        /\ UNCHANGED <<next, stamp, mirror, clock, crumb, now, rootAt, latest>>
    BY <1>10 DEF OpenCrumb, primaryVars
  <2>2. Consistent(crumb)'
    <3>1. GoodNext(crumb')
      BY <1>c, <2>1 DEF Good, GoodNext
    <3>2. QED
      BY <3>1, Agreement DEF GoodNext
  <2>3. QED
    BY <1>a, <2>1, <2>2 DEF MirrorInv, MemoryInv
<1>11. CASE WriteCrumb
  <2>1. /\ bread' = updated /\ crumb' = updated /\ pc = "write" /\ pc' = "check"
        /\ rootAt' = IF crumb.begin = 0 THEN updated.at ELSE rootAt
        /\ UNCHANGED <<next, stamp, mirror, clock, now, latest>>
    BY <1>11 DEF WriteCrumb, primaryVars
  <2>2. /\ crumb.begin \in mirror /\ updated.begin = crumb.begin + 1
        /\ Earned(updated, rootAt') /\ InOrder(updated.begin)
        /\ \A k \in mirror : k < crumb.begin => Outlives(k, crumb.begin)
    BY <1>a, <2>1 DEF TrustInv
  <2>3. GoodNext(updated)
    <3>1. updated.begin <= next
      BY <1>a, <1>b, <2>2 DEF PrimaryInv
    <3>2. \A k \in 0..(updated.begin - 1) : Outlives(k, updated.begin) => k \in mirror
      <4> SUFFICES ASSUME NEW k \in 0..(updated.begin - 1), Outlives(k, updated.begin),
                          k # crumb.begin
                   PROVE  k \in mirror
        BY <2>2
      <4>1. k \in 0..(crumb.begin - 1) /\ k \in Nat
        BY <1>b, <2>2
      <4>2. Outlives(k, crumb.begin)
        BY <1>b, <2>2, <4>1, OutlivesLess
      <4>3. QED
        BY <1>c, <2>1, <4>1, <4>2 DEF Good, Agrees
    <3>3. \A k \in mirror : k < updated.begin => Outlives(k, updated.begin - 1)
      <4> SUFFICES ASSUME NEW k \in mirror, k < updated.begin
                   PROVE  Outlives(k, crumb.begin)
        BY <1>b, <2>2
      <4>1. k \in Nat /\ (k < crumb.begin \/ k = crumb.begin)
        BY <1>b, <2>2
      <4>2. QED
        BY <2>2, <4>1, Lives
    <3>4. QED
      BY <2>1, <2>2, <3>1, <3>2, <3>3 DEF GoodNext, Agrees, Earned, InOrder
  <2>4. updated # NoFile /\ updated # Torn
    BY <1>b, Constants
  <2>5. CrumbOf(bread') = updated /\ CrumbOf(bread)' = updated
    BY <2>1, <2>4 DEF CrumbOf
  <2>6. Consistent(crumb)' /\ Consistent(CrumbOf(bread))'
    BY <2>1, <2>3, <2>5, Agreement DEF GoodNext
  <2>7. QED
    BY <1>a, <2>1, <2>4, <2>5, <2>6 DEF MirrorInv, MemoryInv
<1>13. CASE Tick
  <2>1. /\ clock' = clock + 1 /\ latest' = Larger(latest, clock + 1)
        /\ UNCHANGED <<next, stamp, mirror, bread, crumb, pc, now, rootAt>>
    BY <1>13 DEF Tick, primaryVars, mirrorVars, processVars
  <2>2. latest' \in Nat /\ latest <= latest' /\ clock' <= latest'
    BY <1>b, <2>1 DEF Larger
  <2>3. \A c \in Crumbs : Good(c) => GoodNext(c)
    BY <1>b, <2>1, <2>2, Frame DEF Good, GoodNext
  <2>4. QED
    BY <1>a, <1>b, <1>c, <1>d, <2>1, <2>2, <2>3
<1>15. QED
  BY <1>1, <1>2, <1>3, <1>4, <1>5, <1>6, <1>7, <1>8, <1>10, <1>11, <1>13
     DEF Next, PrimaryStep, PruneCommand

-----------------------------------------------------------------------------
(***************************************************************************)
(* A node is trusted for the right reasons, and from then until the        *)
(* breadcrumb says so, nothing else is in the way.                         *)
(***************************************************************************)
(* The decision itself. *)
LEMMA TrustedFairly ==
  ASSUME IInv, Trust
  PROVE  /\ Earned(Updated, IF crumb.begin = 0 THEN Updated.at ELSE rootAt)
         /\ InOrder(crumb.begin + 1)
         /\ crumb.begin # 0 => /\ stamp[crumb.begin - 1] <= stamp[crumb.begin]
                               /\ rootAt + crumb.begin * MinGap <= latest
<1>a. /\ TypeOK /\ PrimaryInv /\ MemoryInv
      /\ pc = "check" /\ crumb.begin \in mirror /\ MayTrust
  BY DEF IInv, Trust
<1>b. /\ crumb.begin \in Nat /\ crumb.at \in Nat /\ crumb.begin < next /\ MinGap \in Nat
      /\ latest \in Nat /\ now \in Nat /\ now <= latest /\ Consistent(crumb)
  BY <1>a, CrumbTypes, Constants DEF MemoryInv, PrimaryInv
<1>c. \A k \in Nat : k < next => stamp[k] \in Nat
  BY <1>a, Constants DEF TypeOK, PrimaryInv, Nodes, Times
<1>1. CASE crumb.begin = 0
  <2>1. Updated = [begin |-> 1, at |-> now]
    BY <1>1 DEF Updated
  <2>2. now \in Times
    BY <1>a DEF TypeOK
  <2>3. (1 - 1) * MinGap = 0
    BY <1>b
  <2>4. Earned(Updated, Updated.at)
    BY <1>b, <2>1, <2>2, <2>3 DEF Earned
  <2>5. InOrder(crumb.begin + 1)
    BY <1>1, <1>b, <1>c DEF InOrder
  <2>6. QED
    BY <1>1, <2>4, <2>5
<1>2. CASE crumb.begin # 0
  <2> DEFINE b == crumb.begin
  <2>1. /\ b - 1 \in Nat /\ stamp[b - 1] \in Nat /\ stamp[b] \in Nat
        /\ stamp[b - 1] <= stamp[b]
        /\ EffectiveNow >= TrustedAt /\ Candidate = stamp[b]
    <3>1. b \in Nat /\ b - 1 \in Nat /\ b < next /\ b - 1 < next
      BY <1>2, <1>a, <1>b DEF TypeOK
    <3>2. stamp[b - 1] \in Nat /\ stamp[b] \in Nat
      BY <1>c, <3>1
    <3>3. Candidate >= Previous /\ EffectiveNow >= TrustedAt
      BY <1>2, <1>a DEF MayTrust
    <3>4. QED
      BY <3>1, <3>2, <3>3 DEF Candidate, Previous
  <2>2. /\ rootAt \in Times /\ rootAt \in Nat
        /\ rootAt + (b - 1) * MinGap <= crumb.at /\ crumb.at <= latest
    BY <1>2, <1>b DEF Consistent, Earned, Times
  <2>3. TrustedAt \in Nat /\ crumb.at + MinGap <= TrustedAt /\ TrustedAt <= latest
    BY <1>b, <2>1, <2>2 DEF TrustedAt, QuarantineEnds, EffectiveNow, Larger
  <2>4. (b - 1) * MinGap + MinGap = b * MinGap /\ (b - 1) * MinGap \in Nat /\ b * MinGap \in Nat
    BY <1>b, <2>1, SMT
  <2>5. rootAt + b * MinGap <= TrustedAt
    <3> DEFINE x == (b - 1) * MinGap
               y == b * MinGap
    <3>1. x + MinGap = y /\ x \in Nat /\ y \in Nat /\ rootAt + x <= crumb.at
      BY <2>2, <2>4
    <3> HIDE DEF x, y
    <3>2. rootAt + y <= TrustedAt
      BY <1>b, <2>2, <2>3, <3>1
    <3>3. QED
      BY <3>2 DEF y
  <2>6. Updated.begin = b + 1 /\ Updated.at = TrustedAt
    BY <1>2 DEF Updated
  <2>7. Earned(Updated, rootAt)
    <3>1. Updated.begin - 1 = b
      BY <1>b, <2>6
    <3>2. QED
      BY <2>2, <2>3, <2>5, <2>6, <3>1 DEF Earned
  <2>8. InOrder(b + 1)
    <3> SUFFICES ASSUME NEW k \in 0..b, NEW j \in 0..k PROVE stamp[j] <= stamp[k]
      BY <1>b DEF InOrder
    <3>1. stamp[j] \in Nat /\ stamp[k] \in Nat
      <4>1. j \in Nat /\ k \in Nat /\ j < next /\ k < next
        BY <1>a, <1>b, CrumbTypes
      <4>2. QED
        BY <1>c, <4>1
    <3>2. \A i \in 0..(b - 1) : \A h \in 0..i : stamp[h] <= stamp[i]
      BY <1>b DEF Consistent, InOrder
    <3>3. CASE k # b
      BY <1>b, <3>2, <3>3
    <3>4. CASE k = b /\ j = b
      BY <3>1, <3>4
    <3>5. CASE k = b /\ j # b
      <4>1. stamp[j] <= stamp[b - 1]
        BY <1>b, <2>1, <3>2, <3>5
      <4>2. QED
        BY <2>1, <3>1, <3>5, <4>1
    <3>6. QED
      BY <3>3, <3>4, <3>5
  <2>9. rootAt + b * MinGap <= latest
    BY <1>b, <2>2, <2>3, <2>4, <2>5
  <2>10. QED
    BY <1>2, <2>1, <2>7, <2>8, <2>9
<1>3. QED
  BY <1>1, <1>2

LEMMA TrustStep ==
  IInv /\ [Next]_vars => TrustInv'
<1> SUFFICES ASSUME IInv, [Next]_vars PROVE TrustInv'
  OBVIOUS
<1>a. TypeOK /\ PrimaryInv /\ MemoryInv /\ TrustInv
  BY DEF IInv
<1>b. /\ crumb.begin \in Nat /\ updated.begin \in Nat
      /\ next \in Nat /\ latest \in Nat /\ now \in Nat /\ updated.at \in Nat
      /\ mirror \subseteq Nat /\ victims \subseteq Nat \ {0}
  BY <1>a, CrumbTypes
<1>1. ASSUME NEW t \in PrimaryTimes, PrimaryTakes(t) PROVE TrustInv'
  <2>1. /\ stamp' = [stamp EXCEPT ![next] = t]
        /\ UNCHANGED <<mirror, crumb, updated, victims, pc, rootAt, latest>>
    BY <1>1 DEF PrimaryTakes, Primary!Take, mirrorVars, processVars
  <2>2. pc \in {"prune", "open", "write"} => InOrder(updated.begin)'
    <3> SUFFICES ASSUME pc \in {"prune", "open", "write"},
                        NEW k \in 0..(updated.begin - 1), NEW j \in 0..k
                 PROVE  stamp'[j] <= stamp'[k]
      BY <2>1 DEF InOrder
    <3>1. updated.begin <= next
      BY <1>a, <1>b DEF TrustInv, PrimaryInv
    <3>2. j \in Nat /\ k \in Nat /\ j < next /\ k < next
      BY <1>b, <3>1
    <3>3. j \in Nodes /\ k \in Nodes
      BY <1>a, <3>2, Constants DEF TypeOK, Nodes
    <3>4. stamp'[j] = stamp[j] /\ stamp'[k] = stamp[k]
      BY <1>a, <2>1, <3>2, <3>3 DEF TypeOK
    <3>5. stamp[j] <= stamp[k]
      BY <1>a DEF TrustInv, InOrder
    <3>6. QED
      BY <3>4, <3>5
  <2>3. QED
    BY <1>a, <2>1, <2>2 DEF TrustInv, Earned
<1>2. ASSUME NEW n \in kept, PrimaryForgets(n) PROVE TrustInv'
  BY <1>a, <1>2 DEF PrimaryForgets, mirrorVars, processVars, TrustInv, Earned, InOrder
<1>3. ASSUME NEW n \in kept, Sync(n) PROVE TrustInv'
  <2>1. /\ mirror' = mirror \cup {n}
        /\ UNCHANGED <<stamp, crumb, updated, victims, pc, rootAt, latest>>
    BY <1>3 DEF Sync, primaryVars, processVars
  <2>2. n \in Nat /\ n < next /\ Outlives(n, next - 1)
    BY <1>a, Constants DEF PrimaryInv, TypeOK, Nodes
  <2>3. crumb.begin \in mirror => Outlives(n, crumb.begin)
    BY <1>a, <1>b, <2>2, OutlivesLess DEF PrimaryInv
  <2>4. QED
    BY <1>a, <2>1, <2>3 DEF TrustInv, Earned, InOrder
<1>4. CASE StartPruning \/ Stop \/ Crash
  BY <1>4 DEF StartPruning, Stop, Crash, End, TrustInv
<1>5. CASE StartFails \/ UNCHANGED vars \/ \E t \in Times : SetBack(t)
  BY <1>a, <1>5 DEF StartFails, vars, SetBack, primaryVars, mirrorVars, processVars,
     TrustInv, Earned, InOrder
<1>6. CASE Trust
  <2>1. /\ updated' = Updated /\ victims' = Pruned(crumb.begin) /\ pc' = "prune"
        /\ pc = "check" /\ crumb.begin \in mirror
        /\ UNCHANGED <<stamp, mirror, crumb, rootAt, latest>>
    BY <1>6 DEF Trust, primaryVars, mirrorVars
  <2>2. Updated.begin = crumb.begin + 1
    BY DEF Updated
  <2>3. \A v \in victims' : Demise(v) = crumb.begin
    BY <2>1 DEF Pruned
  <2>4. ASSUME NEW k \in mirror, k < crumb.begin, ~ Outlives(k, crumb.begin)
        PROVE  k \in victims'
    <3>1. Outlives(k, crumb.begin - 1)
      BY <1>a, <2>1, <2>4 DEF MemoryInv, Consistent
    <3>2. k \in 1..crumb.begin /\ Demise(k) \in Nat
      BY <1>b, <2>4, Lives DEF Outlives
    <3>3. Demise(k) = crumb.begin
      BY <1>b, <2>4, <3>1, <3>2 DEF Outlives
    <3>4. QED
      BY <2>1, <3>2, <3>3 DEF Pruned
  <2>5. Earned(updated, IF crumb.begin = 0 THEN updated.at ELSE rootAt)'
    BY <1>6, <2>1, TrustedFairly DEF Earned
  <2>6. InOrder(updated.begin)'
    BY <1>6, <2>1, <2>2, TrustedFairly DEF InOrder
  <2>7. QED
    BY <2>1, <2>2, <2>3, <2>4, <2>5, <2>6 DEF TrustInv
<1>8. ASSUME NEW v \in victims, DeleteNode(v) PROVE TrustInv'
  <2>1. /\ mirror' = mirror \ {v} /\ victims' = victims \ {v} /\ pc = "prune"
        /\ UNCHANGED <<stamp, crumb, updated, pc, rootAt, latest>>
    BY <1>8 DEF DeleteNode, primaryVars
  <2>2. v \in Nat \ {0} /\ Demise(v) = crumb.begin
    BY <1>a, <1>b, <2>1 DEF TrustInv
  <2>3. v # crumb.begin
    BY <2>2, DemiseType
  <2>4. QED
    BY <1>a, <2>1, <2>3 DEF TrustInv, Earned, InOrder
<1>9. CASE PruneDone \/ OpenCrumb
  BY <1>a, <1>9 DEF PruneDone, OpenCrumb, primaryVars, mirrorVars, TrustInv, Earned, InOrder
<1>11. CASE WriteCrumb
  BY <1>11 DEF WriteCrumb, TrustInv
<1>13. CASE Tick
  <2>1. /\ latest' = Larger(latest, clock + 1)
        /\ UNCHANGED <<stamp, mirror, crumb, updated, victims, pc, rootAt>>
    BY <1>13 DEF Tick, primaryVars, mirrorVars, processVars
  <2>2. latest' \in Nat /\ latest <= latest'
    BY <1>a, <1>b, <2>1, CrumbTypes DEF Larger
  <2>3. \A r : Earned(updated, r) => r \in Times /\ r + (updated.begin - 1) * MinGap <= updated.at
                                     /\ updated.at <= latest'
    BY <1>b, <2>2 DEF Earned
  <2>4. QED
    BY <1>a, <2>1, <2>3 DEF TrustInv, Earned, InOrder
<1>15. QED
  BY <1>1, <1>2, <1>3, <1>4, <1>5, <1>6, <1>8, <1>9, <1>11, <1>13
     DEF Next, PrimaryStep, PruneCommand

-----------------------------------------------------------------------------
(***************************************************************************)
(* The nodes that have been trusted, whatever the breadcrumb file says.    *)
(***************************************************************************)
(* A step that trusts no node lets only nodes come and go that do not       *)
(* matter, and nothing comes back: a node that the mirror lacks and the     *)
(* primary keeps has not been trusted. *)
LEMMA NothingReturns ==
  ASSUME IInv, NEW n \in kept \ mirror
  PROVE  ~ (n < trusted)
<1> SUFFICES ASSUME n < trusted PROVE FALSE
  OBVIOUS
<1>1. TypeOK /\ PrimaryInv /\ HistoryInv
  BY DEF IInv
<1>2. /\ n \in Nat /\ n < next /\ Outlives(n, next - 1) /\ next \in Nat /\ trusted \in Nat
      /\ trusted <= next
  BY <1>1, Constants DEF PrimaryInv, HistoryInv, Consistent, TypeOK, Nodes
<1>3. CASE next = trusted
  BY <1>1, <1>2, <1>3 DEF HistoryInv
<1>4. CASE next # trusted
  <2>1. trusted <= next - 1 /\ next - 1 \in Nat
    BY <1>2, <1>4
  <2>2. Outlives(n, trusted)
    BY <1>2, <2>1, OutlivesLess
  <2>3. QED
    BY <1>1, <1>2, <2>2 DEF HistoryInv, Consistent
<1>5. QED
  BY <1>3, <1>4

LEMMA HistoryStep ==
  IInv /\ [Next]_vars => HistoryInv'
<1> SUFFICES ASSUME IInv, [Next]_vars PROVE HistoryInv'
  OBVIOUS
<1>a. TypeOK /\ PrimaryInv /\ MemoryInv /\ TrustInv /\ HistoryInv /\ PrimaryInv'
  BY PrimaryStepKeeps DEF IInv
<1>b. /\ crumb \in Crumbs /\ updated \in Crumbs /\ crumb.begin \in Nat
      /\ next \in Nat /\ latest \in Nat /\ clock \in Nat /\ mirror \subseteq Nat
      /\ latest \in Times /\ trusted \in Nat /\ trusted \in 0..(MaxNode + 1)
  BY <1>a, CrumbTypes DEF TypeOK
<1> DEFINE m == [begin |-> trusted, at |-> latest]
           Whole(i) == \A k \in 0..(trusted - 1) : Outlives(k, trusted - 1) => k \in i
<1>c. m \in Crumbs /\ m.begin = trusted /\ m.at = latest
  BY <1>b DEF Crumbs
<1>d. Agrees(m, next, stamp, mirror, rootAt, latest)
  BY <1>a, Agreement DEF HistoryInv
(* A step that trusts no node. *)
<1>e. ASSUME trusted' = trusted, rootAt' = rootAt,
             next' \in Nat, next <= next', latest' \in Nat, latest <= latest',
             \A k \in Nat : k < next => stamp'[k] = stamp[k],
             \A k \in mirror : k \notin mirror' => ~ Outlives(k, trusted) /\ trusted < next,
             \A k \in mirror' \ mirror : ~ (k < trusted),
             bread' # Torn => CrumbOf(bread').begin = trusted,
             pc' # "idle" => crumb'.begin = trusted
      PROVE  HistoryInv'
  <2>1. Agrees(m, next', stamp', mirror', rootAt', latest')
    <3> HIDE DEF m
    <3>1. \A k \in mirror : k \notin mirror' => ~ Outlives(k, m.begin)
      BY <1>c, <1>e
    <3>2. \A k \in mirror' \ mirror : k < m.begin => Outlives(k, m.begin - 1)
      BY <1>c, <1>e
    <3>3. QED
      BY <1>b, <1>c, <1>d, <1>e, <3>1, <3>2, Frame
  <2>2. Consistent([begin |-> trusted, at |-> latest])'
    <3>1. trusted > 0 => rootAt' \in Nat /\ (trusted - 1) * MinGap \in Nat
      BY <1>b, <1>c, <2>1, Constants, SMT DEF Agrees, Times
    <3>2. trusted > 0 => rootAt' + (trusted - 1) * MinGap <= latest'
      BY <1>b, <1>c, <1>e, <2>1, <3>1 DEF Agrees
    <3> HIDE DEF m
    <3>3. QED
      BY <1>b, <1>c, <1>e, <2>1, <3>2 DEF Agrees, Consistent, Earned, InOrder
  <2>3. next' = trusted => Whole(mirror')
    <3>1. ASSUME next' = trusted PROVE Whole(mirror')
      <4>1. next = trusted /\ Whole(mirror)
        BY <1>a, <1>b, <1>e, <3>1 DEF HistoryInv, Consistent
      <4>2. QED
        BY <1>b, <1>e, <4>1
    <3>2. QED
      BY <3>1
  <2>4. CrumbOf(bread)' = CrumbOf(bread')
    BY DEF CrumbOf, NoCrumb
  <2>5. QED
    BY <1>e, <2>2, <2>3, <2>4 DEF HistoryInv
<1>f. (bread # Torn => CrumbOf(bread).begin = trusted) /\ (pc # "idle" => crumb.begin = trusted)
  BY <1>a DEF HistoryInv
<1> HIDE DEF m, Whole
<1>1. ASSUME NEW t \in PrimaryTimes, PrimaryTakes(t) PROVE HistoryInv'
  <2>1. /\ next' = next + 1 /\ stamp' = [stamp EXCEPT ![next] = t] /\ next \in Nodes
        /\ UNCHANGED <<mirror, bread, crumb, pc, trusted, rootAt, latest>>
    BY <1>1 DEF PrimaryTakes, Primary!Take, mirrorVars, processVars
  <2>2. ASSUME NEW k \in Nat, k < next PROVE stamp'[k] = stamp[k]
    <3>1. k \in Nodes /\ k # next
      BY <2>1, <2>2, Constants DEF Nodes
    <3>2. QED
      BY <1>a, <2>1, <3>1 DEF TypeOK
  <2>3. next' \in Nat /\ next <= next' /\ latest' \in Nat /\ latest <= latest'
    BY <1>b, <2>1
  <2>4. QED
    BY <1>e, <1>f, <2>1, <2>2, <2>3
<1>2. ASSUME NEW n \in kept, PrimaryForgets(n) PROVE HistoryInv'
  <2>1. UNCHANGED <<next, stamp, mirror, bread, crumb, pc, trusted, rootAt, latest>>
    BY <1>2 DEF PrimaryForgets, Primary!Forget, mirrorVars, processVars
  <2>2. QED
    BY <1>b, <1>e, <1>f, <2>1
<1>3. ASSUME NEW n \in kept, Sync(n) PROVE HistoryInv'
  <2>1. /\ mirror' = mirror \cup {n} /\ n \notin mirror
        /\ UNCHANGED <<next, stamp, bread, crumb, pc, trusted, rootAt, latest>>
    BY <1>3 DEF Sync, primaryVars, processVars
  <2>2. ~ (n < trusted)
    BY <2>1, NothingReturns
  <2>3. QED
    BY <1>b, <1>e, <1>f, <2>1, <2>2
<1>4. CASE StartPruning
  <2>1. /\ bread # Torn /\ crumb' = CrumbOf(bread)
        /\ UNCHANGED <<next, stamp, mirror, bread, trusted, rootAt, latest>>
    BY <1>4 DEF StartPruning, primaryVars, mirrorVars
  <2>2. QED
    BY <1>b, <1>e, <1>f, <2>1
<1>5. CASE StartFails \/ UNCHANGED vars \/ \E t \in Times : SetBack(t)
  <2>1. UNCHANGED <<next, stamp, mirror, bread, crumb, pc, trusted, rootAt, latest>>
    BY <1>5 DEF StartFails, vars, SetBack, primaryVars, mirrorVars, processVars
  <2>2. QED
    BY <1>b, <1>e, <1>f, <2>1
<1>6. CASE Trust \/ PruneDone \/ OpenCrumb
  <2>1. /\ UNCHANGED <<next, stamp, mirror, crumb, trusted, rootAt, latest>>
        /\ pc # "idle" /\ (bread' = bread \/ bread' = Torn)
    BY <1>6 DEF Trust, PruneDone, OpenCrumb, primaryVars, mirrorVars
  <2>2. QED
    BY <1>b, <1>e, <1>f, <2>1
<1>7. CASE Stop \/ Crash
  <2>1. /\ UNCHANGED <<next, stamp, mirror, bread, trusted, rootAt, latest>>
        /\ pc' = "idle"
    BY <1>7 DEF Stop, Crash, End, primaryVars, mirrorVars
  <2>2. QED
    BY <1>b, <1>e, <1>f, <2>1
<1>8. ASSUME NEW v \in victims, DeleteNode(v) PROVE HistoryInv'
  <2>1. /\ mirror' = mirror \ {v} /\ pc = "prune"
        /\ UNCHANGED <<next, stamp, bread, crumb, pc, trusted, rootAt, latest>>
    BY <1>8 DEF DeleteNode, primaryVars
  <2>2. crumb.begin = trusted /\ crumb.begin \in mirror /\ v # 0 /\ Demise(v) = crumb.begin
    BY <1>a, <1>f, <2>1, CrumbTypes DEF TrustInv
  <2>3. ~ Outlives(v, trusted) /\ trusted < next
    BY <1>a, <1>b, <2>2 DEF Outlives, PrimaryInv
  <2>4. QED
    BY <1>b, <1>e, <1>f, <2>1, <2>3
<1>11. CASE WriteCrumb
  <2>1. /\ bread' = updated /\ crumb' = updated /\ trusted' = updated.begin /\ pc = "write"
        /\ UNCHANGED <<next, mirror, latest>>
    BY <1>11 DEF WriteCrumb, primaryVars
  <2>2. updated # NoFile /\ updated # Torn /\ updated.begin = trusted + 1
    BY <1>a, <1>b, <1>f, <2>1, Constants DEF TrustInv
  <2>3. CrumbOf(bread)' = updated /\ pc' = "check"
    BY <1>11, <2>1, <2>2 DEF CrumbOf, WriteCrumb
  <2>4. Consistent(crumb)' /\ updated.begin \in Nat
    <3>1. MemoryInv'
      BY MirrorStep
    <3>2. QED
      BY <1>a, <2>3, <3>1, CrumbTypes DEF MemoryInv
  <2>5. Agrees(updated, next', stamp', mirror', rootAt', latest')
    BY <2>1, <2>4, Agreement
  <2>6. Consistent([begin |-> trusted, at |-> latest])'
    <3>1. /\ updated.at \in Nat /\ MinGap \in Nat /\ latest' \in Nat
          /\ (updated.begin > 0 => rootAt' \in Nat)
      BY <1>a, <1>b, <2>1, <2>5, CrumbTypes, Constants DEF Agrees, Times
    <3>2. updated.begin > 0 => (updated.begin - 1) * MinGap \in Nat
      BY <2>4, <3>1, SMT
    <3>3. updated.begin > 0 => rootAt' + (updated.begin - 1) * MinGap <= latest'
      BY <2>5, <3>1, <3>2 DEF Agrees
    <3>4. QED
      BY <1>b, <2>1, <2>5, <3>3 DEF Agrees, Consistent, Earned, InOrder
  <2>7. \A k \in 0..(trusted' - 1) : Outlives(k, trusted' - 1) => k \in mirror'
    <3>1. trusted' - 1 = trusted /\ trusted \in mirror
      BY <1>a, <1>b, <1>f, <2>1, <2>2 DEF TrustInv
    <3>2. \A k \in 0..(trusted - 1) : Outlives(k, trusted) => k \in mirror
      BY <1>a DEF HistoryInv, Consistent
    <3>3. QED
      BY <1>b, <2>1, <3>1, <3>2
  <2>8. QED
    BY <2>1, <2>3, <2>6, <2>7 DEF HistoryInv
<1>13. CASE Tick
  <2>1. /\ latest' = Larger(latest, clock + 1)
        /\ UNCHANGED <<next, stamp, mirror, bread, crumb, pc, trusted, rootAt>>
    BY <1>13 DEF Tick, primaryVars, mirrorVars, processVars
  <2>2. latest' \in Nat /\ latest <= latest'
    BY <1>b, <2>1 DEF Larger
  <2>3. QED
    BY <1>b, <1>e, <1>f, <2>1, <2>2
<1>15. QED
  BY <1>1, <1>2, <1>3, <1>4, <1>5, <1>6, <1>7, <1>8, <1>11, <1>13
     DEF Next, PrimaryStep, PruneCommand

-----------------------------------------------------------------------------
LEMMA InitIInv ==
  Init => IInv
<1> SUFFICES ASSUME Init PROVE IInv
  OBVIOUS
<1> USE DEF Init
<1>1. 0 \in Times /\ NoCrumb \in Crumbs /\ 0 \in 0..(MaxNode + 1)
      /\ 0 \in 0..MaxSetBacks /\ 0 \in 0..MaxCrashes
  BY Constants DEF Times
<1>2. TypeOK
  BY <1>1 DEF TypeOK, ControlStates
<1>3. PrimaryInv
  BY Constants DEF PrimaryInv, Nodes
<1>4. MirrorInv
  BY Constants DEF MirrorInv, CrumbOf, NoCrumb, Consistent, InOrder
<1>5. MemoryInv /\ TrustInv
  BY DEF MemoryInv, TrustInv
<1>6. HistoryInv
  BY Constants DEF HistoryInv, CrumbOf, NoCrumb, Consistent, InOrder
<1>7. QED
  BY <1>2, <1>3, <1>4, <1>5, <1>6 DEF IInv

LEMMA StepIInv ==
  IInv /\ [Next]_vars => IInv'
BY TypeStep, PrimaryStepKeeps, MirrorStep, TrustStep, HistoryStep DEF IInv

(* Whatever arrives on the mirror and wherever its process stops, the       *)
(* breadcrumb and the nodes agree (prune_repository(), Controller.cpp       *)
(* 469-510). *)
THEOREM Invariance == Spec => []IInv
<1>1. IInv /\ UNCHANGED vars => IInv'
  BY StepIInv
<1>2. QED
  BY InitIInv, StepIInv, <1>1, PTL DEF Spec

(* Every variable has its type; the process's breadcrumb stays within the   *)
(* nodes that were taken. *)
THEOREM MirrorTypes == Spec => []TypeOK
BY Invariance, PTL DEF IInv

(* "incoming snapshots are throttled to this rate" (README.md:92-95),       *)
(* whatever the clocks of the two machines and the order of arrival. *)
THEOREM RateIsKept == Spec => []Throttled
<1>1. IInv => Throttled
  BY Constants DEF IInv, TypeOK, HistoryInv, Consistent, Earned, Throttled
<1>2. QED
  BY Invariance, <1>1, PTL

(* No trusted node claims to be older than one trusted before it            *)
(* (maybeUpdateBreadcrumb(), Trust.cpp). *)
THEOREM TrustKeepsOrder == Spec => []TrustedInOrder
<1>1. IInv => TrustedInOrder
  BY CrumbTypes DEF IInv, HistoryInv, Consistent, InOrder, TrustedInOrder
<1>2. QED
  BY Invariance, <1>1, PTL

(* What the tree keeps of the trusted nodes is on the mirror, and nothing   *)
(* that has outlived its time (prune_repository(), Controller.cpp 469-510). *)
THEOREM TrustedKept == Spec => []KeepsTrusted
<1>1. IInv => KeepsTrusted
  BY CrumbTypes DEF IInv, HistoryInv, Consistent, KeepsTrusted
<1>2. QED
  BY Invariance, <1>1, PTL

(* A file of the mirror goes only for the sake of a node that is there, in  *)
(* order and has served its time (the order of trusting and pruning in      *)
(* prune_repository()). *)
THEOREM NothingPrunedEarly == Spec => QuarantineNeverPrunes
<1> DEFINE Earns == \A k \in mirror \ mirror' :
                      /\ k # 0 /\ Demise(k) = crumb.begin
                      /\ crumb.begin \in mirror
                      /\ stamp[crumb.begin - 1] <= stamp[crumb.begin]
                      /\ rootAt + crumb.begin * MinGap <= latest
<1>1. IInv /\ [Next]_vars => Earns
  <2> SUFFICES ASSUME IInv, [Next]_vars, NEW k \in mirror \ mirror'
               PROVE  /\ k # 0 /\ Demise(k) = crumb.begin
                      /\ crumb.begin \in mirror
                      /\ stamp[crumb.begin - 1] <= stamp[crumb.begin]
                      /\ rootAt + crumb.begin * MinGap <= latest
    OBVIOUS
  <2>1. PICK v \in victims : DeleteNode(v)
    BY DEF Next, PrimaryStep, PrimaryTakes, PrimaryForgets, Sync, StartPruning, StartFails,
       PruneCommand, Trust, Stop, PruneDone, OpenCrumb, WriteCrumb, Crash, Tick, SetBack,
       mirrorVars, vars
  <2>2. pc = "prune" /\ k \in victims
    BY <2>1 DEF DeleteNode
  <2>3. /\ k \in Nat \ {0} /\ crumb.begin \in Nat /\ updated.at \in Nat /\ latest \in Nat
    BY <2>2, CrumbTypes DEF IInv
  <2>4. /\ Demise(k) = crumb.begin /\ crumb.begin \in mirror /\ updated.begin = crumb.begin + 1
        /\ Earned(updated, IF crumb.begin = 0 THEN updated.at ELSE rootAt)
        /\ InOrder(updated.begin)
    BY <2>2 DEF IInv, TrustInv
  <2>5. crumb.begin \in Nat \ {0}
    BY <2>3, <2>4, DemiseType
  <2>6. stamp[crumb.begin - 1] <= stamp[crumb.begin]
    BY <2>4, <2>5 DEF InOrder
  <2>7. rootAt + crumb.begin * MinGap <= latest
    <3>1. updated.begin - 1 = crumb.begin
      BY <2>4, <2>5
    <3>2. /\ rootAt \in Nat /\ rootAt + crumb.begin * MinGap <= updated.at
          /\ updated.at <= latest
      BY <2>4, <2>5, <3>1 DEF Earned, Times
    <3>3. crumb.begin * MinGap \in Nat
      BY <2>5, Constants, SMT
    <3>4. QED
      BY <2>3, <3>2, <3>3
  <2>8. QED
    BY <2>3, <2>4, <2>6, <2>7
<1>2. IInv /\ [Next]_vars => [Earns]_vars
  BY <1>1
<1>3. QED
  BY Invariance, <1>2, PTL DEF Spec, QuarantineNeverPrunes
(***************************************************************************)
(* The trusted nodes of the mirror as a BackupHistory.  A victim deleted   *)
(* is a snapshot forgotten, a breadcrumb written is one taken, and nothing *)
(* else touches the history.                                               *)
(***************************************************************************)
History == {k \in mirror : k < trusted}

(* The tree of the mirror's history is the tree of the mirror. *)
LEMMA SameHistoryTree ==
  /\ \A k, n : Mirror!Outlives(k, n) <=> Outlives(k, n)
  /\ \A n : Mirror!Demise(n) = Demise(n)
BY DEF Mirror!Outlives, Outlives, Mirror!Demise, Demise, Mirror!LSB, LSB,
   Mirror!IsLSB, IsLSB, Mirror!IsPow2, IsPow2

LEMMA StepIsHistoryStep ==
  IInv /\ [Next]_vars => Mirror!Next \/ UNCHANGED Mirror!vars
<1> SUFFICES ASSUME IInv, [Next]_vars PROVE Mirror!Next \/ UNCHANGED Mirror!vars
  OBVIOUS
<1>a. TypeOK /\ TrustInv /\ HistoryInv
  BY DEF IInv
<1>b. crumb.begin \in Nat /\ mirror \subseteq Nat /\ victims \subseteq Nat \ {0} /\ trusted \in Nat
  BY <1>a, CrumbTypes DEF TypeOK
(* Copying: a node that the mirror lacks is not one of its history. *)
<1>1. ASSUME NEW n \in kept, Sync(n) PROVE UNCHANGED Mirror!vars
  <2>1. mirror' = mirror \cup {n} /\ n \in kept \ mirror /\ trusted' = trusted
    BY <1>1 DEF Sync
  <2>2. ~ (n < trusted)
    BY <2>1, NothingReturns
  <2>3. History' = History
    BY <2>1, <2>2 DEF History
  <2>4. QED
    BY <2>1, <2>3 DEF Mirror!vars, History
(* Pruning: the victims are those of the node about to be trusted. *)
<1>2. ASSUME NEW v \in victims, DeleteNode(v) PROVE Mirror!Next \/ UNCHANGED Mirror!vars
  <2>1. mirror' = mirror \ {v} /\ trusted' = trusted /\ pc = "prune"
    BY <1>2 DEF DeleteNode
  <2>2. v \in Nat \ {0} /\ Demise(v) = trusted
    BY <1>a, <1>b, <2>1 DEF TrustInv, HistoryInv
  <2>3. v < trusted
    BY <2>2, DemiseType
  <2>4. History' = History \ {v}
    BY <2>1 DEF History
  <2>5. CASE v \in mirror
    <3>1. v \in History /\ v # 0 /\ Mirror!Demise(v) = trusted
      BY <2>2, <2>3, <2>5, SameHistoryTree DEF History
    <3>2. Mirror!Forget(v)
      BY <2>1, <2>4, <3>1 DEF Mirror!Forget, History
    <3>3. QED
      BY <3>1, <3>2 DEF Mirror!Next, History
  <2>6. CASE v \notin mirror
    BY <2>1, <2>6 DEF Mirror!vars
  <2>7. QED
    BY <2>5, <2>6
(* Trusting: exactly what outlives the new node is left of the others. *)
<1>3. CASE WriteCrumb
  <2>1. /\ mirror' = mirror /\ trusted' = updated.begin /\ pc = "write"
    BY <1>3 DEF WriteCrumb
  <2>2. /\ crumb.begin = trusted /\ updated.begin = trusted + 1
        /\ trusted \in mirror /\ victims = {}
    BY <1>a, <2>1 DEF TrustInv, HistoryInv
  <2>3. ASSUME NEW k \in History PROVE k \in 0..(trusted - 1) /\ Outlives(k, trusted)
    <3>1. k \in mirror /\ k < trusted /\ k \in Nat
      BY <1>b DEF History
    <3>2. Outlives(k, trusted)
      BY <1>a, <2>1, <2>2, <3>1 DEF TrustInv
    <3>3. QED
      BY <1>b, <3>1, <3>2
  <2>4. ASSUME NEW k \in 0..(trusted - 1), Outlives(k, trusted) PROVE k \in History
    <3>1. \A j \in 0..(trusted - 1) : Outlives(j, trusted) => j \in mirror
      BY <1>a DEF HistoryInv, Consistent
    <3>2. k < trusted
      BY <1>b
    <3>3. QED
      BY <2>4, <3>1, <3>2 DEF History
  <2>5. History = {k \in 0..(trusted - 1) : Mirror!Outlives(k, trusted)}
    BY <2>3, <2>4, SameHistoryTree
  <2>6. History' = History \cup {trusted}
    <3>1. mirror' = mirror /\ trusted' = trusted + 1
      BY <2>1, <2>2
    <3>2. \A k \in mirror : k < trusted + 1 <=> k < trusted \/ k = trusted
      BY <1>b
    <3>3. QED
      BY <2>2, <3>1, <3>2 DEF History
  <2>7. Mirror!Take
    BY <2>1, <2>2, <2>5, <2>6 DEF Mirror!Take, History
  <2>8. QED
    BY <2>7 DEF Mirror!Next
(* Every other step leaves the trusted nodes alone. *)
<1>4. ASSUME mirror' = mirror, trusted' = trusted PROVE UNCHANGED Mirror!vars
  BY <1>4 DEF Mirror!vars
<1>5. CASE \/ PrimaryStep \/ StartPruning \/ StartFails \/ Trust \/ Stop \/ PruneDone
           \/ OpenCrumb \/ Crash \/ Tick \/ (\E t \in Times : SetBack(t)) \/ UNCHANGED vars
  BY <1>4, <1>5 DEF PrimaryStep, PrimaryTakes, PrimaryForgets, StartPruning, StartFails,
     Trust, Stop, PruneDone, OpenCrumb, Crash, Tick, SetBack, vars, mirrorVars
<1>6. QED
  BY <1>1, <1>2, <1>3, <1>5 DEF Next, PruneCommand

(* The mirror keeps a history of its own, and what it has forgotten stays   *)
(* forgotten (prune_repository(), Controller.cpp 469-510), as what the      *)
(* primary does must not matter (README.md:84-86). *)
THEOREM MirrorImplements == Spec => MirrorIsHistory
<1>1. Init => Mirror!Init
  BY DEF Init, Mirror!Init
<1>2. IInv /\ [Next]_vars => [Mirror!Next]_Mirror!vars
  BY StepIsHistoryStep
<1>3. QED
  BY Invariance, <1>1, <1>2, PTL DEF Spec, Mirror!Spec, MirrorIsHistory

(***************************************************************************)
(* The Init of NodeSelection, on a mirror: of the nodes that the           *)
(* breadcrumb names as trusted, there is what may be left of those alive   *)
(* after the last one, whenever the pruning stopped and whatever was       *)
(* copied (getNodeRelativeToLastTrusted(), RepositoryStructure.cpp:392-     *)
(* 422).                                                                   *)
(***************************************************************************)
Selectable(begin) == begin # 0 => {k \in mirror : k < begin} \in LeftAfter(begin - 1)

THEOREM MirrorSelectable == Spec => [](bread # Torn => Selectable(CrumbOf(bread).begin))
<1>1. ASSUME IInv, bread # Torn PROVE Selectable(CrumbOf(bread).begin)
  <2> SUFFICES ASSUME trusted # 0 PROVE History \in LeftAfter(trusted - 1)
    BY <1>1 DEF Selectable, IInv, HistoryInv, History
  <2>1. TypeOK /\ HistoryInv
    BY <1>1 DEF IInv
  <2>2. trusted \in Nat /\ trusted - 1 \in Nat /\ trusted - 1 + 1 = trusted /\ mirror \subseteq Nat
    BY <2>1, CrumbTypes, Constants DEF TypeOK
  <2>3. /\ \A k \in 0..(trusted - 1) : Outlives(k, trusted) => k \in mirror
        /\ \A k \in mirror : k < trusted => Outlives(k, trusted - 1)
    BY <2>1 DEF HistoryInv, Consistent
  <2>4. ASSUME NEW k \in History PROVE k \in 0..(trusted - 1) /\ Outlives(k, trusted - 1)
    <3>1. k \in mirror /\ k < trusted /\ k \in Nat
      BY <2>2 DEF History
    <3>2. QED
      BY <2>2, <2>3, <3>1
  <2>5. ASSUME NEW k \in 0..(trusted - 1), Outlives(k, trusted) PROVE k \in History
    <3>1. k < trusted
      BY <2>2
    <3>2. QED
      BY <2>3, <2>5, <3>1 DEF History
  <2>6. QED
    BY <2>2, <2>4, <2>5, LeftAfterIs
<1>2. QED
  BY <1>1, Invariance, PTL
=============================================================================
