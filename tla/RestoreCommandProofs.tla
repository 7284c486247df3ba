------------------------ MODULE RestoreCommandProofs ------------------------
(***************************************************************************)
(* What a restore and an export that report success have done.             *)
(*                                                                         *)
(* The dataset is the hard part: each stream received takes the snapshots  *)
(* after its base away, and some of them may be what an earlier step of    *)
(* the same command received or found there.  That none is ever missed     *)
(* follows from the order in which the snapshots lie in the dataset        *)
(* (InOrder) and from the order in which a path is gone through            *)
(* (PathSteps of FenwickTreeProofs).                                       *)
(***************************************************************************)
EXTENDS RestoreCommand, FenwickTreeProofs, SequenceTheorems, FiniteSetTheorems

(* The snapshots of the dataset lie in the order of their guids, though the *)
(* commands go back and forth: before a node's snapshot there are only      *)
(* those of smaller nodes, and whatever else is newer than all of them.     *)
(* Only the repository's own snapshots have guids up to Last.               *)
InOrder ==
  /\ fresh > Last
  /\ \A i \in DOMAIN history :
       /\ history[i].guid < fresh
       /\ history[i].guid <= Last => history[i] = Original(history[i].guid)
       /\ \A j \in DOMAIN history : i < j => history[i].guid < history[j].guid

(* What a command has to do, and where it is. *)
Working ==
  pc # "idle" =>
    /\ result = "none"
    /\ pc # "node" => Current \in ids
    /\ IF mode = "restore"
         THEN /\ wanted \in Wanted /\ todo \subseteq Path(wanted)
              /\ pc \notin {"import", "store"}
         ELSE todo \subseteq Exportable

(* What a restore has behind it is in the dataset, and once it has received *)
(* a stream the dataset is at the last node behind it.                      *)
Behind == Path(wanted) \ todo

Replayed ==
  pc # "idle" /\ mode = "restore" /\ ~ disturbed =>
    /\ \A k \in Behind : Here(Original(k)) /\ \A j \in todo : k < j
    /\ received => \E k \in Behind : /\ Latest(Original(k)) /\ ~ dirty
                                     /\ \A j \in Behind : j <= k

(* The name of a node that a restore is bringing was free when it looked.   *)
Vacant ==
  pc \in {"open", "receive"} /\ mode = "restore" /\ ~ disturbed =>
    ~ NameTaken(<<"source", Current>>)

(* What an export has behind it is in the target. *)
Copy(n) == [from |-> IF n = 0 THEN Nothing ELSE Parent(n), to |-> n]

Filled ==
  /\ \A n \in Nodes : target[n] # Nothing => n \in Exportable
  /\ pc = "store" => target[Current] = Nothing
  /\ pc # "idle" /\ mode # "restore" => \A n \in Exportable \ todo : target[n] # Nothing
  /\ pc # "idle" /\ mode = "adopt" =>
       /\ pc = "store" => imported = Original(Current)
       /\ \A n \in Exportable \ todo : target[n] = Copy(n)
       /\ 0 \notin todo => \A n \in todo : target[n] = Nothing

IInv == /\ TypeOK /\ InOrder /\ Working /\ Replayed /\ Vacant /\ Filled
        /\ RestoreReaches /\ TargetIsPrefix /\ ExportCopies
-----------------------------------------------------------------------------
(* What TypeOK says of the parts, in the form the proofs use. *)
LEMMA Parts ==
  ASSUME TypeOK
  PROVE  /\ Last \in Nat /\ Nodes \subseteq Nat
         /\ Len(history) \in Nat /\ DOMAIN history = 1..Len(history)
         /\ \A i \in DOMAIN history : history[i] \in Snapshots /\ history[i].guid \in Nat
         /\ fresh \in Nat /\ wanted \in Nat
         /\ todo \subseteq Nat /\ Exportable \subseteq Nodes
<1>1. Last \in Nat /\ Nodes \subseteq Nat /\ Wanted \subseteq Nat
  BY RestoreAssumption DEF Nodes
<1>2. Len(history) \in Nat /\ DOMAIN history = 1..Len(history)
      /\ \A i \in 1..Len(history) : history[i] \in Snapshots
  BY LenProperties, ElementOfSeq DEF TypeOK
<1>3. \A i \in DOMAIN history : history[i].guid \in Nat
  BY <1>2 DEF Snapshots
<1>4. wanted \in Nat /\ todo \subseteq Nat
  BY <1>1 DEF TypeOK
<1>5. Exportable \subseteq Nodes
  BY DEF TypeOK, Exportable
<1>6. QED
  BY <1>1, <1>2, <1>3, <1>4, <1>5 DEF TypeOK

(* The loop of restore() takes the least node that is left.                 *)
LEMMA CurrentIs ==
  ASSUME TypeOK, todo # {}
  PROVE  Current \in todo /\ Current \in Nat /\ \A k \in todo : Current <= k
<1>1. todo \in SUBSET Nat
  BY Parts
<1>2. \E n \in todo : \A k \in todo : n <= k
  BY <1>1, LeastElement
<1>3. QED
  BY <1>1, <1>2 DEF Current

(* A record that names a stream is not the absence of one. *)
LEMMA StoredIs ==
  ASSUME TypeOK, NEW n \in Nodes, target[n] # Nothing
  PROVE  target[n] \in [from : Nat \cup {Nothing}, to : Nat]
BY DEF TypeOK

LEMMA CopyIs ==
  ASSUME NEW n \in Nat
  PROVE  Copy(n) \in [from : Nat \cup {Nothing}, to : Nat] /\ Copy(n) # Nothing
BY ParentType, RestoreAssumption DEF Copy

(* Where a node is, its parent is, and both can be exported. *)
LEMMA ExportableClosed ==
  ASSUME TypeOK, NEW n \in Exportable
  PROVE  /\ n \in Nodes /\ Parent(n) \in Exportable /\ 0 \in Exportable
         /\ n # 0 => Parent(n) < n
<1>1. n \in Nat /\ n \in Nodes
  BY Parts
<1>2. 0 \in Path(n) /\ Parent(n) \in Path(n)
  BY <1>1, PathType, PathSteps DEF Parent
<1>3. Path(0) \subseteq Path(n) /\ Path(Parent(n)) \subseteq Path(n)
  BY <1>1, <1>2, PathNested
<1>4. QED
  BY <1>1, <1>2, <1>3, ParentType DEF Exportable

(* zfs receive -F leaves what is up to the base, and adds the node. *)
LEMMA ReceivedIs ==
  ASSUME TypeOK, Working, Receive
  PROVE  /\ Current \in Nodes
         /\ history' \in Seq(Snapshots)
         /\ \E p \in 0..Len(history) :
              /\ DOMAIN history' = 1..(p + 1) /\ Len(history') = p + 1
              /\ \A i \in 1..p : history'[i] = history[i]
              /\ history'[p + 1] = Original(Current)
              /\ IF Current = 0 THEN p = 0
                                ELSE p # 0 /\ history[p] = Original(Parent(Current))
<1>1. Current \in Nodes /\ Original(Current) \in Snapshots
  BY Parts DEF Working, Receive, TypeOK, Original, Snapshot, Snapshots, Names
<1>2. ASSUME NEW p \in 0..Len(history), Base \in Seq(Snapshots), Len(Base) = p,
             \A i \in 1..p : Base[i] = history[i],
             IF Current = 0 THEN p = 0
                            ELSE p # 0 /\ history[p] = Original(Parent(Current))
      PROVE  /\ history' \in Seq(Snapshots)
             /\ \E q \in 0..Len(history) :
                  /\ DOMAIN history' = 1..(q + 1) /\ Len(history') = q + 1
                  /\ \A i \in 1..q : history'[i] = history[i]
                  /\ history'[q + 1] = Original(Current)
                  /\ IF Current = 0 THEN q = 0
                                    ELSE q # 0 /\ history[q] = Original(Parent(Current))
  <2>1. history' = Append(Base, Original(Current))
    BY DEF Receive
  <2>2. /\ history' \in Seq(Snapshots) /\ Len(history') = p + 1
        /\ \A i \in 1..p : history'[i] = Base[i]
        /\ history'[p + 1] = Original(Current)
    BY <1>1, <1>2, <2>1, AppendProperties
  <2>3. DOMAIN history' = 1..(p + 1)
    BY <2>2, LenProperties
  <2>4. QED
    BY <1>2, <2>2, <2>3
<1>3. CASE Current = 0
  <2>1. Base = << >>
    BY <1>3 DEF Base
  <2>2. 0 \in 0..Len(history)
    BY Parts
  <2>3. QED
    BY <1>1, <1>2, <1>3, <2>1, <2>2, EmptySeq
<1>4. CASE Current # 0
  <2> DEFINE p == Position(Original(Parent(Current)))
  <2>1. p \in DOMAIN history /\ history[p] = Original(Parent(Current))
    BY <1>4 DEF Receive, CanReceive, Here, Position
  <2>2. Base = SubSeq(history, 1, p)
    BY <1>4 DEF Base
  <2>3. p \in 1..Len(history)
    BY <2>1, Parts
  <2>4. \A i \in 1..p : history[i] \in Snapshots
    BY <2>3, Parts
  <2> HIDE DEF p
  <2>5. Base \in Seq(Snapshots) /\ Len(Base) = p /\ \A i \in 1..p : Base[i] = history[i]
    BY <2>2, <2>3, <2>4, SubSeqProperties, Parts
  <2>6. QED
    BY <1>1, <1>2, <1>4, <2>1, <2>3, <2>5, Parts
<1>5. QED
  BY <1>3, <1>4

(* A snapshot taken, by the user or by an import, is the newest. *)
LEMMA AppendedIs ==
  ASSUME TypeOK, NEW s \in Snapshots, history' = Append(history, s)
  PROVE  /\ history' \in Seq(Snapshots)
         /\ DOMAIN history' = 1..(Len(history) + 1)
         /\ \A i \in 1..Len(history) : history'[i] = history[i]
         /\ history'[Len(history) + 1] = s
<1>1. history \in Seq(Snapshots)
  BY DEF TypeOK
<1>2. /\ history' \in Seq(Snapshots) /\ Len(history') = Len(history) + 1
      /\ \A i \in 1..Len(history) : history'[i] = history[i]
      /\ history'[Len(history) + 1] = s
  BY <1>1, AppendProperties
<1>3. QED
  BY <1>2, LenProperties

(* A snapshot destroyed leaves the others in their order. *)
LEMMA DestroyedIs ==
  ASSUME TypeOK, NEW i \in DOMAIN history, UserDestroys(i)
  PROVE  /\ history' \in Seq(Snapshots)
         /\ DOMAIN history' = 1..(Len(history) - 1)
         /\ \A j \in DOMAIN history' :
              history'[j] = IF j < i THEN history[j] ELSE history[j + 1]
<1> DEFINE n == Len(history)
           a == SubSeq(history, 1, i - 1)
           b == SubSeq(history, i + 1, n)
<1>1. n \in Nat /\ i \in 1..n /\ \A j \in 1..n : history[j] \in Snapshots
  BY Parts
<1>2. history' = a \o b
  BY DEF UserDestroys
<1> HIDE DEF n
<1>3. a \in Seq(Snapshots) /\ Len(a) = i - 1 /\ \A j \in 1..(i - 1) : a[j] = history[j]
  BY <1>1, SubSeqProperties
<1>4. b \in Seq(Snapshots) /\ Len(b) = n - i /\ \A j \in 1..(n - i) : b[j] = history[i + j]
  BY <1>1, SubSeqProperties
<1> HIDE DEF a, b
<1>5. /\ history' \in Seq(Snapshots) /\ Len(history') = n - 1
      /\ \A j \in 1..(n - 1) : history'[j] = IF j <= i - 1 THEN a[j] ELSE b[j - (i - 1)]
  BY <1>1, <1>2, <1>3, <1>4, ConcatProperties
<1>6. DOMAIN history' = 1..(n - 1)
  BY <1>5, LenProperties
<1>7. ASSUME NEW j \in 1..(n - 1)
      PROVE  history'[j] = IF j < i THEN history[j] ELSE history[j + 1]
  <2>1. CASE j < i
    BY <1>1, <1>3, <1>5, <2>1
  <2>2. CASE ~ (j < i)
    <3>1. j - (i - 1) \in 1..(n - i) /\ i + (j - (i - 1)) = j + 1
      BY <1>1, <2>2
    <3>2. QED
      BY <1>1, <1>4, <1>5, <2>2, <3>1
  <2>3. QED
    BY <2>1, <2>2
<1>8. QED
  BY <1>5, <1>6, <1>7 DEF n

-----------------------------------------------------------------------------
(* Types. *)
LEMMA InitTypes == Init => TypeOK
<1> SUFFICES ASSUME Init PROVE TypeOK
  OBVIOUS
<1>1. Last \in Nat /\ Nodes \subseteq Nat /\ 0..Last = Nodes
  BY RestoreAssumption DEF Nodes
<1>2. \A i \in 1..(Last + 1) : Original(i - 1) \in Snapshots
  BY <1>1 DEF Original, Snapshot, Snapshots, Names
<1>3. [i \in 1..(Last + 1) |-> Original(i - 1)] \in [1..(Last + 1) -> Snapshots]
  BY <1>2
<1>4. [1..(Last + 1) -> Snapshots] \subseteq Seq(Snapshots)
  BY <1>1, SeqDef
<1>5. history \in Seq(Snapshots)
  BY <1>3, <1>4, EmptySeq DEF Init
<1>6. dirs \subseteq Nodes /\ ids \subseteq dirs /\ payloads \subseteq dirs
  BY <1>1 DEF Init, LeftAfter, AliveAfter
<1>i. dirty = FALSE /\ fresh = Last + 1 /\ pc = "idle" /\ wanted = 0 /\ todo = {}
  BY DEF Init
<1>7. /\ dirty \in BOOLEAN /\ pc \in ControlStates
      /\ pc \notin {"idle", "node"} => todo # {}
      /\ pc = "store" => imported # Nothing
  BY <1>i DEF ControlStates
<1>w. fresh \in Nat /\ wanted \in Wanted \cup 0..Last /\ todo \subseteq 0..wanted
  BY <1>1, <1>i
<1>8. /\ target \in [Nodes -> [from : Nat \cup {Nothing}, to : Nat] \cup {Nothing}]
      /\ mode \in {"restore", "adopt", "create"}
      /\ imported \in Snapshots \cup {Nothing}
      /\ result \in {"none", "restored", "exported", "failed"}
      /\ received \in BOOLEAN /\ disturbed \in BOOLEAN
  BY DEF Init
<1>9. faults \in 0..MaxFaults /\ crashes \in 0..MaxCrashes /\ meddled \in 0..MaxMeddling
  BY RestoreAssumption DEF Init
<1>10. QED
  BY <1>5, <1>6, <1>7, <1>w, <1>8, <1>9 DEF TypeOK

LEMMA TypeStep ==
  ASSUME TypeOK, Working, [Next]_vars
  PROVE  TypeOK'
<1> USE DEF TypeOK, ControlStates, repoVars, datasetVars, commandVars, boundVars
<1>a. /\ Last \in Nat /\ Nodes = 0..Last /\ Wanted \subseteq Nat
      /\ MaxFaults \in Nat /\ MaxCrashes \in Nat /\ MaxMeddling \in Nat
  BY RestoreAssumption DEF Nodes
<1>b. todo # {} => Current \in todo
  BY CurrentIs
<1>1. ASSUME NEW n \in Wanted, StartRestore(n)
      PROVE  TypeOK'
  BY <1>1, <1>a, PathType DEF StartRestore, Begin
<1>2. ASSUME NEW m \in {"adopt", "create"}, StartExport(m)
      PROVE  TypeOK'
  <2>1. Exportable \subseteq 0..Last
    BY <1>a, Parts
  <2>2. mode' \in {"restore", "adopt", "create"} /\ pc' = "node"
        /\ wanted' = Last /\ todo' = Exportable
    BY <1>2 DEF StartExport, Begin
  <2>3. wanted' \in 0..Last /\ todo' \subseteq 0..wanted'
    BY <1>a, <2>1, <2>2
  <2>4. QED
    BY <1>2, <2>2, <2>3 DEF StartExport, Begin
<1>3. CASE Succeeds
  BY <1>3 DEF Succeeds, Ends
<1>4. CASE Skip
  BY <1>4, <1>b DEF Skip
<1>5. CASE Needs
  BY <1>5 DEF Needs
<1>6. CASE NodeFails
  BY <1>6 DEF NodeFails, Ends
<1>7. CASE Open
  BY <1>7 DEF Open
<1>8. CASE OpenFails
  BY <1>8 DEF OpenFails, Ends
<1>9. CASE Receive
  <2>1. history' \in Seq(Snapshots)
    BY <1>9, ReceivedIs
  <2>2. QED
    BY <1>9, <2>1 DEF Receive
<1>10. CASE ReceiveFails
  BY <1>10, <1>a DEF ReceiveFails, Ends, ZfsFails
<1>11. CASE Adopt
  <2>1. Current \in Nodes
    BY <1>11, Parts DEF Adopt, Working
  <2>2. Original(Current) \in Snapshots
    BY <1>a, <2>1 DEF Original, Snapshot, Snapshots, Names
  <2>3. Original(Current) # Nothing
    BY <2>2, RestoreAssumption
  <2>4. QED
    BY <1>11, <2>2, <2>3 DEF Adopt
<1>12. CASE Create
  <2>1. CASE NameTaken(<<"target", Current>>)
    <3>1. imported' \in Snapshots
      BY <1>12, <2>1, Parts DEF Create
    <3>2. QED
      BY <1>12, <2>1, <3>1, RestoreAssumption DEF Create
  <2>2. CASE ~ NameTaken(<<"target", Current>>)
    <3>1. Current \in Nodes
      BY <1>12, Parts DEF Create, Working
    <3>2. Snapshot("target", Current, fresh) \in Snapshots
      BY <3>1 DEF Snapshot, Snapshots, Names
    <3>3. history' \in Seq(Snapshots)
      BY <1>12, <2>2, <3>2, AppendedIs DEF Create
    <3>4. imported' \in Snapshots /\ imported' # Nothing
      BY <1>12, <2>2, <3>2, RestoreAssumption DEF Create
    <3>5. dirty' = FALSE /\ fresh' = fresh + 1 /\ pc' = "store" /\ pc = "import"
          /\ UNCHANGED <<repoVars, target, mode, wanted, todo, received, result, boundVars>>
      BY <1>12, <2>2 DEF Create
    <3>6. dirty' \in BOOLEAN
      BY <3>5
    <3>7. fresh' \in Nat /\ todo # {}
      BY <3>5
    <3>8. QED
      BY <3>3, <3>4, <3>5, <3>6, <3>7
  <2>3. QED
    BY <2>1, <2>2
<1>13. CASE Store
  <2>1. Current \in Nodes /\ Current \in Exportable
    BY <1>13, <1>b, Parts DEF Store, Working
  <2>2. imported \in Snapshots /\ imported.guid \in Nat
    BY <1>13 DEF Store, Snapshots
  <2>3. Current # 0 => ParentStored.guid \in Nat
    <3>1. Current # 0 => target[Parent(Current)] \in [from : Nat \cup {Nothing}, to : Nat]
      BY <1>13, <2>1, ExportableClosed, StoredIs DEF Store, CanStore
    <3>2. QED
      BY <3>1 DEF ParentStored, Snapshot
  <2>4. target' \in [Nodes -> [from : Nat \cup {Nothing}, to : Nat] \cup {Nothing}]
    BY <1>13, <2>1, <2>2, <2>3 DEF Store
  <2>5. QED
    BY <1>13, <2>4 DEF Store
<1>14. CASE ImportFails
  BY <1>14, <1>a DEF ImportFails, Ends, ZfsFails
<1>15. CASE UserWrites
  BY <1>15, <1>a DEF UserWrites, UserActs
<1>16. ASSUME NEW n \in Nodes, UserTakes(n)
       PROVE  TypeOK'
  <2>1. Snapshot("source", n, fresh) \in Snapshots
    BY DEF Snapshot, Snapshots, Names
  <2>2. history' \in Seq(Snapshots)
    BY <1>16, <2>1, AppendedIs DEF UserTakes
  <2>3. dirty' = FALSE /\ fresh' = fresh + 1 /\ UserActs
    BY <1>16 DEF UserTakes
  <2>4. dirty' \in BOOLEAN
    BY <2>3
  <2>5. fresh' \in Nat
    BY <2>3
  <2>6. QED
    BY <1>a, <2>2, <2>3, <2>4, <2>5 DEF UserActs
<1>17. ASSUME NEW i \in DOMAIN history, UserDestroys(i)
       PROVE  TypeOK'
  <2>1. history' \in Seq(Snapshots)
    BY <1>17, DestroyedIs
  <2>2. dirty' \in BOOLEAN
    BY <1>17 DEF UserDestroys
  <2>3. QED
    BY <1>17, <1>a, <2>1, <2>2 DEF UserDestroys, UserActs
<1>18. CASE Crash
  BY <1>18, <1>a DEF Crash, Ends
<1>19. CASE UNCHANGED vars
  BY <1>19 DEF vars
<1>20. QED
  BY <1>1, <1>2, <1>3, <1>4, <1>5, <1>6, <1>7, <1>8, <1>9, <1>10, <1>11, <1>12, <1>13,
     <1>14, <1>15, <1>16, <1>17, <1>18, <1>19 DEF Next, Command, User

-----------------------------------------------------------------------------
(* The order of the snapshots. *)
LEMMA InitOrder == Init => InOrder
<1> SUFFICES ASSUME Init PROVE InOrder
  OBVIOUS
<1>1. Last \in Nat /\ fresh = Last + 1
  BY RestoreAssumption DEF Init
<1>2. CASE history = << >>
  BY <1>1, <1>2 DEF InOrder
<1>3. CASE history = [i \in 1..(Last + 1) |-> Original(i - 1)]
  <2>1. /\ DOMAIN history = 1..(Last + 1)
        /\ \A i \in 1..(Last + 1) : history[i] = Original(i - 1) /\ history[i].guid = i - 1
    BY <1>3 DEF Original, Snapshot
  <2>2. QED
    BY <1>1, <2>1 DEF InOrder
<1>4. QED
  BY <1>2, <1>3 DEF Init

LEMMA OrderAppended ==
  ASSUME TypeOK, InOrder, NEW s \in Snapshots, s.guid = fresh,
         history' = Append(history, s), fresh' = fresh + 1
  PROVE  InOrder'
<1>1. /\ Len(history) \in Nat /\ DOMAIN history = 1..Len(history)
      /\ \A i \in DOMAIN history : history[i].guid \in Nat
      /\ fresh \in Nat /\ Last \in Nat
  BY Parts
<1>2. /\ DOMAIN history' = 1..(Len(history) + 1)
      /\ \A i \in 1..Len(history) : history'[i] = history[i]
      /\ history'[Len(history) + 1] = s
  BY AppendedIs
<1>3. ASSUME NEW i \in DOMAIN history'
      PROVE  /\ history'[i].guid < fresh'
             /\ history'[i].guid <= Last => history'[i] = Original(history'[i].guid)
  BY <1>1, <1>2 DEF InOrder
<1>4. ASSUME NEW i \in DOMAIN history', NEW j \in DOMAIN history', i < j
      PROVE  history'[i].guid < history'[j].guid
  BY <1>1, <1>2, <1>4 DEF InOrder
<1>5. QED
  BY <1>1, <1>3, <1>4 DEF InOrder

(* What lies below a difference's base is smaller than the base, and the    *)
(* base smaller than the node.                                              *)
LEMMA OrderReceived ==
  ASSUME TypeOK, InOrder, Working, Receive
  PROVE  InOrder'
<1>1. /\ Len(history) \in Nat /\ DOMAIN history = 1..Len(history)
      /\ \A i \in DOMAIN history : history[i].guid \in Nat
      /\ fresh \in Nat /\ Last \in Nat /\ Nodes = 0..Last
  BY Parts DEF Nodes
<1>2. PICK p \in 0..Len(history) :
        /\ DOMAIN history' = 1..(p + 1)
        /\ \A i \in 1..p : history'[i] = history[i]
        /\ history'[p + 1] = Original(Current)
        /\ IF Current = 0 THEN p = 0
                          ELSE p # 0 /\ history[p] = Original(Parent(Current))
  BY ReceivedIs
<1>3. Current \in Nodes /\ Original(Current).guid = Current /\ fresh' = fresh
  BY ReceivedIs DEF Receive, Original, Snapshot
<1>4. ASSUME NEW i \in 1..p
      PROVE  history[i].guid < Current
  <2>1. Current # 0 /\ p \in DOMAIN history /\ i \in DOMAIN history /\ Current \in Nat
    BY <1>1, <1>2, <1>3
  <2>2. history[p].guid = Parent(Current) /\ Parent(Current) < Current
        /\ Parent(Current) \in Nat
    BY <1>2, <2>1, ParentType DEF Original, Snapshot
  <2>3. i = p \/ history[i].guid < history[p].guid
    BY <2>1 DEF InOrder
  <2>4. QED
    BY <1>1, <2>1, <2>2, <2>3
<1>5. ASSUME NEW i \in DOMAIN history'
      PROVE  /\ history'[i].guid < fresh'
             /\ history'[i].guid <= Last => history'[i] = Original(history'[i].guid)
  BY <1>1, <1>2, <1>3 DEF InOrder
<1>6. ASSUME NEW i \in DOMAIN history', NEW j \in DOMAIN history', i < j
      PROVE  history'[i].guid < history'[j].guid
  <2>1. CASE j = p + 1
    BY <1>2, <1>3, <1>4, <1>6, <2>1
  <2>2. CASE j # p + 1
    BY <1>1, <1>2, <1>6, <2>2 DEF InOrder
  <2>3. QED
    BY <2>1, <2>2
<1>7. QED
  BY <1>3, <1>5, <1>6 DEF InOrder

LEMMA OrderDestroyed ==
  ASSUME TypeOK, InOrder, NEW i \in DOMAIN history, UserDestroys(i)
  PROVE  InOrder'
<1>1. Len(history) \in Nat /\ DOMAIN history = 1..Len(history) /\ fresh' = fresh
  BY Parts DEF UserDestroys
<1>2. /\ DOMAIN history' = 1..(Len(history) - 1)
      /\ \A j \in DOMAIN history' :
           history'[j] = IF j < i THEN history[j] ELSE history[j + 1]
  BY DestroyedIs
<1> DEFINE from(j) == IF j < i THEN j ELSE j + 1
<1>3. \A j \in DOMAIN history' : from(j) \in DOMAIN history /\ history'[j] = history[from(j)]
  BY <1>1, <1>2
<1>4. \A j, k \in DOMAIN history' : j < k => from(j) < from(k)
  BY <1>1, <1>2
<1> HIDE DEF from
<1>5. QED
  BY <1>1, <1>3, <1>4 DEF InOrder

LEMMA OrderStep ==
  ASSUME TypeOK, Working, InOrder, [Next]_vars
  PROVE  InOrder'
<1>1. CASE UNCHANGED <<history, fresh>>
  BY <1>1 DEF InOrder
<1>2. CASE Receive
  BY <1>2, OrderReceived
<1>3. CASE Create /\ ~ UNCHANGED <<history, fresh>>
  <2>1. Current \in Nodes
    BY <1>3, Parts, CurrentIs DEF Create, Working, TypeOK
  <2>2. /\ Snapshot("target", Current, fresh) \in Snapshots
        /\ Snapshot("target", Current, fresh).guid = fresh
    BY <2>1 DEF TypeOK, Snapshot, Snapshots, Names
  <2>3. /\ history' = Append(history, Snapshot("target", Current, fresh))
        /\ fresh' = fresh + 1
    BY <1>3 DEF Create, datasetVars
  <2>4. QED
    BY <2>2, <2>3, OrderAppended
<1>4. ASSUME NEW n \in Nodes, UserTakes(n)
      PROVE  InOrder'
  <2>1. /\ Snapshot("source", n, fresh) \in Snapshots
        /\ Snapshot("source", n, fresh).guid = fresh
    BY DEF TypeOK, Snapshot, Snapshots, Names
  <2>2. QED
    BY <1>4, <2>1, OrderAppended DEF UserTakes
<1>5. ASSUME NEW i \in DOMAIN history, UserDestroys(i)
      PROVE  InOrder'
  BY <1>5, OrderDestroyed
<1>6. QED
  BY <1>1, <1>2, <1>3, <1>4, <1>5 DEF Next, Command, User, vars, datasetVars, StartRestore,
     StartExport, Begin, Succeeds, Skip, Needs, NodeFails, Open, OpenFails, ReceiveFails,
     Adopt, Store, ImportFails, UserWrites, Crash

-----------------------------------------------------------------------------
(* What a command is about to do. *)
LEMMA WorkingStep ==
  ASSUME TypeOK, Working, [Next]_vars
  PROVE  Working'
<1>a. Exportable' = Exportable \/ ~ UNCHANGED repoVars
  BY DEF Exportable, repoVars
<1>b. todo' = todo => Current' = Current
  BY DEF Current
<1>1. ASSUME NEW n \in Wanted, StartRestore(n)
      PROVE  Working'
  BY <1>1 DEF StartRestore, Begin, Working
<1>2. ASSUME NEW m \in {"adopt", "create"}, StartExport(m)
      PROVE  Working'
  BY <1>2, <1>a DEF StartExport, Begin, Working
<1>3. CASE pc' = "idle"
  BY <1>3 DEF Working
<1>4. CASE Skip
  BY <1>4, <1>a DEF Skip, Working
<1>5. CASE Needs
  BY <1>5, <1>a, <1>b DEF Needs, Working, repoVars, commandVars
<1>6. CASE Open
  BY <1>6, <1>a, <1>b DEF Open, Working, repoVars, commandVars
<1>7. CASE Receive
  BY <1>7, <1>a, <1>b DEF Receive, Working, repoVars
<1>8. CASE Adopt
  BY <1>8, <1>a, <1>b DEF Adopt, Working, repoVars
<1>9. CASE Create
  BY <1>9, <1>a, <1>b DEF Create, Working, repoVars
<1>10. CASE Store
  BY <1>10, <1>a DEF Store, Working
<1>11. CASE User
  <2>1. UserActs
    BY <1>11 DEF User, UserWrites, UserTakes, UserDestroys
  <2>2. QED
    BY <2>1, <1>a, <1>b DEF UserActs, Working, repoVars, commandVars
<1>12. CASE UNCHANGED vars
  BY <1>12, <1>a, <1>b DEF vars, Working, repoVars, commandVars
<1>13. QED
  BY <1>1, <1>2, <1>3, <1>4, <1>5, <1>6, <1>7, <1>8, <1>9, <1>10, <1>11, <1>12
     DEF Next, Command, Succeeds, NodeFails, OpenFails, ReceiveFails, ImportFails, Crash, Ends

-----------------------------------------------------------------------------
(* The restore. *)

(* What has been received stays: the base of the next stream is the parent, *)
(* and everything behind is the parent or lies before it.                   *)
LEMMA BehindReceived ==
  ASSUME TypeOK, InOrder, Working, Replayed, Receive, mode = "restore", ~ disturbed
  PROVE  Replayed'
<1>c. PICK c : c = Current
  OBVIOUS
<1>1. /\ c \in todo /\ c \in Nat /\ \A k \in todo : c <= k
      /\ todo \subseteq Path(wanted) /\ wanted \in Nat
  BY <1>c, CurrentIs, Parts DEF Receive, TypeOK, Working
<1>2. \A k \in Path(wanted) : k \in Nat
  BY <1>1, PathType
<1>3. PICK p \in 0..Len(history) :
        /\ DOMAIN history' = 1..(p + 1) /\ Len(history') = p + 1
        /\ \A i \in 1..p : history'[i] = history[i]
        /\ history'[p + 1] = Original(c)
        /\ IF c = 0 THEN p = 0 ELSE p # 0 /\ history[p] = Original(Parent(c))
  BY <1>c, ReceivedIs
<1>4. /\ Len(history) \in Nat /\ DOMAIN history = 1..Len(history)
      /\ \A i \in DOMAIN history : history[i].guid \in Nat
  BY Parts
<1>5. todo' = todo \ {c} /\ wanted' = wanted /\ received' = TRUE /\ dirty' = FALSE
  BY <1>c DEF Receive
<1>6. Behind' = Behind \cup {c}
  BY <1>1, <1>5 DEF Behind
<1>7. \A k \in Behind : k \in Nat /\ k < c /\ Here(Original(k))
  BY <1>1, <1>2 DEF Replayed, Receive, Behind
<1>8. ASSUME NEW k \in Behind
      PROVE  Here(Original(k))'
  <2>1. c # 0 /\ k <= Parent(c) /\ Parent(c) \in Nat
    <3>1. c # 0
      BY <1>1, <1>7
    <3>2. k \in Path(wanted) /\ c \in Path(wanted)
      BY <1>1 DEF Behind
    <3>3. QED
      BY <1>1, <1>7, <3>1, <3>2, PathSteps, ParentType
  <2>2. PICK i \in DOMAIN history : history[i] = Original(k)
    BY <1>7 DEF Here
  <2>3. p \in DOMAIN history /\ history[p] = Original(Parent(c))
    BY <1>3, <1>4, <2>1
  <2>4. history[i].guid = k /\ history[p].guid = Parent(c)
    BY <2>2, <2>3 DEF Original, Snapshot
  <2>5. i <= p
    <3> SUFFICES ASSUME p < i PROVE FALSE
      BY <1>4, <2>2, <2>3
    <3>1. history[p].guid < history[i].guid
      BY <2>2, <2>3 DEF InOrder
    <3>2. QED
      BY <1>7, <2>1, <2>4, <3>1
  <2>6. i \in DOMAIN history' /\ history'[i] = Original(k)
    BY <1>3, <1>4, <2>2, <2>5
  <2>7. QED
    BY <2>6 DEF Here
<1>9. Here(Original(c))' /\ Latest(Original(c))'
  <2>1. p + 1 \in DOMAIN history' /\ history' # << >>
    BY <1>3
  <2>2. QED
    BY <1>3, <2>1 DEF Here, Latest
<1>10. \A k \in Behind' : Here(Original(k))' /\ \A j \in todo' : k < j
  <2>1. \A j \in todo' : c < j
    BY <1>1, <1>2, <1>5
  <2>2. \A k \in Behind' : k <= c /\ k \in Nat
    BY <1>1, <1>6, <1>7
  <2>3. \A j \in todo' : j \in Nat
    BY <1>1, <1>2, <1>5
  <2>4. \A k \in Behind' : \A j \in todo' : k < j
    BY <1>1, <2>1, <2>2, <2>3
  <2>5. QED
    BY <1>6, <1>8, <1>9, <2>4
<1>11. c \in Behind' /\ \A j \in Behind' : j <= c
  BY <1>1, <1>6, <1>7
<1>12. ~ dirty'
  BY <1>5
<1>13. QED
  BY <1>9, <1>10, <1>11, <1>12 DEF Replayed

(* A snapshot that is skipped was there before the command: nothing that    *)
(* has been received lies before it, so nothing has been received yet.      *)
LEMMA BehindSkipped ==
  ASSUME TypeOK, InOrder, Working, Replayed, Skip, ~ disturbed
  PROVE  Replayed'
<1> DEFINE c == Current
<1>1. /\ c \in todo /\ c \in Nat /\ \A k \in todo : c <= k
      /\ mode = "restore" /\ pc = "node"
      /\ todo \subseteq Path(wanted) /\ wanted \in Nat
  BY CurrentIs, Parts DEF Skip, Skips, Working
<1>2. \A k \in Path(wanted) : k \in Nat
  BY <1>1, PathType
<1>3. /\ todo' = todo \ {c} /\ wanted' = wanted /\ history' = history
      /\ received' = received /\ Here(Original(c))
  BY DEF Skip, datasetVars
<1>4. Behind' = Behind \cup {c}
  BY <1>1, <1>3 DEF Behind
<1>5. \A k \in Behind : k \in Nat /\ k < c /\ Here(Original(k))
  BY <1>1, <1>2 DEF Replayed, Behind
<1> HIDE DEF c
<1>6. ~ received
  <2> SUFFICES ASSUME received PROVE FALSE
    OBVIOUS
  <2>1. PICK k \in Behind : Latest(Original(k))
    BY <1>1 DEF Replayed
  <2>2. PICK i \in DOMAIN history : history[i] = Original(c)
    BY <1>3 DEF Here
  <2> DEFINE n == Len(history)
  <2>3. /\ n \in Nat /\ DOMAIN history = 1..n /\ i \in 1..n /\ n \in DOMAIN history
        /\ history[n] = Original(k)
    BY <2>1, Parts DEF Latest
  <2> HIDE DEF n
  <2>4. history[i].guid = c /\ history[n].guid = k /\ k < c /\ k \in Nat
    BY <1>5, <2>2, <2>3 DEF Original, Snapshot
  <2>5. i < n => history[i].guid < history[n].guid
    BY <2>3 DEF InOrder
  <2>6. i = n
    BY <1>1, <2>3, <2>4, <2>5
  <2>7. QED
    BY <1>1, <2>4, <2>6
<1>7. \A k \in Behind' : Here(Original(k))' /\ \A j \in todo' : k < j
  <2>1. \A j \in todo' : c < j /\ j \in Nat
    BY <1>1, <1>2, <1>3
  <2>2. \A k \in Behind' : k <= c /\ k \in Nat
    BY <1>1, <1>4, <1>5
  <2>3. \A k \in Behind' : \A j \in todo' : k < j
    BY <1>1, <2>1, <2>2
  <2>4. \A k \in Behind' : Here(Original(k))'
    BY <1>3, <1>4, <1>5 DEF Here
  <2>5. QED
    BY <2>3, <2>4
<1>8. QED
  BY <1>3, <1>6, <1>7 DEF Replayed

LEMMA ReplayedStep ==
  ASSUME TypeOK, InOrder, Working, Replayed, [Next]_vars
  PROVE  Replayed'
<1>1. CASE pc' = "idle" \/ mode' # "restore" \/ disturbed'
  BY <1>1 DEF Replayed
<1>2. ASSUME NEW n \in Wanted, StartRestore(n)
      PROVE  Replayed'
  <2>1. Behind' = {} /\ received' = FALSE
    BY <1>2 DEF StartRestore, Begin, Behind
  <2>2. QED
    BY <2>1 DEF Replayed
<1>3. CASE Skip
  <2>1. disturbed' = disturbed
    BY <1>3 DEF Skip, boundVars
  <2>2. QED
    BY <1>3, <2>1, <1>1, BehindSkipped
<1>4. CASE Needs \/ Open \/ UNCHANGED vars
  <2>1. /\ UNCHANGED <<history, dirty, mode, wanted, todo, received, disturbed>>
        /\ pc' # "idle" => pc # "idle"
    BY <1>4 DEF Needs, Open, vars, datasetVars, commandVars, boundVars
  <2>2. Behind' = Behind
    BY <2>1 DEF Behind
  <2>3. \A k : (Here(Original(k))' <=> Here(Original(k)))
               /\ (Latest(Original(k))' <=> Latest(Original(k)))
    BY <2>1 DEF Here, Latest
  <2>4. QED
    BY <2>1, <2>2, <2>3 DEF Replayed
<1>5. CASE Receive
  <2>1. disturbed' = disturbed /\ mode' = mode
    BY <1>5 DEF Receive, boundVars
  <2>2. QED
    BY <1>5, <2>1, <1>1, BehindReceived
<1>6. CASE Adopt \/ Create \/ Store
  <2>1. mode # "restore"
    BY <1>6 DEF Adopt, Create, Store, Working
  <2>2. QED
    BY <1>1, <1>6, <2>1 DEF Adopt, Create, Store
<1>7. CASE User
  BY <1>1, <1>7 DEF User, UserActs, UserWrites, UserTakes, UserDestroys
<1>8. ASSUME NEW m \in {"adopt", "create"}, StartExport(m)
      PROVE  Replayed'
  BY <1>1, <1>8 DEF StartExport, Begin
<1>9. QED
  BY <1>1, <1>2, <1>3, <1>4, <1>5, <1>6, <1>7, <1>8
     DEF Next, Command, Succeeds, NodeFails, OpenFails, ReceiveFails, ImportFails, Crash, Ends

(* Needs looks, and until the stream is received only the user takes names. *)
LEMMA VacantStep ==
  ASSUME TypeOK, Working, Vacant, [Next]_vars
  PROVE  Vacant'
<1>1. CASE pc' \notin {"open", "receive"} \/ mode' # "restore" \/ disturbed'
  BY <1>1 DEF Vacant
<1>2. CASE Needs
  <2>1. /\ ~ Foreign(Current) /\ (Here(Original(Current)) => mode # "restore")
        /\ UNCHANGED <<history, mode, todo>>
    BY <1>2 DEF Needs, Skips, datasetVars, commandVars
  <2>2. Current' = Current
    BY <2>1 DEF Current
  <2>3. QED
    BY <2>1, <2>2 DEF Vacant, Foreign, NameTaken
<1>3. CASE Open \/ UNCHANGED vars
  <2>1. /\ UNCHANGED <<history, mode, todo, disturbed>>
        /\ pc' \in {"open", "receive"} => pc \in {"open", "receive"}
    BY <1>3 DEF Open, vars, datasetVars, commandVars, boundVars
  <2>2. Current' = Current
    BY <2>1 DEF Current
  <2>3. QED
    BY <2>1, <2>2 DEF Vacant, NameTaken
<1>4. CASE User
  BY <1>1, <1>4 DEF User, UserActs, UserWrites, UserTakes, UserDestroys
<1>5. QED
  BY <1>1, <1>2, <1>3, <1>4
     DEF Next, Command, StartRestore, StartExport, Begin, Succeeds, Skip, NodeFails,
         OpenFails, Receive, ReceiveFails, Adopt, Create, Store, ImportFails, Crash, Ends

(* The loop ends when nothing is left: the node wanted is behind it, and is *)
(* the greatest node there.                                                 *)
LEMMA ReachesStep ==
  ASSUME TypeOK, Working, Replayed, RestoreReaches, [Next]_vars
  PROVE  RestoreReaches'
<1>1. CASE result' # "restored" \/ disturbed'
  BY <1>1 DEF RestoreReaches
<1>2. CASE Succeeds /\ mode = "restore" /\ ~ disturbed
  <2>1. todo = {} /\ pc = "node" /\ wanted \in Nat
        /\ UNCHANGED <<history, dirty, wanted, received>>
    BY <1>2, Parts DEF Succeeds, Ends, datasetVars
  <2>2. Behind = Path(wanted) /\ wanted \in Path(wanted) /\ \A k \in Path(wanted) : k <= wanted
    BY <2>1, PathType DEF Behind
  <2>3. Here(Original(wanted))
    BY <1>2, <2>1, <2>2 DEF Replayed
  <2>4. received => Latest(Original(wanted)) /\ ~ dirty
    <3> SUFFICES ASSUME received PROVE Latest(Original(wanted)) /\ ~ dirty
      OBVIOUS
    <3>1. PICK k \in Path(wanted) : /\ Latest(Original(k)) /\ ~ dirty
                                    /\ \A j \in Path(wanted) : j <= k
      BY <1>2, <2>1, <2>2 DEF Replayed
    <3>2. k \in Nat
      BY <2>1, PathType
    <3>3. k <= wanted /\ wanted <= k
      BY <2>2, <3>1
    <3>4. k = wanted
      BY <2>1, <3>2, <3>3
    <3>5. QED
      BY <3>1, <3>4
  <2>5. QED
    BY <2>1, <2>3, <2>4 DEF RestoreReaches, Here, Latest
<1>3. CASE Succeeds /\ ~ (mode = "restore" /\ ~ disturbed)
  BY <1>1, <1>3 DEF Succeeds, Ends, boundVars
<1>4. CASE result' = result /\ pc # "idle"
  BY <1>1, <1>4 DEF Working
<1>5. CASE UNCHANGED vars
  BY <1>5 DEF RestoreReaches, Here, Latest, vars, datasetVars, commandVars, boundVars
<1>6. CASE User
  BY <1>1, <1>6 DEF User, UserActs, UserWrites, UserTakes, UserDestroys
<1>7. QED
  BY <1>1, <1>2, <1>3, <1>4, <1>5, <1>6
     DEF Next, Command, StartRestore, StartExport, Begin, Skip, Needs, NodeFails, Open,
         OpenFails, Receive, ReceiveFails, Adopt, Create, Store, ImportFails, Crash, Ends

-----------------------------------------------------------------------------
(* The export. *)

(* A node is stored that was not stored before; with the prefix, nothing    *)
(* after it was stored either.                                              *)
LEMMA StoresNew ==
  ASSUME TypeOK, Working, Filled, TargetIsPrefix, Store
  PROVE  /\ Current \in todo /\ Current \in Exportable /\ Current \in Nodes
         /\ mode # "restore" /\ mode' = mode /\ todo' = todo \ {Current}
         /\ Exportable' = Exportable
         /\ target[Current] = Nothing /\ target'[Current] # Nothing
         /\ \A n \in Nodes : n # Current => target'[n] = target[n]
         /\ target'[Current] = [from |-> IF Current = 0 THEN Nothing
                                         ELSE target[Parent(Current)].to,
                               to   |-> imported.guid]
         /\ \A n \in Nodes : Current < n => target[n] = Nothing
         /\ \A n \in Exportable : n < Current => n \notin todo /\ target[n] # Nothing
<1>1. /\ Current \in todo /\ Current \in Nat /\ \A k \in todo : Current <= k
      /\ todo \subseteq Exportable /\ mode # "restore" /\ mode' = mode
      /\ todo' = todo \ {Current} /\ target[Current] = Nothing
      /\ Exportable \subseteq Nodes /\ Nodes \subseteq Nat
  BY CurrentIs, Parts DEF Store, TypeOK, Working, Filled
<1>2. Exportable' = Exportable
  BY DEF Store, repoVars, Exportable
<1>3. target'[Current] = [from |-> IF Current = 0 THEN Nothing
                                  ELSE target[Parent(Current)].to,
                        to   |-> imported.guid]
      /\ \A n \in Nodes : n # Current => target'[n] = target[n]
  BY <1>1 DEF Store, TypeOK, ParentStored, Snapshot
<1>4. target'[Current] # Nothing
  <2>1. imported.guid \in Nat
    BY DEF Store, TypeOK, Snapshots
  <2>2. Current # 0 => target[Parent(Current)].to \in Nat
    <3>1. Current # 0 => target[Parent(Current)] \in [from : Nat \cup {Nothing}, to : Nat]
      BY <1>1, ExportableClosed, StoredIs DEF Store, CanStore
    <3>2. QED
      BY <3>1
  <2>3. [from |-> IF Current = 0 THEN Nothing ELSE target[Parent(Current)].to,
         to   |-> imported.guid] \in [from : Nat \cup {Nothing}, to : Nat]
    BY <2>1, <2>2
  <2>4. QED
    BY <1>3, <2>3, RestoreAssumption
<1>5. \A n \in Nodes : Current < n => target[n] = Nothing
  BY <1>1 DEF TargetIsPrefix
<1>6. \A n \in Exportable : n < Current => n \notin todo /\ target[n] # Nothing
  <2>1. \A n \in Exportable : n < Current => n \notin todo
    BY <1>1
  <2>2. QED
    BY <1>1, <2>1 DEF Filled, Store
<1>7. QED
  BY <1>1, <1>2, <1>3, <1>4, <1>5, <1>6

LEMMA PrefixStep ==
  ASSUME TypeOK, Working, Filled, TargetIsPrefix, [Next]_vars
  PROVE  TargetIsPrefix'
<1>1. CASE Store
  <2> SUFFICES ASSUME NEW n \in Nodes, target'[n] # Nothing
               PROVE  /\ \A k \in Exportable : k < n => target'[k] # Nothing
                      /\ target'[n].from = IF n = 0 THEN Nothing ELSE target'[Parent(n)].to
    BY <1>1, StoresNew DEF TargetIsPrefix
  <2>1. CASE n = Current
    <3>1. n \in Exportable /\ (n # 0 => Parent(n) \in Nodes /\ Parent(n) # n)
      BY <1>1, <2>1, StoresNew, ExportableClosed, Parts
    <3>2. target'[n].from = IF n = 0 THEN Nothing ELSE target'[Parent(n)].to
      BY <1>1, <2>1, <3>1, StoresNew
    <3>3. \A k \in Exportable : k < n => target'[k] # Nothing
      BY <1>1, <2>1, StoresNew, Parts
    <3>4. QED
      BY <3>2, <3>3
  <2>2. CASE n # Current
    <3>1. target[n] # Nothing /\ target'[n] = target[n]
      BY <1>1, <2>2, StoresNew
    <3>2. n \in Exportable /\ Parent(n) \in Exportable /\ (n # 0 => Parent(n) < n)
      BY <3>1, ExportableClosed DEF Filled
    <3>3. \A k \in Exportable : k < n => target[k] # Nothing /\ k # Current
      BY <1>1, <3>1, StoresNew DEF TargetIsPrefix
    <3>4. target[n].from = IF n = 0 THEN Nothing ELSE target[Parent(n)].to
      BY <3>1 DEF TargetIsPrefix
    <3>5. \A k \in Exportable : k < n => target'[k] = target[k]
      BY <1>1, <3>3, StoresNew, Parts
    <3>6. n # 0 => target'[Parent(n)] = target[Parent(n)]
      BY <3>2, <3>5
    <3>7. QED
      BY <3>1, <3>3, <3>4, <3>5, <3>6
  <2>3. QED
    BY <2>1, <2>2
<1>2. CASE UNCHANGED <<dirs, target>>
  BY <1>2 DEF TargetIsPrefix, Exportable
<1>3. QED
  BY <1>1, <1>2 DEF Next, Command, User, vars, repoVars, StartRestore, StartExport, Begin,
     Succeeds, Skip, Needs, NodeFails, Open, OpenFails, Receive, ReceiveFails, Adopt,
     Create, ImportFails, UserActs, UserWrites, UserTakes, UserDestroys, Crash

LEMMA FilledStep ==
  ASSUME TypeOK, Working, Filled, TargetIsPrefix, [Next]_vars
  PROVE  Filled'
<1>1. CASE Store
  <2>1. \A n \in Nodes : target'[n] # Nothing => n \in Exportable
    BY <1>1, StoresNew DEF Filled
  <2>2. pc = "store" /\ pc' = "node"
    BY <1>1 DEF Store
  <2>3. \A n \in Exportable \ todo' : target'[n] # Nothing
    BY <1>1, <2>2, StoresNew, Parts DEF Filled
  <2>4. ASSUME mode = "adopt"
        PROVE  /\ \A n \in Exportable \ todo' : target'[n] = Copy(n)
               /\ 0 \notin todo' => \A n \in todo' : target'[n] = Nothing
    <3>1. target'[Current] = Copy(Current)
      <4>1. imported.guid = Current
        BY <1>1, <2>2, <2>4 DEF Filled, Original, Snapshot
      <4>2. ASSUME Current # 0
            PROVE  target[Parent(Current)].to = Parent(Current)
        <5>1. Parent(Current) \in Exportable \ todo
          BY <1>1, <4>2, StoresNew, ExportableClosed
        <5>2. target[Parent(Current)] = Copy(Parent(Current))
          BY <2>2, <2>4, <5>1 DEF Filled
        <5>3. QED
          BY <5>2 DEF Copy
      <4>3. QED
        BY <1>1, <4>1, <4>2, StoresNew DEF Copy
    <3>2. \A n \in Exportable \ todo' : target'[n] = Copy(n)
      BY <1>1, <2>2, <2>4, <3>1, StoresNew, Parts DEF Filled
    <3>3. ASSUME 0 \notin todo', NEW n \in todo'
          PROVE  target'[n] = Nothing
      <4>1. n \in todo /\ n # Current /\ n \in Nodes /\ n \in Nat
        BY <1>1, <3>3, StoresNew, Parts DEF TypeOK, Working, Store
      <4>2. CASE 0 \in todo
        <5>1. Current = 0
          BY <1>1, <3>3, <4>2, StoresNew
        <5>2. QED
          BY <1>1, <4>1, <5>1, StoresNew
      <4>3. CASE 0 \notin todo
        BY <1>1, <2>2, <2>4, <4>1, <4>3, StoresNew DEF Filled
      <4>4. QED
        BY <4>2, <4>3
    <3>4. QED
      BY <3>2, <3>3
  <2>5. QED
    BY <1>1, <2>1, <2>2, <2>3, <2>4, StoresNew DEF Filled
<1>2. CASE UNCHANGED <<dirs, target>> /\ pc' = "idle"
  BY <1>2 DEF Filled, Exportable
<1>3. ASSUME NEW n \in Wanted, StartRestore(n)
      PROVE  Filled'
  BY <1>3 DEF StartRestore, Begin, Filled, Exportable, repoVars
<1>4. ASSUME NEW m \in {"adopt", "create"}, StartExport(m)
      PROVE  Filled'
  <2>1. /\ UNCHANGED <<dirs, target>> /\ pc' = "node" /\ todo' = Exportable
        /\ Exportable' = Exportable
    BY <1>4 DEF StartExport, Begin, Exportable, repoVars
  <2>2. 0 \notin Exportable => Exportable = {}
    BY ExportableClosed
  <2>3. QED
    BY <2>1, <2>2 DEF Filled
<1>5. CASE Adopt \/ Create
  <2>1. /\ UNCHANGED <<dirs, target, mode, todo>> /\ pc # "idle" /\ pc' = "store"
        /\ target[Current] = Nothing /\ Exportable' = Exportable /\ Current' = Current
        /\ mode = "adopt" => imported' = Original(Current)
    BY <1>5 DEF Adopt, Create, Exportable, Current, repoVars
  <2>2. (mode = "adopt" => imported = Original(Current))' <=>
          (mode = "adopt" => imported' = Original(Current))
    BY <2>1
  <2>3. QED
    BY <2>1, <2>2 DEF Filled
<1>6. CASE Skip
  <2>1. mode = "restore" /\ UNCHANGED <<dirs, target, mode, pc>> /\ pc = "node"
    BY <1>6 DEF Skip, Skips, repoVars
  <2>2. QED
    BY <2>1 DEF Filled, Exportable
<1>7. CASE Receive
  <2>1. /\ UNCHANGED <<dirs, target, mode>> /\ pc = "receive" /\ pc' \in {"node", "import"}
        /\ mode # "restore" => todo' = todo
        /\ Exportable' = Exportable
    BY <1>7 DEF Receive, repoVars, Exportable
  <2>2. QED
    BY <2>1 DEF Filled
<1>8. CASE Needs \/ Open
  <2>1. /\ UNCHANGED <<dirs, target, mode, todo>> /\ pc # "idle" /\ pc' \in {"open", "receive"}
        /\ Exportable' = Exportable
    BY <1>8 DEF Needs, Open, repoVars, commandVars, Exportable
  <2>2. QED
    BY <2>1 DEF Filled
<1>9. CASE User \/ UNCHANGED vars
  <2>1. /\ UNCHANGED <<dirs, target, mode, todo, pc, imported>>
        /\ Exportable' = Exportable /\ Current' = Current
    BY <1>9 DEF User, UserActs, UserWrites, UserTakes, UserDestroys, vars, repoVars,
       commandVars, Exportable, Current
  <2>2. Original(Current)' = Original(Current)
    BY <2>1 DEF Original, Snapshot
  <2>3. QED
    BY <2>1, <2>2 DEF Filled
<1>10. QED
  BY <1>1, <1>2, <1>3, <1>4, <1>5, <1>6, <1>7, <1>8, <1>9
     DEF Next, Command, Succeeds, NodeFails, OpenFails, ReceiveFails, ImportFails, Crash,
         Ends, repoVars

(* With nothing left to do, all that can be exported is behind.             *)
LEMMA CopiesStep ==
  ASSUME TypeOK, Working, Filled, ExportCopies, [Next]_vars
  PROVE  ExportCopies'
<1>1. CASE result' # "exported" \/ mode' # "adopt"
  BY <1>1 DEF ExportCopies
<1>2. CASE Succeeds /\ mode = "adopt"
  <2>1. /\ UNCHANGED <<dirs, target>> /\ pc = "node" /\ todo = {}
        /\ Exportable' = Exportable
    BY <1>2 DEF Succeeds, repoVars, Exportable
  <2>2. \A n \in Nodes : target[n] = IF n \in Exportable THEN Copy(n) ELSE Nothing
    BY <1>2, <2>1 DEF Filled
  <2>3. QED
    BY <2>1, <2>2 DEF ExportCopies, Copy
<1>3. CASE Succeeds /\ mode # "adopt"
  BY <1>1, <1>3 DEF Succeeds, Ends
<1>4. CASE result' = result /\ pc # "idle"
  BY <1>1, <1>4 DEF Working
<1>5. CASE UNCHANGED <<dirs, target, mode, result>>
  BY <1>5 DEF ExportCopies, Exportable
<1>6. QED
  BY <1>1, <1>2, <1>3, <1>4, <1>5
     DEF Next, Command, User, vars, repoVars, commandVars, StartRestore, StartExport, Begin,
         Skip, Needs, NodeFails, Open, OpenFails, Receive, ReceiveFails, Adopt, Create,
         Store, ImportFails, UserActs, UserWrites, UserTakes, UserDestroys, Crash, Ends

-----------------------------------------------------------------------------
LEMMA InitInv == Init => IInv
<1> SUFFICES ASSUME Init PROVE IInv
  OBVIOUS
<1>1. TypeOK /\ InOrder
  BY InitTypes, InitOrder
<1>2. /\ pc = "idle" /\ result = "none" /\ target = [n \in Nodes |-> Nothing]
  BY DEF Init
<1>3. Working /\ Replayed /\ Vacant /\ RestoreReaches /\ ExportCopies
  BY <1>2 DEF Working, Replayed, Vacant, RestoreReaches, ExportCopies
<1>4. Filled /\ TargetIsPrefix
  BY <1>2 DEF Filled, TargetIsPrefix
<1>5. QED
  BY <1>1, <1>3, <1>4 DEF IInv

LEMMA StepInv == IInv /\ [Next]_vars => IInv'
BY TypeStep, OrderStep, WorkingStep, ReplayedStep, VacantStep, FilledStep, ReachesStep,
   PrefixStep, CopiesStep DEF IInv

(* The dataset, the target and what the command remembers agree at every    *)
(* step, for any repository, number of failures, crashes and changes made   *)
(* by the user.                                                             *)
THEOREM Invariance == Spec => []IInv
<1>1. IInv /\ UNCHANGED vars => IInv'
  BY StepInv
<1>2. QED
  BY <1>1, InitInv, StepInv, PTL DEF Spec

(* Type correctness. *)
THEOREM RestoreTypes == Spec => []TypeOK
<1>1. IInv => TypeOK
  BY DEF IInv
<1>2. QED
  BY <1>1, Invariance, PTL

(* restore(): a success means that the node wanted is there, and that the   *)
(* dataset is at that node if anything was received.                        *)
THEOREM NodeReached == Spec => []RestoreReaches
<1>1. IInv => RestoreReaches
  BY DEF IInv
<1>2. QED
  BY <1>1, Invariance, PTL

(* export_repository(): the target is filled from the root on, and every    *)
(* stream in it leads from the snapshot stored for the parent.              *)
THEOREM TargetHangsTogether == Spec => []TargetIsPrefix
<1>1. IInv => TargetIsPrefix
  BY DEF IInv
<1>2. QED
  BY <1>1, Invariance, PTL

(* export_repository(): a success with create-snapshot=false means a copy,  *)
(* stream for stream.                                                       *)
THEOREM ExportIsComplete == Spec => []ExportCopies
<1>1. IInv => ExportCopies
  BY DEF IInv
<1>2. QED
  BY <1>1, Invariance, PTL

-----------------------------------------------------------------------------
(* Endings: a command that is left alone does one thing less at every step. *)

(* How far a command is with the node it has come to. *)
StepsLeft == [node |-> 5, open |-> 4, receive |-> 3, import |-> 2, store |-> 1]

Remaining == IF pc = "idle" THEN 0 ELSE 5 * Cardinality(todo) + StepsLeft[pc]

(* restore() has finitely many nodes to go through. *)
LEMMA NodesLeft ==
  ASSUME TypeOK
  PROVE  /\ Cardinality(todo) \in Nat
         /\ todo # {} => Cardinality(todo \ {Current}) = Cardinality(todo) - 1
<1>1. wanted \in Nat /\ todo \in SUBSET (0..wanted)
  BY Parts DEF TypeOK
<1>2. IsFiniteSet(0..wanted)
  BY <1>1, FS_Interval
<1>3. IsFiniteSet(todo)
  BY <1>1, <1>2, FS_Subset
<1>4. QED
  BY <1>3, CurrentIs, FS_CardinalityType, FS_RemoveElement

LEMMA RemainingStep ==
  ASSUME TypeOK
  PROVE  /\ Remaining \in Nat
         /\ Command \/ Crash => Remaining' < Remaining
         /\ User => Remaining' = Remaining
<1>1. /\ Cardinality(todo) \in Nat
      /\ todo # {} => Cardinality(todo \ {Current}) = Cardinality(todo) - 1
  BY NodesLeft
<1>2. pc \in ControlStates /\ (pc \notin {"idle", "node"} => todo # {})
  BY DEF TypeOK
<1>3. /\ StepsLeft["node"] = 5 /\ StepsLeft["open"] = 4 /\ StepsLeft["receive"] = 3
      /\ StepsLeft["import"] = 2 /\ StepsLeft["store"] = 1
  BY DEF StepsLeft
<1>4. Remaining \in Nat /\ (pc # "idle" => 0 < Remaining)
  BY <1>1, <1>2, <1>3 DEF Remaining, ControlStates
<1>5. ASSUME Command \/ Crash
      PROVE  Remaining' < Remaining
  <2>1. CASE Succeeds \/ NodeFails \/ OpenFails \/ ReceiveFails \/ ImportFails \/ Crash
    <3>1. pc # "idle" /\ pc' = "idle"
      BY <2>1 DEF Succeeds, NodeFails, OpenFails, ReceiveFails, ImportFails, Crash, Ends
    <3>2. QED
      BY <1>4, <3>1 DEF Remaining
  <2>2. CASE Needs \/ Open \/ Adopt \/ Create
    <3>1. /\ todo' = todo /\ pc # "idle" /\ pc' # "idle"
          /\ StepsLeft[pc'] < StepsLeft[pc]
          /\ StepsLeft[pc] \in Nat /\ StepsLeft[pc'] \in Nat
      BY <1>3, <2>2 DEF Needs, Open, Adopt, Create, commandVars
    <3>2. QED
      BY <1>1, <1>4, <3>1 DEF Remaining
  <2>3. CASE Receive /\ mode # "restore"
    <3>1. todo' = todo /\ pc = "receive" /\ pc' = "import"
      BY <2>3 DEF Receive
    <3>2. QED
      BY <1>1, <1>3, <1>4, <3>1 DEF Remaining
  <2>4. CASE Skip \/ Store \/ (Receive /\ mode = "restore")
    <3>1. /\ todo # {} /\ todo' = todo \ {Current} /\ pc # "idle" /\ pc' = "node"
          /\ StepsLeft[pc] \in Nat /\ StepsLeft[pc] >= 1
      BY <1>2, <1>3, <2>4 DEF Skip, Store, Receive
    <3>2. QED
      BY <1>1, <1>3, <1>4, <3>1 DEF Remaining
  <2>5. QED
    BY <1>5, <2>1, <2>2, <2>3, <2>4 DEF Command
<1>6. ASSUME User
      PROVE  Remaining' = Remaining
  BY <1>6 DEF User, UserActs, UserWrites, UserTakes, UserDestroys, commandVars, Remaining
<1>7. QED
  BY <1>4, <1>5, <1>6

(* Whatever the dataset looks like and whoever changes it, a restore and an *)
(* export come to an end: each step of theirs leaves less to do, and nobody *)
(* else's leaves more.                                                      *)
THEOREM CommandsEnd ==
  Spec => [][/\ Remaining \in Nat
             /\ Command \/ Crash => Remaining' < Remaining
             /\ User => Remaining' = Remaining]_vars
<1>1. IInv /\ [Next]_vars =>
        [/\ Remaining \in Nat
         /\ Command \/ Crash => Remaining' < Remaining
         /\ User => Remaining' = Remaining]_vars
  BY RemainingStep DEF IInv
<1>2. QED
  BY <1>1, Invariance, PTL DEF Spec

-----------------------------------------------------------------------------
(* Failures. *)

(* What a restore wants of the repository is there, and nothing in the      *)
(* dataset is in its way.                                                   *)
Restorable == Path(wanted) \subseteq ids \cap payloads /\ ~ InTheWay(wanted)

(* The least node left of a path has its parent behind it. *)
LEMMA ParentBehind ==
  ASSUME TypeOK, Working, Replayed, pc # "idle", mode = "restore", ~ disturbed, todo # {}
  PROVE  /\ Current \in Path(wanted)
         /\ Current # 0 => /\ Parent(Current) \in Path(wanted)
                           /\ Here(Original(Parent(Current)))
<1> DEFINE c == Current
<1>1. c \in todo /\ c \in Nat /\ (\A k \in todo : c <= k) /\ c \in Path(wanted) /\ wanted \in Nat
  BY CurrentIs, Parts DEF Working
<1> HIDE DEF c
<1>2. ASSUME c # 0
      PROVE  Parent(c) \in Path(wanted) /\ Here(Original(Parent(c)))
  <2>1. Parent(c) \in Path(wanted) /\ Parent(c) < c /\ Parent(c) \in Nat
    BY <1>1, <1>2, PathSteps, ParentType
  <2>2. Parent(c) \in Behind
    BY <1>1, <2>1 DEF Behind
  <2>3. QED
    BY <2>1, <2>2 DEF Replayed
<1>3. QED
  BY <1>1, <1>2 DEF c

(* With the parent there and the name free, zfs can receive. *)
LEMMA WayIsFree ==
  ASSUME TypeOK, Working, Replayed, Vacant, Restorable, mode = "restore", ~ disturbed
  PROVE  /\ pc = "node" /\ todo # {} => Current \in ids /\ ~ Foreign(Current)
         /\ pc = "open" => CanOpen
         /\ pc = "receive" => CanReceive
<1>1. ASSUME pc \notin {"idle", "node"} \/ (pc = "node" /\ todo # {})
      PROVE  /\ Current \in Path(wanted) /\ Current \in ids \cap payloads
             /\ Current # 0 => Parent(Current) \in ids /\ Here(Original(Parent(Current)))
  BY <1>1, ParentBehind DEF TypeOK, Restorable
<1>2. pc = "node" /\ todo # {} => Current \in ids /\ ~ Foreign(Current)
  BY <1>1 DEF Restorable, InTheWay
<1>3. pc = "open" => CanOpen
  BY <1>1 DEF CanOpen
<1>4. ASSUME pc = "receive"
      PROVE  CanReceive
  <2>1. ~ NameTaken(<<"source", Current>>)
    BY <1>4 DEF Vacant
  <2>2. ASSUME Current = 0
        PROVE  history = << >>
    <3>1. ~ Here(Original(0))
      BY <2>1, <2>2 DEF Here, NameTaken, Original, Snapshot
    <3>2. QED
      BY <3>1 DEF Restorable, InTheWay
  <2>3. QED
    BY <1>1, <1>4, <2>1, <2>2 DEF CanReceive
<1>5. QED
  BY <1>2, <1>3, <1>4

(* A restore whose nodes are stored, with nothing in its way and a dataset  *)
(* that nobody else touches, fails only when zfs does: whatever the streams *)
(* before have taken away, the snapshot that the next one starts from is    *)
(* there.                                                                   *)
RestoreFailsForCause ==
  pc # "idle" /\ mode = "restore" /\ ~ disturbed /\ Restorable /\ result' = "failed" =>
    faults' = faults + 1

LEMMA CauseStep ==
  ASSUME IInv, Next
  PROVE  RestoreFailsForCause
<1> SUFFICES ASSUME pc # "idle", mode = "restore", ~ disturbed, Restorable, result' = "failed"
             PROVE  faults' = faults + 1
  BY DEF RestoreFailsForCause
<1> USE DEF IInv
<1>1. result = "none" /\ pc \notin {"import", "store"}
  BY DEF Working
<1>2. NodeFails \/ OpenFails \/ ReceiveFails
  BY <1>1 DEF Next, Command, User, UserActs, UserWrites, UserTakes, UserDestroys,
     StartRestore, StartExport, Begin, Succeeds, Skip, Needs, Open, Receive, Adopt, Create,
     Store, ImportFails, Crash, Ends
<1>3. QED
  BY <1>2, WayIsFree DEF NodeFails, OpenFails, ReceiveFails, ZfsFails

(* A command never puts anything in the way of the node it is to bring.     *)
LEMMA WayStaysFree ==
  ASSUME IInv, [Next]_vars, pc # "idle", mode = "restore", ~ disturbed', Restorable
  PROVE  Restorable'
<1> USE DEF IInv
<1>1. ~ disturbed /\ ~ User
  <2>1. ~ User
    BY DEF User, UserActs, UserWrites, UserTakes, UserDestroys
  <2>2. disturbed' = disturbed
    BY <2>1 DEF Next, Command, vars, boundVars, StartRestore, StartExport, Begin, Succeeds,
       Skip, Needs, NodeFails, Open, OpenFails, Receive, ReceiveFails, Adopt, Create, Store,
       ImportFails, Crash, Ends
  <2>3. QED
    BY <2>1, <2>2
<1>2. UNCHANGED <<ids, payloads, wanted>> /\ (UNCHANGED history \/ Receive)
  <2>1. pc \notin {"import", "store"}
    BY DEF Working
  <2>2. QED
    BY <1>1, <2>1 DEF Next, Command, vars, repoVars, datasetVars, commandVars, StartRestore,
       StartExport, Begin, Succeeds, Skip, Needs, NodeFails, Open, OpenFails, Receive,
       ReceiveFails, Adopt, Create, Store, ImportFails, Crash, Ends
<1>3. CASE UNCHANGED history
  BY <1>2, <1>3 DEF Restorable, InTheWay, Foreign, NameTaken, Here
<1>4. CASE Receive
  <2>1. Current \in Path(wanted) /\ Replayed'
    BY <1>1, <1>4, BehindReceived, ParentBehind DEF Receive, TypeOK
  <2>2. PICK p \in 0..Len(history) :
          /\ DOMAIN history' = 1..(p + 1)
          /\ \A i \in 1..p : history'[i] = history[i]
          /\ history'[p + 1] = Original(Current)
    BY <1>4, ReceivedIs
  <2>3. Here(Original(0))'
    <3>1. 0 \in Path(wanted) /\ wanted \in Nat
      BY Parts, PathType
    <3>2. todo' = todo \ {Current} /\ mode' = mode /\ pc' # "idle" /\ wanted' = wanted
      BY <1>4 DEF Receive
    <3>3. 0 \notin todo'
      BY <1>4, <3>2, CurrentIs DEF Receive, TypeOK, Working
    <3>4. 0 \in Behind'
      BY <3>1, <3>2, <3>3 DEF Behind
    <3>5. QED
      BY <2>1, <3>2, <3>4 DEF Replayed
  <2>4. ASSUME NEW k \in Path(wanted), Foreign(k)'
        PROVE  FALSE
    <3>1. PICK i \in DOMAIN history' : history'[i].name = <<"source", k>>
      BY <2>4 DEF Foreign, NameTaken
    <3>2. history'[i].guid <= Last
      <4> PICK c : c = Current
        OBVIOUS
      <4>1. /\ Len(history) \in Nat /\ p + 1 \in DOMAIN history' /\ i \in 1..(p + 1)
            /\ history'[p + 1].guid = c /\ c \in 0..Last /\ Last \in Nat
        BY <1>4, <2>2, ReceivedIs, Parts DEF Original, Snapshot, Nodes
      <4>2. i <= p => history'[i].guid \in Nat
        BY <2>2, <4>1, Parts
      <4>3. i <= p => history'[i].guid < c
        BY <1>4, <3>1, <4>1, OrderReceived DEF InOrder
      <4>4. CASE i = p + 1
        BY <4>1, <4>4
      <4>5. CASE i # p + 1
        <5>1. i <= p
          BY <4>1, <4>5
        <5>2. QED
          BY <4>1, <4>2, <4>3, <5>1
      <4>6. QED
        BY <4>4, <4>5
    <3>3. history'[i] = Original(history'[i].guid)
      BY <1>4, <3>1, <3>2, OrderReceived DEF InOrder
    <3>4. history'[i] = Original(k)
      BY <3>1, <3>3 DEF Original, Snapshot
    <3>5. QED
      BY <2>4, <3>1, <3>4 DEF Foreign, Here
  <2>5. QED
    BY <1>2, <2>3, <2>4 DEF Restorable, InTheWay
<1>5. QED
  BY <1>2, <1>3, <1>4

(* restore(): a node whose path is stored is brought, unless another        *)
(* snapshot is in the way, the user interferes or zfs fails (README.md:304);*)
(* and the command does not get into its own way.                           *)
THEOREM RestoresStored ==
  Spec => [][/\ RestoreFailsForCause
             /\ pc # "idle" /\ mode = "restore" /\ ~ disturbed' /\ Restorable
                  => Restorable']_vars
<1>1. IInv /\ [Next]_vars =>
        [/\ RestoreFailsForCause
         /\ pc # "idle" /\ mode = "restore" /\ ~ disturbed' /\ Restorable
              => Restorable']_vars
  BY CauseStep, WayStaysFree
<1>2. QED
  BY <1>1, Invariance, PTL DEF Spec
=============================================================================
