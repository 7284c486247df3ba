---------------------------- MODULE RestoreCommand ----------------------------
(***************************************************************************)
(* restore(), export_repository() and snapshot_import() of Controller.cpp: *)
(* stored streams replayed into a dataset, and a second repository filled  *)
(* from that dataset, one node after the other.                            *)
(*                                                                         *)
(* The dataset is a linear history of snapshots; zfs receive -F goes back  *)
(* to the base of a difference, whatever is newer is lost.  The nodes of a *)
(* repository are a tree, so that a replay of all of them keeps going back *)
(* and forth.  The repository replayed is as SnapshotCommand leaves one:   *)
(* the nodes alive after the latest, the victims of the next one possibly  *)
(* half deleted.  Its lock is held throughout, so it does not change.      *)
(***************************************************************************)
EXTENDS FenwickTree, Sequences

CONSTANTS
  Last,            \* the latest node of the repository
  Wanted,          \* the nodes a user may ask for, stored or not
  MaxFaults,       \* bound on failures of zfs
  MaxCrashes,      \* bound on crashes
  MaxMeddling,     \* bound on changes of the dataset by its user
  Nothing

Nodes == 0..Last

(* diffmonger-<node>-<uuid>: the uuid is that of the repository which took  *)
(* the snapshot.                                                            *)
Names == {"source", "target"} \X Nodes

Snapshots == [name : Names, guid : Nat]

ASSUME RestoreAssumption == /\ Last \in Nat
                            /\ Wanted \subseteq Nat
                            /\ MaxFaults \in Nat /\ MaxCrashes \in Nat
                            /\ MaxMeddling \in Nat
                            /\ Nothing \notin Nat
                            /\ Nothing \notin Snapshots
                            /\ Nothing \notin [from : Nat \cup {Nothing}, to : Nat]

ControlStates == {"idle", "node", "open", "receive", "import", "store"}

VARIABLES
  \* The repository: nodes with a directory, an id file, a payload.  The guid
  \* in the id file of n is n, its payload leads from Parent(n) to n.
  dirs, ids, payloads,
  \* The dataset.
  history,   \* its snapshots, oldest first
  dirty,     \* its data differs from the latest snapshot
  fresh,     \* the guid of the next snapshot taken
  \* The repository imported into.
  target,    \* the streams stored
  \* The command, and the importing process that it waits for.
  pc,
  mode,      \* "restore", or how an export has its nodes imported
  wanted,
  todo,      \* what the loop of restore() has not come to
  imported,  \* the snapshot to be stored in the target
  result,
  \* History variables, and how much of each bound is used.
  received,  \* this command has received a stream
  disturbed, \* the user changed the dataset since the command began
  faults, crashes, meddled

repoVars    == <<dirs, ids, payloads>>
datasetVars == <<history, dirty, fresh>>
commandVars == <<mode, wanted, todo, imported, received>>
boundVars   == <<disturbed, faults, crashes, meddled>>
vars == <<repoVars, datasetVars, target, pc, commandVars, result, boundVars>>

Snapshot(r, n, g) == [name |-> <<r, n>>, guid |-> g]
Original(n)       == Snapshot("source", n, n)

Here(s)     == \E i \in DOMAIN history : history[i] = s
NameTaken(x) == \E i \in DOMAIN history : history[i].name = x
Position(s) == CHOOSE i \in DOMAIN history : history[i] = s

(* The dataset is a new one, or the one that was backed up.                 *)
Init == /\ dirs \in LeftAfter(Last)
        /\ ids \in LeftAfter(Last) /\ ids \subseteq dirs
        /\ payloads \in LeftAfter(Last) /\ payloads \subseteq dirs
        /\ history \in {<< >>, [i \in 1..(Last + 1) |-> Original(i - 1)]}
        /\ dirty = FALSE /\ fresh = Last + 1
        /\ target = [n \in Nodes |-> Nothing]
        /\ pc = "idle" /\ mode = "restore" /\ wanted = 0 /\ todo = {}
        /\ imported = Nothing /\ result = "none" /\ received = FALSE
        /\ disturbed = FALSE /\ faults = 0 /\ crashes = 0 /\ meddled = 0

(* The definitions named Faulty... are slips that the code could contain;   *)
(* put in the place of the definition after them, each makes a property     *)
(* below fail.                                                              *)
-----------------------------------------------------------------------------
(***************************************************************************)
(* restore() goes through a set of nodes, least first: the path of the     *)
(* node wanted, or everything that can be restored.                        *)
(***************************************************************************)
Begin(m, n, nodes) == /\ pc = "idle"
                      /\ pc' = "node"
                      /\ mode' = m /\ wanted' = n /\ todo' = nodes
                      /\ imported' = Nothing /\ received' = FALSE /\ disturbed' = FALSE
                      /\ result' = "none"
                      /\ UNCHANGED <<repoVars, datasetVars, target, faults, crashes, meddled>>

(* Faulty: what is there already is taken out before the loop.              *)
FaultyStartRestore(n) ==
  /\ n \in Wanted
  /\ Begin("restore", n, {k \in Path(n) : k \in Nodes => ~ Here(Original(k))})

StartRestore(n) == n \in Wanted /\ Begin("restore", n, Path(n))

(* A node can be restored when all of its path is in the repository.        *)
Exportable == {n \in dirs : Path(n) \subseteq dirs}

(* Faulty: the next node instead of the latest. *)
FaultyStartExport(m) == Begin(m, Last + 1, Exportable)

(* The import command is given create-snapshot=true or not. *)
StartExport(m) == Begin(m, Last, Exportable)

Current == CHOOSE n \in todo : \A k \in todo : n <= k

Ends(r) == /\ pc' = "idle"
           /\ result' = r
           /\ todo' = {} /\ imported' = Nothing
           /\ UNCHANGED <<mode, wanted, received>>

Succeeds == /\ pc = "node" /\ todo = {}
            /\ Ends(IF mode = "restore" THEN "restored" ELSE "exported")
            /\ UNCHANGED <<repoVars, datasetVars, target, boundVars>>

(* exists(): a snapshot of that name with another guid is an error.         *)
Foreign(n) == NameTaken(<<"source", n>>) /\ ~ Here(Original(n))

(* Faulty: skip_existing is not the default. *)
FaultySkips == FALSE

Skips == mode = "restore"

Skip == /\ pc = "node" /\ todo # {}
        /\ Current \in ids
        /\ Here(Original(Current))
        /\ Skips
        /\ todo' = todo \ {Current}
        /\ UNCHANGED <<repoVars, datasetVars, target, pc, mode, wanted, imported, result,
                       received, boundVars>>

Needs == /\ pc = "node" /\ todo # {}
         /\ Current \in ids
         /\ ~ Foreign(Current)
         /\ Here(Original(Current)) => ~ Skips
         /\ pc' = "open"
         /\ UNCHANGED <<repoVars, datasetVars, target, commandVars, result, boundVars>>

NodeFails == /\ pc = "node" /\ todo # {}
             /\ Current \notin ids \/ Foreign(Current)
             /\ Ends("failed")
             /\ UNCHANGED <<repoVars, datasetVars, target, boundVars>>

(* The payload is opened, and restoreDiff() verifies the parent. *)
CanOpen == /\ Current \in payloads
           /\ Current # 0 => Parent(Current) \in ids /\ Here(Original(Parent(Current)))

Open == /\ pc = "open"
        /\ CanOpen
        /\ pc' = "receive"
        /\ UNCHANGED <<repoVars, datasetVars, target, commandVars, result, boundVars>>

OpenFails == /\ pc = "open"
             /\ ~ CanOpen
             /\ Ends("failed")
             /\ UNCHANGED <<repoVars, datasetVars, target, boundVars>>

(***************************************************************************)
(* zfs receive -F.  A full stream needs a dataset without snapshots; a     *)
(* difference needs its base, and takes everything newer away.  The name   *)
(* must be free.  A receive that fails leaves the snapshots as they are.   *)
(***************************************************************************)
CanReceive == /\ ~ NameTaken(<<"source", Current>>)
              /\ IF Current = 0 THEN history = << >>
                                ELSE Here(Original(Parent(Current)))

Base == IF Current = 0 THEN << >>
                       ELSE SubSeq(history, 1, Position(Original(Parent(Current))))

Receive == /\ pc = "receive"
           /\ CanReceive
           /\ history' = Append(Base, Original(Current))
           /\ dirty' = FALSE
           /\ received' = TRUE
           /\ IF mode = "restore" THEN pc' = "node" /\ todo' = todo \ {Current}
                                  ELSE pc' = "import" /\ todo' = todo
           /\ UNCHANGED <<repoVars, fresh, target, mode, wanted, imported, result, boundVars>>

ZfsFails == faults < MaxFaults /\ faults' = faults + 1

ReceiveFails == /\ pc = "receive"
                /\ IF CanReceive THEN ZfsFails ELSE UNCHANGED faults
                /\ Ends("failed")
                /\ UNCHANGED <<repoVars, datasetVars, target, disturbed, crashes, meddled>>

-----------------------------------------------------------------------------
(***************************************************************************)
(* snapshot_import(), run for each node while export_repository() waits.   *)
(* The node is stored by adopting the snapshot just received, or by taking *)
(* another one.  store_snapshot() is one step here (SnapshotCommand has    *)
(* its steps); the temporary files of one that is cut short are not in the *)
(* way of another import, a snapshot that it has taken is.                 *)
(***************************************************************************)
Adopt == /\ pc = "import" /\ mode = "adopt"
         /\ target[Current] = Nothing
         /\ imported' = Original(Current)
         /\ pc' = "store"
         /\ UNCHANGED <<repoVars, datasetVars, target, mode, wanted, todo, received, result,
                        boundVars>>

(* zfs snapshot: a name that is taken makes it, and the import, fail.  The  *)
(* driver goes on with a snapshot of that name only if zfs cannot be run at *)
(* all, and then there is none: the receive has taken away all that came    *)
(* after the base, and so all that an import had created.                   *)
Create == /\ pc = "import" /\ mode = "create"
          /\ target[Current] = Nothing
          /\ ~ NameTaken(<<"target", Current>>)
          /\ imported' = Snapshot("target", Current, fresh)
          /\ history' = Append(history, imported')
          /\ dirty' = FALSE
          /\ fresh' = fresh + 1
          /\ pc' = "store"
          /\ UNCHANGED <<repoVars, target, mode, wanted, todo, received, result, boundVars>>

(* What the target's id file says of the parent. *)
ParentStored == Snapshot(imported.name[1], Parent(Current), target[Parent(Current)].to)

CanStore == /\ Here(imported)
            /\ Current # 0 => /\ target[Parent(Current)] # Nothing
                              /\ Here(ParentStored)
                              /\ Position(ParentStored) < Position(imported)

(* Then the exporting process goes on with the next node.                   *)
Store == /\ pc = "store"
         /\ CanStore
         /\ target' = [target EXCEPT ![Current] =
                         [from |-> IF Current = 0 THEN Nothing ELSE ParentStored.guid,
                          to   |-> imported.guid]]
         /\ todo' = todo \ {Current}
         /\ pc' = "node"
         /\ UNCHANGED <<repoVars, datasetVars, mode, wanted, imported, received, result,
                        boundVars>>

ImportCannot == \/ pc = "import" /\ target[Current] # Nothing
                \/ pc = "import" /\ mode = "create" /\ NameTaken(<<"target", Current>>)
                \/ pc = "store" /\ ~ CanStore

(* Faulty: the exporting process does not look at the exit status. *)
FaultyImportFails == /\ pc \in {"import", "store"}
                     /\ IF ImportCannot THEN UNCHANGED faults ELSE ZfsFails
                     /\ todo' = todo \ {Current}
                     /\ pc' = "node"
                     /\ UNCHANGED <<repoVars, datasetVars, target, mode, wanted, imported,
                                    received, result, disturbed, crashes, meddled>>

ImportFails == /\ pc \in {"import", "store"}
               /\ IF ImportCannot THEN UNCHANGED faults ELSE ZfsFails
               /\ Ends("failed")
               /\ UNCHANGED <<repoVars, datasetVars, target, disturbed, crashes, meddled>>

-----------------------------------------------------------------------------
(***************************************************************************)
(* The dataset is its user's.                                              *)
(***************************************************************************)
UserActs == /\ meddled < MaxMeddling
            /\ meddled' = meddled + 1
            /\ disturbed' = TRUE
            /\ UNCHANGED <<repoVars, target, pc, commandVars, result, faults, crashes>>

UserWrites == UserActs /\ dirty' = TRUE /\ UNCHANGED <<history, fresh>>

(* Any snapshot, also under a name that is a node's.                        *)
UserTakes(n) == /\ UserActs
                /\ ~ NameTaken(<<"source", n>>)
                /\ history' = Append(history, Snapshot("source", n, fresh))
                /\ fresh' = fresh + 1
                /\ dirty' = FALSE

UserDestroys(i) == /\ UserActs
                   /\ history' = SubSeq(history, 1, i - 1) \o
                                 SubSeq(history, i + 1, Len(history))
                   /\ dirty' \in {dirty, TRUE}
                   /\ UNCHANGED fresh

Crash == /\ pc # "idle"
         /\ crashes < MaxCrashes
         /\ crashes' = crashes + 1
         /\ Ends("none")
         /\ UNCHANGED <<repoVars, datasetVars, target, disturbed, faults, meddled>>

-----------------------------------------------------------------------------
Command == \/ Succeeds \/ Skip \/ Needs \/ NodeFails \/ Open \/ OpenFails
           \/ Receive \/ ReceiveFails
           \/ Adopt \/ Create \/ Store \/ ImportFails

User == \/ UserWrites
        \/ \E n \in Nodes : UserTakes(n)
        \/ \E i \in DOMAIN history : UserDestroys(i)

Next == \/ \E n \in Wanted : StartRestore(n)
        \/ \E m \in {"adopt", "create"} : StartExport(m)
        \/ Command \/ User \/ Crash

Spec == Init /\ [][Next]_vars

(* A process that runs is scheduled.  Who needs a node tries again until it *)
(* is there, whatever else is run in between.                               *)
FairSpec == /\ Spec
            /\ WF_vars(Command)
            /\ \A n \in Wanted : SF_vars(StartRestore(n))

-----------------------------------------------------------------------------
TypeOK == /\ dirs \subseteq Nodes /\ ids \subseteq dirs /\ payloads \subseteq dirs
          /\ history \in Seq(Snapshots)
          /\ dirty \in BOOLEAN
          /\ fresh \in Nat
          /\ target \in [Nodes -> [from : Nat \cup {Nothing}, to : Nat] \cup {Nothing}]
          /\ pc \in ControlStates
          /\ mode \in {"restore", "adopt", "create"}
          /\ wanted \in Wanted \cup 0..Last /\ todo \subseteq 0..wanted
          /\ imported \in Snapshots \cup {Nothing}
          /\ pc \notin {"idle", "node"} => todo # {}
          /\ pc = "store" => imported # Nothing
          /\ result \in {"none", "restored", "exported", "failed"}
          /\ received \in BOOLEAN /\ disturbed \in BOOLEAN
          /\ faults \in 0..MaxFaults
          /\ crashes \in 0..MaxCrashes
          /\ meddled \in 0..MaxMeddling

Latest(s) == history # << >> /\ history[Len(history)] = s

(* A restore that reports success has left the node wanted in the dataset,  *)
(* although the streams it received took newer snapshots away; and if it    *)
(* received any, the dataset is at that node.                               *)
RestoreReaches ==
  result = "restored" /\ ~ disturbed =>
    /\ Here(Original(wanted))
    /\ received => Latest(Original(wanted)) /\ ~ dirty

(* What has been imported so far is what the export comes to first, with    *)
(* each stream leading from the snapshot that is stored for the parent.     *)
TargetIsPrefix ==
  \A n \in Nodes :
    target[n] # Nothing =>
      /\ \A k \in Exportable : k < n => target[k] # Nothing
      /\ target[n].from = IF n = 0 THEN Nothing ELSE target[Parent(n)].to

(* An export that reports success has copied every node there was to copy,  *)
(* stream for stream (test/integration-test/test.sh:145-149).               *)
ExportCopies ==
  result = "exported" /\ mode = "adopt" =>
    \A n \in Nodes :
      target[n] = IF n \notin Exportable THEN Nothing
                  ELSE [from |-> IF n = 0 THEN Nothing ELSE Parent(n), to |-> n]

(* Nothing but another snapshot in the way keeps a stored node from being   *)
(* restored in the end: "At any point, a snapshot from the repository can   *)
(* be recovered to a given dataset" (README.md:304-305).                    *)
InTheWay(n) == \/ history # << >> /\ ~ Here(Original(0))
               \/ \E k \in Path(n) : Foreign(k)

RestoredInTheEnd ==
  \A n \in Wanted : Path(n) \subseteq ids \cap payloads =>
                      <>((result = "restored" /\ wanted = n) \/ InTheWay(n))
=============================================================================
