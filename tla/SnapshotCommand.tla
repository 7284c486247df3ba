--------------------------- MODULE SnapshotCommand ---------------------------
(***************************************************************************)
(* The "snapshot" command: Controller.cpp's snapshot() and _snapshot() on  *)
(* a repository directory (RepositoryStructure.cpp) and a zfs dataset      *)
(* (ZfsDriver.cpp).  The process holds the repository lock from start to   *)
(* end, so one command runs at a time; a step is one system call that      *)
(* changes a file or the dataset, or one check that can fail.              *)
(*                                                                         *)
(* Around the command: the process or the machine stops between any two    *)
(* steps (Crash), zfs fails, the user destroys snapshots of the dataset or *)
(* rolls it back, and the repository directory is put back to an earlier   *)
(* filesystem checkpoint while the dataset stays as it is                  *)
(* (BackendDriver.hpp:168-171).                                            *)
(*                                                                         *)
(* What is abstracted: a snapshot's content is the guid zfs gives it, a    *)
(* payload file is the pair of guids that its send stream leads from and   *)
(* to, an id file is the guid it records.  A file that was opened and not  *)
(* written to its end is Torn.                                             *)
(***************************************************************************)
EXTENDS FenwickTree

CONSTANTS
  MaxNode,       \* bound: the dataset is full when this node is reached
  MaxCrashes,    \* bound on crashes
  MaxFaults,     \* bound on failures to run zfs, and of zfs itself
  MaxMeddling,   \* bound on the user's changes of the dataset
  UserNodes,     \* bound: the nodes whose snapshots the user destroys or rolls back to
  MaxRestores,   \* bound on repository directories put back
  CheckpointAt,  \* the control states in which the checkpoint may be taken
  NoFile,        \* the file, snapshot or value is absent
  Torn           \* the content of a file not yet written to its end

Nodes == 0..MaxNode
Guids == Nat
Diffs == [base : Guids \cup {NoFile}, target : Guids]

ControlStates == {"idle", "next", "prune", "destroy", "parent", "take", "guid",
                  "clear_temp", "open_payload", "verify", "send", "open_id",
                  "write_id", "rename", "open_crumb", "write_crumb"}

Results == {"none", "running", "ok", "crashed", "torn_breadcrumb",
            "parent_not_stored", "parent_not_in_dataset", "zfs_failed",
            "name_taken", "snapshot_changed", "node_exists"}

ASSUME BoundsAssumption == /\ MaxNode \in Nat
                           /\ MaxCrashes \in Nat
                           /\ MaxFaults \in Nat
                           /\ MaxMeddling \in Nat
                           /\ UserNodes \subseteq Nodes
                           /\ MaxRestores \in Nat
                           /\ CheckpointAt \subseteq ControlStates

ASSUME FileAssumption == /\ NoFile \notin Guids \cup Diffs
                         /\ Torn \notin Guids \cup Diffs
                         /\ NoFile # Torn

VARIABLES
  \* The repository directory.
  dirs,        \* the nodes n for which snapshots/n exists
  idFile,      \* snapshots/n/id
  payload,     \* snapshots/n/payload
  temp,        \* the temporary snapshot directory
  bread,       \* the breadcrumb file
  saved,       \* the checkpoint of the repository directory, or NoFile
  \* The dataset.
  dataset,     \* the guid of the snapshot named after each node
  nextGuid,    \* the guid zfs gives to the next snapshot
  \* The process.
  pc,          \* where the command is
  crumb,       \* breadcrumb.untrusted_begin in memory, also the new node
  victims,     \* what prune() has still to delete
  parentGuid,  \* maybeParentSnapshotId
  snapGuid,    \* the guid in snapshotId
  old,         \* already_old
  asOf,        \* nextGuid when the command began (history variable)
  result,      \* how the last command ended
  \* How much of each bound is used.
  crashes, faults, meddled, restores

repoVars    == <<dirs, idFile, payload, temp, bread>>
datasetVars == <<dataset, nextGuid>>
localVars   == <<crumb, victims, parentGuid, snapGuid, old, asOf>>
boundVars   == <<saved, crashes, faults, meddled, restores>>
vars == <<repoVars, datasetVars, pc, localVars, result, boundVars>>

NoTemp == [dir |-> FALSE, id |-> NoFile, payload |-> NoFile]

Repository == [dirs |-> dirs, idFile |-> idFile, payload |-> payload,
               temp |-> temp, bread |-> bread]

Init == /\ dirs = {}
        /\ idFile = [n \in Nodes |-> NoFile]
        /\ payload = [n \in Nodes |-> NoFile]
        /\ temp = NoTemp
        /\ bread = NoFile
        /\ saved = NoFile
        /\ dataset = [n \in Nodes |-> NoFile]
        /\ nextGuid = 0
        /\ pc = "idle"
        /\ crumb = 0 /\ victims = {} /\ parentGuid = NoFile
        /\ snapGuid = NoFile /\ old = FALSE /\ asOf = 0
        /\ result = "none"
        /\ crashes = 0 /\ faults = 0 /\ meddled = 0 /\ restores = 0

(* The breadcrumb a file holds: without a file, node 0. *)
CrumbOf(file) == IF file = NoFile THEN 0 ELSE file

(* The process ends: its memory is gone and the lock is released. *)
End(how) == /\ pc' = "idle"
            /\ result' = how
            /\ crumb' = 0 /\ victims' = {} /\ parentGuid' = NoFile
            /\ snapGuid' = NoFile /\ old' = FALSE /\ asOf' = 0

Fail(why) == End(why) /\ UNCHANGED <<repoVars, datasetVars, boundVars>>

Goto(next) == pc' = next /\ UNCHANGED <<result, boundVars>>

-----------------------------------------------------------------------------
(* The lock is taken and the breadcrumb file is read. *)
Start == /\ pc = "idle"
         /\ bread # Torn
         /\ pc' = "next"
         /\ result' = "running"
         /\ crumb' = CrumbOf(bread)
         /\ asOf' = nextGuid
         /\ UNCHANGED <<repoVars, datasetVars, boundVars,
                        victims, parentGuid, snapGuid, old>>

(* Deserialising a breadcrumb file that was cut short throws. *)
StartFails == /\ pc = "idle"
              /\ bread = Torn
              /\ Fail("torn_breadcrumb")

(* getNextSnapshotNode() when the node at the breadcrumb is stored: prev is  *)
(* set to the node that was just read, which is prev.                        *)
FindNextOccupied == /\ pc = "next"
                    /\ idFile[crumb] # NoFile
                    /\ crumb' = crumb
                    /\ Goto("next")
                    /\ UNCHANGED <<repoVars, datasetVars,
                                   victims, parentGuid, snapGuid, old, asOf>>

(* The definitions named Faulty... are slips that the code could contain;   *)
(* put in the place of the definition after them, each makes a property     *)
(* below fail.                                                              *)

(* Faulty: the victims of the newest node instead of the new one.           *)
FaultyFindNextLate == /\ pc = "next"
                      /\ idFile[crumb] = NoFile
                      /\ victims' = IF crumb = 0 THEN {} ELSE Pruned(crumb - 1)
                      /\ Goto("prune")
                      /\ UNCHANGED <<repoVars, datasetVars,
                                     crumb, parentGuid, snapGuid, old, asOf>>

(* getNextSnapshotNode() returns, and the controller's prune() asks for the  *)
(* victims of the breadcrumb's node; there are none when it is 0.            *)
FindNextFree == /\ pc = "next"
                /\ idFile[crumb] = NoFile
                /\ victims' = IF crumb = 0 THEN {} ELSE Pruned(crumb)
                /\ Goto("prune")
                /\ UNCHANGED <<repoVars, datasetVars,
                               crumb, parentGuid, snapGuid, old, asOf>>

(* The victims are taken greatest first. *)
IsNextVictim(v) == v \in victims /\ \A w \in victims : w <= v

(* remove_all() unlinks the files of the node's directory in any order...  *)
UnlinkId(v) == /\ pc = "prune"
               /\ IsNextVictim(v)
               /\ idFile[v] # NoFile
               /\ idFile' = [idFile EXCEPT ![v] = NoFile]
               /\ Goto("prune")
               /\ UNCHANGED <<dirs, payload, temp, bread, datasetVars, localVars>>

UnlinkPayload(v) == /\ pc = "prune"
                    /\ IsNextVictim(v)
                    /\ payload[v] # NoFile
                    /\ payload' = [payload EXCEPT ![v] = NoFile]
                    /\ Goto("prune")
                    /\ UNCHANGED <<dirs, idFile, temp, bread, datasetVars, localVars>>

(* ... and then the directory, which may not have existed at all. *)
RemoveDir(v) == /\ pc = "prune"
                /\ IsNextVictim(v)
                /\ idFile[v] = NoFile
                /\ payload[v] = NoFile
                /\ dirs' = dirs \ {v}
                /\ Goto("destroy")
                /\ UNCHANGED <<idFile, payload, temp, bread, datasetVars, localVars>>

(* Faulty: without an id file the loop goes on with the same victim.        *)
FaultyDestroySnapshot(v) == /\ pc = "destroy"
                            /\ IsNextVictim(v)
                            /\ idFile[v] = NoFile
                            /\ Goto("prune")
                            /\ UNCHANGED <<repoVars, datasetVars, localVars>>

(* The id file is read again, and if there is one the snapshot it names is  *)
(* destroyed; a snapshot that does not exist is passed over, one that has   *)
(* another guid than the id file records ends the command.                  *)
DestroySnapshot(v) ==
  /\ pc = "destroy"
  /\ IsNextVictim(v)
  /\ IF idFile[v] # NoFile /\ dataset[v] \notin {idFile[v], NoFile}
       THEN Fail("snapshot_changed")
       ELSE /\ dataset' = IF idFile[v] # NoFile THEN [dataset EXCEPT ![v] = NoFile]
                                                ELSE dataset
            /\ victims' = victims \ {v}
            /\ Goto("prune")
            /\ UNCHANGED <<repoVars, nextGuid, crumb, parentGuid, snapGuid, old, asOf>>

PruneDone == /\ pc = "prune"
             /\ victims = {}
             /\ Goto("parent")
             /\ UNCHANGED <<repoVars, datasetVars, localVars>>

(* The new node's parent must be stored, and the snapshot its id file names *)
(* must still be the one in the dataset.                                    *)
ParentInDataset == dataset[Parent(crumb)] = idFile[Parent(crumb)]

(* Faulty: the dataset is not asked for the parent's snapshot. *)
FaultyCheckParent == /\ pc = "parent"
                     /\ crumb # 0 => idFile[Parent(crumb)] # NoFile
                     /\ parentGuid' = IF crumb = 0 THEN NoFile ELSE idFile[Parent(crumb)]
                     /\ Goto("take")
                     /\ UNCHANGED <<repoVars, datasetVars, crumb, victims,
                                    snapGuid, old, asOf>>

CheckParent == /\ pc = "parent"
               /\ crumb # 0 => idFile[Parent(crumb)] # NoFile /\ ParentInDataset
               /\ parentGuid' = IF crumb = 0 THEN NoFile ELSE idFile[Parent(crumb)]
               /\ Goto("take")
               /\ UNCHANGED <<repoVars, datasetVars, crumb, victims,
                              snapGuid, old, asOf>>

CheckParentFails == /\ pc = "parent"
                    /\ crumb # 0
                    /\ idFile[Parent(crumb)] = NoFile \/ ~ ParentInDataset
                    /\ Fail(IF idFile[Parent(crumb)] = NoFile  THEN "parent_not_stored"
                       ELSE IF dataset[Parent(crumb)] = NoFile THEN "parent_not_in_dataset"
                       ELSE "snapshot_changed")

(* zfs snapshot succeeds on a name that is not taken.  *)
TakeFresh == /\ pc = "take"
             /\ dataset[crumb] = NoFile
             /\ crumb < MaxNode
             /\ dataset' = [dataset EXCEPT ![crumb] = nextGuid]
             /\ nextGuid' = nextGuid + 1
             /\ old' = FALSE
             /\ Goto("guid")
             /\ UNCHANGED <<repoVars, crumb, victims, parentGuid, snapGuid, asOf>>

(* Faulty: the exit status of zfs snapshot is not looked at. *)
FaultyTakeRefused == /\ pc = "take"
                     /\ dataset[crumb] # NoFile
                     /\ old' = FALSE
                     /\ Goto("guid")
                     /\ UNCHANGED <<repoVars, datasetVars, crumb, victims,
                                    parentGuid, snapGuid, asOf>>

(* zfs snapshot exits with a failure because the name is taken.  That is a  *)
(* command_failed, a runtime_error: the driver catches system_error only    *)
(* (ZfsDriver.cpp:174), so that the command ends here and the snapshot that *)
(* is there already is not asked for.                                       *)
TakeRefused == /\ pc = "take"
               /\ dataset[crumb] # NoFile
               /\ Fail("name_taken")

(* zfs snapshot exits with a failure for another reason, with the same end. *)
(* It always does when the bound MaxNode is reached.                        *)
TakeFails == /\ pc = "take"
             /\ dataset[crumb] = NoFile
             /\ crumb = MaxNode \/ faults < MaxFaults
             /\ faults' = IF crumb = MaxNode THEN faults ELSE faults + 1
             /\ End("zfs_failed")
             /\ UNCHANGED <<repoVars, datasetVars, saved, crashes, meddled, restores>>

(* zfs cannot be run at all: no pipe, no process, no such program.  This is *)
(* the system_error that the driver keeps as maybe_exception.               *)
TakeNotRun == /\ pc = "take"
              /\ faults < MaxFaults
              /\ faults' = faults + 1
              /\ old' = TRUE
              /\ pc' = "guid"
              /\ UNCHANGED <<repoVars, datasetVars, crumb, victims, parentGuid,
                             snapGuid, asOf, result, saved, crashes, meddled, restores>>

(* zfs get guid, after a new snapshot or after zfs could not be run: if a   *)
(* snapshot of the name is there, the command goes on with it, and if not,  *)
(* the failure of either ends it.                                           *)
ReadGuid == /\ pc = "guid"
            /\ dataset[crumb] # NoFile
            /\ snapGuid' = dataset[crumb]
            /\ Goto("clear_temp")
            /\ UNCHANGED <<repoVars, datasetVars, crumb, victims, parentGuid, old, asOf>>

ReadGuidFails == /\ pc = "guid"
                 /\ dataset[crumb] = NoFile
                 /\ Fail("zfs_failed")

(* The temporary directory is emptied, or made; a new payload is opened. *)
ClearTemp == /\ pc = "clear_temp"
             /\ temp' = [NoTemp EXCEPT !.dir = TRUE]
             /\ Goto("open_payload")
             /\ UNCHANGED <<dirs, idFile, payload, bread, datasetVars, localVars>>

OpenPayload == /\ pc = "open_payload"
               /\ temp' = [temp EXCEPT !.payload = Torn]
               /\ Goto("verify")
               /\ UNCHANGED <<dirs, idFile, payload, bread, datasetVars, localVars>>

(* castAndVerify() of both ends of the stream. *)
EndsUnchanged == /\ crumb # 0 => dataset[Parent(crumb)] = parentGuid
                 /\ dataset[crumb] = snapGuid

Verify == /\ pc = "verify"
          /\ EndsUnchanged
          /\ Goto("send")
          /\ UNCHANGED <<repoVars, datasetVars, localVars>>

VerifyFails == /\ pc = "verify"
               /\ ~ EndsUnchanged
               /\ Fail("snapshot_changed")

(* zfs send names the snapshots, it does not know their guids. *)
EndsExist == /\ crumb # 0 => dataset[Parent(crumb)] # NoFile
             /\ dataset[crumb] # NoFile

(* Faulty: the stream leads from the newest node, not from the parent. *)
FaultyStream == [base   |-> IF crumb = 0 THEN NoFile ELSE dataset[crumb - 1],
                 target |-> dataset[crumb]]

Stream == [base   |-> IF crumb = 0 THEN NoFile ELSE dataset[Parent(crumb)],
           target |-> dataset[crumb]]

Send == /\ pc = "send"
        /\ EndsExist
        /\ temp' = [temp EXCEPT !.payload = Stream]
        /\ Goto("open_id")
        /\ UNCHANGED <<dirs, idFile, payload, bread, datasetVars, localVars>>

(* Faulty: the exit status of the sending process is not looked at. *)
FaultySendFails == /\ pc = "send"
                   /\ ~ EndsExist \/ faults < MaxFaults
                   /\ faults' = IF EndsExist THEN faults + 1 ELSE faults
                   /\ pc' = "open_id"
                   /\ UNCHANGED <<repoVars, datasetVars, localVars, result,
                                  saved, crashes, meddled, restores>>

SendFails == /\ pc = "send"
             /\ ~ EndsExist \/ faults < MaxFaults
             /\ faults' = IF EndsExist THEN faults + 1 ELSE faults
             /\ End("zfs_failed")
             /\ UNCHANGED <<repoVars, datasetVars, saved, crashes, meddled, restores>>

(* Faulty: the id file is created and not written. *)
FaultyOpenId == /\ pc = "open_id"
                /\ temp' = [temp EXCEPT !.id = Torn]
                /\ Goto("rename")
                /\ UNCHANGED <<dirs, idFile, payload, bread, datasetVars, localVars>>

(* writefile() of the id file: open with O_TRUNC, then write. *)
OpenId == /\ pc = "open_id"
          /\ temp' = [temp EXCEPT !.id = Torn]
          /\ Goto("write_id")
          /\ UNCHANGED <<dirs, idFile, payload, bread, datasetVars, localVars>>

WriteId == /\ pc = "write_id"
           /\ temp' = [temp EXCEPT !.id = snapGuid]
           /\ Goto("rename")
           /\ UNCHANGED <<dirs, idFile, payload, bread, datasetVars, localVars>>

(* rename() replaces an empty directory and refuses one with files in it. *)
TargetFree == crumb \in dirs => idFile[crumb] = NoFile /\ payload[crumb] = NoFile

Publish == /\ dirs' = dirs \cup {crumb}
           /\ idFile' = [idFile EXCEPT ![crumb] = temp.id]
           /\ payload' = [payload EXCEPT ![crumb] = temp.payload]
           /\ temp' = NoTemp
           /\ Goto("open_crumb")
           /\ UNCHANGED <<bread, datasetVars, localVars>>

Rename == /\ pc = "rename"
          /\ IF TargetFree THEN Publish ELSE Fail("node_exists")

(* writefile() of the breadcrumb file: open with O_TRUNC, then write. *)
OpenCrumb == /\ pc = "open_crumb"
             /\ bread' = Torn
             /\ Goto("write_crumb")
             /\ UNCHANGED <<dirs, idFile, payload, temp, datasetVars, localVars>>

(* snapshot() takes another snapshot when this one was already there, which  *)
(* it knows only of one that was left there before zfs could not be run.    *)
WriteCrumb == /\ pc = "write_crumb"
              /\ bread' = crumb + 1
              /\ UNCHANGED <<dirs, idFile, payload, temp, datasetVars, boundVars>>
              /\ \/ /\ old
                    /\ pc' = "next"
                    /\ crumb' = crumb + 1
                    /\ UNCHANGED <<result, victims, parentGuid, snapGuid, old, asOf>>
                 \/ /\ ~ old
                    /\ End("ok")

-----------------------------------------------------------------------------
(* Any exception, signal or power cut that ends the process between two     *)
(* steps; what was written stays.                                           *)
Crash == /\ pc # "idle"
         /\ crashes < MaxCrashes
         /\ crashes' = crashes + 1
         /\ End("crashed")
         /\ UNCHANGED <<repoVars, datasetVars, saved, faults, meddled, restores>>

(* The user destroys one snapshot, or rolls the dataset back to one and so  *)
(* destroys the later ones.                                                 *)
UserChanges(n, kept) == /\ dataset[n] # NoFile
                        /\ meddled < MaxMeddling
                        /\ meddled' = meddled + 1
                        /\ dataset' = [m \in Nodes |-> IF m \in kept THEN dataset[m]
                                                                     ELSE NoFile]
                        /\ UNCHANGED <<repoVars, nextGuid, pc, localVars, result,
                                       saved, crashes, faults, restores>>

UserDestroys(n) == UserChanges(n, Nodes \ {n})

UserRollsBack(n) == UserChanges(n, {m \in Nodes : dataset[m] \in Guids
                                                   /\ dataset[m] <= dataset[n]})

(* The filesystem below the repository is checkpointed once, at any time,   *)
(* and put back when no command runs.                                       *)
Checkpoint == /\ pc \in CheckpointAt
              /\ saved = NoFile
              /\ saved' = Repository
              /\ UNCHANGED <<repoVars, datasetVars, pc, localVars, result,
                             crashes, faults, meddled, restores>>

PutBack == /\ pc = "idle"
           /\ saved # NoFile
           /\ restores < MaxRestores
           /\ restores' = restores + 1
           /\ dirs' = saved.dirs
           /\ idFile' = saved.idFile
           /\ payload' = saved.payload
           /\ temp' = saved.temp
           /\ bread' = saved.bread
           /\ UNCHANGED <<datasetVars, pc, localVars, result,
                          saved, crashes, faults, meddled>>

-----------------------------------------------------------------------------
Command == \/ FindNextOccupied \/ FindNextFree
           \/ \E v \in victims : \/ UnlinkId(v) \/ UnlinkPayload(v)
                                 \/ RemoveDir(v) \/ DestroySnapshot(v)
           \/ PruneDone
           \/ CheckParent \/ CheckParentFails
           \/ TakeFresh \/ TakeRefused \/ TakeFails \/ TakeNotRun
           \/ ReadGuid \/ ReadGuidFails
           \/ ClearTemp \/ OpenPayload
           \/ Verify \/ VerifyFails
           \/ Send \/ SendFails
           \/ OpenId \/ WriteId
           \/ Rename
           \/ OpenCrumb \/ WriteCrumb

Environment == \/ Crash
               \/ \E n \in UserNodes : UserDestroys(n) \/ UserRollsBack(n)
               \/ Checkpoint \/ PutBack

Next == Start \/ StartFails \/ Command \/ Environment

(* A command that runs is scheduled; nobody has to start one. *)
Spec == Init /\ [][Next]_vars /\ WF_vars(Command)

-----------------------------------------------------------------------------
Files(contents) == contents \cup {NoFile}

Temps == [dir     : BOOLEAN,
          id      : Files(Guids \cup {Torn}),
          payload : Files(Diffs \cup {Torn})]

Repositories == [dirs    : SUBSET Nodes,
                 idFile  : [Nodes -> Files(Guids)],
                 payload : [Nodes -> Files(Diffs)],
                 temp    : Temps,
                 bread   : Files(Nodes \cup {Torn})]

(* The types; among them, that no node is ever published with an id file or *)
(* a payload that was cut short.                                            *)
TypeOK == /\ Repository \in Repositories
          /\ saved \in Files(Repositories)
          /\ dataset \in [Nodes -> Files(Guids)]
          /\ nextGuid \in Nat
          /\ pc \in ControlStates
          /\ crumb \in Nodes
          /\ victims \subseteq Nodes \ {0}
          /\ parentGuid \in Files(Guids)
          /\ snapGuid \in Files(Guids)
          /\ old \in BOOLEAN
          /\ asOf \in Nat
          /\ result \in Results
          /\ crashes \in 0..MaxCrashes
          /\ faults \in 0..MaxFaults
          /\ meddled \in 0..MaxMeddling
          /\ restores \in 0..MaxRestores

(* The nodes of a repository that are stored with their id and with the     *)
(* stream that leads to it from the snapshot that the id file of the parent *)
(* records (from nothing for the root).                                     *)
IntactIn(repo) ==
  {n \in repo.dirs :
     /\ repo.idFile[n] \in Guids
     /\ repo.payload[n] = [base   |-> IF n = 0 THEN NoFile ELSE repo.idFile[Parent(n)],
                           target |-> repo.idFile[n]]}

Intact(n) == n \in IntactIn(Repository)

IsNewest(n) == n \in dirs /\ \A m \in dirs : m <= n

(* What restore() needs: the streams below an intact node are all intact.   *)
(* Applied along the path this reaches the root.  It could fail by pruning  *)
(* in the wrong order, by a crash half way through a deletion, or by a      *)
(* stream taken from another snapshot than the one stored for the parent.   *)
ChainIntact == \A n \in dirs \ {0} : Intact(n) => Intact(Parent(n))

(* Whenever the command stops, at any step, every node that the tree keeps  *)
(* beside the newest one is intact, except those that die with the next     *)
(* node (diffmonger.hpp:42-45, test.sh:117-119).                            *)
Retention == \A n \in dirs : IsNewest(n) =>
               \A k \in 0..n : Outlives(k, n + 1) => Intact(k)

(* Nothing stays longer than the tree says, so that the repository holds    *)
(* O(log n) nodes even if prunings were cut short (test.sh:117-119).        *)
NothingOverstays == \A n, k \in dirs : IsNewest(n) => Outlives(k, n)

(* The two failures the code calls unexpected do not happen: "Node already  *)
(* exists in repository" (RepositoryStructure.cpp:148-154), and no id file  *)
(* for the parent of the new node (Controller.cpp:233-234).                 *)
NoUnexpectedFailure == result \notin {"node_exists", "parent_not_stored"}

(* A snapshot that the command looks for is missing from the dataset, or is *)
(* another one, only if the user removed it: neither a crash nor a          *)
(* repository put back to a checkpoint leads there (Controller.cpp:235-242, *)
(* BackendDriver.hpp:168-171).                                              *)
ParentLostOnlyByUser ==
  result \in {"parent_not_in_dataset", "snapshot_changed"} => meddled > 0

(* The new snapshot's name is taken only after a crash, a failure of zfs or *)
(* a directory put back; a command left alone, or met by nothing but the    *)
(* user's changes of the dataset, leaves no snapshot in the way of the next.*)
(* And unless the directory was put back it is the only one in the way: the *)
(* user who destroys it finds no other behind it.                           *)
NameTakenForCause ==
  result = "name_taken" =>
    /\ crashes > 0 \/ faults > 0 \/ restores > 0
    /\ restores = 0 => \A n \in Nodes : n > CrumbOf(bread) => dataset[n] = NoFile

(* The breadcrumb file is found cut short only if a command was stopped, or *)
(* the checkpoint was taken, between its truncation and its writing.        *)
TornForCause == result = "torn_breadcrumb" => crashes > 0 \/ restores > 0

FailsOnlyForCause == /\ NoUnexpectedFailure
                     /\ ParentLostOnlyByUser
                     /\ NameTakenForCause
                     /\ TornForCause

(* A command that reports success has stored a snapshot taken after the     *)
(* command began (Controller.cpp:257, 261-271): never one that a command    *)
(* before it left in the dataset, found because its name was taken or       *)
(* because zfs could not be run.                                            *)
SuccessIsFresh ==
  [][result' = "ok" /\ result # "ok" => idFile[crumb] \in Guids /\ idFile[crumb] >= asOf]_vars

(* Whatever happened before, every command ends, unless it begins at a node *)
(* that is stored already (StaleBreadcrumbTraversed): no loop over victims, *)
(* and not the one over old snapshots, runs for ever.                       *)
AtStoredNode == pc = "next" /\ idFile[crumb] # NoFile

CommandEnds == pc # "idle" ~> pc = "idle" \/ AtStoredNode

(* The comment in ZfsDriver::snapshot(): "perhaps it's because the snapshot *)
(* already existed.  Assume that is the case and continue"                  *)
(* (ZfsDriver.cpp:176-179).  It does not continue: that failure is not of   *)
(* the type it catches.                                                     *)
ExistingIsAdopted == result # "name_taken"

(* The comment in RepositoryStructure::commit(): "If the breadcrumb is      *)
(* stale, the Controller will safely traverse until it reaches the end"     *)
(* (RepositoryStructure.cpp:180-183).  It does not.                         *)
StaleBreadcrumbTraversed == pc = "next" ~> pc # "next"

(* The same comment: "it is okay if the following never happens (e.g., due  *)
(* to unexpected interrupt, poweroff, etc)".  Between the truncation of the *)
(* breadcrumb file and its writing it is not okay: the next command cannot  *)
(* read the repository (TornForCause is the other half, that nothing else   *)
(* leads there).                                                            *)
RepositoryOpens == pc = "idle" => bread # Torn

(* The comment at Controller.cpp:221-224: the victim's snapshot is being    *)
(* deleted too ("we're trying to delete it anyway").  It is not: its id is  *)
(* looked for after the node's directory was removed.                       *)
VictimsLeaveDataset ==
  pc = "parent" /\ crumb # 0 => \A v \in Pruned(crumb) : dataset[v] = NoFile

(* The directory keeps the promise of BackupHistory: what can be restored   *)
(* is what is intact, and a crash, a failure or an interrupted deletion is  *)
(* no step of the history or one that it allows.                            *)
After(nodes) == IF nodes = {} THEN 0
                ELSE 1 + CHOOSE n \in nodes : \A m \in nodes : m <= n

History == INSTANCE BackupHistory WITH
  next    <- After(dirs),
  kept    <- IntactIn(Repository),
  archive <- IF saved = NoFile THEN <<>> ELSE <<After(saved.dirs), IntactIn(saved)>>

KeepsHistory == History!Spec

=============================================================================
