----------------------- MODULE SnapshotCommandProofs -----------------------
(***************************************************************************)
(* IInv is an inductive invariant of SnapshotCommand, for every value of   *)
(* the bounds, and the safety properties of the repository follow from it. *)
(*                                                                         *)
(* The argument rests on one fact about the tree, AncestorsOutlive: a      *)
(* parent lives longer than its children.  So the deletion of a node whose *)
(* time has come touches no payload that has to stay readable, however far *)
(* the deletion gets; and a node that is stored has all it rests on.       *)
(***************************************************************************)
EXTENDS SnapshotCommand, FenwickTreeProofs, FiniteSetTheorems

(***************************************************************************)
(* The inductive invariant.  A repository is valid for node b when b is    *)
(* the node that comes next: the nodes stored are those that live until b  *)
(* or longer, those that live longer are intact, and if b is stored        *)
(* already (its breadcrumb was not written) the pruning for b is over.     *)
(***************************************************************************)
ValidFor(repo, b) ==
  /\ \A n \in repo.dirs : n <= b /\ (n = 0 \/ Demise(n) >= b)
  /\ \A n \in Nodes : n < b /\ Outlives(n, b) => n \in IntactIn(repo)
  /\ b \in repo.dirs => b \in IntactIn(repo) /\ \A n \in repo.dirs : Outlives(n, b)
  /\ \A n \in Nodes \ repo.dirs : repo.idFile[n] = NoFile /\ repo.payload[n] = NoFile

Valid(repo) == IF repo.bread = Torn THEN \E b \in Nodes : ValidFor(repo, b)
                                    ELSE ValidFor(repo, CrumbOf(repo.bread))

BeforePublish == {"parent", "take", "guid", "clear_temp", "open_payload", "verify",
                  "send", "open_id", "write_id", "rename"}
HasParent     == BeforePublish \ {"parent"}
HasSnapshot   == HasParent \ {"take", "guid"}
HasStream     == {"open_id", "write_id", "rename"}
Published     == {"open_crumb", "write_crumb"}

(* What the process remembers agrees with the repository. *)
RepoInv == /\ Valid(Repository)
           /\ saved # NoFile => Valid(saved)
           /\ pc # "idle" => /\ ValidFor(Repository, crumb)
                             /\ bread = Torn <=> pc = "write_crumb"
                             /\ bread # Torn => crumb = CrumbOf(bread)

PruneInv == /\ pc \in {"prune", "destroy"} =>
                 /\ crumb \notin dirs
                 /\ \A v \in victims : Demise(v) = crumb
                 /\ \A n \in dirs : Outlives(n, crumb) \/ n \in victims
            /\ pc = "destroy" => \A v \in victims : IsNextVictim(v) => v \notin dirs
            /\ pc \in BeforePublish =>
                 crumb \notin dirs /\ \A n \in dirs : Outlives(n, crumb)
            /\ pc \in Published => crumb \in dirs

StreamInv == /\ dataset[MaxNode] = NoFile
             /\ pc \in HasSnapshot \cup Published => crumb < MaxNode
             /\ pc \in HasParent =>
                  parentGuid = IF crumb = 0 THEN NoFile ELSE idFile[Parent(crumb)]
             /\ pc \in HasSnapshot => snapGuid \in Guids
             /\ pc = "send" =>
                  /\ crumb # 0 => dataset[Parent(crumb)] \in {parentGuid, NoFile}
                  /\ dataset[crumb] \in {snapGuid, NoFile}
             /\ pc \in HasStream =>
                  temp.payload = [base |-> parentGuid, target |-> snapGuid]
             /\ pc = "rename" => temp.id = snapGuid

(* The command's memory, the repository and its checkpoint agree at every   *)
(* step: whatever step is the last one, the files left behind are those of  *)
(* a repository whose next node is known, and every node it keeps is whole. *)
IInv == TypeOK /\ RepoInv /\ PruneInv /\ StreamInv

-----------------------------------------------------------------------------
(***************************************************************************)
(* Names for the parts of TypeOK, so that a proof unfolds what it uses.    *)
(***************************************************************************)
RepoType    == Repository \in Repositories
DatasetType == dataset \in [Nodes -> Files(Guids)] /\ nextGuid \in Nat
ProcessType == /\ pc \in ControlStates
               /\ crumb \in Nodes
               /\ victims \subseteq Nodes \ {0}
               /\ parentGuid \in Files(Guids)
               /\ snapGuid \in Files(Guids)
               /\ old \in BOOLEAN
               /\ asOf \in Nat
               /\ result \in Results
BoundType   == /\ saved \in Files(Repositories)
               /\ crashes \in 0..MaxCrashes
               /\ faults \in 0..MaxFaults
               /\ meddled \in 0..MaxMeddling
               /\ restores \in 0..MaxRestores

(* The bounds and values that stand for no node and no guid. *)
LEMMA Constants ==
  /\ MaxNode \in Nat
  /\ 0 \in Nodes
  /\ NoFile \notin Nat /\ Torn \notin Nat /\ NoFile # Torn
  /\ \A d \in Diffs : d # NoFile /\ d # Torn
BY BoundsAssumption, FileAssumption DEF Nodes, Guids

(* What the type of a repository says of each of its files. *)
LEMMA RepoParts ==
  ASSUME NEW d, NEW f, NEW p, NEW t, NEW b
  PROVE  [dirs |-> d, idFile |-> f, payload |-> p, temp |-> t, bread |-> b] \in Repositories
           <=> /\ d \subseteq Nodes
               /\ f \in [Nodes -> Files(Guids)]
               /\ p \in [Nodes -> Files(Diffs)]
               /\ t \in Temps
               /\ b \in Files(Nodes \cup {Torn})
BY DEF Repositories

(* A node of the tree has its parent among the nodes, below it. *)
LEMMA ParentNode ==
  ASSUME NEW n \in Nodes
  PROVE  /\ Parent(n) \in Nodes
         /\ Parent(n) <= n
         /\ n # 0 => Parent(n) < n
<1>1. n \in Nat
  BY Constants DEF Nodes
<1>2. Parent(n) \in Nat /\ (n # 0 => Parent(n) < n)
  BY <1>1, ParentType
<1>3. n = 0 => Parent(n) = 0
  BY DEF Parent
<1>4. QED
  BY <1>1, <1>2, <1>3, Constants DEF Nodes

(* What can happen around the command. *)
LEMMA Environments ==
  Environment => \/ Crash \/ Checkpoint \/ PutBack
                 \/ \E n \in Nodes : UserDestroys(n) \/ UserRollsBack(n)
BY BoundsAssumption, Zenon DEF Environment

-----------------------------------------------------------------------------
(***************************************************************************)
(* Which actions touch what.                                               *)
(***************************************************************************)
(* The steps that write to the repository directory. *)
LEMMA RepoWriters ==
  [Next]_vars =>
    \/ UNCHANGED repoVars
    \/ \E v \in victims : UnlinkId(v) \/ UnlinkPayload(v) \/ RemoveDir(v)
    \/ ClearTemp \/ OpenPayload \/ Send \/ OpenId \/ WriteId
    \/ (Rename /\ Publish)
    \/ OpenCrumb \/ WriteCrumb
    \/ PutBack
<1> USE DEF Start, StartFails, Fail, FindNextOccupied, FindNextFree, DestroySnapshot,
            PruneDone, CheckParent, CheckParentFails, TakeFresh, TakeRefused, TakeFails,
            TakeNotRun, ReadGuid, ReadGuidFails, Verify, VerifyFails, SendFails, Crash, UserChanges,
            Checkpoint, Rename, vars
<1> QED
  BY Zenon, Environments DEF Next, Command, UserDestroys, UserRollsBack

(* The steps that change the dataset. *)
LEMMA DatasetWriters ==
  [Next]_vars =>
    \/ UNCHANGED datasetVars
    \/ \E v \in victims : DestroySnapshot(v)
    \/ TakeFresh
    \/ \E n \in Nodes, kept \in SUBSET Nodes : UserChanges(n, kept)
<1> USE DEF Start, StartFails, Fail, FindNextOccupied, FindNextFree, UnlinkId, UnlinkPayload,
            RemoveDir, PruneDone, CheckParent, CheckParentFails, TakeRefused, TakeFails,
            TakeNotRun, ReadGuid, ReadGuidFails, ClearTemp, OpenPayload, Verify, VerifyFails, Send,
            SendFails, OpenId, WriteId, Rename, Publish, OpenCrumb, WriteCrumb, Crash,
            Checkpoint, PutBack, vars
<1>1. ASSUME NEW n \in Nodes, UserDestroys(n) \/ UserRollsBack(n)
      PROVE  \E kept \in SUBSET Nodes : UserChanges(n, kept)
  <2>1. Nodes \ {n} \in SUBSET Nodes
    OBVIOUS
  <2>2. {m \in Nodes : dataset[m] \in Guids /\ dataset[m] <= dataset[n]} \in SUBSET Nodes
    OBVIOUS
  <2>3. QED
    BY <1>1, <2>1, <2>2, Zenon DEF UserDestroys, UserRollsBack
<1> QED
  BY <1>1, Zenon, Environments DEF Next, Command

(* The steps that use up a bound or take the checkpoint. *)
LEMMA BoundWriters ==
  [Next]_vars =>
    \/ UNCHANGED boundVars
    \/ TakeFails \/ TakeNotRun \/ SendFails \/ Crash \/ Checkpoint \/ PutBack
    \/ \E n \in Nodes : UserDestroys(n) \/ UserRollsBack(n)
<1> USE DEF Start, StartFails, Fail, Goto, FindNextOccupied, FindNextFree, UnlinkId,
            UnlinkPayload, RemoveDir, DestroySnapshot, PruneDone, CheckParent,
            CheckParentFails, TakeFresh, TakeRefused, ReadGuid, ReadGuidFails,
            ClearTemp, OpenPayload, Verify, VerifyFails, Send, OpenId, WriteId,
            Rename, Publish, OpenCrumb, WriteCrumb, vars
<1> QED
  BY Zenon, Environments DEF Next, Command

-----------------------------------------------------------------------------
(***************************************************************************)
(* A step preserves the types.  Two of them rest on what the command       *)
(* remembers: it does not go on after the last node, and it publishes a    *)
(* node from files that were written to their end.                         *)
(***************************************************************************)
LEMMA RepoTypeStep ==
  TypeOK /\ StreamInv /\ [Next]_vars => RepoType'
<1> SUFFICES ASSUME TypeOK, StreamInv, [Next]_vars PROVE RepoType'
  OBVIOUS
<1>a. /\ dirs \subseteq Nodes
      /\ idFile \in [Nodes -> Files(Guids)]
      /\ payload \in [Nodes -> Files(Diffs)]
      /\ temp \in Temps
      /\ bread \in Files(Nodes \cup {Torn})
  BY RepoParts DEF TypeOK, Repository
<1>b. ASSUME /\ dirs' \subseteq Nodes
             /\ idFile' \in [Nodes -> Files(Guids)]
             /\ payload' \in [Nodes -> Files(Diffs)]
             /\ temp' \in Temps
             /\ bread' \in Files(Nodes \cup {Torn})
      PROVE  RepoType'
  BY <1>b, RepoParts DEF RepoType, Repository
<1>c. NoTemp \in Temps
  BY DEF NoTemp, Temps, Files
<1>1. CASE UNCHANGED repoVars
  BY <1>1, <1>a, <1>b DEF repoVars
<1>2. ASSUME NEW v \in victims, UnlinkId(v) \/ UnlinkPayload(v) \/ RemoveDir(v)
      PROVE  RepoType'
  <2>1. idFile' \in [Nodes -> Files(Guids)]
    BY <1>2, <1>a DEF UnlinkId, UnlinkPayload, RemoveDir, Files
  <2>2. payload' \in [Nodes -> Files(Diffs)]
    BY <1>2, <1>a DEF UnlinkId, UnlinkPayload, RemoveDir, Files
  <2>3. QED
    BY <1>2, <1>a, <1>b, <2>1, <2>2 DEF UnlinkId, UnlinkPayload, RemoveDir
<1>3. CASE ClearTemp
  <2>1. temp' \in Temps
    BY <1>3 DEF ClearTemp, NoTemp, Temps, Files
  <2>2. QED
    BY <1>3, <1>a, <1>b, <2>1 DEF ClearTemp
<1>4. CASE OpenPayload
  <2>1. temp' \in Temps
    BY <1>4, <1>a DEF OpenPayload, Temps, Files
  <2>2. QED
    BY <1>4, <1>a, <1>b, <2>1 DEF OpenPayload
<1>5. CASE Send
  <2>1. dataset[crumb] \in Guids
    BY <1>5 DEF Send, EndsExist, TypeOK, Files
  <2>2. crumb # 0 => dataset[Parent(crumb)] \in Guids
    BY <1>5, ParentNode DEF Send, EndsExist, TypeOK, Files
  <2>3. Stream \in Diffs
    BY <2>1, <2>2 DEF Stream, Diffs
  <2>4. temp' \in Temps
    BY <1>5, <1>a, <2>3 DEF Send, Temps, Files
  <2>5. QED
    BY <1>5, <1>a, <1>b, <2>4 DEF Send
<1>6. CASE OpenId
  <2>1. temp' \in Temps
    BY <1>6, <1>a DEF OpenId, Temps, Files
  <2>2. QED
    BY <1>6, <1>a, <1>b, <2>1 DEF OpenId
<1>7. CASE WriteId
  <2>1. temp' \in Temps
    BY <1>7, <1>a DEF WriteId, Temps, Files, TypeOK
  <2>2. QED
    BY <1>7, <1>a, <1>b, <2>1 DEF WriteId
<1>8. CASE Rename /\ Publish
  <2>1. snapGuid \in Guids /\ temp.id = snapGuid
        /\ temp.payload = [base |-> parentGuid, target |-> snapGuid]
    BY <1>8 DEF Rename, StreamInv, HasSnapshot, HasStream, HasParent, BeforePublish
  <2>2. temp.payload \in Diffs
    BY <2>1 DEF Diffs, TypeOK, Files
  <2>3. crumb \in Nodes
    BY DEF TypeOK
  <2>4. idFile' \in [Nodes -> Files(Guids)]
    BY <1>8, <1>a, <2>1, <2>3 DEF Publish, Files
  <2>5. payload' \in [Nodes -> Files(Diffs)]
    BY <1>8, <1>a, <2>2, <2>3 DEF Publish, Files
  <2>6. QED
    BY <1>8, <1>a, <1>b, <1>c, <2>3, <2>4, <2>5 DEF Publish
<1>9. CASE OpenCrumb
  BY <1>9, <1>a, <1>b DEF OpenCrumb, Files
<1>10. CASE WriteCrumb
  <2>1. crumb + 1 \in Nodes
    BY <1>10, Constants DEF WriteCrumb, StreamInv, Published, Nodes, TypeOK
  <2>2. QED
    BY <1>10, <1>a, <1>b, <2>1 DEF WriteCrumb, Files
<1>11. CASE PutBack
  <2>1. saved \in Repositories
    BY <1>11 DEF PutBack, TypeOK, Files
  <2>2. QED
    BY <1>11, <1>b, <2>1 DEF PutBack, Repositories
<1> QED
  BY RepoWriters, <1>1, <1>2, <1>3, <1>4, <1>5, <1>6, <1>7, <1>8, <1>9, <1>10, <1>11

LEMMA DatasetTypeStep ==
  TypeOK /\ [Next]_vars => DatasetType'
<1> SUFFICES ASSUME TypeOK, [Next]_vars PROVE DatasetType'
  OBVIOUS
<1>a. DatasetType /\ crumb \in Nodes
  BY DEF TypeOK, DatasetType
<1>1. CASE UNCHANGED datasetVars
  BY <1>1, <1>a DEF datasetVars, DatasetType
<1>2. ASSUME NEW v \in victims, DestroySnapshot(v) PROVE DatasetType'
  BY <1>2, <1>a DEF DestroySnapshot, Fail, datasetVars, DatasetType, Files
<1>3. CASE TakeFresh
  BY <1>3, <1>a DEF TakeFresh, DatasetType, Files, Guids
<1>4. ASSUME NEW n \in Nodes, NEW kept \in SUBSET Nodes, UserChanges(n, kept)
      PROVE  DatasetType'
  BY <1>4, <1>a DEF UserChanges, DatasetType, Files
<1> QED
  BY DatasetWriters, <1>1, <1>2, <1>3, <1>4

LEMMA BoundTypeStep ==
  TypeOK /\ [Next]_vars => BoundType'
<1> SUFFICES ASSUME TypeOK, [Next]_vars PROVE BoundType'
  OBVIOUS
<1>a. BoundType /\ Repository \in Repositories
  BY DEF TypeOK, BoundType
<1>b. /\ MaxCrashes \in Nat /\ MaxFaults \in Nat
      /\ MaxMeddling \in Nat /\ MaxRestores \in Nat
  BY BoundsAssumption
<1>1. CASE UNCHANGED boundVars
  BY <1>1, <1>a DEF boundVars, BoundType
<1>2. CASE TakeFails \/ TakeNotRun
  BY <1>2, <1>a, <1>b DEF TakeFails, TakeNotRun, BoundType
<1>3. CASE SendFails
  BY <1>3, <1>a, <1>b DEF SendFails, BoundType
<1>4. CASE Crash
  BY <1>4, <1>a, <1>b DEF Crash, BoundType
<1>5. CASE Checkpoint
  BY <1>5, <1>a DEF Checkpoint, BoundType, Files
<1>6. CASE PutBack
  BY <1>6, <1>a, <1>b DEF PutBack, BoundType
<1>7. ASSUME NEW n \in Nodes, UserDestroys(n) \/ UserRollsBack(n) PROVE BoundType'
  BY <1>7, <1>a, <1>b DEF UserDestroys, UserRollsBack, UserChanges, BoundType
<1> QED
  BY BoundWriters, <1>1, <1>2, <1>3, <1>4, <1>5, <1>6, <1>7

LEMMA ProcessTypeStep ==
  TypeOK /\ StreamInv /\ [Next]_vars => ProcessType'
<1> SUFFICES ASSUME TypeOK, StreamInv, [Next]_vars PROVE ProcessType'
  OBVIOUS
<1>a. ProcessType
  BY DEF TypeOK, ProcessType
<1>b. ASSUME NEW how \in Results, End(how) PROVE ProcessType'
  BY <1>b, Constants DEF End, ProcessType, ControlStates, Files
<1>c. idFile \in [Nodes -> Files(Guids)] /\ bread \in Files(Nodes \cup {Torn})
  BY RepoParts DEF TypeOK, Repository
<1>d. dataset \in [Nodes -> Files(Guids)] /\ nextGuid \in Nat
  BY DEF TypeOK
<1> USE <1>a DEF ProcessType, ControlStates, Goto, localVars
<1>1. CASE Start
  BY <1>1, <1>c, <1>d, Constants DEF Start, CrumbOf, Files, Results
<1>2. CASE StartFails \/ CheckParentFails \/ TakeRefused \/ ReadGuidFails \/ VerifyFails
  <2>1. \E how \in Results : End(how)
    BY <1>2, Zenon
       DEF StartFails, CheckParentFails, TakeRefused, ReadGuidFails, VerifyFails, Fail, Results
  <2>2. QED
    BY <2>1, <1>b
<1>3. CASE FindNextOccupied
  BY <1>3 DEF FindNextOccupied
<1>4. CASE FindNextFree
  BY <1>4, Constants DEF FindNextFree, Pruned, Nodes
<1>5. ASSUME NEW v \in victims,
             UnlinkId(v) \/ UnlinkPayload(v) \/ RemoveDir(v) \/ DestroySnapshot(v)
      PROVE  ProcessType'
  <2>1. CASE Fail("snapshot_changed")
    BY <2>1, <1>b DEF Fail, Results
  <2>2. CASE ~ Fail("snapshot_changed")
    BY <1>5, <2>2 DEF UnlinkId, UnlinkPayload, RemoveDir, DestroySnapshot
  <2>3. QED
    BY <2>1, <2>2
<1>6. CASE PruneDone
  BY <1>6 DEF PruneDone
<1>7. CASE CheckParent
  <2>1. parentGuid' \in Files(Guids)
    BY <1>7, <1>c, ParentNode DEF CheckParent, Files
  <2>2. QED
    BY <1>7, <2>1 DEF CheckParent
<1>8. CASE TakeFresh \/ TakeNotRun
  BY <1>8 DEF TakeFresh, TakeNotRun
<1>9. CASE ReadGuid
  BY <1>9, <1>d DEF ReadGuid
<1>10. CASE ClearTemp \/ OpenPayload
  BY <1>10 DEF ClearTemp, OpenPayload
<1>11. CASE Verify
  BY <1>11 DEF Verify
<1>12. CASE Send
  BY <1>12 DEF Send
<1>13. CASE TakeFails \/ SendFails
  BY <1>13, <1>b DEF TakeFails, SendFails, Results
<1>14. CASE OpenId \/ WriteId
  BY <1>14 DEF OpenId, WriteId
<1>15. CASE Rename
  <2>1. CASE Publish
    BY <1>15, <2>1 DEF Publish
  <2>2. CASE Fail("node_exists")
    BY <2>2, <1>b DEF Fail, Results
  <2>3. QED
    BY <1>15, <2>1, <2>2 DEF Rename
<1>16. CASE OpenCrumb
  BY <1>16 DEF OpenCrumb
<1>17. CASE WriteCrumb
  <2>1. crumb + 1 \in Nodes
    BY <1>17, Constants DEF WriteCrumb, StreamInv, Published, Nodes
  <2>2. CASE End("ok")
    BY <2>2, <1>b DEF Results
  <2>3. QED
    BY <1>17, <2>1, <2>2 DEF WriteCrumb
<1>18. CASE Crash
  BY <1>18, <1>b DEF Crash, Results
<1>19. ASSUME NEW n \in Nodes, UserDestroys(n) \/ UserRollsBack(n) PROVE ProcessType'
  BY <1>19 DEF UserDestroys, UserRollsBack, UserChanges
<1>20. CASE Checkpoint \/ PutBack
  BY <1>20 DEF Checkpoint, PutBack
<1>21. CASE UNCHANGED vars
  BY <1>21 DEF vars
<1> HIDE DEF ProcessType
<1> QED
  BY <1>1, <1>2, <1>3, <1>4, <1>5, <1>6, <1>7, <1>8, <1>9, <1>10, <1>11, <1>12,
     <1>13, <1>14, <1>15, <1>16, <1>17, <1>18, <1>19, <1>20, <1>21, Environments
     DEF Next, Command

LEMMA TypeStep ==
  TypeOK /\ StreamInv /\ [Next]_vars => TypeOK'
<1>1. RepoType' /\ DatasetType' /\ ProcessType' /\ BoundType' => TypeOK'
  BY DEF TypeOK, RepoType, DatasetType, ProcessType, BoundType
<1>2. QED
  BY <1>1, RepoTypeStep, DatasetTypeStep, ProcessTypeStep, BoundTypeStep

-----------------------------------------------------------------------------
(***************************************************************************)
(* What happens to a valid repository.                                     *)
(***************************************************************************)
SameNodes(r, s) == r.dirs = s.dirs /\ r.idFile = s.idFile /\ r.payload = s.payload

(* The temporary directory and the breadcrumb file are not looked at. *)
LEMMA SameNodesValid ==
  ASSUME NEW r, NEW s, NEW b, SameNodes(r, s), ValidFor(r, b)
  PROVE  ValidFor(s, b)
BY DEF SameNodes, ValidFor, IntactIn

(* A parent of a node that lives until b lives beyond b. *)
LEMMA ParentOutlives ==
  ASSUME NEW n \in Nodes, n # 0, NEW b \in Nodes, Demise(n) >= b
  PROVE  Outlives(Parent(n), b)
<1>1. n \in Nat /\ b \in Nat
  BY Constants DEF Nodes
<1>2. Parent(n) \in Nat
  BY <1>1, ParentType
<1>3. CASE Parent(n) = 0
  BY <1>3 DEF Outlives
<1>4. CASE Parent(n) # 0
  <2>1. Demise(Parent(n)) > Demise(n)
    BY <1>1, <1>4, AncestorsOutlive
  <2>2. Demise(n) \in Nat /\ Demise(Parent(n)) \in Nat
    BY <1>1, <1>2, <1>4, DemiseType
  <2>3. QED
    BY <1>1, <2>1, <2>2 DEF Outlives
<1>5. QED
  BY <1>3, <1>4

(* A node of a valid repository has an intact parent. *)
LEMMA ParentIntact ==
  ASSUME NEW r, NEW b \in Nodes, ValidFor(r, b), r.dirs \subseteq Nodes,
         NEW n \in r.dirs \ {0}
  PROVE  Parent(n) \in IntactIn(r)
<1>1. n \in Nodes /\ n <= b /\ Demise(n) >= b
  BY DEF ValidFor
<1>2. Parent(n) \in Nodes /\ Parent(n) < n
  BY <1>1, ParentNode
<1>3. Parent(n) < b
  BY <1>1, <1>2, Constants DEF Nodes
<1>4. Outlives(Parent(n), b)
  BY <1>1, ParentOutlives
<1>5. QED
  BY <1>2, <1>3, <1>4 DEF ValidFor

(* The files of a node that dies at b can go, one after the other. *)
LEMMA ForgetValid ==
  ASSUME NEW r, NEW s, NEW b \in Nodes, NEW v \in Nodes,
         ValidFor(r, b), b \notin r.dirs,
         v # 0, Demise(v) = b,
         s.dirs \subseteq r.dirs, r.dirs \ {v} \subseteq s.dirs,
         \A n \in Nodes \ {v} : s.idFile[n] = r.idFile[n] /\ s.payload[n] = r.payload[n],
         v \notin s.dirs => s.idFile[v] = NoFile /\ s.payload[v] = NoFile
  PROVE  ValidFor(s, b)
<1>1. \A n \in s.dirs : n <= b /\ (n = 0 \/ Demise(n) >= b)
  BY DEF ValidFor
<1>2. ASSUME NEW n \in Nodes, n < b, Outlives(n, b)
      PROVE  n \in IntactIn(s)
  <2>1. n \in IntactIn(r)
    BY <1>2 DEF ValidFor
  <2>2. n # v
    BY <1>2, Constants DEF Outlives, Nodes
  <2>3. n # 0 => Parent(n) \in Nodes \ {v}
    <3>1. SUFFICES ASSUME n # 0, Parent(n) = v PROVE FALSE
      BY ParentNode
    <3>2. n \in Nat /\ v \in Nat
      BY Constants DEF Nodes
    <3>3. Demise(v) > Demise(n) /\ Demise(n) \in Nat /\ Demise(v) \in Nat
      BY <3>1, <3>2, AncestorsOutlive, DemiseType
    <3>4. Demise(n) > b
      BY <1>2, <3>1 DEF Outlives
    <3>5. QED
      BY <3>3, <3>4, Constants DEF Nodes
  <2>4. QED
    BY <2>1, <2>2, <2>3 DEF IntactIn
<1>3. b \notin s.dirs
  OBVIOUS
<1>4. \A n \in Nodes \ s.dirs : s.idFile[n] = NoFile /\ s.payload[n] = NoFile
  BY DEF ValidFor
<1>5. QED
  BY <1>1, <1>2, <1>3, <1>4 DEF ValidFor

(* Node b can be published when nothing is left that dies at b. *)
LEMMA PublishValid ==
  ASSUME NEW r, NEW s, NEW b \in Nodes,
         ValidFor(r, b), b \notin r.dirs,
         \A n \in r.dirs : Outlives(n, b),
         s.dirs = r.dirs \cup {b},
         \A n \in Nodes \ {b} : s.idFile[n] = r.idFile[n] /\ s.payload[n] = r.payload[n],
         b \in IntactIn(s)
  PROVE  ValidFor(s, b)
<1>1. b \in Nat /\ (b # 0 => Demise(b) \in Nat /\ Demise(b) > b)
  BY Constants, DemiseType DEF Nodes
<1>2. \A n \in s.dirs : n <= b /\ (n = 0 \/ Demise(n) >= b)
  BY <1>1 DEF ValidFor
<1>3. ASSUME NEW n \in Nodes, n < b, Outlives(n, b)
      PROVE  n \in IntactIn(s)
  <2>1. n \in IntactIn(r)
    BY <1>3 DEF ValidFor
  <2>2. n # b /\ Parent(n) \in Nodes \ {b}
    BY <1>3, ParentNode, Constants DEF Nodes
  <2>3. QED
    BY <2>1, <2>2 DEF IntactIn
<1>4. \A n \in s.dirs : Outlives(n, b)
  BY <1>1 DEF Outlives
<1>5. \A n \in Nodes \ s.dirs : s.idFile[n] = NoFile /\ s.payload[n] = NoFile
  BY DEF ValidFor
<1>6. QED
  BY <1>2, <1>3, <1>4, <1>5 DEF ValidFor

(* Once b is stored, b + 1 comes next. *)
LEMMA AdvanceValid ==
  ASSUME NEW r, NEW b \in Nodes, b + 1 \in Nodes,
         ValidFor(r, b), b \in r.dirs, r.dirs \subseteq Nodes
  PROVE  ValidFor(r, b + 1)
<1>1. b \in Nat /\ b \in IntactIn(r) /\ \A n \in r.dirs : Outlives(n, b)
  BY Constants DEF ValidFor, Nodes
<1>2. ASSUME NEW n \in r.dirs
      PROVE  n <= b /\ n <= b + 1 /\ (n = 0 \/ Demise(n) >= b + 1)
  <2>1. n \in Nat /\ n <= b
    BY Constants DEF ValidFor, Nodes
  <2>2. n # 0 => Demise(n) \in Nat /\ Demise(n) > b
    BY <1>1, <2>1, DemiseType DEF Outlives
  <2>3. QED
    BY <1>1, <2>1, <2>2
<1>3. ASSUME NEW n \in Nodes, n < b + 1, Outlives(n, b + 1)
      PROVE  n \in IntactIn(r)
  <2>1. CASE n = b
    BY <1>1, <2>1
  <2>2. CASE n # b
    <3>1. n \in Nat /\ n < b
      BY <1>1, <1>3, <2>2, Constants DEF Nodes
    <3>2. Outlives(n, b)
      BY <1>1, <1>3, <3>1, DemiseType DEF Outlives
    <3>3. QED
      BY <3>1, <3>2 DEF ValidFor
  <2>3. QED
    BY <2>1, <2>2
<1>4. b + 1 \notin r.dirs
  BY <1>1, <1>2
<1>5. \A n \in Nodes \ r.dirs : r.idFile[n] = NoFile /\ r.payload[n] = NoFile
  BY DEF ValidFor
<1>6. QED
  BY <1>2, <1>3, <1>4, <1>5 DEF ValidFor

(* Whatever the state of the breadcrumb file. *)
LEMMA ValidForValid ==
  ASSUME NEW r, NEW b \in Nodes, ValidFor(r, b),
         r.bread # Torn => b = CrumbOf(r.bread)
  PROVE  Valid(r)
BY DEF Valid

-----------------------------------------------------------------------------
(***************************************************************************)
(* A step preserves RepoInv.                                               *)
(***************************************************************************)
(* What RepoInv says of a command that runs. *)
Agrees == /\ ValidFor(Repository, crumb)
          /\ bread = Torn <=> pc = "write_crumb"
          /\ bread # Torn => crumb = CrumbOf(bread)

LEMMA AgreesStep ==
  IInv /\ TypeOK' /\ [Next]_vars /\ pc' # "idle" => Agrees'
<1> SUFFICES ASSUME IInv, TypeOK', [Next]_vars, pc' # "idle" PROVE Agrees'
  OBVIOUS
<1>a. ASSUME ValidFor(Repository', crumb'),
             bread' = Torn <=> pc' = "write_crumb",
             bread' # Torn => crumb' = CrumbOf(bread')
      PROVE  Agrees'
  BY <1>a DEF Agrees
<1>b. TypeOK /\ RepoInv /\ PruneInv /\ StreamInv
  BY DEF IInv
<1>c. pc # "idle" => Agrees
  BY <1>b DEF RepoInv, Agrees
<1>d. /\ crumb \in Nodes /\ dirs \subseteq Nodes
      /\ bread \in Files(Nodes \cup {Torn})
      /\ idFile \in [Nodes -> Files(Guids)] /\ payload \in [Nodes -> Files(Diffs)]
  BY <1>b, RepoParts DEF TypeOK, Repository
<1>e. victims \subseteq Nodes \ {0}
  BY <1>b DEF TypeOK
<1>1. ASSUME UNCHANGED repoVars, crumb' = crumb, pc # "idle",
             pc # "write_crumb", pc' # "write_crumb"
      PROVE  Agrees'
  <2>1. Repository' = Repository
    BY <1>1 DEF repoVars, Repository
  <2>2. QED
    BY <1>1, <1>a, <1>c, <2>1 DEF Agrees, repoVars
<1>2. CASE Start
  <2>1. Repository' = Repository
    BY <1>2 DEF Start, repoVars, Repository
  <2>2. ValidFor(Repository, CrumbOf(bread))
    BY <1>2, <1>b DEF Start, RepoInv, Valid, Repository
  <2>3. QED
    BY <1>2, <1>a, <2>1, <2>2 DEF Start, repoVars
<1>3. ASSUME NEW v \in victims, UnlinkId(v) \/ UnlinkPayload(v) \/ RemoveDir(v)
      PROVE  Agrees'
  <2>1. /\ pc = "prune" /\ pc' \in {"prune", "destroy"}
        /\ crumb' = crumb /\ bread' = bread
    BY <1>3 DEF UnlinkId, UnlinkPayload, RemoveDir, Goto, localVars
  <2>2. v \in Nodes /\ v # 0 /\ Demise(v) = crumb /\ crumb \notin dirs
    BY <2>1, <1>b, <1>e DEF PruneInv
  <2>3. /\ dirs' \subseteq dirs /\ dirs \ {v} \subseteq dirs'
        /\ \A n \in Nodes \ {v} : idFile'[n] = idFile[n] /\ payload'[n] = payload[n]
    BY <1>3, <1>d DEF UnlinkId, UnlinkPayload, RemoveDir
  <2>4. ValidFor(Repository, crumb)
    BY <1>c, <2>1 DEF Agrees
  <2>5. v \notin dirs' => idFile'[v] = NoFile /\ payload'[v] = NoFile
    <3>1. v \notin dirs => idFile[v] = NoFile /\ payload[v] = NoFile
      BY <2>2, <2>4 DEF ValidFor, Repository
    <3>2. QED
      BY <1>3, <1>d, <2>2, <3>1 DEF UnlinkId, UnlinkPayload, RemoveDir
  <2>6. ValidFor(Repository', crumb)
    <3> DEFINE r == Repository
               s == Repository'
    <3>1. /\ r.dirs = dirs /\ r.idFile = idFile /\ r.payload = payload
          /\ s.dirs = dirs' /\ s.idFile = idFile' /\ s.payload = payload'
      BY DEF Repository
    <3>2. ValidFor(r, crumb)
      BY <2>4
    <3> HIDE DEF r, s
    <3>3. ValidFor(s, crumb)
      BY <1>d, <2>2, <2>3, <2>5, <3>1, <3>2, ForgetValid
    <3>4. QED
      BY <3>3 DEF s
  <2>7. QED
    BY <1>a, <1>c, <2>1, <2>6 DEF Agrees
<1>4. ASSUME UNCHANGED <<dirs, idFile, payload, bread>>, crumb' = crumb, pc # "idle",
             pc # "write_crumb", pc' # "write_crumb"
      PROVE  Agrees'
  <2>1. SameNodes(Repository, Repository')
    BY <1>4 DEF SameNodes, Repository
  <2>2. ValidFor(Repository', crumb)
    BY <1>4, <1>c, <2>1, SameNodesValid DEF Agrees
  <2>3. QED
    BY <1>4, <1>a, <1>c, <2>2 DEF Agrees
<1>5. CASE Rename /\ Publish
  <2>1. /\ pc = "rename" /\ pc' = "open_crumb"
        /\ crumb' = crumb /\ bread' = bread
    BY <1>5 DEF Rename, Publish, Goto, localVars
  <2>2. ValidFor(Repository, crumb)
    BY <1>c, <2>1 DEF Agrees
  <2>3. crumb \notin dirs /\ \A n \in dirs : Outlives(n, crumb)
    BY <1>b, <2>1 DEF PruneInv, BeforePublish
  <2>4. /\ dirs' = dirs \cup {crumb}
        /\ \A n \in Nodes \ {crumb} : idFile'[n] = idFile[n] /\ payload'[n] = payload[n]
        /\ idFile'[crumb] = temp.id /\ payload'[crumb] = temp.payload
    BY <1>5, <1>d DEF Publish
  <2>5. /\ temp.id = snapGuid /\ snapGuid \in Guids
        /\ temp.payload = [base |-> parentGuid, target |-> snapGuid]
        /\ parentGuid = IF crumb = 0 THEN NoFile ELSE idFile[Parent(crumb)]
    BY <1>b, <2>1 DEF StreamInv, HasSnapshot, HasStream, HasParent, BeforePublish
  <2>6. crumb # 0 => idFile'[Parent(crumb)] = idFile[Parent(crumb)]
    BY <1>d, <2>4, ParentNode, Constants DEF Nodes
  <2>7. crumb \in IntactIn(Repository')
    BY <2>4, <2>5, <2>6 DEF IntactIn, Repository
  <2>8. ValidFor(Repository', crumb)
    <3> DEFINE r == Repository
               s == Repository'
    <3>1. /\ r.dirs = dirs /\ r.idFile = idFile /\ r.payload = payload
          /\ s.dirs = dirs' /\ s.idFile = idFile' /\ s.payload = payload'
      BY DEF Repository
    <3>2. ValidFor(r, crumb) /\ crumb \in IntactIn(s)
      BY <2>2, <2>7
    <3> HIDE DEF r, s
    <3>3. ValidFor(s, crumb)
      BY <1>d, <2>3, <2>4, <3>1, <3>2, PublishValid
    <3>4. QED
      BY <3>3 DEF s
  <2>9. QED
    BY <1>a, <1>c, <2>1, <2>8 DEF Agrees
<1>6. CASE OpenCrumb
  <2>1. SameNodes(Repository, Repository')
    BY <1>6 DEF OpenCrumb, SameNodes, Repository
  <2>2. ValidFor(Repository', crumb)
    BY <1>6, <1>c, <2>1, SameNodesValid DEF Agrees, OpenCrumb
  <2>3. QED
    BY <1>6, <1>a, <2>2 DEF OpenCrumb, Goto, localVars
<1>7. CASE WriteCrumb
  <2>1. /\ pc = "write_crumb" /\ pc' = "next"
        /\ crumb' = crumb + 1 /\ bread' = crumb + 1
        /\ UNCHANGED <<dirs, idFile, payload>>
    BY <1>7 DEF WriteCrumb, End
  <2>2. crumb \in dirs /\ crumb + 1 \in Nodes
    BY <1>b, <1>d, <2>1, Constants DEF PruneInv, StreamInv, Published, Nodes
  <2>3. SameNodes(Repository, Repository') /\ Repository'.dirs = dirs
    BY <2>1 DEF SameNodes, Repository
  <2>4. ValidFor(Repository', crumb)
    BY <1>c, <2>1, <2>3, SameNodesValid DEF Agrees
  <2>5. ValidFor(Repository', crumb + 1)
    BY <1>d, <2>2, <2>3, <2>4, AdvanceValid
  <2>6. crumb + 1 # Torn /\ crumb + 1 # NoFile
    BY <2>2, Constants DEF Nodes
  <2>7. QED
    BY <1>a, <2>1, <2>5, <2>6 DEF CrumbOf
<1>8. CASE FindNextOccupied \/ FindNextFree \/ PruneDone \/ CheckParent \/ TakeFresh
           \/ TakeNotRun \/ ReadGuid \/ Verify
  BY <1>1, <1>8 DEF FindNextOccupied, FindNextFree, PruneDone, CheckParent, TakeFresh,
     TakeNotRun, ReadGuid, Verify, Goto, localVars
<1>9. ASSUME NEW v \in victims, DestroySnapshot(v) PROVE Agrees'
  BY <1>1, <1>9 DEF DestroySnapshot, Goto, Fail, End
<1>10. CASE ClearTemp \/ OpenPayload \/ Send \/ OpenId \/ WriteId
  BY <1>4, <1>10 DEF ClearTemp, OpenPayload, Send, OpenId, WriteId, Goto, localVars
<1>11. CASE Rename
  BY <1>5, <1>11 DEF Rename, Fail, End
<1>12. CASE \/ StartFails \/ CheckParentFails \/ TakeRefused \/ TakeFails
            \/ ReadGuidFails \/ VerifyFails \/ SendFails \/ Crash
  BY <1>12 DEF StartFails, CheckParentFails, TakeRefused, TakeFails, ReadGuidFails,
     VerifyFails, SendFails, Crash, Fail, End
<1>13. CASE PutBack
  BY <1>13 DEF PutBack
<1>14. CASE Checkpoint \/ (\E n \in Nodes : UserDestroys(n) \/ UserRollsBack(n)) \/ UNCHANGED vars
  <2>1. UNCHANGED repoVars /\ crumb' = crumb /\ pc' = pc
    BY <1>14, Zenon DEF Checkpoint, UserDestroys, UserRollsBack, UserChanges, vars, localVars
  <2>2. Repository' = Repository
    BY <2>1 DEF repoVars, Repository
  <2>3. QED
    BY <1>a, <1>c, <2>1, <2>2 DEF Agrees, repoVars
<1> QED
  BY <1>2, <1>3, <1>6, <1>7, <1>8, <1>9, <1>10, <1>11, <1>12, <1>13, <1>14, Environments
     DEF Next, Command

LEMMA RepoStep ==
  IInv /\ TypeOK' /\ [Next]_vars => RepoInv'
<1> SUFFICES ASSUME IInv, TypeOK', [Next]_vars PROVE RepoInv'
  OBVIOUS
<1>a. TypeOK /\ RepoInv /\ PruneInv /\ StreamInv
  BY DEF IInv
<1>b. /\ crumb \in Nodes /\ crumb' \in Nodes /\ dirs \subseteq Nodes
      /\ saved \in Files(Repositories)
  BY <1>a, RepoParts DEF TypeOK, Repository
<1>c. Repository.dirs = dirs /\ Repository.bread = bread
  BY DEF Repository
<1>1. Valid(Repository')
  <2>1. CASE UNCHANGED repoVars
    <3>1. Repository' = Repository
      BY <2>1 DEF repoVars, Repository
    <3>2. QED
      BY <3>1, <1>a DEF RepoInv
  <2>2. CASE pc' # "idle"
    <3>1. ValidFor(Repository', crumb') /\ (bread' # Torn => crumb' = CrumbOf(bread'))
      BY <2>2, AgreesStep DEF Agrees
    <3>2. Repository'.bread = bread'
      BY DEF Repository
    <3>3. QED
      BY <1>b, <3>1, <3>2, ValidForValid
  <2>3. CASE WriteCrumb /\ pc' = "idle"
    <3>1. /\ pc = "write_crumb" /\ bread' = crumb + 1 /\ UNCHANGED <<dirs, idFile, payload>>
      BY <2>3 DEF WriteCrumb
    <3>2. crumb \in dirs /\ crumb + 1 \in Nodes /\ ValidFor(Repository, crumb)
      BY <1>a, <1>b, <3>1, Constants DEF RepoInv, PruneInv, StreamInv, Published, Nodes
    <3>3. SameNodes(Repository, Repository') /\ Repository'.dirs = dirs
          /\ Repository'.bread = crumb + 1
      BY <3>1 DEF SameNodes, Repository
    <3>4. ValidFor(Repository', crumb)
      BY <3>2, <3>3, SameNodesValid
    <3>5. ValidFor(Repository', crumb + 1)
      BY <1>b, <3>2, <3>3, <3>4, AdvanceValid
    <3>6. crumb + 1 # NoFile
      BY <3>2, Constants DEF Nodes
    <3>7. QED
      BY <3>2, <3>3, <3>5, <3>6, ValidForValid DEF CrumbOf
  <2>4. CASE PutBack
    <3>1. saved \in Repositories /\ Valid(saved)
      BY <1>a, <1>b, <2>4 DEF PutBack, Files, RepoInv
    <3>2. Repository' = saved
      BY <2>4, <3>1 DEF PutBack, Repository, Repositories
    <3>3. QED
      BY <3>1, <3>2
  <2>5. (\E v \in victims : UnlinkId(v) \/ UnlinkPayload(v) \/ RemoveDir(v))
        \/ ClearTemp \/ OpenPayload \/ Send \/ OpenId \/ WriteId
        \/ (Rename /\ Publish) \/ OpenCrumb
        => pc' # "idle"
    BY DEF UnlinkId, UnlinkPayload, RemoveDir, ClearTemp, OpenPayload, Send, OpenId,
           WriteId, Publish, OpenCrumb, Goto
  <2>6. QED
    BY RepoWriters, <2>1, <2>2, <2>3, <2>4, <2>5
<1>2. saved' # NoFile => Valid(saved')
  <2>1. saved' = saved \/ saved' = Repository
    BY BoundWriters
       DEF TakeFails, TakeNotRun, SendFails, Crash, Checkpoint, PutBack, UserDestroys,
           UserRollsBack, UserChanges, boundVars
  <2>2. QED
    BY <1>a, <2>1 DEF RepoInv
<1>3. QED
  BY <1>1, <1>2, AgreesStep DEF RepoInv, Agrees

-----------------------------------------------------------------------------
(***************************************************************************)
(* A step preserves PruneInv.                                              *)
(***************************************************************************)
LEMMA PruneStep ==
  IInv /\ TypeOK' /\ [Next]_vars => PruneInv'
<1> SUFFICES ASSUME IInv, TypeOK', [Next]_vars PROVE PruneInv'
  OBVIOUS
<1>a. TypeOK /\ RepoInv /\ PruneInv /\ StreamInv
  BY DEF IInv
<1>b. /\ crumb \in Nodes /\ dirs \subseteq Nodes /\ victims \subseteq Nodes \ {0}
  BY <1>a, RepoParts DEF TypeOK, Repository
<1> USE DEF PruneInv, BeforePublish, Published, Goto
(* The process ends, or has ended. *)
<1>1. CASE pc' \in {"idle", "next"}
  BY <1>1
(* Nothing that the invariant speaks of moves. *)
<1>2. ASSUME UNCHANGED <<dirs, crumb, victims>>,
             \/ pc' = pc
             \/ pc \in BeforePublish /\ pc' \in BeforePublish
             \/ pc \in Published /\ pc' \in Published
      PROVE  PruneInv'
  BY <1>2, <1>a DEF IsNextVictim
<1>3. CASE FindNextFree
  <2>1. ValidFor(Repository, crumb) /\ pc' = "prune" /\ crumb' = crumb /\ dirs' = dirs
    BY <1>3, <1>a DEF FindNextFree, RepoInv, repoVars
  <2>2. crumb \notin dirs
    BY <1>3, <2>1, Constants DEF FindNextFree, ValidFor, IntactIn, Repository, Guids
  <2>3. \A n \in dirs : n <= crumb /\ (n = 0 \/ Demise(n) >= crumb)
    BY <2>1 DEF ValidFor, Repository
  <2>4. \A v \in victims' : Demise(v) = crumb
    BY <1>3 DEF FindNextFree, Pruned
  <2>5. ASSUME NEW n \in dirs, ~ Outlives(n, crumb)
        PROVE  n \in victims'
    <3>1. n # 0 /\ ~ (Demise(n) > crumb)
      BY <2>5 DEF Outlives
    <3>2. n \in Nat /\ crumb \in Nat
      BY <1>b, Constants DEF Nodes
    <3>3. Demise(n) \in Nat /\ Demise(n) >= crumb
      BY <2>3, <3>1, <3>2, DemiseType
    <3>4. Demise(n) = crumb /\ n \in 1..crumb /\ crumb # 0
      BY <2>3, <3>1, <3>2, <3>3
    <3>5. QED
      BY <1>3, <3>4 DEF FindNextFree, Pruned
  <2>6. QED
    BY <2>1, <2>2, <2>4, <2>5
<1>4. ASSUME NEW v \in victims, UnlinkId(v) \/ UnlinkPayload(v) PROVE PruneInv'
  BY <1>2, <1>4 DEF UnlinkId, UnlinkPayload, localVars
<1>5. ASSUME NEW v \in victims, RemoveDir(v) PROVE PruneInv'
  <2>1. \A w \in victims : IsNextVictim(w) => w = v
    BY <1>5, <1>b, Constants DEF RemoveDir, IsNextVictim, Nodes
  <2>2. QED
    BY <1>5, <1>a, <2>1 DEF RemoveDir, IsNextVictim, localVars
<1>6. ASSUME NEW v \in victims, DestroySnapshot(v) PROVE PruneInv'
  <2>1. CASE Fail("snapshot_changed")
    BY <1>1, <2>1 DEF Fail, End
  <2>2. CASE ~ Fail("snapshot_changed")
    BY <1>6, <2>2, <1>a DEF DestroySnapshot, repoVars
  <2>3. QED
    BY <2>1, <2>2
<1>7. CASE PruneDone
  BY <1>7, <1>a DEF PruneDone, repoVars, localVars
<1>8. CASE CheckParent \/ TakeFresh \/ TakeNotRun \/ ReadGuid \/ ClearTemp
           \/ OpenPayload \/ Verify \/ Send \/ OpenId \/ WriteId \/ OpenCrumb
  BY <1>2, <1>8 DEF CheckParent, TakeFresh, TakeNotRun, ReadGuid, ClearTemp,
     OpenPayload, Verify, Send, OpenId, WriteId, OpenCrumb, repoVars, localVars
<1>9. CASE Rename
  BY <1>1, <1>9 DEF Rename, Publish, Fail, End, localVars
<1>10. CASE WriteCrumb
  BY <1>1, <1>10 DEF WriteCrumb, End
<1>11. CASE \/ Start \/ StartFails \/ FindNextOccupied \/ CheckParentFails
            \/ TakeRefused \/ TakeFails
            \/ ReadGuidFails \/ VerifyFails \/ SendFails \/ Crash
  BY <1>1, <1>11 DEF Start, StartFails, FindNextOccupied, CheckParentFails,
     TakeRefused, TakeFails, ReadGuidFails, VerifyFails, SendFails, Crash, Fail, End
<1>12. CASE \/ Checkpoint
            \/ \E n \in Nodes : UserDestroys(n) \/ UserRollsBack(n)
            \/ UNCHANGED vars
  <2>1. UNCHANGED <<dirs, crumb, victims, pc>>
    BY <1>12, Zenon DEF Checkpoint, UserDestroys, UserRollsBack, UserChanges, vars,
       repoVars, localVars
  <2>2. QED
    BY <1>2, <2>1
<1>13. CASE PutBack
  BY <1>1, <1>13 DEF PutBack
<1> HIDE DEF PruneInv
<1> QED
  BY <1>3, <1>4, <1>5, <1>6, <1>7, <1>8, <1>9, <1>10, <1>11, <1>12, <1>13, Environments
     DEF Next, Command

-----------------------------------------------------------------------------
(***************************************************************************)
(* A step preserves StreamInv.                                             *)
(***************************************************************************)
(* The part of StreamInv about what the process remembers; what remains is  *)
(* the dataset's last node, that a snapshot was taken below it, and what    *)
(* "zfs send" will find.                                                    *)
Remembers == /\ pc \in HasParent =>
                  parentGuid = IF crumb = 0 THEN NoFile ELSE idFile[Parent(crumb)]
             /\ pc \in HasSnapshot => snapGuid \in Guids
             /\ pc \in HasStream =>
                  temp.payload = [base |-> parentGuid, target |-> snapGuid]
             /\ pc = "rename" => temp.id = snapGuid

Finds == /\ dataset[MaxNode] = NoFile
         /\ pc \in HasSnapshot \cup Published => crumb < MaxNode
         /\ pc = "send" =>
              /\ crumb # 0 => dataset[Parent(crumb)] \in {parentGuid, NoFile}
              /\ dataset[crumb] \in {snapGuid, NoFile}

LEMMA RemembersStep ==
  IInv /\ [Next]_vars => Remembers'
<1> SUFFICES ASSUME IInv, [Next]_vars PROVE Remembers'
  OBVIOUS
<1>a. TypeOK /\ Remembers /\ Finds
  BY DEF IInv, StreamInv, Remembers, Finds
<1>b. /\ temp \in Temps /\ crumb \in Nodes
      /\ dataset \in [Nodes -> Files(Guids)]
  BY <1>a, RepoParts DEF TypeOK, Repository
<1> USE DEF Remembers, HasParent, HasSnapshot, HasStream, BeforePublish, Goto
(* Outside of the states from which a snapshot is published. *)
<1>1. CASE pc' \notin HasParent
  BY <1>1
<1>2. ASSUME UNCHANGED <<idFile, temp, crumb, parentGuid, snapGuid>>,
             \/ pc' = pc
             \/ pc \in HasParent /\ pc' \in HasParent \ HasSnapshot
             \/ pc \in HasSnapshot /\ pc' \in HasSnapshot \ HasStream
      PROVE  Remembers'
  BY <1>2, <1>a
<1>3. CASE CheckParent
  BY <1>3 DEF CheckParent, repoVars
<1>4. CASE TakeFresh \/ TakeNotRun
  BY <1>2, <1>4 DEF TakeFresh, TakeNotRun, repoVars
<1>5. CASE ReadGuid
  BY <1>5, <1>a, <1>b DEF ReadGuid, repoVars, Files
<1>6. CASE ClearTemp \/ OpenPayload
  BY <1>6, <1>a DEF ClearTemp, OpenPayload, localVars
<1>7. CASE Verify
  BY <1>2, <1>7 DEF Verify, repoVars, localVars
<1>8. CASE Send
  <2>1. Stream = [base |-> parentGuid, target |-> snapGuid]
    <3>1. dataset[crumb] = snapGuid
      BY <1>8, <1>a DEF Send, EndsExist, Finds
    <3>2. crumb # 0 => dataset[Parent(crumb)] = parentGuid
      BY <1>8, <1>a DEF Send, EndsExist, Finds
    <3>3. crumb = 0 => parentGuid = NoFile
      BY <1>8, <1>a DEF Send
    <3>4. QED
      BY <3>1, <3>2, <3>3 DEF Stream
  <2>2. temp' = [temp EXCEPT !.payload = Stream]
        /\ UNCHANGED <<idFile, crumb, parentGuid, snapGuid>> /\ pc = "send" /\ pc' = "open_id"
    BY <1>8 DEF Send, localVars
  <2>3. temp'.payload = Stream
    BY <1>b, <2>2 DEF Temps
  <2>4. QED
    BY <1>a, <2>1, <2>2, <2>3
<1>9. CASE OpenId
  BY <1>9, <1>a, <1>b DEF OpenId, Temps, localVars
<1>10. CASE WriteId
  BY <1>10, <1>a, <1>b DEF WriteId, Temps, localVars
<1>11. ASSUME NEW v \in victims,
              UnlinkId(v) \/ UnlinkPayload(v) \/ RemoveDir(v) \/ DestroySnapshot(v)
       PROVE  Remembers'
  BY <1>1, <1>11 DEF UnlinkId, UnlinkPayload, RemoveDir, DestroySnapshot, Fail, End
<1>12. CASE \/ Start \/ StartFails \/ FindNextOccupied \/ FindNextFree \/ PruneDone
            \/ CheckParentFails \/ TakeRefused \/ TakeFails
            \/ ReadGuidFails \/ VerifyFails \/ SendFails
            \/ OpenCrumb \/ Crash \/ PutBack
  BY <1>1, <1>12 DEF Start, StartFails, FindNextOccupied, FindNextFree, PruneDone,
     CheckParentFails, TakeRefused, TakeFails, ReadGuidFails, VerifyFails, SendFails,
     OpenCrumb, Crash, PutBack,
     Fail, End
<1>13. CASE Rename \/ WriteCrumb
  BY <1>1, <1>13 DEF Rename, Publish, WriteCrumb, Fail, End
<1>14. CASE \/ Checkpoint
            \/ \E n \in Nodes : UserDestroys(n) \/ UserRollsBack(n)
            \/ UNCHANGED vars
  <2>1. UNCHANGED <<idFile, temp, crumb, parentGuid, snapGuid, pc>>
    BY <1>14, Zenon DEF Checkpoint, UserDestroys, UserRollsBack, UserChanges, vars,
       repoVars, localVars
  <2>2. QED
    BY <1>2, <2>1
<1> HIDE DEF Remembers
<1> QED
  BY <1>3, <1>4, <1>5, <1>6, <1>7, <1>8, <1>9, <1>10, <1>11, <1>12, <1>13, <1>14, Environments
     DEF Next, Command

LEMMA FindsStep ==
  IInv /\ TypeOK' /\ [Next]_vars => Finds'
<1> SUFFICES ASSUME IInv, TypeOK', [Next]_vars PROVE Finds'
  OBVIOUS
<1>a. TypeOK /\ Remembers /\ Finds
  BY DEF IInv, StreamInv, Remembers, Finds
<1>b. /\ crumb \in Nodes /\ MaxNode \in Nodes /\ MaxNode \in Nat
      /\ dataset \in [Nodes -> Files(Guids)]
  BY <1>a, Constants DEF TypeOK, Nodes
<1> USE DEF Finds, HasSnapshot, HasParent, BeforePublish, Published, Goto
<1>1. ASSUME UNCHANGED datasetVars,
             \/ pc' \notin HasSnapshot \cup Published
             \/ /\ UNCHANGED <<crumb, parentGuid, snapGuid>>
                /\ \/ pc' = pc
                   \/ pc \in HasSnapshot \cup Published /\ pc' # "send"
      PROVE  Finds'
  BY <1>1, <1>a DEF datasetVars
<1>2. ASSUME NEW v \in victims, DestroySnapshot(v) PROVE Finds'
  <2>1. CASE Fail("snapshot_changed")
    BY <2>1, <1>1 DEF Fail, End
  <2>2. CASE /\ \A m \in Nodes : dataset'[m] \in {dataset[m], NoFile}
             /\ pc' = "prune"
    BY <2>2, <1>a, <1>b
  <2>3. QED
    BY <1>2, <1>b, <2>1, <2>2 DEF DestroySnapshot
<1>3. CASE TakeFresh
  BY <1>3, <1>a, <1>b DEF TakeFresh
<1>4. ASSUME NEW n \in Nodes, NEW kept \in SUBSET Nodes, UserChanges(n, kept) PROVE Finds'
  <2>1. \A m \in Nodes : dataset'[m] \in {dataset[m], NoFile}
    BY <1>4 DEF UserChanges
  <2>2. UNCHANGED <<pc, crumb, parentGuid, snapGuid>>
    BY <1>4 DEF UserChanges, localVars
  <2>3. Parent(crumb) \in Nodes
    BY <1>b, ParentNode
  <2>4. QED
    BY <1>a, <1>b, <2>1, <2>2, <2>3
<1>5. CASE ReadGuid
  <2>1. crumb < MaxNode
    BY <1>5, <1>a, <1>b, Constants DEF ReadGuid, Nodes
  <2>2. QED
    BY <1>5, <1>a, <2>1 DEF ReadGuid, datasetVars
<1>6. CASE Verify
  <2>1. crumb # 0 => dataset[Parent(crumb)] = parentGuid
    BY <1>6 DEF Verify, EndsUnchanged
  <2>2. dataset[crumb] = snapGuid
    BY <1>6 DEF Verify, EndsUnchanged
  <2>3. QED
    BY <1>6, <1>a, <2>1, <2>2 DEF Verify, datasetVars, localVars
<1>7. ASSUME NEW v \in victims, UnlinkId(v) \/ UnlinkPayload(v) \/ RemoveDir(v) PROVE Finds'
  BY <1>1, <1>7 DEF UnlinkId, UnlinkPayload, RemoveDir
<1>8. CASE \/ Start \/ StartFails \/ FindNextOccupied \/ FindNextFree \/ PruneDone
           \/ CheckParent \/ CheckParentFails \/ TakeRefused \/ TakeFails \/ TakeNotRun
           \/ ReadGuidFails \/ VerifyFails \/ SendFails \/ Crash
  BY <1>1, <1>8 DEF Start, StartFails, FindNextOccupied, FindNextFree, PruneDone,
     CheckParent, CheckParentFails, TakeRefused, TakeFails, TakeNotRun, ReadGuidFails,
     VerifyFails, SendFails, Crash, Fail, End
<1>9. CASE ClearTemp \/ OpenPayload \/ Send \/ OpenId \/ WriteId \/ OpenCrumb
  BY <1>1, <1>9 DEF ClearTemp, OpenPayload, Send, OpenId, WriteId, OpenCrumb, localVars
<1>10. CASE Rename
  BY <1>1, <1>10 DEF Rename, Publish, Fail, End, localVars
<1>11. CASE WriteCrumb
  BY <1>1, <1>11 DEF WriteCrumb, End
<1>12. CASE PutBack
  BY <1>1, <1>12 DEF PutBack
<1>13. CASE Checkpoint \/ UNCHANGED vars
  BY <1>1, <1>13 DEF Checkpoint, vars, localVars
<1>14. ASSUME NEW n \in Nodes, UserDestroys(n) \/ UserRollsBack(n) PROVE Finds'
  <2>1. Nodes \ {n} \in SUBSET Nodes
        /\ {m \in Nodes : dataset[m] \in Guids /\ dataset[m] <= dataset[n]} \in SUBSET Nodes
    OBVIOUS
  <2>2. QED
    BY <1>4, <1>14, <2>1, Zenon DEF UserDestroys, UserRollsBack
<1> HIDE DEF Finds
<1> QED
  BY <1>2, <1>3, <1>5, <1>6, <1>7, <1>8, <1>9, <1>10, <1>11, <1>12, <1>13, <1>14, Environments
     DEF Next, Command

LEMMA StreamStep ==
  IInv /\ TypeOK' /\ [Next]_vars => StreamInv'
BY RemembersStep, FindsStep DEF Remembers, Finds, StreamInv

-----------------------------------------------------------------------------
LEMMA InitIInv ==
  Init => IInv
<1> SUFFICES ASSUME Init PROVE IInv
  OBVIOUS
<1>1. TypeOK
  <2>1. Repository \in Repositories
    <3>1. temp \in Temps
      BY DEF Init, NoTemp, Temps, Files
    <3>2. idFile \in [Nodes -> Files(Guids)] /\ payload \in [Nodes -> Files(Diffs)]
      BY DEF Init, Files
    <3>3. dirs \subseteq Nodes /\ bread \in Files(Nodes \cup {Torn})
      BY DEF Init, Files
    <3>4. QED
      BY <3>1, <3>2, <3>3, RepoParts DEF Repository
  <2>2. DatasetType /\ ProcessType
    BY Constants DEF Init, DatasetType, ProcessType, Files, ControlStates, Results
  <2>3. BoundType
    BY BoundsAssumption DEF Init, BoundType, Files
  <2>4. QED
    BY <2>1, <2>2, <2>3 DEF TypeOK, DatasetType, ProcessType, BoundType
<1>2. RepoInv
  <2>1. ValidFor(Repository, 0)
    BY Constants DEF Init, ValidFor, Repository, Nodes
  <2>2. Repository.bread = NoFile
    BY DEF Init, Repository
  <2>3. Valid(Repository)
    BY <2>1, <2>2, Constants DEF Valid, CrumbOf
  <2>4. QED
    BY <2>3 DEF Init, RepoInv
<1>3. PruneInv
  BY DEF Init, PruneInv, BeforePublish, Published
<1>4. StreamInv
  BY Constants DEF Init, StreamInv, HasParent, HasSnapshot, HasStream, BeforePublish,
     Published, Nodes
<1>5. QED
  BY <1>1, <1>2, <1>3, <1>4 DEF IInv

LEMMA StepIInv ==
  IInv /\ [Next]_vars => IInv'
<1> SUFFICES ASSUME IInv, [Next]_vars PROVE IInv'
  OBVIOUS
<1>1. TypeOK'
  BY TypeStep DEF IInv
<1>2. RepoInv' /\ PruneInv' /\ StreamInv'
  BY <1>1, RepoStep, PruneStep, StreamStep
<1>3. QED
  BY <1>1, <1>2 DEF IInv

(***************************************************************************)
(* The command's memory, the repository directory and its checkpoint agree *)
(* at every step, whatever crashes, fails or is put back.                  *)
(***************************************************************************)
THEOREM Invariance == Spec => []IInv
<1>1. QED
  BY InitIInv, StepIInv, PTL DEF Spec

(* In particular no node is published with a file that was cut short        *)
(* (RepositoryStructure.cpp:137-158).                                       *)
THEOREM TypeCorrect == Spec => []TypeOK
<1>1. IInv => TypeOK
  BY DEF IInv
<1>2. QED
  BY <1>1, Invariance, PTL

-----------------------------------------------------------------------------
(***************************************************************************)
(* What a valid repository is worth.                                       *)
(***************************************************************************)
(* A repository that can be met has a next node, known or not. *)
LEMMA NextNode ==
  ASSUME IInv
  PROVE  /\ dirs \subseteq Nodes
         /\ \E b \in Nodes : ValidFor(Repository, b)
<1>1. Valid(Repository) /\ Repository.bread = bread /\ bread \in Files(Nodes \cup {Torn})
  BY RepoParts DEF IInv, RepoInv, TypeOK, Repository
<1>2. bread # Torn => CrumbOf(bread) \in Nodes
  BY <1>1, Constants DEF CrumbOf, Files
<1>3. QED
  BY <1>1, <1>2, RepoParts DEF Valid, IInv, TypeOK, Repository

(* The newest node is the next node, or the one before it. *)
LEMMA NewestNode ==
  ASSUME IInv, NEW b \in Nodes, ValidFor(Repository, b), NEW n \in dirs, IsNewest(n)
  PROVE  /\ b \in dirs => n = b
         /\ b \notin dirs => n + 1 = b
<1>a. dirs \subseteq Nodes /\ n \in Nat /\ b \in Nat
  BY NextNode, Constants DEF Nodes
<1>b. n <= b
  BY DEF ValidFor, Repository
<1>1. b \in dirs => n = b
  BY <1>a, <1>b DEF IsNewest
<1>2. ASSUME b \notin dirs PROVE n + 1 = b
  <2>1. n < b
    BY <1>a, <1>b, <1>2
  <2>2. b - 1 \in Nodes /\ b - 1 < b
    BY <1>a, <2>1, Constants DEF Nodes
  <2>3. Outlives(b - 1, b)
    BY <1>a, <2>1, DemiseType DEF Outlives
  <2>4. b - 1 \in dirs
    BY <2>2, <2>3 DEF ValidFor, IntactIn, Repository
  <2>5. b - 1 <= n
    BY <2>4 DEF IsNewest
  <2>6. QED
    BY <1>a, <2>1, <2>5
<1>3. QED
  BY <1>1, <1>2

(***************************************************************************)
(* Every stored node rests on an intact parent, so restore() finds all the *)
(* streams it needs (Controller.cpp:364-466), however a deletion or a      *)
(* snapshot was cut short.                                                 *)
(***************************************************************************)
THEOREM ChainsIntact == Spec => []ChainIntact
<1>1. ASSUME IInv PROVE ChainIntact
  <2>1. SUFFICES ASSUME NEW n \in dirs \ {0} PROVE Intact(Parent(n))
    BY DEF ChainIntact
  <2>2. PICK b \in Nodes : ValidFor(Repository, b)
    BY <1>1, NextNode
  <2>3. Repository.dirs = dirs /\ dirs \subseteq Nodes
    BY <1>1, NextNode DEF Repository
  <2>4. QED
    BY <2>2, <2>3, ParentIntact DEF Intact
<1>2. QED
  BY <1>1, Invariance, PTL

(***************************************************************************)
(* The tree's promise holds at every step of the command, not only when it *)
(* has ended: what is kept beside the newest node can be restored.         *)
(***************************************************************************)
THEOREM RetentionHolds == Spec => []Retention
<1>1. ASSUME IInv PROVE Retention
  <2>1. SUFFICES ASSUME NEW n \in dirs, IsNewest(n),
                        NEW k \in 0..n, Outlives(k, n + 1)
                 PROVE  Intact(k)
    BY DEF Retention
  <2>2. PICK b \in Nodes : ValidFor(Repository, b)
    BY <1>1, NextNode
  <2>3. Repository.dirs = dirs /\ n \in Nat /\ b \in Nat /\ k \in Nodes
    BY <1>1, NextNode, Constants DEF Repository, Nodes
  <2>4. CASE b \in dirs
    <3>1. n = b
      BY <1>1, <2>1, <2>2, <2>4, NewestNode
    <3>2. CASE k = n
      BY <2>2, <2>3, <2>4, <3>1, <3>2 DEF ValidFor, Intact
    <3>3. CASE k # n
      <4>1. k \in Nat /\ k < b
        BY <2>3, <3>1, <3>3
      <4>2. Outlives(k, b)
        BY <2>1, <2>3, <3>1, <4>1, DemiseType DEF Outlives
      <4>3. QED
        BY <2>2, <2>3, <4>1, <4>2 DEF ValidFor, Intact
    <3>4. QED
      BY <3>2, <3>3
  <2>5. CASE b \notin dirs
    <3>1. n + 1 = b
      BY <1>1, <2>1, <2>2, <2>5, NewestNode
    <3>2. k < b /\ Outlives(k, b)
      BY <2>1, <2>3, <3>1
    <3>3. QED
      BY <2>2, <2>3, <3>2 DEF ValidFor, Intact
  <2>6. QED
    BY <2>4, <2>5
<1>2. QED
  BY <1>1, Invariance, PTL

(***************************************************************************)
(* No node stays in the directory beyond its time, even if prunings were   *)
(* cut short.                                                              *)
(***************************************************************************)
THEOREM NoOverstaying == Spec => []NothingOverstays
<1>1. ASSUME IInv PROVE NothingOverstays
  <2>1. SUFFICES ASSUME NEW n \in dirs, NEW k \in dirs, IsNewest(n)
                 PROVE  Outlives(k, n)
    BY DEF NothingOverstays
  <2>2. PICK b \in Nodes : ValidFor(Repository, b)
    BY <1>1, NextNode
  <2>3. Repository.dirs = dirs /\ n \in Nat /\ b \in Nat /\ k \in Nat
    BY <1>1, NextNode, Constants DEF Repository, Nodes
  <2>4. CASE b \in dirs
    BY <1>1, <2>1, <2>2, <2>3, <2>4, NewestNode DEF ValidFor
  <2>5. CASE b \notin dirs
    <3>1. n + 1 = b
      BY <1>1, <2>1, <2>2, <2>5, NewestNode
    <3>2. k = 0 \/ Demise(k) >= b
      BY <2>2, <2>3 DEF ValidFor
    <3>3. k # 0 => Demise(k) \in Nat
      BY <2>3, DemiseType
    <3>4. QED
      BY <2>3, <3>1, <3>2, <3>3 DEF Outlives
  <2>6. QED
    BY <2>4, <2>5
<1>2. QED
  BY <1>1, Invariance, PTL

(* The parent of the node that comes next is stored with its id file, which *)
(* nodeToSnapshotId() asks for (Controller.cpp:233-234).                    *)
LEMMA ParentStored ==
  ASSUME NEW b \in Nodes, ValidFor(Repository, b), b # 0
  PROVE  idFile[Parent(b)] # NoFile
<1>1. b \in Nat /\ Demise(b) \in Nat /\ Demise(b) >= b
  BY DemiseType, Constants DEF Nodes
<1>2. Parent(b) \in Nodes /\ Parent(b) < b
  BY ParentNode
<1>3. Outlives(Parent(b), b)
  BY <1>1, ParentOutlives
<1>4. Parent(b) \in IntactIn(Repository)
  BY <1>2, <1>3 DEF ValidFor
<1>5. QED
  BY <1>4, Constants DEF IntactIn, Repository, Guids

(***************************************************************************)
(* The two failures that the code calls unexpected cannot be met.          *)
(***************************************************************************)
THEOREM NothingUnexpected == Spec => []NoUnexpectedFailure
<1>1. Init => NoUnexpectedFailure
  BY DEF Init, NoUnexpectedFailure
<1>2. ASSUME IInv, NoUnexpectedFailure, [Next]_vars PROVE NoUnexpectedFailure'
  <2>1. CASE CheckParentFails
    <3>1. idFile[Parent(crumb)] # NoFile
      BY <1>2, <2>1, ParentStored DEF CheckParentFails, IInv, TypeOK, RepoInv
    <3>2. QED
      BY <2>1, <3>1 DEF CheckParentFails, Fail, End, NoUnexpectedFailure
  <2>2. CASE Rename
    <3>1. crumb \notin dirs
      BY <1>2, <2>2 DEF Rename, IInv, PruneInv, BeforePublish
    <3>2. Publish
      BY <2>2, <3>1 DEF Rename, TargetFree
    <3>3. QED
      BY <1>2, <3>2 DEF Publish, Goto, NoUnexpectedFailure
  <2>3. CASE ~ CheckParentFails /\ ~ Rename
    <3> USE <1>2 DEF NoUnexpectedFailure, Goto, End, Fail
    <3>1. CASE \/ Start \/ StartFails \/ FindNextOccupied \/ FindNextFree \/ PruneDone
               \/ CheckParent \/ TakeFresh \/ TakeRefused \/ TakeFails \/ TakeNotRun \/ ReadGuid
               \/ ReadGuidFails \/ ClearTemp \/ OpenPayload \/ Verify \/ VerifyFails
               \/ Send \/ SendFails \/ OpenId \/ WriteId \/ OpenCrumb \/ WriteCrumb
               \/ Crash \/ Checkpoint \/ PutBack \/ UNCHANGED vars
      BY <3>1 DEF Start, StartFails, FindNextOccupied, FindNextFree, PruneDone, CheckParent,
         TakeFresh, TakeRefused, TakeFails, TakeNotRun, ReadGuid, ReadGuidFails, ClearTemp,
         OpenPayload,
         Verify, VerifyFails, Send, SendFails, OpenId, WriteId, OpenCrumb, WriteCrumb, Crash,
         Checkpoint, PutBack, vars
    <3>2. ASSUME NEW v \in victims,
                 UnlinkId(v) \/ UnlinkPayload(v) \/ RemoveDir(v) \/ DestroySnapshot(v)
          PROVE  NoUnexpectedFailure'
      BY <3>2 DEF UnlinkId, UnlinkPayload, RemoveDir, DestroySnapshot
    <3>3. ASSUME NEW n \in Nodes, UserDestroys(n) \/ UserRollsBack(n)
          PROVE  NoUnexpectedFailure'
      BY <3>3 DEF UserDestroys, UserRollsBack, UserChanges
    <3> HIDE DEF NoUnexpectedFailure
    <3>4. QED
      BY <2>3, <3>1, <3>2, <3>3, Environments DEF Next, Command
  <2>4. QED
    BY <2>1, <2>2, <2>3
<1>3. QED
  BY <1>1, <1>2, Invariance, PTL DEF Spec

-----------------------------------------------------------------------------
(***************************************************************************)
(* A command that says ok.  Unless it could not run zfs, the snapshot it   *)
(* goes on with was taken by itself: with the name taken it ends at once.  *)
(***************************************************************************)
FreshInv == /\ asOf <= nextGuid
            /\ pc = "guid" /\ ~ old /\ dataset[crumb] # NoFile => dataset[crumb] >= asOf
            /\ pc \in HasSnapshot /\ ~ old => snapGuid >= asOf
            /\ pc \in Published /\ ~ old => idFile[crumb] \in Guids /\ idFile[crumb] >= asOf

(* already_old is FALSE only if zfs snapshot has succeeded in this command, *)
(* and the guid read after it is carried into the id file.                  *)
LEMMA FreshStep ==
  IInv /\ FreshInv /\ [Next]_vars => FreshInv'
<1> SUFFICES ASSUME IInv, FreshInv, [Next]_vars PROVE FreshInv'
  OBVIOUS
<1>0. /\ DatasetType /\ ProcessType /\ idFile \in [Nodes -> Files(Guids)]
      /\ pc \in HasSnapshot => snapGuid \in Guids
      /\ pc = "rename" => temp.id = snapGuid
  BY RepoParts DEF IInv, TypeOK, DatasetType, ProcessType, StreamInv, Repository
<1> USE <1>0 DEF FreshInv, DatasetType, ProcessType, Goto, End, Fail, HasSnapshot, HasParent,
        BeforePublish, Published, repoVars, datasetVars, localVars, boundVars
<1>1. CASE Start
  BY <1>1 DEF Start
<1>2. CASE StartFails
  BY <1>2 DEF StartFails
<1>3. CASE FindNextOccupied
  BY <1>3 DEF FindNextOccupied
<1>4. CASE FindNextFree
  BY <1>4 DEF FindNextFree
<1>5. ASSUME NEW v \in victims, UnlinkId(v) PROVE FreshInv'
  BY <1>5 DEF UnlinkId
<1>6. ASSUME NEW v \in victims, UnlinkPayload(v) PROVE FreshInv'
  BY <1>6 DEF UnlinkPayload
<1>7. ASSUME NEW v \in victims, RemoveDir(v) PROVE FreshInv'
  BY <1>7 DEF RemoveDir
<1>8. ASSUME NEW v \in victims, DestroySnapshot(v) PROVE FreshInv'
  BY <1>8 DEF DestroySnapshot, IsNextVictim
<1>9. CASE PruneDone
  BY <1>9 DEF PruneDone
<1>10. CASE CheckParent
  BY <1>10 DEF CheckParent
<1>11. CASE CheckParentFails
  BY <1>11 DEF CheckParentFails
<1>12. CASE TakeFresh
  BY <1>12, Constants DEF TakeFresh, Guids
<1>13. CASE TakeRefused
  BY <1>13 DEF TakeRefused
<1>14. CASE TakeFails \/ TakeNotRun
  BY <1>14 DEF TakeFails, TakeNotRun
<1>15. CASE ReadGuid
  BY <1>15 DEF ReadGuid
<1>16. CASE ReadGuidFails
  BY <1>16 DEF ReadGuidFails
<1>17. CASE ClearTemp
  BY <1>17 DEF ClearTemp
<1>18. CASE OpenPayload
  BY <1>18 DEF OpenPayload
<1>19. CASE Verify
  BY <1>19 DEF Verify
<1>20. CASE VerifyFails
  BY <1>20 DEF VerifyFails
<1>21. CASE Send
  BY <1>21 DEF Send
<1>22. CASE SendFails
  BY <1>22 DEF SendFails
<1>23. CASE OpenId
  BY <1>23 DEF OpenId
<1>24. CASE WriteId
  BY <1>24 DEF WriteId
<1>25. CASE Rename
  BY <1>25 DEF Rename, Publish
<1>26. CASE OpenCrumb
  BY <1>26 DEF OpenCrumb
<1>27. CASE WriteCrumb
  BY <1>27 DEF WriteCrumb
<1>28. CASE Crash
  BY <1>28 DEF Crash
<1>29. ASSUME NEW n \in Nodes, UserDestroys(n) \/ UserRollsBack(n) PROVE FreshInv'
  BY <1>29 DEF UserDestroys, UserRollsBack, UserChanges, Guids
<1>30. CASE Checkpoint
  BY <1>30 DEF Checkpoint
<1>31. CASE PutBack
  BY <1>31 DEF PutBack
<1>32. CASE UNCHANGED vars
  BY <1>32 DEF vars
<1> QED
  BY <1>1, <1>2, <1>3, <1>4, <1>5, <1>6, <1>7, <1>8,
     <1>9, <1>10, <1>11, <1>12, <1>13, <1>14, <1>15, <1>16,
     <1>17, <1>18, <1>19, <1>20, <1>21, <1>22, <1>23, <1>24,
     <1>25, <1>26, <1>27, <1>28, <1>29, <1>30, <1>31, <1>32, Environments
     DEF Next, Command

(***************************************************************************)
(* A command that reports success has stored a snapshot that was taken     *)
(* after it began, and never one that a command before it has left behind: *)
(* if that was in the way the command fails, and if it is found because    *)
(* zfs could not be run the command stores it and takes another one        *)
(* (Controller.cpp:257, 261-271, ZfsDriver.cpp:170-189).                   *)
(***************************************************************************)
THEOREM SuccessFresh == Spec => SuccessIsFresh
<1>1. Init => FreshInv
  BY DEF Init, FreshInv, HasSnapshot, HasParent, BeforePublish, Published
<1>2. ASSUME FreshInv, [Next]_vars
      PROVE  result' = "ok" /\ result # "ok" => idFile[crumb] \in Guids /\ idFile[crumb] >= asOf
  <2>1. CASE WriteCrumb
    BY <1>2, <2>1 DEF WriteCrumb, FreshInv, Published
  <2>2. CASE ~ WriteCrumb
    <3>1. ASSUME NEW v \in victims,
                 UnlinkId(v) \/ UnlinkPayload(v) \/ RemoveDir(v) \/ DestroySnapshot(v)
          PROVE  result' # "ok" \/ result = "ok"
      BY <3>1 DEF UnlinkId, UnlinkPayload, RemoveDir, DestroySnapshot, Goto, End, Fail
    <3>2. ASSUME NEW n \in Nodes, UserDestroys(n) \/ UserRollsBack(n)
          PROVE  result' = result
      BY <3>2 DEF UserDestroys, UserRollsBack, UserChanges
    <3>3. CASE Start \/ StartFails \/ FindNextOccupied \/ FindNextFree \/ PruneDone
               \/ CheckParent \/ CheckParentFails
               \/ TakeFresh \/ TakeRefused \/ TakeFails \/ TakeNotRun
               \/ ReadGuid \/ ReadGuidFails \/ ClearTemp \/ OpenPayload
      BY <3>3 DEF Goto, End, Fail, Start, StartFails, FindNextOccupied, FindNextFree, PruneDone,
         CheckParent, CheckParentFails, TakeFresh, TakeRefused, TakeFails, TakeNotRun,
         ReadGuid, ReadGuidFails, ClearTemp, OpenPayload
    <3>4. CASE Verify \/ VerifyFails \/ Send \/ SendFails \/ OpenId \/ WriteId
               \/ Rename \/ OpenCrumb \/ Crash \/ Checkpoint \/ PutBack
               \/ UNCHANGED vars
      BY <3>4 DEF Goto, End, Fail, Verify, VerifyFails, Send, SendFails, OpenId, WriteId,
         Rename, Publish, OpenCrumb, Crash, Checkpoint, PutBack, vars
    <3>5. QED
      BY <1>2, <2>2, <3>1, <3>2, <3>3, <3>4, Environments DEF Next, Command
  <2>3. QED
    BY <2>1, <2>2
<1>3. QED
  BY <1>1, <1>2, FreshStep, Invariance, PTL DEF Spec, SuccessIsFresh

-----------------------------------------------------------------------------
(***************************************************************************)
(* As long as the user has changed nothing, whatever id file there is, in  *)
(* the directory or in its checkpoint, names a snapshot of the dataset:    *)
(* nothing that the command does removes one.                              *)
(***************************************************************************)
Untouched ==
  /\ pc = "destroy" => \A v \in victims : IsNextVictim(v) => idFile[v] = NoFile
  /\ meddled = 0 =>
       /\ \A n \in Nodes : idFile[n] \in {dataset[n], NoFile}
       /\ saved # NoFile => \A n \in Nodes : saved.idFile[n] \in {dataset[n], NoFile}
       /\ pc \in HasParent /\ crumb # 0 => parentGuid = dataset[Parent(crumb)]
       /\ pc \in HasSnapshot => snapGuid = dataset[crumb]
       /\ result \notin {"parent_not_in_dataset", "snapshot_changed"}

(* The only step that could destroy a snapshot finds no id file any more.   *)
LEMMA UntouchedStep ==
  IInv /\ Untouched /\ [Next]_vars => Untouched'
<1> SUFFICES ASSUME IInv, Untouched, [Next]_vars PROVE Untouched'
  OBVIOUS
<1>0. /\ DatasetType /\ ProcessType /\ idFile \in [Nodes -> Files(Guids)]
      /\ meddled \in Nat
      /\ pc \in HasSnapshot => snapGuid \in Guids
      /\ pc = "rename" => temp.id = snapGuid
  BY RepoParts, BoundsAssumption
     DEF IInv, TypeOK, DatasetType, ProcessType, StreamInv, Repository
<1>a. crumb # 0 => Parent(crumb) \in Nodes /\ Parent(crumb) # crumb
  BY <1>0, ParentNode, Constants DEF ProcessType, Nodes
<1> USE <1>0, <1>a DEF Untouched, DatasetType, ProcessType, Goto, End, Fail, HasSnapshot,
        HasParent, BeforePublish, repoVars, datasetVars, localVars, boundVars
<1>1. CASE Start
  BY <1>1 DEF Start
<1>2. CASE StartFails
  BY <1>2 DEF StartFails
<1>3. CASE FindNextOccupied
  BY <1>3 DEF FindNextOccupied
<1>4. CASE FindNextFree
  BY <1>4 DEF FindNextFree
<1>5. ASSUME NEW v \in victims, UnlinkId(v) PROVE Untouched'
  BY <1>5, Constants DEF UnlinkId
<1>6. ASSUME NEW v \in victims, UnlinkPayload(v) PROVE Untouched'
  BY <1>6 DEF UnlinkPayload
<1>7. ASSUME NEW v \in victims, RemoveDir(v) PROVE Untouched'
  <2>1. \A w \in victims : IsNextVictim(w) => w = v
    BY <1>7, Constants DEF RemoveDir, IsNextVictim, Nodes
  <2>2. QED
    BY <1>7, <2>1 DEF RemoveDir, IsNextVictim
<1>8. ASSUME NEW v \in victims, DestroySnapshot(v) PROVE Untouched'
  BY <1>8 DEF DestroySnapshot, IsNextVictim
<1>9. CASE PruneDone
  BY <1>9 DEF PruneDone
<1>10. CASE CheckParent
  BY <1>10 DEF CheckParent, ParentInDataset
<1>11. CASE CheckParentFails
  <2>1. idFile[Parent(crumb)] # NoFile
    BY <1>11, ParentStored DEF CheckParentFails, IInv, TypeOK, RepoInv
  <2>2. meddled # 0
    BY <1>11, <2>1 DEF CheckParentFails, ParentInDataset
  <2>3. UNCHANGED meddled /\ pc' = "idle"
    BY <1>11 DEF CheckParentFails
  <2>4. QED
    BY <2>2, <2>3
<1>12. CASE TakeFresh
  BY <1>12 DEF TakeFresh
<1>13. CASE TakeRefused
  BY <1>13 DEF TakeRefused
<1>14. CASE TakeFails \/ TakeNotRun
  BY <1>14 DEF TakeFails, TakeNotRun
<1>15. CASE ReadGuid
  BY <1>15 DEF ReadGuid
<1>16. CASE ReadGuidFails
  BY <1>16 DEF ReadGuidFails
<1>17. CASE ClearTemp
  BY <1>17 DEF ClearTemp
<1>18. CASE OpenPayload
  BY <1>18 DEF OpenPayload
<1>19. CASE Verify
  BY <1>19 DEF Verify
<1>20. CASE VerifyFails
  BY <1>20 DEF VerifyFails, EndsUnchanged
<1>21. CASE Send
  BY <1>21 DEF Send
<1>22. CASE SendFails
  BY <1>22 DEF SendFails
<1>23. CASE OpenId
  BY <1>23 DEF OpenId
<1>24. CASE WriteId
  BY <1>24 DEF WriteId
<1>25. CASE Rename
  BY <1>25 DEF Rename, Publish
<1>26. CASE OpenCrumb
  BY <1>26 DEF OpenCrumb
<1>27. CASE WriteCrumb
  BY <1>27 DEF WriteCrumb
<1>28. CASE Crash
  BY <1>28 DEF Crash
<1>29. ASSUME NEW n \in Nodes, UserDestroys(n) \/ UserRollsBack(n) PROVE Untouched'
  <2>1. UNCHANGED <<repoVars, pc, localVars>> /\ meddled' = meddled + 1
    BY <1>29 DEF UserDestroys, UserRollsBack, UserChanges
  <2>2. QED
    BY <2>1 DEF IsNextVictim
<1>30. CASE Checkpoint
  BY <1>30 DEF Checkpoint, Repository, IsNextVictim
<1>31. CASE PutBack
  BY <1>31 DEF PutBack
<1>32. CASE UNCHANGED vars
  BY <1>32 DEF vars, IsNextVictim
<1> QED
  BY <1>1, <1>2, <1>3, <1>4, <1>5, <1>6, <1>7, <1>8,
     <1>9, <1>10, <1>11, <1>12, <1>13, <1>14, <1>15, <1>16,
     <1>17, <1>18, <1>19, <1>20, <1>21, <1>22, <1>23, <1>24,
     <1>25, <1>26, <1>27, <1>28, <1>29, <1>30, <1>31, <1>32, Environments
     DEF Next, Command

(***************************************************************************)
(* A snapshot that a command looks for is missing or is another one only   *)
(* if the user removed it, whatever has crashed or has been put back       *)
(* (Controller.cpp:235-242, BackendDriver.hpp:168-171).                    *)
(***************************************************************************)
THEOREM ParentsStay == Spec => []ParentLostOnlyByUser
<1>1. Init => Untouched
  BY DEF Init, Untouched, HasSnapshot, HasParent, BeforePublish
<1>2. IInv /\ Untouched => ParentLostOnlyByUser
  BY BoundsAssumption DEF IInv, TypeOK, Untouched, ParentLostOnlyByUser
<1>3. QED
  BY <1>1, <1>2, UntouchedStep, Invariance, PTL DEF Spec

-----------------------------------------------------------------------------
(***************************************************************************)
(* Which snapshots are in the way of the next one.                         *)
(***************************************************************************)
(* No repository was put back: none is further ahead than one node.         *)
AheadInv ==
  restores = 0 =>
    /\ pc # "idle" => \A n \in Nodes : n > crumb => dataset[n] = NoFile
    /\ pc = "idle" /\ bread # Torn => \A n \in Nodes : n > CrumbOf(bread) => dataset[n] = NoFile
    /\ result = "name_taken" => pc = "idle" /\ bread # Torn

(* The breadcrumb file is cut short by its writing, and stays so only when  *)
(* that is interrupted.                                                     *)
TornInv == /\ bread = Torn => pc = "write_crumb" \/ crashes > 0 \/ restores > 0
           /\ TornForCause

(* The next node's name is free, or the command will not come to ask for    *)
(* it, because it misses the snapshot of the node's parent.                 *)
Vacant(n) == \/ dataset[n] = NoFile
             \/ n # 0 /\ dataset[Parent(n)] # idFile[Parent(n)]

(* Nothing but the user's changes of the dataset has happened. *)
Quiet == crashes = 0 /\ faults = 0 /\ restores = 0

QuietInv ==
  Quiet =>
    /\ pc \in {"next", "prune", "destroy", "parent"} => Vacant(crumb)
    /\ pc = "idle" => bread # Torn /\ Vacant(CrumbOf(bread))
    /\ pc = "take" => dataset[crumb] = NoFile
    /\ pc \in {"guid"} \cup HasSnapshot \cup Published => ~ old
    /\ pc \in HasSnapshot => dataset[crumb] \in {snapGuid, NoFile}
    /\ result # "name_taken"

(* Pruning destroys no snapshot, so that only TakeFresh and the user change *)
(* the dataset.                                                             *)
LEMMA DatasetKept ==
  ASSUME IInv, [Next]_vars
  PROVE  \/ dataset' = dataset
         \/ TakeFresh
         \/ \E n \in Nodes, kept \in SUBSET Nodes : UserChanges(n, kept)
<1>1. ASSUME NEW v \in victims, DestroySnapshot(v) PROVE dataset' = dataset
  <2>1. v \in Nodes /\ v \notin dirs /\ ValidFor(Repository, crumb)
    BY <1>1 DEF DestroySnapshot, IInv, TypeOK, PruneInv, RepoInv
  <2>2. idFile[v] = NoFile
    BY <2>1 DEF ValidFor, Repository
  <2>3. QED
    BY <1>1, <2>2 DEF DestroySnapshot
<1>2. QED
  BY <1>1, DatasetWriters DEF datasetVars

(* What the user leaves of the dataset. *)
LEMMA UserLeaves ==
  ASSUME NEW n \in Nodes, NEW kept \in SUBSET Nodes, UserChanges(n, kept)
  PROVE  /\ \A m \in Nodes : dataset'[m] \in {dataset[m], NoFile}
         /\ UNCHANGED <<repoVars, pc, localVars, result, saved, crashes, faults, restores>>
BY DEF UserChanges

(* The breadcrumb while a command runs, and after one that stored nothing. *)
LEMMA CrumbHeld ==
  ASSUME IInv, pc # "idle", pc # "write_crumb"
  PROVE  bread # Torn /\ crumb = CrumbOf(bread)
BY DEF IInv, RepoInv


LEMMA AheadStep ==
  IInv /\ AheadInv /\ [Next]_vars => AheadInv'
<1> SUFFICES ASSUME IInv, AheadInv, [Next]_vars PROVE AheadInv'
  OBVIOUS
<1>0. /\ DatasetType /\ ProcessType /\ restores \in Nat /\ Nodes \subseteq Nat /\ Torn \notin Nat
      /\ NoFile \notin Nat
      /\ pc \notin {"idle", "write_crumb"} => bread # Torn /\ crumb = CrumbOf(bread)
      /\ pc = "write_crumb" => bread = Torn
  BY CrumbHeld, BoundsAssumption, Constants
     DEF IInv, RepoInv, TypeOK, DatasetType, ProcessType, Nodes
<1> USE <1>0 DEF AheadInv, DatasetType, ProcessType, Goto, End, Fail, repoVars, datasetVars,
        localVars, boundVars
<1>1. CASE Start
  BY <1>1 DEF Start
<1>2. CASE StartFails
  BY <1>2 DEF StartFails
<1>3. CASE FindNextOccupied
  BY <1>3 DEF FindNextOccupied
<1>4. CASE FindNextFree
  BY <1>4 DEF FindNextFree
<1>5. ASSUME NEW v \in victims, UnlinkId(v) PROVE AheadInv'
  BY <1>5 DEF UnlinkId
<1>6. ASSUME NEW v \in victims, UnlinkPayload(v) PROVE AheadInv'
  BY <1>6 DEF UnlinkPayload
<1>7. ASSUME NEW v \in victims, RemoveDir(v) PROVE AheadInv'
  BY <1>7 DEF RemoveDir
<1>8. ASSUME NEW v \in victims, DestroySnapshot(v) PROVE AheadInv'
  <2>1. dataset' = dataset
    BY <1>8, DatasetKept DEF DestroySnapshot, TakeFresh, UserChanges
  <2>2. QED
    BY <1>8, <2>1 DEF DestroySnapshot
<1>9. CASE PruneDone
  BY <1>9 DEF PruneDone
<1>10. CASE CheckParent
  BY <1>10 DEF CheckParent
<1>11. CASE CheckParentFails
  BY <1>11 DEF CheckParentFails
<1>12. CASE TakeFresh
  BY <1>12 DEF TakeFresh
<1>13. CASE TakeRefused
  BY <1>13 DEF TakeRefused
<1>14. CASE TakeFails
  BY <1>14 DEF TakeFails
<1>15. CASE TakeNotRun
  BY <1>15 DEF TakeNotRun
<1>16. CASE ReadGuid
  BY <1>16 DEF ReadGuid
<1>17. CASE ReadGuidFails
  BY <1>17 DEF ReadGuidFails
<1>18. CASE ClearTemp
  BY <1>18 DEF ClearTemp
<1>19. CASE OpenPayload
  BY <1>19 DEF OpenPayload
<1>20. CASE Verify
  BY <1>20 DEF Verify
<1>21. CASE VerifyFails
  BY <1>21 DEF VerifyFails
<1>22. CASE Send
  BY <1>22 DEF Send
<1>23. CASE SendFails
  BY <1>23 DEF SendFails
<1>24. CASE OpenId
  BY <1>24 DEF OpenId
<1>25. CASE WriteId
  BY <1>25 DEF WriteId
<1>26. CASE Rename
  BY <1>26 DEF Rename, Publish
<1>27. CASE OpenCrumb
  BY <1>27 DEF OpenCrumb
<1>28. CASE WriteCrumb
  BY <1>28 DEF WriteCrumb, CrumbOf
<1>29. CASE Crash
  BY <1>29 DEF Crash
<1>30. ASSUME NEW n \in Nodes, NEW kept \in SUBSET Nodes, UserChanges(n, kept) PROVE AheadInv'
  BY <1>30, UserLeaves
<1>31. CASE Checkpoint
  BY <1>31 DEF Checkpoint
<1>32. CASE PutBack
  BY <1>32 DEF PutBack
<1>33. CASE UNCHANGED vars
  BY <1>33 DEF vars
<1>34. ASSUME NEW n \in Nodes, UserDestroys(n) \/ UserRollsBack(n) PROVE AheadInv'
  <2>1. \E kept \in SUBSET Nodes : UserChanges(n, kept)
    BY <1>34 DEF UserDestroys, UserRollsBack
  <2>2. QED
    BY <1>30, <2>1
<1> QED
  BY <1>1, <1>2, <1>3, <1>4, <1>5, <1>6, <1>7, <1>8,
     <1>9, <1>10, <1>11, <1>12, <1>13, <1>14, <1>15, <1>16,
     <1>17, <1>18, <1>19, <1>20, <1>21, <1>22, <1>23, <1>24, <1>25,
     <1>26, <1>27, <1>28, <1>29, <1>31, <1>32, <1>33, <1>34, Environments
     DEF Next, Command

LEMMA TornStep ==
  IInv /\ TornInv /\ [Next]_vars => TornInv'
<1> SUFFICES ASSUME IInv, TornInv, [Next]_vars PROVE TornInv'
  OBVIOUS
<1>0. /\ crashes \in Nat /\ restores \in Nat
      /\ Nodes \subseteq Nat /\ Torn \notin Nat /\ crumb \in Nodes
      /\ pc \notin {"idle", "write_crumb"} => bread # Torn
  BY CrumbHeld, BoundsAssumption, Constants DEF IInv, TypeOK, Nodes
<1> USE <1>0 DEF TornInv, TornForCause, Goto, End, Fail, repoVars, datasetVars, localVars,
        boundVars
<1>1. CASE Start
  BY <1>1 DEF Start
<1>2. CASE StartFails
  BY <1>2 DEF StartFails
<1>3. CASE FindNextOccupied
  BY <1>3 DEF FindNextOccupied
<1>4. CASE FindNextFree
  BY <1>4 DEF FindNextFree
<1>5. ASSUME NEW v \in victims, UnlinkId(v) PROVE TornInv'
  BY <1>5 DEF UnlinkId
<1>6. ASSUME NEW v \in victims, UnlinkPayload(v) PROVE TornInv'
  BY <1>6 DEF UnlinkPayload
<1>7. ASSUME NEW v \in victims, RemoveDir(v) PROVE TornInv'
  BY <1>7 DEF RemoveDir
<1>8. ASSUME NEW v \in victims, DestroySnapshot(v) PROVE TornInv'
  BY <1>8 DEF DestroySnapshot
<1>9. CASE PruneDone
  BY <1>9 DEF PruneDone
<1>10. CASE CheckParent
  BY <1>10 DEF CheckParent
<1>11. CASE CheckParentFails
  BY <1>11 DEF CheckParentFails
<1>12. CASE TakeFresh
  BY <1>12 DEF TakeFresh
<1>13. CASE TakeRefused
  BY <1>13 DEF TakeRefused
<1>14. CASE TakeFails
  BY <1>14 DEF TakeFails
<1>15. CASE TakeNotRun
  BY <1>15 DEF TakeNotRun
<1>16. CASE ReadGuid
  BY <1>16 DEF ReadGuid
<1>17. CASE ReadGuidFails
  BY <1>17 DEF ReadGuidFails
<1>18. CASE ClearTemp
  BY <1>18 DEF ClearTemp
<1>19. CASE OpenPayload
  BY <1>19 DEF OpenPayload
<1>20. CASE Verify
  BY <1>20 DEF Verify
<1>21. CASE VerifyFails
  BY <1>21 DEF VerifyFails
<1>22. CASE Send
  BY <1>22 DEF Send
<1>23. CASE SendFails
  BY <1>23 DEF SendFails
<1>24. CASE OpenId
  BY <1>24 DEF OpenId
<1>25. CASE WriteId
  BY <1>25 DEF WriteId
<1>26. CASE Rename
  BY <1>26 DEF Rename, Publish
<1>27. CASE OpenCrumb
  BY <1>27 DEF OpenCrumb
<1>28. CASE WriteCrumb
  BY <1>28 DEF WriteCrumb
<1>29. CASE Crash
  BY <1>29 DEF Crash
<1>30. ASSUME NEW n \in Nodes, NEW kept \in SUBSET Nodes, UserChanges(n, kept) PROVE TornInv'
  BY <1>30, UserLeaves
<1>31. CASE Checkpoint
  BY <1>31 DEF Checkpoint
<1>32. CASE PutBack
  BY <1>32 DEF PutBack
<1>33. CASE UNCHANGED vars
  BY <1>33 DEF vars
<1>34. ASSUME NEW n \in Nodes, UserDestroys(n) \/ UserRollsBack(n) PROVE TornInv'
  <2>1. \E kept \in SUBSET Nodes : UserChanges(n, kept)
    BY <1>34 DEF UserDestroys, UserRollsBack
  <2>2. QED
    BY <1>30, <2>1
<1> QED
  BY <1>1, <1>2, <1>3, <1>4, <1>5, <1>6, <1>7, <1>8,
     <1>9, <1>10, <1>11, <1>12, <1>13, <1>14, <1>15, <1>16,
     <1>17, <1>18, <1>19, <1>20, <1>21, <1>22, <1>23, <1>24, <1>25,
     <1>26, <1>27, <1>28, <1>29, <1>31, <1>32, <1>33, <1>34, Environments
     DEF Next, Command

(* The counts of what has happened do not fall. *)
LEMMA BoundsGrow ==
  ASSUME IInv, [Next]_vars
  PROVE  crashes <= crashes' /\ faults <= faults' /\ restores <= restores'
<1>1. crashes \in Nat /\ faults \in Nat /\ restores \in Nat
  BY BoundsAssumption DEF IInv, TypeOK
<1>2. QED
  BY <1>1, BoundWriters DEF boundVars, TakeFails, TakeNotRun, SendFails, Crash, Checkpoint,
     PutBack, UserDestroys, UserRollsBack, UserChanges

LEMMA QuietStep ==
  IInv /\ AheadInv /\ TornInv /\ QuietInv /\ [Next]_vars => QuietInv'
<1> SUFFICES ASSUME IInv, AheadInv, TornInv, QuietInv, [Next]_vars, Quiet' PROVE QuietInv'
  BY DEF QuietInv
<1>0. /\ DatasetType /\ ProcessType /\ crashes \in Nat /\ faults \in Nat /\ restores \in Nat
      /\ Nodes = 0..MaxNode /\ MaxNode \in Nat /\ NoFile \notin Nat
      /\ pc \notin {"idle", "write_crumb"} => bread # Torn /\ crumb = CrumbOf(bread)
  BY CrumbHeld, BoundsAssumption, Constants
     DEF IInv, TypeOK, DatasetType, ProcessType, Nodes
<1>a. crumb # 0 => Parent(crumb) \in Nodes /\ Parent(crumb) # crumb
  BY <1>0, ParentNode DEF ProcessType
<1>b. pc # "idle" /\ crumb # 0 => idFile[Parent(crumb)] # NoFile
  BY <1>0, ParentStored DEF IInv, RepoInv, ProcessType
<1>d. idFile \in [Nodes -> Files(Guids)] /\ Torn \notin Nat
  BY RepoParts, Constants DEF IInv, TypeOK, Repository
<1>c. Quiet
  BY <1>0, BoundsGrow DEF Quiet
<1> USE <1>0, <1>a, <1>b, <1>c DEF QuietInv, Vacant, DatasetType, ProcessType, Goto, End, Fail,
        HasSnapshot, HasParent, BeforePublish, Published, repoVars, datasetVars, localVars,
        boundVars
<1>1. CASE Start
  BY <1>1 DEF Start
<1>2. CASE StartFails
  BY <1>2 DEF StartFails
<1>3. CASE FindNextOccupied
  BY <1>3 DEF FindNextOccupied
<1>4. CASE FindNextFree
  BY <1>4 DEF FindNextFree
<1>5. ASSUME NEW v \in victims, UnlinkId(v) PROVE QuietInv'
  <2>1. ASSUME crumb # 0 PROVE Demise(Parent(crumb)) # crumb \/ Parent(crumb) = 0
    <3>1. crumb \in Nat \ {0} /\ Parent(crumb) \in Nat
      BY <1>a, <2>1
    <3>2. Demise(crumb) \in Nat /\ Demise(crumb) >= crumb
      BY <3>1, DemiseType
    <3>3. Outlives(Parent(crumb), crumb)
      BY <2>1, <3>2, ParentOutlives
    <3>4. Parent(crumb) # 0 => Demise(Parent(crumb)) \in Nat
      BY <3>1, DemiseType
    <3>5. QED
      BY <3>1, <3>3, <3>4 DEF Outlives
  <2>2. crumb # 0 => v # Parent(crumb)
    BY <1>5, <2>1 DEF UnlinkId, IInv, PruneInv
  <2>3. idFile' = [idFile EXCEPT ![v] = NoFile] /\ pc' = "prune" /\ pc = "prune"
    BY <1>5 DEF UnlinkId
  <2>4. crumb # 0 => idFile'[Parent(crumb)] = idFile[Parent(crumb)]
    BY <1>a, <1>d, <2>2, <2>3
  <2>5. QED
    BY <1>5, <2>4 DEF UnlinkId
<1>6. ASSUME NEW v \in victims, UnlinkPayload(v) PROVE QuietInv'
  BY <1>6 DEF UnlinkPayload
<1>7. ASSUME NEW v \in victims, RemoveDir(v) PROVE QuietInv'
  BY <1>7 DEF RemoveDir
<1>8. ASSUME NEW v \in victims, DestroySnapshot(v) PROVE QuietInv'
  BY <1>8 DEF DestroySnapshot
<1>9. CASE PruneDone
  BY <1>9 DEF PruneDone
<1>10. CASE CheckParent
  BY <1>10 DEF CheckParent, ParentInDataset
<1>11. CASE CheckParentFails
  BY <1>11 DEF CheckParentFails
<1>12. CASE TakeFresh
  BY <1>12 DEF TakeFresh
<1>13. CASE TakeRefused
  BY <1>13 DEF TakeRefused
<1>14. CASE TakeFails
  BY <1>14 DEF TakeFails
<1>15. CASE TakeNotRun
  BY <1>15 DEF TakeNotRun, Quiet
<1>16. CASE ReadGuid
  BY <1>16 DEF ReadGuid
<1>17. CASE ReadGuidFails
  BY <1>17 DEF ReadGuidFails
<1>18. CASE ClearTemp
  BY <1>18 DEF ClearTemp
<1>19. CASE OpenPayload
  BY <1>19 DEF OpenPayload
<1>20. CASE Verify
  BY <1>20 DEF Verify
<1>21. CASE VerifyFails
  BY <1>21 DEF VerifyFails, EndsUnchanged, IInv, StreamInv
<1>22. CASE Send
  BY <1>22 DEF Send
<1>23. CASE SendFails
  <2>1. ~ EndsExist
    BY <1>23 DEF SendFails, Quiet
  <2>2. Vacant(crumb)
    BY <1>23, <2>1, <1>b DEF SendFails, EndsExist
  <2>3. QED
    BY <1>23, <2>2 DEF SendFails
<1>24. CASE OpenId
  BY <1>24 DEF OpenId
<1>25. CASE WriteId
  BY <1>25 DEF WriteId
<1>26. CASE Rename
  <2>1. TargetFree
    BY <1>26 DEF Rename, TargetFree, IInv, PruneInv
  <2>2. QED
    BY <1>26, <2>1 DEF Rename, Publish
<1>27. CASE OpenCrumb
  BY <1>27 DEF OpenCrumb
<1>28. CASE WriteCrumb
  <2>1. ~ old /\ crumb + 1 \in Nodes
    BY <1>28 DEF WriteCrumb, IInv, StreamInv
  <2>2. dataset[crumb + 1] = NoFile
    BY <1>28, <2>1 DEF WriteCrumb, AheadInv, Quiet
  <2>3. bread' = crumb + 1 /\ CrumbOf(bread') = crumb + 1 /\ crumb + 1 # Torn
    BY <1>28, <1>d DEF WriteCrumb, CrumbOf
  <2>4. QED
    BY <1>28, <2>1, <2>2, <2>3 DEF WriteCrumb
<1>29. CASE Crash
  BY <1>29 DEF Crash, Quiet
<1>30. ASSUME NEW n \in Nodes, NEW kept \in SUBSET Nodes, UserChanges(n, kept) PROVE QuietInv'
  <2>1. ASSUME NEW b \in Nodes, Vacant(b), b # 0 => idFile[Parent(b)] # NoFile
        PROVE  Vacant(b)'
    <3>1. b # 0 => Parent(b) \in Nodes
      BY ParentNode
    <3>2. QED
      BY <1>30, <2>1, <3>1, UserLeaves
  <2>2. pc = "idle" => /\ CrumbOf(bread) \in Nodes
                       /\ CrumbOf(bread) # 0 => idFile[Parent(CrumbOf(bread))] # NoFile
    <3>1. pc = "idle" => CrumbOf(bread) \in Nodes /\ ValidFor(Repository, CrumbOf(bread))
      BY RepoParts, Constants
         DEF IInv, TypeOK, RepoInv, Valid, Repository, CrumbOf, Files
    <3>2. QED
      BY <3>1, ParentStored
  <2>3. bread' = bread /\ CrumbOf(bread') = CrumbOf(bread) /\ crumb' = crumb /\ pc' = pc
    BY <1>30, UserLeaves DEF CrumbOf
  <2> HIDE DEF Vacant
  <2>4. pc = "idle" => bread' # Torn /\ Vacant(CrumbOf(bread))'
    BY <2>1, <2>2, <2>3
  <2>5. pc \in {"next", "prune", "destroy", "parent"} => Vacant(crumb)'
    BY <2>1, <2>3
  <2>6. QED
    BY <1>30, <2>3, <2>4, <2>5, UserLeaves
<1>31. CASE Checkpoint
  BY <1>31 DEF Checkpoint
<1>32. CASE PutBack
  BY <1>32 DEF PutBack, Quiet
<1>33. CASE UNCHANGED vars
  BY <1>33 DEF vars
<1>34. ASSUME NEW n \in Nodes, UserDestroys(n) \/ UserRollsBack(n) PROVE QuietInv'
  <2>1. \E kept \in SUBSET Nodes : UserChanges(n, kept)
    BY <1>34 DEF UserDestroys, UserRollsBack
  <2>2. QED
    BY <1>30, <2>1
<1> QED
  BY <1>1, <1>2, <1>3, <1>4, <1>5, <1>6, <1>7, <1>8,
     <1>9, <1>10, <1>11, <1>12, <1>13, <1>14, <1>15, <1>16,
     <1>17, <1>18, <1>19, <1>20, <1>21, <1>22, <1>23, <1>24, <1>25,
     <1>26, <1>27, <1>28, <1>29, <1>31, <1>32, <1>33, <1>34, Environments
     DEF Next, Command

(***************************************************************************)
(* Why a command gives up.  Never for a state that the code calls          *)
(* unexpected; for a lost snapshot only when the user removed one; for a   *)
(* name that is taken only after a crash, a failure of zfs or a directory  *)
(* put back; for a torn breadcrumb only after a crash or a directory put   *)
(* back.                                                                   *)
(***************************************************************************)
THEOREM FailuresHaveCause == Spec => []FailsOnlyForCause
<1> USE DEF Init, AheadInv, TornInv, TornForCause, QuietInv, Vacant, CrumbOf, HasSnapshot,
            HasParent, BeforePublish, Published
<1>1. Init => AheadInv /\ TornInv /\ QuietInv
  BY Constants
<1> HIDE DEF Init, AheadInv, TornInv, QuietInv, TornForCause, CrumbOf
<1>2. IInv /\ AheadInv /\ QuietInv => NameTakenForCause
  BY BoundsAssumption DEF IInv, TypeOK, AheadInv, QuietInv, Quiet, NameTakenForCause
<1>3. TornInv => TornForCause
  BY DEF TornInv
<1>4. QED
  BY <1>1, <1>2, <1>3, AheadStep, TornStep, QuietStep, Invariance, NothingUnexpected,
     ParentsStay, PTL DEF Spec, FailsOnlyForCause

-----------------------------------------------------------------------------
(***************************************************************************)
(* The repository directory implements BackupHistory: every step of a      *)
(* command, of its environment, and of a crash in the middle of either, is *)
(* a step of the history or none.                                          *)
(*                                                                         *)
(* Two steps of the command matter.  Deleting the first file of a node     *)
(* forgets that node, and must not take the ground from under another:     *)
(* whatever rests on it has died before it.  Renaming the temporary        *)
(* directory takes the next snapshot, and may do so only when the pruning  *)
(* before it is complete.                                                  *)
(***************************************************************************)
(* The next node is what After() says: one more than the newest.           *)
LEMMA AfterIs ==
  ASSUME NEW r, NEW b \in Nodes, r.dirs \subseteq Nodes, ValidFor(r, b)
  PROVE  After(r.dirs) = IF b \in r.dirs THEN b + 1 ELSE b
<1>1. b \in Nat /\ r.dirs \subseteq Nat /\ \A n \in r.dirs : n <= b
  BY Constants DEF Nodes, ValidFor
<1>2. ASSUME NEW top \in r.dirs, \A n \in r.dirs : n <= top
      PROVE  After(r.dirs) = 1 + top
  <2>1. \A x \in r.dirs : (\A m \in r.dirs : m <= x) => x = top
    BY <1>1, <1>2
  <2>2. (CHOOSE n \in r.dirs : \A m \in r.dirs : m <= n) = top
    BY <1>2, <2>1
  <2>3. QED
    BY <1>2, <2>2 DEF After
<1>3. CASE b \in r.dirs
  BY <1>1, <1>2, <1>3
<1>4. CASE b \notin r.dirs /\ b = 0
  <2>1. r.dirs = {}
    BY <1>1, <1>4
  <2>2. QED
    BY <1>4, <2>1 DEF After
<1>5. CASE b \notin r.dirs /\ b # 0
  <2>1. b - 1 \in Nodes /\ b - 1 < b /\ b - 1 \in Nat
    BY <1>1, <1>5, Constants DEF Nodes
  <2>2. Outlives(b - 1, b)
    BY <1>1, <1>5, <2>1, DemiseType DEF Outlives
  <2>3. b - 1 \in r.dirs
    BY <2>1, <2>2 DEF ValidFor, IntactIn
  <2>4. ASSUME NEW n \in r.dirs PROVE n <= b - 1
    <3>1. n \in Nat /\ n <= b /\ n # b
      BY <1>1, <1>5
    <3>2. QED
      BY <1>1, <3>1
  <2>5. After(r.dirs) = 1 + (b - 1)
    BY <1>2, <2>3, <2>4
  <2>6. QED
    BY <1>1, <1>5, <2>5
<1>6. QED
  BY <1>3, <1>4, <1>5

(* remove_all() of a node whose time has come changes no other node. *)
LEMMA OthersIntact ==
  ASSUME NEW r, NEW s, NEW b \in Nodes, NEW v \in Nodes,
         ValidFor(r, b), v # 0, Demise(v) = b, r.dirs \subseteq Nodes,
         r.dirs \ {v} \subseteq s.dirs,
         \A n \in Nodes \ {v} : s.idFile[n] = r.idFile[n] /\ s.payload[n] = r.payload[n],
         NEW n \in r.dirs, n # v
  PROVE  n \in IntactIn(s) <=> n \in IntactIn(r)
<1>1. n \in Nodes /\ n \in s.dirs
  OBVIOUS
<1>2. n # 0 => Parent(n) \in Nodes \ {v}
  <2>1. SUFFICES ASSUME n # 0, Parent(n) = v PROVE FALSE
    BY <1>1, ParentNode
  <2>2. n \in Nat /\ v \in Nat /\ b \in Nat
    BY <1>1, Constants DEF Nodes
  <2>3. Demise(v) > Demise(n) /\ Demise(n) \in Nat /\ Demise(v) \in Nat
    BY <2>1, <2>2, AncestorsOutlive, DemiseType
  <2>4. Demise(n) >= b
    BY <2>1 DEF ValidFor
  <2>5. QED
    BY <2>2, <2>3, <2>4
<1>3. s.idFile[n] = r.idFile[n] /\ s.payload[n] = r.payload[n]
  BY <1>1
<1>4. n # 0 => s.idFile[Parent(n)] = r.idFile[Parent(n)]
  BY <1>2
<1>5. QED
  BY <1>1, <1>3, <1>4 DEF IntactIn

(* remove_all() of a node whose time has come, as far as it may get, takes  *)
(* nothing else from what can be restored.                                  *)
LEMMA ForgetIntact ==
  ASSUME NEW r, NEW s, NEW b \in Nodes, NEW v \in Nodes,
         ValidFor(r, b), v # 0, Demise(v) = b, r.dirs \subseteq Nodes,
         s.dirs \subseteq r.dirs, r.dirs \ {v} \subseteq s.dirs,
         \A n \in Nodes \ {v} : s.idFile[n] = r.idFile[n] /\ s.payload[n] = r.payload[n],
         v \notin IntactIn(s)
  PROVE  IntactIn(s) = IntactIn(r) \ {v}
<1>1. ASSUME NEW n \in r.dirs, n # v
      PROVE  n \in IntactIn(s) <=> n \in IntactIn(r)
  BY <1>1, OthersIntact
<1>2. IntactIn(s) \subseteq r.dirs /\ IntactIn(r) \subseteq r.dirs
  BY DEF IntactIn
<1>3. QED
  BY <1>1, <1>2

(* Publishing a node adds it to what can be restored, and nothing else. *)
LEMMA PublishIntact ==
  ASSUME NEW r, NEW s, NEW b \in Nodes,
         ValidFor(r, b), b \notin r.dirs, r.dirs \subseteq Nodes,
         s.dirs = r.dirs \cup {b},
         \A n \in Nodes \ {b} : s.idFile[n] = r.idFile[n] /\ s.payload[n] = r.payload[n],
         b \in IntactIn(s)
  PROVE  IntactIn(s) = IntactIn(r) \cup {b}
<1>1. ASSUME NEW n \in r.dirs
      PROVE  n \in IntactIn(s) <=> n \in IntactIn(r)
  <2>1. n \in Nodes /\ n <= b /\ n # b /\ n \in Nat /\ b \in Nat
    BY Constants DEF ValidFor, Nodes
  <2>2. Parent(n) \in Nodes \ {b}
    <3>1. Parent(n) \in Nodes /\ Parent(n) <= n
      BY <2>1, ParentNode
    <3>2. QED
      BY <2>1, <3>1, Constants DEF Nodes
  <2>3. QED
    BY <2>1, <2>2 DEF IntactIn
<1>2. IntactIn(s) \subseteq r.dirs \cup {b} /\ IntactIn(r) \subseteq r.dirs
  BY DEF IntactIn
<1>3. QED
  BY <1>1, <1>2

(* When the pruning for b is complete, what can be restored is what the     *)
(* tree keeps.                                                              *)
LEMMA PrunedIntact ==
  ASSUME NEW r, NEW b \in Nodes, ValidFor(r, b), b \notin r.dirs,
         r.dirs \subseteq Nodes, \A n \in r.dirs : Outlives(n, b)
  PROVE  b # 0 => IntactIn(r) = {k \in 0..(b - 1) : Outlives(k, b)}
<1>1. b \in Nat /\ Nodes = 0..MaxNode /\ MaxNode \in Nat
  BY Constants DEF Nodes
<1>2. ASSUME NEW n \in IntactIn(r)
      PROVE  n \in 0..(b - 1) /\ Outlives(n, b)
  BY <1>1, <1>2 DEF IntactIn, ValidFor
<1>3. ASSUME NEW n \in 0..(b - 1), Outlives(n, b)
      PROVE  n \in IntactIn(r)
  <2>1. n \in Nodes /\ n < b
    BY <1>1, <1>3
  <2>2. QED
    BY <1>3, <2>1 DEF ValidFor
<1>4. QED
  BY <1>2, <1>3

-----------------------------------------------------------------------------
(* The history's tree is the tree of diffmonger.hpp. *)
LEMMA SameTree ==
  ASSUME NEW k, NEW n
  PROVE  /\ History!Demise(k) = Demise(k)
         /\ History!Outlives(k, n) <=> Outlives(k, n)
<1>1. \A p : History!IsPow2(p) <=> IsPow2(p)
  BY DEF History!IsPow2, IsPow2
<1>2. \A p : History!IsLSB(p, k) <=> IsLSB(p, k)
  BY <1>1 DEF History!IsLSB, IsLSB
<1>3. History!LSB(k) = LSB(k)
  BY <1>2, Zenon DEF History!LSB, LSB
<1>4. History!Demise(k) = Demise(k)
  BY <1>3 DEF History!Demise, Demise
<1>5. QED
  BY <1>4 DEF History!Outlives, Outlives

(* Only the checkpoint changes what is archived. *)
LEMMA SavedWriters == [Next]_vars => UNCHANGED saved \/ Checkpoint
<1> USE DEF boundVars
<1>1. ASSUME NEW n \in Nodes, UserDestroys(n) \/ UserRollsBack(n) PROVE UNCHANGED saved
  BY <1>1 DEF UserDestroys, UserRollsBack, UserChanges
<1>2. CASE TakeFails \/ TakeNotRun \/ SendFails \/ Crash \/ PutBack
  BY <1>2 DEF TakeFails, TakeNotRun, SendFails, Crash, PutBack
<1>3. QED
  BY <1>1, <1>2, BoundWriters

(* A step that leaves the nodes and the archive alone is none of the        *)
(* history's.                                                               *)
LEMMA Stutters ==
  ASSUME SameNodes(Repository, Repository'), UNCHANGED saved
  PROVE  UNCHANGED History!vars
<1>1. IntactIn(Repository)' = IntactIn(Repository) /\ dirs' = dirs
  BY DEF SameNodes, IntactIn, Repository
<1>2. After(dirs)' = After(dirs)
  BY <1>1
<1>3. QED
  BY <1>1, <1>2 DEF History!vars

(* A deletion forgets its node at the first file, if that node was whole,   *)
(* and is none of the history's steps otherwise.                            *)
LEMMA Forgets ==
  ASSUME IInv, IInv', NEW v \in victims,
         UnlinkId(v) \/ UnlinkPayload(v) \/ RemoveDir(v)
  PROVE  [History!Next]_(History!vars)
<1>1. /\ pc = "prune" /\ crumb \in Nodes /\ v \in Nodes /\ v # 0
      /\ crumb \notin dirs /\ Demise(v) = crumb
      /\ ValidFor(Repository, crumb)
  BY DEF UnlinkId, UnlinkPayload, RemoveDir, IInv, TypeOK, PruneInv, RepoInv
<1>2. dirs \subseteq Nodes /\ idFile \in [Nodes -> Files(Guids)]
         /\ payload \in [Nodes -> Files(Diffs)]
  BY RepoParts DEF IInv, TypeOK, Repository
<1>3. /\ crumb' = crumb /\ pc' \in {"prune", "destroy"} /\ UNCHANGED saved
      /\ dirs' \subseteq dirs /\ dirs \ {v} \subseteq dirs'
      /\ \A n \in Nodes \ {v} : idFile'[n] = idFile[n] /\ payload'[n] = payload[n]
  BY <1>2 DEF UnlinkId, UnlinkPayload, RemoveDir, Goto, localVars, boundVars
<1>4. ValidFor(Repository, crumb)' /\ (crumb \notin dirs)' /\ dirs' \subseteq Nodes
  BY <1>2, <1>3 DEF IInv, RepoInv, PruneInv
<1>5. v \notin IntactIn(Repository)'
  <2>1. idFile'[v] = NoFile \/ payload'[v] = NoFile \/ v \notin dirs'
    BY <1>1, <1>2 DEF UnlinkId, UnlinkPayload, RemoveDir
  <2>2. idFile'[v] = NoFile => v \notin IntactIn(Repository)'
    BY Constants DEF IntactIn, Repository, Guids
  <2>3. ASSUME payload'[v] = NoFile, v \in IntactIn(Repository)' PROVE FALSE
    <3>1. idFile' \in [Nodes -> Files(Guids)]
      BY RepoParts DEF IInv, TypeOK, Repository
    <3>2. /\ idFile'[v] \in Guids /\ idFile'[Parent(v)] \in Files(Guids)
          /\ payload'[v] = [base |-> idFile'[Parent(v)], target |-> idFile'[v]]
      BY <1>1, <2>3, <3>1, ParentNode DEF IntactIn, Repository
    <3>3. payload'[v] \in Diffs
      BY <3>2 DEF Diffs, Files
    <3>4. QED
      BY <2>3, <3>3, Constants
  <2>4. v \notin dirs' => v \notin IntactIn(Repository)'
    BY DEF IntactIn, Repository
  <2>5. QED
    BY <2>1, <2>2, <2>3, <2>4
<1>6. IntactIn(Repository)' = IntactIn(Repository) \ {v}
  <2>1. IntactIn(Repository') = IntactIn(Repository) \ {v}
    <3> DEFINE r == Repository
               s == [dirs |-> dirs', idFile |-> idFile', payload |-> payload',
                     temp |-> temp', bread |-> bread']
    <3>1. s = Repository'
      BY DEF Repository
    <3>2. /\ r.dirs = dirs /\ r.idFile = idFile /\ r.payload = payload
          /\ s.dirs = dirs' /\ s.idFile = idFile' /\ s.payload = payload'
      BY DEF Repository
    <3>3. ValidFor(r, crumb) /\ v \notin IntactIn(s)
      BY <1>1, <1>5, <3>1 DEF IntactIn
    <3> HIDE DEF r, s
    <3>4. IntactIn(s) = IntactIn(r) \ {v}
      BY <1>1, <1>2, <1>3, <3>2, <3>3, ForgetIntact
    <3>5. QED
      BY <3>1, <3>4 DEF r
  <2>2. QED
    BY <2>1 DEF IntactIn
<1>7. After(dirs) = crumb
  BY <1>1, <1>2, AfterIs DEF Repository
<1>8. After(dirs)' = crumb
  <2>1. ValidFor(Repository', crumb) /\ Repository'.dirs = dirs' /\ crumb \notin dirs'
    BY <1>3, <1>4 DEF Repository, ValidFor, IntactIn
  <2>2. After(Repository'.dirs) = crumb
    BY <1>1, <1>4, <2>1, AfterIs
  <2>3. QED
    BY <2>1, <2>2 DEF After
<1>9. CASE v \in IntactIn(Repository)
  <2>1. History!Forget(v)
    BY <1>1, <1>3, <1>6, <1>7, <1>8, <1>9, SameTree DEF History!Forget
  <2>2. QED
    BY <1>9, <2>1 DEF History!Next
<1>10. CASE v \notin IntactIn(Repository)
  BY <1>3, <1>6, <1>7, <1>8, <1>10 DEF History!vars
<1>11. QED
  BY <1>9, <1>10

(* The rename in commit() takes the next snapshot of the history. *)
LEMMA Takes ==
  ASSUME IInv, IInv', Rename, Publish
  PROVE  History!Take
<1>1. /\ pc = "rename" /\ crumb \in Nodes /\ crumb \notin dirs
      /\ ValidFor(Repository, crumb)
      /\ \A n \in dirs : Outlives(n, crumb)
  BY DEF Rename, IInv, TypeOK, PruneInv, RepoInv, BeforePublish
<1>2. dirs \subseteq Nodes /\ idFile \in [Nodes -> Files(Guids)]
         /\ payload \in [Nodes -> Files(Diffs)]
  BY RepoParts DEF IInv, TypeOK, Repository
<1>3. /\ crumb' = crumb /\ pc' = "open_crumb" /\ UNCHANGED saved
      /\ dirs' = dirs \cup {crumb}
      /\ \A n \in Nodes \ {crumb} : idFile'[n] = idFile[n] /\ payload'[n] = payload[n]
  BY <1>2 DEF Publish, Goto, localVars, boundVars
<1> DEFINE r == Repository
           s == [dirs |-> dirs', idFile |-> idFile', payload |-> payload',
                 temp |-> temp', bread |-> bread']
<1>4. s = Repository'
  BY DEF Repository
<1>5. /\ r.dirs = dirs /\ r.idFile = idFile /\ r.payload = payload
      /\ s.dirs = dirs' /\ s.idFile = idFile' /\ s.payload = payload'
  BY DEF Repository
<1>6. ValidFor(s, crumb)
  BY <1>3, <1>4 DEF IInv, RepoInv, ValidFor, IntactIn, Repository
<1> HIDE DEF r, s
<1>7. crumb \in IntactIn(s) /\ ValidFor(r, crumb)
  BY <1>1, <1>3, <1>5, <1>6 DEF ValidFor, r
<1>8. IntactIn(s) = IntactIn(r) \cup {crumb}
  BY <1>1, <1>2, <1>3, <1>5, <1>7, PublishIntact
<1>9. After(dirs) = crumb
  BY <1>1, <1>2, <1>5, <1>7, AfterIs
<1>10. After(dirs') = crumb + 1
  <2>1. s.dirs \subseteq Nodes /\ crumb \in s.dirs
    BY <1>1, <1>2, <1>3, <1>5
  <2>2. After(s.dirs) = crumb + 1
    BY <1>1, <1>6, <2>1, AfterIs
  <2>3. QED
    BY <1>5, <2>2
<1>11. crumb # 0 => IntactIn(r) = {k \in 0..(crumb - 1) : Outlives(k, crumb)}
  BY <1>1, <1>2, <1>5, <1>7, PrunedIntact
<1>12. After(dirs)' = crumb + 1 /\ IntactIn(Repository)' = IntactIn(Repository) \cup {crumb}
  <2>1. After(dirs)' = After(dirs')
    BY DEF After
  <2>2. IntactIn(Repository)' = IntactIn(s)
    BY <1>4 DEF IntactIn
  <2>3. QED
    BY <1>8, <1>10, <2>1, <2>2 DEF r
<1>13. QED
  BY <1>3, <1>9, <1>11, <1>12, SameTree DEF History!Take, r

(* Checkpointing the directory archives the history. *)
LEMMA Archives ==
  ASSUME Checkpoint
  PROVE  [History!Next]_(History!vars)
<1>1. UNCHANGED <<dirs, idFile, payload>> /\ saved = NoFile /\ saved' = Repository
  BY DEF Checkpoint, repoVars
<1>2. After(dirs)' = After(dirs) /\ IntactIn(Repository)' = IntactIn(Repository)
  BY <1>1 DEF IntactIn, Repository
<1>3. Repository.dirs = dirs /\ (saved' # NoFile => IntactIn(saved)' = IntactIn(Repository))
  BY <1>1 DEF Repository, IntactIn
<1>4. CASE saved' = NoFile
  BY <1>1, <1>2, <1>4 DEF History!vars
<1>5. CASE saved' # NoFile
  <2>1. After(saved.dirs)' = After(dirs)
    BY <1>1, <1>3
  <2>2. History!Archive
    BY <1>1, <1>2, <1>3, <1>5, <2>1 DEF History!Archive
  <2>3. QED
    BY <2>2 DEF History!Next
<1>6. QED
  BY <1>4, <1>5

(* Putting the directory back recalls the history that was archived. *)
LEMMA Recalls ==
  ASSUME PutBack
  PROVE  History!Recall
<1>1. /\ saved # NoFile /\ UNCHANGED saved /\ dirs' = saved.dirs
      /\ idFile' = saved.idFile /\ payload' = saved.payload
  BY DEF PutBack
<1>2. After(dirs)' = After(saved.dirs) /\ IntactIn(Repository)' = IntactIn(saved)
  BY <1>1 DEF IntactIn, Repository
<1>3. <<After(saved.dirs), IntactIn(saved)>> # <<>>
  OBVIOUS
<1>4. IntactIn(saved)' = IntactIn(saved) /\ After(saved.dirs)' = After(saved.dirs)
  BY <1>1
<1>5. QED
  BY <1>1, <1>2, <1>3, <1>4 DEF History!Recall

-----------------------------------------------------------------------------
(* Every step is a step of the history or leaves it alone. *)
LEMMA StepHistory ==
  IInv /\ IInv' /\ [Next]_vars => [History!Next]_(History!vars)
<1> SUFFICES ASSUME IInv, IInv', [Next]_vars
             PROVE  [History!Next]_(History!vars)
  OBVIOUS
<1>1. ASSUME NEW v \in victims, UnlinkId(v) \/ UnlinkPayload(v) \/ RemoveDir(v)
      PROVE  [History!Next]_(History!vars)
  BY <1>1, Forgets
<1>2. CASE Rename /\ Publish
  BY <1>2, Takes DEF History!Next
<1>3. CASE PutBack
  BY <1>3, Recalls DEF History!Next
<1>4. CASE Checkpoint
  BY <1>4, Archives
<1>5. CASE ~ Checkpoint /\ (\/ UNCHANGED repoVars
                           \/ ClearTemp \/ OpenPayload \/ Send \/ OpenId \/ WriteId
                           \/ OpenCrumb \/ WriteCrumb)
  <2>1. UNCHANGED <<dirs, idFile, payload>>
    BY <1>5 DEF repoVars, ClearTemp, OpenPayload, Send, OpenId, WriteId, OpenCrumb, WriteCrumb
  <2>2. SameNodes(Repository, Repository')
    BY <2>1 DEF SameNodes, Repository
  <2>3. UNCHANGED saved
    BY <1>5, SavedWriters
  <2>4. QED
    BY <2>2, <2>3, Stutters
<1>6. QED
  BY <1>1, <1>2, <1>3, <1>4, <1>5, RepoWriters

(* A repository that was just made has an empty history. *)
LEMMA InitHistory == Init => History!Init
<1> SUFFICES ASSUME Init PROVE History!Init
  OBVIOUS
<1>1. After(dirs) = 0 /\ IntactIn(Repository) = {}
  BY DEF Init, After, IntactIn, Repository
<1>2. QED
  BY <1>1 DEF Init, History!Init

(***************************************************************************)
(* The repository directory implements the history: whatever crashes,      *)
(* fails or is put back, a snapshot is forgotten only in its time, and the *)
(* next one is taken only when exactly those whose time has not come can   *)
(* be restored (_snapshot(), prune() and commit()).                        *)
(***************************************************************************)
THEOREM Implements == Spec => KeepsHistory
<1>1. QED
  BY InitHistory, StepHistory, Invariance, PTL DEF Spec, KeepsHistory, History!Spec

-----------------------------------------------------------------------------
(***************************************************************************)
(* What the other commands find: the repositories that RestoreCommand and  *)
(* NodeSelection start from are those that are left here.                  *)
(***************************************************************************)
Holding(file) == {n \in Nodes : file[n] # NoFile}

(* A node that is being deleted is whole or lacks a file. *)
WholeOrHalf(repo) ==
  \A n \in repo.dirs :
     repo.idFile[n] # NoFile /\ repo.payload[n] # NoFile => n \in IntactIn(repo)

ReplayInv == WholeOrHalf(Repository) /\ (saved # NoFile => WholeOrHalf(saved))

(* Deleting a file of a node leaves less than that node, and the others. *)
LEMMA HalfDeleted ==
  ASSUME NEW r, NEW s, NEW b \in Nodes, NEW v \in Nodes, WholeOrHalf(r),
         ValidFor(r, b), v # 0, Demise(v) = b, r.dirs \subseteq Nodes,
         s.dirs \subseteq r.dirs, r.dirs \ {v} \subseteq s.dirs,
         \A n \in Nodes \ {v} : s.idFile[n] = r.idFile[n] /\ s.payload[n] = r.payload[n],
         s.idFile[v] \in {r.idFile[v], NoFile}, s.payload[v] \in {r.payload[v], NoFile}
  PROVE  WholeOrHalf(s)
<1> SUFFICES ASSUME NEW n \in s.dirs, s.idFile[n] # NoFile, s.payload[n] # NoFile
             PROVE  n \in IntactIn(s)
  BY DEF WholeOrHalf
<1>1. n \in r.dirs /\ n \in Nodes
  OBVIOUS
<1>2. s.idFile[n] = r.idFile[n] /\ s.payload[n] = r.payload[n]
  BY <1>1
<1>3. n \in IntactIn(r)
  BY <1>1, <1>2 DEF WholeOrHalf
<1>4. CASE n # v
  BY <1>1, <1>3, <1>4, OthersIntact
<1>5. CASE n = v
  <2>1. Parent(v) \in Nodes /\ Parent(v) # v
    BY ParentNode, Constants DEF Nodes
  <2>2. s.idFile[Parent(v)] = r.idFile[Parent(v)]
    BY <2>1
  <2>3. QED
    BY <1>2, <1>3, <1>5, <2>2 DEF IntactIn
<1>6. QED
  BY <1>4, <1>5

LEMMA ReplayStep ==
  IInv /\ IInv' /\ ReplayInv /\ [Next]_vars => ReplayInv'
<1> SUFFICES ASSUME IInv, IInv', ReplayInv, [Next]_vars PROVE ReplayInv'
  OBVIOUS
<1>a. /\ dirs \subseteq Nodes /\ idFile \in [Nodes -> Files(Guids)]
      /\ payload \in [Nodes -> Files(Diffs)]
  BY RepoParts DEF IInv, TypeOK, Repository
<1> DEFINE r == Repository
           s == [dirs |-> dirs', idFile |-> idFile', payload |-> payload',
                 temp |-> temp', bread |-> bread']
<1>b. s = Repository' /\ WholeOrHalf(r)
  BY DEF Repository, ReplayInv
<1>c. /\ r.dirs = dirs /\ r.idFile = idFile /\ r.payload = payload
      /\ s.dirs = dirs' /\ s.idFile = idFile' /\ s.payload = payload'
  BY DEF Repository
<1>d. ASSUME SameNodes(r, s) PROVE WholeOrHalf(s)
  BY <1>b, <1>d DEF SameNodes, WholeOrHalf, IntactIn
<1>e. WholeOrHalf(s) => WholeOrHalf(Repository)'
  BY <1>b DEF WholeOrHalf, IntactIn
<1>f. r = Repository
  OBVIOUS
<1> HIDE DEF r, s
<1>1. ASSUME NEW v \in victims, UnlinkId(v) \/ UnlinkPayload(v) \/ RemoveDir(v)
      PROVE  WholeOrHalf(s)
  <2>1. /\ crumb \in Nodes /\ v \in Nodes /\ v # 0 /\ Demise(v) = crumb
        /\ ValidFor(Repository, crumb)
    BY <1>1 DEF UnlinkId, UnlinkPayload, RemoveDir, IInv, TypeOK, PruneInv, RepoInv
  <2>2. /\ dirs' \subseteq dirs /\ dirs \ {v} \subseteq dirs'
        /\ \A n \in Nodes \ {v} : idFile'[n] = idFile[n] /\ payload'[n] = payload[n]
        /\ idFile'[v] \in {idFile[v], NoFile} /\ payload'[v] \in {payload[v], NoFile}
    BY <1>a, <1>1, <2>1 DEF UnlinkId, UnlinkPayload, RemoveDir
  <2>3. QED
    BY <1>a, <1>b, <1>c, <1>f, <2>1, <2>2, HalfDeleted
<1>2. ASSUME Rename, Publish PROVE WholeOrHalf(s)
  <2>1. /\ crumb \in Nodes /\ crumb \notin dirs /\ ValidFor(Repository, crumb)
    BY <1>2 DEF Rename, IInv, TypeOK, PruneInv, RepoInv, BeforePublish
  <2>2. /\ crumb' = crumb /\ pc' = "open_crumb" /\ dirs' = dirs \cup {crumb}
        /\ \A n \in Nodes \ {crumb} : idFile'[n] = idFile[n] /\ payload'[n] = payload[n]
    BY <1>a, <1>2 DEF Publish, Goto, localVars
  <2>3. crumb \in IntactIn(s)
    <3>1. ValidFor(Repository', crumb)
      BY <2>2 DEF IInv, RepoInv, ValidFor, IntactIn, Repository
    <3>2. QED
      BY <1>b, <1>c, <2>2, <3>1 DEF ValidFor
  <2>4. IntactIn(s) = IntactIn(r) \cup {crumb}
    BY <1>a, <1>c, <1>f, <2>1, <2>2, <2>3, PublishIntact
  <2>5. QED
    BY <1>a, <1>b, <1>c, <2>2, <2>4 DEF WholeOrHalf
<1>3. ASSUME UNCHANGED <<dirs, idFile, payload>> PROVE WholeOrHalf(s)
  BY <1>c, <1>d, <1>3 DEF SameNodes
<1>4. CASE PutBack
  <2>1. /\ saved # NoFile /\ saved' = saved /\ WholeOrHalf(saved)
        /\ dirs' = saved.dirs /\ idFile' = saved.idFile /\ payload' = saved.payload
    BY <1>4 DEF PutBack, ReplayInv
  <2>2. WholeOrHalf(s)
    BY <1>c, <2>1 DEF WholeOrHalf, IntactIn
  <2>3. QED
    BY <1>e, <2>1, <2>2 DEF ReplayInv, WholeOrHalf, IntactIn
<1>5. CASE Checkpoint
  <2>1. UNCHANGED <<dirs, idFile, payload>> /\ saved' = Repository
    BY <1>5 DEF Checkpoint, repoVars
  <2>2. WholeOrHalf(saved)'
    BY <1>b, <1>f, <2>1 DEF WholeOrHalf, IntactIn
  <2>3. QED
    BY <1>e, <1>3, <2>1, <2>2 DEF ReplayInv
<1>6. CASE ~ Checkpoint /\ ~ PutBack
  <2>1. saved' = saved
    BY <1>6, SavedWriters
  <2>2. WholeOrHalf(s)
    BY <1>1, <1>2, <1>3, <1>6, RepoWriters
       DEF repoVars, ClearTemp, OpenPayload, Send, OpenId, WriteId, OpenCrumb, WriteCrumb
  <2>3. saved' # NoFile => WholeOrHalf(saved)'
    BY <2>1 DEF ReplayInv, WholeOrHalf, IntactIn
  <2>4. QED
    BY <1>e, <2>2, <2>3 DEF ReplayInv
<1>7. QED
  BY <1>4, <1>5, <1>6

(***************************************************************************)
(* The Init of RestoreCommand: the directories, the id files and the       *)
(* payloads are each what may be left of the nodes alive after the newest  *)
(* one, and a payload that can be opened leads from the snapshot of the    *)
(* parent's id file to that of its own.                                    *)
(***************************************************************************)
Replayable(last) ==
  /\ dirs \in LeftAfter(last)
  /\ Holding(idFile) \in LeftAfter(last) /\ Holding(idFile) \subseteq dirs
  /\ Holding(payload) \in LeftAfter(last) /\ Holding(payload) \subseteq dirs
  /\ \A n \in Holding(idFile) \cap Holding(payload) : Intact(n)

(* Any set of nodes between those that outlive the next node and those with *)
(* a directory is what may be left after the newest node.                   *)
LEMMA LeftAfterNewest ==
  ASSUME IInv, Retention, NothingOverstays, NEW n \in dirs, IsNewest(n),
         NEW F \in SUBSET dirs, IntactIn(Repository) \subseteq F
  PROVE  F \in LeftAfter(n)
<1>1. dirs \subseteq Nat /\ n \in Nat
  BY NextNode, Constants DEF Nodes
<1>2. \A k \in F : k \in 0..n /\ Outlives(k, n)
  BY <1>1 DEF IsNewest, NothingOverstays
<1>3. \A k \in 0..n : Outlives(k, n + 1) => k \in F
  BY DEF Retention, Intact
<1>4. QED
  BY <1>1, <1>2, <1>3, LeftAfterIs

(***************************************************************************)
(* At whatever step a command stopped and whatever was put back, restore   *)
(* and export find a repository of the kind that RestoreCommand starts     *)
(* from (getNodesIncludingUntrusted(), RepositoryStructure.cpp:298-326).   *)
(***************************************************************************)
THEOREM LeftReplayable == Spec => [](\A n \in dirs : IsNewest(n) => Replayable(n))
<1>1. Init => ReplayInv
  BY DEF Init, ReplayInv, WholeOrHalf, Repository
<1>2. Spec => []ReplayInv
  BY <1>1, ReplayStep, Invariance, PTL DEF Spec
<1>3. ASSUME IInv, ReplayInv, Retention, NothingOverstays
      PROVE  \A n \in dirs : IsNewest(n) => Replayable(n)
  <2> SUFFICES ASSUME NEW n \in dirs, IsNewest(n) PROVE Replayable(n)
    OBVIOUS
  <2>1. PICK b \in Nodes : ValidFor(Repository, b)
    BY <1>3, NextNode
  <2>2. /\ dirs \subseteq Nodes /\ idFile \in [Nodes -> Files(Guids)]
        /\ payload \in [Nodes -> Files(Diffs)]
    BY <1>3, RepoParts DEF IInv, TypeOK, Repository
  <2>3. Holding(idFile) \subseteq dirs /\ Holding(payload) \subseteq dirs
    BY <2>1 DEF ValidFor, Repository, Holding
  <2>4. IntactIn(Repository) \subseteq Holding(idFile)
    BY <2>2, Constants DEF IntactIn, Repository, Holding, Guids
  <2>5. IntactIn(Repository) \subseteq Holding(payload)
    <3> SUFFICES ASSUME NEW k \in IntactIn(Repository) PROVE payload[k] # NoFile
      BY <2>2 DEF Holding, IntactIn, Repository
    <3>1. /\ k \in Nodes /\ idFile[k] \in Guids
          /\ payload[k] = [base   |-> IF k = 0 THEN NoFile ELSE idFile[Parent(k)],
                           target |-> idFile[k]]
      BY <2>2 DEF IntactIn, Repository
    <3>2. idFile[Parent(k)] \in Files(Guids)
      BY <2>2, <3>1, ParentNode
    <3>3. payload[k] \in Diffs
      BY <3>1, <3>2 DEF Diffs, Files
    <3>4. QED
      BY <3>3, Constants
  <2>6. IntactIn(Repository) \subseteq dirs
    BY DEF IntactIn, Repository
  <2>7. /\ dirs \in LeftAfter(n) /\ Holding(idFile) \in LeftAfter(n)
        /\ Holding(payload) \in LeftAfter(n)
    BY <1>3, <2>3, <2>4, <2>5, <2>6, LeftAfterNewest
  <2>8. \A k \in Holding(idFile) \cap Holding(payload) : Intact(k)
    BY <1>3, <2>3 DEF ReplayInv, WholeOrHalf, Intact, Repository, Holding
  <2>9. QED
    BY <2>3, <2>7, <2>8 DEF Replayable
<1>4. QED
  BY <1>2, <1>3, Invariance, RetentionHolds, NoOverstaying, PTL

(***************************************************************************)
(* The Init of NodeSelection: of the nodes before the breadcrumb's, there  *)
(* is what may be left of those alive after the one before it, and at most *)
(* the breadcrumb's node is stored beyond (getNextSnapshotNode(),          *)
(* RepositoryStructure.cpp:445-453).                                       *)
(***************************************************************************)
Selectable(begin) ==
  /\ begin # 0 => {n \in Holding(idFile) : n < begin} \in LeftAfter(begin - 1)
  /\ \A n \in Holding(idFile) : n <= begin

THEOREM LeftSelectable == Spec => [](bread # Torn => Selectable(CrumbOf(bread)))
<1>1. ASSUME IInv, bread # Torn PROVE Selectable(CrumbOf(bread))
  <2> DEFINE b == CrumbOf(bread)
             F == {n \in Holding(idFile) : n < b}
  <2>1. ValidFor(Repository, b) /\ b \in Nodes
    BY <1>1, RepoParts, Constants
       DEF IInv, TypeOK, RepoInv, Valid, Repository, CrumbOf, Files
  <2> HIDE DEF b
  <2>2. b \in Nat /\ Nodes \subseteq Nat /\ dirs \subseteq Nodes /\ Nodes = 0..MaxNode
    BY <1>1, <2>1, NextNode, Constants DEF Nodes
  <2>3. \A n \in Holding(idFile) : n \in dirs /\ n <= b /\ (n = 0 \/ Demise(n) >= b)
    BY <2>1 DEF ValidFor, Repository, Holding
  <2>4. ASSUME b # 0 PROVE F \in LeftAfter(b - 1)
    <3>1. b - 1 \in Nat /\ b - 1 + 1 = b
      BY <2>2, <2>4
    <3>2. ASSUME NEW k \in F PROVE k \in 0..(b - 1) /\ Outlives(k, b - 1)
      <4>1. k \in Nat /\ k < b /\ (k = 0 \/ Demise(k) >= b)
        BY <2>2, <2>3 DEF Holding
      <4>2. k # 0 => Demise(k) \in Nat
        BY <4>1, DemiseType
      <4>3. QED
        BY <2>2, <3>1, <4>1, <4>2 DEF Outlives
    <3>3. ASSUME NEW k \in 0..(b - 1), Outlives(k, b) PROVE k \in F
      <4>1. k \in Nodes /\ k < b
        BY <2>1, <2>2, Constants
      <4>2. k \in IntactIn(Repository)
        BY <2>1, <3>3, <4>1 DEF ValidFor
      <4>3. QED
        BY <4>1, <4>2, Constants DEF IntactIn, Repository, Holding, Guids
    <3> HIDE DEF F
    <3>4. QED
      BY <3>1, <3>2, <3>3, LeftAfterIs
  <2>5. QED
    BY <2>3, <2>4 DEF Selectable, b
<1>2. QED
  BY <1>1, Invariance, PTL
-----------------------------------------------------------------------------
(***************************************************************************)
(* Why every command ends (CommandEnds), for every size.  Each step of it  *)
(* ends it, or leaves less to do, in the end for the lack of failures that *)
(* would give it another node to store; and at each step there is          *)
(* something that it can do, unless it has found the node at its           *)
(* breadcrumb stored already.  For that the breadcrumb must be behind the  *)
(* repository, as a crash between the two leaves it.                       *)
(***************************************************************************)
Deletions == 2 * Cardinality(victims)
               + Cardinality(Holding(idFile) \cap victims)
               + Cardinality(Holding(payload) \cap victims)

(* How many steps are left for this node at most. *)
Work == CASE pc = "next"         -> 4 * MaxNode + 20
          [] pc = "prune"        -> 15 + Deletions
          [] pc = "destroy"      -> 14 + Deletions
          [] pc = "parent"       -> 13
          [] pc = "take"         -> 12
          [] pc = "guid"         -> 11
          [] pc = "clear_temp"   -> 10
          [] pc = "open_payload" -> 9
          [] pc = "verify"       -> 8
          [] pc = "send"         -> 7
          [] pc = "open_id"      -> 6
          [] pc = "write_id"     -> 5
          [] pc = "rename"       -> 4
          [] pc = "open_crumb"   -> 3
          [] pc = "write_crumb"  -> 2
          [] OTHER               -> 0

(* How often it may still come to a next node: a snapshot that was there    *)
(* already is stored only after a failure to run zfs.                       *)
Adopts == old /\ pc \in {"guid"} \cup HasSnapshot \cup Published

Rounds == (MaxFaults - faults) + (IF Adopts THEN 1 ELSE 0)

EndsOrAdvances == \/ pc' = "idle"
                  \/ Rounds' < Rounds
                  \/ Rounds' = Rounds /\ Work' < Work

(* Nothing has come between a node and its breadcrumb. *)
Undisturbed == crashes = 0 /\ (restores = 0 \/ CheckpointAt \subseteq {"idle"})

UpToDate(repo) == repo.bread # Torn /\ CrumbOf(repo.bread) \notin repo.dirs

FreeInv ==
  /\ Undisturbed =>
       /\ pc = "idle" => UpToDate(Repository)
       /\ pc = "next" => crumb \notin dirs
       /\ CheckpointAt \subseteq {"idle"} /\ saved # NoFile => UpToDate(saved)
  /\ pc = "destroy" => victims # {}

(* The next node is free, and there is a greatest victim to take next. *)
NeverAtALoss ==
  /\ Undisturbed /\ pc = "next" => idFile[crumb] = NoFile
  /\ pc = "destroy" \/ (pc = "prune" /\ victims # {}) => \E v \in victims : IsNextVictim(v)

(* The steps after which no command runs. *)
LEMMA Enders ==
  [Next]_vars /\ pc' = "idle" =>
    \/ WriteCrumb \/ Crash
    \/ UNCHANGED repoVars /\ pc \in {"idle", "destroy"} \cup BeforePublish
    \/ PutBack
<1> SUFFICES ASSUME [Next]_vars, pc' = "idle"
             PROVE  \/ WriteCrumb \/ Crash
                    \/ UNCHANGED repoVars /\ pc \in {"idle", "destroy"} \cup BeforePublish
                    \/ PutBack
  OBVIOUS
<1> USE DEF Goto, Fail, BeforePublish
<1>1. ~ (\/ Start \/ FindNextOccupied \/ FindNextFree \/ PruneDone \/ CheckParent
         \/ TakeFresh \/ TakeNotRun \/ ReadGuid \/ ClearTemp
         \/ OpenPayload \/ Verify \/ Send \/ OpenId \/ WriteId \/ OpenCrumb)
  BY DEF Start, FindNextOccupied, FindNextFree, PruneDone, CheckParent, TakeFresh,
         TakeNotRun, ReadGuid, ClearTemp, OpenPayload, Verify, Send,
         OpenId, WriteId, OpenCrumb
<1>2. ASSUME NEW v \in victims
      PROVE  /\ ~ UnlinkId(v) /\ ~ UnlinkPayload(v) /\ ~ RemoveDir(v)
             /\ DestroySnapshot(v) => UNCHANGED repoVars /\ pc = "destroy"
  BY DEF UnlinkId, UnlinkPayload, RemoveDir, DestroySnapshot
<1>3. ASSUME \/ StartFails \/ CheckParentFails \/ TakeRefused \/ TakeFails
             \/ ReadGuidFails \/ VerifyFails \/ SendFails \/ Rename
      PROVE  UNCHANGED repoVars /\ pc \in {"idle"} \cup BeforePublish
  BY <1>3 DEF StartFails, CheckParentFails, TakeRefused, TakeFails, ReadGuidFails,
     VerifyFails, SendFails, Rename, Publish
<1>4. ASSUME NEW n \in Nodes, UserDestroys(n) \/ UserRollsBack(n)
      PROVE  UNCHANGED repoVars /\ pc = "idle"
  BY <1>4 DEF UserDestroys, UserRollsBack, UserChanges, localVars
<1>5. Checkpoint \/ UNCHANGED vars => UNCHANGED repoVars /\ pc = "idle"
  BY DEF Checkpoint, vars
<1> QED
  BY <1>1, <1>2, <1>3, <1>4, <1>5, Environments DEF Next, Command

(* The steps after which a command looks for the next node. *)
LEMMA Seekers ==
  [Next]_vars /\ pc' = "next" =>
    Start \/ WriteCrumb \/ (pc = "next" /\ UNCHANGED <<dirs, crumb>>)
<1> SUFFICES ASSUME [Next]_vars, pc' = "next"
             PROVE  Start \/ WriteCrumb \/ (pc = "next" /\ UNCHANGED <<dirs, crumb>>)
  OBVIOUS
<1> USE DEF Goto, Fail, End, repoVars, localVars
<1>1. ~ (\/ StartFails \/ FindNextFree \/ PruneDone \/ CheckParent \/ CheckParentFails
         \/ TakeFresh \/ TakeRefused \/ TakeFails \/ TakeNotRun \/ ReadGuid \/ ReadGuidFails
         \/ ClearTemp \/ OpenPayload \/ Verify \/ VerifyFails \/ Send \/ SendFails
         \/ OpenId \/ WriteId \/ Rename \/ OpenCrumb \/ Crash \/ PutBack)
  BY DEF StartFails, FindNextFree, PruneDone, CheckParent, CheckParentFails, TakeFresh,
         TakeRefused, TakeFails, TakeNotRun, ReadGuid, ReadGuidFails, ClearTemp, OpenPayload,
         Verify,
         VerifyFails, Send, SendFails, OpenId, WriteId, Rename, Publish, OpenCrumb, Crash,
         PutBack
<1>2. ASSUME NEW v \in victims
      PROVE  ~ UnlinkId(v) /\ ~ UnlinkPayload(v) /\ ~ RemoveDir(v) /\ ~ DestroySnapshot(v)
  BY DEF UnlinkId, UnlinkPayload, RemoveDir, DestroySnapshot
<1>3. ASSUME NEW n \in Nodes, UserDestroys(n) \/ UserRollsBack(n)
      PROVE  pc = "next" /\ UNCHANGED <<dirs, crumb>>
  BY <1>3 DEF UserDestroys, UserRollsBack, UserChanges
<1>4. FindNextOccupied \/ Checkpoint \/ UNCHANGED vars =>
        pc = "next" /\ UNCHANGED <<dirs, crumb>>
  BY DEF FindNextOccupied, Checkpoint, vars
<1> QED
  BY <1>1, <1>2, <1>3, <1>4, Environments DEF Next, Command

(* Deleting goes on from the node's directory to its snapshot. *)
LEMMA Destroyers ==
  [Next]_vars /\ pc' = "destroy" =>
    victims' = victims /\ (pc = "destroy" \/ victims # {})
<1> SUFFICES ASSUME [Next]_vars, pc' = "destroy"
             PROVE  victims' = victims /\ (pc = "destroy" \/ victims # {})
  OBVIOUS
<1> USE DEF Goto, Fail, End, localVars
<1>1. ~ (\/ Start \/ StartFails \/ FindNextOccupied \/ FindNextFree \/ PruneDone
         \/ CheckParent \/ CheckParentFails
         \/ TakeFresh \/ TakeRefused \/ TakeFails \/ TakeNotRun \/ ReadGuid \/ ReadGuidFails
         \/ ClearTemp \/ OpenPayload \/ Verify \/ VerifyFails \/ Send \/ SendFails
         \/ OpenId \/ WriteId \/ Rename \/ OpenCrumb \/ WriteCrumb \/ Crash \/ PutBack)
  BY DEF Start, StartFails, FindNextOccupied, FindNextFree, PruneDone, CheckParent,
         CheckParentFails, TakeFresh,
         TakeRefused, TakeFails, TakeNotRun, ReadGuid, ReadGuidFails, ClearTemp, OpenPayload,
         Verify,
         VerifyFails, Send, SendFails, OpenId, WriteId, Rename, Publish, OpenCrumb,
         WriteCrumb, Crash, PutBack
<1>2. ASSUME NEW v \in victims
      PROVE  ~ UnlinkId(v) /\ ~ UnlinkPayload(v) /\ ~ DestroySnapshot(v)
               /\ (RemoveDir(v) => victims' = victims)
  BY DEF UnlinkId, UnlinkPayload, RemoveDir, DestroySnapshot
<1>3. ASSUME NEW n \in Nodes, UserDestroys(n) \/ UserRollsBack(n)
      PROVE  UNCHANGED <<pc, victims>>
  BY <1>3 DEF UserDestroys, UserRollsBack, UserChanges
<1>4. Checkpoint \/ UNCHANGED vars => UNCHANGED <<pc, victims>>
  BY DEF Checkpoint, vars
<1> QED
  BY <1>1, <1>2, <1>3, <1>4, Environments DEF Next, Command

(* A breadcrumb that is written after its node names one that is free. *)
LEMMA FreeStep ==
  IInv /\ FreeInv /\ [Next]_vars => FreeInv'
<1> SUFFICES ASSUME IInv, FreeInv, [Next]_vars PROVE FreeInv'
  OBVIOUS
<1>0. /\ crumb \in Nat /\ dirs \subseteq Nodes /\ Nodes \subseteq Nat
      /\ crashes \in Nat /\ restores \in Nat
      /\ RepoInv /\ PruneInv
  BY RepoParts, BoundsAssumption DEF IInv, TypeOK, Repository, Nodes
<1>1. Undisturbed' => Undisturbed
  BY <1>0, BoundWriters
     DEF Undisturbed, boundVars, TakeFails, TakeNotRun, SendFails, Crash, Checkpoint, PutBack,
         UserDestroys, UserRollsBack, UserChanges
<1>2. WriteCrumb => UpToDate(Repository') /\ crumb + 1 \notin dirs'
  <2> SUFFICES ASSUME WriteCrumb
               PROVE  UpToDate(Repository') /\ crumb + 1 \notin dirs'
    OBVIOUS
  <2>1. dirs' = dirs /\ bread' = crumb + 1 /\ pc # "idle"
    BY DEF WriteCrumb
  <2>2. \A n \in dirs : n <= crumb
    BY <1>0, <2>1 DEF RepoInv, ValidFor, Repository
  <2>3. crumb + 1 \notin dirs /\ crumb + 1 # Torn /\ crumb + 1 # NoFile
    BY <1>0, <2>2, Constants
  <2>4. QED
    BY <2>1, <2>3 DEF UpToDate, Repository, CrumbOf
<1>3. ASSUME Undisturbed', pc' = "idle" PROVE UpToDate(Repository')
  <2>1. CASE WriteCrumb
    BY <1>2, <2>1
  <2>2. CASE Crash
    BY <1>0, <1>3, <2>2 DEF Crash, Undisturbed
  <2>3. CASE PutBack
    <3>1. CheckpointAt \subseteq {"idle"} /\ saved # NoFile
      BY <1>0, <1>3, <2>3 DEF PutBack, Undisturbed
    <3>2. UpToDate(saved)
      BY <1>1, <1>3, <3>1 DEF FreeInv
    <3>3. QED
      BY <2>3, <3>2 DEF PutBack, UpToDate, Repository
  <2>4. CASE UNCHANGED repoVars /\ pc \in {"idle", "destroy"} \cup BeforePublish
    <3>1. UpToDate(Repository)
      <4>1. CASE pc = "idle"
        BY <1>1, <1>3, <4>1 DEF FreeInv
      <4>2. CASE pc # "idle"
        <5>1. bread # Torn /\ crumb = CrumbOf(bread)
          BY <1>0, <2>4, <4>2 DEF RepoInv, BeforePublish
        <5>2. crumb \notin dirs
          BY <1>0, <2>4, <4>2 DEF PruneInv
        <5>3. QED
          BY <5>1, <5>2 DEF UpToDate, Repository
      <4>3. QED
        BY <4>1, <4>2
    <3>2. QED
      BY <2>4, <3>1 DEF UpToDate, Repository, repoVars
  <2>5. QED
    BY <1>3, <2>1, <2>2, <2>3, <2>4, Enders
<1>4. ASSUME Undisturbed', pc' = "next" PROVE crumb' \notin dirs'
  <2>1. CASE Start
    BY <1>1, <1>4, <2>1 DEF Start, FreeInv, UpToDate, Repository, repoVars
  <2>2. CASE WriteCrumb
    BY <1>2, <1>4, <2>2 DEF WriteCrumb, End
  <2>3. CASE pc = "next" /\ UNCHANGED <<dirs, crumb>>
    BY <1>1, <1>4, <2>3 DEF FreeInv
  <2>4. QED
    BY <1>4, <2>1, <2>2, <2>3, Seekers
<1>5. ASSUME Undisturbed', CheckpointAt \subseteq {"idle"}, saved' # NoFile
      PROVE  UpToDate(saved')
  <2>1. CASE UNCHANGED saved
    BY <1>1, <1>5, <2>1 DEF FreeInv
  <2>2. CASE Checkpoint
    BY <1>1, <1>5, <2>2 DEF FreeInv, Checkpoint
  <2>3. QED
    BY <2>1, <2>2, SavedWriters
<1>6. pc' = "destroy" => victims' # {}
  BY Destroyers DEF FreeInv
<1>7. QED
  BY <1>3, <1>4, <1>5, <1>6 DEF FreeInv

(* A set of nodes has a greatest one. *)
LEMMA GreatestVictim ==
  ASSUME victims \subseteq Nodes, victims # {}
  PROVE  \E v \in victims : IsNextVictim(v)
<1> DEFINE S == {MaxNode - v : v \in victims}
<1>1. \A v \in victims : v \in Nat /\ v <= MaxNode
  BY Constants DEF Nodes
<1>2. S \subseteq Nat /\ S # {}
  BY <1>1, Constants
<1>3. PICK m \in S : \A x \in S : m <= x
  <2> HIDE DEF S
  <2>1. QED
    BY <1>2, LeastElement
<1>4. PICK v \in victims : m = MaxNode - v
  BY <1>3
<1>5. ASSUME NEW w \in victims PROVE w <= v
  <2>1. MaxNode - w \in S
    OBVIOUS
  <2>2. m <= MaxNode - w
    BY <1>3, <2>1
  <2>3. MaxNode \in Nat /\ v \in Nat /\ w \in Nat
    BY <1>1, Constants
  <2> HIDE DEF S
  <2>4. QED
    BY <1>4, <2>2, <2>3
<1>6. QED
  BY <1>5 DEF IsNextVictim

(* Counting what is left to delete. *)
LEMMA DeletionsCount ==
  ASSUME NEW V \in SUBSET (Nodes \ {0}), NEW S \in SUBSET Nodes
  PROVE  /\ IsFiniteSet(V) /\ IsFiniteSet(S \cap V)
         /\ Cardinality(V) \in Nat /\ Cardinality(V) <= MaxNode
         /\ Cardinality(S \cap V) \in Nat /\ Cardinality(S \cap V) <= MaxNode
         /\ \A v : /\ Cardinality((S \ {v}) \cap V) \in Nat
                   /\ Cardinality((S \ {v}) \cap V) <= Cardinality(S \cap V)
                   /\ v \in S \cap V =>
                        Cardinality((S \ {v}) \cap V) < Cardinality(S \cap V)
                   /\ Cardinality(S \cap (V \ {v})) \in Nat
                   /\ Cardinality(S \cap (V \ {v})) <= Cardinality(S \cap V)
         /\ \A v \in V : Cardinality(V \ {v}) = Cardinality(V) - 1
<1>1. V \subseteq 1..MaxNode /\ IsFiniteSet(1..MaxNode) /\ Cardinality(1..MaxNode) = MaxNode
  <2>1. V \subseteq 1..MaxNode
    BY Constants DEF Nodes
  <2>2. IsFiniteSet(1..MaxNode) /\ Cardinality(1..MaxNode) = MaxNode
    BY Constants, FS_Interval
  <2>3. QED
    BY <2>1, <2>2
<1>2. IsFiniteSet(V) /\ Cardinality(V) <= MaxNode /\ Cardinality(V) \in Nat
  BY <1>1, FS_Subset, FS_CardinalityType
<1> DEFINE C == S \cap V
<1>3. IsFiniteSet(C) /\ Cardinality(C) <= Cardinality(V) /\ Cardinality(C) \in Nat
  <2>1. C \in SUBSET V
    OBVIOUS
  <2> HIDE DEF C
  <2>2. QED
    BY <1>2, <2>1, FS_Subset, FS_CardinalityType
<1>4. ASSUME NEW v
      PROVE  /\ Cardinality(C \ {v}) \in Nat
             /\ Cardinality(C \ {v}) <= Cardinality(C)
             /\ v \in C => Cardinality(C \ {v}) < Cardinality(C)
  <2> HIDE DEF C
  <2>1. IsFiniteSet(C \ {v})
          /\ Cardinality(C \ {v}) = IF v \in C THEN Cardinality(C) - 1 ELSE Cardinality(C)
    BY <1>3, FS_RemoveElement
  <2>2. Cardinality(C \ {v}) \in Nat
    BY <2>1, FS_CardinalityType
  <2>3. QED
    BY <1>3, <2>1, <2>2
<1>5. \A v : (S \ {v}) \cap V = C \ {v} /\ S \cap (V \ {v}) = C \ {v}
  OBVIOUS
<1>6. \A v \in V : Cardinality(V \ {v}) = Cardinality(V) - 1
  BY <1>2, FS_RemoveElement
<1>7. Cardinality(C) <= MaxNode
  BY <1>2, <1>3, Constants
<1>8. QED
  <2> HIDE DEF C
  <2>1. S \cap V = C
    BY DEF C
  <2>2. QED
    BY <1>2, <1>3, <1>4, <1>5, <1>6, <1>7, <2>1

(* Every set of nodes leaves at most four steps for each. *)
LEMMA DeletionsBound ==
  ASSUME victims \subseteq Nodes \ {0}
  PROVE  Deletions \in Nat /\ Deletions <= 4 * MaxNode
<1>1. Holding(idFile) \subseteq Nodes /\ Holding(payload) \subseteq Nodes
  BY DEF Holding
<1>2. /\ Cardinality(victims) \in Nat /\ Cardinality(victims) <= MaxNode
      /\ Cardinality(Holding(idFile) \cap victims) \in Nat
      /\ Cardinality(Holding(idFile) \cap victims) <= MaxNode
      /\ Cardinality(Holding(payload) \cap victims) \in Nat
      /\ Cardinality(Holding(payload) \cap victims) <= MaxNode
  BY <1>1, DeletionsCount
<1>3. QED
  BY <1>2, Constants DEF Deletions

(* What is left to do is a number. *)
LEMMA WorkType ==
  ASSUME IInv
  PROVE  /\ Work \in Nat /\ Deletions \in Nat /\ Deletions <= 4 * MaxNode
         /\ Rounds \in Nat
<1>1. victims \subseteq Nodes \ {0} /\ pc \in ControlStates
      /\ faults \in 0..MaxFaults /\ MaxFaults \in Nat
  BY BoundsAssumption DEF IInv, TypeOK
<1>2. Deletions \in Nat /\ Deletions <= 4 * MaxNode
  BY <1>1, DeletionsBound
<1>3. QED
  BY <1>1, <1>2, Constants DEF Work, Rounds

(* Without a failure to run zfs, a step that neither stores nor takes a     *)
(* snapshot leaves the rounds as they are.                                  *)
LEMMA SameRounds ==
  ASSUME UNCHANGED <<faults, old>>,
         \/ pc = pc'
         \/ pc \in {"next", "prune", "destroy", "parent"} /\
              pc' \in {"prune", "destroy", "parent", "take"}
         \/ pc \in {"guid"} \cup HasSnapshot \cup Published /\
              pc' \in {"guid"} \cup HasSnapshot \cup Published
  PROVE  Rounds' = Rounds
BY DEF Rounds, Adopts, HasSnapshot, HasParent, BeforePublish, Published

(* remove_all(), and the destruction of the snapshot after it. *)
LEMMA DeletionWork ==
  ASSUME IInv, NEW v \in victims,
         UnlinkId(v) \/ UnlinkPayload(v) \/ RemoveDir(v) \/ DestroySnapshot(v)
  PROVE  EndsOrAdvances
<1>0. /\ victims \subseteq Nodes \ {0} /\ victims \in SUBSET (Nodes \ {0}) /\ v \in Nodes
      /\ idFile \in [Nodes -> Files(Guids)] /\ payload \in [Nodes -> Files(Diffs)]
      /\ Deletions \in Nat
  BY WorkType, RepoParts DEF IInv, TypeOK, Repository
<1> DEFINE I == Holding(idFile)
           P == Holding(payload)
<1>i. I \in SUBSET Nodes /\ P \in SUBSET Nodes
  BY DEF Holding
<1>c. /\ Cardinality(victims) \in Nat
      /\ Cardinality(I \cap victims) \in Nat /\ Cardinality(P \cap victims) \in Nat
  <2> HIDE DEF I, P
  <2>1. QED
    BY <1>0, <1>i, DeletionsCount
<1>1. CASE UnlinkId(v)
  <2>1. /\ pc = "prune" /\ pc' = "prune" /\ victims' = victims
        /\ UNCHANGED <<faults, old>>
        /\ idFile' = [idFile EXCEPT ![v] = NoFile] /\ payload' = payload
        /\ idFile[v] # NoFile
    BY <1>1 DEF UnlinkId, Goto, localVars, boundVars
  <2>2. Holding(idFile') = I \ {v} /\ v \in I \cap victims /\ Holding(payload') = P
    BY <1>0, <2>1 DEF Holding
  <2> HIDE DEF I, P
  <2>3. Cardinality((I \ {v}) \cap victims) < Cardinality(I \cap victims)
          /\ Cardinality((I \ {v}) \cap victims) \in Nat
    BY <1>0, <1>i, <2>2, DeletionsCount
  <2>4. Deletions' = 2 * Cardinality(victims) + Cardinality((I \ {v}) \cap victims)
                       + Cardinality(P \cap victims)
    BY <2>1, <2>2 DEF Deletions
  <2>5. Deletions' < Deletions /\ Deletions' \in Nat
    BY <1>c, <2>3, <2>4 DEF Deletions, I, P
  <2>6. QED
    BY <1>0, <2>1, <2>5, SameRounds DEF EndsOrAdvances, Work
<1>2. CASE UnlinkPayload(v)
  <2>1. /\ pc = "prune" /\ pc' = "prune" /\ victims' = victims
        /\ UNCHANGED <<faults, old>>
        /\ payload' = [payload EXCEPT ![v] = NoFile] /\ idFile' = idFile
        /\ payload[v] # NoFile
    BY <1>2 DEF UnlinkPayload, Goto, localVars, boundVars
  <2>2. Holding(payload') = P \ {v} /\ v \in P \cap victims /\ Holding(idFile') = I
    BY <1>0, <2>1 DEF Holding
  <2> HIDE DEF I, P
  <2>3. Cardinality((P \ {v}) \cap victims) < Cardinality(P \cap victims)
          /\ Cardinality((P \ {v}) \cap victims) \in Nat
    BY <1>0, <1>i, <2>2, DeletionsCount
  <2>4. Deletions' = 2 * Cardinality(victims) + Cardinality(I \cap victims)
                       + Cardinality((P \ {v}) \cap victims)
    BY <2>1, <2>2 DEF Deletions
  <2>5. Deletions' < Deletions /\ Deletions' \in Nat
    BY <1>c, <2>3, <2>4 DEF Deletions, I, P
  <2>6. QED
    BY <1>0, <2>1, <2>5, SameRounds DEF EndsOrAdvances, Work
<1>3. CASE RemoveDir(v)
  <2>1. /\ pc = "prune" /\ pc' = "destroy" /\ victims' = victims
        /\ UNCHANGED <<faults, old>>
        /\ payload' = payload /\ idFile' = idFile
    BY <1>3 DEF RemoveDir, Goto, localVars, boundVars
  <2>2. Deletions' = Deletions
    BY <2>1 DEF Deletions, Holding
  <2>3. QED
    BY <1>0, <2>1, <2>2, SameRounds DEF EndsOrAdvances, Work
<1>4. CASE DestroySnapshot(v)
  <2> SUFFICES ASSUME pc' # "idle" PROVE EndsOrAdvances
    BY DEF EndsOrAdvances
  <2>1. /\ pc = "destroy" /\ pc' = "prune" /\ victims' = victims \ {v}
        /\ UNCHANGED <<faults, old>>
        /\ payload' = payload /\ idFile' = idFile
    BY <1>4 DEF DestroySnapshot, Goto, Fail, End, repoVars, boundVars
  <2>2. Holding(idFile') = I /\ Holding(payload') = P
    BY <2>1 DEF Holding
  <2> HIDE DEF I, P
  <2>3. /\ Cardinality(victims \ {v}) = Cardinality(victims) - 1
        /\ Cardinality(I \cap (victims \ {v})) \in Nat
        /\ Cardinality(I \cap (victims \ {v})) <= Cardinality(I \cap victims)
        /\ Cardinality(P \cap (victims \ {v})) \in Nat
        /\ Cardinality(P \cap (victims \ {v})) <= Cardinality(P \cap victims)
    BY <1>0, <1>i, DeletionsCount
  <2>4. Deletions' = 2 * Cardinality(victims \ {v}) + Cardinality(I \cap (victims \ {v}))
                       + Cardinality(P \cap (victims \ {v}))
    BY <2>1, <2>2 DEF Deletions
  <2>5. Deletions' + 2 <= Deletions /\ Deletions' \in Int
    BY <1>c, <2>3, <2>4 DEF Deletions, I, P
  <2>6. QED
    BY <1>0, <2>1, <2>5, SameRounds DEF EndsOrAdvances, Work
<1>5. QED
  BY <1>1, <1>2, <1>3, <1>4

(* Every step of the command. *)
LEMMA CommandWork ==
  ASSUME IInv, IInv', Command, ~ UNCHANGED vars
  PROVE  EndsOrAdvances
<1>0. /\ Deletions \in Nat /\ Deletions' \in Nat
      /\ Deletions' <= 4 * MaxNode /\ MaxNode \in Nat
      /\ faults \in Nat /\ MaxFaults \in Nat
  <2>1. (Deletions \in Nat)' /\ (Deletions <= 4 * MaxNode)'
    BY WorkType, PTL
  <2>2. faults \in Nat /\ MaxFaults \in Nat
    BY BoundsAssumption DEF IInv, TypeOK
  <2>3. QED
    BY WorkType, Constants, <2>1, <2>2
<1> USE <1>0 DEF Goto, Fail, localVars, boundVars
<1>1. ASSUME UNCHANGED <<faults, old>>,
             \/ pc = "next" /\ pc' = "prune"
             \/ pc = "prune" /\ pc' = "parent"
             \/ pc = "parent" /\ pc' = "take"
             \/ pc = "guid" /\ pc' = "clear_temp"
             \/ pc = "clear_temp" /\ pc' = "open_payload"
             \/ pc = "open_payload" /\ pc' = "verify"
             \/ pc = "verify" /\ pc' = "send"
             \/ pc = "send" /\ pc' = "open_id"
             \/ pc = "open_id" /\ pc' = "write_id"
             \/ pc = "write_id" /\ pc' = "rename"
             \/ pc = "rename" /\ pc' = "open_crumb"
             \/ pc = "open_crumb" /\ pc' = "write_crumb"
      PROVE  EndsOrAdvances
  <2>1. Work' < Work
    BY <1>1 DEF Work
  <2>2. Rounds' = Rounds
    BY <1>1, SameRounds DEF HasSnapshot, HasParent, BeforePublish, Published
  <2>3. QED
    BY <2>1, <2>2 DEF EndsOrAdvances
<1>2. CASE FindNextOccupied
  BY <1>2 DEF FindNextOccupied, vars
<1>3. CASE FindNextFree \/ PruneDone \/ CheckParent \/ ReadGuid
  BY <1>1, <1>3 DEF FindNextFree, PruneDone, CheckParent, ReadGuid
<1>4. ASSUME NEW v \in victims,
             UnlinkId(v) \/ UnlinkPayload(v) \/ RemoveDir(v) \/ DestroySnapshot(v)
      PROVE  EndsOrAdvances
  BY <1>4, DeletionWork
<1>5. CASE \/ CheckParentFails \/ TakeRefused \/ TakeFails
           \/ ReadGuidFails \/ VerifyFails \/ SendFails
  BY <1>5 DEF CheckParentFails, TakeRefused, TakeFails, ReadGuidFails, VerifyFails, SendFails,
     End, EndsOrAdvances
(* A snapshot that was taken, or may be there already. *)
<1>6. CASE TakeFresh \/ TakeNotRun
  <2>1. pc = "take" /\ pc' = "guid" /\ \/ faults' = faults /\ old' = FALSE
                                       \/ faults' = faults + 1
    BY <1>6 DEF TakeFresh, TakeNotRun
  <2>2. Work' < Work
    BY <2>1 DEF Work
  <2>3. Rounds' = Rounds \/ Rounds' < Rounds
    BY <2>1 DEF Rounds, Adopts, HasSnapshot, HasParent, BeforePublish, Published
  <2>4. QED
    BY <2>2, <2>3 DEF EndsOrAdvances
<1>7. CASE ClearTemp \/ OpenPayload \/ Verify \/ Send \/ OpenId \/ WriteId
  BY <1>1, <1>7 DEF ClearTemp, OpenPayload, Verify, Send, OpenId, WriteId
<1>8. CASE Rename
  <2>1. CASE Publish
    BY <1>1, <1>8, <2>1 DEF Rename, Publish
  <2>2. CASE Fail("node_exists")
    BY <2>2 DEF End, EndsOrAdvances
  <2>3. QED
    BY <1>8, <2>1, <2>2 DEF Rename
<1>9. CASE OpenCrumb
  BY <1>1, <1>9 DEF OpenCrumb
(* An old snapshot is stored, and the next round begins. *)
<1>10. CASE WriteCrumb
  <2>1. CASE End("ok")
    BY <2>1 DEF End, EndsOrAdvances
  <2>2. CASE ~ End("ok")
    <3>1. pc = "write_crumb" /\ pc' = "next" /\ old /\ old' = old /\ faults' = faults
      BY <1>10, <2>2 DEF WriteCrumb
    <3>2. Rounds' < Rounds
      BY <3>1 DEF Rounds, Adopts, HasSnapshot, HasParent, BeforePublish, Published
    <3>3. QED
      BY <3>2 DEF EndsOrAdvances
  <2>3. QED
    BY <2>1, <2>2
<1> QED
  BY <1>2, <1>3, <1>4, <1>5, <1>6, <1>7, <1>8, <1>9, <1>10 DEF Command

(* What happens to the dataset and to the checkpoint meanwhile. *)
LEMMA EnvironmentWork ==
  ASSUME [Next]_vars, ~ Command, pc # "idle"
  PROVE  pc' = "idle" \/ UNCHANGED <<pc, Rounds, Work>>
<1>1. ASSUME UNCHANGED <<repoVars, pc, localVars, faults>>
      PROVE  UNCHANGED <<pc, Rounds, Work>>
  BY <1>1 DEF Work, Deletions, Holding, Rounds, Adopts, repoVars, localVars
<1>2. CASE Start \/ StartFails \/ PutBack
  BY <1>2 DEF Start, StartFails, PutBack
<1>3. CASE Crash
  BY <1>3 DEF Crash, End
<1>4. CASE Checkpoint
  BY <1>1, <1>4 DEF Checkpoint
<1>5. ASSUME NEW n \in Nodes, UserDestroys(n) \/ UserRollsBack(n)
      PROVE  UNCHANGED <<pc, Rounds, Work>>
  BY <1>1, <1>5 DEF UserDestroys, UserRollsBack, UserChanges
<1>6. CASE UNCHANGED vars
  BY <1>1, <1>6 DEF vars, boundVars
<1> QED
  BY <1>2, <1>3, <1>4, <1>5, <1>6, Environments DEF Next

(***************************************************************************)
(* No command goes on for ever: each of its steps ends it, or leaves less  *)
(* work for the node at hand, or uses up one of the failures to run zfs,   *)
(* without which there is no second node; nothing that happens meanwhile   *)
(* makes it more (snapshot(), prune(), store_snapshot() of Controller.cpp).*)
(***************************************************************************)
THEOREM CommandsAdvance ==
  Spec => [][/\ Rounds' \in Nat /\ Work' \in Nat
             /\ IF Command THEN EndsOrAdvances
                ELSE pc # "idle" => pc' = "idle" \/ UNCHANGED <<pc, Rounds, Work>>]_vars
<1>1. IInv' => (Rounds \in Nat)' /\ (Work \in Nat)'
  BY WorkType, PTL
<1>2. IInv /\ IInv' /\ [Next]_vars =>
        [/\ Rounds' \in Nat /\ Work' \in Nat
         /\ IF Command THEN EndsOrAdvances
            ELSE pc # "idle" => pc' = "idle" \/ UNCHANGED <<pc, Rounds, Work>>]_vars
  BY <1>1, CommandWork, EnvironmentWork
<1>3. QED
  BY <1>2, Invariance, PTL DEF Spec

(***************************************************************************)
(* A command always finds its next node and its next victim, as long as no *)
(* crash has come between a node and its breadcrumb and no directory was   *)
(* put back that had been copied in such a moment (getNextSnapshotNode(),  *)
(* RepositoryStructure.cpp:445-453).  Otherwise the loop of                *)
(* getNextSnapshotNode() may not end: StaleBreadcrumbTraversed.            *)
(***************************************************************************)
THEOREM AlwaysANextStep == Spec => []NeverAtALoss
<1>1. Init => FreeInv
  <2>1. Init => UpToDate(Repository)
    BY Constants DEF Init, UpToDate, Repository
  <2>2. QED
    BY <2>1 DEF Init, FreeInv
<1>2. IInv /\ FreeInv => NeverAtALoss
  <2> SUFFICES ASSUME IInv, FreeInv PROVE NeverAtALoss
    OBVIOUS
  <2>1. victims \subseteq Nodes /\ crumb \in Nodes /\ RepoInv
    BY DEF IInv, TypeOK
  <2>2. Undisturbed /\ pc = "next" => idFile[crumb] = NoFile
    BY <2>1 DEF FreeInv, RepoInv, ValidFor, Repository
  <2>3. victims # {} => \E v \in victims : IsNextVictim(v)
    BY <2>1, GreatestVictim
  <2>4. QED
    BY <2>2, <2>3 DEF FreeInv, NeverAtALoss
<1>3. QED
  BY <1>1, <1>2, FreeStep, Invariance, PTL DEF Spec
=============================================================================
