# A formal model of diffmonger

TLA+ modules, TLC runs and TLAPS proofs about diffmonger, the incremental
backup tool for ZFS. Every definition is translated from the C++ source under
`src/`; `PROJECT.json` maps each one to the lines it stands for and names, for
each property, a slip of the code that makes it fail.

Contents: [the system](#the-system) and its hazards, [the modules](#the-modules)
and how they correspond to the code, [the runs](#the-runs),
[the proofs](#the-proofs), [what the code does differently from what it
says](#where-the-code-and-its-comments-disagree), [what is not
modelled](#what-is-not-modelled), [the plan](#the-plan).

## The system

diffmonger takes numbered snapshots of a ZFS dataset and keeps them in a
*repository directory*. Snapshot *n* is a node of a tree: node 0 is the root and
is stored as a full image, every other node as the difference from its *parent*,
the node with its lowest set bit cleared (a Fenwick tree). A node with lowest
set bit *p* lives until node *n + 3p* is created. A mirror of the directory on a
remote machine may protect itself from its primary by trusting new nodes at a
limited rate only.

Each command is one short-lived process with a few children. Most commands take
the repository lock (`fcntl(F_OFD_SETLKW)`), do their work and exit; everything
that survives is in the repository directory and in the dataset. What is hard is
hence less the interleaving of commands than **where a command stops**, **what
the next one finds** and **what the dataset and the directory, which change
independently, say about each other**. Interleaving matters in three places:
between the processes of one command around a pipe, in the commands that run
without the lock (`init`, `init-keypair`), and in whatever happens to the dataset
and to a mirror's files meanwhile.

| component | state | operations | interacts with |
|---|---|---|---|
| Snapshot tree (`diffmonger.hpp`, `Node.hpp`) | none | `fenwick_parent`, `time_of_demise`, `fenwick_path_inc_root`, `alive_after`, `prune` | called by all below |
| Snapshot command (`Controller.cpp` 71-108, 206-271) | breadcrumb in memory, parent and snapshot ids | `snapshot`, `_snapshot`, `prune`, `store_snapshot` | repository directory, zfs driver, pipelines |
| Repository directory (`RepositoryStructure.cpp`) | `snapshots/<n>/{id,payload}`, a temporary snapshot directory, the breadcrumb file | `create_temporary_snapshot`, `commit`, `remove`, `getNextSnapshotNode`, `writeBreadcrumb`, `tryGetEncodedSnapshotId`, enumeration | files only |
| zfs driver (`ZfsDriver.cpp`, `zfs.cpp`) | none; the dataset's named snapshots and their guids | `snapshot`, `exists`, `initial`, `diff`, `remove_snapshot`, `restoreInitial`, `restoreDiff` | runs `zfs` |
| Repository lock (`RepositoryStructure.cpp` 475-535) | lock file | created by whatever command comes first; held from the constructor until the last process that has it open ends | child processes inherit it |
| prune-repository (`Controller.cpp` 469-510, `Trust.cpp`) | a mirror's nodes; trusted node and time in the breadcrumb | `prune_repository`, `maybeUpdateBreadcrumb`, `deleteNode`, `writeBreadcrumb` | the primary, through files copied by another tool |
| restore, export, import (`Controller.cpp` 275-332, 364-457, 512-574) | the dataset | replay of streams in order | another diffmonger process, zfs |
| Key slots and encryption (`KeyPair.cpp`, `EncryptionUtil.cpp`) | `keys/<i>` files | `storeKeyPair` (without the lock), `readKeyPairs`, `decryptKeyPair`, `encryptToFd`, `decryptFromFd` | repository directory, pipelines |
| Process pipelines (`sysutil.cpp`, `FdOwner.cpp`, `PidOwner.hpp`) | pipes, children | fork, exec, wait | snapshot, restore and export |
| Repository creation (`RepositoryStructure.cpp` 341-375) | the files of a new repository | `createRepository` | lock |
| Node selection (`CommandLineInterface.cpp` 51-87, `RepositoryStructure.cpp` 392-422, 445-453) | none | the node that `restore node=...` means: relative to the last trusted one, or `+max` | restore; a mirror's copying tool |
| Serialisation, command line, libsodium, simulation | none | pure functions, third-party or offline code | |

What makes each correct:

* **Tree**: the loops report exactly the sets their comments name, in order and
  once; they refuse exactly the nodes that leave no room in the word; what is
  pruned bears nothing that stays.
* **Snapshot command and repository**: at whatever step a command stops, every
  node that the tree keeps is restorable, and nothing else stays; a node is
  never published with a file that was cut short, or with a stream from another
  snapshot than the one stored as its parent; a command that reports success
  has stored a snapshot taken after it began; a command ends; and one that fails
  has a cause that its user can name: a snapshot that the user removed, or one that
  a crash, a failure of zfs or a directory put back has left in its way.
* **Mirror**: a mirror trusts at most one node per interval, in the order of
  their timestamps, and every one in the end; it prunes nothing but the victims
  of the node it is about to trust, and nothing it has pruned comes back.
* **Restore and export**: a restore that reports success has brought the
  requested node, and if it received anything the dataset is at that node; a
  stored node can always be restored in the end; what an export has stored hangs
  together, and a successful one is complete.
* **Keys and creation**: an `init-keypair` that succeeds is never undone by
  another; a payload can be decrypted with every key pair that there was when its
  command began; nobody gets into half a repository; of two `init` one wins.
* **Pipelines**: whoever fails, nothing incomplete is published or reported as
  restored; nobody waits for a descriptor that only the waiting process itself
  holds open; no process of a command is at work when the next one begins.
* **Node selection**: the arithmetic stays within the word at both of its ends, a walk
  finds the node asked for with all that is before it, and the newest node has its
  path, whatever arrives meanwhile.

The hazards, each at its line, are listed in `PROJECT.json` under `hazards`,
with the properties that would catch them going wrong.

## The modules

| module | models | kind |
|---|---|---|
| `FenwickTree` | the functions of `diffmonger.hpp` as declarative operators | pure, non-recursive |
| `TreeLoops` | the three loops of `diffmonger.hpp`, one step per iteration | state machine |
| `BackupHistory` | what a repository promises its user | abstract specification |
| `SnapshotCommand` | the snapshot command on a repository directory and a dataset | state machine, refines `BackupHistory` |
| `Quarantine` | prune-repository on a mirror, its primary (a `BackupHistory`), the copying tool and two clocks | state machine, refines `BackupHistory` |
| `RestoreCommand` | restore and export-repository with the importing process, on a dataset with a linear history | state machine |
| `Pipeline` | the processes of one command around one pipe, and their descriptors | state machine |
| `KeySlots` | creation of a repository, its lock and its key files, any commands at a time | state machine |
| `NodeSelection` | which node `restore node=...` means | state machine |
| `MCTreeLoops`, `MCSnapshotCommand`, `MCQuarantine`, `MCRestoreCommand`, `MCPipeline`, `MCKeySlots`, `MCNodeSelection` | instances for TLC | |
| `FenwickTreeProofs`, `TreeLoopsProofs`, `SnapshotCommandProofs`, `QuarantineProofs`, `RestoreCommandProofs`, `PipelineProofs`, `KeySlotsProofs`, `NodeSelectionProofs` | theorems and proofs | |

`TreeLoops`, `BackupHistory`, `SnapshotCommand`, `Quarantine`,
`RestoreCommand` and `NodeSelection` extend `FenwickTree`. `SnapshotCommand` has
`BackupHistory` as an `INSTANCE ... WITH` a refinement mapping; `Quarantine` is
composed with it: what `SnapshotCommand` implements is all that a mirror knows of its
primary; and the mirror's trusted nodes are a `BackupHistory` again (`Mirror`). What
one command leaves is what the next one starts from: `RestoreCommand` and `NodeSelection` begin with any part of a
directory that `LeftAfter` of `FenwickTree` allows for, and that `SnapshotCommand`
and `Quarantine` leave nothing else is [proved](#the-proofs). The other modules rest on
one another as layers do: `Pipeline` shows why `Send` of `SnapshotCommand`,
`Receive` of `RestoreCommand` and `Publish` of `KeySlots` may be one step that
happens as a whole or not at all; `KeySlots` and `Pipeline` (`OpensOnlyWhole`,
`LockCoversAll`) show why the other modules may have one command at a time. A file
whose writing stopped is `Torn` everywhere: every field that is read has a fixed size
or its size before it, and `Deserialiser::consume()` throws where bytes are missing.

### FenwickTree and TreeLoops

`FenwickTree` says *what* `diffmonger.hpp` computes: `LSB`, `Parent`, `Demise`,
`AliveAfter`, `Pruned`, `Path`, with `IsPow2` instead of bit operations so that
the prover can use them. `TreeLoops` says *how*: a behaviour is one call of one
of the three functions with one argument, `cur` and `bits` are the loop
variables (`anchor` and `uint_2powm` of `alive_after`, `mask` of `prune`), `out`
collects the functor's arguments. Words go up to `2 * TopBit - 1`; masks are `\div` and
`%`. The order of the statements within an iteration matters and is kept: in
`alive_after()` the test of the top bit is made after the anchor has moved, so
the function throws even when the moved anchor is 0 and the loop would end.
What is reported at the anchor (`AliveReport`) keeps the condition of the
source with its three shifted terms. The run `tree_loops` shows the two modules
to agree; everything else uses only `FenwickTree`.

### SnapshotCommand

The state is the repository directory (`dirs`, `idFile`, `payload`, `temp`,
`bread`), the dataset (`dataset`: the guid under each node's snapshot name), and
the process (`pc`, `crumb`, `victims`, `parentGuid`, `snapGuid`, `old`,
`result`). A step is one system call that changes a file or the dataset, or one
check that can fail. In the order of the code:

| actions | code |
|---|---|
| `Start`, `StartFails` | lock taken, breadcrumb file read (`RepositoryStructure` constructor) |
| `FindNextOccupied`, `FindNextFree` | `getNextSnapshotNode()`; the victims of the breadcrumb's node |
| `UnlinkId`, `UnlinkPayload`, `RemoveDir`, `DestroySnapshot`, `PruneDone` | `prune()` of the controller with its callback: `remove_all()` file by file in any order, then the destruction of the victim's snapshot, then the next victim, greatest first |
| `CheckParent`, `CheckParentFails` | id file of the parent, `exists()` on its snapshot |
| `TakeFresh`, `TakeRefused`, `TakeFails` | `ZfsDriver::snapshot()`: `zfs snapshot`. When it exits with a failure, because the name is taken or for another reason, the command ends: that is a `command_failed` (`PidOwner.hpp:15, 239-252`), a `runtime_error`, and `ZfsDriver.cpp:174` catches `system_error` only |
| `TakeNotRun` | `zfs` cannot be run at all (no pipe, no process, no program): the `system_error` that is kept |
| `ReadGuid`, `ReadGuidFails` | `zfs get guid`, after a success or a failure to run `zfs`. In the second case a snapshot that is found is an old one (`old`, `already_old`) |
| `ClearTemp`, `OpenPayload` | the temporary snapshot directory and its payload file |
| `Verify`, `VerifyFails`, `Send`, `SendFails` | `initial()` or `diff()`: guids verified, then `zfs send` by name; `store_snapshot()` waits for the sending and the encrypting process |
| `OpenId`, `WriteId`, `Rename` | `commit()`: id file, then `rename()` |
| `OpenCrumb`, `WriteCrumb` | `writeBreadcrumb()`; then the loop of `snapshot()`, which is repeated after an old snapshot only |
| `Crash` | anything that ends the process between two steps |
| `UserDestroys`, `UserRollsBack` | the dataset is its user's |
| `Checkpoint`, `PutBack` | the directory is itself on a filesystem that may be rolled back (`BackendDriver.hpp:168-171`) |

What is abstracted: a snapshot's content is its guid; a payload is the pair of
guids its stream leads from and to; encryption adds nothing that the properties
tell apart; a failing `zfs get`, `mkdir` or `write` ends the command and leaves
what was written, which is exactly `Crash`. The lock makes commands exclude one
another, so at most one `pc` is needed. Files survive a stop in program order:
the code calls no `fsync`, and the reordering of unsynced writes by a power cut
is not modelled.

`BackupHistory` is the abstract view: the number of the next snapshot and the
set of snapshots that can be restored. A snapshot is forgotten only when its
successor by the tree's rule is about to be taken, and the next one is taken
only when exactly those whose time has not come are kept. Crashes, retries,
temporary files, guids and the breadcrumb do not exist there. `KeepsHistory`
maps the directory's intact nodes to `kept`.

### Quarantine

Three parties share files. The *primary* takes and forgets nodes by the actions
of `BackupHistory` and stamps each with what its clock shows (`stamp`, never
changed afterwards). The *copying tool* adds a node of the primary to the mirror
(`Sync`), any one at any time. The *mirror's process* runs `prune_repository()`:

| actions | code |
|---|---|
| `StartPruning`, `StartFails` | the command: lock, breadcrumb file, `now` read once; with a breadcrumb file that was cut short the constructor throws. The function is modelled as it would run if the command line called it (it does [not](#where-the-code-and-its-comments-disagree)) |
| `Trust`, `Stop` | one round of the loop up to `maybeUpdateBreadcrumb()`: `MayTrust`, `TrustedAt`, `EffectiveNow`, `Updated` are its four steps |
| `DeleteNode`, `PruneDone` | `deleteNode()` of each victim, greatest first |
| `OpenCrumb`, `WriteCrumb` | `writeBreadcrumb()`: truncated, then written; then the next round |
| `Crash` | the process ends between two steps |
| `Tick`, `SetBack` | the mirror's clock |

What is abstracted: of a node's files only the id file is read here, and of that
only the timestamp; a payload that is still under way makes no difference to
`prune_repository()`. `Sync` copies a file as a whole (the usual tools rename it
into place). `remove_all()` of a node is one step: the id file decides about a
node and what remains of the others is deleted with the next victim's turn only
in `SnapshotCommand`, where it matters. `timestamp_t::min()` is time 0, which is
also where the clocks start, so that no clock shows less. `trusted`, the number of
nodes trusted so far, is a history variable: the breadcrumb file says it too, but not
while it is cut short.

### RestoreCommand

The dataset is the sequence `history` of its snapshots, each with a name and a
guid, and whether its data has been written since (`dirty`). The repository is
one that `SnapshotCommand` leaves (`LeftAfter(Last)`): all nodes alive after `Last`,
where those that are about to be pruned may lack their directory, their id file or
their payload; it is locked and does not change. One command runs at a time:

| actions | code |
|---|---|
| `StartRestore`, `StartExport` | which nodes the loop of `restore()` goes through: the path of the node wanted, or `Exportable`, everything whose path is stored |
| `Skip`, `Needs`, `NodeFails` | `nodeToSnapshotId()` and `exists()` for the least node left; only a restore skips what is there. `exists()` throws when the name is taken by another guid (`Foreign`) |
| `Open`, `OpenFails` | payload opened, the parent's snapshot verified by `restoreDiff()` |
| `Receive`, `ReceiveFails` | `zfs receive -F`, from how the driver calls it: a full stream needs a dataset without snapshots, a difference goes back to its base (`Base`) and takes away everything newer |
| `Adopt`, `Create`, `Store`, `ImportFails` | `snapshot_import()` of the process that `export_repository()` starts and waits for at each node, with `create-snapshot=false` or `true`, and the throw when it fails |
| `Succeeds`, `Crash` | end of the loop; the process ends between two steps |
| `UserWrites`, `UserTakes`, `UserDestroys` | the dataset's user, at any step |

What is abstracted: decryption; `store_snapshot()` of the importing process is
one step, because `SnapshotCommand` has its steps. Of what a failed one leaves, the
temporary directory is not in the way of another, but a snapshot that it took with
`create-snapshot=true` is: `zfs snapshot` fails while the name is taken, and the import
with it (`Create`, `ImportCannot`). In an export the receive before each import takes
such a snapshot away with all that is newer than the base, if it is reached: a full
stream, for node 0, is refused by a dataset in which any snapshot is left. The
importing process is given the dataset of the exporting one, as
`test/integration-test/test.sh:136-144` does it.

### Pipeline

One command with one stream: storing it (`store_snapshot()`), restoring it
(`withDecryptedInput()`) or starting an import (`export_repository()`), with or
without encryption. The parent, the encrypting or decrypting child (`"coder"`)
and the program (`zfs send`, `zfs receive` or the import command) each have a
place in their code (`pc`) and a set of open descriptors (`fds`); the kernel is
what these say: a pipe has an end of input when nobody has its `"write"` open, a
write is SIGPIPE when nobody has its `"read"` open, the lock is held as long as
anybody has `"lock"` open.

| actions | code |
|---|---|
| `ForkCoder`, `ParentDrops`, `CoderDrops` | `FdPipePair::create()`, `PidOwner::runInChild()`; both sides close the end they do not use |
| `ForkProgram`, `HandOver`, `Execs`, `ExecFails`, `Listen`, `ListenFails` | `systemvp3()`: the status pipe, fork, `mov2()` and `execvp()` in the child, the descriptors handed over closed in the parent, the status pipe read to its end |
| `ForkFails` | `PidOwner::fork()` throws |
| `SendId`, `SendIdKilled` | `export_repository()` writes the id to the import; nothing handles SIGPIPE |
| `WaitProgram`, `WaitCoder`, `WaitThrows` | `wait_or_throw()` of one and of the other |
| `Publish` | `commit()` |
| `Unwind` | an exception on its way out: descriptors closed, then `~PidOwner()` waits |
| `Encrypts`, `Seals` | `encryptToFd()`, which takes whatever comes to the end of the input and writes the final tag |
| `Decrypts`, `DecryptsLast` | `decryptFromFd()`, which hands blocks on before it has seen the tag |
| `SendsToPipe`, `SendsToFile`, `SendsAll`, `Receives...` | the two `zfs` programs, external |
| `TakesLock`, `ReadsId`, `Imports` | the import command: its own lock, `snapshot_import()` reading its input |
| `Dies` | any process is killed, or fails by itself, at any step |
| `NextCommand` | the next command's `fcntl(F_OFD_SETLKW)` returns |

What is abstracted: a stream is a number of blocks, the pipe takes `Capacity` of
them; a program that fails by itself is one that is killed, since only "not 0" is
asked of an exit status; the descriptors that are neither the stream's, the
status pipe's nor the lock's decide nothing. What is
still open after `execvp()` (`KeptByExec`) follows from which descriptors are
opened with `O_CLOEXEC`; the lock file is not. A `zfs receive`
fed by a stored payload that is too short notices it (`ReceivesTooLittle`).

### KeySlots

Any number of processes run `init`, `init-keypair`, `snapshot` and `restore` on
one directory, from nothing or an empty directory on. A file is created in one
step and written in the next; what is killed in between is `Torn` for ever.

| actions | code |
|---|---|
| `StartInit`, `MakeDir`, `DirsMade`, `CreateUuid`, `WriteUuid`, `CreateArgs`, `WriteArgs`, `CreateFails` | `createRepository()`: the test of emptiness, the directories, two files that must not exist (`O_EXCL`) |
| `StartSnapshot`, `StartRestore`, `OpenLock`, `TakeLock`, `ReadArgs`, `OpenFails` | the constructor of `RepositoryStructure`: the lock file created wherever there is a directory, the lock, then `initargs` |
| `StartKeypair`, `CountSlot`, `Counted`, `CreateKey`, `WriteKey`, `KeypairFails` | `init_keypair()`, `storeKeyPair()`: slots counted file by file, then the next one created; no lock, no `initargs` |
| `ReadKey`, `ReadAll`, `Publish`, `ReadFails` | `readKeyPairs()` in the encrypting child, the payload's entries |
| `Search`, `EndRestore` | `decryptKeyPair()`, with the callback that ends the search after the first slot; whether the payloads open is `Opens` |
| `Crash` | the process is killed between two steps |

What is abstracted: cryptography (a key pair is opened by its own passphrase and
by no other; a payload by the key pairs it has an entry for); the encrypting child
is part of its process, and an exception in it, such as for a torn key file, fails
the command, as `Pipeline` shows in detail. `promised` is a history variable: the
keys that were usable when the command began. A restore whose passphrase opened
nothing hands the ciphertext to `zfs receive`, which refuses it.

### NodeSelection

A behaviour is one call, of `getNodeRelativeToLastTrusted()` or, for `+max`, of
`getNextSnapshotNode()`; a step reads one id file. Nodes are unsigned words and
offsets signed words of the same size, as in the code.

| actions | code |
|---|---|
| `WalkFinds`, `WalkOn`, `WalkMissing`, `WalkTooBig` | the loop over the nodes after the last trusted one; `next()` of the greatest node throws |
| `BackFinds`, `BackMissing`, `BackOutOfRange`, `BackTooBig` | the one read of `untrusted_begin + offset`, and its guards |
| `LatestFinds`, `LatestEmpty`, `LatestOccupied` | `+max`: `getNextSnapshotNode()`, with its endless loop, and the node before it |
| `Arrives` | the copying tool of a mirror, between any two reads |

The directory at the start is what a trusted node leaves (`LeftAfter`), where the
victims of the next one may be gone, with any untrusted nodes. What is abstracted: the text of the
parameter. Its parser takes no plus sign, so that the command line passes only
offsets that are not positive; the others are in the contract of the function and
are modelled with them.

## The runs

| run | instance | what it shows |
|---|---|---|
| `tree_loops` | every node of a 7-bit word, all three functions | the loops return, report the right sets in decreasing order, refuse exactly the nodes at the top of the word; gaps and number of the nodes kept are as documented |
| `snapshot_trouble` | 9 nodes; a crash, a failure of zfs or to run it, a change of the dataset by its user and a directory put back, each once, at any step and in any order | restorability, retention, nothing overstays, chains stay intact, refinement of `BackupHistory`; no failure that the code calls unexpected, every other one for its cause; a success is fresh; every command ends that does not begin at a stored node |
| `quarantine` | 5 nodes, a clock set back on one side, one crash, a mirror that lags behind as far as it likes | the rate of trust, its order; what is pruned and what is kept; the trusted nodes are a history of their own, into which nothing returns; nothing waits for ever but for three reasons |
| `restore_replay` | repository after node 5, its victim 3 in any state; a new dataset or the one backed up; one crash, one failure of zfs, one change by the user | a successful restore has reached its node; an export stores what hangs together and, if successful, everything; a stored node is restored in the end unless a foreign snapshot is in the way |
| `pipeline` | storing, restoring and exporting 4 blocks through a pipe of 2, three failures anywhere | nothing incomplete is published or reported restored; a command leaves no child and the next one finds none; nobody waits for ever |
| `key_slots` | three processes, three key pairs, two slots that are read and one that is not, one process killed | no key pair is lost, payloads open with every key pair there was, one creator, nobody in half a repository |
| `node_selection` | words of five bits: every offset, every breadcrumb, up to four untrusted nodes there or arriving | no overflow, nothing before the root, which node each offset finds, a walk that is whole, a newest node with its path |
| `snapshot_taken`, `snapshot_stale`, `snapshot_torn`, `snapshot_leak`, `key_search` | smallest instances | the five disagreements [below](#where-the-code-and-its-comments-disagree) |

**Bounds.** Node 8 is the first with two victims (2 and 5), so that a pruning
can stop between two of them; node 7 has the longest path below it; node 3 hangs
on node 2, which goes at node 8, so that a directory put back far enough needs
parents that are gone. With `MaxNode = 9` all of these are made and pruned past.
Each trouble happens once, and since a failure of zfs leaves what a crash at the same
place leaves, the recovery from one interruption can be interrupted by the other; in
between there are any number of clean commands. The user destroys the snapshot of node
6 or rolls back to it (`UserNodes`): it is the parent of node 7, can be the newest one
or be left with others after it, and a rollback to it takes a snapshot away that is in
the way of the next command. The checkpoint is taken between commands, in the middle of a
pruning, while the payload is written, or before the breadcrumb is (`Checkpoints`), and
put back in any later idle state. For other numbers of each, other nodes and other
moments the proofs stand.
In `tree_loops` the
loop bodies treat all bit positions alike except the lowest two (`bits \div 4`)
and the top two, so seven bits have every kind and three of the ordinary ones.
In `Quarantine` node 4 is the first with a victim (node 1), so five nodes are
trusted and one of them prunes; each costs an interval of `MinGap = 1`, which is
what `MaxTime` allows for. The primary's clock shows one of two times, so that
equal, growing and falling timestamps occur; one set-back, on either machine,
and one crash fall anywhere.
In `RestoreCommand` node 5 has the history that matters: its path is 0, 4, 5,
while 2 and 3 are stored beside it, so an export goes forth to 3 and back to 0
for 4, and a restore of 3 takes 4 and 5 away from a dataset that has them. Nodes
2 and 3 are a path whose end may be half deleted. Guids are not bounded: there are
as many as the user and the imports create.
In `Pipeline` four blocks and a pipe of two let the writer block, the reader
drain and the writer block again, with a rest after the other side's end; three
failures let all three processes fail, or two and the system call that would
notice it. In `KeySlots` two processes are enough for each race, and the third is
the one that reads what the race has left; `MaxKeySlots = 2` has a slot that is
written and never read; one kill may leave any file torn. `MaxPayloads` stops
snapshots from being started, so that nothing that was started is cut off.
Processes and keys are interchangeable (`SYMMETRY`; no liveness is checked there).
In `NodeSelection` the word is small instead of sampled: every offset and
breadcrumb of five bits occur, `SignedMax` and its neighbours among them, and with
four untrusted nodes a walk can go on, meet a gap, and run into the end of the word.
Where the dataset is full (`crumb = MaxNode`) `zfs snapshot` fails, as it would
on a full pool: a run never stops because of the bound. `pipeline` switches
the deadlock check off: there, everybody has ended when the next command has begun,
and an export into its own repository does wait for itself; `EverybodyEnds` says
that nothing else stops. So does `node_selection`, where a call that has returned
is over.

**Fairness.** `WF_vars(Command)`: a process that runs is scheduled, and a system
call returns. Nothing obliges anyone to start a command (`Start` is not part of
`Command`), a crash to come or the user to act. `CommandEnds` excepts the
command that begins at a stored node (`AtStoredNode`), as after a crash between a node
and its breadcrumb: there the loop of `getNextSnapshotNode()` is endless, for which
`snapshot_stale` is a run of its own. In `TreeLoops`, `WF_vars(Step)`: the call executes.
`Quarantine` assumes what README.md:325-335 describes: the command and the
copying tool are run again and again (weak fairness of `StartPruning` and of
`Sync`), a running process is scheduled (`PruneCommand`), the primary goes on,
and time passes (`Tick`). `PastTheBound` exempts the nodes whose quarantine
would end after `MaxTime`, and `StuckFor` lists what keeps a node in quarantine for
ever; each of the three is reached in the run (see
[below](#where-the-code-and-its-comments-disagree)). The property has the form
*again and again nothing waits*, which for a primary that takes finitely many nodes,
as here, says of each of them that its waiting ends; a primary that is faster than
the rate always has some that wait. `RestoredInTheEnd` assumes a user who runs the
restore again and again whenever no command runs (strong fairness of
`StartRestore`, since other commands, also restores of other nodes, may come in
between), and that a running process is scheduled; failures and crashes are
finitely many. `Pipeline` has weak fairness of each process's steps and of the next
command's waiting for the lock: processes are scheduled and system calls return
when they can. Nothing has to fail, and no order among the processes is assumed.
`NodeSelection` has no liveness to check: what may not return is the loop of
`snapshot_stale`.

## The proofs

`tlapm` checks the following for **every** `MaxNode`, every number of crashes,
failures, meddlings and restores, every `CheckpointAt` and every `UserNodes`, from assumptions
that TLC evaluates in the runs: `BoundsAssumption` (the bounds are naturals, or sets of
nodes and of control states),
`FileAssumption` (`NoFile` and `Torn` are neither guids nor streams and differ),
for the mirror `QuarantineAssumption` (the same of its constants; any
`MinGap`, also 0, and any `PrimaryTimes`), for the pipelines `PipelineAssumption`
(a stream and a pipe of any length but 0), for the keys `KeySlotsAssumption`
(any sets of processes and keys, also infinite; any number of slots but 0), for
the restore `RestoreAssumption` (any last node, any nodes wanted, any numbers of
failures), for the loops `TopBitAssumption` (words of any number of bits from two
on) and for the node selection `SelectionAssumption`
(a word of any size that has a positive signed number, any offsets in it, any number
of untrusted nodes). The inductive invariants are defined at the head of the modules
with the proofs.

| theorem | statement |
|---|---|
| `FenwickTreeProofs!AncestorsOutlive` | `n \in Nat \ {0} /\ Parent(n) # 0 => Demise(Parent(n)) > Demise(n)` |
| `TreeLoopsProofs!Invariance` | `Spec => []IInv` |
| `LoopTypes`, `LoopsReport`, `KeptIsThin` | `Spec => []TypeOK`, `[]ReportsItsSet`, `[]ThinsOut` |
| `EveryCallIsFinite` | `Spec => [][LeavesLess]_vars`: the natural number `Remaining` becomes smaller at every step |
| `SnapshotCommandProofs!Invariance` | `Spec => []IInv` |
| `TypeCorrect`, `ChainsIntact`, `RetentionHolds`, `NoOverstaying`, `NothingUnexpected`, `ParentsStay`, `FailuresHaveCause` | `Spec => []TypeOK`, `[]ChainIntact`, `[]Retention`, `[]NothingOverstays`, `[]NoUnexpectedFailure`, `[]ParentLostOnlyByUser`, `[]FailsOnlyForCause` |
| `SuccessFresh` | `Spec => SuccessIsFresh`, an action property |
| `SnapshotCommandProofs!Implements` | `Spec => KeepsHistory`, the refinement of `BackupHistory` |
| `LeftReplayable`, `LeftSelectable` | what a command leaves, wherever it stopped, is in the initial states of `RestoreCommand` and `NodeSelection` |
| `CommandsAdvance` | every step of a command ends it, makes the natural number `Rounds` smaller (the failures to run zfs that are left), or leaves that as it is and makes the natural number `Work` smaller; nobody else's step changes either while the command runs |
| `AlwaysANextStep` | `Spec => []NeverAtALoss`: the next node is free, there is a next victim |
| `QuarantineProofs!Invariance` | `Spec => []IInv` |
| `MirrorTypes`, `RateIsKept`, `TrustKeepsOrder`, `TrustedKept` | `Spec => []TypeOK`, `[]Throttled`, `[]TrustedInOrder`, `[]KeepsTrusted` |
| `MirrorImplements` | `Spec => MirrorIsHistory`, the refinement of `BackupHistory` |
| `MirrorSelectable` | a mirror is in the initial states of `NodeSelection` at every step |
| `NothingPrunedEarly` | `Spec => QuarantineNeverPrunes`, an action property |
| `PipelineProofs!Invariance` | `Spec => []IInv` |
| `PipelineTypes`, `CommittedWhole`, `RestoredWhole`, `ChildrenReaped`, `GroupExcluded` | `Spec => []TypeOK`, `[]CommitsWhole`, `[]RestoresWhole`, `[]NobodyLeftBehind`, `[]LockCoversAll` |
| `NoDeadlock` | `Spec => []SomebodyGoesOn` |
| `EveryRunIsFinite` | `Spec => [][LeavesLess]_vars`: the natural number `Remaining` becomes smaller at every step |
| `KeySlotsProofs!Invariance` | `Spec => []KInv` |
| `KeyFilesTyped`, `KeysReachable`, `PromisesKept`, `CreatorIsAlone`, `OpenedIsWhole`, `FirstPassphraseEnough` | `Spec => []TypeOK`, `[]KeysStayReachable`, `[]PromisedKeysOpen`, `[]OneCreator`, `[]OpensOnlyWhole`, `[]FirstPassphraseOpens` |
| `RestoreCommandProofs!Invariance` | `Spec => []IInv` |
| `RestoreTypes`, `NodeReached`, `TargetHangsTogether`, `ExportIsComplete` | `Spec => []TypeOK`, `[]RestoreReaches`, `[]TargetIsPrefix`, `[]ExportCopies` |
| `RestoresStored` | a restore of a stored node with nothing in its way fails only when zfs does, and stays out of its own way |
| `CommandsEnd` | every step of a restore or an export makes the natural number `Remaining` smaller; nobody else's step makes it greater |
| `NodeSelectionProofs!Invariance` | `Spec => []NInv` |
| `SelectionTyped`, `ArithmeticFits`, `RelativeFound`, `NewestRestorable` | `Spec => []TypeOK`, `[]NeverOverflows`, `[]RelativeFinds`, `[]LatestIsRestorable` |

*The tree.* What is needed is that every node has a lowest set bit and what it
is. That one exists (`LSBExists`) is shown by taking a least number without one
and halving it, since induction is out of reach (`LeastElement`, `Halving`);
`LSBProperty` says what it is. Clearing the lowest set bit *p* leaves a number
whose lowest set bit is at least *2p*, so the parent outlives the child:
*n - p + 3·2p > n + 3p*. `PathSteps` and `PathNested` are about
`fenwick_path_inc_root()`: the parent of a node on a path is the next one down on it.

*The loops.* What `TreeLoopsProofs` needs of each loop is what it has reported so far:
the path above the loop variable; of the alive set whatever is less than *q* away from
the node, where the anchor is the multiple of *q* between *q* and *2q* away (`AliveAt`);
of the victims those whose lowest set bit is below *p*, where the node is a multiple of
*p* (`PruneAt`). Each iteration doubles *q* or *p*. `AliveLevel` says which nodes
between *q* and *2q* away are alive, which are the ones that the condition with the
three shifted terms lets through; `PathDeeper` bounds their number. "Node too big" is
met with the mask at the top of the word, and `AliveInv`, `PruneInv` say for which
nodes that happens. A word goes up to `2 * TopBit - 1`, for any power of two `TopBit`;
with a number of bits as the constant, the proof would need exponentiation, which
is an induction.

*The inductive invariant.* None of the safety properties is inductive as it
stands. `ChainIntact` can be broken by the unlinking of a node with a surviving
child, which is excluded by knowing what `victims` holds, which is known only
because the directory was *valid for* the breadcrumb's node when the command
began. `IInv` states this:

* `ValidFor(repo, b)`: *b* is the node that comes next. The nodes stored are
  those whose demise is *b* or later; those that outlive *b* are intact; those
  that die at *b* may be half deleted; if *b* itself is stored (its breadcrumb
  was not written), its pruning is complete.
* `RepoInv`: the directory and its checkpoint are valid for the node their
  breadcrumb names, or for some node if that file is torn; a running command's
  `crumb` is that node.
* `PruneInv`: which nodes may still be there while and after pruning.
* `StreamInv`: what the command remembers of the parent and the snapshot is what
  the directory says, from where it is read until it is published. The step that
  needs it most is `Send`: `zfs send` names snapshots, but a name verified just
  before can only have disappeared since, because guids are never reused and only
  the command itself creates snapshots under these names.

The proof has one lemma for each part of the state a step can disturb
(`RepoTypeStep` ... `StreamStep`), each with one step per action;
`PublishValid`, `ForgetValid` and `AdvanceValid` carry the tree's arithmetic;
`ParentOutlives` and `ParentIntact` cite `AncestorsOutlive`.

Four arguments are laid on top of it. `FreshInv`: `asOf`, the guids given out when
the command began, bounds from below the guid of every snapshot that the command has
taken itself, from `zfs get` to the id file. An older one gets that far only when zfs
could not be run, and then `already_old` keeps the command from reporting it as its
success. `Untouched`: while the user has changed nothing, every id file,
also of the checkpoint, names a snapshot that is in the dataset, because the only
step that could destroy one finds no id file any more (`snapshot_leak`). `AheadInv`:
unless the directory was put back, no snapshot of the dataset is further ahead than the
node that comes next, so that at most one is in the way, and the user who destroys it is
through. `QuietInv`: with nothing but changes by the user, the name of the next node is
free whenever zfs is asked to take it. For the user alone can make a command fail
between its snapshot and its breadcrumb, by destroying one of the two ends of the
stream: if it was the new snapshot, its name is free again; if it was the parent's,
every later command ends before it comes to the name (`Vacant`). `TornInv` is the same
for the breadcrumb file.

*The refinement.* `SnapshotCommandProofs` maps each step to a step of `BackupHistory` or to
none. `Forgets`: the first file deleted of a node makes it unrestorable, and that is
a `Forget` of that node alone, since whatever rests on it has died before. `Takes`:
the renaming is a `Take`, which needs that exactly the nodes whose time has not come
are restorable, so that the pruning is complete. `AfterIs`: the next number is one
more than the newest directory, also for a breadcrumb that is behind. `Archives` and
`Recalls` are the checkpoint, and everything else stutters.

*The mirror.* `QuarantineProofs` has an inductive invariant of the same kind:
`Consistent(c)` says that the mirror is what breadcrumb *c* says, `TrustInv` what
holds from the decision to trust a node until the breadcrumb is written. Two
arguments carry it. Paying: a node is trusted at the end of the last one's
interval or later, and never later than the latest time the clock has shown, so
*k* nodes beside the root take *k* intervals even if the clock is set back
(`TrustedFairly`). Not returning: what arrives is kept by the primary, the
primary keeps nothing its own latest node has killed (`PrimaryStepKeeps`, by the
actions of `BackupHistory`), and the mirror only trusts nodes that the primary
has taken; so an arriving node has not been pruned (`Frame`, `MirrorStep`).

*The mirror's history.* `MirrorImplements` is the same refinement as that of the
repository, one level up: `trusted` is the number of the next node, the trusted
nodes on the mirror are `kept`. Trusting is a `Take`, deleting a victim a `Forget`, and
whatever is copied is outside of it until it is trusted. A breadcrumb that was cut
short does not change `trusted`, so that the history goes on behind it.

*The handover.* `LeftReplayable` and `LeftSelectable` connect the modules where one
command's end is another's beginning. A directory valid for *b* is one that was
complete after *b - 1* and of which any victims of *b* have lost any of their files;
`LeftAfterIs` says that this is what `LeftAfter` describes, and what still has both
files is whole. So what is shown of a restore from any such directory holds for
the directory that a snapshot command really left, after a crash too.

*Endings.* Liveness needs `ENABLED` and is out of the prover's reach, but what makes
the commands end is not: a natural number that every step makes smaller, and no
state in which everybody waits. For the loops and for `Pipeline` the number is simply
what is left to do. For a snapshot command it is `Work`, the deletions left and the
steps up to the breadcrumb. It starts again only where the loop of `snapshot()` is
repeated, and that costs one of the failures to run zfs (`Rounds`). For a restore it is `Remaining`, five steps for each node left.
`SomebodyGoesOn` is the other half for `Pipeline`: if the parent waits for a child,
or the status pipe, and the coder for its input or for room, then the process that it
waits for is one that runs, has the other end open and does not wait itself
(`NobodyWaitsInACircle`); the exception is an export into its own repository. `ParentWaits`,
`CoderWaits` and `ProgramWaits` are the negations of the guards. For a snapshot
command `NeverAtALoss` says that its one endless loop is not entered without a crash.
What remains to TLC is the step from fairness to the ending.

*The restore.* `InOrder`: whatever was received, imported, taken or destroyed, the
dataset's guids grow, and those up to `Last` are the repository's own snapshots. So
`zfs receive -F` of a node, which goes back to its parent's snapshot, keeps
everything that is behind on the path: by `PathSteps` all of that is the parent or
older (`BehindReceived`). A node that is found and skipped after something was
received would be newer than the last one received, which is the newest
(`BehindSkipped`); hence the condition `received` of `RestoreReaches`. For an export
`Filled` says that the nodes behind are stored, in order and each from its parent
(`StoresNew`); in mode `adopt` they are copies of the repository's own.
`RestoresStored` is the other direction: what is stored can be brought. The parent is
behind (`ParentBehind`), what is behind stays, and the name that `exists()` found free
stays free (`Vacant`). No step of the command creates what `InTheWay` is about, since
all that remains after a receive are the repository's own snapshots.

*The node selection.* `RangesFit` is the arithmetic: the clamped offset leaves room
for its adjustment, a begin up to `SignedMax` can be negated, and past the guard the
sum is a node. `Reading` says what the loop has read. `PathOutlives`: no node on the
path of *n* dies when *n + 1* is created, so the newest node is restorable while the
victims of the next one are being deleted.

*The pipelines.* `FamilyInv` says which children there are at each step of the
parent, `DescriptorInv` that whatever runs has the lock file open and that the
writer of the coder's pipe has its end open, `StreamInv` what a successful exit
means, `StatusInv` what the parent has learnt. The step that matters is `Seals`:
the coder meets the end of its input, so nobody has the write end open, so the
program is not running and `sent` is final; if the program has then ended well,
it has sent everything and the coder has taken it. Neither exit status says that
alone. `LockCoversAll` needs of all this only that the lock file is inherited and
never closed.

*The keys.* `Reserved`: a key file that is torn because it is being written has
one writer, since `O_EXCL` let only one process create it. `Gapless`: a slot is
created only behind those that were there when it was counted, and no key file is
ever deleted, so a search that stops at the first missing file misses none.
`Kept` and `Reading` follow a promised key from its slot into the entries.
`Creation` and `Locking` are the argument for the constructor: `initargs` is
written by the process that wrote the uuid, after everything else is there, and
read under the lock.

*Only model-checked.* Liveness (`CommandEnds`, `Terminates`, `EventuallyTrusted`,
`RestoredInTheEnd`, `EverybodyEnds`): fairness is about `ENABLED`, which is out of the
prover's reach. The theorems under *Endings* prove what is not about scheduling for all
but `EventuallyTrusted`, where a mirror, a copying tool and a clock take turns; that a
process of `SnapshotCommand` or `RestoreCommand` always has a step is left to the
liveness properties themselves.

## Where the code and its comments disagree

* `snapshot_taken`: when `zfs snapshot` fails because the snapshot exists, the comment
  in `ZfsDriver::snapshot()` says "Assume that is the case and continue"
  (`ZfsDriver.cpp:176-179`). The code does not: a non-zero exit throws `command_failed`,
  which is a `runtime_error` (`PidOwner.hpp:15, 239-252`), and what is caught is
  `system_error`. So after a crash or a failed `zfs send` between the snapshot and the
  rename, every command fails until the user destroys the snapshot that is in the way; and
  after the directory was put back, until every snapshot taken since is destroyed, where
  `BackendDriver.hpp:168-171` and the loop of `snapshot()` (`Controller.cpp:261-271`)
  would store them one by one. `already_old` is true only when `zfs snapshot` could not be
  run and `zfs get`, a moment later, could (`TakeNotRun`). What the trouble does not do is
  in `FailsOnlyForCause`, for every run and in the proofs.
* `snapshot_stale`: `getNextSnapshotNode()` (`RepositoryStructure.cpp:450`) sets
  `prev` to the node it has just read, so a breadcrumb that is stale by one
  node makes it loop for ever. The comment in `commit()` says the controller
  "will safely traverse until it reaches the end".
* `snapshot_torn`: the breadcrumb file is truncated and then written in place.
  Stopped in between, no later command can open the repository, although "it is
  okay if the following never happens". That nothing else leads there is `TornForCause`.
* `snapshot_leak`: the victim's directory is deleted before the id in it is
  asked for, so pruning never destroys a snapshot of the dataset.
  `DestroySnapshot` keeps the branches for an id file that is there; the runs
  never reach them. The leak has a side effect: `ParentLostOnlyByUser` holds
  *because* snapshots of pruned nodes stay; with the deletion repaired, a
  directory put back to an old checkpoint would not find the snapshots that its
  next nodes need as parents.
* `key_search`: the callback that `decryptKeyPair()` passes to `withKeyFiles()`
  returns `true` after the first key file, whether or not it could be decrypted,
  so that only the passphrase of slot 0 ever restores anything. The comment says
  "in either case, the correct course of action is to continue to try other
  slots".

Read in the code, without a run of their own:

* `getNodeRelativeToLastTrusted()` adjusts the offset by one, checks the adjusted one
  and reads the node that the unadjusted one leads to
  (`RepositoryStructure.cpp:401, 417-418`; `InRange`, `Target`). `restore node=-1`
  restores the last trusted node, `node=-2` the one before, `node=-0` the first that is
  not trusted, and an offset of 1, which the command line cannot pass, the second; no
  offset leads to the root. `RelativeFinds` says for each which node it is.
  `CommandLineInterface.cpp:93-95` says "relative to the most recent trusted node".
* The command line's `prune-repository` has an empty `execute()`, and
  `prune_repository()` has no caller. No mirror is ever pruned.
* The loop of `prune_repository()` stops at the first node that is not there. When
  the primary pruned a node before it was copied (node 1 is gone when node 4 is
  taken), all later ones stay quarantined for ever, not "for such time until they
  can be replayed without exceeding the limit". The other reasons in `StuckFor` are
  a node older than the one before it (see below) and a torn breadcrumb.
* The key pair in the slot after the last that is read (the 256th) is written and
  reported as a success, and no payload is ever encrypted for it. Controller.cpp:170
  has a TODO there; `PromisedKeysOpen` is about the slots that are read.
* A repository without a key pair encrypts all the same, which is the default: the
  payload has no entry and nobody can decrypt it. README.md:280-285 says that
  `init-keypair` is necessary; nothing asks for it.
* One torn key file makes every later encrypted snapshot fail (`ReadFails`); no
  command removes it.
* A command on an empty directory leaves its lock file there, after which `init`
  says "Repository already exists"; an `init` that was killed leaves a directory
  that can neither be opened nor initialised (`StartInit`, `OpenFails`).
* An export into the repository that is being exported waits for a lock that its
  own import has inherited (`WaitsForItself`), and two exports crosswise between two
  repositories would wait for each other.
* When the import of an export has died, writing the id kills the parent by SIGPIPE
  (`SendIdKilled`), so that "Snapshot command failed" (Controller.cpp:562 on) is not
  said.
* `FdOwner::mov2()` with a descriptor that is already at its target releases it and
  then calls `dup2(-1, ...)`, which fails, where the comment (FdOwner.cpp:104-111)
  has a no-op. It takes a parent started without stdin or stdout.
* The check for an empty passphrase is reached for additional ones only; an empty
  one that is typed is accepted.
* `node=+2` is refused: the parser passes the sign to `from_chars`, which takes no
  plus. So nothing but `+max` names a node that is not trusted yet.
* `+max`, which is the default of `restore`, does not return on a mirror that has the
  node after the last trusted one, nor after a crash that left the breadcrumb behind
  (`LatestOccupied`); since a mirror's `prune-repository` does nothing, that is every
  mirror with a node whose breadcrumb was not copied along. "irrespective of whether
  trusted or not" (`CommandLineInterface.cpp:95-96`) is what it should be.
* The loop of `getNodesIncludingUntrusted()` does not end at an end below its start.
  Only `list-nodes` has another end than the default, and no command line reaches it.
* A new node's timestamp is `clock::now()` (`ZfsDriver.cpp:44`); the primary
  never "voluntarily raises it" to that of the node before, as `Trust.cpp:35-37`
  takes for granted in calling an earlier timestamp "a sure indication of an
  attack". A primary whose clock was set back by a second is refused for ever
  (`PrimaryTakes` has such timestamps; `MayTrust` refuses them).
* The anchor of `alive_after()` is not a multiple of `uint_2powm` at the head of
  an iteration, as lines 53-55 of `diffmonger.hpp` have it (`cur` is rounded to
  a multiple of the old value, which is then doubled). What the loop reports is
  right.
* "Restoration is destructive: existing data and snapshots are irrecoverably
  lost" (README.md:311). `restore` skips the nodes whose snapshots the dataset
  has; when it has them all, nothing is received, and newer snapshots and
  changed data stay. Hence the condition `received` of `RestoreReaches`.
* With `create-snapshot=true` an export stores node 0 and fails at the next
  node: the import takes a snapshot of its own on top of node 0's, and the
  receive of the next node, whose base is node 0's own snapshot, takes it away
  again before the import asks for it as the parent (`CanStore`).
* The comment at `RepositoryStructure.cpp:309-312` allows for nodes that are
  missing after a power cut in the middle of pruning. It does not cover a node
  that is half deleted: one whose id file is gone makes every export fail
  (`NodeFails`) until the next snapshot has removed its directory.

## What is not modelled

* Cryptography, compression, command-line parsing, log output, the layout of the
  bytes in a file: pure functions without state between commands. The models use what
  the layout means: a file that was cut short is refused.
* libsodium, which is vendored and is five sixths of the lines under `src/`; the
  simulation and the drawing tools. diffmonger's own code has some 8300 lines,
  tests included.
* `list-nodes` and the end of `getNodesIncludingUntrusted()` that only it has: no
  command line reaches it.
* Power cuts that reorder unsynced writes; media errors.
* `zfs snapshot` reporting a failure after it has created the snapshot. What it leaves
  is what `Crash` leaves after `TakeFresh`: the name is taken for the next command.
* Node numbers near 2^64 in `SnapshotCommand` (a repository never gets there;
  `TreeLoops` has the end of the word).

## The plan

All groups are done, in this order.

1. `FenwickTree`, `TreeLoops`: the tree, with the loop invariants proved for words of
   every size.
2. `BackupHistory`, `SnapshotCommand`: the core, with the inductive invariant, all
   safety and action properties and the refinement proved.
3. `Quarantine`: a mirror's `prune-repository`, with its invariants and the refinement of
   `BackupHistory` proved.
4. `RestoreCommand`: `restore`, `export-repository`, `snapshot-import`, with its
   invariants proved, and that a restore of a stored node does not fail.
5. `Pipeline`: the processes of a command around a finite pipe, the inherited lock,
   an export into its own repository, with all its safety properties and the absence of
   deadlocks proved.
6. `KeySlots`: creation, constructor and lock, key files without the lock, the
   search for the slot that opens, with all its safety properties proved.
7. `NodeSelection`: what `restore node=...` means, with its safety properties proved.
