---------------------------- MODULE KeySlotsProofs ----------------------------
(***************************************************************************)
(* Proofs about KeySlots, for any number of processes, keys, slots and     *)
(* crashes.                                                                *)
(***************************************************************************)
EXTENDS KeySlots, TLAPS

Step(p) == Creates(p) \/ Constructs(p) \/ AddsKey(p) \/ UsesKeys(p) \/ Crash(p)

(* Who may write which file of a repository that is being created.          *)
Creation ==
  /\ uuid # NoFile => dirs = AllDirs
  /\ initargs # NoFile => uuid \in Process
  /\ Whole(initargs) => uuid = initargs
  /\ \A p \in Process :
       /\ At(p, "create_uuid") => dirs = AllDirs
       /\ At(p, "write_uuid") => uuid = Torn
       /\ At(p, "create_args") => uuid = p
       /\ At(p, "write_args") => uuid = p /\ initargs = Torn
  /\ \A p, q \in Process : At(p, "write_uuid") /\ At(q, "write_uuid") => p = q

(* Who holds the lock, and what the constructor has seen.                   *)
Locking == \A p \in Process :
  /\ pc[p] \in {"read_args"} \cup Opened => holder = p
  /\ pc[p] \in Opened => Whole(initargs)

(* The memory of a process that has not come to its keys yet.               *)
Early == \A p \in Process :
  /\ pc[p] \in {"idle", "make_dirs", "create_uuid", "write_uuid", "create_args",
                "write_args"} => cmd[p] = "init"
  /\ pc[p] \in {"idle", "make_dirs", "create_uuid", "write_uuid", "create_args",
                "write_args", "open_lock", "take_lock", "read_args"} => n[p] = 0

(* A key file that is being written is reserved for one process.            *)
Reserved ==
  /\ \A p \in Process :
       /\ At(p, "write_key") => slot[n[p]] = Torn
       /\ pc[p] \in {"count", "create_key", "write_key"} => key[p] \in Key
  /\ \A p, q \in Process :
       At(p, "write_key") /\ At(q, "write_key") /\ n[p] = n[q] => p = q

(* No key file lies behind a gap, and no process has counted one.           *)
Gapless ==
  /\ \A s \in Slots : slot[s] # NoFile => \A t \in 0..s : slot[t] # NoFile
  /\ \A p \in Process : pc[p] \in {"count", "create_key", "write_key", "read_keys"} =>
       \A t \in 0..(n[p] - 1) : slot[t] # NoFile

(* What has been promised is still in its slot.                             *)
Kept ==
  /\ \A k \in done : \E s \in Slots : slot[s] = k
  /\ \A p \in Process : \A k \in promised[p] : \E s \in Read : slot[s] = k

(* What a snapshot has read, and what it has published.                     *)
Reading ==
  /\ \A p \in Process :
       /\ At(p, "read_keys") => \A t \in 0..(n[p] - 1) : slot[t] \in found[p]
       /\ At(p, "publish") => promised[p] \subseteq found[p]
  /\ \A x \in payloads : x.promised \subseteq x.entries

(* The passphrase that a restore was given, and what it has opened.         *)
Restoring == \A p \in Process :
  /\ /\ pc[p] \in {"open_lock", "take_lock", "read_args"}
     /\ cmd[p] \notin {"init", "snapshot"}
     => key[p] \in done
  /\ pc[p] \in {"search", "decrypt"} => key[p] \in done
  /\ At(p, "decrypt") => Whole(slot[0]) /\ found[p] = {slot[0]} \cap {key[p]}

KInv == /\ FilesOK /\ ProcessesOK
        /\ Creation /\ Locking /\ Early
        /\ Reserved /\ Gapless /\ Kept /\ Reading /\ Restoring

(* The slots are numbers, and no file state is a key or a process.          *)
LEMMA Known ==
  /\ Slots \subseteq Nat /\ Read \subseteq Slots /\ 0 \in Slots /\ 0 \in Read
  /\ MaxKeySlots \in Nat \ {0} /\ MaxKeySlots \in Slots
  /\ \A s \in Slots : s # MaxKeySlots => s + 1 \in Slots /\ s \in Read
  /\ NoFile # Torn /\ Nobody \notin Process
  /\ \A k \in Key : k # NoFile /\ k # Torn
  /\ \A p \in Process : p # NoFile /\ p # Torn
  /\ AllDirs = 4
BY KeySlotsAssumption DEF Slots, Read, AllDirs

(* Every action of a command keeps the types of the files, and a key file   *)
(* that is written (storeKeyPair()) is written with a key.                  *)
LEMMA FilesStep ==
  ASSUME KInv, NEW p \in Process, Step(p)
  PROVE  FilesOK'
<1>1. CASE StartInit(p)
  BY <1>1, Known DEF StartInit, KInv, FilesOK, ProcessesOK, Reserved, At, Goes, files,
       memory
<1>2. CASE MakeDir(p)
  BY <1>2, Known DEF MakeDir, KInv, FilesOK, ProcessesOK, Reserved, At, Goes, files, memory
<1>3. CASE DirsMade(p)
  BY <1>3, Known DEF DirsMade, KInv, FilesOK, ProcessesOK, Reserved, At, Goes, files, memory
<1>4. CASE CreateUuid(p)
  BY <1>4, Known DEF CreateUuid, KInv, FilesOK, ProcessesOK, Reserved, At, Goes, files,
       memory
<1>5. CASE WriteUuid(p)
  BY <1>5, Known DEF WriteUuid, KInv, FilesOK, ProcessesOK, Reserved, At, Goes, files,
       memory
<1>6. CASE CreateArgs(p)
  BY <1>6, Known DEF CreateArgs, KInv, FilesOK, ProcessesOK, Reserved, At, Goes, files,
       memory
<1>7. CASE WriteArgs(p)
  BY <1>7, Known DEF WriteArgs, KInv, FilesOK, ProcessesOK, Reserved, At, Goes, files,
       memory
<1>8. CASE CreateFails(p)
  BY <1>8, Known DEF CreateFails, Leaves, KInv, FilesOK, ProcessesOK, Reserved, At, Goes,
       files, memory
<1>9. CASE Constructs(p)
  BY <1>9, Known DEF Constructs, StartSnapshot, StartCommand, Usable, StartRestore,
       OpenLock, TakeLock, ReadArgs, Leaves, OpenFails, KInv, FilesOK, ProcessesOK,
       Reserved, At, Goes, files, memory
<1>10. CASE StartKeypair(p)
  BY <1>10, Known DEF StartKeypair, Fresh, KInv, FilesOK, ProcessesOK, Reserved, At,
       Goes, files, memory
<1>11. CASE CountSlot(p)
  BY <1>11, Known DEF CountSlot, KInv, FilesOK, ProcessesOK, Reserved, At, Goes, files,
       memory
<1>12. CASE Counted(p)
  BY <1>12, Known DEF Counted, KInv, FilesOK, ProcessesOK, Reserved, At, Goes, files, memory
<1>13. CASE CreateKey(p)
  BY <1>13, Known DEF CreateKey, KInv, FilesOK, ProcessesOK, Reserved, At, Goes, files,
       memory
<1>14. CASE WriteKey(p)
  BY <1>14, Known DEF WriteKey, KInv, FilesOK, ProcessesOK, Reserved, At, Goes, files,
       memory
<1>15. CASE KeypairFails(p)
  BY <1>15, Known DEF KeypairFails, Leaves, KInv, FilesOK, ProcessesOK, Reserved, At,
       Goes, files, memory
<1>16. CASE ReadKey(p)
  BY <1>16, Known DEF ReadKey, MoreKeys, KInv, FilesOK, ProcessesOK, Reserved, At, Goes,
       files, memory
<1>17. CASE ReadAll(p)
  BY <1>17, Known DEF ReadAll, MoreKeys, KInv, FilesOK, ProcessesOK, Reserved, At, Goes,
       files, memory
<1>18. CASE Publish(p)
  BY <1>18, Known DEF Publish, Payload, Leaves, KInv, FilesOK, ProcessesOK, Reserved, At,
       Goes, files, memory
<1>19. CASE ReadFails(p)
  BY <1>19, Known DEF ReadFails, MoreKeys, Leaves, KInv, FilesOK, ProcessesOK, Reserved,
       At, Goes, files, memory
<1>20. CASE Search(p)
  BY <1>20, Known DEF Search, KInv, FilesOK, ProcessesOK, Reserved, At, Goes, files, memory
<1>21. CASE EndRestore(p)
  BY <1>21, Known DEF EndRestore, Leaves, KInv, FilesOK, ProcessesOK, Reserved, At, Goes,
       files, memory
<1>22. CASE Crash(p)
  BY <1>22, KeySlotsAssumption DEF Crash, Leaves, KInv, FilesOK, files
<1>. QED BY <1>1, <1>2, <1>3, <1>4, <1>5, <1>6, <1>7, <1>8, <1>9, <1>10, <1>11,
            <1>12, <1>13, <1>14, <1>15, <1>16, <1>17, <1>18, <1>19, <1>20, <1>21,
            <1>22
         DEF Step, Creates, AddsKey, UsesKeys

(* Every action keeps the types of what a process remembers; in particular  *)
(* withKeyFiles() never counts beyond the last slot.                        *)
LEMMA ProcessStep ==
  ASSUME KInv, NEW p \in Process, Step(p)
  PROVE  ProcessesOK'
<1>1. CASE Creates(p)
  BY <1>1, Known DEF Creates, StartInit, MakeDir, DirsMade, CreateUuid, WriteUuid,
       CreateArgs, WriteArgs, CreateFails, Leaves, KInv, FilesOK, ProcessesOK, Commands,
       States, Opened, At, Goes, files, memory
<1>2. CASE StartSnapshot(p)
  BY <1>2, Known DEF StartSnapshot, StartCommand, Usable, KInv, FilesOK, ProcessesOK,
       Commands, States, Opened, At, Goes, files, memory
<1>3. CASE StartRestore(p)
  BY <1>3, Known DEF StartRestore, StartCommand, Usable, KInv, FilesOK, ProcessesOK,
       Commands, States, Opened, At, Goes, files, memory
<1>4. CASE OpenLock(p)
  BY <1>4, Known DEF OpenLock, KInv, FilesOK, ProcessesOK, Commands, States, Opened, At,
       Goes, files, memory
<1>5. CASE TakeLock(p)
  BY <1>5, Known DEF TakeLock, KInv, FilesOK, ProcessesOK, Commands, States, Opened, At,
       Goes, files, memory
<1>6. CASE ReadArgs(p)
  BY <1>6, Known DEF ReadArgs, Leaves, KInv, FilesOK, ProcessesOK, Commands, States,
       Opened, At, Goes, files, memory
<1>7. CASE OpenFails(p)
  BY <1>7, Known DEF OpenFails, Leaves, KInv, FilesOK, ProcessesOK, Commands, States,
       Opened, At, Goes, files, memory
<1>8. CASE StartKeypair(p)
  BY <1>8, Known DEF StartKeypair, Fresh, KInv, FilesOK, ProcessesOK, Commands, States,
       Opened, At, Goes, files, memory
<1>9. CASE CountSlot(p)
  <2>1. n[p] \in Slots /\ n[p] # MaxKeySlots
    BY <1>9, KeySlotsAssumption DEF CountSlot, KInv, ProcessesOK, Slots
  <2>2. n[p] + 1 \in Slots
    BY <2>1, Known
  <2>3. n' \in [Process -> Slots]
    BY <1>9, <2>2 DEF CountSlot, KInv, ProcessesOK
  <2>. QED BY <1>9, <2>3 DEF CountSlot, KInv, ProcessesOK
<1>10. CASE Counted(p)
  BY <1>10, Known DEF Counted, KInv, FilesOK, ProcessesOK, Commands, States, Opened, At,
       Goes, files, memory
<1>11. CASE CreateKey(p)
  BY <1>11, Known DEF CreateKey, KInv, FilesOK, ProcessesOK, Commands, States, Opened,
       At, Goes, files, memory
<1>12. CASE WriteKey(p)
  BY <1>12, Known DEF WriteKey, KInv, FilesOK, ProcessesOK, Commands, States, Opened, At,
       Goes, files, memory
<1>13. CASE KeypairFails(p)
  BY <1>13, Known DEF KeypairFails, Leaves, KInv, FilesOK, ProcessesOK, Commands, States,
       Opened, At, Goes, files, memory
<1>14. CASE ReadKey(p)
  <2>1. n[p] \in Slots /\ n[p] # MaxKeySlots
    BY <1>14, KeySlotsAssumption DEF ReadKey, MoreKeys, KInv, ProcessesOK, Slots
  <2>2. n[p] + 1 \in Slots
    BY <2>1, Known
  <2>3. n' \in [Process -> Slots]
    BY <1>14, <2>2 DEF ReadKey, KInv, ProcessesOK
  <2>. QED BY <1>14, <2>3 DEF ReadKey, MoreKeys, KInv, FilesOK, ProcessesOK
<1>15. CASE ReadAll(p)
  BY <1>15, Known DEF ReadAll, MoreKeys, KInv, FilesOK, ProcessesOK, Commands, States,
       Opened, At, Goes, files, memory
<1>16. CASE Publish(p)
  BY <1>16, Known DEF Publish, Payload, Leaves, KInv, FilesOK, ProcessesOK, Commands,
       States, Opened, At, Goes, files, memory
<1>17. CASE ReadFails(p)
  BY <1>17, Known DEF ReadFails, MoreKeys, Leaves, KInv, FilesOK, ProcessesOK, Commands,
       States, Opened, At, Goes, files, memory
<1>18. CASE Search(p)
  BY <1>18, Known DEF Search, KInv, FilesOK, ProcessesOK, Commands, States, Opened, At,
       Goes, files, memory
<1>19. CASE EndRestore(p)
  BY <1>19, Known DEF EndRestore, Leaves, KInv, FilesOK, ProcessesOK, Commands, States,
       Opened, At, Goes, files, memory
<1>20. CASE Crash(p)
  BY <1>20, Known DEF Crash, Leaves, KInv, FilesOK, ProcessesOK, Commands, States,
       Opened, At, Goes, files, memory
<1>. QED BY <1>1, <1>2, <1>3, <1>4, <1>5, <1>6, <1>7, <1>8, <1>9, <1>10, <1>11,
            <1>12, <1>13, <1>14, <1>15, <1>16, <1>17, <1>18, <1>19, <1>20
         DEF Step, Constructs, AddsKey, UsesKeys

(* O_EXCL lets one init through to the uuid, and only that one goes on to   *)
(* initargs (createRepository()).                                           *)
LEMMA CreationStep ==
  ASSUME KInv, NEW p \in Process, Step(p)
  PROVE  Creation'
<1>1. CASE StartInit(p)
  BY <1>1, Known DEF StartInit, KInv, FilesOK, ProcessesOK, Creation, Early, Whole, At,
       Goes, files, memory
<1>2. CASE MakeDir(p)
  BY <1>2, Known DEF MakeDir, KInv, FilesOK, ProcessesOK, Creation, Early, Whole, At,
       Goes, files, memory
<1>3. CASE DirsMade(p)
  BY <1>3, Known DEF DirsMade, KInv, FilesOK, ProcessesOK, Creation, Early, Whole, At,
       Goes, files, memory
<1>4. CASE CreateUuid(p)
  BY <1>4, Known DEF CreateUuid, KInv, FilesOK, ProcessesOK, Creation, Early, Whole, At,
       Goes, files, memory
<1>5. CASE WriteUuid(p)
  BY <1>5, Known DEF WriteUuid, KInv, FilesOK, ProcessesOK, Creation, Early, Whole, At,
       Goes, files, memory
<1>6. CASE CreateArgs(p)
  BY <1>6, Known DEF CreateArgs, KInv, FilesOK, ProcessesOK, Creation, Early, Whole, At,
       Goes, files, memory
<1>7. CASE WriteArgs(p)
  BY <1>7, Known DEF WriteArgs, KInv, FilesOK, ProcessesOK, Creation, Early, Whole, At,
       Goes, files, memory
<1>8. CASE CreateFails(p)
  BY <1>8, Known DEF CreateFails, Leaves, KInv, FilesOK, ProcessesOK, Creation, Early,
       Whole, At, Goes, files, memory
<1>9. CASE Constructs(p)
  BY <1>9, Known DEF Constructs, StartSnapshot, StartCommand, Usable, StartRestore,
       OpenLock, TakeLock, ReadArgs, Leaves, OpenFails, KInv, FilesOK, ProcessesOK,
       Creation, Early, Whole, At, Goes, files, memory
<1>10. CASE AddsKey(p)
  BY <1>10, Known DEF AddsKey, StartKeypair, Fresh, CountSlot, Counted, CreateKey,
       WriteKey, KeypairFails, Leaves, KInv, FilesOK, ProcessesOK, Creation, Early,
       Whole, At, Goes, files, memory
<1>11. CASE UsesKeys(p)
  BY <1>11, Known DEF UsesKeys, ReadKey, MoreKeys, ReadAll, Publish, Payload, Leaves,
       ReadFails, Search, EndRestore, KInv, FilesOK, ProcessesOK, Creation, Early, Whole,
       At, Goes, files, memory
<1>12. CASE Crash(p)
  BY <1>12, Known DEF Crash, Leaves, KInv, FilesOK, ProcessesOK, Creation, Early, Whole,
       At, Goes, files, memory
<1>. QED BY <1>1, <1>2, <1>3, <1>4, <1>5, <1>6, <1>7, <1>8, <1>9, <1>10, <1>11,
            <1>12
         DEF Step, Creates

(* The lock is taken when it is free and given up only by its holder; whole *)
(* initargs stay (constructor of RepositoryStructure).                      *)
LEMMA LockingStep ==
  ASSUME KInv, NEW p \in Process, Step(p)
  PROVE  Locking'
<1>1. CASE Creates(p)
  BY <1>1, Known DEF Creates, StartInit, MakeDir, DirsMade, CreateUuid, WriteUuid,
       CreateArgs, WriteArgs, CreateFails, Leaves, KInv, FilesOK, ProcessesOK, Creation,
       Locking, Opened, Whole, At, Goes, files, memory
<1>2. CASE StartSnapshot(p)
  BY <1>2, Known DEF StartSnapshot, StartCommand, Usable, KInv, FilesOK, ProcessesOK,
       Creation, Locking, Opened, Whole, At, Goes, files, memory
<1>3. CASE StartRestore(p)
  BY <1>3, Known DEF StartRestore, StartCommand, Usable, KInv, FilesOK, ProcessesOK,
       Creation, Locking, Opened, Whole, At, Goes, files, memory
<1>4. CASE OpenLock(p)
  BY <1>4, Known DEF OpenLock, KInv, FilesOK, ProcessesOK, Creation, Locking, Opened,
       Whole, At, Goes, files, memory
<1>5. CASE TakeLock(p)
  BY <1>5, Known DEF TakeLock, KInv, FilesOK, ProcessesOK, Creation, Locking, Opened,
       Whole, At, Goes, files, memory
<1>6. CASE ReadArgs(p)
  BY <1>6, Known DEF ReadArgs, Leaves, KInv, FilesOK, ProcessesOK, Creation, Locking,
       Opened, Whole, At, Goes, files, memory
<1>7. CASE OpenFails(p)
  BY <1>7, Known DEF OpenFails, Leaves, KInv, FilesOK, ProcessesOK, Creation, Locking,
       Opened, Whole, At, Goes, files, memory
<1>8. CASE AddsKey(p)
  BY <1>8, Known DEF AddsKey, StartKeypair, Fresh, CountSlot, Counted, CreateKey,
       WriteKey, KeypairFails, Leaves, KInv, FilesOK, ProcessesOK, Creation, Locking,
       Opened, Whole, At, Goes, files, memory
<1>9. CASE ReadKey(p)
  BY <1>9, Known DEF ReadKey, MoreKeys, KInv, FilesOK, ProcessesOK, Creation, Locking,
       Opened, Whole, At, Goes, files, memory
<1>10. CASE ReadAll(p)
  BY <1>10, Known DEF ReadAll, MoreKeys, KInv, FilesOK, ProcessesOK, Creation, Locking,
       Opened, Whole, At, Goes, files, memory
<1>11. CASE Publish(p)
  BY <1>11, Known DEF Publish, Payload, Leaves, KInv, FilesOK, ProcessesOK, Creation,
       Locking, Opened, Whole, At, Goes, files, memory
<1>12. CASE ReadFails(p)
  BY <1>12, Known DEF ReadFails, MoreKeys, Leaves, KInv, FilesOK, ProcessesOK, Creation,
       Locking, Opened, Whole, At, Goes, files, memory
<1>13. CASE Search(p)
  BY <1>13, Known DEF Search, KInv, FilesOK, ProcessesOK, Creation, Locking, Opened,
       Whole, At, Goes, files, memory
<1>14. CASE EndRestore(p)
  BY <1>14, Known DEF EndRestore, Leaves, KInv, FilesOK, ProcessesOK, Creation, Locking,
       Opened, Whole, At, Goes, files, memory
<1>15. CASE Crash(p)
  BY <1>15, Known DEF Crash, Leaves, KInv, FilesOK, ProcessesOK, Creation, Locking,
       Opened, Whole, At, Goes, files, memory
<1>. QED BY <1>1, <1>2, <1>3, <1>4, <1>5, <1>6, <1>7, <1>8, <1>9, <1>10, <1>11,
            <1>12, <1>13, <1>14, <1>15
         DEF Step, Constructs, UsesKeys

(* Every command begins at slot 0, and an init stays an init.               *)
LEMMA EarlyStep ==
  ASSUME KInv, NEW p \in Process, Step(p)
  PROVE  Early'
<1>1. CASE Creates(p)
  BY <1>1, Known DEF Creates, StartInit, MakeDir, DirsMade, CreateUuid, WriteUuid,
       CreateArgs, WriteArgs, CreateFails, Leaves, KInv, FilesOK, ProcessesOK, Early,
       Opened, At, Goes, files, memory
<1>2. CASE StartSnapshot(p)
  BY <1>2, Known DEF StartSnapshot, StartCommand, Usable, KInv, FilesOK, ProcessesOK,
       Early, Opened, At, Goes, files, memory
<1>3. CASE StartRestore(p)
  BY <1>3, Known DEF StartRestore, StartCommand, Usable, KInv, FilesOK, ProcessesOK,
       Early, Opened, At, Goes, files, memory
<1>4. CASE OpenLock(p)
  BY <1>4, Known DEF OpenLock, KInv, FilesOK, ProcessesOK, Early, Opened, At, Goes,
       files, memory
<1>5. CASE TakeLock(p)
  BY <1>5, Known DEF TakeLock, KInv, FilesOK, ProcessesOK, Early, Opened, At, Goes,
       files, memory
<1>6. CASE ReadArgs(p)
  BY <1>6, Known DEF ReadArgs, Leaves, KInv, FilesOK, ProcessesOK, Early, Opened, At,
       Goes, files, memory
<1>7. CASE OpenFails(p)
  BY <1>7, Known DEF OpenFails, Leaves, KInv, FilesOK, ProcessesOK, Early, Opened, At,
       Goes, files, memory
<1>8. CASE AddsKey(p)
  BY <1>8, Known DEF AddsKey, StartKeypair, Fresh, CountSlot, Counted, CreateKey,
       WriteKey, KeypairFails, Leaves, KInv, FilesOK, ProcessesOK, Early, Opened, At,
       Goes, files, memory
<1>9. CASE UsesKeys(p)
  BY <1>9, Known DEF UsesKeys, ReadKey, MoreKeys, ReadAll, Publish, Payload, Leaves,
       ReadFails, Search, EndRestore, KInv, FilesOK, ProcessesOK, Early, Opened, At,
       Goes, files, memory
<1>10. CASE Crash(p)
  BY <1>10, Known DEF Crash, Leaves, KInv, FilesOK, ProcessesOK, Early, Opened, At, Goes,
       files, memory
<1>. QED BY <1>1, <1>2, <1>3, <1>4, <1>5, <1>6, <1>7, <1>8, <1>9, <1>10 DEF Step, Constructs

(* O_EXCL reserves a slot for the process that creates its file             *)
(* (storeKeyPair()).                                                        *)
LEMMA ReservedStep ==
  ASSUME KInv, NEW p \in Process, Step(p)
  PROVE  Reserved'
<1>1. CASE Creates(p)
  BY <1>1, Known DEF Creates, StartInit, MakeDir, DirsMade, CreateUuid, WriteUuid,
       CreateArgs, WriteArgs, CreateFails, Leaves, KInv, FilesOK, ProcessesOK, Early,
       Reserved, At, Goes, files, memory
<1>2. CASE Constructs(p)
  BY <1>2, Known DEF Constructs, StartSnapshot, StartCommand, Usable, StartRestore,
       OpenLock, TakeLock, ReadArgs, Leaves, OpenFails, KInv, FilesOK, ProcessesOK,
       Early, Reserved, At, Goes, files, memory
<1>3. CASE StartKeypair(p)
  BY <1>3, Known DEF StartKeypair, Fresh, KInv, FilesOK, ProcessesOK, Early, Reserved,
       At, Goes, files, memory
<1>4. CASE CountSlot(p)
  BY <1>4, Known DEF CountSlot, KInv, FilesOK, ProcessesOK, Early, Reserved, At, Goes,
       files, memory
<1>5. CASE Counted(p)
  BY <1>5, Known DEF Counted, KInv, FilesOK, ProcessesOK, Early, Reserved, At, Goes,
       files, memory
<1>6. CASE CreateKey(p)
  BY <1>6, Known DEF CreateKey, KInv, FilesOK, ProcessesOK, Early, Reserved, At, Goes,
       files, memory
<1>7. CASE WriteKey(p)
  BY <1>7, Known DEF WriteKey, KInv, FilesOK, ProcessesOK, Early, Reserved, At, Goes,
       files, memory
<1>8. CASE KeypairFails(p)
  BY <1>8, Known DEF KeypairFails, Leaves, KInv, FilesOK, ProcessesOK, Early, Reserved,
       At, Goes, files, memory
<1>9. CASE UsesKeys(p)
  BY <1>9, Known DEF UsesKeys, ReadKey, MoreKeys, ReadAll, Publish, Payload, Leaves,
       ReadFails, Search, EndRestore, KInv, FilesOK, ProcessesOK, Early, Reserved, At,
       Goes, files, memory
<1>10. CASE Crash(p)
  BY <1>10, Known DEF Crash, Leaves, KInv, FilesOK, ProcessesOK, Early, Reserved, At,
       Goes, files, memory
<1>. QED BY <1>1, <1>2, <1>3, <1>4, <1>5, <1>6, <1>7, <1>8, <1>9, <1>10 DEF Step, AddsKey

(* A key file is created where the counting met the first gap, and no file  *)
(* is ever removed (getKeyFiles(), storeKeyPair()).                         *)
LEMMA GaplessStep ==
  ASSUME KInv, NEW p \in Process, Step(p)
  PROVE  Gapless'
<1>1. CASE Creates(p)
  <2>1. slot' = slot
    BY <1>1 DEF Creates, StartInit, MakeDir, DirsMade, CreateUuid, WriteUuid, CreateArgs,
         WriteArgs, CreateFails, files
  <2>2. ASSUME NEW q \in Process,
               pc'[q] \in {"count", "create_key", "write_key", "read_keys"}
        PROVE  n'[q] = 0 \/ (pc'[q] = pc[q] /\ n'[q] = n[q])
    BY <1>1, <2>2 DEF Creates, StartInit, MakeDir, DirsMade, CreateUuid, WriteUuid,
         CreateArgs, WriteArgs, CreateFails, Leaves, KInv, ProcessesOK, Early, At, Goes,
         memory
  <2>. QED BY <2>1, <2>2 DEF KInv, Gapless
<1>2. CASE Constructs(p)
  <2>1. slot' = slot
    BY <1>2 DEF Constructs, StartSnapshot, StartRestore, StartCommand, OpenLock,
         TakeLock, ReadArgs, OpenFails, files
  <2>2. ASSUME NEW q \in Process,
               pc'[q] \in {"count", "create_key", "write_key", "read_keys"}
        PROVE  n'[q] = 0 \/ (pc'[q] = pc[q] /\ n'[q] = n[q])
    BY <1>2, <2>2 DEF Constructs, StartSnapshot, StartRestore, StartCommand, OpenLock,
         TakeLock, ReadArgs, OpenFails, Leaves, KInv, ProcessesOK, Early, At, Goes, memory
  <2>. QED BY <2>1, <2>2 DEF KInv, Gapless
<1>3. CASE StartKeypair(p)
  BY <1>3, Known DEF StartKeypair, Fresh, KInv, FilesOK, ProcessesOK, Early, Reserved,
       Gapless, Slots, At, Goes, files, memory
<1>4. CASE CountSlot(p)
  BY <1>4, Known DEF CountSlot, KInv, FilesOK, ProcessesOK, Early, Reserved, Gapless,
       Slots, At, Goes, files, memory
<1>5. CASE Counted(p)
  BY <1>5, Known DEF Counted, KInv, FilesOK, ProcessesOK, Early, Reserved, Gapless,
       Slots, At, Goes, files, memory
<1>6. CASE CreateKey(p)
  BY <1>6, Known DEF CreateKey, KInv, FilesOK, ProcessesOK, Early, Reserved, Gapless,
       Slots, At, Goes, files, memory
<1>7. CASE WriteKey(p)
  BY <1>7, Known DEF WriteKey, KInv, FilesOK, ProcessesOK, Early, Reserved, Gapless,
       Slots, At, Goes, files, memory
<1>8. CASE KeypairFails(p)
  BY <1>8, Known DEF KeypairFails, Leaves, KInv, FilesOK, ProcessesOK, Early, Reserved,
       Gapless, Slots, At, Goes, files, memory
<1>9. CASE ReadKey(p)
  BY <1>9, Known DEF ReadKey, MoreKeys, KInv, FilesOK, ProcessesOK, Early, Reserved,
       Gapless, Slots, At, Goes, files, memory
<1>10. CASE ReadAll(p)
  BY <1>10, Known DEF ReadAll, MoreKeys, KInv, FilesOK, ProcessesOK, Early, Reserved,
       Gapless, Slots, At, Goes, files, memory
<1>11. CASE Publish(p)
  BY <1>11, Known DEF Publish, Payload, Leaves, KInv, FilesOK, ProcessesOK, Early,
       Reserved, Gapless, Slots, At, Goes, files, memory
<1>12. CASE ReadFails(p)
  BY <1>12, Known DEF ReadFails, MoreKeys, Leaves, KInv, FilesOK, ProcessesOK, Early,
       Reserved, Gapless, Slots, At, Goes, files, memory
<1>13. CASE Search(p)
  BY <1>13, Known DEF Search, KInv, FilesOK, ProcessesOK, Early, Reserved, Gapless,
       Slots, At, Goes, files, memory
<1>14. CASE EndRestore(p)
  BY <1>14, Known DEF EndRestore, Leaves, KInv, FilesOK, ProcessesOK, Early, Reserved,
       Gapless, Slots, At, Goes, files, memory
<1>15. CASE Crash(p)
  BY <1>15, Known DEF Crash, Leaves, KInv, FilesOK, ProcessesOK, Early, Reserved,
       Gapless, Slots, At, Goes, files, memory
<1>. QED BY <1>1, <1>2, <1>3, <1>4, <1>5, <1>6, <1>7, <1>8, <1>9, <1>10, <1>11,
            <1>12, <1>13, <1>14, <1>15
         DEF Step, AddsKey, UsesKeys

(* A key file that is whole is never written again (storeKeyPair()).        *)
LEMMA KeptStep ==
  ASSUME KInv, NEW p \in Process, Step(p)
  PROVE  Kept'
<1>1. CASE Creates(p)
  BY <1>1, Known DEF Creates, StartInit, MakeDir, DirsMade, CreateUuid, WriteUuid,
       CreateArgs, WriteArgs, CreateFails, Leaves, KInv, FilesOK, ProcessesOK, Reserved,
       Kept, At, Goes, files, memory
<1>2. CASE StartSnapshot(p)
  BY <1>2, Known DEF StartSnapshot, StartCommand, Usable, KInv, FilesOK, ProcessesOK,
       Reserved, Kept, At, Goes, files, memory
<1>3. CASE StartRestore(p)
  BY <1>3, Known DEF StartRestore, StartCommand, Usable, KInv, FilesOK, ProcessesOK,
       Reserved, Kept, At, Goes, files, memory
<1>4. CASE OpenLock(p)
  BY <1>4, Known DEF OpenLock, KInv, FilesOK, ProcessesOK, Reserved, Kept, At, Goes,
       files, memory
<1>5. CASE TakeLock(p)
  BY <1>5, Known DEF TakeLock, KInv, FilesOK, ProcessesOK, Reserved, Kept, At, Goes,
       files, memory
<1>6. CASE ReadArgs(p)
  BY <1>6, Known DEF ReadArgs, Leaves, KInv, FilesOK, ProcessesOK, Reserved, Kept, At,
       Goes, files, memory
<1>7. CASE OpenFails(p)
  BY <1>7, Known DEF OpenFails, Leaves, KInv, FilesOK, ProcessesOK, Reserved, Kept, At,
       Goes, files, memory
<1>8. CASE StartKeypair(p)
  BY <1>8, Known DEF StartKeypair, Fresh, KInv, FilesOK, ProcessesOK, Reserved, Kept, At,
       Goes, files, memory
<1>9. CASE CountSlot(p)
  BY <1>9, Known DEF CountSlot, KInv, FilesOK, ProcessesOK, Reserved, Kept, At, Goes,
       files, memory
<1>10. CASE Counted(p)
  BY <1>10, Known DEF Counted, KInv, FilesOK, ProcessesOK, Reserved, Kept, At, Goes,
       files, memory
<1>11. CASE CreateKey(p)
  BY <1>11, Known DEF CreateKey, KInv, FilesOK, ProcessesOK, Reserved, Kept, At, Goes,
       files, memory
<1>12. CASE WriteKey(p)
  <2>1. n[p] \in Slots /\ slot[n[p]] = Torn /\ slot'[n[p]] = key[p]
    BY <1>12 DEF WriteKey, KInv, FilesOK, ProcessesOK, Reserved, At
  <2>2. ASSUME NEW s \in Slots, slot[s] # Torn
        PROVE  slot'[s] = slot[s]
    BY <1>12, <2>1, <2>2 DEF WriteKey, KInv, FilesOK
  <2>3. ASSUME NEW k \in done'
        PROVE  \E s \in Slots : slot'[s] = k
    <3>1. CASE k = key[p]
      BY <2>1, <3>1
    <3>2. CASE k \in done
      <4>1. PICK s \in Slots : slot[s] = k
        BY <3>2 DEF KInv, Kept
      <4>2. slot[s] # Torn
        BY <3>2, <4>1, Known DEF KInv, FilesOK
      <4>. QED BY <2>2, <4>1, <4>2
    <3>. QED BY <1>12, <2>3, <3>1, <3>2 DEF WriteKey
  <2>4. ASSUME NEW q \in Process, NEW k \in promised'[q]
        PROVE  \E s \in Read : slot'[s] = k
    <3>1. k \in promised[q] /\ k \in Key
      BY <1>12, <2>4 DEF WriteKey, KInv, ProcessesOK
    <3>2. PICK s \in Read : slot[s] = k
      BY <3>1 DEF KInv, Kept
    <3>3. s \in Slots /\ slot[s] # Torn
      BY <3>1, <3>2, Known
    <3>. QED BY <2>2, <3>2, <3>3
  <2>. QED BY <2>3, <2>4 DEF Kept
<1>13. CASE KeypairFails(p)
  BY <1>13, Known DEF KeypairFails, Leaves, KInv, FilesOK, ProcessesOK, Reserved, Kept,
       At, Goes, files, memory
<1>14. CASE UsesKeys(p)
  BY <1>14, Known DEF UsesKeys, ReadKey, MoreKeys, ReadAll, Publish, Payload, Leaves,
       ReadFails, Search, EndRestore, KInv, FilesOK, ProcessesOK, Reserved, Kept, At,
       Goes, files, memory
<1>15. CASE Crash(p)
  BY <1>15, Known DEF Crash, Leaves, KInv, FilesOK, ProcessesOK, Reserved, Kept, At,
       Goes, files, memory
<1>. QED BY <1>1, <1>2, <1>3, <1>4, <1>5, <1>6, <1>7, <1>8, <1>9, <1>10, <1>11,
            <1>12, <1>13, <1>14, <1>15
         DEF Step, Constructs, AddsKey

(* readKeyPairs() reads every key pair that was promised, and the payload   *)
(* has an entry for each that it read (encryptToFd()).                      *)
LEMMA ReadingStep ==
  ASSUME KInv, NEW p \in Process, Step(p)
  PROVE  Reading'
<1>1. CASE Creates(p)
  BY <1>1, Known DEF Creates, StartInit, MakeDir, DirsMade, CreateUuid, WriteUuid,
       CreateArgs, WriteArgs, CreateFails, Leaves, KInv, FilesOK, ProcessesOK, Early,
       Reserved, Reading, At, Goes, files, memory
<1>2. CASE Constructs(p)
  BY <1>2, Known DEF Constructs, StartSnapshot, StartCommand, Usable, StartRestore,
       OpenLock, TakeLock, ReadArgs, Leaves, OpenFails, KInv, FilesOK, ProcessesOK,
       Early, Reserved, Reading, At, Goes, files, memory
<1>3. CASE StartKeypair(p)
  BY <1>3, Known DEF StartKeypair, Fresh, KInv, FilesOK, ProcessesOK, Early, Reserved,
       Reading, At, Goes, files, memory
<1>4. CASE CountSlot(p)
  BY <1>4, Known DEF CountSlot, KInv, FilesOK, ProcessesOK, Early, Reserved, Reading, At,
       Goes, files, memory
<1>5. CASE Counted(p)
  BY <1>5, Known DEF Counted, KInv, FilesOK, ProcessesOK, Early, Reserved, Reading, At,
       Goes, files, memory
<1>6. CASE CreateKey(p)
  BY <1>6, Known DEF CreateKey, KInv, FilesOK, ProcessesOK, Early, Reserved, Reading, At,
       Goes, files, memory
<1>7. CASE WriteKey(p)
  BY <1>7, Known DEF WriteKey, KInv, FilesOK, ProcessesOK, Early, Reserved, Reading, At,
       Goes, files, memory
<1>8. CASE KeypairFails(p)
  BY <1>8, Known DEF KeypairFails, Leaves, KInv, FilesOK, ProcessesOK, Early, Reserved,
       Reading, At, Goes, files, memory
<1>9. CASE ReadKey(p)
  <2>1. n[p] \in Slots /\ n'[p] = n[p] + 1 /\ found'[p] = found[p] \cup {slot[n[p]]}
    BY <1>9 DEF ReadKey, KInv, ProcessesOK
  <2>2. ASSUME NEW t \in 0..(n'[p] - 1)
        PROVE  slot[t] \in found'[p]
    <3>1. t = n[p] \/ t \in 0..(n[p] - 1)
      BY <2>1, <2>2, KeySlotsAssumption DEF Slots
    <3>2. \A u \in 0..(n[p] - 1) : slot[u] \in found[p]
      BY <1>9 DEF ReadKey, At, KInv, Reading
    <3>. QED BY <2>1, <3>1, <3>2
  <2>3. ASSUME NEW q \in Process, q # p
        PROVE  n'[q] = n[q] /\ found'[q] = found[q]
    BY <1>9, <2>3 DEF ReadKey, KInv, ProcessesOK
  <2>4. /\ pc' = pc /\ slot' = slot /\ payloads' = payloads /\ promised' = promised
        /\ pc[p] = "read_keys"
    BY <1>9 DEF ReadKey, At, files
  <2>. QED BY <2>2, <2>3, <2>4 DEF KInv, Reading, At
<1>10. CASE ReadAll(p)
  <2>1. n[p] \in Slots /\ \A t \in 0..(n[p] - 1) : slot[t] \in found[p]
    BY <1>10 DEF ReadAll, At, KInv, ProcessesOK, Reading
  <2>2. ASSUME NEW k \in promised[p]
        PROVE  k \in found[p]
    <3>1. PICK s \in Read : slot[s] = k
      BY <2>2 DEF KInv, Kept
    <3>2. k # NoFile
      BY <2>2, Known DEF KInv, ProcessesOK
    <3>3. \A t \in 0..s : slot[t] # NoFile
      BY <3>1, <3>2, Known DEF KInv, Gapless
    <3>4. n[p] = MaxKeySlots \/ slot[n[p]] = NoFile
      BY <1>10, <2>1, KeySlotsAssumption DEF ReadAll, MoreKeys, Slots
    <3>5. s < n[p]
      BY <2>1, <3>3, <3>4, KeySlotsAssumption DEF Read, Slots
    <3>6. s \in 0..(n[p] - 1)
      BY <2>1, <3>5, KeySlotsAssumption DEF Read, Slots
    <3>. QED BY <2>1, <3>1, <3>6
  <2>. QED BY <1>10, <2>2 DEF ReadAll, KInv, ProcessesOK, Reading, At, Goes, files, memory
<1>11. CASE Publish(p)
  BY <1>11, Known DEF Publish, Payload, Leaves, KInv, FilesOK, ProcessesOK, Early,
       Reserved, Reading, At, Goes, files, memory
<1>12. CASE ReadFails(p)
  BY <1>12, Known DEF ReadFails, MoreKeys, Leaves, KInv, FilesOK, ProcessesOK, Early,
       Reserved, Reading, At, Goes, files, memory
<1>13. CASE Search(p)
  BY <1>13, Known DEF Search, KInv, FilesOK, ProcessesOK, Early, Reserved, Reading, At,
       Goes, files, memory
<1>14. CASE EndRestore(p)
  BY <1>14, Known DEF EndRestore, Leaves, KInv, FilesOK, ProcessesOK, Early, Reserved,
       Reading, At, Goes, files, memory
<1>15. CASE Crash(p)
  BY <1>15, Known DEF Crash, Leaves, KInv, FilesOK, ProcessesOK, Early, Reserved,
       Reading, At, Goes, files, memory
<1>. QED BY <1>1, <1>2, <1>3, <1>4, <1>5, <1>6, <1>7, <1>8, <1>9, <1>10, <1>11,
            <1>12, <1>13, <1>14, <1>15
         DEF Step, AddsKey, UsesKeys

(* A restore is given the passphrase of a key pair that exists, so that slot *)
(* 0 is not empty when decryptKeyPair() looks at it, and stays as it is.     *)
LEMMA RestoringStep ==
  ASSUME KInv, NEW p \in Process, Step(p)
  PROVE  Restoring'
<1>1. CASE Creates(p)
  BY <1>1, Known DEF Creates, StartInit, MakeDir, DirsMade, CreateUuid, WriteUuid,
       CreateArgs, WriteArgs, CreateFails, Leaves, KInv, FilesOK, ProcessesOK, Early,
       Reserved, Gapless, Kept, Restoring, Opened, Whole, At, Goes, files, memory
<1>2. CASE StartSnapshot(p)
  BY <1>2, Known DEF StartSnapshot, StartCommand, Usable, KInv, FilesOK, ProcessesOK,
       Early, Reserved, Gapless, Kept, Restoring, Opened, Whole, At, Goes, files, memory
<1>3. CASE StartRestore(p)
  BY <1>3, Known DEF StartRestore, StartCommand, Usable, KInv, FilesOK, ProcessesOK,
       Early, Reserved, Gapless, Kept, Restoring, Opened, Whole, At, Goes, files, memory
<1>4. CASE OpenLock(p)
  BY <1>4, Known DEF OpenLock, KInv, FilesOK, ProcessesOK, Early, Reserved, Gapless,
       Kept, Restoring, Opened, Whole, At, Goes, files, memory
<1>5. CASE TakeLock(p)
  BY <1>5, Known DEF TakeLock, KInv, FilesOK, ProcessesOK, Early, Reserved, Gapless,
       Kept, Restoring, Opened, Whole, At, Goes, files, memory
<1>6. CASE ReadArgs(p)
  BY <1>6, Known DEF ReadArgs, Leaves, KInv, FilesOK, ProcessesOK, Early, Reserved,
       Gapless, Kept, Restoring, Opened, Whole, At, Goes, files, memory
<1>7. CASE OpenFails(p)
  BY <1>7, Known DEF OpenFails, Leaves, KInv, FilesOK, ProcessesOK, Early, Reserved,
       Gapless, Kept, Restoring, Opened, Whole, At, Goes, files, memory
<1>8. CASE StartKeypair(p)
  BY <1>8, Known DEF StartKeypair, Fresh, KInv, FilesOK, ProcessesOK, Early, Reserved,
       Gapless, Kept, Restoring, Opened, Whole, At, Goes, files, memory
<1>9. CASE CountSlot(p)
  BY <1>9, Known DEF CountSlot, KInv, FilesOK, ProcessesOK, Early, Reserved, Gapless,
       Kept, Restoring, Opened, Whole, At, Goes, files, memory
<1>10. CASE Counted(p)
  BY <1>10, Known DEF Counted, KInv, FilesOK, ProcessesOK, Early, Reserved, Gapless,
       Kept, Restoring, Opened, Whole, At, Goes, files, memory
<1>11. CASE CreateKey(p)
  BY <1>11, Known DEF CreateKey, KInv, FilesOK, ProcessesOK, Early, Reserved, Gapless,
       Kept, Restoring, Opened, Whole, At, Goes, files, memory
<1>12. CASE WriteKey(p)
  BY <1>12, Known DEF WriteKey, KInv, FilesOK, ProcessesOK, Early, Reserved, Gapless,
       Kept, Restoring, Opened, Whole, At, Goes, files, memory
<1>13. CASE KeypairFails(p)
  BY <1>13, Known DEF KeypairFails, Leaves, KInv, FilesOK, ProcessesOK, Early, Reserved,
       Gapless, Kept, Restoring, Opened, Whole, At, Goes, files, memory
<1>14. CASE ReadKey(p)
  BY <1>14, Known DEF ReadKey, MoreKeys, KInv, FilesOK, ProcessesOK, Early, Reserved,
       Gapless, Kept, Restoring, Opened, Whole, At, Goes, files, memory
<1>15. CASE ReadAll(p)
  BY <1>15, Known DEF ReadAll, MoreKeys, KInv, FilesOK, ProcessesOK, Early, Reserved,
       Gapless, Kept, Restoring, Opened, Whole, At, Goes, files, memory
<1>16. CASE Publish(p)
  BY <1>16, Known DEF Publish, Payload, Leaves, KInv, FilesOK, ProcessesOK, Early,
       Reserved, Gapless, Kept, Restoring, Opened, Whole, At, Goes, files, memory
<1>17. CASE ReadFails(p)
  BY <1>17, Known DEF ReadFails, MoreKeys, Leaves, KInv, FilesOK, ProcessesOK, Early,
       Reserved, Gapless, Kept, Restoring, Opened, Whole, At, Goes, files, memory
<1>18. CASE Search(p)
  BY <1>18, Known DEF Search, KInv, FilesOK, ProcessesOK, Early, Reserved, Gapless, Kept,
       Restoring, Opened, Whole, At, Goes, files, memory
<1>19. CASE EndRestore(p)
  BY <1>19, Known DEF EndRestore, Leaves, KInv, FilesOK, ProcessesOK, Early, Reserved,
       Gapless, Kept, Restoring, Opened, Whole, At, Goes, files, memory
<1>20. CASE Crash(p)
  BY <1>20, Known DEF Crash, Leaves, KInv, FilesOK, ProcessesOK, Early, Reserved,
       Gapless, Kept, Restoring, Opened, Whole, At, Goes, files, memory
<1>. QED BY <1>1, <1>2, <1>3, <1>4, <1>5, <1>6, <1>7, <1>8, <1>9, <1>10, <1>11,
            <1>12, <1>13, <1>14, <1>15, <1>16, <1>17, <1>18, <1>19, <1>20
         DEF Step, Constructs, AddsKey, UsesKeys

(* An empty directory, or none, is a state in which nobody holds anything.  *)
LEMMA InitKInv == Init => KInv
<1>. SUFFICES ASSUME Init PROVE KInv
  OBVIOUS
<1>1. FilesOK
  <2>1. dirs \in 0..AllDirs /\ crashes \in 0..MaxCrashes
    BY KeySlotsAssumption DEF Init, AllDirs
  <2>2. slot \in [Slots -> {NoFile, Torn} \cup Key]
    BY DEF Init
  <2>. QED BY <2>1, <2>2 DEF Init, FilesOK
<1>2. ProcessesOK
  BY Known DEF Init, ProcessesOK, States, Commands
<1>3. Creation /\ Locking /\ Early /\ Reserved
  BY Known DEF Init, Creation, Locking, Early, Reserved, At, Whole, Opened
<1>4. Gapless /\ Kept /\ Reading /\ Restoring
  BY Known DEF Init, Gapless, Kept, Reading, Restoring, At, Slots, Read
<1>. QED BY <1>1, <1>2, <1>3, <1>4 DEF KInv

(* The invariant is inductive: every step is a step of one process.         *)
LEMMA StepKInv == KInv /\ [Next]_vars => KInv'
<1>. SUFFICES ASSUME KInv, [Next]_vars PROVE KInv'
  OBVIOUS
<1>1. CASE Next
  <2>1. PICK p \in Process : Step(p)
    BY <1>1 DEF Next, Step
  <2>. QED BY <2>1, FilesStep, ProcessStep, CreationStep, LockingStep, EarlyStep,
              ReservedStep, GaplessStep, KeptStep, ReadingStep, RestoringStep DEF KInv
<1>2. CASE UNCHANGED vars
  BY <1>2 DEF vars, files, memory, KInv, FilesOK, ProcessesOK, Creation, Locking, Early, 
              Reserved, Gapless, Kept, Reading, Restoring, At, Whole
<1>. QED BY <1>1, <1>2

(* The files, the lock and what every process remembers agree at every step *)
(* of any number of commands on one repository.                             *)
THEOREM Invariance == Spec => []KInv
BY InitKInv, StepKInv, PTL DEF Spec

(* No key file is written that is not torn, and none by two processes       *)
(* (storeKeyPair()).                                                        *)
THEOREM KeyFilesTyped == Spec => []TypeOK
<1>1. KInv => TypeOK
  BY DEF KInv, Reserved, TypeOK
<1>. QED BY Invariance, <1>1, PTL

(* However init-keypair commands interleave and wherever they are killed,   *)
(* the key of one that succeeded stays where a search can reach it.         *)
THEOREM KeysReachable == Spec => []KeysStayReachable
<1>1. KInv => KeysStayReachable
  <2>. SUFFICES ASSUME KInv, NEW k \in done
                PROVE  \E s \in Slots : slot[s] = k /\ \A t \in 0..s : slot[t] # NoFile
    BY DEF KeysStayReachable
  <2>1. PICK s \in Slots : slot[s] = k
    BY DEF KInv, Kept
  <2>2. slot[s] # NoFile
    BY <2>1, Known DEF KInv, FilesOK
  <2>. QED BY <2>1, <2>2 DEF KInv, Gapless
<1>. QED BY Invariance, <1>1, PTL

(* Every payload can be decrypted with every key pair that was usable when  *)
(* its snapshot command was started (readKeyPairs(), encryptToFd()).        *)
THEOREM PromisesKept == Spec => []PromisedKeysOpen
<1>1. KInv => PromisedKeysOpen
  BY DEF KInv, Reading, PromisedKeysOpen
<1>. QED BY Invariance, <1>1, PTL

(* Of any number of init commands on one directory, the one that writes     *)
(* initargs is the one that wrote the uuid (createRepository()).            *)
THEOREM CreatorIsAlone == Spec => []OneCreator
<1>1. KInv => OneCreator
  BY DEF KInv, Creation, OneCreator
<1>. QED BY Invariance, <1>1, PTL

(* Nobody gets through the constructor of RepositoryStructure in a          *)
(* repository that is not complete, or while somebody else is through.      *)
THEOREM OpenedIsWhole == Spec => []OpensOnlyWhole
<1>1. KInv => OpensOnlyWhole
  <2>. SUFFICES ASSUME KInv, NEW p \in Process, pc[p] \in Opened
                PROVE  dirs = AllDirs /\ Whole(uuid) /\ Whole(initargs) /\ holder = p
    BY DEF OpensOnlyWhole
  <2>1. Whole(initargs) /\ holder = p
    BY DEF KInv, Locking
  <2>2. uuid \in Process /\ dirs = AllDirs
    BY <2>1, Known DEF KInv, Creation, Whole
  <2>. QED BY <2>1, <2>2, Known DEF Whole
<1>. QED BY Invariance, <1>1, PTL

(* The passphrase of the first slot decrypts every payload that was made    *)
(* since (decryptKeyPair(), decryptFromFd()).                               *)
THEOREM FirstPassphraseEnough == Spec => []FirstPassphraseOpens
<1>1. KInv => FirstPassphraseOpens
  <2>. SUFFICES ASSUME KInv, NEW p \in Process, At(p, "decrypt"), slot[0] = key[p],
                       NEW x \in payloads, key[p] \in x.promised
                PROVE  Opens(p, x)
    BY DEF FirstPassphraseOpens
  <2>1. found[p] = {key[p]}
    BY DEF KInv, Restoring
  <2>2. key[p] \in x.entries
    BY DEF KInv, Reading
  <2>. QED BY <2>1, <2>2 DEF Opens
<1>. QED BY Invariance, <1>1, PTL
=============================================================================
