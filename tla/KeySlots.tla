------------------------------ MODULE KeySlots ------------------------------
(***************************************************************************)
(* A repository directory from its creation on: createRepository(), the    *)
(* constructor that takes the lock and reads initargs, the key files, and  *)
(* what an encrypted payload is encrypted for (RepositoryStructure.cpp,    *)
(* init_keypair(), decryptKeyPair() and store_snapshot() of                *)
(* Controller.cpp, EncryptionUtil.cpp).                                    *)
(*                                                                         *)
(* Several processes run a command each at the same time.  A file is       *)
(* created, and a step later written; a process killed in between leaves   *)
(* it torn, and what is torn does not deserialise.  Every key pair has a   *)
(* passphrase of its own, so a key stands for both.  The snapshot's        *)
(* encrypting child is part of its process here (see Pipeline).            *)
(***************************************************************************)
EXTENDS Naturals, FiniteSets

CONSTANTS
  Process,      \* the processes that run commands on the repository
  Key,          \* key pairs
  NoFile, Torn, \* what a file can be that nobody has written
  Nobody,       \* who holds a lock that is free
  MaxKeySlots,  \* maxKeySlots (255 in the code)
  MaxPayloads,  \* when there are so many, no snapshot is started
  MaxCrashes    \* bound on processes killed

ASSUME KeySlotsAssumption ==
  /\ MaxKeySlots \in Nat \ {0}
  /\ MaxPayloads \in Nat
  /\ MaxCrashes \in Nat
  /\ NoFile # Torn
  /\ {NoFile, Torn} \cap (Key \cup Process) = {}
  /\ Nobody \notin Process

(* readKeyPairs() and decryptKeyPair() look at the first MaxKeySlots; the   *)
(* slot after them can be written all the same.                             *)
Slots == 0..MaxKeySlots
Read  == 0..(MaxKeySlots - 1)

(* The repository itself, then its three subdirectories, in the order in    *)
(* which they are made.                                                     *)
AllDirs == 4

Commands == {"init", "keypair", "snapshot", "restore"}
Opened   == {"read_keys", "search", "publish", "decrypt"}
States   == {"idle", "make_dirs", "create_uuid", "write_uuid", "create_args",
             "write_args", "open_lock", "take_lock", "read_args", "count",
             "create_key", "write_key"} \cup Opened

Payload == [entries : SUBSET Key, promised : SUBSET Key]

VARIABLES
  dirs,      \* how many of the directories there are
  lockfile,  \* the lock file is there
  uuid, initargs,  \* NoFile, Torn, or the process whose file it is
  slot,      \* the key files: NoFile, Torn or a key
  payloads,  \* what is published: whom it is encrypted for, and whom it had to be
  holder,    \* who holds the lock
  done,      \* keys whose init-keypair has succeeded
  pc, cmd,   \* where each process is, and in which command
  key,       \* the key it makes, or whose passphrase it was given
  n,         \* the slot that it looks at next
  found,     \* keys that it has read (snapshot), or opened (restore)
  promised,  \* keys that were usable when its command started
  crashes

files  == <<dirs, lockfile, uuid, initargs, slot, payloads>>
memory == <<cmd, key, n, found, promised>>
vars   == <<files, holder, done, pc, memory, crashes>>

Init == /\ dirs \in {0, 1}  \* nothing, or an empty directory made by the user
        /\ lockfile = FALSE
        /\ uuid = NoFile /\ initargs = NoFile
        /\ slot = [s \in Slots |-> NoFile]
        /\ payloads = {}
        /\ holder = Nobody
        /\ done = {}
        /\ pc = [p \in Process |-> "idle"]
        /\ cmd = [p \in Process |-> "init"]
        /\ key = [p \in Process |-> NoFile]
        /\ n = [p \in Process |-> 0]
        /\ found = [p \in Process |-> {}]
        /\ promised = [p \in Process |-> {}]
        /\ crashes = 0

At(p, where)   == pc[p] = where
Goes(p, where) == pc' = [pc EXCEPT ![p] = where]

(* A command that ends, by returning, by an exception or by being killed,   *)
(* closes the lock file, and the lock goes with it.                         *)
Leaves(p) == /\ pc' = [pc EXCEPT ![p] = "idle"]
             /\ cmd' = [cmd EXCEPT ![p] = "init"]
             /\ key' = [key EXCEPT ![p] = NoFile]
             /\ n' = [n EXCEPT ![p] = 0]
             /\ found' = [found EXCEPT ![p] = {}]
             /\ promised' = [promised EXCEPT ![p] = {}]
             /\ holder' = IF holder = p THEN Nobody ELSE holder

Whole(file) == file \notin {NoFile, Torn}
Usable      == {k \in done : \E s \in Read : slot[s] = k}

(* The definitions named Faulty... are slips that the code could contain;   *)
(* put in the place of the definition after them, each makes a property     *)
(* below fail.                                                              *)
-----------------------------------------------------------------------------
(* init: createRepository().                                                *)

StartInit(p) ==
  /\ At(p, "idle")
  /\ dirs <= 1 /\ ~ lockfile
  /\ uuid = NoFile /\ initargs = NoFile
  /\ Goes(p, "make_dirs")
  /\ UNCHANGED <<files, holder, done, memory, crashes>>

MakeDir(p) ==
  /\ At(p, "make_dirs")
  /\ dirs < AllDirs
  /\ dirs' = dirs + 1
  /\ UNCHANGED <<lockfile, uuid, initargs, slot, payloads, holder, done, pc, memory, crashes>>

DirsMade(p) ==
  /\ At(p, "make_dirs")
  /\ dirs = AllDirs
  /\ Goes(p, "create_uuid")
  /\ UNCHANGED <<files, holder, done, memory, crashes>>

(* writefile(..., must_create): O_CREAT|O_EXCL.                             *)
(* Faulty: O_TRUNC in its place. *)
FaultyCreateUuid(p) ==
  /\ At(p, "create_uuid")
  /\ uuid' = Torn
  /\ Goes(p, "write_uuid")
  /\ UNCHANGED <<dirs, lockfile, initargs, slot, payloads, holder, done, memory, crashes>>

CreateUuid(p) ==
  /\ At(p, "create_uuid")
  /\ uuid = NoFile
  /\ uuid' = Torn
  /\ Goes(p, "write_uuid")
  /\ UNCHANGED <<dirs, lockfile, initargs, slot, payloads, holder, done, memory, crashes>>

WriteUuid(p) ==
  /\ At(p, "write_uuid")
  /\ uuid' = p
  /\ Goes(p, "create_args")
  /\ UNCHANGED <<dirs, lockfile, initargs, slot, payloads, holder, done, memory, crashes>>

CreateArgs(p) ==
  /\ At(p, "create_args")
  /\ initargs = NoFile
  /\ initargs' = Torn
  /\ Goes(p, "write_args")
  /\ UNCHANGED <<dirs, lockfile, uuid, slot, payloads, holder, done, memory, crashes>>

WriteArgs(p) ==
  /\ At(p, "write_args")
  /\ initargs' = p
  /\ Goes(p, "open_lock")
  /\ UNCHANGED <<dirs, lockfile, uuid, slot, payloads, holder, done, memory, crashes>>

(* Somebody else has created the file. *)
CreateFails(p) ==
  /\ \/ At(p, "create_uuid") /\ uuid # NoFile
     \/ At(p, "create_args") /\ initargs # NoFile
  /\ Leaves(p)
  /\ UNCHANGED <<files, done, crashes>>

-----------------------------------------------------------------------------
(* The constructor of RepositoryStructure, for init and for every command   *)
(* with a driver (DriverRequiringCommand::on_enter()).                      *)

StartCommand(p, c, k) ==
  /\ At(p, "idle")
  /\ cmd' = [cmd EXCEPT ![p] = c]
  /\ key' = [key EXCEPT ![p] = k]
  /\ promised' = [promised EXCEPT ![p] = Usable]
  /\ Goes(p, "open_lock")
  /\ UNCHANGED <<files, holder, done, n, found, crashes>>

StartSnapshot(p) == /\ Cardinality(payloads) < MaxPayloads
                    /\ StartCommand(p, "snapshot", NoFile)
StartRestore(p)  == \E k \in done : StartCommand(p, "restore", k)

(* O_CREAT: it is created in any directory there is. *)
OpenLock(p) ==
  /\ At(p, "open_lock")
  /\ dirs >= 1
  /\ lockfile' = TRUE
  /\ Goes(p, "take_lock")
  /\ UNCHANGED <<dirs, uuid, initargs, slot, payloads, holder, done, memory, crashes>>

(* F_OFD_SETLKW *)
TakeLock(p) ==
  /\ At(p, "take_lock")
  /\ holder = Nobody
  /\ holder' = p
  /\ Goes(p, "read_args")
  /\ UNCHANGED <<files, done, memory, crashes>>

(* Faulty: a file that is there is taken for whole. *)
FaultyReadArgs(p) ==
  /\ At(p, "read_args")
  /\ initargs # NoFile
  /\ IF cmd[p] = "init"
       THEN Leaves(p)
       ELSE Goes(p, IF cmd[p] = "snapshot" THEN "read_keys" ELSE "search")
              /\ UNCHANGED <<memory, holder>>
  /\ UNCHANGED <<files, done, crashes>>

(* The command that created the repository ends with this. *)
ReadArgs(p) ==
  /\ At(p, "read_args")
  /\ Whole(initargs)
  /\ IF cmd[p] = "init"
       THEN Leaves(p)
       ELSE Goes(p, IF cmd[p] = "snapshot" THEN "read_keys" ELSE "search")
              /\ UNCHANGED <<memory, holder>>
  /\ UNCHANGED <<files, done, crashes>>

OpenFails(p) ==
  /\ \/ At(p, "open_lock") /\ dirs = 0
     \/ At(p, "read_args") /\ ~ Whole(initargs)
  /\ Leaves(p)
  /\ UNCHANGED <<files, done, crashes>>

-----------------------------------------------------------------------------
(* init-keypair: generateFromPassphrase(), storeKeyPair().  It takes no     *)
(* lock and reads no initargs.                                              *)

Fresh(k) == /\ k \notin done
            /\ \A p \in Process : key[p] # k
            /\ \A s \in Slots : slot[s] # k

StartKeypair(p) ==
  /\ At(p, "idle")
  /\ \E k \in Key : /\ Fresh(k)
                    /\ key' = [key EXCEPT ![p] = k]
  /\ cmd' = [cmd EXCEPT ![p] = "keypair"]
  /\ Goes(p, "count")
  /\ UNCHANGED <<files, holder, done, n, found, promised, crashes>>

(* getKeyFiles(): one file after the other, up to the first that is not     *)
(* there.                                                                   *)
CountSlot(p) ==
  /\ At(p, "count")
  /\ dirs = AllDirs
  /\ n[p] < MaxKeySlots /\ slot[n[p]] # NoFile
  /\ n' = [n EXCEPT ![p] = @ + 1]
  /\ UNCHANGED <<files, holder, done, pc, cmd, key, found, promised, crashes>>

Counted(p) ==
  /\ At(p, "count")
  /\ dirs = AllDirs
  /\ n[p] = MaxKeySlots \/ slot[n[p]] = NoFile
  /\ Goes(p, "create_key")
  /\ UNCHANGED <<files, holder, done, memory, crashes>>

(* Faulty: created without O_EXCL. *)
FaultyCreateKey(p) ==
  /\ At(p, "create_key")
  /\ slot' = [slot EXCEPT ![n[p]] = Torn]
  /\ Goes(p, "write_key")
  /\ UNCHANGED <<dirs, lockfile, uuid, initargs, payloads, holder, done, memory, crashes>>

CreateKey(p) ==
  /\ At(p, "create_key")
  /\ slot[n[p]] = NoFile
  /\ slot' = [slot EXCEPT ![n[p]] = Torn]
  /\ Goes(p, "write_key")
  /\ UNCHANGED <<dirs, lockfile, uuid, initargs, payloads, holder, done, memory, crashes>>

WriteKey(p) ==
  /\ At(p, "write_key")
  /\ slot' = [slot EXCEPT ![n[p]] = key[p]]
  /\ done' = done \cup {key[p]}
  /\ pc' = [pc EXCEPT ![p] = "idle"]
  /\ cmd' = [cmd EXCEPT ![p] = "init"]
  /\ key' = [key EXCEPT ![p] = NoFile]
  /\ n' = [n EXCEPT ![p] = 0]
  /\ UNCHANGED <<dirs, lockfile, uuid, initargs, payloads, holder, found, promised, crashes>>

(* No keys directory, or another init-keypair has been faster. *)
KeypairFails(p) ==
  /\ \/ At(p, "count") /\ dirs < AllDirs
     \/ At(p, "create_key") /\ slot[n[p]] # NoFile
  /\ Leaves(p)
  /\ UNCHANGED <<files, done, crashes>>

-----------------------------------------------------------------------------
(* snapshot: readKeyPairs() in the encrypting child, encryptToFd().         *)

(* Faulty: a callback that returns true, as decryptKeyPair()'s does. *)
FaultyMoreKeys(p) == n[p] < 1 /\ slot[n[p]] # NoFile

MoreKeys(p) == n[p] < MaxKeySlots /\ slot[n[p]] # NoFile

ReadKey(p) ==
  /\ At(p, "read_keys")
  /\ MoreKeys(p) /\ slot[n[p]] # Torn
  /\ found' = [found EXCEPT ![p] = @ \cup {slot[n[p]]}]
  /\ n' = [n EXCEPT ![p] = @ + 1]
  /\ UNCHANGED <<files, holder, done, pc, cmd, key, promised, crashes>>

ReadAll(p) ==
  /\ At(p, "read_keys")
  /\ ~ MoreKeys(p)
  /\ Goes(p, "publish")
  /\ UNCHANGED <<files, holder, done, memory, crashes>>

Publish(p) ==
  LET new == [entries |-> found[p], promised |-> promised[p]]
  IN /\ At(p, "publish")
     /\ payloads' = payloads \cup {new}
     /\ Leaves(p)
     /\ UNCHANGED <<dirs, lockfile, uuid, initargs, slot, done, crashes>>

(* A key file that does not deserialise, being written or torn. *)
ReadFails(p) ==
  /\ \/ At(p, "read_keys") /\ MoreKeys(p) /\ slot[n[p]] = Torn
     \/ At(p, "search") /\ slot[0] = Torn
  /\ Leaves(p)
  /\ UNCHANGED <<files, done, crashes>>

-----------------------------------------------------------------------------
(* restore: decryptKeyPair(), whose callback returns true at the first key  *)
(* file, whether the passphrase has opened it or not.                       *)

(* Faulty: the key pair read last is kept. *)
FaultySearch(p) ==
  /\ At(p, "search")
  /\ slot[0] # Torn
  /\ found' = [found EXCEPT ![p] =
                 {slot[CHOOSE s \in Read : \/ s = MaxKeySlots - 1
                                          \/ slot[s + 1] = NoFile]} \cap {key[p]}]
  /\ Goes(p, "decrypt")
  /\ UNCHANGED <<files, holder, done, cmd, key, n, promised, crashes>>

Search(p) ==
  /\ At(p, "search")
  /\ slot[0] # Torn
  /\ found' = [found EXCEPT ![p] = {slot[0]} \cap {key[p]}]
  /\ Goes(p, "decrypt")
  /\ UNCHANGED <<files, holder, done, cmd, key, n, promised, crashes>>

(* decryptFromFd(): one of the entries has to be of the key.  Without a     *)
(* key the ciphertext goes to zfs receive, which refuses it.                *)
Opens(p, payload) == found[p] # {} /\ found[p] \subseteq payload.entries

(* The restore succeeds if all the payloads it needs open, and fails at the *)
(* first that does not.                                                     *)
EndRestore(p) ==
  /\ At(p, "decrypt")
  /\ Leaves(p)
  /\ UNCHANGED <<files, done, crashes>>

-----------------------------------------------------------------------------
Crash(p) == /\ ~ At(p, "idle")
            /\ crashes < MaxCrashes
            /\ crashes' = crashes + 1
            /\ Leaves(p)
            /\ UNCHANGED <<files, done>>

Creates(p) == \/ StartInit(p) \/ MakeDir(p) \/ DirsMade(p) \/ CreateUuid(p)
              \/ WriteUuid(p) \/ CreateArgs(p) \/ WriteArgs(p) \/ CreateFails(p)
Constructs(p) == \/ StartSnapshot(p) \/ StartRestore(p) \/ OpenLock(p)
                 \/ TakeLock(p) \/ ReadArgs(p) \/ OpenFails(p)
AddsKey(p) == \/ StartKeypair(p) \/ CountSlot(p) \/ Counted(p) \/ CreateKey(p)
              \/ WriteKey(p) \/ KeypairFails(p)
UsesKeys(p) == \/ ReadKey(p) \/ ReadAll(p) \/ Publish(p) \/ ReadFails(p)
               \/ Search(p) \/ EndRestore(p)

Next == \E p \in Process : \/ Creates(p) \/ Constructs(p) \/ AddsKey(p)
                           \/ UsesKeys(p) \/ Crash(p)

Spec == Init /\ [][Next]_vars

-----------------------------------------------------------------------------
FilesOK == /\ dirs \in 0..AllDirs
           /\ lockfile \in BOOLEAN
           /\ uuid \in {NoFile, Torn} \cup Process
           /\ initargs \in {NoFile, Torn} \cup Process
           /\ slot \in [Slots -> {NoFile, Torn} \cup Key]
           /\ payloads \subseteq Payload
           /\ holder \in {Nobody} \cup Process
           /\ done \subseteq Key
           /\ crashes \in 0..MaxCrashes

ProcessesOK == /\ pc \in [Process -> States]
               /\ cmd \in [Process -> Commands]
               /\ key \in [Process -> {NoFile} \cup Key]
               /\ n \in [Process -> Slots]
               /\ found \in [Process -> SUBSET Key]
               /\ promised \in [Process -> SUBSET Key]

(* A key file is written only while it is torn, and never by two processes  *)
(* (storeKeyPair()); processes count slots that exist (withKeyFiles()).     *)
TypeOK == /\ FilesOK
          /\ ProcessesOK
          /\ \A p \in Process : At(p, "write_key") => slot[n[p]] = Torn

(* No init-keypair that has succeeded is undone by another that ran at the  *)
(* same time or was cut short: its key file is there, and nothing that      *)
(* stops a search comes before it (storeKeyPair() holds no lock).           *)
KeysStayReachable ==
  \A k \in done : \E s \in Slots :
    slot[s] = k /\ \A t \in 0..s : slot[t] # NoFile

(* A payload can be decrypted with every key pair that there was, within    *)
(* the slots that are read, when the snapshot command was started, whatever *)
(* init-keypair did meanwhile (readKeyPairs(), encryptToFd()).              *)
PromisedKeysOpen == \A x \in payloads : x.promised \subseteq x.entries

(* Two init commands on one directory: the repository that one of them      *)
(* reports has the uuid that it has written (createRepository(),            *)
(* must_create).                                                            *)
OneCreator == Whole(initargs) => uuid = initargs

(* Whoever gets through the constructor is alone in a repository that is    *)
(* complete, also when it came while the repository was being created, or   *)
(* after that was cut short (initargs are written last and read first).     *)
OpensOnlyWhole ==
  \A p \in Process : pc[p] \in Opened =>
    dirs = AllDirs /\ Whole(uuid) /\ Whole(initargs) /\ holder = p

(* A restore with the passphrase of the first slot decrypts every payload   *)
(* made since that key pair was there (decryptKeyPair(), decryptFromFd()).  *)
FirstPassphraseOpens ==
  \A p \in Process : At(p, "decrypt") /\ slot[0] = key[p] =>
    \A x \in payloads : key[p] \in x.promised => Opens(p, x)

(* decryptKeyPair(): "in either case, the correct course of action is to    *)
(* continue to try other slots"; README.md: "supports multiple key slots".  *)
AnyPassphraseOpens ==
  \A p \in Process : At(p, "decrypt") /\ key[p] \in promised[p] =>
    \A x \in payloads : key[p] \in x.promised => Opens(p, x)
=============================================================================
