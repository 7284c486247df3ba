------------------------------ MODULE Pipeline ------------------------------
(***************************************************************************)
(* The processes of one command around one stream (store_snapshot(),       *)
(* withDecryptedInput() and export_repository() of Controller.cpp,         *)
(* systemvp3(), PidOwner, FdOwner): the diffmonger process ("parent"), its *)
(* encrypting or decrypting child ("coder") and the program it runs        *)
(* ("program": zfs send, zfs receive, or the import command of an export). *)
(*                                                                         *)
(*   store,   encrypted:  program --pipe--> coder --> temporary payload    *)
(*   store,   plain:      program --> temporary payload                    *)
(*   restore, encrypted:  payload --> coder --pipe--> program              *)
(*   restore, plain:      payload --> program                              *)
(*   export:              parent --pipe--> program                         *)
(*                                                                         *)
(* A descriptor is a kind of open file; a process that has ended has none. *)
(* The lock of the repository belongs to an open file (F_OFD_SETLKW), so   *)
(* it is held as long as any process has that file open.                   *)
(***************************************************************************)
EXTENDS Naturals

CONSTANTS
  Blocks,      \* the length of the whole stream
  Capacity,    \* how many blocks the pipe takes
  MaxFaults    \* bound on processes killed or failing, fork and exec included

ASSUME PipelineAssumption == /\ Blocks \in Nat \ {0}
                             /\ Capacity \in Nat \ {0}
                             /\ MaxFaults \in Nat

Children  == {"coder", "program"}
Processes == {"parent"} \cup Children

(* The two ends of the pipe of the stream, the end of the pipe by which a   *)
(* child reports that execvp() failed, and the lock file.                   *)
Descriptors == {"read", "write", "status", "lock"}

(* A stored payload may have been cut short: blocks of the stream, then the *)
(* final tag, if it is encrypted.  The repository that an export's command  *)
(* imports into may be the same that is exported.                           *)
Jobs == [kind : {"store"}, encrypted : BOOLEAN, blocks : {0}, tag : {FALSE},
         same : {FALSE}]
          \cup [kind : {"restore"}, encrypted : BOOLEAN, blocks : 0..Blocks,
                tag : BOOLEAN, same : {FALSE}]
          \cup [kind : {"export"}, encrypted : {FALSE}, blocks : {0}, tag : {FALSE},
                same : BOOLEAN]

ParentStates == {"encode", "drop", "fork", "hand_over", "listen", "send",
                 "wait_program", "wait_coder", "publish", "unwind"}
ChildStates  == {"drop", "exec", "lock", "work"}
Ended        == {"ok", "failed", "killed"}

VARIABLES
  job,        \* what the command does; never changes
  pc,         \* where each process is, "none" before it is forked
  fds,        \* the descriptors each process has open
  errno,      \* the child has reported that execvp() failed
  sent,       \* blocks written into the pipe, or into the payload by zfs itself
  got,        \* blocks taken from it by the process that reads
  sealed,     \* the temporary payload ends with the final tag
  published,  \* commit() has been reached
  next,       \* the next command on the same repository
  faults

data == <<sent, got, sealed>>
vars == <<job, pc, fds, errno, data, published, next, faults>>

Running(p)  == pc[p] \notin Ended \cup {"none"}
HasOpen(fd) == \E p \in Processes : fd \in fds[p]

Piped == job.encrypted \/ job.kind = "export"

Init == /\ job \in Jobs
        /\ pc = [p \in Processes |->
                   IF p # "parent" THEN "none"
                   ELSE IF job.encrypted THEN "encode" ELSE "fork"]
        /\ fds = [p \in Processes |-> IF p = "parent" THEN {"lock"} ELSE {}]
        /\ errno = FALSE
        /\ sent = 0 /\ got = 0 /\ sealed = FALSE
        /\ published = FALSE /\ next = "waiting" /\ faults = 0

Goes(p, where) == pc' = [pc EXCEPT ![p] = where]

(* The kernel closes the descriptors of a process that ends. *)
Ends(p, how) == /\ Goes(p, how)
                /\ fds' = [fds EXCEPT ![p] = {}]

(* What an exception on its way out of the function closes: every FdOwner   *)
(* is destroyed before the PidOwner of the coder, which waits.              *)
Throws == /\ Goes("parent", "unwind")
          /\ fds' = [fds EXCEPT !["parent"] = {"lock"}]

(* The definitions named Faulty... are slips that the code could contain;   *)
(* put in the place of the definition after them, each makes a property     *)
(* below fail.                                                              *)
-----------------------------------------------------------------------------
(* The parent, in the order of the code.                                    *)

(* FdPipePair::create(), PidOwner::runInChild(): the child has everything   *)
(* open that the parent has.                                                *)
ForkCoder ==
  /\ pc["parent"] = "encode"
  /\ pc' = [pc EXCEPT !["parent"] = "drop", !["coder"] = "drop"]
  /\ fds' = [fds EXCEPT !["parent"] = {"read", "write", "lock"},
                        !["coder"]  = {"read", "write", "lock"}]
  /\ UNCHANGED <<job, errno, data, published, next, faults>>

(* The end that the coder uses.  The program gets the other one.            *)
CoderEnd   == IF job.kind = "store" THEN "read" ELSE "write"
ProgramEnd == IF job.kind = "store" THEN "write" ELSE "read"

ParentDrops ==
  /\ pc["parent"] = "drop"
  /\ Goes("parent", "fork")
  /\ fds' = [fds EXCEPT !["parent"] = @ \ {CoderEnd}]
  /\ UNCHANGED <<job, errno, data, published, next, faults>>

(* systemvp3(): the status pipe and the fork.  An export makes its pipe     *)
(* just before.                                                             *)
ForkProgram ==
  LET open == fds["parent"] \cup {"status"}
                \cup (IF job.kind = "export" THEN {"read", "write"} ELSE {})
  IN /\ pc["parent"] = "fork"
     /\ pc' = [pc EXCEPT !["parent"] = "hand_over", !["program"] = "exec"]
     /\ fds' = [fds EXCEPT !["parent"] = open, !["program"] = open]
     /\ UNCHANGED <<job, errno, data, published, next, faults>>

(* fork() fails and PidOwner::fork() throws. *)
ForkFails ==
  /\ pc["parent"] \in {"encode", "fork"}
  /\ faults < MaxFaults
  /\ faults' = faults + 1
  /\ Throws
  /\ UNCHANGED <<job, errno, data, published, next>>

(* The descriptors given to the program are closed in the parent. *)
HandOver ==
  /\ pc["parent"] = "hand_over"
  /\ Goes("parent", "listen")
  /\ fds' = [fds EXCEPT !["parent"] = @ \ {"status", ProgramEnd}]
  /\ UNCHANGED <<job, errno, data, published, next, faults>>

(* The status pipe is read to its end. *)
Listen ==
  /\ pc["parent"] = "listen"
  /\ ~ HasOpen("status")
  /\ ~ errno
  /\ Goes("parent", IF job.kind = "export" THEN "send" ELSE "wait_program")
  /\ UNCHANGED <<job, fds, errno, data, published, next, faults>>

ListenFails ==
  /\ pc["parent"] = "listen"
  /\ ~ HasOpen("status")
  /\ errno
  /\ Throws
  /\ UNCHANGED <<job, errno, data, published, next, faults>>

(* The id of the snapshot, written to an import command that still reads:   *)
(* small enough to go into the pipe at once.                                *)
SendId ==
  /\ pc["parent"] = "send"
  /\ HasOpen("read")
  /\ sent' = sent + 1
  /\ Goes("parent", "wait_program")
  /\ fds' = [fds EXCEPT !["parent"] = @ \ {"write"}]
  /\ UNCHANGED <<job, errno, got, sealed, published, next, faults>>

(* The import command has ended already: SIGPIPE, which nothing handles.    *)
SendIdKilled ==
  /\ pc["parent"] = "send"
  /\ ~ HasOpen("read")
  /\ Ends("parent", "killed")
  /\ UNCHANGED <<job, errno, data, published, next, faults>>

WhenDone == IF job.kind = "store" THEN "publish" ELSE "ok"

(* wait_or_throw() of the program. *)
WaitProgram ==
  /\ pc["parent"] = "wait_program"
  /\ pc["program"] = "ok"
  /\ IF job.encrypted THEN Goes("parent", "wait_coder") /\ UNCHANGED fds
     ELSE IF WhenDone = "ok" THEN Ends("parent", "ok")
     ELSE Goes("parent", "publish") /\ UNCHANGED fds
  /\ UNCHANGED <<job, errno, data, published, next, faults>>

(* Faulty: left to the destructor of the coder's PidOwner, which waits but  *)
(* cannot throw.                                                            *)
FaultyWaitCoder ==
  /\ pc["parent"] = "wait_coder"
  /\ ~ Running("coder")
  /\ IF WhenDone = "ok" THEN Ends("parent", "ok")
     ELSE Goes("parent", "publish") /\ UNCHANGED fds
  /\ UNCHANGED <<job, errno, data, published, next, faults>>

(* wait_or_throw() of the coder. *)
WaitCoder ==
  /\ pc["parent"] = "wait_coder"
  /\ pc["coder"] = "ok"
  /\ IF WhenDone = "ok" THEN Ends("parent", "ok")
     ELSE Goes("parent", "publish") /\ UNCHANGED fds
  /\ UNCHANGED <<job, errno, data, published, next, faults>>

(* The exit status is not 0, or the child was killed. *)
WaitThrows ==
  /\ \/ pc["parent"] = "wait_program" /\ pc["program"] \in {"failed", "killed"}
     \/ pc["parent"] = "wait_coder"   /\ pc["coder"]   \in {"failed", "killed"}
  /\ Throws
  /\ UNCHANGED <<job, errno, data, published, next, faults>>

Publish ==
  /\ pc["parent"] = "publish"
  /\ published' = TRUE
  /\ Ends("parent", "ok")
  /\ UNCHANGED <<job, errno, data, next, faults>>

(* Faulty: PidOwner gives the process up instead of waiting for it. *)
FaultyUnwind ==
  /\ pc["parent"] = "unwind"
  /\ Ends("parent", "failed")
  /\ UNCHANGED <<job, errno, data, published, next, faults>>

(* ~PidOwner(): no signal is sent, the child is waited for. *)
Unwind ==
  /\ pc["parent"] = "unwind"
  /\ \A p \in Children : ~ Running(p)
  /\ Ends("parent", "failed")
  /\ UNCHANGED <<job, errno, data, published, next, faults>>

ParentStep == \/ ForkCoder \/ ParentDrops \/ ForkProgram \/ HandOver
              \/ Listen \/ ListenFails \/ SendId \/ SendIdKilled
              \/ WaitProgram \/ WaitCoder \/ WaitThrows \/ Publish \/ Unwind

-----------------------------------------------------------------------------
(* The coder.                                                               *)

(* Faulty: the end of the pipe that it does not use stays open. *)
FaultyCoderDrops == /\ pc["coder"] = "drop"
                    /\ Goes("coder", "work")
                    /\ UNCHANGED <<job, fds, errno, data, published, next, faults>>

CoderDrops ==
  /\ pc["coder"] = "drop"
  /\ Goes("coder", "work")
  /\ fds' = [fds EXCEPT !["coder"] = @ \ {ProgramEnd}]
  /\ UNCHANGED <<job, errno, data, published, next, faults>>

(* A block through the pipe: its reader takes one; its writer puts one when *)
(* there is room.                                                           *)
Takes(p) == /\ pc[p] = "work"
            /\ got < sent
            /\ got' = got + 1
            /\ UNCHANGED <<job, pc, fds, errno, sent, sealed, published, next, faults>>

Puts(p)  == /\ pc[p] = "work"
            /\ HasOpen("read")
            /\ sent < got + Capacity
            /\ sent' = sent + 1
            /\ UNCHANGED <<job, pc, fds, errno, got, sealed, published, next, faults>>

BrokenPipe(p) == /\ pc[p] = "work"
                 /\ ~ HasOpen("read")
                 /\ Ends(p, "killed")
                 /\ UNCHANGED <<job, errno, data, published, next, faults>>

EndOfInput == got = sent /\ ~ HasOpen("write")

(* encryptToFd(): whatever comes is encrypted; at the end of the input, for *)
(* whatever reason it ends, the final tag is written.                       *)
Encrypts == job.kind = "store" /\ Takes("coder")

Seals == /\ job.kind = "store"
         /\ pc["coder"] = "work"
         /\ EndOfInput
         /\ sealed' = TRUE
         /\ Ends("coder", "ok")
         /\ UNCHANGED <<job, errno, sent, got, published, next, faults>>

(* decryptFromFd(): blocks are handed on as they are decrypted; the input   *)
(* must end with the final tag.                                             *)
(* Faulty: one block after the last; the missing tag not noticed. *)
FaultyDecrypts == /\ job.kind = "restore"
                  /\ sent <= job.blocks
                  /\ Puts("coder") \/ BrokenPipe("coder")

FaultyDecryptsLast == /\ job.kind = "restore"
                      /\ pc["coder"] = "work"
                      /\ sent = job.blocks
                      /\ Ends("coder", "ok")
                      /\ UNCHANGED <<job, errno, data, published, next, faults>>

Decrypts == /\ job.kind = "restore"
            /\ sent < job.blocks
            /\ Puts("coder") \/ BrokenPipe("coder")

DecryptsLast == /\ job.kind = "restore"
                /\ pc["coder"] = "work"
                /\ sent = job.blocks
                /\ Ends("coder", IF job.tag THEN "ok" ELSE "failed")
                /\ UNCHANGED <<job, errno, data, published, next, faults>>

CoderStep == CoderDrops \/ Encrypts \/ Seals \/ Decrypts \/ DecryptsLast

-----------------------------------------------------------------------------
(* The program.                                                             *)

(* Faulty: the lock file is opened with O_CLOEXEC. *)
FaultyKeptLock == (IF Piped THEN {ProgramEnd} ELSE {})

(* What is still open after execvp(): stdin and stdout, which mov2() has    *)
(* set, and what was opened without O_CLOEXEC.                              *)
KeptByExec ==
  IF job.kind = "restore"
    THEN fds["program"] \ {"status"}
    ELSE {"lock"} \cup (IF Piped THEN {ProgramEnd} ELSE {})

Execs ==
  /\ pc["program"] = "exec"
  /\ Goes("program", IF job.kind = "export" THEN "lock" ELSE "work")
  /\ fds' = [fds EXCEPT !["program"] = KeptByExec]
  /\ UNCHANGED <<job, errno, data, published, next, faults>>

ExecFails ==
  /\ pc["program"] = "exec"
  /\ faults < MaxFaults
  /\ faults' = faults + 1
  /\ errno' = TRUE
  /\ Ends("program", "failed")
  /\ UNCHANGED <<job, data, published, next>>

(* zfs send *)
SendsToPipe == /\ job.kind = "store" /\ job.encrypted
               /\ sent < Blocks
               /\ Puts("program") \/ BrokenPipe("program")

SendsToFile == /\ job.kind = "store" /\ ~ job.encrypted
               /\ pc["program"] = "work"
               /\ sent < Blocks
               /\ sent' = sent + 1 /\ got' = got + 1
               /\ UNCHANGED <<job, pc, fds, errno, sealed, published, next, faults>>

SendsAll == /\ job.kind = "store"
            /\ pc["program"] = "work"
            /\ sent = Blocks
            /\ Ends("program", "ok")
            /\ UNCHANGED <<job, errno, data, published, next, faults>>

(* zfs receive, which knows the end of a stream when it sees it. *)
ReceivesFromPipe == job.kind = "restore" /\ job.encrypted /\ Takes("program")

ReceivesFromFile == /\ job.kind = "restore" /\ ~ job.encrypted
                    /\ pc["program"] = "work"
                    /\ got < job.blocks
                    /\ sent' = sent + 1 /\ got' = got + 1
                    /\ UNCHANGED <<job, pc, fds, errno, sealed, published, next, faults>>

ReceivesAll == /\ job.kind = "restore"
               /\ pc["program"] = "work"
               /\ got = Blocks
               /\ Ends("program", "ok")
               /\ UNCHANGED <<job, errno, data, published, next, faults>>

ReceivesTooLittle ==
  /\ job.kind = "restore"
  /\ pc["program"] = "work"
  /\ got < Blocks
  /\ IF job.encrypted THEN EndOfInput ELSE got = job.blocks
  /\ Ends("program", "failed")
  /\ UNCHANGED <<job, errno, data, published, next, faults>>

(* The command that an export runs, a diffmonger of its own: it takes the   *)
(* lock of its repository by a file that it opens itself, waiting as long   *)
(* as any process has the old one open, this one included.                  *)
TakesLock == /\ pc["program"] = "lock"
             /\ job.same => ~ HasOpen("lock")
             /\ Goes("program", "work")
             /\ UNCHANGED <<job, fds, errno, data, published, next, faults>>

(* snapshot_import() reads its input to the end; nothing is done without an *)
(* id.                                                                      *)
ReadsId == job.kind = "export" /\ Takes("program")

Imports == /\ job.kind = "export"
           /\ pc["program"] = "work"
           /\ EndOfInput
           /\ Ends("program", IF got = 1 THEN "ok" ELSE "failed")
           /\ UNCHANGED <<job, errno, data, published, next, faults>>

ProgramStep == \/ Execs \/ SendsToPipe \/ SendsToFile \/ SendsAll
               \/ ReceivesFromPipe \/ ReceivesFromFile \/ ReceivesAll
               \/ ReceivesTooLittle \/ TakesLock \/ ReadsId \/ Imports

-----------------------------------------------------------------------------
(* A process is killed, or fails by itself (a full disk, a write that the   *)
(* filesystem refuses, zfs giving up).                                      *)
Dies(p) == /\ Running(p)
           /\ faults < MaxFaults
           /\ faults' = faults + 1
           /\ Ends(p, "killed")
           /\ UNCHANGED <<job, errno, data, published, next>>

(* fcntl(F_OFD_SETLKW) of the next command returns. *)
NextCommand == /\ next = "waiting"
               /\ ~ HasOpen("lock")
               /\ next' = "running"
               /\ UNCHANGED <<job, pc, fds, errno, data, published, faults>>

Fault == ForkFails \/ ExecFails \/ \E p \in Processes : Dies(p)

Next == ParentStep \/ CoderStep \/ ProgramStep \/ NextCommand \/ Fault

Spec == Init /\ [][Next]_vars

(* Every process is scheduled; nothing has to fail. *)
FairSpec == /\ Spec
            /\ WF_vars(ParentStep) /\ WF_vars(CoderStep) /\ WF_vars(ProgramStep)
            /\ WF_vars(NextCommand)

-----------------------------------------------------------------------------
(* A coder and a program are where such processes can be, and the pipe      *)
(* holds no more than it takes (ioutil::write() blocks).                    *)
TypeOK == /\ job \in Jobs
          /\ pc \in [Processes -> ParentStates \cup ChildStates \cup Ended \cup {"none"}]
          /\ pc["parent"] \in ParentStates \cup Ended
          /\ pc["coder"] \in {"none", "drop", "work"} \cup Ended
          /\ pc["program"] \in {"none", "exec", "lock", "work"} \cup Ended
          /\ fds \in [Processes -> SUBSET Descriptors]
          /\ errno \in BOOLEAN
          /\ sent \in 0..Blocks /\ got \in 0..sent
          /\ Piped => sent <= got + Capacity
          /\ sealed \in BOOLEAN /\ published \in BOOLEAN
          /\ next \in {"waiting", "running"}
          /\ faults \in 0..MaxFaults

(* A payload is published only if it holds the whole stream and, encrypted, *)
(* its end (store_snapshot(): "Don't rely on the PidOwner destructor, it    *)
(* can't throw!").  The coder alone cannot tell: it seals whatever came.    *)
CommitsWhole == published => got = Blocks /\ (job.encrypted => sealed)

(* A restore that reports success has received the whole stream from a      *)
(* payload that was decrypted to its final tag (withDecryptedInput()).      *)
RestoresWhole ==
  job.kind = "restore" /\ pc["parent"] = "ok" =>
    got = Blocks /\ job.blocks = Blocks /\ (job.encrypted => job.tag)

(* A command that returns, successfully or not, has waited for all its      *)
(* children (~PidOwner()).                                                  *)
NobodyLeftBehind ==
  pc["parent"] \in {"ok", "failed"} => \A p \in Children : ~ Running(p)

(* The next command begins only when every process of this one has ended,   *)
(* also when the parent was killed and left them: they write to the         *)
(* temporary payload that the next command is going to use (the constructor *)
(* of RepositoryStructure; the lock file has no O_CLOEXEC).                 *)
LockCoversAll == next = "running" => \A p \in Processes : ~ Running(p)

(* An export into the repository that is exported: the command that it runs *)
(* waits for a lock that it has inherited itself.                           *)
WaitsForItself == job.same /\ pc["program"] = "lock"

(* Nobody else waits for ever: whoever fails, the others notice, by the end *)
(* of their input, by SIGPIPE or by an exit status, and the next command    *)
(* gets the lock (comments in store_snapshot(), withDecryptedInput() and    *)
(* export_repository() on what has to be closed).                           *)
EverybodyEnds == <>(next = "running") \/ <>[]WaitsForItself
=============================================================================
