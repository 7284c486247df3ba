---------------------------- MODULE PipelineProofs ----------------------------
(***************************************************************************)
(* Theorems about Pipeline, for every length of the stream, every capacity *)
(* of the pipe and every number of faults.                                 *)
(*                                                                         *)
(* None of the properties is inductive.  What they rest on is who exists   *)
(* at each step of the parent (FamilyInv), which descriptors are open      *)
(* where (DescriptorInv), and what an exit status says about the stream    *)
(* (StreamInv, StatusInv).  The argument that matters: a coder that has    *)
(* sealed a payload has met the end of its input, so nobody can write any  *)
(* more; if then the program, which was the only writer, has ended well,   *)
(* everything that it had to send has been taken.                          *)
(***************************************************************************)
EXTENDS Pipeline, TLAPS

(* TypeOK in two parts: what the processes are doing, and what is counted.  *)
ControlType ==
  /\ job \in Jobs
  /\ pc \in [Processes -> ParentStates \cup ChildStates \cup Ended \cup {"none"}]
  /\ pc["parent"] \in ParentStates \cup Ended
  /\ pc["coder"] \in {"none", "drop", "work"} \cup Ended
  /\ pc["program"] \in {"none", "exec", "lock", "work"} \cup Ended
  /\ fds \in [Processes -> SUBSET Descriptors]
  /\ errno \in BOOLEAN
  /\ sealed \in BOOLEAN /\ published \in BOOLEAN
  /\ next \in {"waiting", "running"}

CountType ==
  /\ sent \in 0..Blocks /\ got \in 0..sent
  /\ Piped => sent <= got + Capacity
  /\ faults \in 0..MaxFaults

BeforeFork == {"encode", "drop", "fork"}

(* Which processes the parent has by now. *)
FamilyInv ==
  /\ pc["coder"] # "none" => job.encrypted
  /\ pc["parent"] = "encode" => job.encrypted /\ pc["coder"] = "none"
  /\ pc["parent"] \in {"drop", "wait_coder"} => job.encrypted
  /\ pc["parent"] \in BeforeFork => pc["program"] = "none"
  /\ pc["parent"] \in ParentStates \ {"encode", "unwind"} =>
       (job.encrypted => pc["coder"] # "none")
  /\ pc["parent"] \in {"hand_over", "listen", "send", "wait_program"} =>
       pc["program"] # "none"
  /\ pc["parent"] = "send" => job.kind = "export"
  /\ pc["parent"] = "publish" => job.kind = "store"
  /\ pc["program"] = "lock" => job.kind = "export"

(* Every process that runs has the lock file open; one that does not has    *)
(* nothing open.  Until the coder has met the end of its input, the other   *)
(* end of its pipe is where it will be written to.                          *)
DescriptorInv ==
  /\ \A p \in Processes : IF Running(p) THEN "lock" \in fds[p] ELSE fds[p] = {}
  /\ job.kind = "store" /\ job.encrypted =>
       /\ pc["parent"] \in {"drop", "fork", "hand_over"} => "write" \in fds["parent"]
       /\ pc["program"] \in {"exec", "work"} => "write" \in fds["program"]

(* What has gone through the pipe when its writer or its reader ends well.  *)
StreamInv ==
  /\ job.kind = "export" /\ pc["parent"] \in {"fork", "hand_over", "listen", "send"} => sent = 0
  /\ ~ job.encrypted /\ job.kind # "export" => sent = got
  /\ job.kind = "restore" => sent <= job.blocks
  /\ job.kind \in {"store", "restore"} /\ pc["program"] = "ok" =>
       IF job.kind = "store" THEN sent = Blocks ELSE got = Blocks
  /\ pc["coder"] = "ok" =>
       IF job.kind = "store"
         THEN /\ sealed /\ got = sent
              /\ pc["parent"] \notin {"encode", "drop", "fork", "hand_over"}
              /\ pc["program"] \notin {"exec", "lock", "work"}
         ELSE sent = job.blocks /\ job.tag

(* What the parent has learnt from the exit statuses. *)
StatusInv ==
  /\ pc["parent"] = "wait_coder" => pc["program"] = "ok"
  /\ pc["parent"] \in {"publish", "ok"} =>
       pc["program"] = "ok" /\ (job.encrypted => pc["coder"] = "ok")
  /\ pc["parent"] = "failed" => \A p \in Children : ~ Running(p)
  /\ published => pc["parent"] = "ok" /\ job.kind = "store"

IInv == TypeOK /\ FamilyInv /\ DescriptorInv /\ StreamInv /\ StatusInv /\ LockCoversAll

-----------------------------------------------------------------------------
(* What the fields of a job can be. *)
LEMMA JobFacts ==
  ASSUME job \in Jobs
  PROVE  /\ job.kind \in {"store", "restore", "export"}
         /\ job.encrypted \in BOOLEAN
         /\ job.blocks \in 0..Blocks
         /\ job.tag \in BOOLEAN
         /\ job.kind = "export" => ~ job.encrypted
<1> DEFINE B == 0..Blocks
<1>0. 0 \in B
  BY PipelineAssumption
<1> HIDE DEF B
<1>1. CASE job \in [kind : {"store"}, encrypted : BOOLEAN, blocks : {0}, tag : {FALSE},
                    same : {FALSE}]
  <2>1. job.kind = "store" /\ job.encrypted \in BOOLEAN /\ job.blocks \in {0} /\ job.tag \in {FALSE}
    BY <1>1
  <2> QED
    BY <2>1, <1>0 DEF B
<1>2. CASE job \in [kind : {"restore"}, encrypted : BOOLEAN, blocks : 0..Blocks,
                    tag : BOOLEAN, same : {FALSE}]
  BY <1>2, PipelineAssumption
<1>3. CASE job \in [kind : {"export"}, encrypted : {FALSE}, blocks : {0}, tag : {FALSE},
                    same : BOOLEAN]
  <2>1. /\ job.kind = "export" /\ job.encrypted \in {FALSE} /\ job.blocks \in {0}
        /\ job.tag \in {FALSE}
    BY <1>3
  <2> QED
    BY <2>1, <1>0 DEF B
<1> QED
  BY <1>1, <1>2, <1>3 DEF Jobs

(* TypeOK is its two parts. *)
LEMMA TypeParts == TypeOK <=> ControlType /\ CountType
BY DEF TypeOK, ControlType, CountType

(* What the command has to do (runEncrypted() or not, the payload it meets) *)
(* is settled before it starts; no system call of any process changes it.   *)
LEMMA JobStays == Next => UNCHANGED job
BY DEF Next, ParentStep, CoderStep, ProgramStep, Fault, ForkCoder,
       ParentDrops, ForkProgram, ForkFails, HandOver, Listen,
       ListenFails, SendId, SendIdKilled, WaitProgram, WaitCoder,
       WaitThrows, Publish, Unwind, CoderDrops, Encrypts, Seals, Decrypts,
       DecryptsLast, Execs, ExecFails, SendsToPipe, SendsToFile, SendsAll,
       ReceivesFromPipe, ReceivesFromFile, ReceivesAll, ReceivesTooLittle,
       TakesLock, ReadsId, Imports, NextCommand, Dies, Takes, Puts, BrokenPipe

(* Every system call of the parent, of the encrypting or decrypting child and *)
(* of the program leaves its process at a known place.                      *)
LEMMA ControlTypeStep ==
  ASSUME ControlType, Next
  PROVE  ControlType'
<1> USE DEF ControlType, Descriptors, ParentStates, ChildStates, Ended, data,
            KeptByExec, CoderEnd, ProgramEnd, WhenDone, Processes, Children, Goes,
            Ends, Throws, Takes, Puts, BrokenPipe
<1>1. CASE ForkCoder
  BY <1>1 DEF ForkCoder
<1>2. CASE ParentDrops
  BY <1>2 DEF ParentDrops
<1>3. CASE ForkProgram
  BY <1>3 DEF ForkProgram
<1>4. CASE ForkFails
  BY <1>4 DEF ForkFails
<1>5. CASE HandOver
  BY <1>5 DEF HandOver
<1>6. CASE Listen
  BY <1>6 DEF Listen
<1>7. CASE ListenFails
  BY <1>7 DEF ListenFails
<1>8. CASE SendId
  BY <1>8 DEF SendId
<1>9. CASE SendIdKilled
  BY <1>9 DEF SendIdKilled
<1>10. CASE WaitProgram
  <2>1. CASE job.encrypted
    BY <1>10, <2>1 DEF WaitProgram
  <2>2. CASE ~ job.encrypted /\ WhenDone = "ok"
    BY <1>10, <2>2 DEF WaitProgram
  <2>3. CASE ~ job.encrypted /\ WhenDone = "publish"
    BY <1>10, <2>3 DEF WaitProgram
  <2> QED
    BY <1>10, <2>1, <2>2, <2>3 DEF WhenDone
<1>11. CASE WaitCoder
  <2>1. CASE WhenDone = "ok"
    BY <1>11, <2>1 DEF WaitCoder
  <2>2. CASE WhenDone = "publish"
    BY <1>11, <2>2 DEF WaitCoder
  <2> QED
    BY <1>11, <2>1, <2>2 DEF WhenDone
<1>12. CASE WaitThrows
  BY <1>12 DEF WaitThrows
<1>13. CASE Publish
  BY <1>13 DEF Publish
<1>14. CASE Unwind
  BY <1>14 DEF Unwind
<1>15. CASE CoderDrops
  BY <1>15 DEF CoderDrops
<1>16. CASE Encrypts
  BY <1>16 DEF Encrypts
<1>17. CASE Seals
  BY <1>17 DEF Seals
<1>18. CASE Decrypts
  <2>1. CASE Puts("coder")
    BY <1>18, <2>1 DEF Decrypts
  <2>2. CASE BrokenPipe("coder")
    BY <1>18, <2>2 DEF Decrypts
  <2> QED
    BY <1>18, <2>1, <2>2 DEF Decrypts
<1>19. CASE DecryptsLast
  BY <1>19 DEF DecryptsLast
<1>20. CASE Execs
  BY <1>20 DEF Execs
<1>21. CASE ExecFails
  BY <1>21 DEF ExecFails
<1>22. CASE SendsToPipe
  <2>1. CASE Puts("program")
    BY <1>22, <2>1 DEF SendsToPipe
  <2>2. CASE BrokenPipe("program")
    BY <1>22, <2>2 DEF SendsToPipe
  <2> QED
    BY <1>22, <2>1, <2>2 DEF SendsToPipe
<1>23. CASE SendsToFile
  BY <1>23 DEF SendsToFile
<1>24. CASE SendsAll
  BY <1>24 DEF SendsAll
<1>25. CASE ReceivesFromPipe
  BY <1>25 DEF ReceivesFromPipe
<1>26. CASE ReceivesFromFile
  BY <1>26 DEF ReceivesFromFile
<1>27. CASE ReceivesAll
  BY <1>27 DEF ReceivesAll
<1>28. CASE ReceivesTooLittle
  BY <1>28 DEF ReceivesTooLittle
<1>29. CASE TakesLock
  BY <1>29 DEF TakesLock
<1>30. CASE ReadsId
  BY <1>30 DEF ReadsId
<1>31. CASE Imports
  BY <1>31 DEF Imports
<1>32. CASE NextCommand
  BY <1>32 DEF NextCommand
<1>33. ASSUME NEW p \in Processes, Dies(p) PROVE ControlType'
  BY <1>33 DEF Dies
<1> QED
  BY <1>1, <1>2, <1>3, <1>4, <1>5, <1>6, <1>7, <1>8, <1>9, <1>10, <1>11,
     <1>12, <1>13, <1>14, <1>15, <1>16, <1>17, <1>18, <1>19, <1>20,
     <1>21, <1>22, <1>23, <1>24, <1>25, <1>26, <1>27, <1>28, <1>29,
     <1>30, <1>31, <1>32, <1>33
     DEF Next, ParentStep, CoderStep, ProgramStep, Fault

(* Only these steps count anything.  That an export's pipe is empty before   *)
(* the id is written follows from where its parent is.                       *)
LEMMA CountTypeStep ==
  ASSUME ControlType, CountType, FamilyInv, StreamInv, Next
  PROVE  CountType'
<1> USE PipelineAssumption, JobFacts, JobStays
     DEF ControlType, CountType, Piped, data, Takes, Puts
<1>1. CASE UNCHANGED <<sent, got, faults>>
  BY <1>1
<1>2. CASE UNCHANGED <<sent, got>> /\ faults < MaxFaults /\ faults' = faults + 1
  BY <1>2
<1>3. CASE SendId
  <2>1. sent = 0 /\ got = 0 /\ sent' = 1 /\ UNCHANGED <<got, faults>>
    BY <1>3 DEF SendId, StreamInv, FamilyInv
  <2> QED
    BY <2>1
<1>4. CASE Encrypts \/ ReceivesFromPipe \/ ReadsId
  BY <1>4 DEF Encrypts, ReceivesFromPipe, ReadsId
<1>5. CASE Decrypts /\ Puts("coder")
  BY <1>5 DEF Decrypts
<1>6. CASE SendsToPipe /\ Puts("program")
  BY <1>6 DEF SendsToPipe
<1>7. CASE SendsToFile
  BY <1>7 DEF SendsToFile, StreamInv
<1>8. CASE ReceivesFromFile
  BY <1>8 DEF ReceivesFromFile, StreamInv
<1> QED
  BY <1>1, <1>2, <1>3, <1>4, <1>5, <1>6, <1>7, <1>8
     DEF Next, ParentStep, CoderStep, ProgramStep, Fault, BrokenPipe,
       ForkFails, ExecFails, Dies, Decrypts, SendsToPipe,
       ForkCoder, ParentDrops, ForkProgram, HandOver, Listen, ListenFails,
       SendIdKilled, WaitProgram, WaitCoder, WaitThrows, Publish, Unwind,
       CoderDrops, Seals, DecryptsLast, Execs, SendsAll, ReceivesAll,
       ReceivesTooLittle, TakesLock, Imports, NextCommand

(* systemvp3() and the fork in runEncrypted() keep to their order: which    *)
(* children the parent has follows from where the parent is.                *)
LEMMA FamilyStep ==
  ASSUME ControlType, FamilyInv, Next
  PROVE  FamilyInv'
<1> USE JobFacts, JobStays
<1> USE DEF FamilyInv, ControlType, BeforeFork, Running, ParentStates, ChildStates,
            Ended, data, Processes, Children, Goes, Ends, Throws, WhenDone, Takes,
            Puts, BrokenPipe
<1>1. CASE ForkCoder
  BY <1>1 DEF ForkCoder
<1>2. CASE ParentDrops
  BY <1>2 DEF ParentDrops
<1>3. CASE ForkProgram
  BY <1>3 DEF ForkProgram
<1>4. CASE ForkFails
  BY <1>4 DEF ForkFails
<1>5. CASE HandOver
  BY <1>5 DEF HandOver
<1>6. CASE Listen
  BY <1>6 DEF Listen
<1>7. CASE ListenFails
  BY <1>7 DEF ListenFails
<1>8. CASE SendId
  BY <1>8 DEF SendId
<1>9. CASE SendIdKilled
  BY <1>9 DEF SendIdKilled
<1>10. CASE WaitProgram
  BY <1>10 DEF WaitProgram
<1>11. CASE WaitCoder
  BY <1>11 DEF WaitCoder
<1>12. CASE WaitThrows
  BY <1>12 DEF WaitThrows
<1>13. CASE Publish
  BY <1>13 DEF Publish
<1>14. CASE Unwind
  BY <1>14 DEF Unwind
<1>15. CASE CoderDrops
  BY <1>15 DEF CoderDrops
<1>16. CASE Encrypts
  BY <1>16 DEF Encrypts
<1>17. CASE Seals
  BY <1>17 DEF Seals
<1>18. CASE Decrypts
  BY <1>18 DEF Decrypts
<1>19. CASE DecryptsLast
  BY <1>19 DEF DecryptsLast
<1>20. CASE Execs
  BY <1>20 DEF Execs
<1>21. CASE ExecFails
  BY <1>21 DEF ExecFails
<1>22. CASE SendsToPipe
  BY <1>22 DEF SendsToPipe
<1>23. CASE SendsToFile
  BY <1>23 DEF SendsToFile
<1>24. CASE SendsAll
  BY <1>24 DEF SendsAll
<1>25. CASE ReceivesFromPipe
  BY <1>25 DEF ReceivesFromPipe
<1>26. CASE ReceivesFromFile
  BY <1>26 DEF ReceivesFromFile
<1>27. CASE ReceivesAll
  BY <1>27 DEF ReceivesAll
<1>28. CASE ReceivesTooLittle
  BY <1>28 DEF ReceivesTooLittle
<1>29. CASE TakesLock
  BY <1>29 DEF TakesLock
<1>30. CASE ReadsId
  BY <1>30 DEF ReadsId
<1>31. CASE Imports
  BY <1>31 DEF Imports
<1>32. CASE NextCommand
  BY <1>32 DEF NextCommand
<1>33. ASSUME NEW p \in Processes, Dies(p) PROVE FamilyInv'
  <2>1. CASE p = "parent"
    BY <1>33, <2>1 DEF Dies
  <2>2. CASE p = "coder"
    BY <1>33, <2>2 DEF Dies
  <2>3. CASE p = "program"
    BY <1>33, <2>3 DEF Dies
  <2> QED
    BY <2>1, <2>2, <2>3
<1> QED
  BY <1>1, <1>2, <1>3, <1>4, <1>5, <1>6, <1>7, <1>8, <1>9, <1>10, <1>11,
     <1>12, <1>13, <1>14, <1>15, <1>16, <1>17, <1>18, <1>19, <1>20,
     <1>21, <1>22, <1>23, <1>24, <1>25, <1>26, <1>27, <1>28, <1>29,
     <1>30, <1>31, <1>32, <1>33
     DEF Next, ParentStep, CoderStep, ProgramStep, Fault

(* FdOwner's closes, fork, exec and the end of a process keep the lock file *)
(* open in all that runs, and the other end of the coder's pipe with its writer. *)
LEMMA DescriptorStep ==
  ASSUME ControlType, FamilyInv, DescriptorInv, Next
  PROVE  DescriptorInv'
<1> USE JobFacts, JobStays
<1> USE DEF DescriptorInv, ControlType, FamilyInv, BeforeFork, Running,
            ParentStates, ChildStates, Descriptors, Ended, data, CoderEnd,
            ProgramEnd, KeptByExec, Piped, Processes, Children, Goes, Ends, Throws,
            WhenDone, Takes, Puts, BrokenPipe
<1>1. CASE ForkCoder
  BY <1>1 DEF ForkCoder
<1>2. CASE ParentDrops
  BY <1>2 DEF ParentDrops
<1>3. CASE ForkProgram
  BY <1>3 DEF ForkProgram
<1>4. CASE ForkFails
  BY <1>4 DEF ForkFails
<1>5. CASE HandOver
  BY <1>5 DEF HandOver
<1>6. CASE Listen
  BY <1>6 DEF Listen
<1>7. CASE ListenFails
  BY <1>7 DEF ListenFails
<1>8. CASE SendId
  BY <1>8 DEF SendId
<1>9. CASE SendIdKilled
  BY <1>9 DEF SendIdKilled
<1>10. CASE WaitProgram
  BY <1>10 DEF WaitProgram
<1>11. CASE WaitCoder
  BY <1>11 DEF WaitCoder
<1>12. CASE WaitThrows
  BY <1>12 DEF WaitThrows
<1>13. CASE Publish
  BY <1>13 DEF Publish
<1>14. CASE Unwind
  BY <1>14 DEF Unwind
<1>15. CASE CoderDrops
  BY <1>15 DEF CoderDrops
<1>16. CASE Encrypts
  BY <1>16 DEF Encrypts
<1>17. CASE Seals
  BY <1>17 DEF Seals
<1>18. CASE Decrypts
  BY <1>18 DEF Decrypts
<1>19. CASE DecryptsLast
  BY <1>19 DEF DecryptsLast
<1>20. CASE Execs
  BY <1>20 DEF Execs
<1>21. CASE ExecFails
  BY <1>21 DEF ExecFails
<1>22. CASE SendsToPipe
  BY <1>22 DEF SendsToPipe
<1>23. CASE SendsToFile
  BY <1>23 DEF SendsToFile
<1>24. CASE SendsAll
  BY <1>24 DEF SendsAll
<1>25. CASE ReceivesFromPipe
  BY <1>25 DEF ReceivesFromPipe
<1>26. CASE ReceivesFromFile
  BY <1>26 DEF ReceivesFromFile
<1>27. CASE ReceivesAll
  BY <1>27 DEF ReceivesAll
<1>28. CASE ReceivesTooLittle
  BY <1>28 DEF ReceivesTooLittle
<1>29. CASE TakesLock
  BY <1>29 DEF TakesLock
<1>30. CASE ReadsId
  BY <1>30 DEF ReadsId
<1>31. CASE Imports
  BY <1>31 DEF Imports
<1>32. CASE NextCommand
  BY <1>32 DEF NextCommand
<1>33. ASSUME NEW p \in Processes, Dies(p) PROVE DescriptorInv'
  BY <1>33 DEF Dies
<1> QED
  BY <1>1, <1>2, <1>3, <1>4, <1>5, <1>6, <1>7, <1>8, <1>9, <1>10, <1>11,
     <1>12, <1>13, <1>14, <1>15, <1>16, <1>17, <1>18, <1>19, <1>20,
     <1>21, <1>22, <1>23, <1>24, <1>25, <1>26, <1>27, <1>28, <1>29,
     <1>30, <1>31, <1>32, <1>33
     DEF Next, ParentStep, CoderStep, ProgramStep, Fault

(* read(), write() and the end of the input keep what a successful exit of  *)
(* the coder or of zfs says about the blocks that went through.             *)
LEMMA StreamStep ==
  ASSUME ControlType, CountType, FamilyInv, DescriptorInv, StreamInv, Next
  PROVE  StreamInv'
<1> USE JobFacts, JobStays
<1> USE DEF StreamInv, ControlType, FamilyInv, BeforeFork, ParentStates,
            ChildStates, Ended, data, Processes, Children, Goes, Ends, Throws,
            WhenDone, Takes, Puts, BrokenPipe
<1>1. CASE ForkCoder
  BY <1>1 DEF ForkCoder
<1>2. CASE ParentDrops
  BY <1>2 DEF ParentDrops
<1>3. CASE ForkProgram
  BY <1>3 DEF ForkProgram
<1>4. CASE ForkFails
  BY <1>4 DEF ForkFails
<1>5. CASE HandOver
  BY <1>5 DEF HandOver
<1>6. CASE Listen
  BY <1>6 DEF Listen
<1>7. CASE ListenFails
  BY <1>7 DEF ListenFails
<1>8. CASE SendId
  BY <1>8 DEF SendId
<1>9. CASE SendIdKilled
  BY <1>9 DEF SendIdKilled
<1>10. CASE WaitProgram
  BY <1>10 DEF WaitProgram
<1>11. CASE WaitCoder
  BY <1>11 DEF WaitCoder
<1>12. CASE WaitThrows
  BY <1>12 DEF WaitThrows
<1>13. CASE Publish
  BY <1>13 DEF Publish
<1>14. CASE Unwind
  BY <1>14 DEF Unwind
<1>15. CASE CoderDrops
  BY <1>15 DEF CoderDrops
<1>16. CASE Encrypts
  BY <1>16 DEF Encrypts
<1>17. CASE Seals
  <2>1. \A p \in Processes : "write" \notin fds[p]
    BY <1>17 DEF Seals, EndOfInput, HasOpen
  <2>2. job.kind = "store" /\ pc["coder"] # "none" /\ job.encrypted
    BY <1>17 DEF Seals
  <2>3. /\ pc["parent"] \notin {"encode", "drop", "fork", "hand_over"}
        /\ pc["program"] \notin {"exec", "lock", "work"}
    BY <2>1, <2>2 DEF DescriptorInv
  <2> QED
    BY <1>17, <2>2, <2>3 DEF Seals, EndOfInput
<1>18. CASE Decrypts
  <2>1. CASE Puts("coder")
    BY <1>18, <2>1, PipelineAssumption DEF Decrypts, CountType
  <2>2. CASE BrokenPipe("coder")
    BY <1>18, <2>2, PipelineAssumption DEF Decrypts, CountType
  <2> QED
    BY <1>18, <2>1, <2>2 DEF Decrypts, CountType
<1>19. CASE DecryptsLast
  BY <1>19 DEF DecryptsLast
<1>20. CASE Execs
  BY <1>20 DEF Execs
<1>21. CASE ExecFails
  BY <1>21 DEF ExecFails
<1>22. CASE SendsToPipe
  BY <1>22 DEF SendsToPipe
<1>23. CASE SendsToFile
  BY <1>23 DEF SendsToFile
<1>24. CASE SendsAll
  BY <1>24 DEF SendsAll
<1>25. CASE ReceivesFromPipe
  BY <1>25 DEF ReceivesFromPipe
<1>26. CASE ReceivesFromFile
  BY <1>26, PipelineAssumption DEF ReceivesFromFile, CountType
<1>27. CASE ReceivesAll
  BY <1>27 DEF ReceivesAll
<1>28. CASE ReceivesTooLittle
  BY <1>28 DEF ReceivesTooLittle
<1>29. CASE TakesLock
  BY <1>29 DEF TakesLock
<1>30. CASE ReadsId
  BY <1>30 DEF ReadsId
<1>31. CASE Imports
  BY <1>31 DEF Imports
<1>32. CASE NextCommand
  BY <1>32 DEF NextCommand
<1>33. ASSUME NEW p \in Processes, Dies(p) PROVE StreamInv'
  BY <1>33 DEF Dies
<1> QED
  BY <1>1, <1>2, <1>3, <1>4, <1>5, <1>6, <1>7, <1>8, <1>9, <1>10, <1>11,
     <1>12, <1>13, <1>14, <1>15, <1>16, <1>17, <1>18, <1>19, <1>20,
     <1>21, <1>22, <1>23, <1>24, <1>25, <1>26, <1>27, <1>28, <1>29,
     <1>30, <1>31, <1>32, <1>33
     DEF Next, ParentStep, CoderStep, ProgramStep, Fault

(* waitpid() in store_snapshot(), restore() and export_repository(): the    *)
(* parent goes on only with the statuses that it has looked at.             *)
LEMMA StatusStep ==
  ASSUME ControlType, FamilyInv, StatusInv, Next
  PROVE  StatusInv'
<1> USE JobFacts, JobStays
<1> USE DEF StatusInv, ControlType, FamilyInv, BeforeFork, Running, ParentStates,
            ChildStates, Ended, data, Processes, Children, Goes, Ends, Throws,
            WhenDone, Takes, Puts, BrokenPipe
<1>1. CASE ForkCoder
  BY <1>1 DEF ForkCoder
<1>2. CASE ParentDrops
  BY <1>2 DEF ParentDrops
<1>3. CASE ForkProgram
  BY <1>3 DEF ForkProgram
<1>4. CASE ForkFails
  BY <1>4 DEF ForkFails
<1>5. CASE HandOver
  BY <1>5 DEF HandOver
<1>6. CASE Listen
  BY <1>6 DEF Listen
<1>7. CASE ListenFails
  BY <1>7 DEF ListenFails
<1>8. CASE SendId
  BY <1>8 DEF SendId
<1>9. CASE SendIdKilled
  BY <1>9 DEF SendIdKilled
<1>10. CASE WaitProgram
  BY <1>10 DEF WaitProgram
<1>11. CASE WaitCoder
  BY <1>11 DEF WaitCoder
<1>12. CASE WaitThrows
  BY <1>12 DEF WaitThrows
<1>13. CASE Publish
  BY <1>13 DEF Publish
<1>14. CASE Unwind
  BY <1>14 DEF Unwind
<1>15. CASE CoderDrops
  BY <1>15 DEF CoderDrops
<1>16. CASE Encrypts
  BY <1>16 DEF Encrypts
<1>17. CASE Seals
  BY <1>17 DEF Seals
<1>18. CASE Decrypts
  BY <1>18 DEF Decrypts
<1>19. CASE DecryptsLast
  BY <1>19 DEF DecryptsLast
<1>20. CASE Execs
  BY <1>20 DEF Execs
<1>21. CASE ExecFails
  BY <1>21 DEF ExecFails
<1>22. CASE SendsToPipe
  BY <1>22 DEF SendsToPipe
<1>23. CASE SendsToFile
  BY <1>23 DEF SendsToFile
<1>24. CASE SendsAll
  BY <1>24 DEF SendsAll
<1>25. CASE ReceivesFromPipe
  BY <1>25 DEF ReceivesFromPipe
<1>26. CASE ReceivesFromFile
  BY <1>26 DEF ReceivesFromFile
<1>27. CASE ReceivesAll
  BY <1>27 DEF ReceivesAll
<1>28. CASE ReceivesTooLittle
  BY <1>28 DEF ReceivesTooLittle
<1>29. CASE TakesLock
  BY <1>29 DEF TakesLock
<1>30. CASE ReadsId
  BY <1>30 DEF ReadsId
<1>31. CASE Imports
  BY <1>31 DEF Imports
<1>32. CASE NextCommand
  BY <1>32 DEF NextCommand
<1>33. ASSUME NEW p \in Processes, Dies(p) PROVE StatusInv'
  BY <1>33 DEF Dies
<1> QED
  BY <1>1, <1>2, <1>3, <1>4, <1>5, <1>6, <1>7, <1>8, <1>9, <1>10, <1>11,
     <1>12, <1>13, <1>14, <1>15, <1>16, <1>17, <1>18, <1>19, <1>20,
     <1>21, <1>22, <1>23, <1>24, <1>25, <1>26, <1>27, <1>28, <1>29,
     <1>30, <1>31, <1>32, <1>33
     DEF Next, ParentStep, CoderStep, ProgramStep, Fault

(* The next command gets the lock only when no process of this one has the  *)
(* lock file open, so none is running then or later.                        *)
LEMMA LockStep ==
  ASSUME ControlType, DescriptorInv, LockCoversAll, Next
  PROVE  LockCoversAll'
<1> USE DEF LockCoversAll, ControlType, DescriptorInv, Running, HasOpen,
            ParentStates, ChildStates, Ended, data, Processes, Children, Goes, Ends,
            Throws, WhenDone, Takes, Puts, BrokenPipe
<1>1. CASE ForkCoder
  BY <1>1 DEF ForkCoder
<1>2. CASE ParentDrops
  BY <1>2 DEF ParentDrops
<1>3. CASE ForkProgram
  BY <1>3 DEF ForkProgram
<1>4. CASE ForkFails
  BY <1>4 DEF ForkFails
<1>5. CASE HandOver
  BY <1>5 DEF HandOver
<1>6. CASE Listen
  BY <1>6 DEF Listen
<1>7. CASE ListenFails
  BY <1>7 DEF ListenFails
<1>8. CASE SendId
  BY <1>8 DEF SendId
<1>9. CASE SendIdKilled
  BY <1>9 DEF SendIdKilled
<1>10. CASE WaitProgram
  BY <1>10 DEF WaitProgram
<1>11. CASE WaitCoder
  BY <1>11 DEF WaitCoder
<1>12. CASE WaitThrows
  BY <1>12 DEF WaitThrows
<1>13. CASE Publish
  BY <1>13 DEF Publish
<1>14. CASE Unwind
  BY <1>14 DEF Unwind
<1>15. CASE CoderDrops
  BY <1>15 DEF CoderDrops
<1>16. CASE Encrypts
  BY <1>16 DEF Encrypts
<1>17. CASE Seals
  BY <1>17 DEF Seals
<1>18. CASE Decrypts
  BY <1>18 DEF Decrypts
<1>19. CASE DecryptsLast
  BY <1>19 DEF DecryptsLast
<1>20. CASE Execs
  BY <1>20 DEF Execs
<1>21. CASE ExecFails
  BY <1>21 DEF ExecFails
<1>22. CASE SendsToPipe
  BY <1>22 DEF SendsToPipe
<1>23. CASE SendsToFile
  BY <1>23 DEF SendsToFile
<1>24. CASE SendsAll
  BY <1>24 DEF SendsAll
<1>25. CASE ReceivesFromPipe
  BY <1>25 DEF ReceivesFromPipe
<1>26. CASE ReceivesFromFile
  BY <1>26 DEF ReceivesFromFile
<1>27. CASE ReceivesAll
  BY <1>27 DEF ReceivesAll
<1>28. CASE ReceivesTooLittle
  BY <1>28 DEF ReceivesTooLittle
<1>29. CASE TakesLock
  BY <1>29 DEF TakesLock
<1>30. CASE ReadsId
  BY <1>30 DEF ReadsId
<1>31. CASE Imports
  BY <1>31 DEF Imports
<1>32. CASE NextCommand
  BY <1>32 DEF NextCommand
<1>33. ASSUME NEW p \in Processes, Dies(p) PROVE LockCoversAll'
  BY <1>33 DEF Dies
<1> QED
  BY <1>1, <1>2, <1>3, <1>4, <1>5, <1>6, <1>7, <1>8, <1>9, <1>10, <1>11,
     <1>12, <1>13, <1>14, <1>15, <1>16, <1>17, <1>18, <1>19, <1>20,
     <1>21, <1>22, <1>23, <1>24, <1>25, <1>26, <1>27, <1>28, <1>29,
     <1>30, <1>31, <1>32, <1>33
     DEF Next, ParentStep, CoderStep, ProgramStep, Fault

-----------------------------------------------------------------------------
(* The command starts as one process, which holds the lock. *)
LEMMA InitIInv == Init => IInv
<1> SUFFICES ASSUME Init PROVE IInv
  OBVIOUS
<1> USE PipelineAssumption, JobFacts
        DEF Init, ParentStates, ChildStates, Ended, Processes, Children
<1>1. ControlType
  BY DEF ControlType, Descriptors
<1>2. CountType
  BY DEF CountType
<1>3. FamilyInv
  BY DEF FamilyInv, BeforeFork
<1>4. DescriptorInv
  BY DEF DescriptorInv, Running
<1>5. StreamInv
  BY <1>1, <1>2 DEF StreamInv
<1>6. StatusInv /\ LockCoversAll
  BY DEF StatusInv, LockCoversAll
<1> QED
  BY <1>1, <1>2, <1>3, <1>4, <1>5, <1>6, TypeParts DEF IInv

(* No step of any process, failure or kill breaks the inductive invariant. *)
LEMMA StepIInv == IInv /\ [Next]_vars => IInv'
<1> SUFFICES ASSUME IInv, [Next]_vars PROVE IInv'
  OBVIOUS
<1> USE TypeParts DEF IInv
<1>1. CASE Next
  <2>1. ControlType' /\ CountType'
    BY <1>1, ControlTypeStep, CountTypeStep
  <2>2. TypeOK'
    BY <2>1 DEF TypeOK, ControlType, CountType
  <2>3. FamilyInv' /\ DescriptorInv' /\ StreamInv' /\ StatusInv' /\ LockCoversAll'
    BY <1>1, FamilyStep, DescriptorStep, StreamStep, StatusStep, LockStep
  <2> QED
    BY <2>2, <2>3
<1>2. CASE UNCHANGED vars
  <2>1. TypeOK'
    BY <1>2 DEF vars, data, TypeOK, Piped
  <2>2. FamilyInv' /\ StatusInv'
    BY <1>2 DEF vars, data, FamilyInv, StatusInv, Running, BeforeFork
  <2>3. DescriptorInv' /\ StreamInv' /\ LockCoversAll'
    BY <1>2 DEF vars, data, DescriptorInv, StreamInv, LockCoversAll, Running
  <2> QED
    BY <2>1, <2>2, <2>3
<1> QED
  BY <1>1, <1>2

(* The inductive invariant holds. *)
THEOREM Invariance == Spec => []IInv
<1>1. Init => IInv
  BY InitIInv
<1>2. IInv /\ [Next]_vars => IInv'
  BY StepIInv
<1> QED
  BY <1>1, <1>2, PTL DEF Spec

(* Type correctness: the pipe never holds more than it takes. *)
THEOREM PipelineTypes == Spec => []TypeOK
<1>1. IInv => TypeOK
  BY DEF IInv
<1> QED
  BY <1>1, Invariance, PTL

(* No payload is published that is not whole and sealed. *)
THEOREM CommittedWhole == Spec => []CommitsWhole
<1>1. IInv => CommitsWhole
  BY JobFacts DEF IInv, TypeOK, StreamInv, StatusInv, CommitsWhole
<1> QED
  BY <1>1, Invariance, PTL

(* A restore reports success only for a whole stream. *)
THEOREM RestoredWhole == Spec => []RestoresWhole
<1>1. IInv => RestoresWhole
  <2> SUFFICES ASSUME IInv, job.kind = "restore", pc["parent"] = "ok"
               PROVE  /\ got = Blocks /\ job.blocks = Blocks
                      /\ job.encrypted => job.tag
    BY DEF RestoresWhole
  <2>1. pc["program"] = "ok" /\ (job.encrypted => pc["coder"] = "ok")
    BY DEF IInv, StatusInv
  <2>2. got = Blocks /\ sent <= job.blocks
    BY <2>1 DEF IInv, StreamInv
  <2>3. job.blocks \in 0..Blocks /\ sent \in 0..Blocks /\ got \in 0..sent
    BY JobFacts DEF IInv, TypeOK
  <2>4. job.blocks = Blocks
    BY <2>2, <2>3, PipelineAssumption
  <2> QED
    BY <2>1, <2>2, <2>4 DEF IInv, StreamInv
<1> QED
  BY <1>1, Invariance, PTL

(* A command that returns leaves no child behind. *)
THEOREM ChildrenReaped == Spec => []NobodyLeftBehind
<1>1. IInv => NobodyLeftBehind
  <2> SUFFICES ASSUME IInv, pc["parent"] = "ok" PROVE \A p \in Children : ~ Running(p)
    BY DEF IInv, StatusInv, NobodyLeftBehind
  <2>1. pc["program"] = "ok" /\ pc["coder"] \in {"ok", "none"}
    BY JobFacts DEF IInv, StatusInv, FamilyInv, TypeOK
  <2> QED
    BY <2>1 DEF Children, Running, Ended
<1> QED
  BY <1>1, Invariance, PTL

(* The next command finds no process of this one. *)
THEOREM GroupExcluded == Spec => []LockCoversAll
<1>1. IInv => LockCoversAll
  BY DEF IInv
<1> QED
  BY <1>1, Invariance, PTL
-----------------------------------------------------------------------------
(***************************************************************************)
(* Why everybody ends.  TLC checks it with fairness; for every length and  *)
(* every capacity it is proved in two parts.  No behaviour goes on for     *)
(* ever, because every system call brings the command nearer to its end    *)
(* (Remaining).  And nobody waits for somebody who waits for him: where    *)
(* all three wait, nobody runs, or it is an export that waits for itself.  *)
(*                                                                         *)
(* The ends of the pipe that are open where they do no harm.  This is what *)
(* the closing of descriptors in the code is for.                          *)
(***************************************************************************)
ParentHas ==
  {"lock"} \cup (CASE pc["parent"] = "drop" -> {"read", "write"}
                  [] pc["parent"] = "fork" -> IF job.encrypted THEN {ProgramEnd} ELSE {}
                  [] pc["parent"] = "hand_over" ->
                       (IF job.kind = "export" THEN {"read", "write"}
                        ELSE IF job.encrypted THEN {ProgramEnd} ELSE {}) \cup {"status"}
                  [] pc["parent"] \in {"listen", "send"} ->
                       IF job.kind = "export" THEN {"write"} ELSE {}
                  [] OTHER -> {})

EndsInv ==
  /\ Running("parent") => fds["parent"] = ParentHas
  /\ fds["coder"] \subseteq {"read", "write", "lock"}
  /\ pc["coder"] = "work" => ProgramEnd \notin fds["coder"]
  /\ "status" \in fds["program"] => pc["program"] = "exec"
  /\ job.encrypted => CoderEnd \notin fds["program"]
  /\ job.kind = "export" /\ pc["program"] \in {"lock", "work"} =>
       "write" \notin fds["program"]

(* What each process is waiting for, when it cannot go on by itself: these  *)
(* are the states in which the guard of each of its actions is false.       *)
ParentWaits ==
  \/ ~ Running("parent")
  \/ pc["parent"] = "listen" /\ HasOpen("status")
  \/ pc["parent"] = "wait_program" /\ pc["program"] \notin Ended
  \/ pc["parent"] = "wait_coder" /\ pc["coder"] \notin Ended
  \/ pc["parent"] = "unwind" /\ \E p \in Children : Running(p)

ForInput  == got = sent /\ HasOpen("write")
ForRoom   == HasOpen("read") /\ sent = got + Capacity

CoderWaits ==
  \/ ~ Running("coder")
  \/ /\ pc["coder"] = "work"
     /\ \/ job.kind = "store" /\ ForInput
        \/ job.kind = "restore" /\ sent < job.blocks /\ ForRoom

ProgramWaits ==
  \/ ~ Running("program")
  \/ pc["program"] = "lock" /\ job.same /\ HasOpen("lock")
  \/ /\ pc["program"] = "work"
     /\ \/ job.kind = "store" /\ job.encrypted /\ sent < Blocks /\ ForRoom
        \/ job.kind = "restore" /\ job.encrypted /\ got < Blocks /\ ForInput
        \/ job.kind = "export" /\ ForInput

NobodyRuns == \A p \in Processes : ~ Running(p)

(* Somebody can go on, the next command with the lock included, unless the  *)
(* command waits for a lock that it holds itself.                           *)
SomebodyGoesOn ==
  ParentWaits /\ CoderWaits /\ ProgramWaits =>
    WaitsForItself \/ (NobodyRuns /\ ~ HasOpen("lock"))

ParentRank(w) == CASE w = "encode" -> 10 [] w = "drop" -> 9 [] w = "fork" -> 8
                   [] w = "hand_over" -> 7 [] w = "listen" -> 6 [] w = "send" -> 5
                   [] w = "wait_program" -> 4 [] w = "wait_coder" -> 3
                   [] w = "publish" -> 2 [] w = "unwind" -> 1 [] OTHER -> 0

ChildRank(w) == CASE w = "none" -> 4 [] w \in {"drop", "exec"} -> 3
                  [] w = "lock" -> 2 [] w = "work" -> 1 [] OTHER -> 0

(* How many steps are left at most. *)
Remaining ==
  ParentRank(pc["parent"]) + ChildRank(pc["coder"]) + ChildRank(pc["program"])
    + (Blocks - sent) + (Blocks - got) + (IF next = "waiting" THEN 1 ELSE 0)

(* No system call leaves an end of the pipe open where it would do harm. *)
LEMMA EndsStep ==
  ASSUME ControlType, FamilyInv, DescriptorInv, EndsInv, Next
  PROVE  EndsInv'
<1> USE JobFacts, JobStays
<1> USE DEF EndsInv, ParentHas, ControlType, FamilyInv, DescriptorInv, BeforeFork, Running,
            Descriptors, ParentStates, ChildStates, Ended, data, Processes, Children,
            Goes, Ends, Throws, WhenDone, CoderEnd, ProgramEnd, KeptByExec, Piped,
            Takes, Puts, BrokenPipe
<1>1. CASE ForkCoder
  BY <1>1 DEF ForkCoder
<1>2. CASE ParentDrops
  BY <1>2 DEF ParentDrops
<1>3. CASE ForkProgram
  BY <1>3 DEF ForkProgram
<1>4. CASE ForkFails
  BY <1>4 DEF ForkFails
<1>5. CASE HandOver
  BY <1>5 DEF HandOver
<1>6. CASE Listen
  BY <1>6 DEF Listen
<1>7. CASE ListenFails
  BY <1>7 DEF ListenFails
<1>8. CASE SendId
  BY <1>8 DEF SendId
<1>9. CASE SendIdKilled
  BY <1>9 DEF SendIdKilled
<1>10. CASE WaitProgram
  BY <1>10 DEF WaitProgram
<1>11. CASE WaitCoder
  BY <1>11 DEF WaitCoder
<1>12. CASE WaitThrows
  BY <1>12 DEF WaitThrows
<1>13. CASE Publish
  BY <1>13 DEF Publish
<1>14. CASE Unwind
  BY <1>14 DEF Unwind
<1>15. CASE CoderDrops
  BY <1>15 DEF CoderDrops
<1>16. CASE Encrypts
  BY <1>16 DEF Encrypts
<1>17. CASE Seals
  BY <1>17 DEF Seals
<1>18. CASE Decrypts
  BY <1>18 DEF Decrypts
<1>19. CASE DecryptsLast
  BY <1>19 DEF DecryptsLast
<1>20. CASE Execs
  BY <1>20 DEF Execs
<1>21. CASE ExecFails
  BY <1>21 DEF ExecFails
<1>22. CASE SendsToPipe
  BY <1>22 DEF SendsToPipe
<1>23. CASE SendsToFile
  BY <1>23 DEF SendsToFile
<1>24. CASE SendsAll
  BY <1>24 DEF SendsAll
<1>25. CASE ReceivesFromPipe
  BY <1>25 DEF ReceivesFromPipe
<1>26. CASE ReceivesFromFile
  BY <1>26 DEF ReceivesFromFile
<1>27. CASE ReceivesAll
  BY <1>27 DEF ReceivesAll
<1>28. CASE ReceivesTooLittle
  BY <1>28 DEF ReceivesTooLittle
<1>29. CASE TakesLock
  BY <1>29 DEF TakesLock
<1>30. CASE ReadsId
  BY <1>30 DEF ReadsId
<1>31. CASE Imports
  BY <1>31 DEF Imports
<1>32. CASE NextCommand
  BY <1>32 DEF NextCommand
<1>33. ASSUME NEW p \in Processes, Dies(p) PROVE EndsInv'
  BY <1>33 DEF Dies
<1> QED
  BY <1>1, <1>2, <1>3, <1>4, <1>5, <1>6, <1>7, <1>8, <1>9, <1>10, <1>11,
     <1>12, <1>13, <1>14, <1>15, <1>16, <1>17, <1>18, <1>19, <1>20,
     <1>21, <1>22, <1>23, <1>24, <1>25, <1>26, <1>27, <1>28, <1>29,
     <1>30, <1>31, <1>32, <1>33
     DEF Next, ParentStep, CoderStep, ProgramStep, Fault

(* Every step brings the command nearer to its end. *)
LEMMA RemainingStep ==
  ASSUME IInv, IInv', Next
  PROVE  Remaining \in Nat /\ Remaining' \in Nat /\ Remaining' < Remaining
<1> DEFINE Goal == Remaining' < Remaining
<1> USE PipelineAssumption, JobFacts, JobStays
<1>0. Remaining \in Nat /\ Remaining' \in Nat
  BY DEF Remaining, ParentRank, ChildRank, IInv, TypeOK
<1> USE DEF Remaining, ParentRank, ChildRank, IInv, TypeOK, FamilyInv, BeforeFork, Running,
            ParentStates, ChildStates, Ended, data, Processes, Children,
            Goes, Ends, Throws, WhenDone, Takes, Puts, BrokenPipe
<1>1. CASE ForkCoder
  BY <1>1 DEF ForkCoder
<1>2. CASE ParentDrops
  BY <1>2 DEF ParentDrops
<1>3. CASE ForkProgram
  BY <1>3 DEF ForkProgram
<1>4. CASE ForkFails
  BY <1>4 DEF ForkFails
<1>5. CASE HandOver
  BY <1>5 DEF HandOver
<1>6. CASE Listen
  BY <1>6 DEF Listen
<1>7. CASE ListenFails
  BY <1>7 DEF ListenFails
<1>8. CASE SendId
  BY <1>8 DEF SendId
<1>9. CASE SendIdKilled
  BY <1>9 DEF SendIdKilled
<1>10. CASE WaitProgram
  BY <1>10 DEF WaitProgram
<1>11. CASE WaitCoder
  BY <1>11 DEF WaitCoder
<1>12. CASE WaitThrows
  BY <1>12 DEF WaitThrows
<1>13. CASE Publish
  BY <1>13 DEF Publish
<1>14. CASE Unwind
  BY <1>14 DEF Unwind
<1>15. CASE CoderDrops
  BY <1>15 DEF CoderDrops
<1>16. CASE Encrypts
  BY <1>16 DEF Encrypts
<1>17. CASE Seals
  BY <1>17 DEF Seals
<1>18. CASE Decrypts
  BY <1>18 DEF Decrypts
<1>19. CASE DecryptsLast
  BY <1>19 DEF DecryptsLast
<1>20. CASE Execs
  BY <1>20 DEF Execs
<1>21. CASE ExecFails
  BY <1>21 DEF ExecFails
<1>22. CASE SendsToPipe
  BY <1>22 DEF SendsToPipe
<1>23. CASE SendsToFile
  BY <1>23 DEF SendsToFile
<1>24. CASE SendsAll
  BY <1>24 DEF SendsAll
<1>25. CASE ReceivesFromPipe
  BY <1>25 DEF ReceivesFromPipe
<1>26. CASE ReceivesFromFile
  BY <1>26 DEF ReceivesFromFile
<1>27. CASE ReceivesAll
  BY <1>27 DEF ReceivesAll
<1>28. CASE ReceivesTooLittle
  BY <1>28 DEF ReceivesTooLittle
<1>29. CASE TakesLock
  BY <1>29 DEF TakesLock
<1>30. CASE ReadsId
  BY <1>30 DEF ReadsId
<1>31. CASE Imports
  BY <1>31 DEF Imports
<1>32. CASE NextCommand
  BY <1>32 DEF NextCommand
<1>33. ASSUME NEW p \in Processes, Dies(p) PROVE Goal
  BY <1>33 DEF Dies
<1> QED
  BY <1>0, <1>1, <1>2, <1>3, <1>4, <1>5, <1>6, <1>7, <1>8, <1>9, <1>10, <1>11,
     <1>12, <1>13, <1>14, <1>15, <1>16, <1>17, <1>18, <1>19, <1>20,
     <1>21, <1>22, <1>23, <1>24, <1>25, <1>26, <1>27, <1>28, <1>29,
     <1>30, <1>31, <1>32, <1>33
     DEF Next, ParentStep, CoderStep, ProgramStep, Fault

(* The ends of the pipe stay closed where the code closes them. *)
THEOREM EndsInvariance == Spec => []EndsInv
<1>1. Init => EndsInv
  <2> SUFFICES ASSUME Init PROVE EndsInv
    OBVIOUS
  <2>1. job \in Jobs /\ job.encrypted \in BOOLEAN
    BY JobFacts DEF Init
  <2> QED
    BY <2>1 DEF Init, EndsInv, ParentHas, Running, Processes, Children, CoderEnd, ProgramEnd
<1>2. IInv /\ EndsInv /\ [Next]_vars => EndsInv'
  <2> SUFFICES ASSUME IInv, EndsInv, [Next]_vars PROVE EndsInv'
    OBVIOUS
  <2>1. CASE Next
    BY <2>1, EndsStep, TypeParts DEF IInv
  <2>2. CASE UNCHANGED vars
    BY <2>2 DEF vars, data, EndsInv, ParentHas, Running, CoderEnd, ProgramEnd
  <2> QED
    BY <2>1, <2>2
<1> QED
  BY <1>1, <1>2, Invariance, PTL DEF Spec

(* Where the parent, the coder and the program all wait, it is not for each *)
(* other.                                                                   *)
LEMMA NobodyWaitsInACircle ==
  ASSUME IInv, EndsInv
  PROVE  SomebodyGoesOn
<1> SUFFICES ASSUME ParentWaits, CoderWaits, ProgramWaits, ~ WaitsForItself
             PROVE  NobodyRuns /\ ~ HasOpen("lock")
  BY DEF SomebodyGoesOn
<1> USE DEF IInv
<1>0. /\ \A p \in Processes : ~ Running(p) => fds[p] = {}
      /\ Processes = {"parent", "coder", "program"}
      /\ HasOpen("lock") => \E p \in Processes : Running(p)
  BY DEF DescriptorInv, Processes, Children, HasOpen
<1>t. /\ pc["parent"] \in ParentStates \cup Ended
      /\ pc["coder"] \in {"none", "drop", "work"} \cup Ended
      /\ pc["program"] \in {"none", "exec", "lock", "work"} \cup Ended
      /\ sent \in Nat /\ got \in Nat /\ Capacity \in Nat \ {0}
      /\ job.kind \in {"store", "restore", "export"} /\ job.encrypted \in BOOLEAN
  BY JobFacts, PipelineAssumption DEF TypeOK
(* Nobody who waits has the status pipe open, and a parent who waits has no *)
(* end of the pipe.                                                         *)
<1>1. pc["program"] \notin {"exec", "lock"} /\ pc["coder"] # "drop"
  BY <1>t DEF ProgramWaits, CoderWaits, Running, WaitsForItself, Ended
<1>2. ~ HasOpen("status")
  <2>1. "status" \notin fds["program"] /\ "status" \notin fds["coder"]
    BY <1>1 DEF EndsInv
  <2>2. pc["parent"] # "hand_over"
    BY DEF ParentWaits, Running, Ended
  <2>3. "status" \notin fds["parent"]
    BY <2>2, <1>0, <1>t DEF EndsInv, ParentHas, ProgramEnd, ParentStates
  <2> QED
    BY <2>1, <2>3, <1>0 DEF HasOpen
<1>3. "read" \notin fds["parent"] /\ "write" \notin fds["parent"]
  <2>1. CASE ~ Running("parent")
    BY <2>1, <1>0
  <2>2. CASE pc["parent"] \in {"wait_program", "wait_coder", "unwind"}
    <3>1. Running("parent") /\ fds["parent"] = ParentHas
      BY <2>2 DEF EndsInv, Running, Ended
    <3> QED
      BY <3>1, <2>2 DEF ParentHas
  <2> QED
    BY <2>1, <2>2, <1>2 DEF ParentWaits
(* So whoever waits for input or for room waits for the other child, which  *)
(* runs then, and they cannot both wait.                                    *)
<1>4. HasOpen("write") => "write" \in fds["coder"] \/ "write" \in fds["program"]
  BY <1>0, <1>3 DEF HasOpen
<1>5. HasOpen("read") => "read" \in fds["coder"] \/ "read" \in fds["program"]
  BY <1>0, <1>3 DEF HasOpen
<1>6. pc["coder"] # "work"
  <2> SUFFICES ASSUME pc["coder"] = "work" PROVE FALSE
    OBVIOUS
  <2>0. job.encrypted /\ job.kind # "export"
    BY JobFacts DEF FamilyInv, TypeOK
  <2>1. CASE job.kind = "store"
    <3>1. ForInput
      BY <2>1 DEF CoderWaits, Running, Ended
    <3>2. "write" \in fds["program"]
      BY <3>1, <2>1, <1>4 DEF ForInput, EndsInv, ProgramEnd
    <3>3. pc["program"] = "work"
      BY <3>2, <1>0, <1>1, <1>t DEF Running
    <3>4. ForRoom
      BY <3>3, <2>1 DEF ProgramWaits, Running, Ended
    <3> QED
      BY <3>1, <3>4, <1>t DEF ForInput, ForRoom
  <2>2. CASE job.kind = "restore"
    <3>1. ForRoom
      BY <2>2 DEF CoderWaits, Running, Ended
    <3>2. "read" \in fds["program"]
      BY <3>1, <2>2, <1>5 DEF ForRoom, EndsInv, ProgramEnd
    <3>3. pc["program"] = "work"
      BY <3>2, <1>0, <1>1, <1>t DEF Running
    <3>4. ForInput
      BY <3>3, <2>2 DEF ProgramWaits, Running, Ended
    <3> QED
      BY <3>1, <3>4, <1>t DEF ForInput, ForRoom
  <2> QED
    BY <2>0, <2>1, <2>2, <1>t
<1>7. ~ Running("coder") /\ fds["coder"] = {}
  BY <1>0, <1>1, <1>6, <1>t DEF Running
<1>8. pc["program"] # "work"
  <2> SUFFICES ASSUME pc["program"] = "work" PROVE FALSE
    OBVIOUS
  <2>1. CASE job.kind = "store"
    <3>1. job.encrypted /\ HasOpen("read")
      BY <2>1 DEF ProgramWaits, Running, Ended, ForRoom
    <3> QED
      BY <3>1, <2>1, <1>5, <1>7 DEF EndsInv, CoderEnd
  <2>2. CASE job.kind = "restore"
    <3>1. job.encrypted /\ HasOpen("write")
      BY <2>2 DEF ProgramWaits, Running, Ended, ForInput
    <3> QED
      BY <3>1, <2>2, <1>4, <1>7 DEF EndsInv, CoderEnd
  <2>3. CASE job.kind = "export"
    <3>1. HasOpen("write")
      BY <2>3 DEF ProgramWaits, Running, Ended, ForInput
    <3> QED
      BY <3>1, <2>3, <1>4, <1>7 DEF EndsInv
  <2> QED
    BY <2>1, <2>2, <2>3, <1>t
(* Then no child runs, and there is nothing left for the parent to wait for. *)
<1>9. ~ Running("program")
  BY <1>1, <1>8, <1>t DEF Running
<1>10. ~ Running("parent")
  <2>1. pc["parent"] = "wait_program" => pc["program"] \in Ended
    BY <1>9, <1>t DEF FamilyInv, Running
  <2>2. pc["parent"] = "wait_coder" => pc["coder"] \in Ended
    BY <1>7 DEF FamilyInv, Running, ParentStates
  <2> QED
    BY <2>1, <2>2, <1>2, <1>7, <1>9 DEF ParentWaits, Children
<1> QED
  BY <1>0, <1>7, <1>9, <1>10 DEF NobodyRuns

(* No deadlock among the parent, the coder and the program, whatever the    *)
(* length of the stream and however little the pipe takes: what the         *)
(* comments in store_snapshot(), withDecryptedInput() and                   *)
(* export_repository() say about closing descriptors is enough.             *)
THEOREM NoDeadlock == Spec => []SomebodyGoesOn
<1>1. IInv /\ EndsInv => SomebodyGoesOn
  BY NobodyWaitsInACircle
<1> QED
  BY <1>1, Invariance, EndsInvariance, PTL

LeavesLess == Remaining \in Nat /\ Remaining' < Remaining

(* No command goes on for ever: every system call, every failure and every  *)
(* signal leaves fewer steps to take.                                       *)
THEOREM EveryRunIsFinite == Spec => [][LeavesLess]_vars
<1>1. IInv /\ IInv' /\ [Next]_vars => [LeavesLess]_vars
  BY RemainingStep DEF LeavesLess
<1> QED
  BY <1>1, Invariance, PTL DEF Spec
=============================================================================
