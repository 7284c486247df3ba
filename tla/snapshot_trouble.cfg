\* A crash at any step, a failure of zfs, a snapshot that the user destroys or rolls
\* back to, and the directory put back to a checkpoint, also one taken in the middle
\* of a command: each once, in any order.  Node 6 is the parent of 7.
CONSTANTS
  MaxNode = 9
  MaxCrashes = 1
  MaxFaults = 1
  MaxMeddling = 1
  UserNodes = {6}
  MaxRestores = 1
  CheckpointAt <- Checkpoints
  NoFile = NoFile
  Torn = Torn
SPECIFICATION Spec
INVARIANTS
  TypeOK
  Retention
  NothingOverstays
  FailsOnlyForCause
  ChainIntact
PROPERTIES
  KeepsHistory
  SuccessIsFresh
  CommandEnds
