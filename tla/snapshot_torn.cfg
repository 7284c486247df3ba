\* A crash while the breadcrumb file is being written.
CONSTANTS
  MaxNode = 3
  MaxCrashes = 1
  MaxFaults = 0
  MaxMeddling = 0
  UserNodes = {}
  MaxRestores = 0
  CheckpointAt = {}
  NoFile = NoFile
  Torn = Torn
SPECIFICATION Spec
INVARIANT RepositoryOpens
