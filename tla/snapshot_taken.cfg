\* A crash between zfs snapshot and the publication of the node, and the command after it.
CONSTANTS
  MaxNode = 3
  MaxCrashes = 1
  MaxFaults = 0
  MaxMeddling = 0
  UserNodes = {}
  MaxRestores = 0
  CheckpointAt = {}
  NoFile = NoFile
  Torn = Torn
SPECIFICATION Spec
INVARIANT ExistingIsAdopted
