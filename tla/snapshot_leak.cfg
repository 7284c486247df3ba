\* Nothing goes wrong: node 1 is pruned while node 4 is being made.
CONSTANTS
  MaxNode = 6
  MaxCrashes = 0
  MaxFaults = 0
  MaxMeddling = 0
  UserNodes = {}
  MaxRestores = 0
  CheckpointAt = {}
  NoFile = NoFile
  Torn = Torn
SPECIFICATION Spec
INVARIANT VictimsLeaveDataset
