\* Storing, restoring and exporting, any processes failing at any step.
CONSTANTS
  Blocks = 4
  Capacity = 2
  MaxFaults = 3
SPECIFICATION FairSpec
INVARIANTS
  TypeOK
  CommitsWhole
  RestoresWhole
  NobodyLeftBehind
  LockCoversAll
PROPERTY EverybodyEnds
CHECK_DEADLOCK FALSE
