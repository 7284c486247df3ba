\* Node 5 is whole and node 3 is the victim of the next one, in any state.
CONSTANTS
  Last = 5
  Wanted = {3, 5}
  MaxFaults = 1
  MaxCrashes = 1
  MaxMeddling = 1
  Nothing = Nothing
SPECIFICATION FairSpec
INVARIANTS
  TypeOK
  RestoreReaches
  TargetIsPrefix
  ExportCopies
PROPERTY RestoredInTheEnd
