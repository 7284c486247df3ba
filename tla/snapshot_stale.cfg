\* A crash between the publication of a node and the writing of the breadcrumb.
CONSTANTS
  MaxNode = 3
  MaxCrashes = 1
  MaxFaults = 0
  MaxMeddling = 0
  UserNodes = {}
  MaxRestores = 0
  CheckpointAt = {}
  NoFile = NoFile
  Torn = Torn
SPECIFICATION Spec
PROPERTY StaleBreadcrumbTraversed
