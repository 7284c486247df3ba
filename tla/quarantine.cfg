\* A clock set back, a crash, a mirror that lags behind as far as it likes.
CONSTANTS
  MaxNode = 4
  MaxTime = 4
  PrimaryTimes = {1, 3}
  MaxSetBacks = 1
  MaxCrashes = 1
  MinGap = 1
  NoFile = NoFile
  Torn = Torn
SPECIFICATION FairSpec
INVARIANTS
  TypeOK
  Throttled
  TrustedInOrder
  KeepsTrusted
PROPERTIES
  QuarantineNeverPrunes
  MirrorIsHistory
  EventuallyTrusted
