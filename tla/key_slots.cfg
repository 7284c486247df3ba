\* Commands run at the same time on a repository that is being created.
CONSTANTS
  Process = {p1, p2, p3}
  Key = {k1, k2, k3}
  NoFile = NoFile
  Torn = Torn
  Nobody = Nobody
  MaxKeySlots = 2
  MaxPayloads = 1
  MaxCrashes = 1
SPECIFICATION Spec
SYMMETRY Symmetry
INVARIANTS
  TypeOK
  KeysStayReachable
  PromisedKeysOpen
  OneCreator
  OpensOnlyWhole
  FirstPassphraseOpens
