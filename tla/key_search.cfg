\* A restore with the passphrase of a key pair that is not in the first slot.
CONSTANTS
  Process = {p1, p2}
  Key = {k1, k2}
  NoFile = NoFile
  Torn = Torn
  Nobody = Nobody
  MaxKeySlots = 2
  MaxPayloads = 1
  MaxCrashes = 0
SPECIFICATION Spec
INVARIANT AnyPassphraseOpens
