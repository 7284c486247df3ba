CONSTANT TopBit = 64
SPECIFICATION Spec
INVARIANTS
  TypeOK
  ReportsItsSet
  ThinsOut
PROPERTY Terminates
