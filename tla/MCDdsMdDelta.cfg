SPECIFICATION Spec
CONSTANTS
  MaxReaders = 2
  MaxRecorded = 3
INVARIANTS
  TypeOK
  NoLostMatch
  GapsExact
PROPERTY
  KeepsWriting
