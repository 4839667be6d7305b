SPECIFICATION CSpec
CONSTANTS
  Lens = {2, 3}
  LowWater = 1
  HighWater = 0
  QMax = 3
  MaxMsgs = 4
  MaxWire = 3
  Declared = {3, 4, 6}
  HdrLen = 2
  Capacity = 3
  IndexMod = 4
INVARIANTS
  CTypeOK
  GarbledOnlyPastDamage
  GapsExact
PROPERTY
  ImplementsLossyStream
