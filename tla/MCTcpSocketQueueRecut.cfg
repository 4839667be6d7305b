SPECIFICATION Spec
CONSTANTS
  Lens = {3}
  LowWater = 1
  HighWater = 1
  QMax = 3
  MaxMsgs = 3
  MaxWire = 6
INVARIANT
  StreamIntact
