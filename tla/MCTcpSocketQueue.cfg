SPECIFICATION Spec
CONSTANTS
  Lens = {3, 4}
  LowWater = 2
  HighWater = 2
  QMax = 5
  MaxMsgs = 6
  MaxWire = 9
INVARIANTS
  QueueBounded
  StreamIntactUnlessRecut
  EveryRecordAccounted
