SPECIFICATION Spec
CONSTANTS
  Delays <- MCDelays
  Skews <- MCSkews
  MaxMsgs = 3
  LatencyMod = 8
INVARIANTS
  TypeOK
  FreedUsedOnlyIfHeld
  ClosesAccountedFor
  StatisticsMeasured
PROPERTIES
  EndsWhenStopped
  KeepsBeating
  EndsWithoutServer
