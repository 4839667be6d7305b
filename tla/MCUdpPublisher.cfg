SPECIFICATION Spec
CONSTANTS
  a1 = a1
  a2 = a2
  NoAddr = NoAddr
  Addrs <- MCAddrs
  Spins = 2
  CheckEvery = 2
  IndexMod = 3
INVARIANTS
  TypeOK
  StableWhilePublishing
PROPERTIES
  IndexContinuous
  KeepsPublishing
  EverySubscriberServed
  NoDeadSubscriber
