SPECIFICATION Spec
CONSTANTS
  c1 = c1
  c2 = c2
  a = a
  b = b
  x = x
  NoConn = NoConn
  Conns <- MCConns
  Symbols <- MCSymbols
  Spun <- MCSpun
  CheckEvery = 2
INVARIANT
  NoDeltaMissed
