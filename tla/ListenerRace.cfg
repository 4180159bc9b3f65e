\* The comment of Accept against its interleaving with Close.
CONSTANTS
  Conns = {c1, c2}
  Acceptors = {a1}
  Closers = {k1}
  Timeout = 1
  MaxUint = 3
  MaxFails = 1
  NoConn = NoConn
  Nobody = Nobody
SPECIFICATION Spec
INVARIANT IdleOnlyWhenAllClosed
CHECK_DEADLOCK FALSE
