\* Two accept loops, serialised by acceptMu; two connections, two goroutines
\* closing them; idle exits without end, one failed process started again. systemd
\* may give up.
CONSTANTS
  Conns = {c1, c2}
  Acceptors = {a1, a2}
  Closers = {k1, k2}
  Timeout = 2
  MaxUint = 3
  MaxFails = 1
  NoConn = NoConn
  Nobody = Nobody
  Config <- Unit
  MaxStarts = 1
SPECIFICATION ActivationSpec
INVARIANTS TypeOK CounterExact NeverUnarmed ExitJustified
PROPERTIES IdleEventuallyExits QueuedIsAccepted
CHECK_DEADLOCK FALSE
