SPECIFICATION Spec
CONSTANTS
  Tabs = {b1, b2}
  Users = {u1}
  MaxRecords = 2
  MaxAttempts = 2
  Faults <- EveryFault
  None = None
SYMMETRY Symmetric
CHECK_DEADLOCK FALSE
INVARIANT TypeOK
INVARIANT NoSilentLoss
INVARIANT FifoReplay
INVARIANT LeftForCause
