SPECIFICATION Spec
CONSTANTS
  Tasks = {t1}
  Users = {u1, u2}
  Zones = {z1}
  ZoneOf <- MCZoneOf
  Times <- MCShortTimes
  Second = 1
  None = None
  Requests = {r1, r2, r3}
  Endpoints <- EveryEndpoint
  Concurrent = TRUE
SYMMETRY Symmetric
CHECK_DEADLOCK FALSE
INVARIANT TypeOK
INVARIANT StampsBacked
INVARIANT ScanBacked
INVARIANT AnsweredScanned
PROPERTY OnlyOwnerMovesTask
