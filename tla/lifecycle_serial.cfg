SPECIFICATION Spec
CONSTANTS
  Tasks = {t1}
  Users = {u1}
  Zones = {z1}
  ZoneOf <- MCZoneOf
  Times <- MCTimes
  Second = 1
  None = None
  Requests = {r1, r2, r3, r4}
  Endpoints <- PatchEndpoints
  Concurrent = FALSE
CHECK_DEADLOCK FALSE
PROPERTY ImplementsProtocol
