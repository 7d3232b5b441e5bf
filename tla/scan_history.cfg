SPECIFICATION Spec
CONSTANTS
  u = u
  v = v
  Users = {u, v}
  Scans <- MCScans
  Take = 3
  MaxLoads = 1
  None = None
CHECK_DEADLOCK FALSE
INVARIANTS StaysSound TotalInSpan
