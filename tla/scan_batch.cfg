SPECIFICATION Spec
CONSTANTS
  Requests = {r1, r2, r3}
  a = a
  b = b
  c = c
  e1 = e1
  e2 = e2
  k1 = k1
  k2 = k2
  Scans <- MCScans
  EventOf <- MCEventOf
  KeyOf <- MCKeyOf
  Payloads <- MCPayloads
SYMMETRY Symmetric
CHECK_DEADLOCK FALSE
INVARIANT TypeOK
INVARIANT OncePerEvent
INVARIANT AckedPersisted
INVARIANT ClaimsAccounted
