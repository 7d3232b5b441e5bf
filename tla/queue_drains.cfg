SPECIFICATION FairSpec
CONSTANTS
  Tabs = {b1}
  Users = {u1}
  MaxRecords = 2
  MaxAttempts = 2
  Faults <- TransportFaults
  None = None
CHECK_DEADLOCK FALSE
PROPERTY Drains
