CONSTANTS
  b1 = b1
  f1 = f1
  z1 = z1
  u1 = u1
  c1 = c1
  c2 = c2
  e1 = e1
  e2 = e2
  Seed <- MCSeed
  Requests = {r1, r2}
  Codes <- MCCodes
  Emails <- MCEmails
  None = None
  Gone = Gone
  MaxRuns = 2
SPECIFICATION Spec
SYMMETRY Alike
CHECK_DEADLOCK FALSE
INVARIANTS ReferencesHold ServerErrorExplained NightlyCovers AuditBacked
PROPERTY ImplementsRegistry
