SPECIFICATION FairSpec
CONSTANTS
  Tasks = {t1}
  Calls = {c1}
  MaxQueue = 2
  MaxTaps = 2
  Elsewhere = {"SCHEDULED"}
  None = None
CHECK_DEADLOCK FALSE
PROPERTIES BadgeFollows RefetchAfterFlush
