SPECIFICATION FairSpec
CONSTANTS
  staff = staff
  boss = boss
  b1 = b1
  b2 = b2
  t1 = t1
  t2 = t2
  Users = {staff, boss}
  Browsers = {b1, b2}
  Tabs = {t1, t2}
  Starts <- MCStarts
  Asked = {"/login", "/dashboard"}
  Changes <- MCChanges
  DeviceOf <- MCDeviceOf
  MaxExchanges = 2
  Secret = TRUE
  None = None
CHECK_DEADLOCK FALSE
INVARIANTS OneIdentity LoggedOutEverywhere BoundWhereLoggedIn
PROPERTIES RedirectsEnd
