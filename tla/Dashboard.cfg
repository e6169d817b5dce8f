SPECIFICATION PageSpec
CONSTANTS
  Browsers = {b1, b2}
  Delays = {"1"}
  NoRow = NoRow
  MaxLate = 1
INVARIANTS PageTypeOK ReadsOwnWrites
PROPERTY DashboardFollows
