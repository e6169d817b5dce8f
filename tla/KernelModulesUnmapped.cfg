SPECIFICATION Spec
CONSTANTS
  Drivers = {"blink_ioremap"}
  MaxTimes = 0
INVARIANT NoUnmappedAccess
CHECK_DEADLOCK FALSE
