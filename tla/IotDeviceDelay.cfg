SPECIFICATION Spec
CONSTANTS
  Commands <- MCDelays
  StaleDigits <- MCNoStaleDigits
PROPERTY DelayIsCommand
