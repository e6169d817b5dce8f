SPECIFICATION Spec
CONSTANTS
  Commands <- MCCommands
  StaleDigits <- MCStaleDigits
PROPERTIES ButtonReachesDatabase CommandReachesLed
