SPECIFICATION Spec
CONSTANTS
  Drivers = {"blink_ioremap", "blink_iowrite32", "button_ioread32", "blink_devm", "gpio_control", "interrupt", "interrupt_by_name", "pcf8574"}
  MaxTimes = 3
INVARIANTS TypeOK NothingLeftBehind LoadedConsistent ProbedUnloadIsClean ConfiguredBeforeDriven
PROPERTIES UnloadEnds LedFollowsButton Waves
CHECK_DEADLOCK FALSE
