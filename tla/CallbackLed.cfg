SPECIFICATION Spec
CONSTANTS
  Drivers = {"blink_led", "control_led_with_button", "gpio_interrupt_toggle_led"}
  MaxEdges = 5
INVARIANTS TypeOK UnloadIsClean OopsOnlyAfterOverlap TogglesPerEdge
PROPERTY LedFollowsButton
CHECK_DEADLOCK FALSE
