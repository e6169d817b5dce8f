SPECIFICATION Spec
CONSTANTS
  Instances = {{"blink", "button"}, {"sysfs_button", "sysfs_read"}, {"sysfs_blink", "gpio_write", "sysfs_read"}, {"gpio_read"}}
  NoCopy = NoCopy
INVARIANT FunctionsHold
PROPERTIES LedsObey
