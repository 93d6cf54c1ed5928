CONSTANTS
  NumWindows = 2
  Decorated = {1}
  TakesTouch = {2, 3}
  Buttons = {"left"}
  TouchIds = {1, 2}
  MaxPressed = 2
  Events = {"touch_cancel", "unplug", "previews", "selector", "lock"}
SPECIFICATION Spec
INVARIANTS
  TouchIsTracked
  LockedInput
