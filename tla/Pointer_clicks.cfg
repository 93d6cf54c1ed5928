CONSTANTS
  NumWindows = 2
  Decorated = {1}
  TakesTouch = {2, 3}
  Buttons = {"left", "right"}
  TouchIds = {1}
  MaxPressed = 2
  Events = {"request_menu", "multitasking", "lock"}
SPECIFICATION Spec
INVARIANTS
  HeldWindowsAreMapped
  ReleaseFollowsPress
  NoStuckButton
