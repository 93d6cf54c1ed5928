CONSTANTS
  NumWindows = 2
  NumLayers = 1
  XWindows = {2}
  Unmanaged = {}
  Unfocusable = {}
  Transients = {}
  InitialWorkspaces = 2
  MaximumWorkspaceCount = 2
  MaxKeyboards = 1
  Operations = {"window", "unmap", "destroy", "surface_destroyed", "activate", "minimize", "all_workspaces", "workspace", "layer", "layer_click", "lock", "ssd"}
SPECIFICATION Spec
INVARIANTS
  FocusIsOnAUsableWindow
  KeyboardAndActivationAgree
  NoWindowFocusUnderExclusiveLayer
