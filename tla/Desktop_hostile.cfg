CONSTANTS
  NumWindows = 2
  NumLayers = 0
  XWindows = {2}
  Unmanaged = {}
  Unfocusable = {}
  Transients = {}
  InitialWorkspaces = 1
  MaximumWorkspaceCount = 1
  MaxKeyboards = 1
  Operations = {"window", "unmap", "destroy", "surface_destroyed", "minimize", "x_unminimize", "maximize", "tile", "interactive", "kept_above", "keyboard", "grab", "lock"}
SPECIFICATION Spec
INVARIANTS
  NoDesktopFocusWhileLocked
  XwmFocusIsUsable
  AnimationShowsNoHidden
