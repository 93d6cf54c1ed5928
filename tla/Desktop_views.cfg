CONSTANTS
  NumWindows = 2
  NumLayers = 0
  XWindows = {2}
  Unmanaged = {}
  Unfocusable = {}
  Transients = {}
  InitialWorkspaces = 2
  MaximumWorkspaceCount = 3
  MaxKeyboards = 1
  Operations = {"window", "unmap", "destroy", "minimize", "workspace", "workspace_list", "all_workspaces", "app_switcher", "overview", "x_unminimize", "tile"}
SPECIFICATION Spec
VIEW SceneView
INVARIANTS
  SceneShowsVisibleWindows
PROPERTIES
  RenumberingKeepsTheView
