CONSTANTS
  NumWindows = 2
  NumLayers = 0
  XWindows = {2}
  Unmanaged = {}
  Unfocusable = {}
  Transients = {}
  InitialWorkspaces = 2
  MaximumWorkspaceCount = 2
  MaxKeyboards = 1
  Operations = {"window", "unmap", "destroy", "workspace", "show_desktop", "highlight", "window_state"}
SPECIFICATION ShellSpec
INVARIANTS
  HighlightIsUndone
PROPERTIES
  HiddenWindowsAreNotLost
