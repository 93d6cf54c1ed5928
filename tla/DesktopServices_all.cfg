CONSTANTS
  Outputs = {o1, o2}
  Configs = {k1}
  NoOutput = none
  Displays = {o1}
  Contexts = {c1, c2}
  Objects = {x1, x2}
  Windows = {w1}
  Nobody = none
  Keys = {"super_s", "ctrl_k", "ctrl_l"}
  BadKeys = {"media"}
  OwnKeys = {"super_s"}
  Labels = {"open"}
  Called <- TwoActions
  Names <- ActionNames
  KeyOf <- SameKey
  System <- SystemActions
  Apps <- ThreeApps
  NoApp = "none"
SPECIFICATION ServicesSpec
SYMMETRY CaptureSymmetry
INVARIANTS
  PrimariesAreDefined
  ConfigurationsAreAlive
  LocksAreOwned
  ContextsAreAnswered
  BindingsAreOwned
  SelectionIsChosen
