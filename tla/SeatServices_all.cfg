CONSTANTS
  Services = {s1, s2}
  Types = {"switch", "menu"}
  Blacklists = {{}, {"all"}, {"switch"}, {"switch", "menu"}}
  Touches = {t1, t2}
  Ids = {1, 2}
  PadFingers = {2, 3}
  Directions = {"up", "left"}
  Bindings <- ThreeFingerBindings
  Service = FALSE
  Timeouts = {k, k0, o, o0, n}
  Kde = {k, k0}
  Obeying = {o, o0}
  Instant = {k0, o0}
  IdleSurfaces = {s1, s2}
  LockSurfaces = {s2}
  Clients = {c1, c2}
  MimeTypes = {text, image}
  Readers = {r1}
  MaxChunks = 2
  kMaxSelectionSize = 3
  SelectionEvents = {"clear", "error"}
  NumInputs = 4
  V1 = {1}
  V2 = {2}
  Surfaces = {s1, s2, s3}
  OtherInputs = {2, 4}
  OtherSurfaces = {s3}
  InputEvents = {}
SPECIFICATION SeatSpec
INVARIANTS
  BlocksAreCounted
  SwipeIsRemembered
  HandledIsCancelled
  HoldIsOfFingersDown
  IdleIsNeverLost
  KeptIsTheLastCopy
  PointersAreAlive
  ActiveIsFocused
  EnabledIsServed
PROPERTIES
  ClipboardIsKept
  PasteEnds
