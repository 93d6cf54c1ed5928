CONSTANTS
  KeyNames = {"alt", "x", "f3"}
  BindingNames = {"alt_x", "alt_f3"}
  Events = {"register", "block", "inhibit", "capture", "im", "unplug", "focus", "lock", "repeat"}
SPECIFICATION Spec
INVARIANTS
  ShortcutStateBalanced
  NoStuckKey
