CONSTANTS
  KeyNames = {"super", "alt", "shift", "s", "a", "tab", "f9", "return"}
  BindingNames = {"super_s", "super_a", "alt_tab", "alt_shift_tab", "alt_f9"}
  Events = {"selector", "pointer", "lock"}
SPECIFICATION Spec
VIEW KeysView
INVARIANTS
  OverviewsExclude
  SwitcherNeedsAlt
