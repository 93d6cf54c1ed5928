CONSTANTS
  Outputs = {o1, o2}
  MaxPlugs = 1
  Events = {"surface", "discard", "hotplug", "power", "place", "backend_resize"}
SPECIFICATION Spec
SYMMETRY OutputSymmetry
INVARIANTS
  LockedMeansHidden
  BlankCoversOutputs
PROPERTIES
  KeepsPromise
