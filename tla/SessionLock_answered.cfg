CONSTANTS
  Outputs = {o1, o2}
  MaxPlugs = 2
  Events = {"surface", "discard", "hotplug", "power"}
SPECIFICATION FairSpec
PROPERTIES
  LockIsAnswered
