\* Two faults, one for each pass of an apply, and a write of another manager.
SPECIFICATION Spec
CONSTANTS
  Ports = {1, 8}
  Resources = {"ports", "settings", "table", "vlans"}
  Configs <- MCConfigs
  Managed <- MCManaged
  Engines = {1, 3}
  MaxWrites = 1
  MaxFaults = 2
INVARIANTS Verified OnlyDrift TableGuarded OneLossIsMended
PROPERTIES SaysWhatItMeans Settles
