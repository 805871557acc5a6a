CONSTANTS
  Length <- MCLength
  Damage <- MCDamage
  Compression = "gz"
  Servers <- MCServers
  Modes = {TRUE, FALSE}
  Retry = 2
  MaxFaults = 2
  MaxStops = 2
SPECIFICATION Spec
INVARIANTS
  NeverCombined
  ProcessedWhole
PROPERTIES
  ImplementsDelivery
  RefusalRemembered
  LastPublished
