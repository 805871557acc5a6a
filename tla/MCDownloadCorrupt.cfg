CONSTANTS
  Length <- MCTwoVersions
  Damage <- MCDeflateDamage
  Compression = "gz"
  Servers <- MCOneServer
  Modes = {TRUE}
  Retry = 1
  MaxFaults = 0
  MaxStops = 0
SPECIFICATION Spec
PROPERTIES
  CorruptFetchedAfresh
