SPECIFICATION Spec
CONSTANTS
  blue = blue
  green = green
  Slots = {blue, green}
  First = green
  Core = Core
  Releases = {1, 2, 3}
  MaxDeploys = 3
  MaxFaults = 2
  MaxReboots = 1
  None = None
INVARIANTS
  DeploySafe
  RollbackRestores
  ReceiptTrue
PROPERTIES
  ServedAgain
CHECK_DEADLOCK FALSE
