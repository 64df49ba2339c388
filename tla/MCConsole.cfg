SPECIFICATION Spec
CONSTANTS
  create = create
  end = end
  Intents = {create, end}
  Creates = {create}
  Ends = {end}
  MaxOthers = 1
  MaxLost = 2
  MaxReloads = 1
  MaxPolls = 1
  MaxSequence = 3
  None = None
INVARIANTS
  ConsoleSafe
PROPERTIES
  OutcomesKept
  PendingResolves
CHECK_DEADLOCK FALSE
