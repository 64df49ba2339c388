SPECIFICATION Spec
CONSTANTS
  PathLength = 2
  MaxDice = 1
  LongPath = 1
  CommandLimit = 2
  MaxRevision = 3
  MaxRare = 2
  None = None
INVARIANTS
  PageSafe
PROPERTIES
  ShownAdvances
  BeginsAtPawn
  MotionIsCurrent
  CatchesUp
  RetiredIsClosed
CONSTRAINT
  Apart
CHECK_DEADLOCK FALSE
