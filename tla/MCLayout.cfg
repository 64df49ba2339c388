SPECIFICATION Spec
CONSTANTS
  ann = ann
  bob = bob
  carl = carl
  board = board
  dice = dice
  Operators = {ann, bob}
  Editors = {carl}
  Widgets = {board}
  Invalid = {1}
  MaxEdits = 3
  MaxVersions = 1
  MaxRevision = 4
  MaxFaults = 1
  None = None
INVARIANTS
  LayoutSafe
PROPERTIES
  PublishedAsReviewed
  EditsSettle
CHECK_DEADLOCK FALSE
