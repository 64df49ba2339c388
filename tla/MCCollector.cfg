SPECIFICATION Spec
CONSTANTS
  A = A
  B = B
  blue = blue
  green = green
  Processes = {blue, green}
  Events = {A, B}
  HeldEvents = {}
  Rules = {"rules"}
  Matching <- MCMatching
  BatchLimit = 1
  Repeats = TRUE
  LossyRetention = TRUE
  MaxJournal = 2
  MaxGeneration = 2
  MaxRecovery = 1
  MaxSessions = 2
  MaxFaults = 1
  NoProcess = NoProcess
  NoCursor = NoCursor
  NoRules = NoRules
SYMMETRY SlotsAndEvents
CONSTRAINT Apart
INVARIANTS
  TypeOK
  AlertedOnce
PROPERTIES
  IntakeKept
  DonationsBelong
CHECK_DEADLOCK FALSE
