SPECIFICATION Spec
CONSTANTS
  A = A
  B = B
  blue = blue
  green = green
  Processes = {blue, green}
  Events = {A, B}
  HeldEvents = {B}
  Rules = {}
  Matching <- MCMatching
  BatchLimit = 2
  Repeats = FALSE
  LossyRetention = FALSE
  MaxJournal = 2
  MaxGeneration = 1
  MaxRecovery = 0
  MaxSessions = 0
  MaxFaults = 2
  NoProcess = NoProcess
  NoCursor = NoCursor
  NoRules = NoRules
PROPERTIES
  Delivered
CHECK_DEADLOCK FALSE
