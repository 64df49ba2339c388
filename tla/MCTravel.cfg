SPECIFICATION Spec
CONSTANTS
  PathLength = 4
  BoardIds = {"one", "endless"}
  Board <- MCBoard
  Items = {}
  Counters = {}
  InitialCounter <- NoCounters
  InitialCatalog <- NoCatalog
  Catalogs = {}
  Quantities = {1}
  OldSlotServing = FALSE
  MaxEffects = 6
  MaxSteps = 4
  MaxDistance = 6
  MaxFactor = 3
  MaxMission = 5
  MaxRevision = 5
  MaxSessions = 1
  NoItem = NoItem
  NoCounter = NoCounter
INVARIANTS
  TypeOK
  TravelIsUnique
  EndedIsQuiet
PROPERTIES
  ReservedTurnHonoured
  TripIsAllowed
  LockHoldsPawn
  PawnIsPresented
  CommandsEnd
CHECK_DEADLOCK FALSE
