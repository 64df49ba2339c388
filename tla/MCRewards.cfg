SPECIFICATION Spec
CONSTANTS
  PathLength = 4
  BoardIds = {"one", "two", "three"}
  Board <- MCBoard
  Items = {"shield"}
  Counters = {"bank"}
  InitialCounter <- Empty
  InitialCatalog <- Full
  Catalogs <- Later
  Quantities = {0, 2}
  OldSlotServing = TRUE
  MaxEffects = 6
  MaxSteps = 4
  MaxDistance = 6
  MaxFactor = 3
  MaxMission = 3
  MaxRevision = 4
  MaxSessions = 1
  NoItem = NoItem
  NoCounter = NoCounter
INVARIANTS
  LedgerExplainsStock
  StockWithinCatalog
  ReservationsCovered
  CountersConserved
CHECK_DEADLOCK FALSE
