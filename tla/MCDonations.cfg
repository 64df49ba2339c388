SPECIFICATION DonationsSpec
CONSTANTS
  PathLength = 4
  BoardIds = {"one"}
  Board <- MCBoard
  Items = {"gift"}
  Counters = {}
  InitialCounter <- NoCounters
  InitialCatalog <- OneGift
  Catalogs <- NoGifts
  Quantities = {}
  OldSlotServing = FALSE
  MaxEffects = 6
  MaxSteps = 4
  MaxDistance = 6
  MaxFactor = 3
  MaxMission = 5
  MaxRevision = 3
  MaxSessions = 2
  Drainers = {blue, green}
  Donors = {"donor"}
  DonationActions <- RollsAndGifts
  Commanded = {"end_session"}
  DrainLimit = 2
  MaxDonations = 2
  MaxChats = 0
  MaxFaults = 1
  NoDrainer = NoDrainer
  NoItem = NoItem
  NoCounter = NoCounter
  blue = blue
  green = green
SYMMETRY Slots
INVARIANTS
  ExecutedExactly
PROPERTIES
  DonationsStayInSession
CHECK_DEADLOCK FALSE
