SPECIFICATION DonationsSpec
CONSTANTS
  PathLength = 4
  BoardIds = {"one"}
  Board <- MCBoard
  Items = {"gift"}
  Counters = {}
  InitialCounter <- NoCounters
  InitialCatalog <- OneGift
  Catalogs = {}
  Quantities = {}
  OldSlotServing = FALSE
  MaxEffects = 6
  MaxSteps = 4
  MaxDistance = 6
  MaxFactor = 3
  MaxMission = 5
  MaxRevision = 4
  MaxSessions = 1
  Drainers = {blue, green}
  Donors = {"donor"}
  DonationActions <- RollsAndGifts
  Commanded = {}
  DrainLimit = 2
  MaxDonations = 1
  MaxChats = 0
  MaxFaults = 1
  NoDrainer = NoDrainer
  NoItem = NoItem
  NoCounter = NoCounter
  blue = blue
  green = green
INVARIANTS
  ResultsAreTrue
CHECK_DEADLOCK FALSE
