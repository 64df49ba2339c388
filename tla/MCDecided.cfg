SPECIFICATION DonationsSpec
CONSTANTS
  PathLength = 4
  BoardIds = {"one"}
  Board <- MCPlainBoard
  Items = {"gift"}
  Counters = {}
  InitialCounter <- NoCounters
  InitialCatalog <- OneGift
  Catalogs = {}
  Quantities = {}
  OldSlotServing = FALSE
  MaxEffects = 6
  MaxSteps = 4
  MaxDistance = 6
  MaxFactor = 3
  MaxMission = 5
  MaxRevision = 3
  MaxSessions = 1
  Drainers = {blue}
  Donors = {"donor"}
  DonationActions <- RollsAndMissions
  Commanded = {"pause", "resume"}
  DrainLimit = 2
  MaxDonations = 3
  MaxChats = 0
  MaxFaults = 1
  NoDrainer = NoDrainer
  NoItem = NoItem
  NoCounter = NoCounter
  blue = blue
  green = green
PROPERTIES
  Decided
CHECK_DEADLOCK FALSE
