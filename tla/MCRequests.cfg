SPECIFICATION DonationsSpec
CONSTANTS
  PathLength = 4
  BoardIds = {"one"}
  Board <- MCBoard
  Items = {"gift"}
  Counters = {}
  InitialCounter <- NoCounters
  InitialCatalog <- NoGift
  Catalogs = {}
  Quantities = {}
  OldSlotServing = FALSE
  MaxEffects = 6
  MaxSteps = 4
  MaxDistance = 6
  MaxFactor = 3
  MaxMission = 5
  MaxRevision = 3
  MaxSessions = 1
  Drainers = {blue}
  Donors = {"donor"}
  DonationActions <- Destinations
  Commanded = {"choose_destination", "cancel_destination", "roll_dice", "end_session"}
  DrainLimit = 2
  MaxDonations = 1
  MaxChats = 1
  MaxFaults = 0
  NoDrainer = NoDrainer
  NoItem = NoItem
  NoCounter = NoCounter
  blue = blue
  green = green
INVARIANTS
  DonationsTypeOK
PROPERTIES
  DestinationSettledOnce
  RequestsClose
  LockHoldsPawn
CHECK_DEADLOCK FALSE
