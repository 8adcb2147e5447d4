CONSTANTS
  p1 = p1
  p2 = p2
  p3 = p3
  Contacts = {p1, p2}
  Calls = {p1, p2}
  Workers = {}
  MaxCrashes = 0
  Controls = {"close", "mark", "reopen", "archive", "task"}
  Journeys = {p1, p2}
  Forms = {"form"}
  Sellers = {"seller"}
  Places = {"old", "new"}
  AssetClasses = {"house"}
  Leads = {1, 2, 3}
  Requests = {p3}
  FormAttempts = 1
  None = None
  Kinds = {"stage1", "stage2"}
  Staff = {"rep"}
  Senders = {p1, p2}
  AlertAttempts = 2
  MaxTexts = 2
  Nothing = Nothing
  Keys = {p1, p2, p3}
  MaxKeys = 2
  Limit = 2
  Window = 4
  PerSecond = 2
  MaxTime = 5
  Lanes = 2
  Errors = {p1, p2}
  RetryBase = 1
  RetryMax = 2
  StaleAfter = 1
  StallAfter = 2
  MaxRecorded = 3
SPECIFICATION ServicesSpec
SYMMETRY Symmetry
INVARIANTS
  RowsTyped
  LimiterExact
  OneLeadPerSeller
  AlertsInOrder
  SilenceShows
  ClosedLeadRests
  NoContactLost
PROPERTIES
  ClosedByItsOwnText
CHECK_DEADLOCK FALSE
