CONSTANTS
  a = a
  b = b
  p = p
  q = q
  Services = {a, b}
  Profiles = {p, q}
  Home <- HomeOf
  Nothing = nothing
  MaxCalls = 3
  Connections = {"c", "d"}
  MaxRequests = 2
  MaxChanges = 1
  Texts = {"", "x"}
  Blank = ""
  Paths = {"p"}
  Stored <- StoredTabs
  MaxTabs = 2
  MaxActions = 3
  MaxFaults = 1
  Limit = 5
  MaxPushes = 9
  MaxHistoryFaults = 2

SPECIFICATION SpecPart

INVARIANTS
  ClientIsCurrent
  LoadingIsAsked
  CleanIsSaved
  FileKeeps

PROPERTIES
  CloseLosesNothing
  RestartKeepsTabs

CHECK_DEADLOCK FALSE
