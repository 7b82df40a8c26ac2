CONSTANTS
  c1 = c1
  c2 = c2
  Connections <- TwoConnections
  Home = c1
  MaxSessions = 0
  MaxRuns = 0
  Columns <- MCColumns
  Rows <- MCRows
  Lists <- MCLists
  Keys = {1, 2, 3}
  Values = {4}
  MaxResults = 2
  MaxClicks = 2
  Written <- MCWritten
  MaxWrites = 1

SPECIFICATION SpecEdits

INVARIANTS
  EditsStayOnTheirRows
  AppliesAsShown

CHECK_DEADLOCK FALSE
