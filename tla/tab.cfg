CONSTANTS
  c1 = c1
  c2 = c2
  Home = c1
  Connections <- TwoConnections
  MaxSessions = 2
  MaxRuns = 2

SPECIFICATION FairSpec

INVARIANTS
  RunsOnce
  ScriptTransactionShows

PROPERTIES
  RunsAsAsked
  RunEnds

CHECK_DEADLOCK FALSE
