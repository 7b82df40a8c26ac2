CONSTANTS
  Capacity = 2
  Engine = "postgres"
  InSession = FALSE
  Timed = TRUE

SPECIFICATION FairSpec

INVARIANTS
  LeavesNothingRunning

PROPERTIES
  StreamSpec
  Ends

CHECK_DEADLOCK FALSE
