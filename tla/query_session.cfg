CONSTANTS
  Capacity = 2
  Engine = "sqlite"
  InSession = TRUE
  Timed = FALSE

SPECIFICATION FairSpec

INVARIANTS
  FlagIsTrue

CHECK_DEADLOCK FALSE
