CONSTANTS
  h1 = h1
  h2 = h2
  s1 = s1
  s2 = s2
  NoOne = NoOne
  NoSession = NoSession
  Handlers <- TwoHandlers
  Ids <- TwoIds
  MaxPerToken = 1

SYMMETRY Alike

SPECIFICATION Spec

INVARIANTS
  Exclusive
  CapWithinRaces

PROPERTIES
  ReaperSparesRunning

