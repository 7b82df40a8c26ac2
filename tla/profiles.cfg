CONSTANTS
  h1 = h1
  h2 = h2
  h3 = h3
  i1 = i1
  i2 = i2
  p1 = p1
  p2 = p2
  p3 = p3
  p4 = p4
  NoPool = NoPool
  Handlers <- TwoHandlers
  Ids <- TwoIds
  Pools <- FourPools
  MaxWrites = 3
  Coarse = FALSE

SYMMETRY Alike

SPECIFICATION Spec

INVARIANTS
  UsesWhatItLoaded

CHECK_DEADLOCK FALSE
