CONSTANTS
  h1 = h1
  h2 = h2
  s1 = s1
  s2 = s2
  NoOne = NoOne
  NoSession = NoSession
  Handlers <- TwoHandlers
  Ids <- OneId
  MaxPerToken = 1

SPECIFICATION FairSpec

PROPERTIES
  DeletedDrains

