CONSTANTS
  a = a
  b = b
  Torn = Torn
  Nothing = Nothing
  Default = a
  Settings <- TwoSettings

SPECIFICATION FairSpec

INVARIANTS
  FileIsProven
  SavedOrReported

PROPERTIES
  RequestsAreHandled
