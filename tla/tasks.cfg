CONSTANTS
  MaxCalls = 3
  Tables = {"t"}
  Nothing = "nothing"
  MaxImports = 1
  MaxOpenings = 2
  MaxRows = 5
  BatchRows = 2
  Engine = "postgres"
  Connections = {"c", "d"}
  Shapes = {"a", "b"}
  MaxLength = 3
  MaxRuns = 1
  Exports = {"e"}
  MaxExportRows = 3
  RowsPerSheet = 2
  MaxTurns = 2
  MaxMessages = 2
  MessageTools = {"none", "hidden"}
  Errors = {FALSE, TRUE}

SPECIFICATION SpecPart

INVARIANTS
  NothingCommitted
  AnsweredIsUndone
  FinishedExportsShown
  OwnAnswersOnly
  EachTextOnce

PROPERTY
  AllOrNothing

CHECK_DEADLOCK FALSE
