SPECIFICATION Spec
CONSTANTS
  ColumnNames = {"a", "b", "c"}
  TableNames = {"T", "U", "i"}
  IndexNames = {"i", "j", "pkey"}
  KeyNames = {"", "pkey", "pk", "i"}
  DataTypes = {"int", "text"}
  Defaults = {"", "1", "now()"}
  Constants = {"1"}
  Fits <- MCFits
  Grants <- MCGrants
  Loads <- MCLoads
  MaxEdits = 3
INVARIANTS ReachesDesign KeepsData EditsAreSeen RefusedOnlyFor
CHECK_DEADLOCK FALSE
