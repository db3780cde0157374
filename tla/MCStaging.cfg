SPECIFICATION FairSpec
CONSTANTS
  a = a
  b = b
  p = p
  q = q
  Loader = {a, b}
  Model = {p, q}
  Tables <- MCTables
  Columns <- MCColumns
  Defaults <- MCDefaults
  FileThreshold = 2
  Cases <- MCCases
  MaxFaults = 1
CHECK_DEADLOCK FALSE
INVARIANTS
  StagedWhole
  PrefixesSeparate
  TempsDropped
  BulkLoadHonoured
PROPERTY
  LoadsEnd
