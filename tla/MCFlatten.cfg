SPECIFICATION ParsedSpec
CONSTANTS
  Typed <- MCTyped
  Printed <- MCPrinted
  Code <- MCCode
  Pieces <- MCPieces
  Models <- MCModels
  MaxFiles = 3
CHECK_DEADLOCK FALSE
INVARIANTS
  TreesTyped
  KeysResolve
  HashesOnce
  RecordsOfNodes
  StoredOnce
  ParsersAgree
  ValuesFromText
  FitsColumn
  RoundTrip
  ExtractedWhole
