SPECIFICATION ParsedSpec
CONSTANTS
  Typed <- MCTyped
  Printed <- MCPrinted
  Code <- MCCode
  Pieces <- MCPieces
  Models <- MCModels
  MaxFiles = 2
CHECK_DEADLOCK FALSE
INVARIANT MetadataKept
