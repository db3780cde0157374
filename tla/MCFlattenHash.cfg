SPECIFICATION ParsedSpec
CONSTANTS
  Typed <- MCTyped
  Printed <- MCPrinted
  Code <- MCCode
  Pieces <- MCPieces
  Models <- DeliveryModels
  MaxFiles = 2
CHECK_DEADLOCK FALSE
INVARIANT HashIdentifies
