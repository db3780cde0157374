SPECIFICATION Spec
CONSTANTS
  Sources <- MCSources
  TypeNames <- MCTypeNames
  ModelFor <- MCModelFor
CHECK_DEADLOCK FALSE
INVARIANTS
  OrderIsComplete
  OrderRespectsReads
  GroupsKeepSubtrees
  PathsKept
  TablesReached
  NamesDistinct
