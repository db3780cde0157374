SPECIFICATION Spec
CONSTANTS
  a = a  b = b
  o1 = o1  o2 = o2  s1 = s1  s2 = s2  s3 = s3  e1 = e1  p1 = p1  p2 = p2
  NoNode = NoNode
  NoLoader = NoLoader
  Table <- MCTable
  Reused <- MCReused
  TableParent <- MCTableParent
  Rel1 <- MCRel1
  RelN <- MCRelN
  From <- MCFrom
  To <- MCTo
  Node <- MCNode
  Tb <- MCTb
  NodeParent <- MCNodeParent
  Child1 <- MCChild1
  ChildN <- MCChildN
  TableKeys <- MCTableKeys
  Loader <- MCLoader
  Doc <- MCDoc
  TempPk <- MCTempPk
  Disciplines = {"phase", "merge"}
  SingleChoices = {TRUE, FALSE}
  MaxFaults = 1
  MaxAttempts = 4
INVARIANTS
  TypeOK
  KeysFaithful
  OneRowPerRecord
  CommittedComplete
  JoinsExact
  NoConflict
  NoMissingKey
  StatsMatchStore
PROPERTIES
  ImplementsStore
