SPECIFICATION Spec
CONSTANTS
  a = a  b = b
  o1 = o1  o2 = o2  s1 = s1  s2 = s2  s3 = s3  e1 = e1  p1 = p1  p2 = p2
  NoNode = NoNode
  NoLoader = NoLoader
  Table <- MCTable
  Reused <- MCReused
  TableParent <- MCTableParent
  Rel1 <- Rel1V2
  RelN <- MCRelN
  From <- FromV2
  To <- ToV2
  Node <- MCNode
  Tb <- MCTb
  NodeParent <- MCNodeParent
  Child1 <- Child1V2
  ChildN <- ChildNV2
  TableKeys <- TableKeysV2
  Loader <- MCLoader
  Doc <- MCDoc
  TempPk <- MCTempPk
  Disciplines = {"phase"}
  SingleChoices = {TRUE, FALSE}
  MaxFaults = 1
  MaxAttempts = 2
INVARIANTS
  CommittedComplete
