SPECIFICATION Spec
CONSTANTS
  Page = {p}
  short = short  long = long  broken = broken  wrong = wrong
  Good <- MCGood
  Bad <- MCBad
  Width <- MCWidth
  Initial <- MCInitial
  NoText = NoText
  Saved = Saved
  NetworkError = NetworkError
  MaxRequests = 4
  MaxLost = 0
CHECK_DEADLOCK FALSE
INVARIANT DiagramFollowsEdits
