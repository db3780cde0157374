SPECIFICATION Spec
CONSTANTS
  Page = {p, q}
  short = short  long = long  broken = broken  wrong = wrong
  Good <- MCGood
  Bad <- MCBad
  Width <- MCWidth
  Initial <- MCInitial
  NoText = NoText
  Saved = Saved
  NetworkError = NetworkError
  MaxRequests = 4
  MaxLost = 1
SYMMETRY Pages
CHECK_DEADLOCK FALSE
INVARIANTS
  LoneAnswerShown
  LoneSaveKept
