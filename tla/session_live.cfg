SPECIFICATION FairSpec
CONSTANTS
  p1 = p1
  p2 = p2
  p3 = p3
  NoOne = NoOne
  Requests <- TwoRequests
  MaxEpoch = 3
  MaxFault = 1
PROPERTY EveryRequestAnswers
