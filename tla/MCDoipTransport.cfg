CONSTANTS
  speed = speed
  session = session
  Kind <- TwoKinds
  MaxPending = 2
  MaxSent = 3
  MaxInbox = 4

SPECIFICATION FairSpec

INVARIANT TypeOK
INVARIANT CleanAnswersMatch
INVARIANT LagBounded
PROPERTY AnswersComeInOrder
PROPERTY ExchangesReturn

CHECK_DEADLOCK FALSE
