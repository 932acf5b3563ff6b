CONSTANTS
  speed = speed
  session = session
  Kind <- TwoKinds
  MaxPending = 2
  MaxSent = 3
  MaxInbox = 4

SPECIFICATION Spec


INVARIANT AcceptedAnswerIsFresh

CHECK_DEADLOCK FALSE
