SPECIFICATION FairSpec
CONSTANTS
  Event = {1, 2}
  Supported = {1, 2}
  Addressed = {1}
  Worker = {w1, w2}
  Slow = {w1}
  Faults = {"throw", "lostAnswer", "stop"}
  NoEvent = NoEvent
CHECK_DEADLOCK FALSE
INVARIANTS TypeOK SentWasDelivered
PROPERTY ReachesUser
