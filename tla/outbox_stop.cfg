SPECIFICATION FairSpec
CONSTANTS
  Event = {1, 2}
  Supported = {1}
  Publisher = {p1, p2}
  Faults = {"throw", "lostAnswer", "stop"}
  NoEvent = NoEvent
CHECK_DEADLOCK FALSE
PROPERTIES QueuedInTheEnd
