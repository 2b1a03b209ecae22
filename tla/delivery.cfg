SPECIFICATION DeliverySpec
CONSTANTS
  Event = {1, 2}
  Supported = {1, 2}
  Addressed = {1}
  Worker = {w1, w2}
  Slow = {w1}
  Faults = {"throw", "lostAnswer", "stop"}
  NoEvent = NoEvent
  Message = {1}
  Publisher = {p1, p2}
  Sender = {w1, w2}
  SlowSender = {w1}
  PublisherFaults = {"throw", "lostAnswer"}
  SenderFaults = {"throw", "lostAnswer", "stop"}
CHECK_DEADLOCK FALSE
INVARIANTS OneWorkerPerRow NotifiedOnce
PROPERTIES SentIsFinal UsersAreNotified PublishersKeepTheQueue
