SPECIFICATION FairSpec
CONSTANTS
  p1 = p1
  p2 = p2
  c1 = c1
  c2 = c2
  Threads = {p1, p2, c1, c2}
  NoThread = NoThread
  Program <- Stack
  Kind = "Vector"
  MaxItems = 3
CHECK_DEADLOCK FALSE
INVARIANTS NeverEmptyAtTake NoLostWakeup
PROPERTIES ImplementsAtomicContainer NoConsumerLeftWaiting
