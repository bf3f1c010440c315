SPECIFICATION FairSpec
CONSTANTS
  p1 = p1
  p2 = p2
  c1 = c1
  c2 = c2
  Threads = {p1, p2, c1, c2}
  Program <- BothEnds
  Kind = "Deque"
  MaxItems = 3
CHECK_DEADLOCK FALSE
INVARIANTS TokensMatchItems NeverEmptyAtTake ExactlyOnce
PROPERTIES ImplementsAtomicContainer OnlyClearBlocks NoConsumerLeftWaiting
