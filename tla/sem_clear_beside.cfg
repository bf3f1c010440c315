SPECIFICATION FairSpec
CONSTANTS
  p1 = p1
  p2 = p2
  c1 = c1
  c2 = c2
  Threads = {p1, c1, c2}
  Program <- ClearBesideConsumer
  Kind = "Deque"
  MaxItems = 2
CHECK_DEADLOCK FALSE
PROPERTY MutexReleased
