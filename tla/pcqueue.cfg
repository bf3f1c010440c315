SPECIFICATION FairSpec
CONSTANTS
  p1 = p1
  p2 = p2
  c1 = c1
  c2 = c2
  Threads = {p1, p2, c1, c2}
  NoThread = NoThread
  Program <- Clients
  MaxItems = 2
CHECK_DEADLOCK FALSE
INVARIANTS FifoNothingLost NoLostWakeup
PROPERTIES ImplementsAtomicQueue NoConsumerLeftWaiting GetoReturns
