SPECIFICATION FairSpec
CONSTANTS
  MaxConns = 4
  Fds = {f1, f2, f3}
  NoFd = NoFd
  NoThread = NoThread
  AcceptMayFail = TRUE
CHECK_DEADLOCK FALSE
INVARIANTS ServesOwnConnection OneHandoffAtATime
PROPERTY HandoffCompletes
