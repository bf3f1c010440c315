SPECIFICATION IOSpec
CONSTANTS
  Retries = {1, 2, 3}
  Timeouts = {0, 5}
  StaleErrnos = {"0", "ETIMEDOUT"}
  MaxCalls = 3
  Count = 2
  Buffers = {1, 3}
  Room = 1
  MaxBytes = 4
  MaxTransfers = 3
CHECK_DEADLOCK FALSE
INVARIANTS ReturnsConnected ReadsWhole WritesWhole
PROPERTY CallsReturn
