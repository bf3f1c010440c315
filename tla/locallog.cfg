SPECIFICATION Spec
CONSTANTS
  Threads = {t1, t2}
  Nobody = Nobody
  MaxDays = 1
INVARIANT NeverClosed
