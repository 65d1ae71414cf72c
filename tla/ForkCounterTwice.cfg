CONSTANTS
  Programs = {p, q}
  Increments = 1
  MayKill = FALSE
SPECIFICATION Safety
INVARIANT OneInside
CHECK_DEADLOCK FALSE
