CONSTANTS
  Starts = {s1, s2}
  Times = 1
SPECIFICATION Spec
PROPERTY ReuseAllowed
CHECK_DEADLOCK FALSE
