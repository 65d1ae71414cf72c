CONSTANTS
  Processes = {p}
  Increments = 2
  MayKill = TRUE
  Capacity = 2
  Lines = 2
  Clients = 2
  Texts = 1
  Most = 3
SPECIFICATION Spec
INVARIANTS OneInside NothingLost CaughtUp OneWay
           ServesItsOwn BlankKept FullDuplex NameIsTypist Sorted Saved
PROPERTIES EveryoneEnds ClientEnds
CHECK_DEADLOCK FALSE
