CONSTANTS
  Conns = {c1, c2, c3}
  Handlers = {h1, h2}
  Threads = {t1}
  Texts = 1
  Few = {c1, c2}
  Starts = {s1, s2}
  Times = 2
SPECIFICATION Spec
INVARIANTS OneHandlerEach AsksForTheOpen OneServer
PROPERTIES AcceptedInTheEnd RelayReaches LeaverClosed RestartWorks
CHECK_DEADLOCK FALSE
