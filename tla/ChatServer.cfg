CONSTANTS
  c1 = c1  c2 = c2  c3 = c3  t1 = t1  t2 = t2
  NoConn = NoConn  Main = Main
  Conns <- ThreeConns  Threads <- TwoThreads  Fds <- ThreeFds
  Limits = 2  CreateMayFail = TRUE
SPECIFICATION Safety
SYMMETRY ConnsAndThreads
INVARIANTS TypeOK HandedOff SlotsAccounted
PROPERTY AdmissionSafe
CHECK_DEADLOCK FALSE
