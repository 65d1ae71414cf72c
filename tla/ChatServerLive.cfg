CONSTANTS
  c1 = c1  c2 = c2  c3 = c3  t1 = t1  t2 = t2
  NoConn = NoConn  Main = Main
  Conns <- ThreeConns  Threads <- OneThread  Fds <- TwoFds
  Limits = 1  CreateMayFail = FALSE
SPECIFICATION Spec
PROPERTY AdmissionLive
CHECK_DEADLOCK FALSE
