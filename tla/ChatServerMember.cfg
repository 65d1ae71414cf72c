CONSTANTS
  c1 = c1  c2 = c2  c3 = c3  t1 = t1  t2 = t2
  NoConn = NoConn  Main = Main
  Conns <- TwoConns  Threads <- TwoThreads  Fds <- TwoFds
  Limits = 2  CreateMayFail = FALSE
SPECIFICATION Safety
INVARIANT ServedIsMember
CHECK_DEADLOCK FALSE
