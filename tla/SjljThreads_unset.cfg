SPECIFICATION Spec
CONSTANTS
  Threads = {t1,t2}
  Conds = {c1}
  Fds = {f1}
  Sleeps = {1,2}
  Big = 3
  Numbers = 2
  NoThread = NoThread
  NoCond = NoCond
  NoFd = NoFd
INVARIANT SelectTimeoutAssigned
CHECK_DEADLOCK FALSE
