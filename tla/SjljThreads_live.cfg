SPECIFICATION Spec
CONSTANTS
  t1 = t1
  t2 = t2
  t3 = t3
  Conds = {c1}
  Fds = {f1}
  NoThread = NoThread
  NoCond = NoCond
  NoFd = NoFd
PROPERTIES EveryTurnComes EventWakes SleeperWakes
CHECK_DEADLOCK FALSE
