SPECIFICATION PartsSpec
CONSTANTS
  Threads = {t1,t2,t3}
  Conds = {c1}
  Fds = {f1}
  Sleeps = {1}
  Big = 2
  Numbers = 2
  NoThread = NoThread
  NoCond = NoCond
  NoFd = NoFd
  Waiters = {t1,t2,t3}
  Descriptors = {f,g}
  Dirs = {read,write}
  NumEvents = 2
  Args = {a1,a2}
  LastShared = FALSE
  None = None
SYMMETRY Symmetry
INVARIANTS TypeOK OnOneList TimeoutListed TimeoutsSorted NobodyStranded DispatchOnce IInv EventsServed
PROPERTY Cooperates
CHECK_DEADLOCK FALSE
