SPECIFICATION EventsSpec
CONSTANTS
  Waiters = {t1,t2}
  Descriptors = {f1,f2}
  Dirs = {read,write}
  NumEvents = 2
  Args = {a1,a2}
  LastShared = TRUE
  None = None
INVARIANT EventsServed
