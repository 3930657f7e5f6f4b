SPECIFICATION Spec
CONSTANTS
  Cpus = {c1, c2}
  Devices = {d1}
  Nobody = Nobody
INVARIANTS TypeOK UsesLive Alone
PROPERTY InvalidationReturns
