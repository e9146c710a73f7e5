CONSTANTS
  Threads = {t1, t2}
  Ctxs = {c1, c2}
  Shms = {m1, m2}
  Fds = {1, 2}
  Offsets = {1, 2}
  Addrs = {1, 2}
  ZeroPtr = ZeroPtr
  ConnectMax = 2
  MaxCrashes = 1
  MaxZeros = 2
  InitApart = TRUE
  None = None
SPECIFICATION Spec
INVARIANTS DaemonKnowsClient DeathHeard MappedKept BlocksMatch
CONSTRAINT DeathWithoutZeros
SYMMETRY Symmetry
CHECK_DEADLOCK FALSE
