SPECIFICATION Spec
CONSTANTS
  a1 = a1
  a2 = a2
  p1 = p1
  p2 = p2
  NoCtx = NoCtx
  NoSess = NoSess
  NoShm = NoShm
  NoFd = NoFd
  NoCA = NoCA
  NoThread = NoThread
  PidOf <- OwnPid
  Ops = {"init", "fin", "open", "invoke", "close", "reg", "alloc", "rel"}
  Mortal = {a1}
  InFlight = 3
  MaxParams = 0
  Faults = {}
  MaxLost = 1
  Thread = {t1, t2, t3}
  Ctx = {c1}
  Sess = {s1, s2}
  Shm = {m1, m2}
  Fd = {f1}
  NumBits = 2
  MaxCxt = 1
  CA = {a1}
  Pid = {p1}
SYMMETRY Symmetry
INVARIANTS
  ShmRefCount
  OffsetExclusive
  NothingOrphaned
CHECK_DEADLOCK FALSE
