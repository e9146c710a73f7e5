SPECIFICATION Spec
CONSTANTS
  a1 = a1
  a2 = a2
  p1 = p1
  p2 = p2
  NoCtx = NoCtx
  NoSess = NoSess
  NoShm = NoShm
  NoFd = NoFd
  NoCA = NoCA
  NoThread = NoThread
  PidOf <- OwnPid
  Ops = {"init", "fin", "open", "invoke", "close", "reg", "alloc", "rel"}
  Mortal = {a1}
  InFlight = 2
  MaxParams = 2
  Faults = {"tid", "malloc", "decode"}
  MaxLost = 1
  Thread = {t1, t2}
  Ctx = {c1, c2}
  Sess = {s1}
  Shm = {m1, m2}
  Fd = {f1, f2}
  NumBits = 1
  MaxCxt = 1
  CA = {a1}
  Pid = {p1}
SYMMETRY Symmetry
INVARIANTS
  ContextRefCount
  ContextNotFreedInUse
  SessionRefCount
  ShmContextLive
CHECK_DEADLOCK FALSE
