SPECIFICATION Spec
CONSTANTS
  a1 = a1
  a2 = a2
  p1 = p1
  p2 = p2
  NoCtx = NoCtx
  NoSess = NoSess
  NoShm = NoShm
  NoFd = NoFd
  NoCA = NoCA
  NoThread = NoThread
  PidOf <- OwnPid
  Ops = {"init", "fin"}
  Mortal = {a1}
  InFlight = 1
  MaxParams = 0
  Faults = {}
  MaxLost = 1
  Thread = {t1, t2}
  Ctx = {c1, c2}
  Sess = {}
  Shm = {}
  Fd = {f1, f2}
  NumBits = 1
  MaxCxt = 1
  CA = {a1, a2}
  Pid = {p1, p2}
SYMMETRY Symmetry
INVARIANTS
  DeadClientReleased
