CONSTANTS
  Cas = {c1, c2}
  SleepCount = 2
  None = None
SPECIFICATION Spec
INVARIANTS LoginIsPeers TimeKnown
PROPERTY ConnectEnds
CHECK_DEADLOCK FALSE
