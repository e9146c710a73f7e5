SPECIFICATION Spec
CONSTANTS
  InitRetries = 1
  MaxFolds = 2
  MaxCalls = 1
  MaxEvents = 3
INVARIANTS
  NothingHeldIdle
  UnloadedQuiet
  PanelCurrent
  CallEndsTui
CHECK_DEADLOCK FALSE
