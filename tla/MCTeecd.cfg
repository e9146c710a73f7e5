CONSTANTS
  MaxAsked = 3
  MaxGhosts = 1
  EarlyAsk = TRUE
  MaxCalls = 2
  DirFiles <- MCDirFiles
  PromptWorker = TRUE
SPECIFICATION FairSpec
INVARIANTS AgentsMatch FallbackComplete
PROPERTIES ImplementsAgentCall BootCompletes SecRequestEnds
CHECK_DEADLOCK FALSE
