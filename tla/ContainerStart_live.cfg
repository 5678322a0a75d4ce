CONSTANTS
  HookCounts <- OneOrNone
  ExitCodes <- MCExitCodes
  Capacity = 1
  MaxLogs = 1
  RuntimeMayDie = FALSE
SPECIFICATION FairSpec
PROPERTIES
  LifecycleSpec
  StartSettles
  EndIsNoticed
