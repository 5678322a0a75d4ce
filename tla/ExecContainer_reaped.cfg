CONSTANTS
  Child = child
  Grandchild = grandchild
  Runtime = runtime
  Procs <- MCProcs
  ExitCodes <- MCExitCodes
  MaxSignals = 1
  Capacity = 1
SPECIFICATION FairSpec
PROPERTY ExitCodeIsReaped
CHECK_DEADLOCK FALSE
