CONSTANTS
  Child = child
  Grandchild = grandchild
  Runtime = runtime
  Procs <- MCProcs
  ExitCodes <- MCExitCodes
  MaxSignals = 1
  Capacity = 1
SPECIFICATION FairSpec
INVARIANTS
  UnreapedWhileForwarding
  ExitCodeIsTheChilds
  MonitoredBeforeProceeding
  FailureKillsCommand
PROPERTY ExecEnds
CHECK_DEADLOCK FALSE
