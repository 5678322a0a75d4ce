CONSTANTS
  HookCounts <- AnyCounts
  ExitCodes <- MCExitCodes
  Capacity = 2
  MaxLogs = 1
  RuntimeMayDie = TRUE
SPECIFICATION Spec
INVARIANTS
  HooksInOrder
  NoUnpreparedExec
  NoPoststartAfterFailure
  RecordCoversContainer
  FaithfulExitCode
