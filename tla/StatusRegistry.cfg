CONSTANTS
  Runners = {r1, r2}
  Clients = {c1}
  Nobody = Nobody
  Pids = {1, 2}
  MaxClock = 2
SPECIFICATION Spec
SYMMETRY Alike
INVARIANTS
  WholeRecords
  StoppedIsDead
  HolderKeepsFiles
  OneContainer
  NothingLeftBehind
CHECK_DEADLOCK FALSE
