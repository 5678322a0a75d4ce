CONSTANTS
  host = host
  root = root
  d = d
  e = e
  a = a
  b = b
  f = f
  n1 = n1
  n2 = n2
  Nodes <- MCNodes
  Root = root
  Host <- MCHost
  Nothing = Nothing
  Names <- MCNames
  Trees <- MCTrees
  Ops <- MCOps
  NewTarget <- MCNewTarget
  MaxSymlinks = 3
  MaxOps = 1
  MaxOthers = 1
SPECIFICATION Spec
INVARIANTS
  Confined
  WalkKeepsMeaning
  LandsOnPath
PROPERTIES
  OperandOnly
CHECK_DEADLOCK FALSE
