SPECIFICATION ConfigSpec
CONSTANTS
  Documents <- MCDocuments
  Values <- MCValues
  OptionLists = {}
  Malformed = Malformed
  NoMap = NoMap
  MapA = MapA
  MapB = MapB
  Word <- MCWord
  MaxUint = 3
CHECK_DEADLOCK FALSE
INVARIANTS
  ListsAsWritten
  AcceptedIsUsable
