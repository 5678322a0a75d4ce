CONSTANTS
  RingCapacity = 2
  CounterMod = 4
  Quota = 4
  Total = 5
  PtyRoom = 3
  OutRoom = 2
  MaxCuts = 1
SPECIFICATION FairSpec
INVARIANTS
  OutputFaithful
  AsleepOnlyWhenBlocked
PROPERTY ForwardingEnds
