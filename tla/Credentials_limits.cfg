CONSTANTS
  Caps <- MCCaps
  Requests <- LimitRequests
  HelperExits = {0, 1}
SPECIFICATION CredSpec
CHECK_DEADLOCK FALSE
INVARIANT
  LimitsAsAsked
