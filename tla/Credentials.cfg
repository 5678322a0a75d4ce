CONSTANTS
  Caps <- MCCaps
  Requests <- MCRequests
  HelperExits = {0, 1}
SPECIFICATION CredSpec
CHECK_DEADLOCK FALSE
INVARIANTS
  IdentityAsAsked
  CapabilitiesAsAsked
PROPERTY
  RefusedOnlyWhenAskedTooMuch
