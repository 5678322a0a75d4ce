CONSTANTS
  Names <- MCNames
  Setups <- MCSetups
  HostKernel <- MCHostKernel
  Devices <- MCDevices
SPECIFICATION MountSpec
CHECK_DEADLOCK FALSE
INVARIANTS
  HostUntouched
  FlagsAsAsked
  MaskedStayMasked
  PivotComplete
  DevicesPresent
  ReadOnlyWaits
