CONSTANTS
  Hooks = 2
  MaxTimeout = 2
  MaxOthers = 2
  MaxStops = 1
  MaxInterrupts = 1
  MaxAge = 11
SPECIFICATION Spec
INVARIANTS
  TimeoutKept
  OutcomeIsTheHooks
  NoHookOutlivesItsCall
PROPERTY EndsUnlessStopped
CHECK_DEADLOCK FALSE
