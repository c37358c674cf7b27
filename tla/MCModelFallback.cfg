\* A request that exceeds the window after its overloads.
CONSTANTS
  MaxTurns = 1
  MaxRetries = 2
  MaxOverloads = 2
  MaxContinuations = 1
SPECIFICATION Spec
PROPERTY FallbackKept
CHECK_DEADLOCK FALSE
