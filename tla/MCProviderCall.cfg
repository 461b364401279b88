SPECIFICATION Spec
CONSTANTS
  max_attempts = 2
  MaxUsage = 2
  MaxChunks = 3
  None = None
INVARIANTS ResetIsRetried
CHECK_DEADLOCK FALSE
