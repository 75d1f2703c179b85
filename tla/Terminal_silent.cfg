\* A shell that waits at its prompt when the browser leaves.
SPECIFICATION SilentSpec
CONSTANTS
  IdleLimit = 2
  MaxOutput = 2
  Timeout = 2
  MaxItems = 2
PROPERTIES CloseAudited
CHECK_DEADLOCK FALSE
