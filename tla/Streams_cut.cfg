\* Statistics of a running container, watched for longer than the timeout.
SPECIFICATION SideSpec
CONSTANTS
  IdleLimit = 2
  MaxOutput = 2
  Timeout = 2
  MaxItems = 2
INVARIANTS MayStreamForMinutes
CHECK_DEADLOCK FALSE
