\* Shells, of both kinds, that go on printing until they exit, and streams.
SPECIFICATION SideSpec
CONSTANTS
  IdleLimit = 2
  MaxOutput = 2
  Timeout = 2
  MaxItems = 2
INVARIANTS TypeOK NoReadAfterClose PanicsOnlyWithPings DoneIsWhole
PROPERTIES ShellReaped PumpEnds StreamEnds
CHECK_DEADLOCK FALSE
