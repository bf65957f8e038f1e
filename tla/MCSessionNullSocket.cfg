SPECIFICATION Spec
CONSTANTS
  Cap = 2
  MaxLen = 2
  DataSize = 2
  MaxCommands = 2
INVARIANT ReadHasSocket
CHECK_DEADLOCK FALSE
