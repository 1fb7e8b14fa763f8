CONSTANTS
  MaxBlocks = 1
  Capacity = 1
  MaxOpens = 1
  MaxCommands = 0
SPECIFICATION SafeSpec
INVARIANTS OpenLogsOn
CHECK_DEADLOCK FALSE
