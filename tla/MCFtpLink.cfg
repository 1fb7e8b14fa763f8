CONSTANTS
  MaxBlocks = 2
  Capacity = 1
  MaxOpens = 1
  MaxCommands = 3
SPECIFICATION Spec
INVARIANTS TypeOK AnnouncedInStep DataAgreed
PROPERTIES Answered AcceptEnds
CHECK_DEADLOCK FALSE
