CONSTANTS
  Small = 5
  Large = 65541
  Inputs <- MCInputs
SPECIFICATION Spec
INVARIANTS TypeOK AsWritten Accountable
PROPERTIES Terminates
CHECK_DEADLOCK FALSE
