SPECIFICATION ChecksumSpec
CONSTANTS
  M = 16
  N = 10
INVARIANTS CorrectUnlessCarry
CHECK_DEADLOCK FALSE
