SPECIFICATION Spec
CONSTANTS
  Lines = {"timer", "keyboard", "network"}
  Registrations <- MCRegistrations
INVARIANT LoggingNeverBlocks
CHECK_DEADLOCK FALSE
