SPECIFICATION FairSpec
CONSTANTS
  Lines = {"timer", "keyboard", "network"}
  Registrations <- MCRegistrations
INVARIANTS IdtValid PicsAvailable HandlersReady
PROPERTY LineServed
CHECK_DEADLOCK FALSE
