SPECIFICATION Spec
CONSTANTS
  Kinds = {"arp_request", "arp_response", "echo_request", "echo_reply", "udp", "discover", "request", "answer"}
  Sizes <- MCSizes
  BufferSize = 320
  Answers <- MCAnswers
INVARIANTS RoundTrip LengthsAgree OperationFound
CHECK_DEADLOCK FALSE
