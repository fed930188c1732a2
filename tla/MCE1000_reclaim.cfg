SPECIFICATION FairSpec
CONSTANTS
  RX_DESC = 2
  TX_DESC = 6
  SyncCard = TRUE
  MaxRx = 1
  MaxEarly = 0
  MaxTx = 10
  MaxQueued = 3
INVARIANTS ReclaimSafe NoLeak
PROPERTY BufferIsFreed
CHECK_DEADLOCK FALSE
