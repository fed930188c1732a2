SPECIFICATION FairSpec
CONSTANTS
  RX_DESC = 3
  TX_DESC = 3
  SyncCard = FALSE
  MaxRx = 4
  MaxEarly = 0
  MaxTx = 4
  MaxQueued = 2
INVARIANTS RxExclusive RxInOrder RxNotWedged RxNotForgotten TxNotForgotten
PROPERTIES RxImplementsFifo TxImplementsFifo
CHECK_DEADLOCK FALSE
