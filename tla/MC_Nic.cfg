SPECIFICATION FairSpec
CONSTANTS
  W = 8
  RW = 4
  LEN = 4
  RLEN = 2
  RDT_THRESH = 1
  ETH_RX_MAX_DEPTH = 1
  NMbufs = 4
  MaxIov = 2
INVARIANTS RingsSafe
PROPERTIES TxCompletes RxReopens
CHECK_DEADLOCK FALSE
