SPECIFICATION FairSpec
CONSTANTS
  Cpus = {c1, c2}
  Hosts = {h, g}
  Gateway = g
  Far = x
  Static = {g}
  Up = {h}
  NONE = NONE
  Mbufs = {1, 2, 3}
  MAX_PENDING_PKTS = 1
  ARP_MAX_ENTRIES = 2
  ARP_MAX_ATTEMPTS = 2
  TxCap = 2
  MaxSends = 2
  MaxFrames = 1
INVARIANTS NetSafe
PROPERTIES PendingEnds
CHECK_DEADLOCK FALSE
