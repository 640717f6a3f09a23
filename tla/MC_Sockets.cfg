SPECIFICATION FairSpec
CONSTANTS
  a = a
  b = b
  Conns <- MCConns
  NULL = NULL
  Bufs = {1, 2, 3}
  IXEV_RECV_DEPTH = 3
  IXEV_SEND_DEPTH = 2
  IXEV_SEND_WIN_SIZE = 2
  BUF_SIZE = 2
  TCP_SND_BUF = 1
  Loads <- MCLoads
  
PROPERTIES Echoed
CHECK_DEADLOCK FALSE
