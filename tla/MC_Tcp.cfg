SPECIFICATION FairSpec
CONSTANTS
  Client = c
  Server = s
  ClientIss = 9
  ServerIss = 10
  Ticks = 5
  Iss <- MCIss
  Writes <- MCWrites
  SeqSpace = 32
  WndSpace = 32
  WndUnit = 2
  WireSpace = 3
  MSS = 2
  TCP_WND = 4
  TCP_SND_BUF = 4
  TCP_SND_QUEUELEN = 6
  DupAckLimit = 1
  TCP_MAXRTX = 2
  TCP_SYNMAXRTX = 1
  Closers = {c}
  Resetters = {s}
  MaxFaults = 1
INVARIANTS ConnectionSafe
PROPERTIES StreamRefined RightEdgeKept Delivered
CHECK_DEADLOCK FALSE
