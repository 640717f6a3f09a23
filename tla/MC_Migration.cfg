SPECIFICATION FairSpec
CONSTANTS
  num_cpus = 2
  nr_flow_groups = 2
  ETH_RX_MAX_DEPTH = 1
  MaxPkts = 2
  MaxCmds = 2
INVARIANTS FlowGroupsSafe
PROPERTIES Answered
CHECK_DEADLOCK FALSE
