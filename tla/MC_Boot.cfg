SPECIFICATION Spec
CONSTANTS
  Confs <- MCConfs
  Device <- MCDevice
  CPU_COUNT = 4
  CFG_MAX_CPU = 3
  CFG_MAX_ETHDEV = 2
  CFG_MAX_PORTS = 2
  ETH_RSS_RETA_MAX_QUEUE = 16
  ETH_MAX_NUM_FG = 2
  MaxClones = 2
INVARIANTS StartupSafe
PROPERTIES Booted CloneReturns
CHECK_DEADLOCK FALSE
