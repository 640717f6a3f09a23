SPECIFICATION Spec
CONSTANTS
  Cpus = {c1, c2}
  Timers = {t1, t2}
  FgTimers = {t1}
  WHEEL_SIZE = 2
  WHEEL_COUNT = 3
  MIN_DELAY_US = 2
  AddDelays = {1, 4}
  HandlerDelays = {1, 4}
  MaxIdles = 1
  DeleteSuccessor = FALSE
  MaxMigrations = 1
  MaxLag = 2
  Start = 4
  Horizon = 12
INVARIANTS WheelSafe
PROPERTIES MigrationNotEarlier
CHECK_DEADLOCK FALSE
