SPECIFICATION Spec
CONSTANTS
  NULL = NULL
  Idle = idle
  Tasks = {idle, a, b}
  PRIORITY_IDLE = 2
  TIME_SLICE_MS = 1
  MAX_TASKS = 3
  COUNT_MOD = 8
  TICK_MOD = 1
  Mutexes = {m1}
  Timeouts = {TRUE, FALSE}
INVARIANTS MutualExclusion KernelConsistent 
CHECK_DEADLOCK FALSE
