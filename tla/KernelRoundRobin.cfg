SPECIFICATION RunSpec
CONSTANTS
  NULL = NULL
  Idle = idle
  Tasks = {idle, a, b}
  PRIORITY_IDLE = 1
  TIME_SLICE_MS = 2
  MAX_TASKS = 4
  COUNT_MOD = 5
  TICK_MOD = 3
  MaxDelay = 1
PROPERTY QueuedTaskRuns
