SPECIFICATION Spec
CONSTANTS
  NULL = NULL
  Idle = idle
  Tasks = {idle, a, b}
  PRIORITY_IDLE = 1
  TIME_SLICE_MS = 2
  MAX_TASKS = 3
  COUNT_MOD = 4
  TICK_MOD = 1
  MaxDelay = 0
SYMMETRY Symmetry
INVARIANTS ReadyQueuesConsistent PreemptionLatency
PROPERTY SwitchToHighest
