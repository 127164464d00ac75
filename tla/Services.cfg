CONSTANTS
    Timers = {a, b, c}
    Periods = {1, 2}
    NoTimer = NoTimer
    TimerMaxTick = 3
    Tasks = {a, b, c}
    NoTask = NoTask
    Timeouts = {1, 2}
    WDT_MIN_TIMEOUT_MS = 2
    WDT_MAX_TIMEOUT_MS = 2
    WDT_MAX_MONITORED_TASKS = 2
    TICK_MOD = 8
    MaxTick = 2
    Levels = 3
    Sources = {s1, s2}
    Frequencies = {1, 2}
SPECIFICATION ServicesSpec
SYMMETRY Symmetry
INVARIANTS   RemainingNotOverstated HungTaskReported
    
 
