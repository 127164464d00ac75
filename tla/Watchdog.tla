------------------------------ MODULE Watchdog ------------------------------
(***************************************************************************)
(* The watchdog of src/src/watchdog.c as the example uses it: one task     *)
(* sets it up, registers the monitored tasks and then feeds it, while the  *)
(* monitored tasks feed, disable and enable their own entries.  The code   *)
(* has no critical section, so the tick and the other tasks come between   *)
(* any two steps of wdt_feed, wdt_start, wdt_stop and wdt_feed_task.  The  *)
(* hardware watchdog is external: it is armed by hal_wdt_enable and resets *)
(* the system a timeout after it was last fed.                             *)
(***************************************************************************)
EXTENDS Integers, Sequences

CONSTANTS
    Tasks, NoTask,
    Timeouts,                 \* the timeouts in use
    WDT_MIN_TIMEOUT_MS, WDT_MAX_TIMEOUT_MS,
    WDT_MAX_MONITORED_TASKS,
    TICK_MOD,                 \* the tick counter wraps here (2^32 in the code)
    MaxTick                   \* bound: the tick counter, below TICK_MOD

VARIABLES
    wdt,      \* g_wdt_state
    hw,       \* the hardware watchdog
    now,      \* os_get_tick_count()
    feeder,   \* the call of the task that manages the watchdog
    calls     \* the entry each monitored task has looked up for its call

vars == <<wdt, hw, now, feeder, calls>>

wdt_config_t ==
    [type : {"HARDWARE", "SOFTWARE", "BOTH"}, timeout_ms : Timeouts,
     enable_reset : BOOLEAN, auto_start : BOOLEAN]
wdt_task_entry_t ==
    [task : Tasks, timeout_ms : Timeouts, last_feed_time : Nat, enabled : BOOLEAN]
reset_reasons == {"NONE", "HARDWARE", "TASK_TIMEOUT", "SOFTWARE"}

\* g_wdt_state = {0}
Zero == [initialized |-> FALSE, enabled |-> FALSE,
         config |-> [type |-> "HARDWARE", timeout_ms |-> 0, enable_reset |-> FALSE,
                     auto_start |-> FALSE],
         last_feed_time |-> 0, entries |-> <<>>, reset_reason |-> "NONE"]
Idle == [at |-> "out", current_time |-> 0, i |-> 0, reported |-> {}]

Hard == wdt.config.type \in {"HARDWARE", "BOTH"}
Soft == wdt.config.type \in {"SOFTWARE", "BOTH"}
Manager == feeder.at = "out"

\* The index of t's entry, or 0.
find_task_entry(t) ==
    IF \E i \in DOMAIN wdt.entries : wdt.entries[i].task = t
    THEN CHOOSE i \in DOMAIN wdt.entries : wdt.entries[i].task = t ELSE 0

\* A reset of the system: everything is as at power-up but the flag.
Reset ==
    /\ wdt' = Zero /\ feeder' = Idle /\ now' = 0
    /\ hw' = [armed |-> FALSE, timeout_ms |-> 0, fed |-> 0, flag |-> TRUE]
    /\ calls' = [t \in Tasks |-> 0]

hal_wdt_trigger_reset == Reset

---------------------------------------------------------------------------
\* Setting up.
wdt_init(config) ==
    /\ Manager /\ ~wdt.initialized
    /\ config.timeout_ms \in WDT_MIN_TIMEOUT_MS .. WDT_MAX_TIMEOUT_MS
    /\ wdt' = [Zero EXCEPT !.initialized = TRUE, !.config = config, !.last_feed_time = now,
                  !.reset_reason = IF hw.flag THEN "HARDWARE" ELSE "NONE"]
    /\ hw' = [hw EXCEPT !.flag = FALSE,
                  !.timeout_ms = IF config.type # "SOFTWARE" THEN config.timeout_ms ELSE @]
    /\ feeder' = IF config.auto_start THEN [Idle EXCEPT !.at = "start"] ELSE Idle
    /\ UNCHANGED <<now, calls>>

wdt_start ==
    /\ Manager /\ wdt.initialized
    /\ feeder' = [Idle EXCEPT !.at = "start"]
    /\ UNCHANGED <<wdt, hw, now, calls>>

StartTimed ==
    /\ feeder.at = "start"
    /\ wdt' = [wdt EXCEPT !.enabled = TRUE, !.last_feed_time = now]
    /\ feeder' = [feeder EXCEPT !.at = "hal_wdt_enable"]
    /\ UNCHANGED <<hw, now, calls>>

hal_wdt_enable ==
    /\ feeder.at = "hal_wdt_enable"
    /\ hw' = IF Hard THEN [hw EXCEPT !.armed = TRUE, !.fed = now] ELSE hw
    /\ feeder' = Idle
    /\ UNCHANGED <<wdt, now, calls>>

\* wdt_stop, and wdt_deinit, which then clears the state.
wdt_stop(deinit) ==
    /\ Manager /\ wdt.initialized
    /\ wdt' = [wdt EXCEPT !.enabled = FALSE]
    /\ feeder' = [Idle EXCEPT !.at = IF deinit THEN "deinit" ELSE "stop"]
    /\ UNCHANGED <<hw, now, calls>>

hal_wdt_disable ==
    /\ feeder.at \in {"deinit", "stop"}
    /\ hw' = IF Hard THEN [hw EXCEPT !.armed = FALSE] ELSE hw
    /\ wdt' = IF feeder.at = "deinit" THEN Zero ELSE wdt
    /\ feeder' = Idle
    /\ calls' = [t \in Tasks |-> IF feeder.at = "deinit" THEN 0 ELSE calls[t]]
    /\ UNCHANGED now

wdt_set_timeout(timeout_ms) ==
    /\ Manager /\ wdt.initialized
    /\ timeout_ms \in WDT_MIN_TIMEOUT_MS .. WDT_MAX_TIMEOUT_MS
    /\ wdt' = [wdt EXCEPT !.config.timeout_ms = timeout_ms]
    /\ hw' = IF Hard THEN [hw EXCEPT !.timeout_ms = timeout_ms] ELSE hw
    /\ UNCHANGED <<now, feeder, calls>>

\* Tasks are registered and unregistered while no monitored task is in a call.
\* Mutant: no limit on the number of tasks.
wdt_register_task_unlimited(t, timeout_ms) ==
    /\ Manager /\ wdt.initialized /\ \A u \in Tasks : calls[u] = 0
    /\ timeout_ms >= WDT_MIN_TIMEOUT_MS /\ find_task_entry(t) = 0
    /\ wdt' = [wdt EXCEPT !.entries = Append(@,
                  [task |-> t, timeout_ms |-> timeout_ms, last_feed_time |-> now, enabled |-> TRUE])]
    /\ UNCHANGED <<hw, now, feeder, calls>>

wdt_register_task(t, timeout_ms) ==
    /\ Manager /\ wdt.initialized /\ \A u \in Tasks : calls[u] = 0
    /\ timeout_ms >= WDT_MIN_TIMEOUT_MS /\ find_task_entry(t) = 0
    /\ Len(wdt.entries) < WDT_MAX_MONITORED_TASKS
    /\ wdt' = [wdt EXCEPT !.entries = Append(@,
                  [task |-> t, timeout_ms |-> timeout_ms, last_feed_time |-> now, enabled |-> TRUE])]
    /\ UNCHANGED <<hw, now, feeder, calls>>

\* The entries behind t's move up.
wdt_unregister_task(t) ==
    LET i == find_task_entry(t)
    IN
    /\ Manager /\ wdt.initialized /\ \A u \in Tasks : calls[u] = 0
    /\ i # 0
    /\ wdt' = [wdt EXCEPT !.entries =
                  [j \in 1 .. Len(@) - 1 |-> IF j < i THEN @[j] ELSE @[j + 1]]]
    /\ UNCHANGED <<hw, now, feeder, calls>>

---------------------------------------------------------------------------
\* Monitored tasks: look the entry up, then write it.
LookUp(t) ==
    /\ wdt.initialized /\ calls[t] = 0 /\ find_task_entry(t) # 0
    /\ calls' = [calls EXCEPT ![t] = find_task_entry(t)]
    /\ UNCHANGED <<wdt, hw, now, feeder>>

WriteEntry(t, e) ==
    /\ calls[t] # 0
    /\ wdt' = [wdt EXCEPT !.entries[calls[t]] = e]
    /\ calls' = [calls EXCEPT ![t] = 0]
    /\ UNCHANGED <<hw, now, feeder>>

Mine(t) == wdt.entries[calls[t]]
wdt_feed_task(t) == WriteEntry(t, [Mine(t) EXCEPT !.last_feed_time = now])
wdt_enable_task(t) == WriteEntry(t, [Mine(t) EXCEPT !.last_feed_time = now, !.enabled = TRUE])
wdt_disable_task(t) == WriteEntry(t, [Mine(t) EXCEPT !.enabled = FALSE])

---------------------------------------------------------------------------
\* Feeding.
wdt_feed ==
    /\ Manager /\ wdt.initialized /\ wdt.enabled
    /\ wdt' = [wdt EXCEPT !.last_feed_time = now]
    /\ feeder' = [Idle EXCEPT !.at = "hal_wdt_feed"]
    /\ UNCHANGED <<hw, now, calls>>

\* Mutant: the hardware is not fed when tasks are monitored too.
hal_wdt_feed_hardware_only ==
    /\ feeder.at = "hal_wdt_feed"
    /\ hw' = IF wdt.config.type = "HARDWARE" THEN [hw EXCEPT !.fed = now] ELSE hw
    /\ feeder' = IF Soft THEN [feeder EXCEPT !.at = "check_tasks"] ELSE Idle
    /\ UNCHANGED <<wdt, now, calls>>

hal_wdt_feed ==
    /\ feeder.at = "hal_wdt_feed"
    /\ hw' = IF Hard THEN [hw EXCEPT !.fed = now] ELSE hw
    /\ feeder' = IF Soft THEN [feeder EXCEPT !.at = "check_tasks"] ELSE Idle
    /\ UNCHANGED <<wdt, now, calls>>

check_tasks ==
    /\ feeder.at = "check_tasks"
    /\ feeder' = [feeder EXCEPT !.at = "entry", !.current_time = now, !.i = 1]
    /\ UNCHANGED <<wdt, hw, now, calls>>

\* Mutant: a task is late only after its timeout.
check_entry_after ==
    LET e == wdt.entries[feeder.i]
        late == e.enabled /\ (feeder.current_time - e.last_feed_time) % TICK_MOD > e.timeout_ms
    IN  /\ feeder.at = "entry" /\ feeder.i <= Len(wdt.entries)
        /\ IF late /\ wdt.config.enable_reset
           THEN hal_wdt_trigger_reset
           ELSE /\ feeder' = [feeder EXCEPT !.i = @ + 1,
                                  !.reported = IF late THEN @ \cup {e.task} ELSE @]
                /\ UNCHANGED <<wdt, hw, now, calls>>

\* One entry: a late task is counted and reported, and the system reset.
check_entry ==
    LET e == wdt.entries[feeder.i]
        late == e.enabled /\ (feeder.current_time - e.last_feed_time) % TICK_MOD >= e.timeout_ms
    IN  /\ feeder.at = "entry" /\ feeder.i <= Len(wdt.entries)
        /\ IF late /\ wdt.config.enable_reset
           THEN hal_wdt_trigger_reset
           ELSE /\ feeder' = [feeder EXCEPT !.i = @ + 1,
                                  !.reported = IF late THEN @ \cup {e.task} ELSE @]
                /\ UNCHANGED <<wdt, hw, now, calls>>

check_end ==
    /\ feeder.at = "entry" /\ feeder.i > Len(wdt.entries)
    /\ feeder' = Idle
    /\ UNCHANGED <<wdt, hw, now, calls>>

wdt_trigger_reset == Manager /\ wdt.initialized /\ hal_wdt_trigger_reset

---------------------------------------------------------------------------
\* Time passes until the hardware watchdog is due, which then resets the system.
Overdue == hw.armed /\ now - hw.fed >= hw.timeout_ms

Tick ==
    /\ ~Overdue /\ now < MaxTick
    /\ now' = now + 1
    /\ UNCHANGED <<wdt, hw, feeder, calls>>

HardwareReset == Overdue /\ Reset

Init ==
    /\ wdt = Zero /\ now = 0 /\ feeder = Idle
    /\ hw = [armed |-> FALSE, timeout_ms |-> 0, fed |-> 0, flag |-> FALSE]
    /\ calls = [t \in Tasks |-> 0]

Next ==
    \/ \E c \in wdt_config_t : wdt_init(c)
    \/ wdt_start \/ StartTimed \/ hal_wdt_enable
    \/ \E deinit \in BOOLEAN : wdt_stop(deinit)
    \/ hal_wdt_disable
    \/ \E ms \in Timeouts : wdt_set_timeout(ms)
    \/ \E t \in Tasks :
          \/ \E ms \in Timeouts : wdt_register_task(t, ms)
          \/ wdt_unregister_task(t)
          \/ LookUp(t) \/ wdt_feed_task(t) \/ wdt_enable_task(t) \/ wdt_disable_task(t)
    \/ wdt_feed \/ hal_wdt_feed \/ check_tasks \/ check_entry \/ check_end
    \/ wdt_trigger_reset \/ Tick \/ HardwareReset

Spec == Init /\ [][Next]_vars

---------------------------------------------------------------------------
\* The state has its type: at most WDT_MAX_MONITORED_TASKS entries, a task in one.
TypeOK ==
    /\ wdt.entries \in Seq(wdt_task_entry_t)
    /\ Len(wdt.entries) <= WDT_MAX_MONITORED_TASKS
    /\ \A i, j \in DOMAIN wdt.entries : wdt.entries[i].task = wdt.entries[j].task => i = j
    /\ wdt.reset_reason \in reset_reasons /\ now \in Nat
    /\ \A t \in Tasks : calls[t] \in 0 .. Len(wdt.entries)

\* The time that wdt_get_time_remaining and wdt_get_status report is never more
\* than the hardware leaves, once wdt_feed or wdt_start has come to its call of
\* the hardware: last_feed_time is set before, so that ticks between the two make
\* it too early, never too late.
RemainingNotOverstated ==
    hw.armed /\ wdt.enabled /\ feeder.at \notin {"hal_wdt_feed", "hal_wdt_enable"}
        => wdt.last_feed_time <= hw.fed

\* A hung task is found: when wdt_check_tasks comes to its end without a reset, it
\* has reported every enabled entry that was not fed for its timeout when the pass
\* began, although entries are fed, disabled and enabled while it runs.
HungTaskReported ==
    feeder.at = "entry" /\ feeder.i > Len(wdt.entries) =>
        \A i \in DOMAIN wdt.entries :
            LET e == wdt.entries[i]
            IN  e.enabled /\ feeder.current_time - e.last_feed_time >= e.timeout_ms
                    => e.task \in feeder.reported

(* What the header says and the code does not do *)

\* watchdog.h: "Task timed out".  Only a task that was not fed for its timeout is
\* reported.  A task that feeds its entry after wdt_check_tasks has read the time,
\* at a later tick, makes the unsigned difference wrap.
NoFalseAlarm ==
    \A i \in DOMAIN wdt.entries : feeder.at = "entry" /\ i = feeder.i =>
        LET e == wdt.entries[i]
        IN  (feeder.current_time - e.last_feed_time) % TICK_MOD >= e.timeout_ms
                => feeder.current_time - e.last_feed_time >= e.timeout_ms
=============================================================================
