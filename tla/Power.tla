------------------------------- MODULE Power -------------------------------
(***************************************************************************)
(* Power management, src/src/power.c: the mode, and the calls that put the *)
(* processor to sleep from inside a task.  Tasks have distinct priorities  *)
(* 1, 2, ... (a greater number is more urgent here): a task that waits for *)
(* an interrupt can be preempted by a more urgent one, which may go to     *)
(* sleep itself, and goes on only when that one is done.  The processor    *)
(* may wake up at any time.  The times slept, the callbacks, which are     *)
(* only called, and the battery's data are left out.                       *)
(***************************************************************************)
EXTENDS Naturals

CONSTANTS
    Levels,         \* the number of tasks
    Sources,        \* the wakeup sources
    Frequencies     \* clock frequencies; 0 leaves the clock alone

power_mode_t == {"ACTIVE", "IDLE", "SLEEP", "DEEP_SLEEP"}
power_config_t ==
    [idle_mode_enabled : BOOLEAN, sleep_mode_enabled : BOOLEAN,
     cpu_freq_hz : Frequencies \cup {0}]

VARIABLES
    power,      \* power_state
    old_mode,   \* of each task inside a sleep call; "none" outside
    platform    \* the clock and the wakeup sources of the hardware

powervars == <<power, old_mode, platform>>

Sleepers == {t \in 1 .. Levels : old_mode[t] # "none"}

\* A task that can run: all that sleep are less urgent.
Running(t) == \A u \in Sleepers : u < t

os_power_init ==
    power = [current_mode |-> "ACTIVE", wakeup_sources |-> {}, tickless_idle |-> FALSE,
             config |-> [idle_mode_enabled |-> TRUE, sleep_mode_enabled |-> TRUE,
                         cpu_freq_hz |-> 0]]

os_power_configure(config) ==
    /\ power' = [power EXCEPT !.config = config]
    /\ platform' = IF config.cpu_freq_hz > 0
                   THEN [platform EXCEPT !.freq = config.cpu_freq_hz] ELSE platform
    /\ UNCHANGED old_mode

os_power_set_cpu_frequency(freq_hz) ==
    /\ freq_hz # 0
    /\ power' = [power EXCEPT !.config.cpu_freq_hz = freq_hz]
    /\ platform' = [platform EXCEPT !.freq = freq_hz]
    /\ UNCHANGED old_mode

os_power_configure_wakeup(source, enable) ==
    /\ power' = [power EXCEPT !.wakeup_sources =
                    IF enable THEN @ \cup {source} ELSE @ \ {source}]
    /\ platform' = [platform EXCEPT !.sources =
                    IF enable THEN @ \cup {source} ELSE @ \ {source}]
    /\ UNCHANGED old_mode

os_power_enable_tickless_idle(enable) ==
    /\ power' = [power EXCEPT !.tickless_idle = enable]
    /\ UNCHANGED <<old_mode, platform>>

\* Tasks set the modes without sleep themselves.
os_power_set_mode(mode) ==
    /\ power' = [power EXCEPT !.current_mode = mode]
    /\ UNCHANGED <<old_mode, platform>>

\* os_power_enter_sleep and os_power_enter_deep_sleep, up to the wait.
EnterSleep(t, mode) ==
    /\ Running(t) /\ power.config.sleep_mode_enabled
    /\ old_mode' = [old_mode EXCEPT ![t] = power.current_mode]
    /\ power' = [power EXCEPT !.current_mode = mode]
    /\ UNCHANGED platform

os_power_enter_sleep(t) == EnterSleep(t, "SLEEP")
os_power_enter_deep_sleep(t) == EnterSleep(t, "DEEP_SLEEP")

\* Mutant: the mode is kept when another task has changed it meanwhile.
WokenUp_if_asleep(t) ==
    /\ t \in Sleepers /\ \A u \in Sleepers : u <= t
    /\ power' = [power EXCEPT !.current_mode = IF @ = "SLEEP" THEN old_mode[t] ELSE @]
    /\ old_mode' = [old_mode EXCEPT ![t] = "none"]
    /\ UNCHANGED platform

WokenUp(t) ==
    /\ t \in Sleepers /\ \A u \in Sleepers : u <= t
    /\ power' = [power EXCEPT !.current_mode = old_mode[t]]
    /\ old_mode' = [old_mode EXCEPT ![t] = "none"]
    /\ UNCHANGED platform

PowerInit ==
    /\ os_power_init
    /\ old_mode = [t \in 1 .. Levels |-> "none"]
    /\ platform = [freq |-> 0, sources |-> {}]

\* Some task can always run but when the most urgent one sleeps.
PowerNext ==
    \/ /\ \E t \in 1 .. Levels : Running(t)
       /\ \/ \E c \in power_config_t : os_power_configure(c)
          \/ \E f \in Frequencies : os_power_set_cpu_frequency(f)
          \/ \E s \in Sources, on \in BOOLEAN : os_power_configure_wakeup(s, on)
          \/ \E on \in BOOLEAN : os_power_enable_tickless_idle(on)
          \/ \E mode \in {"ACTIVE", "IDLE"} : os_power_set_mode(mode)
    \/ \E t \in 1 .. Levels :
          os_power_enter_sleep(t) \/ os_power_enter_deep_sleep(t) \/ WokenUp(t)

PowerSpec == PowerInit /\ [][PowerNext]_powervars

---------------------------------------------------------------------------
\* The settings kept in power_state are those of the hardware, so that the sources
\* os_power_get_stats reports are the ones that can wake the processor; a clock
\* frequency of 0 in a configuration leaves the clock alone.
PlatformAsConfigured ==
    /\ platform.sources = power.wakeup_sources
    /\ power.config.cpu_freq_hz # 0 => platform.freq = power.config.cpu_freq_hz

\* The mode is one of the sleep modes only while a task is inside a sleep call: a
\* task that sleeps while a less urgent one does gives that one its mode back, and
\* a change of mode made meanwhile is undone.
SleepModeHasSleeper == power.current_mode \in {"SLEEP", "DEEP_SLEEP"} => Sleepers # {}
=============================================================================
