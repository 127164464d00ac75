------------------------------- MODULE Timer -------------------------------
(***************************************************************************)
(* The software timers of src/src/timer.c: the list of active timers,      *)
(* sorted by expiry, the calls of tasks on it, and os_timer_process, which *)
(* the tick interrupt runs and which calls back outside its critical       *)
(* section.  A task is interrupted between the critical sections of one    *)
(* call; the interrupt is not interrupted.  The linked list is a sequence. *)
(* A callback returns or, for a one-shot timer, may start its own timer.   *)
(* The tick counter is a natural number bounded by TimerMaxTick: it does   *)
(* not wrap within a run.                                                  *)
(***************************************************************************)
EXTENDS Naturals, Integers, Sequences, FiniteSets, FiniteSetsExt

CONSTANTS
    Timers,
    Periods,    \* the periods in use, above 0
    NoTimer,    \* NULL
    TimerMaxTick    \* bound: the tick counter

ASSUME TimerAssumption ==
    Periods \subseteq Nat \ {0} /\ NoTimer \notin Timers /\ TimerMaxTick \in Nat

timer_t == [type : {"ONE_SHOT", "AUTO_RELOAD"}, period : Periods \cup {0},
            expire_time : Nat, active : BOOLEAN]

VARIABLES
    timer_manager,  \* active_timers as a sequence, and timer_count
    timer,          \* the timer structures
    tick_count,     \* os_get_tick_count()
    isr,            \* os_timer_process: place and the local variable timer
    task            \* the task's call that is between two critical sections

timervars == <<timer_manager, timer, tick_count, isr, task>>

Cleared == [type |-> "ONE_SHOT", period |-> 0, expire_time |-> 0, active |-> FALSE]

---------------------------------------------------------------------------
\* The functions on the state m = [list, count, timer].
State == [list |-> timer_manager.list, count |-> timer_manager.count, timer |-> timer]
Becomes(m) ==
    /\ timer_manager' = [list |-> m.list, count |-> m.count]
    /\ timer' = m.timer

\* Timer t becomes the n-th of the list q, or leaves it.
Link(q, n, t) == SubSeq(q, 1, n - 1) \o <<t>> \o SubSeq(q, n, Len(q))
Unlink(q, t) ==
    LET at == {i \in DOMAIN q : q[i] = t}
    IN  IF at = {} THEN q
        ELSE SubSeq(q, 1, Min(at) - 1) \o SubSeq(q, Min(at) + 1, Len(q))

\* Mutant: a timer is put behind those that expire later.
timer_insert_sorted_last(m, t) == [m EXCEPT !.list = Append(@, t), !.count = @ + 1]

\* Before the head if it expires before the head, else behind the head and the
\* timers after it that do not expire later.
timer_insert_sorted(m, t) ==
    LET Exp(i) == m.timer[m.list[i]].expire_time
        e      == m.timer[t].expire_time
        at     == IF m.list = <<>> \/ e < Exp(1) THEN 0
                  ELSE Max({j \in 1 .. Len(m.list) : \A i \in 2 .. j : Exp(i) <= e})
    IN  [m EXCEPT !.list = Link(@, at + 1, t), !.count = @ + 1]

os_timer_stop(m, t) ==
    IF ~m.timer[t].active THEN m
    ELSE [list |-> Unlink(m.list, t), count |-> m.count - 1,
          timer |-> [m.timer EXCEPT ![t].active = FALSE]]

\* Mutant: a timer that is active already is linked a second time.
os_timer_start_linked(m, t) ==
    timer_insert_sorted([m EXCEPT !.timer[t].expire_time = tick_count + m.timer[t].period,
                                  !.timer[t].active = TRUE], t)

os_timer_start(m, t) ==
    LET s == os_timer_stop(m, t)
    IN  timer_insert_sorted(
            [s EXCEPT !.timer[t].expire_time = tick_count + m.timer[t].period,
                      !.timer[t].active = TRUE], t)

---------------------------------------------------------------------------
\* Tasks.  A call of several critical sections is left in task between them.
Free == isr.pc = "out"
Done == [op |-> "none", t |-> NoTimer, arg |-> 0]

os_timer_create(t, type, period) ==
    /\ Free /\ task = Done /\ timer[t] = Cleared
    /\ timer' = [timer EXCEPT ![t] = [Cleared EXCEPT !.type = type, !.period = period]]
    /\ UNCHANGED <<timer_manager, tick_count, isr, task>>

Start(t) ==
    /\ Free /\ task = Done /\ timer[t].period # 0
    /\ Becomes(os_timer_start(State, t))
    /\ UNCHANGED <<tick_count, isr, task>>

Stop(t) ==
    /\ Free /\ task = Done
    /\ Becomes(os_timer_stop(State, t))
    /\ UNCHANGED <<tick_count, isr, task>>

os_timer_reset(t) ==
    /\ Free /\ task = Done /\ timer[t].period # 0
    /\ Becomes(os_timer_stop(State, t))
    /\ task' = [op |-> "start", t |-> t, arg |-> 0]
    /\ UNCHANGED <<tick_count, isr>>

\* The calls that first look at timer->active outside a critical section.
Look(op, t, arg) ==
    /\ Free /\ task = Done /\ timer[t].period # 0
    /\ task' = [op |-> IF timer[t].active THEN op ELSE "set", t |-> t, arg |-> arg]
    /\ UNCHANGED <<timer_manager, timer, tick_count, isr>>

os_timer_delete(t) == Look("stop_set", t, 0)

os_timer_change_period(t, period) == Look("stop_set_start", t, period)

\* The os_timer_stop of os_timer_delete and os_timer_change_period.
LookedStop ==
    /\ Free /\ task.op \in {"stop_set", "stop_set_start"}
    /\ Becomes(os_timer_stop(State, task.t))
    /\ task' = [task EXCEPT !.op = IF @ = "stop_set" THEN "set" ELSE "set_start"]
    /\ UNCHANGED <<tick_count, isr>>

\* memset for os_timer_delete (arg 0), the new period for os_timer_change_period.
LookedSet ==
    /\ Free /\ task.op \in {"set", "set_start"}
    /\ timer' = [timer EXCEPT ![task.t] = IF task.arg = 0 THEN Cleared
                                          ELSE [@ EXCEPT !.period = task.arg]]
    /\ task' = IF task.op = "set" THEN Done ELSE [task EXCEPT !.op = "start"]
    /\ UNCHANGED <<timer_manager, tick_count, isr>>

FinalStart ==
    /\ Free /\ task.op = "start"
    /\ Becomes(os_timer_start(State, task.t))
    /\ task' = Done
    /\ UNCHANGED <<tick_count, isr>>

---------------------------------------------------------------------------
\* The tick interrupt.
process_begin ==
    /\ Free /\ tick_count < TimerMaxTick
    /\ tick_count' = tick_count + 1
    /\ isr' = [pc |-> "loop", timer |-> IF timer_manager.list = <<>> THEN NoTimer
                                        ELSE Head(timer_manager.list)]
    /\ UNCHANGED <<timer_manager, timer, task>>

\* timer->next; prev is NULL throughout.
After(t) ==
    LET l == timer_manager.list
    IN  IF \E i \in DOMAIN l : l[i] = t
        THEN SubSeq(l, (CHOOSE i \in DOMAIN l : l[i] = t) + 1, Len(l)) ELSE <<>>

Expired == isr.timer # NoTimer /\ tick_count >= timer[isr.timer].expire_time

process_expire ==
    LET t == isr.timer
    IN  /\ isr.pc = "loop" /\ Expired
        /\ timer_manager' = [list |-> After(t), count |-> timer_manager.count - 1]
        /\ timer' = [timer EXCEPT ![t].active = FALSE]
        /\ isr' = [pc |-> "callback", timer |-> t,
                   next |-> IF After(t) = <<>> THEN NoTimer ELSE Head(After(t))]
        /\ UNCHANGED <<tick_count, task>>

\* The callback, then the reload of an auto-reload timer.
process_callback ==
    LET t      == isr.timer
        reload == timer_insert_sorted(
                     [State EXCEPT !.timer[t].expire_time = tick_count + timer[t].period,
                                   !.timer[t].active = TRUE], t)
    IN  /\ isr.pc = "callback"
        /\ IF timer[t].type = "AUTO_RELOAD"
           THEN /\ Becomes(reload)
                /\ isr' = [pc |-> "loop", timer |-> Head(reload.list)]
           ELSE /\ \/ Becomes(State)
                   \/ timer[t].period # 0 /\ Becomes(os_timer_start(State, t))
                /\ isr' = [pc |-> "loop", timer |-> isr.next]
        /\ UNCHANGED <<tick_count, task>>

process_end ==
    /\ isr.pc = "loop" /\ ~Expired
    /\ isr' = [pc |-> "out", timer |-> NoTimer]
    /\ UNCHANGED <<timer_manager, timer, tick_count, task>>

---------------------------------------------------------------------------
os_timer_init == timer_manager = [list |-> <<>>, count |-> 0]

TimerInit ==
    /\ os_timer_init
    /\ timer = [t \in Timers |-> Cleared]
    /\ tick_count = 0 /\ isr = [pc |-> "out", timer |-> NoTimer] /\ task = Done

TimerNext ==
    \/ \E t \in Timers :
          \/ Start(t) \/ Stop(t) \/ os_timer_reset(t) \/ os_timer_delete(t)
          \/ \E p \in Periods :
                \/ os_timer_change_period(t, p)
                \/ \E type \in {"ONE_SHOT", "AUTO_RELOAD"} : os_timer_create(t, type, p)
    \/ LookedStop \/ LookedSet \/ FinalStart
    \/ process_begin \/ process_expire \/ process_callback \/ process_end

TimerSpec == TimerInit /\ [][TimerNext]_timervars

---------------------------------------------------------------------------
\* The timers have their type and timer_count is the length of the list.
TimerTypeOK ==
    /\ timer \in [Timers -> timer_t]
    /\ timer_manager.list \in Seq(Timers)
    /\ timer_manager.count = Len(timer_manager.list)

\* The list holds every active timer once and nothing else, in the middle of the
\* calls of a task and while a callback runs: a timer stopped, restarted, deleted
\* or given a new period between two steps of os_timer_process is never lost and
\* never linked twice.
ListIsActive ==
    LET l == timer_manager.list
    IN  /\ {l[i] : i \in DOMAIN l} = {t \in Timers : timer[t].active}
        /\ \A i, j \in DOMAIN l : l[i] = l[j] => i = j

\* os_timer_process stops at the first timer that has not expired and still
\* leaves none behind: when it ends, no active timer is due.
NoneOverdue ==
    [][isr.pc = "loop" /\ isr'.pc = "out" =>
        \A t \in Timers : timer[t].active => timer[t].expire_time > tick_count]_timervars
=============================================================================
