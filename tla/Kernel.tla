-------------------------------- MODULE Kernel --------------------------------
(***************************************************************************)
(* Tasks, the timer interrupt and the task management calls of             *)
(* src/kernel.c.  The task that runs is k.current_task; each of its calls  *)
(* is one step up to the os_exit_critical that ends it, and an             *)
(* os_task_yield that follows the critical section is a second step, so    *)
(* that a timer interrupt can fall between the two.  The call of           *)
(* os_scheduler itself is one step here.  main() makes the calls before    *)
(* os_start; the idle task makes none.                                     *)
(***************************************************************************)
EXTENDS Sched

CONSTANT MaxDelay     \* longest os_task_delay a task asks for

ASSUME DelayAssumption == MaxDelay \in Nat /\ 2 * MaxDelay < TICK_MOD

VARIABLES
  k,          \* the kernel value (module Sched)
  pc,         \* where each task is: in its own code, or inside a kernel call
  target,     \* `target' of each task's os_task_delay
  owed,       \* history: timer interrupts still owed to each task's delay
  outranked   \* history: timer interrupts taken since the running task was
              \* first outranked by a ready one

vars == <<k, pc, target, owed, outranked>>

Location == {"run", "yield", "delay", "delay_yield"}

TypeOK ==
  /\ k \in KernelValue
  /\ pc \in [Tasks -> Location]
  /\ target \in [Tasks -> 0 .. TICK_MOD - 1]
  /\ owed \in [Tasks -> 0 .. MaxDelay]
  /\ outranked \in Nat

\* The state os_init leaves: everything zero, then the idle task created.
os_init ==
  [current_task |-> NULL,
   ready_queue  |-> [p \in Prio |-> IF p = PRIORITY_IDLE THEN <<Idle>> ELSE << >>],
   ready_bitmap |-> {PRIORITY_IDLE},
   task_count   |-> 1,
   tick_count   |-> 0,
   scheduler_running |-> FALSE,
   state         |-> [t \in Tasks |-> IF t = Idle THEN "READY" ELSE "UNUSED"],
   priority      |-> [t \in Tasks |-> IF t = Idle THEN PRIORITY_IDLE ELSE 0],
   base_priority |-> [t \in Tasks |-> IF t = Idle THEN PRIORITY_IDLE ELSE 0],
   time_slice    |-> [t \in Tasks |-> IF t = Idle THEN TIME_SLICE_MS ELSE 0]]

Init ==
  /\ k = os_init
  /\ pc = [t \in Tasks |-> "run"]
  /\ target = [t \in Tasks |-> 0]
  /\ owed = [t \in Tasks |-> 0]
  /\ outranked = 0

-----------------------------------------------------------------------------
cur == k.current_task

\* main() before os_start, or the running task between two kernel calls.
Caller == cur # NULL => cur # Idle /\ pc[cur] = "run"

Created(t) == k.state[t] # "UNUSED"

\* The kernel becomes `new' in a step that is not a timer interrupt.
Becomes(new) ==
  /\ k' = new
  /\ outranked' = IF Outranked(new) THEN outranked ELSE 0

\* The end of a call that yields after its critical section when `yields'.
Return(yields) ==
  /\ pc' = IF yields THEN [pc EXCEPT ![cur] = "yield"] ELSE pc
  /\ UNCHANGED <<target, owed>>

-----------------------------------------------------------------------------
(* Task management *)

os_start ==
  /\ ~k.scheduler_running
  /\ Becomes(Start(k))
  /\ UNCHANGED <<pc, target, owed>>

\* A control block is created before its first use, or again once deleted.
\* OS_ERROR_NO_MEMORY at the limit changes nothing.
os_task_create(t, p) ==
  /\ Caller
  /\ k.state[t] \in {"UNUSED", "TERMINATED"}
  /\ k.task_count < MAX_TASKS
  /\ Becomes(scheduler_add_ready_task(
       [k EXCEPT !.task_count = (@ + 1) % COUNT_MOD,
                 !.priority[t] = p,
                 !.base_priority[t] = p,
                 !.time_slice[t] = TIME_SLICE_MS], t))
  /\ pc' = [pc EXCEPT ![t] = "run"]
  /\ target' = [target EXCEPT ![t] = 0]
  /\ owed' = [owed EXCEPT ![t] = 0]

os_task_delete(t) ==
  /\ Caller /\ Created(t) /\ t # Idle
  /\ Becomes(Delete(k, t))
  /\ Return(t = cur)

os_task_suspend(t) ==
  /\ Caller /\ Created(t)
  /\ Becomes(Suspend(k, t))
  /\ Return(t = cur)

\* Called by a task, by main or by an interrupt handler: it never yields, so
\* the step is the same for all of them.
os_task_resume(t) ==
  /\ k.state[t] = "SUSPENDED"
  /\ Becomes(Resume(k, t))
  /\ UNCHANGED <<pc, target, owed>>

-----------------------------------------------------------------------------
(* Priorities *)

\* A higher-priority task than the running one may now be ready.
Preempts(new, p) == new.current_task # NULL /\ p < new.priority[new.current_task]

os_task_set_priority(t, p) ==
  LET old == k.priority[t]
      new == [Requeue(k, t, p) EXCEPT !.base_priority[t] = p]
  IN  /\ Caller /\ Created(t)
      /\ p # old
      /\ Becomes(new)
      /\ Return((t = cur /\ p > old) \/ Preempts(new, p))

os_task_raise_priority(t, p) ==
  LET new == Requeue(k, t, p)
  IN  /\ Caller /\ Created(t)
      /\ p < k.priority[t]
      /\ Becomes(new)
      /\ Return(Preempts(new, p))

os_task_reset_priority(t) ==
  /\ Caller /\ Created(t)
  /\ Becomes(Requeue(k, t, k.base_priority[t]))
  /\ Return(t = cur /\ k.base_priority[t] > k.priority[t])

-----------------------------------------------------------------------------
(* Giving up the processor *)

\* os_task_yield, called by the task itself or at the end of another call.
os_task_yield ==
  /\ cur # NULL
  /\ \/ cur # Idle /\ pc[cur] = "run"
     \/ pc[cur] = "yield"
  /\ Becomes(Yield(k))
  /\ pc' = [pc EXCEPT ![cur] = "run"]
  /\ UNCHANGED <<target, owed>>

os_task_delay(ticks) ==
  /\ cur # NULL /\ Caller
  /\ target' = [target EXCEPT ![cur] = (k.tick_count + ticks) % TICK_MOD]
  /\ owed' = [owed EXCEPT ![cur] = ticks]
  /\ pc' = [pc EXCEPT ![cur] = "delay"]
  /\ UNCHANGED <<k, outranked>>

\* (int32_t)(target - tick_count) > 0
Before(a, b) == (b - a) % TICK_MOD \in 1 .. (TICK_MOD - 1) \div 2

DelayTest ==
  /\ cur # NULL /\ pc[cur] = "delay"
  /\ pc' = [pc EXCEPT ![cur] = IF Before(k.tick_count, target[cur])
                               THEN "delay_yield" ELSE "run"]
  /\ UNCHANGED <<k, target, owed, outranked>>

DelayYield ==
  /\ cur # NULL /\ pc[cur] = "delay_yield"
  /\ Becomes(Yield(k))
  /\ pc' = [pc EXCEPT ![cur] = "delay"]
  /\ UNCHANGED <<target, owed>>

-----------------------------------------------------------------------------
\* The timer interrupt calls os_scheduler.
Tick ==
  LET new == os_scheduler(k)
  IN  /\ k.scheduler_running
      /\ k' = new
      /\ outranked' = IF Outranked(new) THEN outranked + 1 ELSE 0
      /\ owed' = [t \in Tasks |-> IF owed[t] > 0 THEN owed[t] - 1 ELSE 0]
      /\ UNCHANGED <<pc, target>>

\* What a task does with the processor: compute, yield, delay.
Run ==
  \/ Tick
  \/ os_task_yield
  \/ \E n \in 0 .. MaxDelay : os_task_delay(n)
  \/ DelayTest
  \/ DelayYield

\* What tasks and main do to tasks.
Manage ==
  \/ os_start
  \/ \E t \in Tasks, p \in Prio : os_task_create(t, p)
  \/ \E t \in Tasks : os_task_delete(t)
  \/ \E t \in Tasks : os_task_suspend(t)
  \/ \E t \in Tasks : os_task_resume(t)
  \/ \E t \in Tasks, p \in Prio : os_task_set_priority(t, p)
  \/ \E t \in Tasks, p \in Prio : os_task_raise_priority(t, p)
  \/ \E t \in Tasks : os_task_reset_priority(t)

Next == Run \/ Manage

Spec == Init /\ [][Next]_vars

\* The timer keeps interrupting.  A task need not ever yield or delay.
Fairness == WF_vars(Tick)

\* Tasks are created and the OS is started; from then on they only run.
RunNext ==
  \/ Run
  \/ os_start
  \/ cur = NULL /\ \E t \in Tasks, p \in Prio : os_task_create(t, p)

RunSpec == Init /\ [][RunNext]_vars /\ Fairness

-----------------------------------------------------------------------------
(* Safety *)

\* kernel.c keeps three records of who is ready: tcb_t.state, the 256 lists
\* and the bitmap.  They agree after every call, whatever order the calls and
\* the interrupts come in: a queue holds READY tasks of its own priority, none
\* twice (scheduler_remove_task searches no other queue and stops at the first
\* match), and a bit is set exactly for the queues with a task in them (a set
\* bit over an empty queue makes scheduler_get_next_task follow NULL).
ReadyQueuesConsistent == QueuesHoldReadyTasks(k) /\ BitmapMatchesQueues(k)

\* At most one task is RUNNING, the one that has the processor: a task that is
\* switched out leaves that state in os_scheduler, whichever of os_task_yield,
\* os_task_delay, the timer or a self-suspension switched it out.
OneRunning == OnlyCurrentRuns(k)

\* The scheduler preempts only when a time slice ends, so a task of higher
\* priority can be ready while a lower one runs; but never for a whole slice:
\* os_scheduler counts the running task's slice down on every interrupt,
\* nothing refills it in between, and the switch then goes to the top queue.
PreemptionLatency == outranked < TIME_SLICE_MS

\* A context switch goes to a task that no ready task outranks, the bitmap scan
\* of scheduler_get_next_task included.
SwitchToHighest == [][k'.current_task # cur => ~Outranked(k')]_vars

(* Liveness *)

\* Round robin: once the OS runs and no task outranks t, being queued leads to
\* getting the processor, because a task that leaves it (slice over, yield or
\* delay) goes behind the others of its priority.
TopPriority(t) == \A u \in Tasks : Created(u) => k.priority[t] <= k.priority[u]

QueuedTaskRuns ==
  \A t \in Tasks :
    (k.scheduler_running /\ Queued(k, t) /\ TopPriority(t)) ~> (cur = t)

(* What the documentation says and the code does not do *)

\* README.md: "round-robin within same priority".  A task that is ready is in
\* line for the processor, or has it.
ReadyTaskIsScheduled ==
  \A t \in Tasks \ {Idle} : k.state[t] = "READY" => Queued(k, t) \/ t = cur

\* tinyos.h: os_task_delay_ms is "portable across different TICK_RATE_HZ
\* values": os_task_delay(n) takes n timer interrupts.
DelayTakesTicks ==
  [][\A t \in Tasks : pc[t] = "delay" /\ pc'[t] = "run" => owed[t] = 0]_vars
=============================================================================
