-------------------------------- MODULE Sched --------------------------------
(***************************************************************************)
(* The kernel's data structures and the functions of src/kernel.c that     *)
(* read and write them, as operators on one kernel value.  A kernel value  *)
(* k is the static struct `kernel' together with the fields of the task    *)
(* control blocks that the scheduler uses.  The linked list through        *)
(* tcb_t.next that starts at ready_queue[p] is the sequence                *)
(* k.ready_queue[p], head first; the 256-bit ready_bitmap is the set of    *)
(* the priorities whose bit is set.  0 is the highest priority.            *)
(***************************************************************************)
EXTENDS Integers, Sequences, SequencesExt

CONSTANTS
  Tasks,          \* the task control blocks
  Idle,           \* &kernel.task_pool[0]
  NULL,           \* no task
  PRIORITY_IDLE,  \* the lowest priority (255 in tinyos.h)
  TIME_SLICE_MS,  \* ticks a task runs before it is preempted
  MAX_TASKS,      \* limit on task_count
  COUNT_MOD,      \* task_count wraps here (2^8 in the code)
  TICK_MOD        \* tick_count wraps here (2^32 in the code)

ASSUME SchedAssumption ==
  /\ Idle \in Tasks
  /\ NULL \notin Tasks
  /\ PRIORITY_IDLE \in Nat
  /\ TIME_SLICE_MS \in Nat \ {0}
  /\ MAX_TASKS \in Nat \ {0}
  /\ COUNT_MOD \in Nat /\ MAX_TASKS < COUNT_MOD
  /\ TICK_MOD \in Nat \ {0}

Prio == 0 .. PRIORITY_IDLE

\* task_state_t.  "UNUSED" is a control block os_task_create has not seen yet.
\* TASK_STATE_BLOCKED exists in the enum; no code assigns it.
TaskState == {"UNUSED", "READY", "RUNNING", "SUSPENDED", "TERMINATED"}

KernelValue ==
  [current_task : Tasks \cup {NULL},
   ready_queue  : [Prio -> Seq(Tasks)],
   ready_bitmap : SUBSET Prio,
   task_count   : 0 .. COUNT_MOD - 1,
   tick_count   : 0 .. TICK_MOD - 1,
   scheduler_running : BOOLEAN,
   state         : [Tasks -> TaskState],
   priority      : [Tasks -> Prio],
   base_priority : [Tasks -> Prio],
   time_slice    : [Tasks -> 0 .. TIME_SLICE_MS]]

\* The kernel once os_init has created the idle task and main the tasks of
\* `user' with the given priorities.
KernelWith(user, base) ==
  LET made == user \cup {Idle}
  IN  [current_task |-> NULL,
       ready_queue  |-> [p \in Prio |-> SetToSeq({t \in made : base[t] = p})],
       ready_bitmap |-> {base[t] : t \in made},
       task_count   |-> Cardinality(made),
       tick_count   |-> 0,
       scheduler_running |-> FALSE,
       state         |-> [t \in Tasks |-> IF t \in made THEN "READY" ELSE "UNUSED"],
       priority      |-> base,
       base_priority |-> base,
       time_slice    |-> [t \in Tasks |-> IF t \in made THEN TIME_SLICE_MS ELSE 0]]

-----------------------------------------------------------------------------
(* The ready queues *)

\* Mark t READY and append it to the queue of its priority.
scheduler_add_ready_task(k, t) ==
  [k EXCEPT !.state[t] = "READY",
            !.ready_queue[k.priority[t]] = Append(@, t),
            !.ready_bitmap = @ \cup {k.priority[t]}]

\* Unlink t from the queue of its priority, the only one searched.
scheduler_remove_task(k, t) ==
  LET p == k.priority[t]
      q == RemoveFirst(k.ready_queue[p], t)
  IN  IF Contains(k.ready_queue[p], t)
      THEN [k EXCEPT !.ready_queue[p] = q,
                     !.ready_bitmap = IF q = << >> THEN @ \ {p} ELSE @]
      ELSE k

\* Mutant: count leading instead of trailing zeros.
HighestBit(k) == CHOOSE p \in k.ready_bitmap : \A q \in k.ready_bitmap : p >= q

\* The lowest set bit of a nonempty bitmap.
HighestReady(k) == CHOOSE p \in k.ready_bitmap : \A q \in k.ready_bitmap : p <= q

\* scheduler_get_next_task: the task it returns ...
NextTask(k) ==
  IF k.ready_bitmap = {} THEN Idle ELSE Head(k.ready_queue[HighestReady(k)])

\* ... and the kernel it leaves, with that task unlinked.
PopNextTask(k) ==
  LET p == HighestReady(k)
      q == Tail(k.ready_queue[p])
  IN  IF k.ready_bitmap = {}
      THEN k
      ELSE [k EXCEPT !.ready_queue[p] = q,
                     !.ready_bitmap = IF q = << >> THEN @ \ {p} ELSE @]

-----------------------------------------------------------------------------
(* The scheduler *)

\* Make the task that scheduler_get_next_task returns the current one.  When it
\* is the one that runs already, only its time slice changes.
Reschedule(k) ==
  LET next   == NextTask(k)
      popped == PopNextTask(k)
  IN  IF next # k.current_task
      THEN [popped EXCEPT !.current_task = next,
                          !.state[next] = "RUNNING",
                          !.time_slice[next] = TIME_SLICE_MS]
      ELSE [popped EXCEPT !.time_slice[next] = TIME_SLICE_MS]

\* Mutant: only a task in state RUNNING uses up its slice.
os_scheduler_counts_running(k) ==
  LET cur    == k.current_task
      left   == IF k.state[cur] = "RUNNING" /\ k.time_slice[cur] > 0
                THEN k.time_slice[cur] - 1 ELSE k.time_slice[cur]
      ticked == [k EXCEPT !.tick_count = (@ + 1) % TICK_MOD,
                          !.time_slice[cur] = left]
  IN  IF left > 0
      THEN ticked
      ELSE IF k.state[cur] = "RUNNING"
           THEN Reschedule(scheduler_add_ready_task(ticked, cur))
           ELSE Reschedule(ticked)

\* Mutant: an interrupt does not use up the slice.
os_scheduler_keeps_slice(k) ==
  LET cur    == k.current_task
      ticked == [k EXCEPT !.tick_count = (@ + 1) % TICK_MOD]
  IN  IF k.time_slice[cur] > 0
      THEN ticked
      ELSE IF k.state[cur] = "RUNNING"
           THEN Reschedule(scheduler_add_ready_task(ticked, cur))
           ELSE Reschedule(ticked)

\* One call of the scheduler, by the timer interrupt or by os_task_yield.
os_scheduler(k) ==
  LET cur    == k.current_task
      left   == IF k.time_slice[cur] > 0 THEN k.time_slice[cur] - 1 ELSE 0
      ticked == [k EXCEPT !.tick_count = (@ + 1) % TICK_MOD,
                          !.time_slice[cur] = left]
  IN  IF left > 0
      THEN ticked
      ELSE IF k.state[cur] = "RUNNING"
           THEN Reschedule(scheduler_add_ready_task(ticked, cur))
           ELSE Reschedule(ticked)

\* os_task_yield gives up the rest of the slice and calls the scheduler.
Yield(k) == os_scheduler([k EXCEPT !.time_slice[k.current_task] = 0])

\* os_start makes the first task current; its slice is the one it was created
\* with.
Start(k) ==
  [PopNextTask(k) EXCEPT !.scheduler_running = TRUE,
                         !.current_task = NextTask(k),
                         !.state[NextTask(k)] = "RUNNING"]

-----------------------------------------------------------------------------
(* Suspension and deletion *)

\* Take t out of the queues and out of the READY and RUNNING states.
Retire(k, t, s) == [scheduler_remove_task(k, t) EXCEPT !.state[t] = s]

\* The critical section of os_task_suspend.
Suspend(k, t) == Retire(k, t, "SUSPENDED")

\* The critical section of os_task_delete.  Nothing stops a second delete of
\* the same task, and task_count is unsigned.
Delete(k, t) ==
  [Retire(k, t, "TERMINATED") EXCEPT !.task_count = (@ - 1) % COUNT_MOD]

\* os_task_resume does nothing to a task that is not suspended.
Resume(k, t) ==
  IF k.state[t] = "SUSPENDED" THEN scheduler_add_ready_task(k, t) ELSE k

-----------------------------------------------------------------------------
(* Priorities *)

\* Mutant: the priority changes before the task leaves its old queue.
Requeue_priority_first(k, t, p) ==
  LET moved == [k EXCEPT !.priority[t] = p]
  IN  IF k.state[t] = "READY"
      THEN scheduler_add_ready_task(scheduler_remove_task(moved, t), t)
      ELSE moved

\* Change t's priority to p: out of the old queue before, into the new after.
Requeue(k, t, p) ==
  IF k.state[t] = "READY"
  THEN scheduler_add_ready_task(
         [scheduler_remove_task(k, t) EXCEPT !.priority[t] = p], t)
  ELSE [k EXCEPT !.priority[t] = p]

-----------------------------------------------------------------------------
(* Properties of a kernel value *)

\* Every queue holds READY tasks of its own priority, each once.
QueuesHoldReadyTasks(k) ==
  \A p \in Prio :
    /\ \A i \in 1 .. Len(k.ready_queue[p]) :
         /\ k.state[k.ready_queue[p][i]] = "READY"
         /\ k.priority[k.ready_queue[p][i]] = p
    /\ \A i, j \in 1 .. Len(k.ready_queue[p]) :
         k.ready_queue[p][i] = k.ready_queue[p][j] => i = j

\* A priority's bit is set exactly when its queue is not empty.
BitmapMatchesQueues(k) ==
  \A p \in Prio : p \in k.ready_bitmap <=> k.ready_queue[p] # << >>

\* Only the current task is RUNNING, and there is one once the OS has started.
OnlyCurrentRuns(k) ==
  /\ k.scheduler_running <=> k.current_task # NULL
  /\ \A t \in Tasks : k.state[t] = "RUNNING" => t = k.current_task

\* A ready task has a higher priority than the task that runs.
Outranked(k) ==
  k.current_task # NULL /\ \E p \in k.ready_bitmap : p < k.priority[k.current_task]

Queued(k, t) == \E p \in Prio : Contains(k.ready_queue[p], t)
=============================================================================
