-------------------------------- MODULE Mutex --------------------------------
(***************************************************************************)
(* Mutexes with priority inheritance (src/sync.c) on the scheduler of      *)
(* src/kernel.c.  Tasks are created, the OS is started, and every task     *)
(* then locks and unlocks mutexes, yields and suspends itself at will.  A  *)
(* critical section is one step, except in os_mutex_unlock, which can      *)
(* yield in the middle of its own.  PRIMASK belongs to the processor, not  *)
(* to the task: context_switch leaves it as it is, and os_exit_critical    *)
(* writes back the value that the matching os_enter_critical read.         *)
(***************************************************************************)
EXTENDS Sched

CONSTANTS
  Mutexes,
  Timeouts    \* {TRUE, FALSE}, or one of them: does a lock call have a timeout

\* The tasks fit the task pool.
ASSUME MutexAssumption ==
  /\ Timeouts \subseteq BOOLEAN
  /\ IsFiniteSet(Tasks) /\ Cardinality(Tasks) <= MAX_TASKS

VARIABLES
  k,         \* the kernel value (module Sched)
  primask,   \* interrupts are masked
  mutex,     \* the mutex_t objects
  pc,        \* where each task is
  arg,       \* the mutex of each task's call
  timed,     \* whether that call has a timeout
  saved,     \* `state' of each task's os_mutex_unlock
  held,      \* history: mutexes a task has locked and not yet released
  saw        \* history: the owner each task's last attempt found

vars == <<k, primask, mutex, pc, arg, timed, saved, held, saw>>

Location == {"run", "lock", "lock_timeout", "lock_yield",
             "unlock_release", "yield"}

TypeOK ==
  /\ k \in KernelValue
  /\ primask \in BOOLEAN
  /\ mutex \in [Mutexes -> [locked : BOOLEAN, owner : Tasks \cup {NULL}]]
  /\ pc \in [Tasks -> Location]
  /\ arg \in [Tasks -> Mutexes]
  /\ timed \in [Tasks -> BOOLEAN]
  /\ saved \in [Tasks -> BOOLEAN]
  /\ held \in [Tasks -> SUBSET Mutexes]
  /\ saw \in [Tasks -> Tasks \cup {NULL}]

\* os_mutex_init
Unlocked == [locked |-> FALSE, owner |-> NULL]

Init ==
  /\ \E base \in [Tasks -> Prio] :
       /\ base[Idle] = PRIORITY_IDLE
       /\ k = Start(KernelWith(Tasks, base))
  /\ primask = FALSE
  /\ mutex = [m \in Mutexes |-> Unlocked]
  /\ pc = [t \in Tasks |-> "run"]
  /\ arg \in [Tasks -> Mutexes] /\ \A t, u \in Tasks : arg[t] = arg[u]
  /\ timed = [t \in Tasks |-> FALSE]
  /\ saved = [t \in Tasks |-> FALSE]
  /\ held = [t \in Tasks |-> {}]
  /\ saw = [t \in Tasks |-> NULL]

-----------------------------------------------------------------------------
\* Task t has the processor and is at l.  The idle task calls nothing.
At(t, l) == k.current_task = t /\ t # Idle /\ pc[t] = l

Goto(t, l) == pc' = [pc EXCEPT ![t] = l]

Calls(t, m, l) ==
  /\ Goto(t, l)
  /\ arg' = [arg EXCEPT ![t] = m]

(* os_mutex_lock *)

os_mutex_lock(t, m, timeout) ==
  /\ At(t, "run")
  /\ Calls(t, m, "lock")
  /\ timed' = [timed EXCEPT ![t] = timeout]
  /\ UNCHANGED <<k, primask, mutex, saved, held, saw>>

\* The mutex is free.  (ceiling_priority starts at PRIORITY_IDLE and only ever
\* grows, so it stays there; nothing reads it.)
Acquire(t) ==
  /\ At(t, "lock")
  /\ ~mutex[arg[t]].locked
  /\ mutex' = [mutex EXCEPT ![arg[t]] = [locked |-> TRUE, owner |-> t]]
  /\ held' = [held EXCEPT ![t] = @ \cup {arg[t]}]
  /\ Goto(t, "run")
  /\ UNCHANGED <<k, primask, arg, timed, saved, saw>>

\* Mutant: the priorities are compared the wrong way round, so that
\* os_task_raise_priority, which never lowers one, does nothing.
Inherit_reversed(t) ==
  /\ At(t, "lock")
  /\ mutex[arg[t]].locked
  /\ saw' = [saw EXCEPT ![t] = mutex[arg[t]].owner]
  /\ Goto(t, "lock_timeout")
  /\ UNCHANGED <<k, primask, mutex, arg, timed, saved, held>>

\* The mutex is taken: raise the owner to the caller's priority if that is
\* higher.  os_task_raise_priority does not yield, its new priority being the
\* running task's own.
Inherit(t) ==
  LET owner == mutex[arg[t]].owner
  IN  /\ At(t, "lock")
      /\ mutex[arg[t]].locked
      /\ k' = IF owner # NULL /\ k.priority[t] < k.priority[owner]
              THEN Requeue(k, owner, k.priority[t]) ELSE k
      /\ saw' = [saw EXCEPT ![t] = owner]
      /\ Goto(t, "lock_timeout")
      /\ UNCHANGED <<primask, mutex, arg, timed, saved, held>>

\* The timeout of a call that has one may be over at any test.
LockTimeout(t) ==
  /\ At(t, "lock_timeout")
  /\ \/ Goto(t, "lock_yield") /\ UNCHANGED saw
     \/ timed[t] /\ Goto(t, "run") /\ saw' = [saw EXCEPT ![t] = NULL]
  /\ UNCHANGED <<k, primask, mutex, arg, timed, saved, held>>

LockYield(t) ==
  /\ At(t, "lock_yield")
  /\ k' = Yield(k)
  /\ Goto(t, "lock")
  /\ UNCHANGED <<primask, mutex, arg, timed, saved, held, saw>>

-----------------------------------------------------------------------------
(* os_mutex_unlock *)

Release(t, m) ==
  /\ mutex' = [mutex EXCEPT ![m] = Unlocked]
  /\ held' = [held EXCEPT ![t] = @ \ {m}]
  /\ saw' = [u \in Tasks |-> IF arg[u] = m THEN NULL ELSE saw[u]]
  /\ Goto(t, "yield")

\* Mutant: any task can unlock a locked mutex.
UnlockUnboosted_by_anyone(t, m) ==
  /\ At(t, "run")
  /\ mutex[m].locked
  /\ k.base_priority[t] <= k.priority[t]
  /\ k' = Requeue(k, t, k.base_priority[t])
  /\ Release(t, m)
  /\ UNCHANGED <<primask, arg, timed, saved>>

\* OS_ERROR_PERMISSION_DENIED, for another task's mutex, changes nothing.
\* os_task_reset_priority leaves the priority as it was: the mutex is released
\* in the same critical section.
UnlockUnboosted(t, m) ==
  /\ At(t, "run")
  /\ mutex[m].owner = t
  /\ k.base_priority[t] <= k.priority[t]
  /\ k' = Requeue(k, t, k.base_priority[t])
  /\ Release(t, m)
  /\ UNCHANGED <<primask, arg, timed, saved>>

\* os_task_reset_priority lowers the priority, and yields: inside the critical
\* section of os_mutex_unlock, with interrupts masked and the mutex still held.
UnlockBoosted(t, m) ==
  /\ At(t, "run")
  /\ mutex[m].owner = t
  /\ k.base_priority[t] > k.priority[t]
  /\ k' = Yield(Requeue(k, t, k.base_priority[t]))
  /\ saved' = [saved EXCEPT ![t] = primask]
  /\ primask' = TRUE
  /\ Calls(t, m, "unlock_release")
  /\ UNCHANGED <<mutex, timed, held, saw>>

UnlockRelease(t) ==
  /\ At(t, "unlock_release")
  /\ Release(t, arg[t])
  /\ primask' = saved[t]
  /\ UNCHANGED <<k, arg, timed, saved>>

\* os_mutex_unlock and os_task_suspend end with os_task_yield.
FinalYield(t) ==
  /\ At(t, "yield")
  /\ k' = Yield(k)
  /\ Goto(t, "run")
  /\ UNCHANGED <<primask, mutex, arg, timed, saved, held, saw>>

-----------------------------------------------------------------------------
os_task_yield(t) ==
  /\ At(t, "run")
  /\ k' = Yield(k)
  /\ UNCHANGED <<primask, mutex, pc, arg, timed, saved, held, saw>>

\* A task suspends itself; a task or an interrupt handler resumes it.
os_task_suspend(t) ==
  /\ At(t, "run")
  /\ k' = Suspend(k, t)
  /\ Goto(t, "yield")
  /\ UNCHANGED <<primask, mutex, arg, timed, saved, held, saw>>

os_task_resume(t) ==
  /\ k.state[t] = "SUSPENDED"
  /\ ~primask \/ \E u \in Tasks : At(u, "run")
  /\ k' = Resume(k, t)
  /\ UNCHANGED <<primask, mutex, pc, arg, timed, saved, held, saw>>

\* The timer interrupt, unless masked.
Tick ==
  /\ ~primask
  /\ k' = os_scheduler(k)
  /\ UNCHANGED <<primask, mutex, pc, arg, timed, saved, held, saw>>

TaskStep(t) ==
  \/ \E m \in Mutexes, timeout \in Timeouts : os_mutex_lock(t, m, timeout)
  \/ Acquire(t)
  \/ Inherit(t)
  \/ LockTimeout(t)
  \/ LockYield(t)
  \/ \E m \in Mutexes : UnlockUnboosted(t, m)
  \/ \E m \in Mutexes : UnlockBoosted(t, m)
  \/ UnlockRelease(t)
  \/ FinalYield(t)
  \/ os_task_yield(t)
  \/ os_task_suspend(t)

Next ==
  \/ Tick
  \/ \E t \in Tasks : TaskStep(t)
  \/ \E t \in Tasks : os_task_resume(t)

Spec == Init /\ [][Next]_vars

-----------------------------------------------------------------------------
\* A mutex that a task locked successfully stays that task's until it unlocks:
\* no other task can have locked it too, not even while the owner is switched
\* out in the middle of os_mutex_unlock.
MutualExclusion ==
  \A m \in Mutexes :
    /\ mutex[m].locked <=> mutex[m].owner # NULL
    /\ \A t \in Tasks : m \in held[t] <=> mutex[m].owner = t

\* Moving the priority of tasks that are queued, running or in neither state
\* leaves the kernel's queues, bitmap and task states consistent.
KernelConsistent ==
  QueuesHoldReadyTasks(k) /\ BitmapMatchesQueues(k) /\ OnlyCurrentRuns(k)

\* Priority inheritance: while a task waits for a mutex, the owner it found
\* there runs at the waiter's priority or above until it starts to unlock.
Inheritance ==
  \A t \in Tasks :
    saw[t] # NULL /\ pc[saw[t]] # "unlock_release"
      => k.priority[saw[t]] <= k.priority[t]

(* What the comments say and the code does not do *)

\* sync.c: os_mutex_unlock "Resets priority inheritance if it was applied".  A
\* task that holds no mutex runs at its base priority.
BasePriorityRestored ==
  \A t \in Tasks : held[t] = {} => k.priority[t] = k.base_priority[t]

\* README.md: "Preemptive".  The timer can preempt a task that is in its own
\* code.
PreemptibleOutsideKernel ==
  \A t \in Tasks : k.current_task = t /\ pc[t] = "run" => ~primask
=============================================================================
