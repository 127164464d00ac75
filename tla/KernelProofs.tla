---------------------------- MODULE KernelProofs ----------------------------
(***************************************************************************)
(* The safety properties of module Kernel, for every number of tasks,      *)
(* every number of priorities and every time slice.                        *)
(***************************************************************************)
EXTENDS Kernel, SchedProofs

\* Before os_start every task has a full slice.  Once the OS runs, the running
\* task has ticks left, and the ones it has used while outranked and the ones
\* left make at most a slice.
SliceLeft ==
  /\ cur = NULL =>
       /\ outranked = 0
       /\ \A t \in Tasks : k.state[t] # "UNUSED" => k.time_slice[t] = TIME_SLICE_MS
  /\ cur # NULL =>
       /\ k.time_slice[cur] >= 1
       /\ outranked + k.time_slice[cur] <= TIME_SLICE_MS

\* os_task_create cannot be given the control block of the running task: that
\* one is alive, or has deleted itself and is about to yield for good.
CurrentIsAlive ==
  /\ k.state[Idle] \notin {"UNUSED", "TERMINATED"}
  /\ cur # NULL /\ k.state[cur] \in {"UNUSED", "TERMINATED"} => pc[cur] = "yield"

IInv == TypeOK /\ ReadyQueuesConsistent /\ OneRunning /\ SliceLeft /\ CurrentIsAlive

-----------------------------------------------------------------------------
\* The variables of the tasks keep their types.
LocalsOK ==
  /\ pc' \in [Tasks -> Location]
  /\ target' \in [Tasks -> 0 .. TICK_MOD - 1]
  /\ owed' \in [Tasks -> 0 .. MaxDelay]

SwitchOK == k'.current_task # cur => ~Outranked(k')

LEMMA IInvFacts ==
  ASSUME IInv
  PROVE  /\ QueuesOK(k) /\ OnlyCurrentRuns(k) /\ k \in KernelValue
         /\ cur \in Tasks \cup {NULL}
         /\ k.scheduler_running <=> cur # NULL
  BY DEF IInv, TypeOK, ReadyQueuesConsistent, OneRunning, QueuesOK, cur,
         KernelValue, OnlyCurrentRuns

\* A step that dispatches.
LEMMA DispatchStep ==
  ASSUME IInv, LocalsOK, Dispatched(k, k'), outranked' = 0
  PROVE  IInv' /\ SwitchOK
<1>1. /\ QueuesOK(k') /\ OnlyCurrentRuns(k') /\ k' \in KernelValue
      /\ cur' \in Tasks /\ cur' # NULL
      /\ ~Outranked(k')
      /\ k'.time_slice[cur'] = TIME_SLICE_MS
      /\ \A t \in Tasks : k'.state[t] = k.state[t] \/ k'.state[t] \in {"READY", "RUNNING"}
      /\ k'.state[cur'] \in {"READY", "RUNNING"} \/ cur' = Idle
  BY SchedAssumption DEF Dispatched, cur, QueuesOK
<1>2. TypeOK' /\ ReadyQueuesConsistent' /\ OneRunning'
  BY <1>1 DEF TypeOK, LocalsOK, QueuesOK, ReadyQueuesConsistent, OneRunning
<1>3. SliceLeft'
  BY <1>1, SchedAssumption DEF SliceLeft
<1>4. k'.state[Idle] \notin {"UNUSED", "TERMINATED"}
  BY <1>1, SchedAssumption DEF IInv, CurrentIsAlive
<1>5. CurrentIsAlive'
  BY <1>1, <1>4 DEF CurrentIsAlive
<1> QED BY <1>1, <1>2, <1>3, <1>5 DEF IInv, SwitchOK

\* A step that changes tasks and leaves the running one where it is.
LEMMA ManageStep ==
  ASSUME IInv, LocalsOK, Managed(k, k'),
         outranked' = IF Outranked(k') THEN outranked ELSE 0,
         cur # NULL => k'.time_slice[cur] = k.time_slice[cur],
         cur = NULL => \A t \in Tasks : k'.state[t] # "UNUSED"
                                       => k'.time_slice[t] = TIME_SLICE_MS,
         k'.state[Idle] \notin {"UNUSED", "TERMINATED"},
         cur # NULL /\ k'.state[cur] \in {"UNUSED", "TERMINATED"} => pc'[cur] = "yield"
  PROVE  IInv' /\ SwitchOK
<1>1. QueuesOK(k') /\ OnlyCurrentRuns(k') /\ k' \in KernelValue /\ cur' = cur
  BY DEF Managed, cur, QueuesOK
<1>2. outranked' \in Nat /\ outranked' <= outranked
  BY DEF IInv, TypeOK
<1>3. TypeOK' /\ ReadyQueuesConsistent' /\ OneRunning'
  BY <1>1, <1>2 DEF TypeOK, LocalsOK, QueuesOK, ReadyQueuesConsistent, OneRunning
<1>4. SliceLeft'
  <2>1. CASE cur = NULL
    BY <1>1, <1>2, <2>1 DEF SliceLeft, Outranked, cur
  <2>2. CASE cur # NULL
    <3>1. cur \in Tasks /\ k.time_slice[cur] \in Nat /\ outranked \in Nat
      BY <2>2, IInvFacts, SchedAssumption DEF KernelValue, IInv, TypeOK
    <3>2. k.time_slice[cur] >= 1 /\ outranked + k.time_slice[cur] <= TIME_SLICE_MS
      BY <2>2 DEF IInv, SliceLeft
    <3>3. k'.time_slice[cur'] >= 1 /\ outranked' + k'.time_slice[cur'] <= TIME_SLICE_MS
      BY <1>1, <1>2, <2>2, <3>1, <3>2, SchedAssumption
    <3> QED BY <1>1, <2>2, <3>3 DEF SliceLeft
  <2> QED BY <2>1, <2>2
<1>5. CurrentIsAlive'
  BY <1>1 DEF CurrentIsAlive
<1> QED BY <1>1, <1>3, <1>4, <1>5 DEF IInv, SwitchOK, cur

-----------------------------------------------------------------------------
(* One lemma per action *)

LEMMA StartStep == ASSUME IInv, os_start PROVE IInv' /\ SwitchOK
<1>1. cur = NULL /\ NextTask(k) \in Tasks
  BY IInvFacts, PopNext DEF os_start
<1>2. k.state[NextTask(k)] # "UNUSED"
  BY IInvFacts, PopNext DEF IInv, CurrentIsAlive
<1>3. Dispatched(k, k')
  BY <1>1, <1>2, IInvFacts, StartDispatches DEF os_start, Becomes, IInv, SliceLeft
<1>4. outranked' = 0 /\ LocalsOK
  BY <1>3 DEF os_start, Becomes, Dispatched, LocalsOK, IInv, TypeOK
<1> QED BY <1>3, <1>4, DispatchStep

LEMMA CreateStep ==
  ASSUME IInv, NEW t \in Tasks, NEW p \in Prio, os_task_create(t, p)
  PROVE  IInv' /\ SwitchOK
<1> DEFINE m == [k EXCEPT !.task_count = (@ + 1) % COUNT_MOD,
                          !.priority[t] = p,
                          !.base_priority[t] = p,
                          !.time_slice[t] = TIME_SLICE_MS]
<1>1. k.state[t] \in {"UNUSED", "TERMINATED"} /\ t # cur /\ t # Idle
  BY SchedAssumption DEF os_task_create, Caller, IInv, CurrentIsAlive
<1>2. /\ (k.task_count + 1) % COUNT_MOD \in 0 .. COUNT_MOD - 1
      /\ TIME_SLICE_MS \in 0 .. TIME_SLICE_MS
  <2>1. k.task_count + 1 \in Int /\ COUNT_MOD \in Nat \ {0}
    BY IInvFacts, SchedAssumption DEF KernelValue
  <2>2. (k.task_count + 1) % COUNT_MOD \in 0 .. COUNT_MOD - 1
    BY <2>1, ModRange
  <2> QED BY <2>2, SchedAssumption
<1>3. /\ m \in KernelValue
      /\ m.ready_queue = k.ready_queue /\ m.ready_bitmap = k.ready_bitmap
      /\ m.current_task = k.current_task
      /\ m.scheduler_running = k.scheduler_running
      /\ m.state = k.state
      /\ m.priority = [k.priority EXCEPT ![t] = p]
      /\ m.time_slice = [k.time_slice EXCEPT ![t] = TIME_SLICE_MS]
  BY <1>2, IInvFacts, ZenonT(60) DEF KernelValue
<1>4. k' = scheduler_add_ready_task(m, t)
  BY DEF os_task_create, Becomes
<1> HIDE DEF m
<1>5. QueuesOK(m)
  <2>1. ~Queued(k, t)
    BY <1>1, IInvFacts, NotReadyNotQueued
  <2>2. \A u \in Tasks : Queued(k, u) => m.state[u] = k.state[u]
                                        /\ m.priority[u] = k.priority[u]
    BY <1>3, <2>1, IInvFacts DEF KernelValue
  <2> QED BY <1>3, <2>2, IInvFacts, QueuesFrame, ZenonT(60)
<1>6. OnlyCurrentRuns(m)
  BY <1>3, IInvFacts DEF OnlyCurrentRuns
<1>7. /\ Managed(m, k')
      /\ k'.state = [k.state EXCEPT ![t] = "READY"]
      /\ k'.time_slice = [k.time_slice EXCEPT ![t] = TIME_SLICE_MS]
  BY <1>1, <1>3, <1>4, <1>5, <1>6, AddManages
<1>8. Managed(k, k')
  BY <1>3, <1>7 DEF Managed
<1>9. LocalsOK
  BY SchedAssumption, DelayAssumption DEF os_task_create, LocalsOK, IInv, TypeOK, Location
<1>10. outranked' = IF Outranked(k') THEN outranked ELSE 0
  BY DEF os_task_create, Becomes
<1>11. cur # NULL => k'.time_slice[cur] = k.time_slice[cur]
  BY <1>1, <1>7, IInvFacts DEF KernelValue
<1>12. cur = NULL => \A u \in Tasks : k'.state[u] # "UNUSED"
                                      => k'.time_slice[u] = TIME_SLICE_MS
  BY <1>7, IInvFacts DEF KernelValue, IInv, SliceLeft
<1>13. k'.state[Idle] \notin {"UNUSED", "TERMINATED"}
  BY <1>1, <1>7, IInvFacts, SchedAssumption DEF KernelValue, IInv, CurrentIsAlive
<1>14. cur # NULL => k'.state[cur] \notin {"UNUSED", "TERMINATED"}
  BY <1>1, <1>7, IInvFacts DEF KernelValue, IInv, CurrentIsAlive, os_task_create, Caller
<1> QED BY <1>8, <1>9, <1>10, <1>11, <1>12, <1>13, <1>14, ManageStep

\* What os_task_suspend and os_task_delete have in common.
LEMMA RetireStep ==
  ASSUME IInv, NEW t \in Tasks, Caller, Return(t = cur), NEW s \in TaskState,
         Managed(k, k'),
         k'.state = [k.state EXCEPT ![t] = s], s # "UNUSED",
         t = Idle => s # "TERMINATED", k.state[t] # "UNUSED",
         k'.time_slice = k.time_slice,
         outranked' = IF Outranked(k') THEN outranked ELSE 0
  PROVE  IInv' /\ SwitchOK
<1>1. LocalsOK
  BY DEF Return, LocalsOK, IInv, TypeOK, Location
<1>2. cur = NULL => \A u \in Tasks : k'.state[u] # "UNUSED"
                                     => k'.time_slice[u] = TIME_SLICE_MS
  BY IInvFacts DEF KernelValue, IInv, SliceLeft
<1>3. k'.state[Idle] \notin {"UNUSED", "TERMINATED"}
  BY IInvFacts, SchedAssumption DEF KernelValue, IInv, CurrentIsAlive
<1>4. cur # NULL /\ k'.state[cur] \in {"UNUSED", "TERMINATED"} => pc'[cur] = "yield"
  <2> SUFFICES ASSUME cur # NULL, k'.state[cur] \in {"UNUSED", "TERMINATED"}
               PROVE  pc'[cur] = "yield"
    OBVIOUS
  <2>1. cur \in Tasks /\ pc \in [Tasks -> Location]
    BY IInvFacts DEF IInv, TypeOK
  <2>2. CASE t = cur
    BY <2>1, <2>2 DEF Return
  <2>3. CASE t # cur
    BY <2>1, <2>3, IInvFacts DEF Return, IInv, CurrentIsAlive, KernelValue
  <2> QED BY <2>2, <2>3
<1> QED BY <1>1, <1>2, <1>3, <1>4, ManageStep

LEMMA SuspendStep ==
  ASSUME IInv, NEW t \in Tasks, os_task_suspend(t)
  PROVE  IInv' /\ SwitchOK
<1>1. /\ Managed(k, k')
      /\ k'.state = [k.state EXCEPT ![t] = "SUSPENDED"]
      /\ k'.time_slice = k.time_slice
  BY IInvFacts, RetireManages DEF os_task_suspend, Becomes, Suspend
<1> QED BY <1>1, RetireStep DEF os_task_suspend, Becomes, Created, TaskState

LEMMA DeleteStep ==
  ASSUME IInv, NEW t \in Tasks, os_task_delete(t)
  PROVE  IInv' /\ SwitchOK
<1> DEFINE r == Retire(k, t, "TERMINATED")
<1>1. /\ Managed(k, r)
      /\ r.state = [k.state EXCEPT ![t] = "TERMINATED"]
      /\ r.time_slice = k.time_slice
  BY IInvFacts, RetireManages, ZenonT(60)
<1>2. k' = [r EXCEPT !.task_count = (@ - 1) % COUNT_MOD]
  BY DEF os_task_delete, Becomes, Delete
<1> HIDE DEF r
<1>3. r \in KernelValue /\ QueuesOK(r)
  BY <1>1 DEF Managed, QueuesOK
<1>4. (r.task_count - 1) % COUNT_MOD \in 0 .. COUNT_MOD - 1
  <2>1. r.task_count - 1 \in Int /\ COUNT_MOD \in Nat \ {0}
    BY <1>3, SchedAssumption DEF KernelValue
  <2> QED BY <2>1, ModRange, ZenonT(60)
<1>5. /\ k' \in KernelValue
      /\ k'.ready_queue = r.ready_queue /\ k'.ready_bitmap = r.ready_bitmap
      /\ k'.current_task = r.current_task
      /\ k'.scheduler_running = r.scheduler_running
      /\ k'.state = r.state
      /\ k'.priority = r.priority
      /\ k'.time_slice = r.time_slice
  BY <1>2, <1>3, <1>4, ZenonT(60) DEF KernelValue
<1>6. QueuesOK(k')
  BY <1>3, <1>5, QueuesFrame
<1>7. Managed(k, k')
  BY <1>1, <1>5, <1>6 DEF Managed, OnlyCurrentRuns
<1> QED BY <1>1, <1>5, <1>7, RetireStep DEF os_task_delete, Becomes, Created, TaskState

LEMMA ResumeStep ==
  ASSUME IInv, NEW t \in Tasks, os_task_resume(t)
  PROVE  IInv' /\ SwitchOK
<1>1. k.state[t] = "SUSPENDED" /\ k' = scheduler_add_ready_task(k, t)
  BY DEF os_task_resume, Becomes, Resume
<1>2. /\ Managed(k, k')
      /\ k'.state = [k.state EXCEPT ![t] = "READY"]
      /\ k'.time_slice = k.time_slice
  BY <1>1, IInvFacts, AddManages
<1>3. LocalsOK /\ pc' = pc
  BY DEF os_task_resume, LocalsOK, IInv, TypeOK
<1>4. outranked' = IF Outranked(k') THEN outranked ELSE 0
  BY DEF os_task_resume, Becomes
<1>5. cur = NULL => \A u \in Tasks : k'.state[u] # "UNUSED"
                                     => k'.time_slice[u] = TIME_SLICE_MS
  BY <1>1, <1>2, IInvFacts DEF KernelValue, IInv, SliceLeft
<1>6. k'.state[Idle] \notin {"UNUSED", "TERMINATED"}
  BY <1>2, IInvFacts, SchedAssumption DEF KernelValue, IInv, CurrentIsAlive
<1>7. cur # NULL /\ k'.state[cur] \in {"UNUSED", "TERMINATED"} => pc'[cur] = "yield"
  BY <1>2, <1>3, IInvFacts DEF KernelValue, IInv, CurrentIsAlive
<1> QED BY <1>2, <1>3, <1>4, <1>5, <1>6, <1>7, ManageStep

\* What the three priority calls have in common.
LEMMA PriorityStep ==
  ASSUME IInv, Managed(k, k'), LocalsOK, Caller,
         k'.state = k.state, k'.time_slice = k.time_slice,
         outranked' = IF Outranked(k') THEN outranked ELSE 0
  PROVE  IInv' /\ SwitchOK
<1>1. cur = NULL => \A u \in Tasks : k'.state[u] # "UNUSED"
                                     => k'.time_slice[u] = TIME_SLICE_MS
  BY DEF IInv, SliceLeft
<1>2. k'.state[Idle] \notin {"UNUSED", "TERMINATED"}
  BY DEF IInv, CurrentIsAlive
<1>3. cur # NULL => k'.state[cur] \notin {"UNUSED", "TERMINATED"}
  BY DEF IInv, CurrentIsAlive, Caller
<1> QED BY <1>1, <1>2, <1>3, ManageStep

LEMMA SetPriorityStep ==
  ASSUME IInv, NEW t \in Tasks, NEW p \in Prio, os_task_set_priority(t, p)
  PROVE  IInv' /\ SwitchOK
<1> DEFINE r == Requeue(k, t, p)
<1>1. /\ Managed(k, r)
      /\ r.state = k.state
      /\ r.time_slice = k.time_slice
  BY IInvFacts, RequeueManages, ZenonT(60)
<1>2. k' = [r EXCEPT !.base_priority[t] = p]
  BY DEF os_task_set_priority, Becomes
<1> HIDE DEF r
<1>3. r \in KernelValue /\ QueuesOK(r)
  BY <1>1 DEF Managed, QueuesOK
<1>4. /\ k' \in KernelValue
      /\ k'.ready_queue = r.ready_queue /\ k'.ready_bitmap = r.ready_bitmap
      /\ k'.current_task = r.current_task
      /\ k'.scheduler_running = r.scheduler_running
      /\ k'.state = r.state
      /\ k'.priority = r.priority
      /\ k'.time_slice = r.time_slice
  BY <1>2, <1>3, ZenonT(60) DEF KernelValue
<1>5. QueuesOK(k')
  BY <1>3, <1>4, QueuesFrame
<1>6. Managed(k, k')
  BY <1>1, <1>4, <1>5 DEF Managed, OnlyCurrentRuns
<1>7. LocalsOK
  BY DEF os_task_set_priority, Return, LocalsOK, IInv, TypeOK, Location
<1>8. Caller /\ outranked' = IF Outranked(k') THEN outranked ELSE 0
  BY DEF os_task_set_priority, Becomes
<1> QED BY <1>1, <1>4, <1>6, <1>7, <1>8, PriorityStep

LEMMA RaisePriorityStep ==
  ASSUME IInv, NEW t \in Tasks, NEW p \in Prio, os_task_raise_priority(t, p)
  PROVE  IInv' /\ SwitchOK
<1>1. Managed(k, k') /\ k'.state = k.state /\ k'.time_slice = k.time_slice
  BY IInvFacts, RequeueManages, ZenonT(60) DEF os_task_raise_priority, Becomes
<1>2. LocalsOK
  BY DEF os_task_raise_priority, Return, LocalsOK, IInv, TypeOK, Location
<1>3. Caller /\ outranked' = IF Outranked(k') THEN outranked ELSE 0
  BY DEF os_task_raise_priority, Becomes
<1> QED BY <1>1, <1>2, <1>3, PriorityStep

LEMMA ResetPriorityStep ==
  ASSUME IInv, NEW t \in Tasks, os_task_reset_priority(t)
  PROVE  IInv' /\ SwitchOK
<1>1. k.base_priority[t] \in Prio
  BY IInvFacts DEF KernelValue
<1>2. Managed(k, k') /\ k'.state = k.state /\ k'.time_slice = k.time_slice
  BY <1>1, IInvFacts, RequeueManages, ZenonT(60) DEF os_task_reset_priority, Becomes
<1>3. LocalsOK
  BY DEF os_task_reset_priority, Return, LocalsOK, IInv, TypeOK, Location
<1>4. Caller /\ outranked' = IF Outranked(k') THEN outranked ELSE 0
  BY DEF os_task_reset_priority, Becomes
<1> QED BY <1>2, <1>3, <1>4, PriorityStep

\* os_task_yield and the yield of os_task_delay.
LEMMA YieldStep ==
  ASSUME IInv, LocalsOK, cur # NULL, Becomes(Yield(k))
  PROVE  IInv' /\ SwitchOK
<1>1. Dispatched(k, k')
  BY IInvFacts, YieldDispatches DEF Becomes
<1>2. outranked' = 0
  BY <1>1 DEF Becomes, Dispatched
<1> QED BY <1>1, <1>2, DispatchStep

\* Steps that leave the kernel alone.
LEMMA LocalStep ==
  ASSUME IInv, LocalsOK, UNCHANGED <<k, outranked>>,
         cur # NULL, pc[cur] # "yield"
  PROVE  IInv' /\ SwitchOK
<1>1. TypeOK' /\ ReadyQueuesConsistent' /\ OneRunning' /\ SliceLeft'
  BY DEF IInv, TypeOK, LocalsOK, ReadyQueuesConsistent, OneRunning, SliceLeft, cur
<1>2. CurrentIsAlive'
  BY DEF IInv, CurrentIsAlive, cur
<1> QED BY <1>1, <1>2 DEF IInv, SwitchOK, cur

LEMMA DelayStep ==
  ASSUME IInv, NEW n \in 0 .. MaxDelay, os_task_delay(n)
  PROVE  IInv' /\ SwitchOK
<1>1. cur # NULL /\ pc[cur] # "yield"
  BY DEF os_task_delay, Caller
<1>2. (k.tick_count + n) % TICK_MOD \in 0 .. TICK_MOD - 1
  <2>1. k.tick_count + n \in Int
    BY IInvFacts, SchedAssumption, DelayAssumption DEF KernelValue
  <2> QED BY <2>1, ModRange, SchedAssumption
<1>3. LocalsOK
  BY <1>2, ZenonT(60) DEF os_task_delay, LocalsOK, IInv, TypeOK, Location
<1> QED BY <1>1, <1>3, LocalStep DEF os_task_delay

LEMMA TickStep == ASSUME IInv, Tick PROVE IInv' /\ SwitchOK
<1>1. cur # NULL /\ cur \in Tasks
  BY IInvFacts DEF Tick
<1>2. k' = os_scheduler(k) /\ outranked' = IF Outranked(k') THEN outranked + 1 ELSE 0
  BY DEF Tick
<1>3. LocalsOK /\ pc' = pc
  <2>1. owed' \in [Tasks -> 0 .. MaxDelay]
    BY DelayAssumption DEF Tick, IInv, TypeOK
  <2> QED BY <2>1 DEF Tick, LocalsOK, IInv, TypeOK
<1>4. CASE Dispatched(k, k')
  BY <1>2, <1>3, <1>4, DispatchStep DEF Dispatched
<1>5. CASE ~Dispatched(k, k')
  <2>1. /\ QueuesOK(k')
        /\ k'.current_task = k.current_task
        /\ k'.scheduler_running = k.scheduler_running
        /\ k'.state = k.state
        /\ k'.time_slice[cur] = k.time_slice[cur] - 1
        /\ k'.time_slice[cur] > 0
    BY <1>1, <1>2, <1>5, IInvFacts, SchedulerStep DEF cur
  <2>2. OnlyCurrentRuns(k') /\ k' \in KernelValue /\ cur' = cur
    BY <2>1, IInvFacts DEF OnlyCurrentRuns, QueuesOK, cur
  <2>3. outranked \in Nat /\ outranked' \in Nat /\ outranked' <= outranked + 1
    BY <1>2 DEF IInv, TypeOK
  <2>4. TypeOK' /\ ReadyQueuesConsistent' /\ OneRunning'
    BY <1>3, <2>1, <2>2, <2>3 DEF TypeOK, LocalsOK, QueuesOK, ReadyQueuesConsistent, OneRunning
  <2>5. SliceLeft'
    <3>1. k.time_slice[cur] \in Int /\ TIME_SLICE_MS \in Int
      BY <1>1, IInvFacts, SchedAssumption DEF KernelValue
    <3>2. outranked + k.time_slice[cur] <= TIME_SLICE_MS
      BY <1>1 DEF IInv, SliceLeft
    <3>3. k'.time_slice[cur] >= 1 /\ outranked' + k'.time_slice[cur] <= TIME_SLICE_MS
      BY <2>1, <2>3, <3>1, <3>2
    <3> QED BY <1>1, <2>2, <3>3 DEF SliceLeft
  <2>6. CurrentIsAlive'
    BY <1>3, <2>1, <2>2 DEF IInv, CurrentIsAlive
  <2> QED BY <2>2, <2>4, <2>5, <2>6 DEF IInv, SwitchOK, cur
<1> QED BY <1>4, <1>5

-----------------------------------------------------------------------------
(* The theorems *)

LEMMA InitIInv == ASSUME Init PROVE IInv
<1> USE SchedAssumption, DelayAssumption DEF Init
<1>1. /\ k = os_init
      /\ k.ready_queue = [p \in Prio |-> IF p = PRIORITY_IDLE THEN <<Idle>> ELSE << >>]
      /\ k.ready_bitmap = {PRIORITY_IDLE}
      /\ k.current_task = NULL /\ k.scheduler_running = FALSE
      /\ k.state = [t \in Tasks |-> IF t = Idle THEN "READY" ELSE "UNUSED"]
      /\ k.priority = [t \in Tasks |-> IF t = Idle THEN PRIORITY_IDLE ELSE 0]
      /\ k.time_slice = [t \in Tasks |-> IF t = Idle THEN TIME_SLICE_MS ELSE 0]
  BY DEF os_init
<1>2. k \in KernelValue
  <2>1. PRIORITY_IDLE \in Prio /\ 0 \in Prio
    BY DEF Prio
  <2>2. 1 \in 0 .. COUNT_MOD - 1 /\ 0 \in 0 .. TICK_MOD - 1
    OBVIOUS
  <2>3. 0 \in 0 .. TIME_SLICE_MS /\ TIME_SLICE_MS \in 0 .. TIME_SLICE_MS
    OBVIOUS
  <2>4. <<Idle>> \in Seq(Tasks) /\ << >> \in Seq(Tasks)
    OBVIOUS
  <2> QED BY <2>1, <2>2, <2>3, <2>4 DEF os_init, KernelValue, TaskState
<1>3. TypeOK
  BY <1>2 DEF TypeOK, Location
<1>4. ReadyQueuesConsistent
  <2>1. QueuesHoldReadyTasks(k)
    BY <1>1 DEF QueuesHoldReadyTasks
  <2>2. BitmapMatchesQueues(k)
    BY <1>1 DEF BitmapMatchesQueues
  <2> QED BY <2>1, <2>2 DEF ReadyQueuesConsistent
<1>5. OneRunning
  BY <1>1 DEF OneRunning, OnlyCurrentRuns
<1>6. SliceLeft
  BY <1>1 DEF SliceLeft, cur
<1>7. CurrentIsAlive
  BY <1>1 DEF CurrentIsAlive, cur
<1> QED BY <1>3, <1>4, <1>5, <1>6, <1>7 DEF IInv

LEMMA NextIInv == ASSUME IInv, [Next]_vars PROVE IInv' /\ SwitchOK
<1>1. CASE UNCHANGED vars
  <2>1. UNCHANGED <<k, pc, target, owed, outranked>>
    BY <1>1 DEF vars
  <2> QED BY <2>1 DEF IInv, TypeOK, ReadyQueuesConsistent, OneRunning, SliceLeft,
                      CurrentIsAlive, SwitchOK, cur
<1>2. CASE Run
  <2>1. CASE os_task_yield
    <3>1. LocalsOK /\ cur # NULL
      BY <2>1 DEF os_task_yield, LocalsOK, IInv, TypeOK, Location
    <3> QED BY <2>1, <3>1, YieldStep DEF os_task_yield
  <2>2. CASE DelayYield
    <3>1. LocalsOK /\ cur # NULL
      BY <2>2 DEF DelayYield, LocalsOK, IInv, TypeOK, Location
    <3> QED BY <2>2, <3>1, YieldStep DEF DelayYield
  <2>3. CASE DelayTest
    <3>1. LocalsOK /\ cur # NULL /\ pc[cur] # "yield"
      BY <2>3, ZenonT(60) DEF DelayTest, LocalsOK, IInv, TypeOK, Location
    <3> QED BY <2>3, <3>1, LocalStep DEF DelayTest
  <2> QED BY <1>2, <2>1, <2>2, <2>3, TickStep, DelayStep DEF Run
<1>3. CASE Manage
  BY <1>3, StartStep, CreateStep, DeleteStep, SuspendStep, ResumeStep,
     SetPriorityStep, RaisePriorityStep, ResetPriorityStep DEF Manage
<1> QED BY <1>1, <1>2, <1>3 DEF Next

LEMMA Invariance == Spec => []IInv
  BY InitIInv, NextIInv, PTL DEF Spec

\* Every call and every interrupt leaves the kernel's variables in their types:
\* in particular a time slice never goes below zero or above TIME_SLICE_MS.
THEOREM TypeCorrect == Spec => []TypeOK
<1>1. IInv => TypeOK
  BY DEF IInv
<1> QED BY <1>1, Invariance, PTL

\* The queues, the bitmap and the task states of kernel.c agree after every
\* call and every timer interrupt.
THEOREM QueuesStayConsistent == Spec => []ReadyQueuesConsistent
<1>1. IInv => ReadyQueuesConsistent
  BY DEF IInv
<1> QED BY <1>1, Invariance, PTL

\* Only the task that has the processor is ever RUNNING.
THEOREM AtMostOneRunning == Spec => []OneRunning
<1>1. IInv => OneRunning
  BY DEF IInv
<1> QED BY <1>1, Invariance, PTL

\* A ready task waits less than TIME_SLICE_MS timer interrupts for a running
\* task of lower priority.
THEOREM BoundedLatency == Spec => []PreemptionLatency
<1>1. IInv => PreemptionLatency
  <2> SUFFICES ASSUME IInv PROVE outranked < TIME_SLICE_MS
    BY DEF PreemptionLatency
  <2>1. outranked \in Int /\ TIME_SLICE_MS \in Nat \ {0}
    BY SchedAssumption DEF IInv, TypeOK
  <2>2. CASE cur = NULL
    BY <2>1, <2>2 DEF IInv, SliceLeft
  <2>3. CASE cur # NULL
    <3>1. k.time_slice[cur] \in Int
      BY <2>3, IInvFacts DEF KernelValue
    <3> QED BY <2>1, <2>3, <3>1 DEF IInv, SliceLeft
  <2> QED BY <2>2, <2>3
<1> QED BY <1>1, Invariance, PTL

\* Every context switch, of the timer or of a yield, goes to a task that no
\* ready task outranks.
THEOREM SwitchesToHighest == Spec => SwitchToHighest
<1>1. IInv /\ [Next]_vars => [k'.current_task # cur => ~Outranked(k')]_vars
  BY NextIInv DEF SwitchOK
<1> QED BY <1>1, Invariance, PTL DEF Spec, SwitchToHighest
=============================================================================
