----------------------------- MODULE SchedProofs -----------------------------
(***************************************************************************)
(* What the operators of module Sched do to a well-formed kernel value.    *)
(***************************************************************************)
EXTENDS Sched, TLAPS, SequenceTheorems, WellFoundedInduction

\* tick_count and task_count stay in the range of their C type.
LEMMA ModRange == ASSUME NEW a \in Int, NEW n \in Nat \ {0} PROVE a % n \in 0 .. n - 1
  OBVIOUS

-----------------------------------------------------------------------------
(* Queues without duplicates *)

Distinct(q) == \A i, j \in 1 .. Len(q) : q[i] = q[j] => i = j

\* scheduler_add_ready_task links a task that is not in the list at its end.
LEMMA AppendQueue ==
  ASSUME NEW q \in Seq(Tasks), NEW t \in Tasks, Distinct(q), ~Contains(q, t)
  PROVE  /\ Append(q, t) \in Seq(Tasks)
         /\ Append(q, t) # << >>
         /\ Distinct(Append(q, t))
         /\ \A u : Contains(Append(q, t), u) <=> Contains(q, u) \/ u = t
<1>1. /\ Append(q, t) \in Seq(Tasks)
      /\ Append(q, t) # << >>
      /\ Len(Append(q, t)) = Len(q) + 1
      /\ \A i \in 1 .. Len(q) : Append(q, t)[i] = q[i]
      /\ Append(q, t)[Len(q) + 1] = t
  BY AppendProperties
<1>2. Distinct(Append(q, t))
  BY <1>1 DEF Distinct, Contains
<1>3. \A u : Contains(Append(q, t), u) <=> Contains(q, u) \/ u = t
  BY <1>1 DEF Contains
<1> QED BY <1>1, <1>2, <1>3

\* scheduler_get_next_task unlinks the head.
LEMMA TailQueue ==
  ASSUME NEW q \in Seq(Tasks), q # << >>, Distinct(q)
  PROVE  /\ Head(q) \in Tasks /\ Contains(q, Head(q))
         /\ Tail(q) \in Seq(Tasks)
         /\ Distinct(Tail(q))
         /\ \A u : Contains(Tail(q), u) <=> Contains(q, u) /\ u # Head(q)
<1>1. /\ Head(q) \in Tasks /\ Head(q) = q[1]
      /\ Tail(q) \in Seq(Tasks)
      /\ Len(q) \in Nat \ {0}
      /\ Len(Tail(q)) = Len(q) - 1
      /\ \A i \in 1 .. Len(Tail(q)) : Tail(q)[i] = q[i + 1]
  BY HeadTailProperties
<1>2. Distinct(Tail(q))
  BY <1>1 DEF Distinct
<1>3. ASSUME NEW u PROVE Contains(Tail(q), u) <=> Contains(q, u) /\ u # Head(q)
  <2>1. ASSUME Contains(Tail(q), u) PROVE Contains(q, u) /\ u # Head(q)
    BY <1>1, <2>1 DEF Distinct, Contains
  <2>2. ASSUME Contains(q, u), u # Head(q) PROVE Contains(Tail(q), u)
    <3>1. PICK i \in 1 .. Len(q) : q[i] = u
      BY <2>2 DEF Contains
    <3>2. i - 1 \in 1 .. Len(Tail(q)) /\ Tail(q)[i - 1] = u
      BY <1>1, <2>2, <3>1
    <3> QED BY <3>2 DEF Contains
  <2> QED BY <2>1, <2>2
<1> QED BY <1>1, <1>2, <1>3 DEF Contains

LEMMA Around ==
  ASSUME NEW q \in Seq(Tasks), NEW n \in 1 .. Len(q),
         NEW a \in Seq(Tasks), Len(a) = n - 1, \A i \in 1 .. n - 1 : a[i] = q[i],
         NEW b \in Seq(Tasks), Len(b) = Len(q) - n,
         \A i \in 1 .. Len(q) - n : b[i] = q[n + i]
  PROVE  /\ a \o b \in Seq(Tasks) /\ Len(a \o b) = Len(q) - 1
         /\ \A i \in 1 .. Len(q) - 1 :
              (a \o b)[i] = IF i < n THEN q[i] ELSE q[i + 1]
<1>1. /\ a \o b \in Seq(Tasks) /\ Len(a \o b) = Len(a) + Len(b)
      /\ \A i \in 1 .. Len(a) + Len(b) :
           (a \o b)[i] = IF i <= Len(a) THEN a[i] ELSE b[i - Len(a)]
  BY ConcatProperties
<1>2. Len(q) \in Nat
  OBVIOUS
<1>3. ASSUME NEW i \in 1 .. Len(q) - 1, ~(i < n)
      PROVE  (a \o b)[i] = q[i + 1]
  <2>1. (a \o b)[i] = b[i - (n - 1)] /\ i - (n - 1) \in 1 .. Len(q) - n
    BY <1>1, <1>2, <1>3
  <2>2. n + (i - (n - 1)) = i + 1
    OBVIOUS
  <2> QED BY <2>1, <2>2
<1>4. ASSUME NEW i \in 1 .. Len(q) - 1, i < n
      PROVE  (a \o b)[i] = q[i]
  BY <1>1, <1>2, <1>4
<1> QED BY <1>1, <1>2, <1>3, <1>4

LEMMA RemoveAtProperties ==
  ASSUME NEW q \in Seq(Tasks), NEW n \in 1 .. Len(q)
  PROVE  /\ RemoveAt(q, n) \in Seq(Tasks) /\ Len(RemoveAt(q, n)) = Len(q) - 1
         /\ \A i \in 1 .. Len(q) - 1 :
              RemoveAt(q, n)[i] = IF i < n THEN q[i] ELSE q[i + 1]
<1>1. /\ SubSeq(q, 1, n - 1) \in Seq(Tasks) /\ Len(SubSeq(q, 1, n - 1)) = n - 1
      /\ \A i \in 1 .. n - 1 : SubSeq(q, 1, n - 1)[i] = q[i]
  BY SubSeqProperties
<1>2. /\ SubSeq(q, n + 1, Len(q)) \in Seq(Tasks)
      /\ Len(SubSeq(q, n + 1, Len(q))) = Len(q) - n
      /\ \A i \in 1 .. Len(q) - n : SubSeq(q, n + 1, Len(q))[i] = q[n + i]
  BY SubSeqProperties
<1> QED BY <1>1, <1>2, Around, ZenonT(60) DEF RemoveAt

\* scheduler_remove_task unlinks one task from anywhere in the list.
LEMMA RemoveQueue ==
  ASSUME NEW q \in Seq(Tasks), NEW t \in Tasks, Distinct(q), Contains(q, t)
  PROVE  /\ RemoveFirst(q, t) \in Seq(Tasks)
         /\ Distinct(RemoveFirst(q, t))
         /\ \A u : Contains(RemoveFirst(q, t), u) <=> Contains(q, u) /\ u # t
<1>1. PICK n \in 1 .. Len(q) : q[n] = t
  BY DEF Contains
<1>2. SelectInSeq(q, LAMBDA v : v = t) = n
  <2>1. {i \in 1 .. Len(q) : q[i] = t} = {n}
    BY <1>1 DEF Distinct
  <2>2. Min({n}) = n
    BY DEF Min
  <2> QED BY <2>1, <2>2 DEF SelectInSeq
<1> DEFINE r == RemoveFirst(q, t)
<1>6. /\ r \in Seq(Tasks) /\ Len(r) = Len(q) - 1
      /\ \A i \in 1 .. Len(q) - 1 : r[i] = IF i < n THEN q[i] ELSE q[i + 1]
  BY <1>1, <1>2, RemoveAtProperties, ZenonT(60) DEF RemoveFirst
<1> HIDE DEF r
<1>7. Distinct(r)
  BY <1>1, <1>6 DEF Distinct
<1>8. ASSUME NEW u PROVE Contains(r, u) <=> Contains(q, u) /\ u # t
  <2>1. ASSUME Contains(r, u) PROVE Contains(q, u) /\ u # t
    BY <1>1, <1>6, <2>1 DEF Distinct, Contains
  <2>2. ASSUME Contains(q, u), u # t PROVE Contains(r, u)
    <3>1. PICK i \in 1 .. Len(q) : q[i] = u
      BY <2>2 DEF Contains
    <3>2. CASE i < n
      BY <1>1, <1>6, <3>1, <3>2 DEF Contains
    <3>3. CASE i > n
      <4>1. i - 1 \in 1 .. Len(r) /\ r[i - 1] = u
        BY <1>1, <1>6, <3>1, <3>3
      <4> QED BY <4>1 DEF Contains
    <3> QED BY <1>1, <2>2, <3>1, <3>2, <3>3
  <2> QED BY <2>1, <2>2
<1> QED BY <1>6, <1>7, <1>8 DEF r

-----------------------------------------------------------------------------
(* Well-formed kernel values *)

QueuesOK(k) ==
  k \in KernelValue /\ QueuesHoldReadyTasks(k) /\ BitmapMatchesQueues(k)

\* n and k agree on everything but the queues and the task states.
Keeps(k, n) ==
  /\ n.current_task = k.current_task
  /\ n.scheduler_running = k.scheduler_running
  /\ n.task_count = k.task_count
  /\ n.tick_count = k.tick_count
  /\ n.priority = k.priority
  /\ n.base_priority = k.base_priority
  /\ n.time_slice = k.time_slice

NoneRunning(k) == \A t \in Tasks : k.state[t] # "RUNNING"

\* QueuesHoldReadyTasks in terms of membership instead of positions.
LEMMA HoldReady ==
  ASSUME NEW k
  PROVE  QueuesHoldReadyTasks(k) <=>
           \A p \in Prio :
             /\ Distinct(k.ready_queue[p])
             /\ \A t : Contains(k.ready_queue[p], t)
                       => k.state[t] = "READY" /\ k.priority[t] = p
  BY DEF QueuesHoldReadyTasks, Distinct, Contains

LEMMA QueueFacts ==
  ASSUME NEW k, QueuesOK(k), NEW p \in Prio
  PROVE  /\ k.ready_queue[p] \in Seq(Tasks)
         /\ Distinct(k.ready_queue[p])
         /\ \A t : Contains(k.ready_queue[p], t)
                   => t \in Tasks /\ k.state[t] = "READY" /\ k.priority[t] = p
         /\ p \in k.ready_bitmap <=> k.ready_queue[p] # << >>
<1>1. k.ready_queue[p] \in Seq(Tasks)
  BY DEF QueuesOK, KernelValue
<1>2. \A t : Contains(k.ready_queue[p], t) => t \in Tasks
  BY <1>1 DEF Contains
<1> QED BY <1>1, <1>2, HoldReady DEF QueuesOK, BitmapMatchesQueues

\* A task that is not READY is in no queue.
LEMMA NotReadyNotQueued ==
  ASSUME NEW k, QueuesOK(k), NEW t \in Tasks, k.state[t] # "READY"
  PROVE  ~Queued(k, t)
  BY QueueFacts DEF Queued

\* scheduler_add_ready_task keeps the queues in order if the task is in none.
LEMMA AddReady ==
  ASSUME NEW k, QueuesOK(k), NEW t \in Tasks, ~Queued(k, t)
  PROVE  /\ QueuesOK(scheduler_add_ready_task(k, t))
         /\ Keeps(k, scheduler_add_ready_task(k, t))
         /\ scheduler_add_ready_task(k, t).state = [k.state EXCEPT ![t] = "READY"]
<1> DEFINE n == scheduler_add_ready_task(k, t)
           p == k.priority[t]
<1>1. k \in KernelValue /\ p \in Prio
  BY DEF QueuesOK, KernelValue
<1>2. /\ Keeps(k, n)
      /\ n.state = [k.state EXCEPT ![t] = "READY"]
      /\ n.ready_bitmap = k.ready_bitmap \cup {p}
      /\ n.ready_queue = [k.ready_queue EXCEPT ![p] = Append(@, t)]
  BY <1>1 DEF scheduler_add_ready_task, KernelValue, Keeps
<1>3. /\ k.ready_queue[p] \in Seq(Tasks)
      /\ Distinct(k.ready_queue[p])
      /\ ~Contains(k.ready_queue[p], t)
  BY <1>1, QueueFacts DEF Queued
<1>4. n \in KernelValue
  BY <1>1, <1>3, AppendQueue, ZenonT(60) DEF scheduler_add_ready_task, KernelValue, TaskState
<1> HIDE DEF n, p
<1>5. QueuesHoldReadyTasks(n)
  <2> SUFFICES ASSUME NEW x \in Prio
               PROVE  /\ Distinct(n.ready_queue[x])
                      /\ \A u : Contains(n.ready_queue[x], u)
                               => n.state[u] = "READY" /\ n.priority[u] = x
    BY HoldReady
  <2>1. /\ Distinct(k.ready_queue[x])
        /\ \A u : Contains(k.ready_queue[x], u)
                  => u \in Tasks /\ k.state[u] = "READY" /\ k.priority[u] = x
    BY QueueFacts
  <2>2. CASE x = p
    BY <1>1, <1>2, <1>3, <2>1, <2>2, AppendQueue DEF KernelValue, Keeps, p
  <2>3. CASE x # p
    BY <1>1, <1>2, <2>1, <2>3 DEF KernelValue, Keeps
  <2> QED BY <2>2, <2>3
<1>6. BitmapMatchesQueues(n)
  <2> SUFFICES ASSUME NEW x \in Prio
               PROVE  x \in n.ready_bitmap <=> n.ready_queue[x] # << >>
    BY DEF BitmapMatchesQueues
  <2>1. k.ready_queue \in [Prio -> Seq(Tasks)]
    BY <1>1 DEF KernelValue
  <2>2. CASE x = p
    BY <1>1, <1>2, <1>3, <2>1, <2>2, AppendQueue
  <2>3. CASE x # p
    BY <1>2, <2>1, <2>3, QueueFacts
  <2> QED BY <2>2, <2>3
<1> QED BY <1>2, <1>4, <1>5, <1>6 DEF QueuesOK, n

\* scheduler_remove_task takes the task out of the queues and changes nothing
\* else.
LEMMA RemoveReady ==
  ASSUME NEW k, QueuesOK(k), NEW t \in Tasks
  PROVE  /\ QueuesOK(scheduler_remove_task(k, t))
         /\ ~Queued(scheduler_remove_task(k, t), t)
         /\ scheduler_remove_task(k, t).ready_bitmap \subseteq k.ready_bitmap
         /\ Keeps(k, scheduler_remove_task(k, t))
         /\ scheduler_remove_task(k, t).state = k.state
<1> DEFINE n == scheduler_remove_task(k, t)
           p == k.priority[t]
           q == RemoveFirst(k.ready_queue[p], t)
<1>1. k \in KernelValue /\ p \in Prio
  BY DEF QueuesOK, KernelValue
<1>2. \A x \in Prio : Contains(k.ready_queue[x], t) => x = p
  BY QueueFacts
<1>3. CASE ~Contains(k.ready_queue[p], t)
  <2>1. n = k /\ Keeps(k, k)
    BY <1>3 DEF scheduler_remove_task, Keeps
  <2>2. ~Queued(k, t)
    BY <1>2, <1>3 DEF Queued
  <2> QED BY <2>1, <2>2
<1>4. CASE Contains(k.ready_queue[p], t)
  <2>1. /\ Keeps(k, n)
        /\ n.state = k.state
        /\ n.ready_bitmap = IF q = << >> THEN k.ready_bitmap \ {p} ELSE k.ready_bitmap
        /\ n.ready_queue = [k.ready_queue EXCEPT ![p] = q]
    BY <1>1, <1>4 DEF scheduler_remove_task, KernelValue, Keeps
  <2>2. /\ q \in Seq(Tasks)
        /\ Distinct(q)
        /\ \A u : Contains(q, u) <=> Contains(k.ready_queue[p], u) /\ u # t
    BY <1>1, <1>4, QueueFacts, RemoveQueue
  <2>3. n \in KernelValue
    BY <1>1, <1>4, <2>2, ZenonT(60) DEF scheduler_remove_task, KernelValue
  <2> HIDE DEF n, p, q
  <2>4. k.ready_queue \in [Prio -> Seq(Tasks)]
    BY <1>1 DEF KernelValue
  <2>5. QueuesHoldReadyTasks(n)
    <3> SUFFICES ASSUME NEW x \in Prio
                 PROVE  /\ Distinct(n.ready_queue[x])
                        /\ \A u : Contains(n.ready_queue[x], u)
                                 => n.state[u] = "READY" /\ n.priority[u] = x
      BY HoldReady
    <3>1. CASE x = p
      BY <1>1, <2>1, <2>2, <2>4, <3>1, QueueFacts DEF Keeps
    <3>2. CASE x # p
      BY <1>1, <2>1, <2>4, <3>2, QueueFacts DEF Keeps
    <3> QED BY <3>1, <3>2
  <2>6. BitmapMatchesQueues(n)
    <3>1. k.ready_queue[p] # << >>
      BY <1>4 DEF Contains
    <3> QED BY <1>1, <2>1, <2>4, <3>1, QueueFacts DEF BitmapMatchesQueues
  <2>7. ~Queued(n, t)
    BY <1>1, <1>2, <2>1, <2>2, <2>4 DEF Queued
  <2>8. n.ready_bitmap \subseteq k.ready_bitmap
    BY <2>1
  <2> QED BY <2>1, <2>3, <2>5, <2>6, <2>7, <2>8 DEF QueuesOK, n
<1> QED BY <1>3, <1>4

-----------------------------------------------------------------------------
(* Choosing the next task *)

\* The lowest set bit of a bitmap exists.
LEMMA HighestReadyIsLeast ==
  ASSUME NEW k, k.ready_bitmap \subseteq Prio, k.ready_bitmap # {}
  PROVE  /\ HighestReady(k) \in k.ready_bitmap
         /\ \A q \in k.ready_bitmap : HighestReady(k) <= q
<1>1. Prio \subseteq Nat
  BY SchedAssumption DEF Prio
<1>2. \E p \in k.ready_bitmap :
        \A q \in k.ready_bitmap : ~(<<q, p>> \in OpToRel(<, Nat))
  BY <1>1, NatLessThanWellFounded, WFMin
<1>3. \A p, q \in Nat : q < p => <<q, p>> \in OpToRel(<, Nat)
  BY DEF OpToRel
<1>4. \E p \in k.ready_bitmap : \A q \in k.ready_bitmap : p <= q
  <2>1. PICK p \in k.ready_bitmap :
          \A q \in k.ready_bitmap : ~(<<q, p>> \in OpToRel(<, Nat))
    BY <1>2
  <2>2. ASSUME NEW q \in k.ready_bitmap PROVE p <= q
    <3>1. p \in Nat /\ q \in Nat /\ ~(q < p)
      BY <1>1, <1>3, <2>1
    <3> QED BY <3>1
  <2> QED BY <2>2
<1> QED BY <1>4 DEF HighestReady

\* scheduler_get_next_task returns the head of the first nonempty queue, or the
\* idle task, and takes it out of the queues.
LEMMA PopNext ==
  ASSUME NEW k, QueuesOK(k)
  PROVE  /\ NextTask(k) \in Tasks
         /\ QueuesOK(PopNextTask(k))
         /\ ~Queued(PopNextTask(k), NextTask(k))
         /\ PopNextTask(k).ready_bitmap \subseteq k.ready_bitmap
         /\ Keeps(k, PopNextTask(k))
         /\ PopNextTask(k).state = k.state
         /\ \A p \in k.ready_bitmap : k.priority[NextTask(k)] <= p
         /\ k.state[NextTask(k)] = "READY" \/ NextTask(k) = Idle
<1> DEFINE n == PopNextTask(k)
           t == NextTask(k)
           p == HighestReady(k)
           q == Tail(k.ready_queue[p])
<1>1. k \in KernelValue /\ k.ready_bitmap \subseteq Prio
  BY DEF QueuesOK, KernelValue
<1>2. CASE k.ready_bitmap = {}
  <2>1. n = k /\ t = Idle /\ Keeps(k, k)
    BY <1>2 DEF PopNextTask, NextTask, Keeps
  <2>2. \A x \in Prio : ~Contains(k.ready_queue[x], Idle)
    BY <1>2, QueueFacts DEF Contains
  <2> QED BY <1>2, <2>1, <2>2, SchedAssumption DEF Queued
<1>3. CASE k.ready_bitmap # {}
  <2>1. p \in k.ready_bitmap /\ p \in Prio /\ \A x \in k.ready_bitmap : p <= x
    BY <1>1, <1>3, HighestReadyIsLeast
  <2>2. /\ Keeps(k, n)
        /\ n.state = k.state
        /\ n.ready_bitmap = IF q = << >> THEN k.ready_bitmap \ {p} ELSE k.ready_bitmap
        /\ n.ready_queue = [k.ready_queue EXCEPT ![p] = q]
    BY <1>1, <1>3, SMTT(30) DEF PopNextTask, KernelValue, Keeps
  <2>3. t = Head(k.ready_queue[p])
    BY <1>3 DEF NextTask
  <2>4. /\ t \in Tasks /\ Contains(k.ready_queue[p], t)
        /\ q \in Seq(Tasks)
        /\ Distinct(q)
        /\ \A u : Contains(q, u) <=> Contains(k.ready_queue[p], u) /\ u # t
    BY <2>1, <2>3, QueueFacts, TailQueue
  <2>5. n \in KernelValue
    BY <1>1, <1>3, <2>1, <2>4 DEF PopNextTask, KernelValue
  <2> HIDE DEF n, p, q, t
  <2>6. k.ready_queue \in [Prio -> Seq(Tasks)]
    BY <1>1 DEF KernelValue
  <2>7. k.state[t] = "READY" /\ k.priority[t] = p
    BY <2>1, <2>4, QueueFacts
  <2>8. QueuesHoldReadyTasks(n)
    <3> SUFFICES ASSUME NEW x \in Prio
                 PROVE  /\ Distinct(n.ready_queue[x])
                        /\ \A u : Contains(n.ready_queue[x], u)
                                 => n.state[u] = "READY" /\ n.priority[u] = x
      BY HoldReady
    <3>1. CASE x = p
      BY <2>1, <2>2, <2>4, <2>6, <3>1, QueueFacts DEF Keeps
    <3>2. CASE x # p
      BY <2>1, <2>2, <2>6, <3>2, QueueFacts DEF Keeps
    <3> QED BY <3>1, <3>2
  <2>9. BitmapMatchesQueues(n)
    BY <2>1, <2>2, <2>6, QueueFacts DEF BitmapMatchesQueues
  <2>10. ~Queued(n, t)
    <3>1. \A x \in Prio : Contains(k.ready_queue[x], t) => x = p
      BY <2>7, QueueFacts
    <3> QED BY <2>1, <2>2, <2>4, <2>6, <3>1 DEF Queued
  <2> QED BY <2>1, <2>2, <2>4, <2>5, <2>7, <2>8, <2>9, <2>10 DEF QueuesOK, n, t
<1> QED BY <1>2, <1>3

-----------------------------------------------------------------------------
(* Steps that leave the queues alone *)

\* Changing the state or the priority of tasks that are in no queue keeps the
\* queues in order.
LEMMA QueuesFrame ==
  ASSUME NEW k, QueuesOK(k), NEW n \in KernelValue,
         n.ready_queue = k.ready_queue, n.ready_bitmap = k.ready_bitmap,
         \A t \in Tasks : Queued(k, t) => /\ n.state[t] = k.state[t]
                                          /\ n.priority[t] = k.priority[t]
  PROVE  QueuesOK(n)
<1>1. QueuesHoldReadyTasks(n)
  <2> SUFFICES ASSUME NEW x \in Prio
               PROVE  /\ Distinct(n.ready_queue[x])
                      /\ \A u : Contains(n.ready_queue[x], u)
                               => n.state[u] = "READY" /\ n.priority[u] = x
    BY HoldReady
  <2> QED BY QueueFacts DEF Queued
<1>2. BitmapMatchesQueues(n)
  BY QueueFacts DEF BitmapMatchesQueues
<1> QED BY <1>1, <1>2 DEF QueuesOK

-----------------------------------------------------------------------------
(* The scheduler *)

\* n is k after the scheduler has chosen a task to run: no ready task outranks
\* it, and it starts a full time slice.
Dispatched(k, n) ==
  /\ QueuesOK(n)
  /\ OnlyCurrentRuns(n)
  /\ n.scheduler_running
  /\ n.current_task \in Tasks
  /\ ~Outranked(n)
  /\ n.time_slice[n.current_task] = TIME_SLICE_MS
  /\ n.priority = k.priority
  /\ n.base_priority = k.base_priority
  /\ \A t \in Tasks : n.state[t] = k.state[t] \/ n.state[t] \in {"READY", "RUNNING"}
  /\ n.state[n.current_task] \in {"READY", "RUNNING"} \/ n.current_task = Idle

LEMMA RescheduleDispatches ==
  ASSUME NEW k, QueuesOK(k), NoneRunning(k), k.scheduler_running,
         k.current_task \in Tasks
  PROVE  Dispatched(k, Reschedule(k))
<1> DEFINE t == NextTask(k)
           m == PopNextTask(k)
           n == Reschedule(k)
<1>1. /\ t \in Tasks
      /\ QueuesOK(m) /\ m \in KernelValue
      /\ ~Queued(m, t)
      /\ m.ready_bitmap \subseteq k.ready_bitmap
      /\ Keeps(k, m) /\ m.state = k.state
      /\ \A p \in k.ready_bitmap : k.priority[t] <= p
      /\ k.state[t] = "READY" \/ t = Idle
  BY PopNext DEF QueuesOK
<1>2. k \in KernelValue
  BY DEF QueuesOK
<1>3. n = IF t # k.current_task
          THEN [m EXCEPT !.current_task = t, !.state[t] = "RUNNING",
                         !.time_slice[t] = TIME_SLICE_MS]
          ELSE [m EXCEPT !.time_slice[t] = TIME_SLICE_MS]
  BY DEF Reschedule
<1> HIDE DEF t, m, n
<1>4. /\ n \in KernelValue
      /\ n.ready_queue = m.ready_queue /\ n.ready_bitmap = m.ready_bitmap
      /\ n.current_task = t /\ n.scheduler_running = k.scheduler_running
      /\ n.priority = k.priority /\ n.base_priority = k.base_priority
      /\ n.time_slice[t] = TIME_SLICE_MS
      /\ n.state = IF t # k.current_task THEN [k.state EXCEPT ![t] = "RUNNING"]
                                         ELSE k.state
  <2>1. TIME_SLICE_MS \in 0 .. TIME_SLICE_MS
    BY SchedAssumption
  <2>2. CASE t # k.current_task
    <3>1. n = [m EXCEPT !.current_task = t, !.state[t] = "RUNNING",
                        !.time_slice[t] = TIME_SLICE_MS]
      BY <1>3, <2>2
    <3> QED BY <1>1, <2>1, <2>2, <3>1, ZenonT(60) DEF KernelValue, TaskState, Keeps
  <2>3. CASE t = k.current_task
    <3>1. n = [m EXCEPT !.time_slice[t] = TIME_SLICE_MS]
      BY <1>3, <2>3
    <3> QED BY <1>1, <2>1, <2>3, <3>1 DEF KernelValue, Keeps
  <2> QED BY <2>2, <2>3, ZenonT(60)
<1>5. QueuesOK(n)
  <2>1. \A u \in Tasks : Queued(m, u) => n.state[u] = m.state[u]
                                        /\ n.priority[u] = m.priority[u]
    BY <1>1, <1>2, <1>4 DEF KernelValue, Keeps
  <2> QED BY <1>1, <1>4, <2>1, QueuesFrame, ZenonT(60)
<1>6. OnlyCurrentRuns(n)
  <2>1. k.state \in [Tasks -> TaskState]
    BY <1>2 DEF KernelValue
  <2>2. ASSUME NEW u \in Tasks, u # t
        PROVE  n.state[u] # "RUNNING"
    BY <1>4, <2>1, <2>2 DEF NoneRunning
  <2>3. n.scheduler_running /\ n.current_task # NULL
    BY <1>1, <1>4, SchedAssumption
  <2> QED BY <1>4, <2>2, <2>3 DEF OnlyCurrentRuns
<1>7. ~Outranked(n)
  <2>1. \A p \in n.ready_bitmap : n.priority[t] <= p
    BY <1>1, <1>4
  <2>2. n.priority[t] \in Int /\ n.ready_bitmap \subseteq Int
    <3>1. Prio \subseteq Int
      BY SchedAssumption DEF Prio
    <3> QED BY <1>1, <1>4, <3>1, ZenonT(60) DEF KernelValue
  <2> QED BY <1>4, <2>1, <2>2 DEF Outranked
<1>8. \A u \in Tasks : n.state[u] = k.state[u] \/ n.state[u] \in {"READY", "RUNNING"}
  BY <1>1, <1>2, <1>4 DEF KernelValue
<1>9. n.state[t] \in {"READY", "RUNNING"} \/ t = Idle
  BY <1>1, <1>2, <1>4 DEF KernelValue
<1> QED BY <1>1, <1>4, <1>5, <1>6, <1>7, <1>8, <1>9 DEF Dispatched, n

\* A call of os_scheduler either uses up one tick of the slice or dispatches.
LEMMA SchedulerStep ==
  ASSUME NEW k, QueuesOK(k), OnlyCurrentRuns(k), k.scheduler_running
  PROVE  \/ Dispatched(k, os_scheduler(k))
         \/ /\ QueuesOK(os_scheduler(k))
            /\ os_scheduler(k).ready_queue = k.ready_queue
            /\ os_scheduler(k).ready_bitmap = k.ready_bitmap
            /\ os_scheduler(k).current_task = k.current_task
            /\ os_scheduler(k).scheduler_running = k.scheduler_running
            /\ os_scheduler(k).state = k.state
            /\ os_scheduler(k).priority = k.priority
            /\ os_scheduler(k).base_priority = k.base_priority
            /\ os_scheduler(k).time_slice[k.current_task] =
                 k.time_slice[k.current_task] - 1
            /\ os_scheduler(k).time_slice[k.current_task] > 0
<1> DEFINE c == k.current_task
           left == IF k.time_slice[c] > 0 THEN k.time_slice[c] - 1 ELSE 0
           m == [k EXCEPT !.tick_count = (@ + 1) % TICK_MOD, !.time_slice[c] = left]
           a == scheduler_add_ready_task(m, c)
<1>1. k \in KernelValue /\ c \in Tasks
  BY SchedAssumption DEF QueuesOK, OnlyCurrentRuns, KernelValue
<1>2. k.time_slice[c] \in 0 .. TIME_SLICE_MS /\ left \in 0 .. TIME_SLICE_MS
  BY <1>1, SchedAssumption DEF KernelValue
<1>3. (k.tick_count + 1) % TICK_MOD \in 0 .. TICK_MOD - 1
  <2>1. k.tick_count + 1 \in Int
    BY <1>1, SchedAssumption DEF KernelValue
  <2> QED BY <2>1, ModRange, SchedAssumption
<1>4. os_scheduler(k) = IF left > 0 THEN m
                        ELSE IF k.state[c] = "RUNNING" THEN Reschedule(a)
                        ELSE Reschedule(m)
  BY DEF os_scheduler
<1>5. /\ m \in KernelValue
      /\ m.ready_queue = k.ready_queue /\ m.ready_bitmap = k.ready_bitmap
      /\ m.current_task = c /\ m.scheduler_running = k.scheduler_running
      /\ m.state = k.state
      /\ m.priority = k.priority /\ m.base_priority = k.base_priority
      /\ m.time_slice[c] = left
  <2> HIDE DEF left
  <2> QED BY <1>1, <1>2, <1>3, ZenonT(60) DEF KernelValue
<1> HIDE DEF m
<1>6. QueuesOK(m)
  BY <1>5, QueuesFrame
<1>7. CASE left > 0
  <2>1. left = k.time_slice[c] - 1
    BY <1>2, <1>7
  <2>2. os_scheduler(k) = m
    BY <1>4, <1>7
  <2> HIDE DEF left
  <2> QED BY <1>5, <1>6, <1>7, <2>1, <2>2, ZenonT(60)
<1>8. CASE ~(left > 0) /\ k.state[c] = "RUNNING"
  <2>1. ~Queued(m, c)
    BY <1>1, <1>5, <1>6, <1>8, NotReadyNotQueued
  <2>2. /\ QueuesOK(a) /\ Keeps(m, a)
        /\ a.state = [m.state EXCEPT ![c] = "READY"]
    BY <1>1, <1>6, <2>1, AddReady
  <2> HIDE DEF a
  <2>3. NoneRunning(a)
    BY <1>1, <1>5, <2>2 DEF NoneRunning, OnlyCurrentRuns, KernelValue
  <2>4. Dispatched(a, Reschedule(a))
    BY <1>1, <1>5, <2>2, <2>3, RescheduleDispatches, ZenonT(60) DEF Keeps
  <2>5. Dispatched(k, Reschedule(a))
    BY <1>1, <1>5, <2>2, <2>4 DEF Dispatched, Keeps, KernelValue
  <2> QED BY <1>4, <1>8, <2>5, ZenonT(60)
<1>9. CASE ~(left > 0) /\ k.state[c] # "RUNNING"
  <2>1. NoneRunning(m)
    BY <1>1, <1>5, <1>9 DEF NoneRunning, OnlyCurrentRuns
  <2>2. Dispatched(m, Reschedule(m))
    BY <1>1, <1>5, <1>6, <2>1, RescheduleDispatches, ZenonT(60)
  <2>3. Dispatched(k, Reschedule(m))
    BY <1>5, <2>2 DEF Dispatched
  <2> QED BY <1>4, <1>9, <2>3, ZenonT(60)
<1> QED BY <1>7, <1>8, <1>9

\* os_task_yield always dispatches.
LEMMA YieldDispatches ==
  ASSUME NEW k, QueuesOK(k), OnlyCurrentRuns(k), k.scheduler_running
  PROVE  Dispatched(k, Yield(k))
<1> DEFINE m == [k EXCEPT !.time_slice[k.current_task] = 0]
<1>1. k \in KernelValue /\ k.current_task \in Tasks
  BY SchedAssumption DEF QueuesOK, OnlyCurrentRuns, KernelValue
<1>2. /\ m \in KernelValue
      /\ m.ready_queue = k.ready_queue /\ m.ready_bitmap = k.ready_bitmap
      /\ m.current_task = k.current_task
      /\ m.scheduler_running = k.scheduler_running
      /\ m.state = k.state
      /\ m.priority = k.priority /\ m.base_priority = k.base_priority
      /\ m.time_slice[k.current_task] = 0
  <2>1. 0 \in 0 .. TIME_SLICE_MS
    BY SchedAssumption
  <2> QED BY <1>1, <2>1, ZenonT(60) DEF KernelValue
<1>3. Yield(k) = os_scheduler(m)
  BY DEF Yield
<1> HIDE DEF m
<1>4. QueuesOK(m) /\ OnlyCurrentRuns(m) /\ m.scheduler_running
  BY <1>2, QueuesFrame DEF OnlyCurrentRuns
<1>5. Dispatched(m, os_scheduler(m))
  BY <1>2, <1>4, SchedulerStep
<1> QED BY <1>2, <1>3, <1>5 DEF Dispatched

\* os_start dispatches the first task, with the slice it already has.
LEMMA StartDispatches ==
  ASSUME NEW k, QueuesOK(k), OnlyCurrentRuns(k), ~k.scheduler_running,
         k.time_slice[NextTask(k)] = TIME_SLICE_MS
  PROVE  Dispatched(k, Start(k))
<1> DEFINE t == NextTask(k)
           m == PopNextTask(k)
           n == Start(k)
<1>1. /\ t \in Tasks
      /\ QueuesOK(m) /\ m \in KernelValue
      /\ ~Queued(m, t)
      /\ m.ready_bitmap \subseteq k.ready_bitmap
      /\ Keeps(k, m) /\ m.state = k.state
      /\ \A p \in k.ready_bitmap : k.priority[t] <= p
  BY PopNext DEF QueuesOK
<1>2. k \in KernelValue /\ NoneRunning(k)
  BY SchedAssumption DEF QueuesOK, OnlyCurrentRuns, NoneRunning
<1>3. n = [m EXCEPT !.scheduler_running = TRUE, !.current_task = t,
                    !.state[t] = "RUNNING"]
  BY DEF Start
<1>4. k.time_slice[t] = TIME_SLICE_MS
  OBVIOUS
<1> HIDE DEF t, m, n
<1>5. /\ n \in KernelValue
      /\ n.ready_queue = m.ready_queue /\ n.ready_bitmap = m.ready_bitmap
      /\ n.current_task = t /\ n.scheduler_running = TRUE
      /\ n.priority = k.priority /\ n.base_priority = k.base_priority
      /\ n.time_slice = k.time_slice
      /\ n.state = [k.state EXCEPT ![t] = "RUNNING"]
  BY <1>1, <1>2, <1>3, ZenonT(60) DEF KernelValue, TaskState, Keeps
<1>6. QueuesOK(n)
  <2>1. \A u \in Tasks : Queued(m, u) => n.state[u] = m.state[u]
                                        /\ n.priority[u] = m.priority[u]
    BY <1>1, <1>2, <1>5 DEF KernelValue, Keeps
  <2> QED BY <1>1, <1>5, <2>1, QueuesFrame, ZenonT(60)
<1>7. OnlyCurrentRuns(n)
  <2>1. k.state \in [Tasks -> TaskState]
    BY <1>2 DEF KernelValue
  <2>2. ASSUME NEW u \in Tasks, u # t
        PROVE  n.state[u] # "RUNNING"
    BY <1>2, <1>5, <2>1, <2>2 DEF NoneRunning
  <2>3. n.scheduler_running /\ n.current_task # NULL
    BY <1>1, <1>5, SchedAssumption
  <2> QED BY <1>5, <2>2, <2>3 DEF OnlyCurrentRuns
<1>8. ~Outranked(n)
  <2>1. \A p \in n.ready_bitmap : n.priority[t] <= p
    BY <1>1, <1>5
  <2>2. n.priority[t] \in Int /\ n.ready_bitmap \subseteq Int
    <3>1. Prio \subseteq Int
      BY SchedAssumption DEF Prio
    <3> QED BY <1>1, <1>5, <3>1, ZenonT(60) DEF KernelValue
  <2> QED BY <1>5, <2>1, <2>2 DEF Outranked
<1>9. \A u \in Tasks : n.state[u] = k.state[u] \/ n.state[u] \in {"READY", "RUNNING"}
  BY <1>1, <1>2, <1>5 DEF KernelValue
<1>10. n.state[t] \in {"READY", "RUNNING"}
  BY <1>1, <1>2, <1>5 DEF KernelValue
<1> QED BY <1>1, <1>4, <1>5, <1>6, <1>7, <1>8, <1>9, <1>10 DEF Dispatched, n

-----------------------------------------------------------------------------
(* Task management *)

\* n is k after a call that dispatches nothing.
Managed(k, n) ==
  /\ QueuesOK(n)
  /\ OnlyCurrentRuns(n)
  /\ n.current_task = k.current_task
  /\ n.scheduler_running = k.scheduler_running

\* os_task_set_priority, os_task_raise_priority and os_task_reset_priority.
LEMMA RequeueManages ==
  ASSUME NEW k, QueuesOK(k), OnlyCurrentRuns(k), NEW t \in Tasks, NEW p \in Prio
  PROVE  /\ Managed(k, Requeue(k, t, p))
         /\ Requeue(k, t, p).state = k.state
         /\ Requeue(k, t, p).time_slice = k.time_slice
         /\ Requeue(k, t, p).priority = [k.priority EXCEPT ![t] = p]
         /\ Requeue(k, t, p).base_priority = k.base_priority
<1>1. k \in KernelValue
  BY DEF QueuesOK
<1>2. CASE k.state[t] = "READY"
  <2> DEFINE r == scheduler_remove_task(k, t)
             m == [r EXCEPT !.priority[t] = p]
             n == scheduler_add_ready_task(m, t)
  <2>1. /\ QueuesOK(r) /\ r \in KernelValue
        /\ ~Queued(r, t)
        /\ Keeps(k, r) /\ r.state = k.state
    BY RemoveReady DEF QueuesOK
  <2> HIDE DEF r
  <2>2. /\ m \in KernelValue
        /\ m.ready_queue = r.ready_queue /\ m.ready_bitmap = r.ready_bitmap
        /\ m.state = k.state
        /\ m.priority = [k.priority EXCEPT ![t] = p]
        /\ m.base_priority = k.base_priority
        /\ m.current_task = k.current_task
        /\ m.scheduler_running = k.scheduler_running
        /\ m.time_slice = k.time_slice
    BY <2>1 DEF KernelValue, Keeps
  <2> HIDE DEF m
  <2>3. QueuesOK(m)
    <3>1. \A u \in Tasks : Queued(r, u) => m.state[u] = r.state[u]
                                          /\ m.priority[u] = r.priority[u]
      BY <1>1, <2>1, <2>2 DEF KernelValue, Keeps
    <3> QED BY <2>1, <2>2, <3>1, QueuesFrame, ZenonT(60)
  <2>4. ~Queued(m, t)
    BY <2>1, <2>2 DEF Queued
  <2>5. QueuesOK(n) /\ Keeps(m, n) /\ n.state = [m.state EXCEPT ![t] = "READY"]
    BY <2>3, <2>4, AddReady
  <2>6. Requeue(k, t, p) = n
    BY <1>2 DEF Requeue, r, m
  <2> HIDE DEF n
  <2>7. n.state = k.state
    BY <1>1, <1>2, <2>2, <2>5 DEF KernelValue
  <2>8. OnlyCurrentRuns(n)
    BY <2>2, <2>5, <2>7 DEF OnlyCurrentRuns, Keeps
  <2> QED BY <2>2, <2>5, <2>6, <2>7, <2>8 DEF Managed, Keeps
<1>3. CASE k.state[t] # "READY"
  <2> DEFINE n == [k EXCEPT !.priority[t] = p]
  <2>1. /\ n \in KernelValue
        /\ n.ready_queue = k.ready_queue /\ n.ready_bitmap = k.ready_bitmap
        /\ n.state = k.state
        /\ n.priority = [k.priority EXCEPT ![t] = p]
        /\ n.base_priority = k.base_priority
        /\ n.current_task = k.current_task
        /\ n.scheduler_running = k.scheduler_running
        /\ n.time_slice = k.time_slice
    BY <1>1 DEF KernelValue
  <2>2. Requeue(k, t, p) = n
    BY <1>3 DEF Requeue
  <2> HIDE DEF n
  <2>3. ~Queued(k, t)
    BY <1>3, NotReadyNotQueued
  <2>4. QueuesOK(n)
    <3>1. \A u \in Tasks : Queued(k, u) => n.state[u] = k.state[u]
                                          /\ n.priority[u] = k.priority[u]
      BY <1>1, <2>1, <2>3 DEF KernelValue
    <3> QED BY <2>1, <3>1, QueuesFrame, ZenonT(60)
  <2> QED BY <2>1, <2>2, <2>4 DEF Managed, OnlyCurrentRuns
<1> QED BY <1>2, <1>3

\* os_task_resume of a suspended task, and the last step of os_task_create.
LEMMA AddManages ==
  ASSUME NEW k, QueuesOK(k), OnlyCurrentRuns(k), NEW t \in Tasks,
         k.state[t] # "READY"
  PROVE  /\ Managed(k, scheduler_add_ready_task(k, t))
         /\ scheduler_add_ready_task(k, t).state = [k.state EXCEPT ![t] = "READY"]
         /\ scheduler_add_ready_task(k, t).time_slice = k.time_slice
<1> DEFINE n == scheduler_add_ready_task(k, t)
<1>1. QueuesOK(n) /\ Keeps(k, n) /\ n.state = [k.state EXCEPT ![t] = "READY"]
  BY NotReadyNotQueued, AddReady
<1> HIDE DEF n
<1>2. OnlyCurrentRuns(n)
  BY <1>1 DEF OnlyCurrentRuns, Keeps, QueuesOK, KernelValue
<1> QED BY <1>1, <1>2 DEF Managed, Keeps, n

\* os_task_suspend and os_task_delete: the task leaves the queues and gets a
\* state that is neither READY nor RUNNING.
LEMMA RetireManages ==
  ASSUME NEW k, QueuesOK(k), OnlyCurrentRuns(k), NEW t \in Tasks,
         NEW s \in {"SUSPENDED", "TERMINATED"}
  PROVE  /\ Managed(k, Retire(k, t, s))
         /\ Retire(k, t, s).state = [k.state EXCEPT ![t] = s]
         /\ Retire(k, t, s).time_slice = k.time_slice
         /\ Retire(k, t, s).task_count = k.task_count
<1> DEFINE r == scheduler_remove_task(k, t)
           n == Retire(k, t, s)
<1>1. /\ QueuesOK(r) /\ r \in KernelValue
      /\ ~Queued(r, t)
      /\ Keeps(k, r) /\ r.state = k.state
  BY RemoveReady DEF QueuesOK
<1>2. n = [r EXCEPT !.state[t] = s]
  BY DEF Retire
<1> HIDE DEF r, n
<1>3. /\ n \in KernelValue
      /\ n.ready_queue = r.ready_queue /\ n.ready_bitmap = r.ready_bitmap
      /\ n.current_task = k.current_task
      /\ n.scheduler_running = k.scheduler_running
      /\ n.state = [k.state EXCEPT ![t] = s]
      /\ n.priority = k.priority
      /\ n.time_slice = k.time_slice
      /\ n.task_count = k.task_count
  <2>1. s \in TaskState
    BY DEF TaskState
  <2> QED BY <1>1, <1>2, <2>1, ZenonT(60) DEF KernelValue, Keeps
<1>4. k \in KernelValue
  BY DEF QueuesOK
<1>5. QueuesOK(n)
  <2>1. \A u \in Tasks : Queued(r, u) => n.state[u] = r.state[u]
                                        /\ n.priority[u] = r.priority[u]
    BY <1>1, <1>3, <1>4 DEF KernelValue, Keeps
  <2> QED BY <1>1, <1>3, <2>1, QueuesFrame, ZenonT(60)
<1>6. OnlyCurrentRuns(n)
  BY <1>3, <1>4 DEF OnlyCurrentRuns, KernelValue
<1> QED BY <1>3, <1>5, <1>6 DEF Managed, n
=============================================================================
