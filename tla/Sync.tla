-------------------------------- MODULE Sync --------------------------------
(***************************************************************************)
(* The semaphore, the event group and the condition variable of            *)
(* src/sync.c, called by tasks of one priority.  A condition variable's    *)
(* wait queue is linked through tcb_t.next, and so is the ready queue that *)
(* a waiting task, which polls and yields, stays in: both are modelled by  *)
(* the pointers.  The tick interrupt may switch tasks between any two      *)
(* steps; a critical section is one step.  All tasks stay ready, so the    *)
(* idle task never runs and ready_bitmap is ready # NULL.                  *)
(***************************************************************************)
EXTENDS Integers, FiniteSets, FiniteSetsExt, SequencesExt

CONSTANTS
    Tasks, NULL,
    Bits,         \* the bits of the event group
    Masks,        \* the sets of bits that tasks wait for and clear
    COUNT_MOD,    \* waiting_count wraps here (2^32 in the code)
    MaxPosts      \* bound: posts to the semaphore, settings of one bit

ASSUME SyncAssumption == NULL \notin Tasks /\ Masks \subseteq SUBSET Bits \ {{}}

cond_var_t == [wait_queue : Tasks \cup {NULL}, waiting_count : 0 .. COUNT_MOD - 1]

VARIABLES
    k,        \* the ready queue's head, the tcb_t.next pointers, current_task
    cond, mutex, sem, events,  \* the objects; mutex is its owner
    object,   \* the kind of object the tasks of this behaviour share
    pc, arg,  \* where each task is, and the arguments of its call
    waiting,  \* history: tasks that gave up the mutex in os_cond_wait and were
              \* neither signalled nor timed out since, in this order
    posts,    \* history: posts to the semaphore, settings of each bit
    taken     \* history: what the waiters took of them

vars == <<object, k, cond, mutex, sem, events, pc, arg, waiting, posts, taken>>
history == <<object, waiting, posts, taken>>

Places == {"run", "yield", "lock", "lock_late", "cond_unlock", "cond_fail",
           "cond_yield", "cond_check", "cond_late", "cond_remove", "sem",
           "sem_late", "event", "event_late"}

---------------------------------------------------------------------------
(* Lists through tcb_t.next *)

\* The tasks on the list from h, with NULL if the list ends.
Linked(next, h) ==
    LET at[i \in 0 .. Cardinality(Tasks)] ==
            IF i = 0 THEN h ELSE IF at[i - 1] = NULL THEN NULL ELSE next[at[i - 1]]
    IN  {at[i] : i \in DOMAIN at}

TailOf(next, h) == CHOOSE t \in Linked(next, h) \ {NULL} : next[t] = NULL

\* The next pointers once t is linked behind the list from h # NULL.
LinkLast(next, h, t) == [[next EXCEPT ![TailOf(next, h)] = t] EXCEPT ![t] = NULL]

scheduler_add_ready_task(s, t) ==
    IF s.ready = NULL THEN [s EXCEPT !.ready = t, !.next[t] = NULL]
    ELSE [s EXCEPT !.next = LinkLast(@, s.ready, t)]

\* The list's head becomes the current task.
scheduler_get_next_task(s) ==
    [ready |-> s.next[s.ready], next |-> [s.next EXCEPT ![s.ready] = NULL],
     current |-> s.ready]

\* os_scheduler when the slice is used up, which os_task_yield forces.
Switch == k' = scheduler_get_next_task(scheduler_add_ready_task(k, k.current))

---------------------------------------------------------------------------
(* Tasks *)

At(t, l) == k.current = t /\ pc[t] = l
NoArg == [timed |-> FALSE, mask |-> {}, all |-> FALSE, clear |-> FALSE]
\* The arguments are forgotten where they are not read any more.
Goto(t, l) ==
    /\ pc' = [pc EXCEPT ![t] = l]
    /\ arg' = IF l \in {"run", "lock", "yield"} THEN [arg EXCEPT ![t] = NoArg] ELSE arg
Call(t, l, a) ==
    At(t, "run") /\ pc' = [pc EXCEPT ![t] = l] /\ arg' = [arg EXCEPT ![t] = a]

Tick ==
    /\ Switch
    /\ UNCHANGED <<cond, mutex, sem, events, pc, arg, history>>

Yield(t) ==
    /\ At(t, "yield") /\ Switch /\ Goto(t, "run")
    /\ UNCHANGED <<cond, mutex, sem, events, history>>

\* The end of a turn of a polling loop: give up, or yield and poll again.
Late(t) ==
    /\ k.current = t
    /\ \/ pc[t] \in {"sem_late", "event_late"} /\ arg[t].timed /\ Goto(t, "run") /\ UNCHANGED k
       \/ pc[t] = "lock_late" /\ Goto(t, "lock") /\ Switch
       \/ pc[t] = "sem_late" /\ Goto(t, "sem") /\ Switch
       \/ pc[t] = "event_late" /\ Goto(t, "event") /\ Switch
       \/ pc[t] \in {"cond_yield", "cond_late"} /\ Goto(t, "cond_check") /\ Switch
       \/ pc[t] = "cond_late" /\ arg[t].timed /\ Goto(t, "cond_remove") /\ UNCHANGED k
    /\ UNCHANGED <<cond, mutex, sem, events, history>>

\* os_mutex_lock(&mutex, 0) and os_mutex_unlock, among tasks of one priority
\* (module Mutex has the rest).
os_mutex_lock(t) ==
    /\ Call(t, "lock", NoArg)
    /\ UNCHANGED <<k, cond, mutex, sem, events, history>>

Lock(t) ==
    /\ At(t, "lock")
    /\ IF mutex = NULL THEN mutex' = t /\ Goto(t, "run")
                       ELSE Goto(t, "lock_late") /\ UNCHANGED mutex
    /\ UNCHANGED <<k, cond, sem, events, history>>

os_mutex_unlock(t) ==
    /\ mutex = t /\ Call(t, "yield", NoArg) /\ mutex' = NULL
    /\ UNCHANGED <<k, cond, sem, events, history>>

---------------------------------------------------------------------------
(* Semaphores *)

\* Mutant: the count is not tested.
SemTry_untested(t) ==
    /\ At(t, "sem")
    /\ sem' = sem - 1
    /\ Goto(t, "run") /\ taken' = [taken EXCEPT !.sem = @ + 1]
    /\ UNCHANGED <<k, cond, mutex, events, waiting, posts, object>>

os_semaphore_wait(t, timed) ==
    /\ Call(t, "sem", [NoArg EXCEPT !.timed = timed])
    /\ UNCHANGED <<k, cond, mutex, sem, events, history>>

SemTry(t) ==
    /\ At(t, "sem")
    /\ IF sem > 0
       THEN sem' = sem - 1 /\ Goto(t, "run") /\ taken' = [taken EXCEPT !.sem = @ + 1]
       ELSE Goto(t, "sem_late") /\ UNCHANGED <<sem, taken, object>>
    /\ UNCHANGED <<k, cond, mutex, events, waiting, posts, object>>

os_semaphore_post(t) ==
    /\ posts.sem < MaxPosts /\ Call(t, "yield", NoArg)
    /\ sem' = sem + 1 /\ posts' = [posts EXCEPT !.sem = @ + 1]
    /\ UNCHANGED <<k, cond, mutex, events, waiting, taken, object>>

---------------------------------------------------------------------------
(* Event groups *)

os_event_group_set_bits(t, b) ==
    /\ posts.bit[b] < MaxPosts /\ Call(t, "yield", NoArg)
    /\ events' = events \cup {b} /\ posts' = [posts EXCEPT !.bit[b] = @ + 1]
    /\ UNCHANGED <<k, cond, mutex, sem, waiting, taken, object>>

os_event_group_clear_bits(t, mask) ==
    /\ At(t, "run") /\ events' = events \ mask
    /\ UNCHANGED <<k, cond, mutex, sem, pc, arg, history>>

os_event_group_wait_bits(t, mask, all, clear, timed) ==
    /\ Call(t, "event", [mask |-> mask, all |-> all, clear |-> clear, timed |-> timed])
    /\ UNCHANGED <<k, cond, mutex, sem, events, history>>

\* Mutant: the bits are cleared by a waiter for all of them only.
EventTry_any_keeps(t) ==
    LET a   == arg[t]
        met == IF a.all THEN a.mask \subseteq events ELSE a.mask \cap events # {}
    IN  /\ At(t, "event")
        /\ IF met
           THEN /\ events' = IF a.clear /\ a.all THEN events \ a.mask ELSE events
                /\ taken' = IF ~a.clear THEN taken ELSE
                      [taken EXCEPT !.bit = [b \in Bits |->
                          IF b \in a.mask \cap events THEN @[b] + 1 ELSE @[b]]]
                /\ Goto(t, "run")
           ELSE Goto(t, "event_late") /\ UNCHANGED <<events, taken, object>>
        /\ UNCHANGED <<k, cond, mutex, sem, waiting, posts, object>>

\* One turn of os_event_group_wait_bits; *bits_received is a.mask \cap events.
EventTry(t) ==
    LET a   == arg[t]
        met == IF a.all THEN a.mask \subseteq events ELSE a.mask \cap events # {}
    IN  /\ At(t, "event")
        /\ IF met
           THEN /\ events' = IF a.clear THEN events \ a.mask ELSE events
                /\ taken' = IF ~a.clear THEN taken ELSE
                      [taken EXCEPT !.bit = [b \in Bits |->
                          IF b \in a.mask \cap events THEN @[b] + 1 ELSE @[b]]]
                /\ Goto(t, "run")
           ELSE Goto(t, "event_late") /\ UNCHANGED <<events, taken, object>>
        /\ UNCHANGED <<k, cond, mutex, sem, waiting, posts, object>>

---------------------------------------------------------------------------
(* Condition variables *)

\* Mutant: the task is unlinked from the wait queue's head only.
cond_remove_task_head(t) ==
    /\ cond' = [wait_queue |-> IF cond.wait_queue = t THEN k.next[t] ELSE cond.wait_queue,
                waiting_count |-> (cond.waiting_count - 1) % COUNT_MOD]
    /\ k' = [k EXCEPT !.next[t] = IF cond.wait_queue = t THEN NULL ELSE t]

\* Unlinks t where it is found; waiting_count goes down in any case.
cond_remove_task(t) ==
    LET before == {u \in Linked(k.next, cond.wait_queue) \ {NULL} : k.next[u] = t}
    IN  /\ cond' = [wait_queue |-> IF cond.wait_queue = t THEN k.next[t] ELSE cond.wait_queue,
                    waiting_count |-> (cond.waiting_count - 1) % COUNT_MOD]
        /\ k' = [k EXCEPT !.next = [u \in Tasks |->
                    IF u = t THEN NULL
                    ELSE IF cond.wait_queue # t /\ u \in before THEN @[t] ELSE @[u]]]

os_cond_wait(t, timed) ==
    /\ Call(t, "cond_unlock", [NoArg EXCEPT !.timed = timed])
    /\ cond' = [wait_queue |-> IF cond.wait_queue = NULL THEN t ELSE cond.wait_queue,
                waiting_count |-> (cond.waiting_count + 1) % COUNT_MOD]
    /\ k' = [k EXCEPT !.next = IF cond.wait_queue = NULL THEN [@ EXCEPT ![t] = NULL]
                               ELSE LinkLast(@, cond.wait_queue, t)]
    /\ UNCHANGED <<mutex, sem, events, history>>

\* os_mutex_unlock, with its yield, or its OS_ERROR_PERMISSION_DENIED.
CondUnlock(t) ==
    /\ At(t, "cond_unlock")
    /\ IF mutex = t
       THEN mutex' = NULL /\ Goto(t, "cond_yield") /\ waiting' = Append(waiting, t)
       ELSE Goto(t, "cond_fail") /\ UNCHANGED <<mutex, waiting, object>>
    /\ UNCHANGED <<k, cond, sem, events, posts, taken, object>>

CondFail(t) ==
    /\ At(t, "cond_fail") /\ cond_remove_task(t) /\ Goto(t, "run")
    /\ UNCHANGED <<mutex, sem, events, history>>

\* A task that is not on the wait queue any more has been signalled.
CondCheck(t) ==
    /\ At(t, "cond_check")
    /\ IF t \in Linked(k.next, cond.wait_queue)
       THEN Goto(t, "cond_late") /\ UNCHANGED waiting
       ELSE Goto(t, "lock") /\ waiting' = SelectSeq(waiting, LAMBDA u : u # t)
    /\ UNCHANGED <<k, cond, mutex, sem, events, posts, taken, object>>

CondTimeout(t) ==
    /\ At(t, "cond_remove") /\ cond_remove_task(t) /\ Goto(t, "lock")
    /\ waiting' = SelectSeq(waiting, LAMBDA u : u # t)
    /\ UNCHANGED <<mutex, sem, events, posts, taken, object>>

\* Mutant: the head is counted out and not unlinked.
os_cond_signal_counted(t) ==
    /\ Call(t, "yield", NoArg)
    /\ IF cond.wait_queue = NULL THEN UNCHANGED cond
       ELSE cond' = [cond EXCEPT !.waiting_count = (@ - 1) % COUNT_MOD]
    /\ waiting' = IF waiting = <<>> THEN waiting ELSE Tail(waiting)
    /\ UNCHANGED <<k, mutex, sem, events, posts, taken, object>>

os_cond_signal(t) ==
    /\ Call(t, "yield", NoArg)
    /\ IF cond.wait_queue = NULL THEN UNCHANGED <<k, cond>>
       ELSE /\ cond' = [wait_queue |-> k.next[cond.wait_queue],
                        waiting_count |-> (cond.waiting_count - 1) % COUNT_MOD]
            /\ k' = [k EXCEPT !.next[cond.wait_queue] = NULL]
    /\ waiting' = IF waiting = <<>> THEN waiting ELSE Tail(waiting)
    /\ UNCHANGED <<mutex, sem, events, posts, taken, object>>

os_cond_broadcast(t) ==
    LET woken == Linked(k.next, cond.wait_queue) \ {NULL}
    IN  /\ Call(t, "yield", NoArg)
        /\ cond' = [wait_queue |-> NULL,
                    waiting_count |-> (cond.waiting_count - Cardinality(woken)) % COUNT_MOD]
        /\ k' = [k EXCEPT !.next = [u \in Tasks |-> IF u \in woken THEN NULL ELSE @[u]]]
        /\ waiting' = <<>>
        /\ UNCHANGED <<mutex, sem, events, posts, taken, object>>

---------------------------------------------------------------------------
os_event_group_init == events = {}
os_semaphore_init == sem = 0
os_cond_init == cond = [wait_queue |-> NULL, waiting_count |-> 0]

\* One task runs, the others are on the ready queue in some order.
Init ==
    /\ \E order \in SetToSeqs(Tasks) :
          k = [current |-> order[1],
               ready |-> IF Len(order) > 1 THEN order[2] ELSE NULL,
               next |-> [t \in Tasks |->
                   LET i == CHOOSE i \in DOMAIN order : order[i] = t
                   IN  IF i = 1 \/ i = Len(order) THEN NULL ELSE order[i + 1]]]
    /\ os_cond_init /\ os_semaphore_init /\ os_event_group_init
    /\ mutex = NULL /\ object \in {"cond", "semaphore", "events"}
    /\ pc = [t \in Tasks |-> "run"] /\ arg = [t \in Tasks |-> NoArg]
    /\ waiting = <<>>
    /\ posts = [sem |-> 0, bit |-> [b \in Bits |-> 0]] /\ taken = posts

\* What a task in a call does next.
Proceed(t) ==
    \/ Yield(t) \/ Late(t) \/ Lock(t) \/ SemTry(t) \/ EventTry(t)
    \/ CondUnlock(t) \/ CondFail(t) \/ CondCheck(t) \/ CondTimeout(t)

\* The calls a task may make.  The objects have nothing in common but the ready
\* queue, so the tasks of one behaviour share objects of one kind.
Begin(t) ==
    \/ /\ object = "cond"
       /\ \/ os_mutex_lock(t) \/ os_mutex_unlock(t)
          \/ os_cond_signal(t) \/ os_cond_broadcast(t)
          \/ \E timed \in BOOLEAN : os_cond_wait(t, timed)
    \/ /\ object = "semaphore"
       /\ \/ os_semaphore_post(t)
          \/ \E timed \in BOOLEAN : os_semaphore_wait(t, timed)
    \/ /\ object = "events"
       /\ \/ \E b \in Bits : os_event_group_set_bits(t, b)
          \/ \E m \in Masks : os_event_group_clear_bits(t, m)
          \/ \E m \in Masks, all, clear, timed \in BOOLEAN :
                os_event_group_wait_bits(t, m, all, clear, timed)

Next == Tick \/ \E t \in Tasks : Begin(t) \/ Proceed(t)

\* The timer interrupts, and a task in a call goes on when it has the processor.
Fairness == WF_vars(Tick) /\ \A t \in Tasks : SF_vars(Proceed(t))

Spec == Init /\ [][Next]_vars /\ Fairness

---------------------------------------------------------------------------
\* The variables have their types, waiting_count wrapping.
TypeOK ==
    /\ k \in [ready : Tasks \cup {NULL}, next : [Tasks -> Tasks \cup {NULL}], current : Tasks]
    /\ cond \in cond_var_t
    /\ mutex \in Tasks \cup {NULL} /\ sem \in Nat /\ events \subseteq Bits
    /\ pc \in [Tasks -> Places]

\* Linking a task into a wait queue through tcb_t.next, while it is on the ready
\* queue through the same field, loses no task: every task but the running one
\* can be reached from the ready queue's head, and both lists end.
NoTaskLost ==
    /\ Tasks \ {k.current} \subseteq Linked(k.next, k.ready)
    /\ NULL \in Linked(k.next, k.ready) /\ NULL \in Linked(k.next, cond.wait_queue)

\* No lost signal: a task that gave up the mutex in os_cond_wait before another
\* called os_cond_signal or os_cond_broadcast, and is first in line for it, is not
\* on the wait queue any more when it polls.
NoLostSignal ==
    \A t \in Tasks : At(t, "cond_check") /\ t \in Linked(k.next, cond.wait_queue) =>
        Contains(waiting, t)

\* One post releases at most one os_semaphore_wait, and one setting of a bit at
\* most one os_event_group_wait_bits that clears it, whoever polls in between.
TakenOnce ==
    /\ taken.sem + sem = posts.sem
    /\ \A b \in Bits : taken.bit[b] + (IF b \in events THEN 1 ELSE 0) <= posts.bit[b]

\* A signalled task leaves the polling loop of os_cond_wait.
SignalledReturns ==
    \A t \in Tasks : pc[t] \in {"cond_check", "cond_late"} /\ ~Contains(waiting, t)
                     ~> pc[t] \notin {"cond_check", "cond_late"}
=============================================================================
