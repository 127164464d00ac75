------------------------------ MODULE MsgQueue ------------------------------
(***************************************************************************)
(* The message queue of src/sync.c: a ring buffer under a mutex, used by   *)
(* any number of tasks that interleave between any two of their steps.     *)
(* The mutex is taken at its word (module Mutex: MutualExclusion), and     *)
(* os_queue_get_count reads count without it.                              *)
(***************************************************************************)
EXTENDS Integers, Sequences

CONSTANTS
  Tasks, Items,
  max_items,
  NoTask,     \* the owner of a free mutex
  NoItem      \* no item: only in what the specification shows of a call

ASSUME QueueAssumption ==
  /\ max_items \in Nat \ {0}
  /\ NoTask \notin Tasks
  /\ NoItem \notin Items

VARIABLES
  buffer, head, tail, count,   \* the queue's fields
  owner,                       \* lock.owner
  pc,                          \* where each task is
  op, timed,                   \* the call a task is in, and whether timeout # 0
  item,                        \* the caller's item: sent, or received into
  res,                         \* what a task's last call returned
  seen                         \* what the last os_queue_get_count returned

ring == <<buffer, head, tail, count>>
vars == <<buffer, head, tail, count, owner, pc, op, timed, item, res, seen>>

Op == {"send", "receive", "peek"}

\* Between a successful os_mutex_lock and the os_mutex_unlock.
Locked == {"test", "copy", "advance", "count", "unlock", "release"}

TypeOK ==
  /\ buffer \in [0 .. max_items - 1 -> Items]
  /\ head \in 0 .. max_items - 1
  /\ tail \in 0 .. max_items - 1
  /\ count \in 0 .. max_items
  /\ owner \in Tasks \cup {NoTask}
  /\ pc \in [Tasks -> {"idle", "lock", "retry"} \cup Locked]
  /\ op \in [Tasks -> Op \cup {"none"}]
  /\ timed \in [Tasks -> BOOLEAN]
  /\ item \in [Tasks -> Items]
  /\ res \in [Tasks -> {"none", "OK", "TIMEOUT"}]
  /\ seen \in 0 .. max_items

\* os_queue_init, over memory that holds anything.
Init ==
  /\ buffer \in [0 .. max_items - 1 -> Items]
  /\ head = 0 /\ tail = 0 /\ count = 0
  /\ owner = NoTask
  /\ pc = [t \in Tasks |-> "idle"]
  /\ op = [t \in Tasks |-> "none"]
  /\ timed = [t \in Tasks |-> FALSE]
  /\ item \in [Tasks -> Items]
  /\ res = [t \in Tasks |-> "none"]
  /\ seen = 0

-----------------------------------------------------------------------------
Goto(t, l) == pc' = [pc EXCEPT ![t] = l]

Return(t, r) == Goto(t, "idle") /\ res' = [res EXCEPT ![t] = r]

\* A call of os_queue_send, os_queue_receive or os_queue_peek.
Call(t, o, v, timeout) ==
  /\ pc[t] = "idle"
  /\ op' = [op EXCEPT ![t] = o]
  /\ item' = [item EXCEPT ![t] = v]
  /\ timed' = [timed EXCEPT ![t] = timeout]
  /\ Goto(t, "lock")
  /\ UNCHANGED <<ring, owner, res, seen>>

\* Mutant: the lock is not waited for.
Lock_without_waiting(t) ==
  /\ pc[t] = "lock"
  /\ owner' = t
  /\ Goto(t, "test")
  /\ UNCHANGED <<ring, op, timed, item, res, seen>>

Lock(t) ==
  /\ pc[t] = "lock"
  /\ owner = NoTask
  /\ owner' = t
  /\ Goto(t, "test")
  /\ UNCHANGED <<ring, op, timed, item, res, seen>>

\* os_mutex_lock gives up after ten ticks; the call too, or it tries again.
LockTimesOut(t) ==
  /\ pc[t] = "lock"
  /\ owner # NoTask
  /\ timed[t]
  /\ Return(t, "TIMEOUT")
  /\ UNCHANGED <<ring, owner, op, timed, item, seen>>

\* Mutant: one item too many.
Test_off_by_one(t) ==
  /\ pc[t] = "test"
  /\ Goto(t, IF IF op[t] = "send" THEN count <= max_items ELSE count > 0
             THEN "copy" ELSE "release")
  /\ UNCHANGED <<ring, owner, op, timed, item, res, seen>>

Test(t) ==
  /\ pc[t] = "test"
  /\ Goto(t, IF IF op[t] = "send" THEN count < max_items ELSE count > 0
             THEN "copy" ELSE "release")
  /\ UNCHANGED <<ring, owner, op, timed, item, res, seen>>

\* The memcpy; a peek is done then.
Copy(t) ==
  /\ pc[t] = "copy"
  /\ IF op[t] = "send"
     THEN buffer' = [buffer EXCEPT ![tail] = item[t]] /\ UNCHANGED item
     ELSE item' = [item EXCEPT ![t] = buffer[head]] /\ UNCHANGED buffer
  /\ Goto(t, IF op[t] = "peek" THEN "unlock" ELSE "advance")
  /\ UNCHANGED <<head, tail, count, owner, op, timed, res, seen>>

Advance(t) ==
  /\ pc[t] = "advance"
  /\ IF op[t] = "send"
     THEN tail' = (tail + 1) % max_items /\ UNCHANGED head
     ELSE head' = (head + 1) % max_items /\ UNCHANGED tail
  /\ Goto(t, "count")
  /\ UNCHANGED <<buffer, count, owner, op, timed, item, res, seen>>

Count(t) ==
  /\ pc[t] = "count"
  /\ count' = IF op[t] = "send" THEN count + 1 ELSE count - 1
  /\ Goto(t, "unlock")
  /\ UNCHANGED <<buffer, head, tail, owner, op, timed, item, res, seen>>

Unlock(t) ==
  /\ pc[t] = "unlock"
  /\ owner' = NoTask
  /\ Return(t, "OK")
  /\ UNCHANGED <<ring, op, timed, item, seen>>

\* The queue is full, or empty: unlock without having done anything.
Release(t) ==
  /\ pc[t] = "release"
  /\ owner' = NoTask
  /\ Goto(t, "retry")
  /\ UNCHANGED <<ring, op, timed, item, res, seen>>

\* Give up, or try again after a delay of a tick.
Retry(t) ==
  /\ pc[t] = "retry"
  /\ \/ timed[t] /\ Return(t, "TIMEOUT")
     \/ Goto(t, "lock") /\ UNCHANGED res
  /\ UNCHANGED <<ring, owner, op, timed, item, seen>>

os_queue_get_count(t) ==
  /\ pc[t] = "idle"
  /\ seen' = count
  /\ UNCHANGED <<ring, owner, pc, op, timed, item, res>>

Next ==
  \E t \in Tasks :
    \/ \E o \in Op, v \in Items, timeout \in BOOLEAN : Call(t, o, v, timeout)
    \/ Lock(t) \/ LockTimesOut(t) \/ Test(t) \/ Copy(t) \/ Advance(t) \/ Count(t)
    \/ Unlock(t) \/ Release(t) \/ Retry(t)
    \/ os_queue_get_count(t)

Spec == Init /\ [][Next]_vars

-----------------------------------------------------------------------------
(* The queue as its callers see it *)

\* Some task has advanced its index and not yet changed the count.
Between(o) == \E t \in Tasks : pc[t] = "count" /\ op[t] = o

Pred(i) == IF i = 0 THEN max_items - 1 ELSE i - 1

Wrap(i) == IF i < max_items THEN i ELSE i - max_items

\* Where the oldest item is, and where the next one goes, once a task that is
\* between its two assignments is taken back to before the first.
First == IF Between("receive") THEN Pred(head) ELSE head
Free == IF Between("send") THEN Pred(tail) ELSE tail

Content == [i \in 1 .. count |-> buffer[Wrap(First + i - 1)]]

\* A call has succeeded once the count has changed, or for a peek the item is
\* copied.
Outcome(t) ==
  IF pc[t] = "idle" THEN res[t] ELSE IF pc[t] = "unlock" THEN "OK" ELSE "pending"

Shown(t) ==
  [op |-> op[t], timed |-> timed[t], res |-> Outcome(t),
   item |-> IF op[t] = "send" \/ Outcome(t) = "OK" THEN item[t] ELSE NoItem]

Calls == [t \in Tasks |-> Shown(t)]

Fifo == INSTANCE BoundedFifo WITH Capacity <- max_items, fifo <- Content, call <- Calls

\* The queue is a bounded FIFO to tasks that call it concurrently: no item is
\* lost, duplicated, reordered or made up, a call that times out has done
\* nothing, and the count read without the lock is the count of a moment.
ImplementsFifo == Fifo!Spec

\* Why: a task inside holds the lock and has seen room, or an item, that is
\* still there; the items lie from First up to Free; and what a task has copied
\* stays where it copied it until the count says so.
RingConsistent ==
  /\ \A t \in Tasks : pc[t] \in Locked <=> owner = t
  /\ Free = Wrap(First + count)
  /\ \A t \in Tasks :
       /\ pc[t] # "idle" => op[t] \in Op
       /\ pc[t] \in {"copy", "advance", "count"} =>
            IF op[t] = "send" THEN count < max_items ELSE count > 0
       /\ pc[t] \in {"advance", "count"} =>
            \/ op[t] = "send" /\ buffer[Free] = item[t]
            \/ op[t] = "receive" /\ item[t] = buffer[First]
=============================================================================
