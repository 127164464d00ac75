----------------------------- MODULE BoundedFifo -----------------------------
(***************************************************************************)
(* What a message queue promises its callers: a first-in first-out queue   *)
(* of at most Capacity items, on which every call takes effect at one      *)
(* moment between its start and its return, or not at all if it times out. *)
(***************************************************************************)
EXTENDS Naturals, Sequences

CONSTANTS Tasks, Items, NoItem, Capacity

VARIABLES
  fifo,   \* the items in the queue
  call,   \* the last or current call of each task
  seen    \* the number of items a task was last told

vars == <<fifo, call, seen>>

Op == {"send", "receive", "peek"}

NoCall == [op |-> "none", item |-> NoItem, timed |-> FALSE, res |-> "none"]

Pending(t) == call[t].res = "pending"

Init ==
  /\ fifo = <<>>
  /\ call = [t \in Tasks |-> NoCall]
  /\ seen = 0

\* A call starts; a send brings its item.
Begin(t, op, item, timed) ==
  /\ ~Pending(t)
  /\ call' = [call EXCEPT ![t] = [op |-> op, item |-> IF op = "send" THEN item ELSE NoItem,
                                  timed |-> timed, res |-> "pending"]]
  /\ UNCHANGED <<fifo, seen>>

Finish(t, item, res) ==
  call' = [call EXCEPT ![t] = [op |-> call[t].op, item |-> item,
                               timed |-> call[t].timed, res |-> res]]

Send(t) ==
  /\ Pending(t) /\ call[t].op = "send"
  /\ Len(fifo) < Capacity
  /\ fifo' = Append(fifo, call[t].item)
  /\ Finish(t, call[t].item, "OK")
  /\ UNCHANGED seen

Receive(t) ==
  /\ Pending(t) /\ call[t].op = "receive"
  /\ fifo # <<>>
  /\ fifo' = Tail(fifo)
  /\ Finish(t, Head(fifo), "OK")
  /\ UNCHANGED seen

Peek(t) ==
  /\ Pending(t) /\ call[t].op = "peek"
  /\ fifo # <<>>
  /\ Finish(t, Head(fifo), "OK")
  /\ UNCHANGED <<fifo, seen>>

TimeOut(t) ==
  /\ Pending(t) /\ call[t].timed
  /\ Finish(t, call[t].item, "TIMEOUT")
  /\ UNCHANGED <<fifo, seen>>

GetCount(t) ==
  /\ ~Pending(t)
  /\ seen' = Len(fifo)
  /\ UNCHANGED <<fifo, call>>

Next ==
  \E t \in Tasks :
    \/ \E op \in Op, item \in Items, timed \in BOOLEAN : Begin(t, op, item, timed)
    \/ Send(t) \/ Receive(t) \/ Peek(t) \/ TimeOut(t) \/ GetCount(t)

Spec == Init /\ [][Next]_vars
=============================================================================
