--------------------------- MODULE MsgQueueProofs ---------------------------
(***************************************************************************)
(* The message queue implements a bounded FIFO, for any number of tasks,   *)
(* any items and any size of the buffer.                                   *)
(***************************************************************************)
EXTENDS MsgQueue, TLAPS

Inv == TypeOK /\ RingConsistent

Index == 0 .. max_items - 1

-----------------------------------------------------------------------------
(* The ring *)

\* The code's remainder is a wrap-around of at most one turn.
LEMMA SuccWraps ==
  ASSUME NEW i \in Index
  PROVE  (i + 1) % max_items = Wrap(i + 1)
<1>1. CASE i + 1 < max_items
  BY <1>1, QueueAssumption DEF Wrap, Index
<1>2. CASE i + 1 = max_items
  BY <1>2, QueueAssumption DEF Wrap, Index
<1> QED BY <1>1, <1>2, QueueAssumption DEF Index

LEMMA RingIndexes ==
  /\ \A i \in Index : Wrap(i + 1) \in Index /\ Pred(Wrap(i + 1)) = i
  /\ \A i \in Index : Pred(i) \in Index /\ Wrap(Pred(i) + 1) = i
  /\ \A f \in Index, n \in 0 .. max_items : Wrap(f + n) \in Index
  /\ \A f \in Index : Wrap(f) = f
  BY QueueAssumption DEF Index, Wrap, Pred

LEMMA RingArithmetic ==
  ASSUME NEW f \in Index, NEW n \in 0 .. max_items
  PROVE  /\ n < max_items => Wrap(f + (n + 1)) = Wrap(Wrap(f + n) + 1)
         /\ n > 0 => Wrap(Wrap(f + 1) + (n - 1)) = Wrap(f + n)
         /\ n < max_items => \A i \in 1 .. n : Wrap(f + i - 1) # Wrap(f + n)
  BY QueueAssumption DEF Index, Wrap

\* The n items from index f on.
Segment(buf, f, n) == [i \in 1 .. n |-> buf[Wrap(f + i - 1)]]

LEMMA SegmentType ==
  ASSUME NEW buf \in [Index -> Items], NEW f \in Index, NEW n \in 0 .. max_items
  PROVE  Segment(buf, f, n) \in Seq(Items) /\ Len(Segment(buf, f, n)) = n
<1>1. \A i \in 1 .. n : Wrap(f + i - 1) \in Index
  BY QueueAssumption DEF Index, Wrap
<1> QED BY <1>1 DEF Segment

LEMMA SegmentAppend ==
  ASSUME NEW buf \in [Index -> Items], NEW f \in Index, NEW n \in 0 .. max_items - 1
  PROVE  Segment(buf, f, n + 1) = Append(Segment(buf, f, n), buf[Wrap(f + n)])
<1>1. n \in 0 .. max_items /\ n + 1 \in 0 .. max_items
  BY QueueAssumption
<1>2. /\ Segment(buf, f, n) \in Seq(Items) /\ Len(Segment(buf, f, n)) = n
      /\ Segment(buf, f, n + 1) \in Seq(Items) /\ Len(Segment(buf, f, n + 1)) = n + 1
  BY <1>1, SegmentType
<1>3. buf[Wrap(f + n)] \in Items
  BY <1>1, RingIndexes
<1>4. ASSUME NEW i \in 1 .. n + 1
      PROVE  Segment(buf, f, n + 1)[i] = Append(Segment(buf, f, n), buf[Wrap(f + n)])[i]
  <2>1. CASE i \in 1 .. n
    BY <1>2, <1>3, <2>1 DEF Segment
  <2>2. CASE i = n + 1
    <3>1. f + i - 1 = f + n
      BY <2>2, QueueAssumption DEF Index
    <3>2. Segment(buf, f, n + 1)[i] = buf[Wrap(f + n)]
      BY <3>1 DEF Segment
    <3>3. Append(Segment(buf, f, n), buf[Wrap(f + n)])[i] = buf[Wrap(f + n)]
      BY <1>2, <1>3, <2>2
    <3> QED BY <3>2, <3>3
  <2>3. i \in 1 .. n \/ i = n + 1
    BY QueueAssumption
  <2> QED BY <2>1, <2>2, <2>3, Zenon
<1>5. /\ Append(Segment(buf, f, n), buf[Wrap(f + n)]) \in Seq(Items)
      /\ Len(Append(Segment(buf, f, n), buf[Wrap(f + n)])) = n + 1
  BY <1>2, <1>3
<1> QED BY <1>2, <1>4, <1>5

LEMMA SegmentTail ==
  ASSUME NEW buf \in [Index -> Items], NEW f \in Index, NEW n \in 1 .. max_items
  PROVE  /\ Segment(buf, f, n) # <<>>
         /\ Head(Segment(buf, f, n)) = buf[f]
         /\ Tail(Segment(buf, f, n)) = Segment(buf, Wrap(f + 1), n - 1)
<1>1. n \in 0 .. max_items /\ n - 1 \in 0 .. max_items /\ Wrap(f + 1) \in Index
  BY RingIndexes, QueueAssumption
<1>2. /\ Segment(buf, f, n) \in Seq(Items) /\ Len(Segment(buf, f, n)) = n
      /\ Segment(buf, Wrap(f + 1), n - 1) \in Seq(Items)
      /\ Len(Segment(buf, Wrap(f + 1), n - 1)) = n - 1
  BY <1>1, SegmentType
<1>3. Segment(buf, f, n) # <<>>
  BY <1>2
<1>4. Head(Segment(buf, f, n)) = buf[f]
  <2>1. Wrap(f + 1 - 1) = f
    BY QueueAssumption DEF Index, Wrap
  <2>2. Segment(buf, f, n)[1] = buf[f]
    BY <2>1 DEF Segment
  <2> QED BY <1>2, <2>2
<1>5. ASSUME NEW i \in 1 .. n - 1
      PROVE  Tail(Segment(buf, f, n))[i] = Segment(buf, Wrap(f + 1), n - 1)[i]
  <2>1. Wrap(f + (i + 1) - 1) = Wrap(Wrap(f + 1) + i - 1)
    BY QueueAssumption DEF Index, Wrap
  <2>2. i + 1 \in 1 .. n
    OBVIOUS
  <2>3. Tail(Segment(buf, f, n))[i] = Segment(buf, f, n)[i + 1]
    BY <1>2, <2>2
  <2> QED BY <2>1, <2>2, <2>3 DEF Segment
<1>6. Tail(Segment(buf, f, n)) \in Seq(Items) /\ Len(Tail(Segment(buf, f, n))) = n - 1
  BY <1>2, <1>3
<1> QED BY <1>2, <1>3, <1>4, <1>5, <1>6

\* An item copied behind the last one is not in the segment.
LEMMA SegmentKept ==
  ASSUME NEW buf \in [Index -> Items], NEW f \in Index, NEW n \in 0 .. max_items - 1,
         NEW v
  PROVE  Segment([buf EXCEPT ![Wrap(f + n)] = v], f, n) = Segment(buf, f, n)
<1>1. n \in 0 .. max_items /\ n < max_items
  BY QueueAssumption
<1>2. \A i \in 1 .. n : Wrap(f + i - 1) # Wrap(f + n)
  BY <1>1, RingArithmetic
<1> QED BY <1>2 DEF Segment

-----------------------------------------------------------------------------
(* The tasks *)

\* At most one task is inside, and only it can be between two assignments.
LEMMA OneInside ==
  ASSUME Inv, NEW t \in Tasks
  PROVE  /\ pc[t] \in Locked => \A u \in Tasks : u # t => pc[u] \notin Locked
         /\ owner = NoTask => pc[t] \notin Locked
  BY QueueAssumption DEF Inv, RingConsistent

LEMMA BetweenIs ==
  ASSUME Inv, NEW o
  PROVE  /\ \A t \in Tasks : pc[t] \in Locked => (Between(o) <=> pc[t] = "count" /\ op[t] = o)
         /\ owner = NoTask => ~Between(o)
  BY OneInside DEF Between, Locked

LEMMA FirstFree ==
  ASSUME Inv
  PROVE  /\ First \in Index /\ Free \in Index
         /\ Content = Segment(buffer, First, count)
         /\ buffer \in [Index -> Items]
<1>1. First \in Index /\ Free \in Index
  BY RingIndexes DEF Inv, TypeOK, First, Free, Index
<1> QED BY <1>1 DEF Inv, TypeOK, Content, Segment, Index

LEMMA InitInv == Init => Inv
<1> SUFFICES ASSUME Init PROVE Inv
  OBVIOUS
<1>1. TypeOK
  BY QueueAssumption DEF Init, TypeOK
<1>2. First = 0 /\ Free = 0
  BY DEF Init, First, Free, Between
<1>3. RingConsistent
  BY <1>2, QueueAssumption DEF Init, RingConsistent, Locked, Wrap
<1> QED BY <1>1, <1>3 DEF Inv

LEMMA TypeStep == Inv /\ [Next]_vars => TypeOK'
<1> SUFFICES ASSUME Inv, [Next]_vars PROVE TypeOK'
  OBVIOUS
<1> USE DEF Inv
<1>1. CASE UNCHANGED vars
  BY <1>1 DEF vars, TypeOK
<1>2. ASSUME NEW t \in Tasks, NEW o \in Op, NEW v \in Items, NEW timeout \in BOOLEAN,
             Call(t, o, v, timeout)
      PROVE  TypeOK'
  BY <1>2 DEF Call, Goto, ring, TypeOK
<1>3. ASSUME NEW t \in Tasks, Lock(t) \/ Release(t) \/ Test(t)
      PROVE  TypeOK'
  BY <1>3 DEF Lock, Release, Test, Goto, ring, TypeOK, Locked
<1>4. ASSUME NEW t \in Tasks, LockTimesOut(t) \/ Unlock(t) \/ Retry(t)
      PROVE  TypeOK'
  BY <1>4 DEF LockTimesOut, Unlock, Retry, Return, Goto, ring, TypeOK
<1>5. ASSUME NEW t \in Tasks, Copy(t)
      PROVE  TypeOK'
  <2>1. buffer[head] \in Items /\ item[t] \in Items
    BY DEF TypeOK
  <2> QED BY <1>5, <2>1 DEF Copy, Goto, TypeOK, Locked
<1>6. ASSUME NEW t \in Tasks, Advance(t)
      PROVE  TypeOK'
  <2>1. (tail + 1) % max_items \in 0 .. max_items - 1 /\ (head + 1) % max_items \in 0 .. max_items - 1
    BY SuccWraps, RingIndexes DEF TypeOK, Index
  <2> QED BY <1>6, <2>1 DEF Advance, Goto, TypeOK, Locked
<1>7. ASSUME NEW t \in Tasks, Count(t)
      PROVE  TypeOK'
  <2>1. count' \in 0 .. max_items
    BY <1>7, QueueAssumption DEF Count, TypeOK, RingConsistent
  <2> QED BY <1>7, <2>1 DEF Count, Goto, TypeOK, Locked
<1>8. ASSUME NEW t \in Tasks, os_queue_get_count(t)
      PROVE  TypeOK'
  BY <1>8 DEF os_queue_get_count, ring, TypeOK
<1> QED BY <1>1, <1>2, <1>3, <1>4, <1>5, <1>6, <1>7, <1>8 DEF Next

\* A step to or from elsewhere than between the two assignments.
LEMMA RingFrame ==
  ASSUME TypeOK, NEW t \in Tasks, NEW l,
         pc' = [pc EXCEPT ![t] = l], pc[t] # "count", l # "count",
         \A u \in Tasks : u # t => op'[u] = op[u],
         head' = head, tail' = tail
  PROVE  First' = First /\ Free' = Free
<1>1. \A u \in Tasks : pc'[u] = "count" <=> pc[u] = "count"
  BY DEF TypeOK
<1>2. \A o : Between(o)' <=> Between(o)
  BY <1>1 DEF Between
<1> QED BY <1>2 DEF First, Free, Pred

\* The task that is inside, before and after it advances its index.
LEMMA InsideRing ==
  ASSUME Inv, NEW t \in Tasks, pc[t] \in Locked
  PROVE  /\ First = IF pc[t] = "count" /\ op[t] = "receive" THEN Pred(head) ELSE head
         /\ Free = IF pc[t] = "count" /\ op[t] = "send" THEN Pred(tail) ELSE tail
  BY BetweenIs DEF First, Free

LEMMA AdvanceRing ==
  ASSUME Inv, NEW t \in Tasks, Advance(t)
  PROVE  First' = First /\ Free' = Free /\ op[t] \in {"send", "receive"}
<1>1. /\ pc' = [pc EXCEPT ![t] = "count"] /\ op' = op
      /\ pc[t] = "advance" /\ pc[t] \in Locked
  BY DEF Advance, Goto, Locked
<1>2. \A u \in Tasks : u # t => pc[u] # "count"
  BY <1>1, OneInside DEF Locked
<1>3. \A o : Between(o)' <=> op[t] = o
  BY <1>1, <1>2 DEF Between, Inv, TypeOK
<1>4. First = head /\ Free = tail
  BY <1>1, InsideRing
<1>5. op[t] \in {"send", "receive"}
  BY <1>1 DEF Inv, RingConsistent
<1>6. head \in Index /\ tail \in Index
  BY DEF Inv, TypeOK, Index
<1>7. CASE op[t] = "send"
  <2>1. tail' = Wrap(tail + 1) /\ head' = head
    BY <1>6, <1>7, SuccWraps DEF Advance
  <2>2. Pred(tail') = tail
    BY <1>6, <2>1, RingIndexes
  <2> QED BY <1>3, <1>4, <1>7, <2>1, <2>2 DEF First, Free, Pred
<1>8. CASE op[t] = "receive"
  <2>1. head' = Wrap(head + 1) /\ tail' = tail
    BY <1>6, <1>8, SuccWraps DEF Advance
  <2>2. Pred(head') = head
    BY <1>6, <2>1, RingIndexes
  <2> QED BY <1>3, <1>4, <1>8, <2>1, <2>2 DEF First, Free, Pred
<1> QED BY <1>5, <1>7, <1>8

LEMMA CountRing ==
  ASSUME Inv, NEW t \in Tasks, Count(t)
  PROVE  /\ First' = head /\ Free' = tail
         /\ \/ /\ op[t] = "send" /\ count < max_items /\ count' = count + 1
               /\ First' = First /\ Free' = Wrap(Free + 1) /\ buffer[Free] = item[t]
            \/ /\ op[t] = "receive" /\ count > 0 /\ count' = count - 1
               /\ First' = Wrap(First + 1) /\ Free' = Free /\ buffer[First] = item[t]
<1>1. /\ pc' = [pc EXCEPT ![t] = "unlock"] /\ op' = op /\ head' = head /\ tail' = tail
      /\ pc[t] = "count" /\ pc[t] \in Locked
  BY DEF Count, Goto, Locked
<1>2. \A u \in Tasks : u # t => pc[u] # "count"
  BY <1>1, OneInside DEF Locked
<1>3. \A o : ~Between(o)'
  BY <1>1, <1>2 DEF Between, Inv, TypeOK
<1>4. First' = head /\ Free' = tail
  BY <1>1, <1>3 DEF First, Free
<1>5. head \in Index /\ tail \in Index
  BY DEF Inv, TypeOK, Index
<1>6. /\ op[t] = "send" => count < max_items /\ buffer[Free] = item[t]
      /\ op[t] = "receive" => count > 0 /\ buffer[First] = item[t]
      /\ op[t] \in {"send", "receive"}
  BY <1>1 DEF Inv, RingConsistent
<1>7. CASE op[t] = "send"
  <2>1. First = head /\ Free = Pred(tail) /\ count' = count + 1
    BY <1>1, <1>7, InsideRing DEF Count
  <2> QED BY <1>4, <1>5, <1>6, <1>7, <2>1, RingIndexes
<1>8. CASE op[t] = "receive"
  <2>1. First = Pred(head) /\ Free = tail /\ count' = count - 1
    BY <1>1, <1>8, InsideRing DEF Count
  <2> QED BY <1>4, <1>5, <1>6, <1>8, <2>1, RingIndexes
<1> QED BY <1>6, <1>7, <1>8

LEMMA RingStep == Inv /\ [Next]_vars => RingConsistent'
<1> SUFFICES ASSUME Inv, [Next]_vars PROVE RingConsistent'
  OBVIOUS
<1>1. CASE UNCHANGED vars
  BY <1>1 DEF vars, Inv, RingConsistent, First, Free, Between, Pred, Wrap
<1>2. ASSUME NEW t \in Tasks, NEW o \in Op, NEW v \in Items, NEW timeout \in BOOLEAN,
             Call(t, o, v, timeout)
      PROVE  RingConsistent'
  <2>1. First' = First /\ Free' = Free
    <3>1. /\ pc' = [pc EXCEPT ![t] = "lock"] /\ pc[t] # "count"
          /\ head' = head /\ tail' = tail /\ TypeOK
          /\ \A u \in Tasks : u # t => op'[u] = op[u]
      BY <1>2 DEF Call, Goto, ring, Inv, TypeOK
    <3> QED BY <3>1, RingFrame
  <2> QED BY <1>2, <2>1 DEF Call, Goto, ring, Inv, TypeOK, RingConsistent, Locked, Wrap
<1>3. ASSUME NEW t \in Tasks, NEW l \in {"idle", "lock", "retry"} \cup Locked, l # "count",
             pc[t] # "count", pc' = [pc EXCEPT ![t] = l],
             UNCHANGED <<buffer, head, tail, count, op, item>>,
             l \in Locked => owner' = t,
             l \notin Locked =>
               IF pc[t] \in Locked THEN owner' = NoTask ELSE owner' = owner,
             l \in Locked /\ pc[t] \notin Locked => owner = NoTask,
             l # "idle" => pc[t] # "idle",
             l = "copy" => IF op[t] = "send" THEN count < max_items ELSE count > 0,
             l # "advance"
      PROVE  RingConsistent'
  <2>1. First' = First /\ Free' = Free
    <3>1. TypeOK /\ head' = head /\ tail' = tail
          /\ \A u \in Tasks : u # t => op'[u] = op[u]
      BY <1>3 DEF Inv
    <3> QED BY <1>3, <3>1, RingFrame
  <2>2. \A u \in Tasks : pc'[u] = IF u = t THEN l ELSE pc[u]
    BY <1>3 DEF Inv, TypeOK
  <2>3. \A u \in Tasks : pc'[u] \in Locked <=> owner' = u
    <3>1. \A u \in Tasks : pc[u] \in Locked <=> owner = u
      BY DEF Inv, RingConsistent
    <3> QED BY <1>3, <2>2, <3>1, QueueAssumption
  <2>4. Free' = Wrap(First + count)' 
    BY <1>3, <2>1 DEF Inv, RingConsistent, Wrap
  <2> QED BY <1>3, <2>1, <2>2, <2>3, <2>4 DEF Inv, RingConsistent
<1>4. ASSUME NEW t \in Tasks,
             Lock(t) \/ LockTimesOut(t) \/ Test(t) \/ Unlock(t) \/ Release(t) \/ Retry(t)
      PROVE  RingConsistent'
  <2> USE DEF Goto, Return, ring, Locked
  <2>0. pc[t] \in Locked => owner = t
    BY DEF Inv, RingConsistent
  <2>1. CASE Lock(t)
    BY <1>3, <2>1 DEF Lock
  <2>2. CASE LockTimesOut(t)
    BY <1>3, <2>2 DEF LockTimesOut
  <2>3. CASE Test(t)
    BY <1>3, <2>0, <2>3 DEF Test
  <2>4. CASE Unlock(t)
    BY <1>3, <2>4 DEF Unlock
  <2>5. CASE Release(t)
    BY <1>3, <2>5 DEF Release
  <2>6. CASE Retry(t)
    BY <1>3, <2>6 DEF Retry
  <2> QED BY <1>4, <2>1, <2>2, <2>3, <2>4, <2>5, <2>6
<1>5. ASSUME NEW t \in Tasks, Copy(t)
      PROVE  RingConsistent'
  <2> DEFINE l == IF op[t] = "peek" THEN "unlock" ELSE "advance"
  <2>1. /\ pc' = [pc EXCEPT ![t] = l] /\ pc[t] = "copy" /\ pc[t] \in Locked
        /\ UNCHANGED <<head, tail, count, owner, op>>
        /\ l # "count" /\ l \in Locked /\ l # "copy"
        /\ l = "advance" => op[t] \in {"send", "receive"}
    BY <1>5 DEF Copy, Goto, Locked, Inv, RingConsistent, Op
  <2> HIDE DEF l
  <2>2. First' = First /\ Free' = Free
    <3>1. TypeOK /\ head' = head /\ tail' = tail
          /\ \A u \in Tasks : u # t => op'[u] = op[u]
      BY <2>1 DEF Inv
    <3> QED BY <2>1, <3>1, RingFrame
  <2>3. First = head /\ Free = tail
    BY <2>1, InsideRing
  <2>4. \A u \in Tasks : u # t => pc'[u] = pc[u] /\ pc[u] \notin Locked
    BY <2>1, OneInside DEF Inv, TypeOK
  <2>5. pc'[t] = l
    BY <2>1 DEF Inv, TypeOK
  <2>6. op[t] = "send" => buffer'[Free] = item'[t]
    BY <1>5, <2>3 DEF Copy, Inv, TypeOK
  <2>7. op[t] = "receive" => buffer'[First] = item'[t]
    BY <1>5, <2>3 DEF Copy, Inv, TypeOK
  <2>8. \A u \in Tasks : pc'[u] \in Locked <=> owner' = u
    BY <2>1, <2>4, <2>5 DEF Inv, RingConsistent
  <2>9. Free' = Wrap(First + count)'
    BY <2>1, <2>2 DEF Inv, RingConsistent, Wrap
  <2>10. ASSUME NEW u \in Tasks
         PROVE  (/\ pc[u] # "idle" => op[u] \in Op
                 /\ pc[u] \in {"copy", "advance", "count"} =>
                      IF op[u] = "send" THEN count < max_items ELSE count > 0
                 /\ pc[u] \in {"advance", "count"} =>
                      \/ op[u] = "send" /\ buffer[Free] = item[u]
                      \/ op[u] = "receive" /\ item[u] = buffer[First])'
    <3>1. CASE u = t
      BY <2>1, <2>2, <2>5, <2>6, <2>7, <3>1 DEF Inv, RingConsistent
    <3>2. CASE u # t
      BY <2>1, <2>4, <3>2 DEF Inv, RingConsistent, Locked
    <3> QED BY <3>1, <3>2
  <2> QED BY <2>8, <2>9, <2>10 DEF RingConsistent
<1>6. ASSUME NEW t \in Tasks, NEW l \in {"count", "unlock"},
             pc' = [pc EXCEPT ![t] = l], pc[t] \in {"advance", "count"},
             UNCHANGED <<buffer, owner, op, item>>,
             Free' = Wrap(First + count)',
             l = "count" => First' = First /\ Free' = Free /\ count' = count
      PROVE  RingConsistent'
  <2>1. pc[t] \in Locked /\ l \in Locked
    BY <1>6 DEF Locked
  <2>2. \A u \in Tasks : u # t => pc'[u] = pc[u] /\ pc[u] \notin Locked
    BY <1>6, <2>1, OneInside DEF Inv, TypeOK
  <2>3. pc'[t] = l
    BY <1>6 DEF Inv, TypeOK
  <2>4. \A u \in Tasks : pc'[u] \in Locked <=> owner' = u
    BY <1>6, <2>1, <2>2, <2>3 DEF Inv, RingConsistent
  <2>5. ASSUME NEW u \in Tasks
        PROVE  (/\ pc[u] # "idle" => op[u] \in Op
                /\ pc[u] \in {"copy", "advance", "count"} =>
                     IF op[u] = "send" THEN count < max_items ELSE count > 0
                /\ pc[u] \in {"advance", "count"} =>
                     \/ op[u] = "send" /\ buffer[Free] = item[u]
                     \/ op[u] = "receive" /\ item[u] = buffer[First])'
    <3>1. CASE u = t
      BY <1>6, <2>3, <3>1 DEF Inv, RingConsistent
    <3>2. CASE u # t
      BY <1>6, <2>2, <3>2 DEF Inv, RingConsistent, Locked
    <3> QED BY <3>1, <3>2
  <2> QED BY <1>6, <2>4, <2>5 DEF RingConsistent
<1>7. ASSUME NEW t \in Tasks, Advance(t)
      PROVE  RingConsistent'
  <2>1. First' = First /\ Free' = Free
    BY <1>7, AdvanceRing
  <2>2. Free' = Wrap(First + count)'
    BY <1>7, <2>1 DEF Advance, Inv, RingConsistent, Wrap
  <2> QED BY <1>6, <1>7, <2>1, <2>2 DEF Advance, Goto
<1>8. ASSUME NEW t \in Tasks, Count(t)
      PROVE  RingConsistent'
  <2>1. First \in Index /\ count \in 0 .. max_items /\ Free = Wrap(First + count)
    BY FirstFree DEF Inv, TypeOK, RingConsistent
  <2>2. Free' = Wrap(First' + count')
    BY <1>8, <2>1, CountRing, RingArithmetic
  <2>3. Free' = Wrap(First + count)'
    BY <2>2 DEF Wrap
  <2> QED BY <1>6, <1>8, <2>3 DEF Count, Goto
<1>9. ASSUME NEW t \in Tasks, os_queue_get_count(t)
      PROVE  RingConsistent'
  BY <1>9 DEF os_queue_get_count, ring, Inv, RingConsistent, First, Free, Between, Pred, Wrap
<1> QED BY <1>1, <1>2, <1>4, <1>5, <1>7, <1>8, <1>9 DEF Next

\* The fields, the lock and the tasks' variables keep their types: neither index
\* leaves the buffer, and count stays between 0 and max_items.
THEOREM TypeCorrect == Spec => []TypeOK
<1>1. Inv /\ [Next]_vars => Inv'
  BY TypeStep, RingStep DEF Inv
<1>2. Inv => TypeOK
  BY DEF Inv
<1> QED BY <1>1, <1>2, InitInv, PTL DEF Spec

\* The items lie between the indexes, and what a task has seen under the lock
\* is still so when it acts on it.
THEOREM RingStaysConsistent == Spec => []RingConsistent
<1>1. Inv /\ [Next]_vars => Inv'
  BY TypeStep, RingStep DEF Inv
<1>2. Inv => RingConsistent
  BY DEF Inv
<1> QED BY <1>1, <1>2, InitInv, PTL DEF Spec

-----------------------------------------------------------------------------
(* The refinement *)

LEMMA InitRefines == Init => Fifo!Init
<1> SUFFICES ASSUME Init PROVE Fifo!Init
  OBVIOUS
<1>1. Content = <<>>
  <2>1. Inv /\ count = 0
    BY InitInv DEF Init
  <2>2. Content \in Seq(Items) /\ Len(Content) = 0
    BY <2>1, FirstFree, SegmentType, QueueAssumption
  <2> QED BY <2>2
<1>2. ASSUME NEW t \in Tasks
      PROVE  Shown(t) = Fifo!NoCall
  BY DEF Init, Shown, Outcome, Fifo!NoCall
<1> QED BY <1>1, <1>2 DEF Init, Fifo!Init, Calls

\* A step of t changes what is shown of t at most.
LEMMA CallsFrame ==
  ASSUME NEW t \in Tasks,
         \A u \in Tasks : u # t => /\ pc'[u] = pc[u] /\ op'[u] = op[u]
                                   /\ timed'[u] = timed[u] /\ item'[u] = item[u]
                                   /\ res'[u] = res[u]
  PROVE  Calls' = [Calls EXCEPT ![t] = Shown(t)']
<1>1. \A u \in Tasks : u # t => Shown(u)' = Shown(u)
  BY DEF Shown, Outcome
<1>2. Calls' = [u \in Tasks |-> Shown(u)']
  BY DEF Calls
<1>3. Calls = [u \in Tasks |-> Shown(u)]
  BY DEF Calls
<1> HIDE DEF Calls
<1> QED BY <1>1, <1>2, <1>3

LEMMA SameShown ==
  ASSUME NEW t \in Tasks, Calls' = [Calls EXCEPT ![t] = Shown(t)'], Shown(t)' = Shown(t)
  PROVE  Calls' = Calls
<1>1. Calls = [u \in Tasks |-> Shown(u)]
  BY DEF Calls
<1>2. Calls[t] = Shown(t)
  BY <1>1
<1> HIDE DEF Calls
<1> QED BY <1>1, <1>2

LEMMA ContentFrame ==
  ASSUME First' = First, count' = count, buffer' = buffer
  PROVE  Content' = Content
  BY DEF Content, Wrap

LEMMA ShownPending ==
  ASSUME Inv, NEW t \in Tasks
  PROVE  /\ Calls[t] = Shown(t)
         /\ Fifo!Pending(t) <=> pc[t] \notin {"idle", "unlock"}
  BY DEF Calls, Shown, Outcome, Fifo!Pending, Inv, TypeOK

\* Steps that are not seen: taking and leaving the lock, the test, and the first
\* of two assignments.
LEMMA SilentStep ==
  ASSUME Inv, NEW t \in Tasks,
         Lock(t) \/ Test(t) \/ Release(t) \/ Unlock(t) \/ Advance(t)
  PROVE  Content' = Content /\ Calls' = Calls /\ seen' = seen
<1>1. PICK l \in {"idle", "retry"} \cup Locked : pc' = [pc EXCEPT ![t] = l]
  BY DEF Lock, Test, Release, Unlock, Advance, Goto, Return, Locked
<1>2. /\ UNCHANGED <<buffer, count, op, timed, item, seen>>
      /\ \A u \in Tasks : u # t => pc'[u] = pc[u] /\ res'[u] = res[u]
  BY DEF Lock, Test, Release, Unlock, Advance, Goto, Return, ring, Inv, TypeOK
<1>3. First' = First
  <2>1. CASE Advance(t)
    BY <2>1, AdvanceRing
  <2>2. CASE Lock(t) \/ Test(t) \/ Release(t) \/ Unlock(t)
    <3>1. /\ TypeOK /\ head' = head /\ tail' = tail /\ pc[t] # "count"
          /\ \A u \in Tasks : u # t => op'[u] = op[u]
      BY <1>2, <2>2 DEF Lock, Test, Release, Unlock, ring, Inv
    <3>2. l # "count"
      BY <1>1, <2>2 DEF Lock, Test, Release, Unlock, Goto, Return, Inv, TypeOK
    <3> QED BY <1>1, <3>1, <3>2, RingFrame, ZenonT(60)
  <2> QED BY <2>1, <2>2
<1>4. Shown(t)' = Shown(t)
  <2>1. Outcome(t)' = Outcome(t)
    BY DEF Lock, Test, Release, Unlock, Advance, Goto, Return, Outcome, Inv, TypeOK
  <2> QED BY <1>2, <2>1 DEF Shown
<1>5. Calls' = Calls
  BY <1>2, <1>4, CallsFrame, SameShown
<1> QED BY <1>2, <1>3, <1>5, ContentFrame

\* A call that times out has shown nothing but its start.
LEMMA TimeOutStep ==
  ASSUME Inv, NEW t \in Tasks, pc[t] \in {"lock", "retry"}, timed[t], Return(t, "TIMEOUT"),
         UNCHANGED <<buffer, head, tail, count, op, timed, item, seen>>
  PROVE  Fifo!TimeOut(t)
<1>1. /\ pc' = [pc EXCEPT ![t] = "idle"] /\ res' = [res EXCEPT ![t] = "TIMEOUT"]
      /\ TypeOK /\ head' = head /\ tail' = tail /\ pc[t] # "count"
      /\ \A u \in Tasks : u # t => op'[u] = op[u]
  BY DEF Return, Goto, Inv
<1>2. First' = First
  BY <1>1, RingFrame
<1>3. Content' = Content
  BY <1>2, ContentFrame
<1>4. Calls' = [Calls EXCEPT ![t] = Shown(t)']
  BY <1>1, CallsFrame DEF TypeOK
<1>5. /\ Shown(t)' = [op |-> Shown(t).op, item |-> Shown(t).item,
                     timed |-> Shown(t).timed, res |-> "TIMEOUT"]
      /\ Shown(t).timed
  <2>1. pc'[t] = "idle" /\ res'[t] = "TIMEOUT"
    BY <1>1 DEF TypeOK
  <2>2. Outcome(t)' = "TIMEOUT" /\ Outcome(t) = "pending"
    BY <2>1 DEF Outcome
  <2> QED BY <2>2 DEF Shown
<1>6. Calls[t] = Shown(t) /\ Fifo!Pending(t)
  BY ShownPending
<1> QED BY <1>3, <1>4, <1>5, <1>6 DEF Fifo!TimeOut, Fifo!Finish

LEMMA CallStep ==
  ASSUME Inv, NEW t \in Tasks, NEW o \in Op, NEW v \in Items, NEW timeout \in BOOLEAN,
         Call(t, o, v, timeout)
  PROVE  Fifo!Begin(t, o, v, timeout)
<1>1. /\ pc' = [pc EXCEPT ![t] = "lock"] /\ pc[t] = "idle"
      /\ op' = [op EXCEPT ![t] = o] /\ item' = [item EXCEPT ![t] = v]
      /\ timed' = [timed EXCEPT ![t] = timeout]
      /\ UNCHANGED <<buffer, head, tail, count, res, seen>> /\ TypeOK
  BY DEF Call, Goto, ring, Inv
<1>2. \A u \in Tasks : u # t => op'[u] = op[u]
  BY <1>1 DEF TypeOK
<1>3. First' = First
  BY <1>1, <1>2, RingFrame
<1>4. Content' = Content
  BY <1>1, <1>3, ContentFrame
<1>5. Calls' = [Calls EXCEPT ![t] = Shown(t)']
  BY <1>1, CallsFrame DEF TypeOK
<1>6. Shown(t)' = [op |-> o, item |-> IF o = "send" THEN v ELSE NoItem,
                   timed |-> timeout, res |-> "pending"]
  <2>1. pc'[t] = "lock" /\ op'[t] = o /\ item'[t] = v /\ timed'[t] = timeout
    BY <1>1 DEF TypeOK
  <2> QED BY <2>1 DEF Shown, Outcome
<1>7. ~Fifo!Pending(t)
  BY <1>1, ShownPending
<1> QED BY <1>1, <1>4, <1>5, <1>6, <1>7 DEF Fifo!Begin

\* What is shown of a call that succeeds with the item it holds.
LEMMA SuccessShown ==
  ASSUME Inv, NEW t \in Tasks, pc[t] \in {"copy", "count"},
         pc' = [pc EXCEPT ![t] = "unlock"], UNCHANGED <<op, timed, res>>,
         \A u \in Tasks : u # t => item'[u] = item[u]
  PROVE  Fifo!Finish(t, item'[t], "OK")
<1>1. Calls' = [Calls EXCEPT ![t] = Shown(t)']
  BY CallsFrame DEF Inv, TypeOK
<1>2. Shown(t)' = [op |-> op[t], item |-> item'[t], timed |-> timed[t], res |-> "OK"]
  <2>1. pc'[t] = "unlock"
    BY DEF Inv, TypeOK
  <2>2. Outcome(t)' = "OK"
    BY <2>1 DEF Outcome
  <2> QED BY <2>2 DEF Shown
<1>3. Calls[t].op = op[t] /\ Calls[t].timed = timed[t]
  <2>1. Calls[t] = Shown(t)
    BY ShownPending
  <2> QED BY <2>1 DEF Shown
<1> QED BY <1>1, <1>2, <1>3 DEF Fifo!Finish

LEMMA CopyStep ==
  ASSUME Inv, NEW t \in Tasks, Copy(t)
  PROVE  \/ Fifo!Peek(t)
         \/ Content' = Content /\ Calls' = Calls /\ seen' = seen
<1>1. /\ pc[t] = "copy" /\ pc[t] \in Locked /\ op[t] \in Op
      /\ UNCHANGED <<head, tail, count, op, timed, res, seen>>
      /\ IF op[t] = "send" THEN count < max_items ELSE count > 0
      /\ count \in 0 .. max_items
  BY DEF Copy, Locked, Inv, TypeOK, RingConsistent
<1>2. pc' = [pc EXCEPT ![t] = IF op[t] = "peek" THEN "unlock" ELSE "advance"]
  BY DEF Copy, Goto
<1>3. First' = First
  <2>1. TypeOK /\ \A u \in Tasks : u # t => op'[u] = op[u]
    BY <1>1 DEF Inv
  <2> QED BY <1>1, <1>2, <2>1, RingFrame, ZenonT(60)
<1>4. /\ First = head /\ Free = tail /\ Free = Wrap(First + count)
      /\ First \in Index /\ buffer \in [Index -> Items]
      /\ Content = Segment(buffer, First, count)
  BY <1>1, InsideRing, FirstFree DEF Inv, RingConsistent
<1>5. Content' = Segment(buffer', First', count')
  BY DEF Content, Segment, Wrap
<1>6. \A u \in Tasks : u # t => item'[u] = item[u]
  BY DEF Copy, Inv, TypeOK
<1>7. CASE op[t] = "peek"
  <2>1. buffer' = buffer /\ item'[t] = buffer[First]
    BY <1>4, <1>7 DEF Copy, Inv, TypeOK
  <2>2. Content' = Content
    BY <1>1, <1>3, <2>1, ContentFrame
  <2>3. count \in 1 .. max_items
    BY <1>1, <1>7, QueueAssumption
  <2>4. Content # <<>> /\ Head(Content) = item'[t]
    BY <1>4, <2>1, <2>3, SegmentTail
  <2>5. Fifo!Finish(t, item'[t], "OK")
    BY <1>1, <1>2, <1>6, <1>7, SuccessShown
  <2>6. Fifo!Pending(t) /\ Calls[t].op = "peek"
    <3>1. Fifo!Pending(t) /\ Calls[t] = Shown(t)
      BY <1>1, ShownPending
    <3> QED BY <1>7, <3>1 DEF Shown
  <2> QED BY <1>1, <2>2, <2>4, <2>5, <2>6 DEF Fifo!Peek
<1>8. CASE op[t] # "peek"
  <2>1. pc' = [pc EXCEPT ![t] = "advance"]
    BY <1>2, <1>8
  <2>2. Shown(t)' = Shown(t)
    <3>1. pc'[t] = "advance"
      BY <2>1 DEF Inv, TypeOK
    <3>2. op[t] = "send" => item' = item
      BY DEF Copy
    <3> QED BY <1>1, <3>1, <3>2 DEF Shown, Outcome
  <2>3. Calls' = [Calls EXCEPT ![t] = Shown(t)']
    BY <1>1, <1>6, <2>1, CallsFrame DEF Inv, TypeOK
  <2>4. Calls' = Calls
    BY <2>2, <2>3, SameShown
  <2>5. Content' = Content
    <3>1. CASE op[t] = "send"
      <4>1. buffer' = [buffer EXCEPT ![Wrap(First + count)] = item[t]]
        BY <1>4, <3>1 DEF Copy
      <4>2. count \in 0 .. max_items - 1
        BY <1>1, <3>1, QueueAssumption
      <4> QED BY <1>1, <1>3, <1>4, <1>5, <4>1, <4>2, SegmentKept, ZenonT(60)
    <3>2. CASE op[t] # "send"
      BY <1>1, <1>3, <3>2, ContentFrame DEF Copy
    <3> QED BY <3>1, <3>2
  <2> QED BY <1>1, <2>4, <2>5
<1> QED BY <1>7, <1>8

LEMMA CountStep ==
  ASSUME Inv, NEW t \in Tasks, Count(t)
  PROVE  Fifo!Send(t) \/ Fifo!Receive(t)
<1>1. /\ pc[t] = "count" /\ pc' = [pc EXCEPT ![t] = "unlock"]
      /\ UNCHANGED <<buffer, op, timed, item, res, seen>>
      /\ count \in 0 .. max_items
  BY DEF Count, Goto, Inv, TypeOK
<1>2. /\ First \in Index /\ buffer \in [Index -> Items]
      /\ Content = Segment(buffer, First, count) /\ Free = Wrap(First + count)
  BY FirstFree DEF Inv, RingConsistent
<1>3. Content' = Segment(buffer', First', count')
  BY DEF Content, Segment, Wrap
<1>4. Fifo!Finish(t, item[t], "OK")
  BY <1>1, SuccessShown, ZenonT(60)
<1>5. Fifo!Pending(t) /\ Calls[t] = Shown(t)
  BY <1>1, ShownPending
<1>6. CASE op[t] = "send"
  <2>1. count \in 0 .. max_items - 1 /\ count' = count + 1 /\ First' = First
        /\ buffer[Free] = item[t]
    BY <1>1, <1>6, CountRing, QueueAssumption
  <2>2. Content' = Append(Content, item[t])
    BY <1>1, <1>2, <1>3, <2>1, SegmentAppend
  <2>3. Len(Content) < max_items
    <3>1. Len(Content) = count
      BY <1>1, <1>2, SegmentType
    <3> QED BY <2>1, <3>1, QueueAssumption
  <2>4. Calls[t].item = item[t] /\ Calls[t].op = "send"
    BY <1>5, <1>6 DEF Shown
  <2> QED BY <1>1, <1>4, <1>5, <2>2, <2>3, <2>4 DEF Fifo!Send
<1>7. CASE op[t] = "receive"
  <2>1. count \in 1 .. max_items /\ count' = count - 1 /\ First' = Wrap(First + 1)
        /\ buffer[First] = item[t]
    BY <1>1, <1>7, CountRing, QueueAssumption
  <2>2. Content # <<>> /\ Head(Content) = item[t] /\ Content' = Tail(Content)
    BY <1>1, <1>2, <1>3, <2>1, SegmentTail
  <2>3. Calls[t].op = "receive"
    BY <1>5, <1>7 DEF Shown
  <2> QED BY <1>1, <1>4, <1>5, <2>2, <2>3 DEF Fifo!Receive
<1> QED BY <1>6, <1>7, CountRing

LEMMA NextRefines == Inv /\ [Next]_vars => [Fifo!Next]_Fifo!vars
<1> SUFFICES ASSUME Inv, [Next]_vars
             PROVE  Fifo!Next \/ UNCHANGED <<Content, Calls, seen>>
  BY DEF Fifo!vars
<1>1. CASE UNCHANGED vars
  BY <1>1 DEF vars, Content, Calls, Shown, Outcome, First, Between, Pred, Wrap
<1>2. ASSUME NEW t \in Tasks, NEW o \in Op, NEW v \in Items, NEW timeout \in BOOLEAN,
             Call(t, o, v, timeout)
      PROVE  Fifo!Next
  <2>1. Fifo!Begin(t, o, v, timeout)
    BY <1>2, CallStep
  <2> QED BY <2>1 DEF Fifo!Next, Fifo!Op, Op
<1>3. ASSUME NEW t \in Tasks,
             Lock(t) \/ Test(t) \/ Release(t) \/ Unlock(t) \/ Advance(t)
      PROVE  UNCHANGED <<Content, Calls, seen>>
  BY <1>3, SilentStep
<1>4. ASSUME NEW t \in Tasks, LockTimesOut(t)
      PROVE  Fifo!Next
  <2>1. Fifo!TimeOut(t)
    BY <1>4, TimeOutStep DEF LockTimesOut, ring
  <2> QED BY <2>1 DEF Fifo!Next
<1>5. ASSUME NEW t \in Tasks, Retry(t)
      PROVE  Fifo!Next \/ UNCHANGED <<Content, Calls, seen>>
  <2>1. CASE timed[t] /\ Return(t, "TIMEOUT")
    <3>1. Fifo!TimeOut(t)
      BY <1>5, <2>1, TimeOutStep DEF Retry, ring
    <3> QED BY <3>1 DEF Fifo!Next
  <2>2. CASE Goto(t, "lock") /\ UNCHANGED res
    <3>1. /\ pc' = [pc EXCEPT ![t] = "lock"] /\ pc[t] = "retry" /\ TypeOK
          /\ UNCHANGED <<buffer, head, tail, count, op, timed, item, res, seen>>
      BY <1>5, <2>2 DEF Retry, Goto, ring, Inv
    <3>2. First' = First
      BY <3>1, RingFrame, ZenonT(60)
    <3>3. Calls' = [Calls EXCEPT ![t] = Shown(t)']
      BY <3>1, CallsFrame DEF TypeOK
    <3>4. Shown(t)' = Shown(t)
      BY <3>1 DEF Shown, Outcome, TypeOK
    <3> QED BY <3>1, <3>2, <3>3, <3>4, SameShown, ContentFrame
  <2> QED BY <1>5, <2>1, <2>2 DEF Retry
<1>6. ASSUME NEW t \in Tasks, Copy(t)
      PROVE  Fifo!Next \/ UNCHANGED <<Content, Calls, seen>>
  BY <1>6, CopyStep DEF Fifo!Next
<1>7. ASSUME NEW t \in Tasks, Count(t)
      PROVE  Fifo!Next
  BY <1>7, CountStep DEF Fifo!Next
<1>8. ASSUME NEW t \in Tasks, os_queue_get_count(t)
      PROVE  Fifo!Next
  <2>1. /\ pc[t] = "idle" /\ seen' = count
        /\ UNCHANGED <<buffer, head, tail, count, pc, op, timed, item, res>>
    BY <1>8 DEF os_queue_get_count, ring
  <2>2. Content' = Content /\ Calls' = Calls
    BY <2>1 DEF Content, Calls, Shown, Outcome, First, Between, Pred, Wrap
  <2>3. Len(Content) = count
    BY FirstFree, SegmentType DEF Inv, TypeOK
  <2>4. ~Fifo!Pending(t)
    BY <2>1, ShownPending
  <2>5. Fifo!GetCount(t)
    BY <2>1, <2>2, <2>3, <2>4 DEF Fifo!GetCount
  <2> QED BY <2>5 DEF Fifo!Next
<1> QED BY <1>1, <1>2, <1>3, <1>4, <1>5, <1>6, <1>7, <1>8 DEF Next

\* The ring buffer under its mutex is a bounded FIFO to any number of tasks: a
\* send or receive takes effect where it changes count, a peek where it copies,
\* and a call that times out has no effect.
THEOREM QueueIsFifo == Spec => ImplementsFifo
<1>1. Inv /\ [Next]_vars => Inv'
  BY TypeStep, RingStep DEF Inv
<1> QED BY <1>1, InitInv, InitRefines, NextRefines, PTL DEF Spec, ImplementsFifo, Fifo!Spec
=============================================================================
