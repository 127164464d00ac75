---------------------------- MODULE TimerProofs ----------------------------
(***************************************************************************)
(* The properties of module Timer, for every number of timers and every    *)
(* set of periods.                                                         *)
(***************************************************************************)
EXTENDS Timer, NaturalsInduction, WellFoundedInduction, SequenceTheorems, TLAPS

---------------------------------------------------------------------------
(* The software timers. *)

\* Least and greatest elements.
LEMMA LeastIn ==
  ASSUME NEW S \in SUBSET Nat, S # {} PROVE Min(S) \in S /\ \A q \in S : Min(S) <= q
<1>1. PICK p \in S : \A q \in S : ~(<<q, p>> \in OpToRel(<, Nat))
  BY NatLessThanWellFounded, WFMin
<1>2. ASSUME NEW q \in S PROVE p <= q
  <2>1. p \in Nat /\ q \in Nat /\ ~(q < p)
    BY <1>1, ZenonT(60) DEF OpToRel
  <2> QED BY <2>1
<1> QED BY <1>1, <1>2 DEF Min

LEMMA GreatestIn ==
  ASSUME NEW n \in Nat, NEW S \in SUBSET (1 .. n), S # {}
  PROVE  Max(S) \in S /\ \A q \in S : Max(S) >= q
<1> DEFINE T == {n - q : q \in S}
<1>1. T \in SUBSET Nat /\ T # {}
  <2>1. \A q \in S : n - q \in Nat
    OBVIOUS
  <2> QED BY <2>1, Zenon
<1>2. PICK p \in S : Min(T) = n - p
  BY <1>1, LeastIn, ZenonT(60)
<1>3. ASSUME NEW q \in S PROVE p >= q
  <2>1. n - q \in T
    OBVIOUS
  <2>2. n - p <= n - q
    BY <1>1, <1>2, <2>1, LeastIn
  <2> QED BY <2>2
<1> QED BY <1>3, ZenonT(60) DEF Max

\* The list q without its n-th element.
Cut(q, n) == SubSeq(q, 1, n - 1) \o SubSeq(q, n + 1, Len(q))

\* Link and Cut, element by element.
LEMMA LinkProperties ==
  ASSUME NEW S, NEW q \in Seq(S), NEW n \in 1 .. Len(q) + 1, NEW x \in S
  PROVE  /\ Link(q, n, x) \in Seq(S) /\ Len(Link(q, n, x)) = Len(q) + 1
         /\ \A i \in 1 .. Len(q) + 1 : Link(q, n, x)[i] =
               IF i < n THEN q[i] ELSE IF i = n THEN x ELSE q[i - 1]
<1> DEFINE a == SubSeq(q, 1, n - 1)
           b == SubSeq(q, n, Len(q))
<1>1. a \in Seq(S) /\ Len(a) = n - 1 /\ \A i \in 1 .. n - 1 : a[i] = q[i]
  BY SubSeqProperties
<1>2. b \in Seq(S) /\ Len(b) = Len(q) - n + 1 /\ \A i \in 1 .. Len(q) - n + 1 : b[i] = q[n + i - 1]
  BY SubSeqProperties
<1>3. <<x>> \in Seq(S) /\ Len(<<x>>) = 1 /\ <<x>>[1] = x
  OBVIOUS
<1> HIDE DEF a, b
<1> DEFINE c == a \o <<x>>
<1>4. /\ c \in Seq(S) /\ Len(c) = n
      /\ \A i \in 1 .. n : c[i] = IF i <= n - 1 THEN a[i] ELSE <<x>>[i - (n - 1)]
  BY <1>1, <1>3, ConcatProperties
<1>5. \A i \in 1 .. n : c[i] = IF i < n THEN q[i] ELSE x
  BY <1>1, <1>3, <1>4
<1> HIDE DEF c
<1>6. /\ c \o b \in Seq(S) /\ Len(c \o b) = Len(q) + 1
      /\ \A i \in 1 .. Len(q) + 1 : (c \o b)[i] = IF i <= n THEN c[i] ELSE b[i - n]
  <2>1. /\ c \o b \in Seq(S) /\ Len(c \o b) = Len(c) + Len(b)
        /\ \A i \in 1 .. Len(c) + Len(b) :
              (c \o b)[i] = IF i <= Len(c) THEN c[i] ELSE b[i - Len(c)]
    BY <1>2, <1>4, ConcatProperties, ZenonT(60)
  <2>2. Len(c) + Len(b) = Len(q) + 1
    BY <1>2, <1>4
  <2> QED BY <1>4, <2>1, <2>2
<1>7. ASSUME NEW i \in 1 .. Len(q) + 1
      PROVE  (c \o b)[i] = IF i < n THEN q[i] ELSE IF i = n THEN x ELSE q[i - 1]
  <2>1. CASE i <= n
    BY <1>5, <1>6, <2>1
  <2>2. CASE i > n
    <3>1. i - n \in 1 .. Len(q) - n + 1 /\ n + (i - n) - 1 = i - 1
      BY <2>2
    <3>2. b[i - n] = q[i - 1]
      BY <1>2, <3>1
    <3>3. ~(i <= n) /\ ~(i < n) /\ i # n
      BY <2>2
    <3>4. (c \o b)[i] = b[i - n]
      BY <1>6, <3>3, Zenon
    <3> QED BY <3>2, <3>3, <3>4, Zenon
  <2>3. i <= n \/ i > n
    OBVIOUS
  <2> QED BY <2>1, <2>2, <2>3, Zenon
<1>8. Link(q, n, x) = c \o b
  BY DEF Link, a, b, c
<1> QED BY <1>6, <1>7, <1>8

LEMMA CutProperties ==
  ASSUME NEW S, NEW q \in Seq(S), NEW n \in 1 .. Len(q)
  PROVE  /\ Cut(q, n) \in Seq(S) /\ Len(Cut(q, n)) = Len(q) - 1
         /\ \A i \in 1 .. Len(q) - 1 : Cut(q, n)[i] = IF i < n THEN q[i] ELSE q[i + 1]
<1> DEFINE a == SubSeq(q, 1, n - 1)
           b == SubSeq(q, n + 1, Len(q))
<1>1. a \in Seq(S) /\ Len(a) = n - 1 /\ \A i \in 1 .. n - 1 : a[i] = q[i]
  BY SubSeqProperties
<1>2. b \in Seq(S) /\ Len(b) = Len(q) - n /\ \A i \in 1 .. Len(q) - n : b[i] = q[n + i]
  BY SubSeqProperties
<1> HIDE DEF a, b
<1>3. /\ a \o b \in Seq(S) /\ Len(a \o b) = Len(q) - 1
      /\ \A i \in 1 .. Len(q) - 1 : (a \o b)[i] = IF i <= n - 1 THEN a[i] ELSE b[i - (n - 1)]
  BY <1>1, <1>2, ConcatProperties
<1>4. ASSUME NEW i \in 1 .. Len(q) - 1
      PROVE  (a \o b)[i] = IF i < n THEN q[i] ELSE q[i + 1]
  <2>1. CASE i < n
    BY <1>1, <1>3, <2>1
  <2>2. CASE i >= n
    <3>1. i - (n - 1) \in 1 .. Len(q) - n /\ n + (i - (n - 1)) = i + 1
      BY <2>2
    <3>2. b[i - (n - 1)] = q[i + 1]
      BY <1>2, <3>1
    <3>3. ~(i <= n - 1) /\ ~(i < n)
      BY <2>2
    <3>4. (a \o b)[i] = b[i - (n - 1)]
      BY <1>3, <3>3, Zenon
    <3> QED BY <3>2, <3>3, <3>4, Zenon
  <2>3. i < n \/ i >= n
    OBVIOUS
  <2> QED BY <2>1, <2>2, <2>3, Zenon
<1>5. Cut(q, n) = a \o b
  BY DEF Cut, a, b
<1> QED BY <1>3, <1>4, <1>5

\* The data of the timers, and a list without duplicates that holds the active timers in
\* the order of their expiry.
TimerData == [list : Seq(Timers), count : Int, timer : [Timers -> timer_t]]
In(q, t) == \E i \in 1 .. Len(q) : q[i] = t
Once(q) == \A i, j \in 1 .. Len(q) : q[i] = q[j] => i = j
Ordered(q, tm) == \A i, j \in 1 .. Len(q) : i < j => tm[q[i]].expire_time <= tm[q[j]].expire_time
Linked(m) ==
    /\ m \in TimerData /\ m.count = Len(m.list)
    /\ Once(m.list) /\ Ordered(m.list, m.timer)
    /\ \A t \in Timers : In(m.list, t) <=> m.timer[t].active = TRUE

LEMMA TimerFields ==
  ASSUME NEW x \in timer_t
  PROVE  /\ x.type \in {"ONE_SHOT", "AUTO_RELOAD"} /\ x.period \in Nat
         /\ x.expire_time \in Nat /\ x.active \in BOOLEAN
<1>1. /\ x.type \in {"ONE_SHOT", "AUTO_RELOAD"} /\ x.period \in Periods \cup {0}
      /\ x.expire_time \in Nat /\ x.active \in BOOLEAN
  BY DEF timer_t
<1>2. \A y \in Periods \cup {0} : y \in Nat
  BY TimerAssumption
<1> QED BY <1>1, <1>2, Zenon

LEMMA LinkedFacts ==
  ASSUME NEW m, Linked(m)
  PROVE  /\ m.list \in Seq(Timers) /\ Len(m.list) \in Nat /\ m.timer \in [Timers -> timer_t]
         /\ m.count = Len(m.list)
         /\ \A i \in 1 .. Len(m.list) :
               m.list[i] \in Timers /\ m.timer[m.list[i]].expire_time \in Nat
<1>1. m.list \in Seq(Timers) /\ m.timer \in [Timers -> timer_t] /\ m.count = Len(m.list)
  BY DEF Linked, TimerData
<1>2. ASSUME NEW i \in 1 .. Len(m.list)
      PROVE  m.list[i] \in Timers /\ m.timer[m.list[i]].expire_time \in Nat
  <2>1. m.list[i] \in Timers
    BY <1>1
  <2>2. m.timer[m.list[i]] \in timer_t
    BY <1>1, <2>1
  <2> QED BY <2>1, <2>2, TimerFields
<1> QED BY <1>1, <1>2

\* Unlinking one timer.
LEMMA UnlinkProperties ==
  ASSUME NEW q \in Seq(Timers), NEW t \in Timers, Once(q), In(q, t), NEW tm, Ordered(q, tm)
  PROVE  /\ Unlink(q, t) \in Seq(Timers) /\ Len(Unlink(q, t)) = Len(q) - 1
         /\ Once(Unlink(q, t)) /\ Ordered(Unlink(q, t), tm)
         /\ \A u : In(Unlink(q, t), u) <=> In(q, u) /\ u # t
<1>1. PICK n \in 1 .. Len(q) : q[n] = t
  BY DEF In
<1>2. {i \in DOMAIN q : q[i] = t} = {n} /\ Min({n}) = n
  <2>1. {i \in DOMAIN q : q[i] = t} = {n}
    BY <1>1 DEF Once
  <2>2. Min({n}) = n
    BY DEF Min
  <2> QED BY <2>1, <2>2
<1> DEFINE r == Unlink(q, t)
<1>3. Unlink(q, t) = Cut(q, n)
  BY <1>2, Zenon DEF Unlink, Cut
<1>4. /\ r \in Seq(Timers) /\ Len(r) = Len(q) - 1
      /\ \A i \in 1 .. Len(q) - 1 : r[i] = IF i < n THEN q[i] ELSE q[i + 1]
  BY <1>3, CutProperties, SMTT(30)
<1> HIDE DEF r
<1>5. Once(r)
  BY <1>1, <1>4 DEF Once
<1>6. Ordered(r, tm)
  <2> SUFFICES ASSUME NEW i \in 1 .. Len(r), NEW j \in 1 .. Len(r), i < j
               PROVE  tm[r[i]].expire_time <= tm[r[j]].expire_time
    BY DEF Ordered
  <2>1. PICK k \in 1 .. Len(q), l \in 1 .. Len(q) : k < l /\ r[i] = q[k] /\ r[j] = q[l]
    <3>1. CASE j < n
      <4>1. i \in 1 .. Len(q) /\ j \in 1 .. Len(q) /\ r[i] = q[i] /\ r[j] = q[j]
        BY <1>4, <3>1
      <4> QED BY <4>1
    <3>2. CASE i < n /\ j >= n
      <4>1. /\ i \in 1 .. Len(q) /\ j + 1 \in 1 .. Len(q) /\ i < j + 1 /\ ~(j < n)
            /\ i \in 1 .. Len(q) - 1 /\ j \in 1 .. Len(q) - 1
        BY <1>4, <3>2
      <4>2. r[i] = q[i] /\ r[j] = q[j + 1]
        BY <1>4, <3>2, <4>1, Zenon
      <4> QED BY <4>1, <4>2
    <3>3. CASE i >= n
      <4>1. /\ i + 1 \in 1 .. Len(q) /\ j + 1 \in 1 .. Len(q) /\ i + 1 < j + 1
            /\ r[i] = q[i + 1] /\ r[j] = q[j + 1]
        BY <1>4, <3>3
      <4> QED BY <4>1
    <3> QED BY <1>4, <3>1, <3>2, <3>3
  <2> QED BY <2>1 DEF Ordered
<1>7. ASSUME NEW u PROVE In(r, u) <=> In(q, u) /\ u # t
  <2>1. ASSUME In(r, u) PROVE In(q, u) /\ u # t
    BY <1>1, <1>4, <2>1, SMTT(30) DEF Once, In
  <2>2. ASSUME In(q, u), u # t PROVE In(r, u)
    <3>1. PICK i \in 1 .. Len(q) : q[i] = u
      BY <2>2 DEF In
    <3>2. CASE i < n
      BY <1>1, <1>4, <3>1, <3>2 DEF In
    <3>3. CASE i > n
      <4>1. i - 1 \in 1 .. Len(r) /\ r[i - 1] = u
        BY <1>4, <3>1, <3>3
      <4> QED BY <4>1 DEF In
    <3> QED BY <1>1, <2>2, <3>1, <3>2, <3>3
  <2> QED BY <2>1, <2>2
<1> QED BY <1>4, <1>5, <1>6, <1>7 DEF r

\* os_timer_stop.
LEMMA StopOK ==
  ASSUME NEW m, Linked(m), NEW t \in Timers
  PROVE  LET r == os_timer_stop(m, t)
         IN  /\ Linked(r)
             /\ r.timer = [m.timer EXCEPT ![t].active = FALSE]
             /\ r.timer[t].active = FALSE
<1>1. m.list \in Seq(Timers) /\ m.timer \in [Timers -> timer_t] /\ m.count = Len(m.list)
  BY LinkedFacts
<1>2. m.timer[t] \in timer_t /\ m.timer[t].active \in BOOLEAN
  BY <1>1, TimerFields
<1>3. CASE ~m.timer[t].active
  <2>1. os_timer_stop(m, t) = m /\ m.timer[t].active = FALSE
    BY <1>2, <1>3 DEF os_timer_stop
  <2>2. [m.timer[t] EXCEPT !.active = FALSE] = m.timer[t]
    BY <1>2, <2>1, ZenonT(60) DEF timer_t
  <2>3. m.timer = [m.timer EXCEPT ![t].active = FALSE]
    BY <1>1, <2>2, ZenonT(60)
  <2> QED BY <2>1, <2>3
<1>4. CASE m.timer[t].active
  <2> DEFINE q == Unlink(m.list, t)
             x == [m.timer[t] EXCEPT !.active = FALSE]
             tm == [m.timer EXCEPT ![t] = x]
             r == [list |-> q, count |-> m.count - 1, timer |-> tm]
  <2>1. os_timer_stop(m, t) = r
    BY <1>4 DEF os_timer_stop
  <2>2. x \in timer_t /\ x.active = FALSE /\ x.expire_time = m.timer[t].expire_time
    BY <1>2, ZenonT(60) DEF timer_t
  <2> HIDE DEF x
  <2>3. /\ tm \in [Timers -> timer_t] /\ tm[t] = x
        /\ \A u \in Timers : u # t => tm[u] = m.timer[u]
    BY <1>1, <2>2
  <2>4. In(m.list, t)
    BY <1>2, <1>4 DEF Linked
  <2>5. /\ q \in Seq(Timers) /\ Len(q) = Len(m.list) - 1
        /\ Once(q) /\ Ordered(q, m.timer)
        /\ \A u : In(q, u) <=> In(m.list, u) /\ u # t
    BY <1>1, <2>4, UnlinkProperties DEF Linked
  <2> HIDE DEF q, tm
  <2>6. r \in TimerData /\ r.count = Len(r.list)
    BY <1>1, <2>3, <2>5 DEF TimerData
  <2>7. Ordered(q, tm)
    <3>1. \A u \in Timers : tm[u].expire_time = m.timer[u].expire_time
      BY <2>2, <2>3
    <3>2. \A i \in 1 .. Len(q) : q[i] \in Timers
      BY <2>5
    <3> QED BY <2>5, <3>1, <3>2, ZenonT(60) DEF Ordered
  <2>8. \A u \in Timers : In(q, u) <=> tm[u].active = TRUE
    BY <2>2, <2>3, <2>5 DEF Linked
  <2>9. Linked(r)
    BY <2>5, <2>6, <2>7, <2>8 DEF Linked
  <2> QED BY <2>1, <2>2, <2>3, <2>9 DEF tm, x
<1> QED BY <1>3, <1>4, ZenonT(60)

\* Where timer_insert_sorted puts a timer that expires at e.
Place(q, tm, e) ==
    IF q = <<>> \/ e < tm[q[1]].expire_time THEN 0
    ELSE Max({j \in 1 .. Len(q) : \A i \in 2 .. j : tm[q[i]].expire_time <= e})

LEMMA PlaceOK ==
  ASSUME NEW q \in Seq(Timers), NEW tm \in [Timers -> timer_t], NEW e \in Nat, Ordered(q, tm)
  PROVE  /\ Place(q, tm, e) \in 0 .. Len(q)
         /\ \A i \in 1 .. Len(q) :
               IF i <= Place(q, tm, e) THEN tm[q[i]].expire_time <= e
               ELSE tm[q[i]].expire_time > e
<1> DEFINE X(i) == tm[q[i]].expire_time
           J == {j \in 1 .. Len(q) : \A i \in 2 .. j : X(i) <= e}
           p == Place(q, tm, e)
<1>0. Len(q) \in Nat
  OBVIOUS
<1>1. \A i \in 1 .. Len(q) : X(i) \in Nat
  <2> SUFFICES ASSUME NEW i \in 1 .. Len(q) PROVE X(i) \in Nat
    OBVIOUS
  <2>1. tm[q[i]] \in timer_t
    OBVIOUS
  <2> QED BY <2>1, TimerFields
<1>2. \A i, j \in 1 .. Len(q) : i < j => X(i) <= X(j)
  BY DEF Ordered
<1>3. CASE q = <<>>
  BY <1>3 DEF Place
<1>4. CASE q # <<>> /\ e < X(1)
  <2>1. p = 0 /\ 1 \in 1 .. Len(q)
    BY <1>4 DEF Place
  <2>2. \A i \in 1 .. Len(q) : X(i) > e
    BY <1>1, <1>2, <1>4, <2>1
  <2> HIDE DEF X, p
  <2>3. p \in 0 .. Len(q) /\ \A i \in 1 .. Len(q) : IF i <= p THEN X(i) <= e ELSE X(i) > e
    BY <1>0, <2>1, <2>2
  <2> QED BY <2>3 DEF X, p
<1>5. CASE q # <<>> /\ ~(e < X(1))
  <2>1. 1 \in 1 .. Len(q) /\ X(1) <= e
    BY <1>1, <1>5
  <2>2. J \in SUBSET (1 .. Len(q)) /\ 1 \in J
    BY <2>1
  <2>3. p = Max(J)
    BY <1>5 DEF Place
  <2>4. p \in J /\ \A j \in J : p >= j
    BY <1>0, <2>2, <2>3, GreatestIn, Zenon
  <2> HIDE DEF X, p
  <2>5. p \in 1 .. Len(q) /\ \A i \in 1 .. p : X(i) <= e
    BY <1>0, <2>1, <2>4
  <2>6. ASSUME NEW i \in 1 .. Len(q), i > p PROVE X(i) > e
    <3>1. p + 1 \in 1 .. Len(q) /\ p + 1 \notin J
      BY <1>0, <2>4, <2>5, <2>6
    <3>2. X(p + 1) > e
      BY <1>1, <2>5, <3>1
    <3>3. i = p + 1 \/ X(p + 1) <= X(i)
      BY <1>2, <2>5, <2>6, <3>1
    <3> QED BY <1>1, <2>6, <3>1, <3>2, <3>3
  <2>7. p \in 0 .. Len(q) /\ \A i \in 1 .. Len(q) : IF i <= p THEN X(i) <= e ELSE X(i) > e
    BY <1>0, <2>5, <2>6
  <2> QED BY <2>7 DEF X, p
<1> QED BY <1>3, <1>4, <1>5

\* The fields os_timer_start sets before it links the timer.
Rearmed(tm, t, e) == [tm EXCEPT ![t].expire_time = e, ![t].active = TRUE]
Armed(m, t, e) == [m EXCEPT !.timer[t].expire_time = e, !.timer[t].active = TRUE]

\* What linking timer t makes of the state m: the list o, t in it, and the head stays where
\* it is unless t expires before it.
InsertEffect(m, t, e, o) ==
    /\ Linked(o)
    /\ o.timer = Rearmed(m.timer, t, e)
    /\ o.list # <<>> /\ Head(o.list) = o.list[1]
    /\ m.list # <<>> /\ m.timer[m.list[1]].expire_time <= e => o.list[1] = m.list[1]

\* timer_insert_sorted links timer t, which is not linked, so that the list stays ordered.
\* It goes to the head only if it expires before the head.
LEMMA InsertOK ==
  ASSUME NEW m, Linked(m), NEW t \in Timers, m.timer[t].active = FALSE, NEW e \in Nat,
         NEW o, o = timer_insert_sorted(Armed(m, t, e), t)
  PROVE  InsertEffect(m, t, e, o)
<1> DEFINE q == m.list
           x == [m.timer[t] EXCEPT !.expire_time = e, !.active = TRUE]
           tm == [m.timer EXCEPT ![t] = x]
           p == Place(q, tm, e)
           l == Link(q, p + 1, t)
           c == m.count + 1
           n == Armed(m, t, e)
           r == [n EXCEPT !.list = l, !.count = c]
<1>1. /\ q \in Seq(Timers) /\ Len(q) \in Nat /\ m.timer \in [Timers -> timer_t]
      /\ m.count = Len(q) /\ m \in TimerData /\ m.timer[t] \in timer_t
  BY LinkedFacts, ZenonT(60) DEF Linked
<1>2. x \in timer_t /\ x.active = TRUE /\ x.expire_time = e
  BY <1>1, Zenon DEF timer_t
<1>3. tm = Rearmed(m.timer, t, e)
  BY <1>1, ZenonT(60) DEF Rearmed
<1>4. n = [m EXCEPT !.timer = tm]
  BY <1>1, ZenonT(60) DEF TimerData, Armed
<1> HIDE DEF x, n
<1>5. /\ tm \in [Timers -> timer_t] /\ tm[t] = x
      /\ \A u \in Timers : u # t => tm[u] = m.timer[u]
  BY <1>1, <1>2
<1> HIDE DEF tm
<1>6. n \in TimerData /\ n.list = q /\ n.count = m.count /\ n.timer = tm
  BY <1>1, <1>4, <1>5 DEF TimerData
<1>7. timer_insert_sorted(n, t) = r
  BY <1>2, <1>5, <1>6, ZenonT(60) DEF timer_insert_sorted, Place
<1>8. ~In(q, t) /\ \A i \in 1 .. Len(q) : q[i] \in Timers /\ q[i] # t /\ tm[q[i]] = m.timer[q[i]]
  <2>1. ~In(q, t)
    BY DEF Linked
  <2>2. ASSUME NEW i \in 1 .. Len(q) PROVE q[i] \in Timers /\ q[i] # t
    BY <1>1, <2>1 DEF In
  <2> QED BY <1>5, <2>1, <2>2
<1>9. Ordered(q, tm)
  BY <1>8, SMTT(30) DEF Linked, Ordered
<1>10. /\ p \in 0 .. Len(q)
      /\ \A i \in 1 .. Len(q) : IF i <= p THEN tm[q[i]].expire_time <= e
                                ELSE tm[q[i]].expire_time > e
  BY <1>1, <1>5, <1>9, PlaceOK, Zenon
<1> HIDE DEF p
<1>11. /\ l \in Seq(Timers) /\ Len(l) = Len(q) + 1
       /\ \A i \in 1 .. Len(q) + 1 : l[i] =
             IF i < p + 1 THEN q[i] ELSE IF i = p + 1 THEN t ELSE q[i - 1]
  <2>1. p + 1 \in 1 .. Len(q) + 1
    BY <1>1, <1>10
  <2> DEFINE k == p + 1
  <2>2. k \in 1 .. Len(q) + 1 /\ q \in Seq(Timers)
    BY <1>1, <2>1
  <2> HIDE DEF k, q
  <2>3. /\ Link(q, k, t) \in Seq(Timers) /\ Len(Link(q, k, t)) = Len(q) + 1
        /\ \A i \in 1 .. Len(q) + 1 : Link(q, k, t)[i] =
              IF i < k THEN q[i] ELSE IF i = k THEN t ELSE q[i - 1]
    BY <2>2, LinkProperties
  <2> QED BY <2>3, Zenon DEF k
<1> HIDE DEF q, l
<1>12. c \in Int
  BY <1>1
<1>13. r.list = l /\ r.count = c /\ r.timer = tm
  BY <1>6 DEF TimerData
<1>14. r \in TimerData /\ r.count = Len(r.list)
  <2>1. c = Len(l)
    BY <1>1, <1>11
  <2> HIDE DEF c
  <2>2. r \in TimerData
    BY <1>6, <1>12, <1>11, Zenon DEF TimerData
  <2> QED BY <1>13, <2>1, <2>2
<1>15. \A i \in 1 .. Len(q) : tm[q[i]].expire_time \in Nat
  <2> SUFFICES ASSUME NEW i \in 1 .. Len(q) PROVE tm[q[i]].expire_time \in Nat
    OBVIOUS
  <2>1. tm[q[i]] \in timer_t
    BY <1>5, <1>8
  <2> QED BY <2>1, TimerFields
<1>16. Once(l)
  <2>1. Once(q)
    BY DEF Linked, q
  <2> SUFFICES ASSUME NEW i \in 1 .. Len(l), NEW j \in 1 .. Len(l), l[i] = l[j], i < j
               PROVE  FALSE
    BY <1>1, <1>11 DEF Once
  <2>2. CASE i = p + 1
    <3>1. l[i] = t /\ l[j] = q[j - 1] /\ j - 1 \in 1 .. Len(q)
      BY <1>1, <1>10, <1>11, <2>2
    <3> QED BY <1>8, <3>1, ZenonT(60)
  <2>3. CASE j = p + 1
    <3>1. l[j] = t /\ l[i] = q[i] /\ i \in 1 .. Len(q)
      BY <1>1, <1>10, <1>11, <2>3
    <3> QED BY <1>8, <3>1
  <2>4. CASE j < p + 1
    <3>1. l[i] = q[i] /\ l[j] = q[j] /\ i \in 1 .. Len(q) /\ j \in 1 .. Len(q) /\ i # j
      BY <1>1, <1>10, <1>11, <2>4
    <3> QED BY <2>1, <3>1, ZenonT(60) DEF Once
  <2>5. CASE i < p + 1 /\ j > p + 1
    <3>1. /\ l[i] = q[i] /\ l[j] = q[j - 1] /\ i \in 1 .. Len(q) /\ j - 1 \in 1 .. Len(q)
          /\ i # j - 1
      BY <1>1, <1>10, <1>11, <2>5
    <3> QED BY <2>1, <3>1, ZenonT(60) DEF Once
  <2>6. CASE i > p + 1
    <3>1. /\ l[i] = q[i - 1] /\ l[j] = q[j - 1] /\ i - 1 \in 1 .. Len(q)
          /\ j - 1 \in 1 .. Len(q) /\ i - 1 # j - 1
      BY <1>1, <1>10, <1>11, <2>6
    <3> QED BY <2>1, <3>1, ZenonT(60) DEF Once
  <2> QED BY <1>1, <1>10, <1>11, <2>2, <2>3, <2>4, <2>5, <2>6
<1>17. Ordered(l, tm)
  <2> SUFFICES ASSUME NEW i \in 1 .. Len(l), NEW j \in 1 .. Len(l), i < j
               PROVE  tm[l[i]].expire_time <= tm[l[j]].expire_time
    BY DEF Ordered
  <2>1. CASE j < p + 1
    <3>1. l[i] = q[i] /\ l[j] = q[j] /\ i \in 1 .. Len(q) /\ j \in 1 .. Len(q)
      BY <1>1, <1>10, <1>11, <2>1
    <3> QED BY <1>9, <3>1 DEF Ordered
  <2>2. CASE j = p + 1
    <3>1. l[i] = q[i] /\ l[j] = t /\ i \in 1 .. Len(q) /\ i <= p
      BY <1>1, <1>10, <1>11, <2>2
    <3> QED BY <1>2, <1>5, <1>10, <3>1
  <2>3. CASE i < p + 1 /\ j > p + 1
    <3>1. /\ l[i] = q[i] /\ l[j] = q[j - 1] /\ i \in 1 .. Len(q) /\ j - 1 \in 1 .. Len(q)
          /\ i < j - 1
      BY <1>1, <1>10, <1>11, <2>3
    <3> QED BY <1>9, <3>1 DEF Ordered
  <2>4. CASE i = p + 1
    <3>1. l[i] = t /\ l[j] = q[j - 1] /\ j - 1 \in 1 .. Len(q) /\ ~(j - 1 <= p)
      BY <1>1, <1>10, <1>11, <2>4
    <3>2. tm[q[j - 1]].expire_time > e
      BY <1>10, <3>1
    <3> QED BY <1>2, <1>5, <1>15, <3>1, <3>2
  <2>5. CASE i > p + 1
    <3>1. /\ l[i] = q[i - 1] /\ l[j] = q[j - 1] /\ i - 1 \in 1 .. Len(q)
          /\ j - 1 \in 1 .. Len(q) /\ i - 1 < j - 1
      BY <1>1, <1>10, <1>11, <2>5
    <3> QED BY <1>9, <3>1 DEF Ordered
  <2> QED BY <1>1, <1>10, <1>11, <2>1, <2>2, <2>3, <2>4, <2>5
<1>18. ASSUME NEW u \in Timers PROVE In(l, u) <=> In(q, u) \/ u = t
  <2>1. ASSUME In(l, u), u # t PROVE In(q, u)
    <3>1. PICK i \in 1 .. Len(l) : l[i] = u
      BY <2>1 DEF In
    <3>2. CASE i < p + 1
      <4>1. i \in 1 .. Len(q) /\ q[i] = u
        BY <1>1, <1>10, <1>11, <3>1, <3>2
      <4> QED BY <4>1 DEF In
    <3>3. CASE i > p + 1
      <4>1. i - 1 \in 1 .. Len(q) /\ q[i - 1] = u
        BY <1>1, <1>10, <1>11, <3>1, <3>3
      <4> QED BY <4>1 DEF In
    <3>4. i # p + 1
      BY <1>1, <1>10, <1>11, <2>1, <3>1
    <3> QED BY <1>10, <1>11, <3>2, <3>3, <3>4
  <2>2. ASSUME In(q, u) PROVE In(l, u)
    <3>1. PICK i \in 1 .. Len(q) : q[i] = u
      BY <2>2 DEF In
    <3>2. CASE i <= p
      <4>1. i \in 1 .. Len(l) /\ l[i] = u
        BY <1>1, <1>10, <1>11, <3>1, <3>2
      <4> QED BY <4>1 DEF In
    <3>3. CASE i > p
      <4>1. i + 1 \in 1 .. Len(l) /\ l[i + 1] = q[(i + 1) - 1] /\ (i + 1) - 1 = i
        BY <1>1, <1>10, <1>11, <3>1, <3>3
      <4> QED BY <3>1, <4>1 DEF In
    <3> QED BY <1>10, <3>2, <3>3
  <2>3. In(l, t)
    <3>1. p + 1 \in 1 .. Len(l) /\ l[p + 1] = t
      BY <1>1, <1>10, <1>11
    <3> QED BY <3>1 DEF In
  <2> QED BY <2>1, <2>2, <2>3
<1>19. \A u \in Timers : In(l, u) <=> tm[u].active = TRUE
  BY <1>2, <1>5, <1>18 DEF Linked, q
<1>20. Linked(r)
  BY <1>13, <1>14, <1>16, <1>17, <1>19 DEF Linked
<1>21. l # <<>> /\ Head(l) = l[1]
  BY <1>1, <1>11
<1>22. ASSUME q # <<>>, m.timer[q[1]].expire_time <= e PROVE l[1] = q[1]
  <2>1. 1 \in 1 .. Len(q)
    BY <1>1, <1>22
  <2>2. tm[q[1]].expire_time <= e /\ tm[q[1]].expire_time \in Nat
    BY <1>8, <1>15, <1>22, <2>1
  <2>3. 1 <= p
    BY <1>10, <2>1, <2>2
  <2> QED BY <1>1, <1>10, <1>11, <2>3
<1>23. o = r
  BY <1>7 DEF n
<1> HIDE DEF r
<1> QED BY <1>3, <1>13, <1>20, <1>21, <1>22, <1>23 DEF q, InsertEffect

\* os_timer_start at a tick: the timer is linked anew and expires period ticks later.
LEMMA StartOK ==
  ASSUME NEW m, Linked(m), NEW t \in Timers, tick_count \in Nat,
         NEW e, e = tick_count + m.timer[t].period,
         NEW o, o = os_timer_start(m, t)
  PROVE  /\ Linked(o) /\ e \in Nat /\ o.timer = Rearmed(m.timer, t, e)
         /\ m.timer[t].active = FALSE => InsertEffect(m, t, e, o)
<1> DEFINE s == os_timer_stop(m, t)
<1>1. m.timer \in [Timers -> timer_t] /\ m.timer[t] \in timer_t /\ e \in Nat
  <2>1. m.timer \in [Timers -> timer_t]
    BY LinkedFacts
  <2>2. m.timer[t] \in timer_t
    BY <2>1
  <2> QED BY <2>1, <2>2, TimerFields
<1>2. /\ Linked(s) /\ s.timer = [m.timer EXCEPT ![t].active = FALSE]
      /\ s.timer[t].active = FALSE
  BY StopOK, ZenonT(60)
<1>3. o = timer_insert_sorted(Armed(s, t, e), t)
  BY DEF os_timer_start, Armed
<1>4. m.timer[t].active = FALSE => s = m
  BY DEF os_timer_stop
<1> HIDE DEF s
<1>5. InsertEffect(s, t, e, o)
  <2>1. Linked(s) /\ s.timer[t].active = FALSE /\ e \in Nat
    BY <1>1, <1>2
  <2> QED BY <1>3, <2>1, InsertOK, Zenon
<1>6. Linked(o) /\ o.timer = Rearmed(m.timer, t, e)
  BY <1>1, <1>2, <1>5, SMTT(30) DEF timer_t, Rearmed, InsertEffect
<1> QED BY <1>1, <1>4, <1>5, <1>6

LEMMA StoppedFacts ==
  ASSUME NEW tm \in [Timers -> timer_t], NEW t \in Timers,
         NEW r, r = [tm EXCEPT ![t].active = FALSE]
  PROVE  /\ r[t].active = FALSE /\ r[t].expire_time = tm[t].expire_time
         /\ r[t].period = tm[t].period
         /\ \A u \in Timers : u # t => r[u] = tm[u]
BY DEF timer_t

---------------------------------------------------------------------------
Task == [op : {"none", "start", "set", "set_start", "stop_set", "stop_set_start"},
         t : Timers \cup {NoTimer}, arg : Periods \cup {0}]

First(q) == IF q = <<>> THEN NoTimer ELSE q[1]

\* The task in the middle of a call: a timer it has found inactive, or has stopped, is
\* started by nobody else.
TaskInv ==
    /\ task \in Task
    /\ task.op # "none" => task.t \in Timers
    /\ task.op \in {"set", "set_start"} =>
          timer[task.t].active = FALSE /\ ~(isr.pc = "callback" /\ isr.timer = task.t)
    /\ task.op \in {"set_start", "stop_set_start"} => task.arg # 0
    /\ task.op = "start" => timer[task.t].period # 0

\* No timer that is due is behind the loop variable of os_timer_process.
NothingDue ==
    /\ isr.timer \in Timers \cup {NoTimer}
    /\ isr.timer # NoTimer => timer[isr.timer].expire_time > tick_count
    /\ \A t \in Timers : timer[t].active = TRUE => timer[t].expire_time > tick_count

\* os_timer_process is at the head of the list, or at its end.
IsrInv ==
    /\ isr.pc \in {"out", "loop", "callback"}
    /\ isr.pc = "loop" => isr.timer = First(timer_manager.list) \/ NothingDue
    /\ isr.pc = "callback" =>
          /\ isr.timer \in Timers /\ timer[isr.timer].active = FALSE
          /\ timer[isr.timer].period # 0
          /\ isr.next = First(timer_manager.list)

TimerInv ==
    /\ Linked(State) /\ tick_count \in Nat
    /\ \A t \in Timers : timer[t].active = TRUE => timer[t].period # 0
    /\ TaskInv /\ IsrInv

LEMMA BecomesLinked ==
  ASSUME NEW m, Linked(m), Becomes(m)
  PROVE  Linked(State)' /\ timer' = m.timer /\ timer_manager'.list = m.list
<1>1. m \in TimerData
  BY DEF Linked
<1>2. [list |-> m.list, count |-> m.count, timer |-> m.timer] = m
  BY <1>1 DEF TimerData
<1>3. State' = [list |-> m.list, count |-> m.count, timer |-> m.timer]
  BY DEF Becomes, State
<1> QED BY <1>2, <1>3 DEF Becomes

LEMMA TimerFacts ==
  ASSUME TimerInv
  PROVE  /\ timer \in [Timers -> timer_t] /\ timer_manager.list \in Seq(Timers)
         /\ timer_manager.count = Len(timer_manager.list)
         /\ State.timer = timer /\ State.list = timer_manager.list
         /\ \A t \in Timers : timer[t] \in timer_t /\ timer[t].period \in Periods \cup {0}
<1>1. State.timer = timer /\ State.list = timer_manager.list /\ State.count = timer_manager.count
  BY DEF State
<1>2. /\ timer \in [Timers -> timer_t] /\ timer_manager.list \in Seq(Timers)
      /\ timer_manager.count = Len(timer_manager.list)
  BY <1>1, LinkedFacts DEF TimerInv
<1> QED BY <1>1, <1>2 DEF timer_t

\* Between two ticks the interrupt has no place to be invalidated.
LEMMA OutIsr ==
  ASSUME Free, UNCHANGED isr
  PROVE  IsrInv'
BY DEF Free, IsrInv

\* A start or a stop by a task, and what is left of the call after it.
LEMMA StartStep ==
  ASSUME TimerInv, Free, NEW t \in Timers, timer[t].period # 0,
         Becomes(os_timer_start(State, t)), UNCHANGED <<tick_count, isr>>, task' = Done
  PROVE  TimerInv'
<1> DEFINE st == State
           o  == os_timer_start(st, t)
           e  == tick_count + st.timer[t].period
<1>1. /\ timer \in [Timers -> timer_t] /\ st.timer = timer /\ Linked(st)
      /\ tick_count \in Nat /\ Becomes(o)
  BY TimerFacts, ZenonT(60) DEF TimerInv
<1> HIDE DEF st
<1>2. Linked(o) /\ e \in Nat /\ o.timer = Rearmed(st.timer, t, e)
  <2> HIDE DEF o, e
  <2> QED BY <1>1, StartOK, Zenon DEF o, e
<1> HIDE DEF o, e
<1>3. Linked(State)' /\ timer' = Rearmed(timer, t, e)
  BY <1>1, <1>2, BecomesLinked
<1>4. /\ timer'[t].period = timer[t].period
      /\ \A u \in Timers : u # t => timer'[u] = timer[u]
  <2>1. timer \in [Timers -> timer_t] /\ e \in Nat /\ timer' = Rearmed(timer, t, e)
    BY <1>1, <1>2, <1>3
  <2> QED BY <2>1 DEF Rearmed, timer_t
<1>5. \A u \in Timers : timer'[u].active = TRUE => timer'[u].period # 0
  BY <1>4 DEF TimerInv
<1>6. TaskInv'
  BY DEF TaskInv, Done, Task
<1> QED BY <1>1, <1>3, <1>5, <1>6, OutIsr DEF TimerInv

LEMMA StopStep ==
  ASSUME TimerInv, Free, NEW t \in Timers,
         Becomes(os_timer_stop(State, t)), UNCHANGED <<tick_count, isr>>,
         task' \in Task,
         \/ task'.op = "none"
         \/ /\ task'.t = t
            /\ task'.op = "start" => timer[t].period # 0
            /\ task'.op \in {"set_start", "stop_set_start"} => task'.arg # 0
  PROVE  TimerInv'
<1> DEFINE st == State
           o  == os_timer_stop(st, t)
<1>1. /\ timer \in [Timers -> timer_t] /\ st.timer = timer /\ Linked(st)
      /\ tick_count \in Nat /\ Becomes(o)
  BY TimerFacts, ZenonT(60) DEF TimerInv
<1> HIDE DEF st
<1>2. Linked(o) /\ o.timer = [st.timer EXCEPT ![t].active = FALSE]
  BY <1>1, StopOK, ZenonT(60)
<1> HIDE DEF o
<1>3. Linked(State)' /\ timer' = [timer EXCEPT ![t].active = FALSE]
  BY <1>1, <1>2, BecomesLinked, ZenonT(60)
<1>4. /\ timer'[t].period = timer[t].period /\ timer'[t].active = FALSE
      /\ \A u \in Timers : u # t => timer'[u] = timer[u]
  BY <1>1, <1>3, StoppedFacts
<1>5. \A u \in Timers : timer'[u].active = TRUE => timer'[u].period # 0
  BY <1>4 DEF TimerInv
<1>6. TaskInv'
  BY <1>4 DEF TaskInv, Task, Free
<1> QED BY <1>1, <1>3, <1>5, <1>6, OutIsr DEF TimerInv

\* Writing to a timer that is not active leaves the list as it is.
LEMMA InactiveWrite ==
  ASSUME TimerInv, NEW t \in Timers, timer[t].active = FALSE,
         NEW x \in timer_t, x.active = FALSE,
         timer' = [timer EXCEPT ![t] = x], UNCHANGED timer_manager
  PROVE  /\ Linked(State)' /\ timer'[t] = x
         /\ \A u \in Timers : u # t => timer'[u] = timer[u]
         /\ \A u \in Timers : timer'[u].active = TRUE => timer'[u].period # 0
<1> DEFINE q == timer_manager.list
           c == timer_manager.count
<1>1. /\ timer \in [Timers -> timer_t] /\ q \in Seq(Timers) /\ c = Len(q)
  BY TimerFacts
<1>2. /\ Once(q) /\ Ordered(q, timer) /\ State \in TimerData
      /\ \A u \in Timers : In(q, u) <=> timer[u].active = TRUE
  BY DEF TimerInv, Linked, State
<1>3. /\ timer' \in [Timers -> timer_t] /\ timer'[t] = x
      /\ \A u \in Timers : u # t => timer'[u] = timer[u]
  BY <1>1
<1>4. \A u \in Timers : In(q, u) <=> timer'[u].active = TRUE
  BY <1>2, <1>3
<1>5. \A i \in 1 .. Len(q) : q[i] \in Timers /\ q[i] # t
  BY <1>1, <1>2 DEF In
<1>6. Ordered(q, timer')
  BY <1>2, <1>3, <1>5 DEF Ordered
<1>7. State' = [list |-> q, count |-> c, timer |-> timer']
  BY DEF State
<1>8. State' \in TimerData
  BY <1>1, <1>3, <1>7 DEF TimerData
<1>9. Linked(State)'
  BY <1>1, <1>2, <1>4, <1>6, <1>7, <1>8 DEF Linked
<1> QED BY <1>3, <1>9 DEF TimerInv

LEMMA CreateStep ==
  ASSUME TimerInv, NEW t \in Timers, NEW p \in Periods, NEW y \in {"ONE_SHOT", "AUTO_RELOAD"},
         os_timer_create(t, y, p)
  PROVE  TimerInv'
<1> DEFINE x == [Cleared EXCEPT !.type = y, !.period = p]
<1>1. x \in timer_t /\ x.active = FALSE
  BY ZenonT(60) DEF Cleared, timer_t
<1>2. timer[t].active = FALSE /\ timer' = [timer EXCEPT ![t] = x]
  BY DEF os_timer_create, Cleared
<1> HIDE DEF x
<1>3. /\ Linked(State)'
      /\ \A u \in Timers : timer'[u].active = TRUE => timer'[u].period # 0
  BY <1>1, <1>2, InactiveWrite, Zenon DEF os_timer_create
<1>4. TaskInv'
  BY DEF os_timer_create, TaskInv, Done, Task
<1> QED BY <1>3, <1>4, OutIsr DEF TimerInv, os_timer_create

LEMMA LookedSetStep ==
  ASSUME TimerInv, LookedSet
  PROVE  TimerInv'
<1> DEFINE t == task.t
           x == IF task.arg = 0 THEN Cleared ELSE [timer[t] EXCEPT !.period = task.arg]
<1>1. /\ t \in Timers /\ timer[t].active = FALSE /\ task \in Task
      /\ task.arg \in Periods \cup {0} /\ task.op \in {"set", "set_start"}
      /\ task.op = "set_start" => task.arg # 0
  BY DEF TimerInv, TaskInv, LookedSet, Task
<1>2. timer \in [Timers -> timer_t] /\ timer[t] \in timer_t
  BY <1>1, TimerFacts
<1>3. x \in timer_t /\ x.active = FALSE /\ (task.arg # 0 => x.period = task.arg)
  BY <1>1, <1>2 DEF timer_t, Cleared
<1>4. timer' = [timer EXCEPT ![t] = x]
  BY <1>1, <1>2 DEF LookedSet
<1> HIDE DEF x
<1>5. /\ Linked(State)' /\ timer'[t] = x
      /\ \A u \in Timers : timer'[u].active = TRUE => timer'[u].period # 0
  <2> HIDE DEF t
  <2> QED BY <1>1, <1>3, <1>4, InactiveWrite, Zenon DEF LookedSet
<1>6. TaskInv'
  <2>1. CASE task.op = "set"
    BY <2>1 DEF LookedSet, TaskInv, Done, Task
  <2>2. CASE task.op = "set_start"
    <3>1. task' = [task EXCEPT !.op = "start"]
      BY <2>2 DEF LookedSet
    <3>2. task' \in Task /\ task'.op = "start" /\ task'.t = t
      BY <1>1, <3>1 DEF Task
    <3> QED BY <1>1, <1>3, <1>5, <2>2, <3>2 DEF TaskInv
  <2> QED BY <1>1, <2>1, <2>2
<1> QED BY <1>5, <1>6, OutIsr DEF TimerInv, LookedSet

\* os_timer_delete and os_timer_change_period look at active.
LEMMA LookStep ==
  ASSUME TimerInv, NEW t \in Timers, NEW op \in {"stop_set", "stop_set_start"},
         NEW arg \in Periods \cup {0}, op = "stop_set_start" => arg # 0, Look(op, t, arg)
  PROVE  TimerInv'
<1>1. timer[t] \in timer_t /\ timer[t].active \in BOOLEAN
  BY TimerFacts, TimerFields
<1>2. task' \in Task /\ task'.t = t /\ task'.arg = arg
      /\ task'.op = IF timer[t].active = TRUE THEN op ELSE "set"
  BY <1>1 DEF Look, Task
<1>3. TaskInv'
  BY <1>1, <1>2 DEF TaskInv, Look, Free
<1>4. Linked(State)'
  BY DEF TimerInv, Look, State
<1> QED BY <1>3, <1>4, OutIsr DEF TimerInv, Look

LEMMA TaskSteps ==
  ASSUME TimerInv,
         \/ \E t \in Timers : Start(t) \/ Stop(t) \/ os_timer_reset(t) \/ os_timer_delete(t)
         \/ \E t \in Timers, p \in Periods : os_timer_change_period(t, p)
         \/ LookedStop \/ FinalStart
  PROVE  TimerInv'
<1>1. ASSUME NEW t \in Timers, Start(t) PROVE TimerInv'
  BY <1>1, StartStep DEF Start
<1>2. ASSUME NEW t \in Timers, Stop(t) PROVE TimerInv'
  BY <1>2, StopStep DEF Stop, Done, Task
<1>3. ASSUME NEW t \in Timers, os_timer_reset(t) PROVE TimerInv'
  BY <1>3, StopStep DEF os_timer_reset, Task
<1>4. ASSUME NEW t \in Timers, os_timer_delete(t) PROVE TimerInv'
  BY <1>4, LookStep DEF os_timer_delete
<1>5. ASSUME NEW t \in Timers, NEW p \in Periods, os_timer_change_period(t, p) PROVE TimerInv'
  BY <1>5, LookStep, TimerAssumption DEF os_timer_change_period
<1>6. ASSUME LookedStop PROVE TimerInv'
  <2>1. /\ task \in Task /\ task.t \in Timers /\ task.op \in {"stop_set", "stop_set_start"}
        /\ task.op = "stop_set_start" => task.arg # 0
    BY <1>6 DEF TimerInv, TaskInv, LookedStop
  <2>2. /\ task' \in Task /\ task'.t = task.t /\ task'.arg = task.arg
        /\ task'.op = IF task.op = "stop_set" THEN "set" ELSE "set_start"
    BY <1>6, <2>1 DEF LookedStop, Task
  <2> QED BY <1>6, <2>1, <2>2, StopStep DEF LookedStop
<1>7. ASSUME FinalStart PROVE TimerInv'
  <2>1. task.t \in Timers /\ timer[task.t].period # 0
    BY <1>7 DEF TimerInv, TaskInv, FinalStart
  <2> QED BY <1>7, <2>1, StartStep DEF FinalStart
<1> QED BY <1>1, <1>2, <1>3, <1>4, <1>5, <1>6, <1>7

---------------------------------------------------------------------------
\* The tick interrupt.
LEMMA HeadRemoved ==
  ASSUME NEW q \in Seq(Timers), q # <<>>, Once(q)
  PROVE  Unlink(q, q[1]) = SubSeq(q, 2, Len(q))
<1>1. 1 \in 1 .. Len(q) /\ Len(q) \in Nat
  OBVIOUS
<1>2. {i \in DOMAIN q : q[i] = q[1]} = {1} /\ Min({1}) = 1
  <2>1. {i \in DOMAIN q : q[i] = q[1]} = {1}
    BY <1>1 DEF Once
  <2>2. Min({1}) = 1
    BY DEF Min
  <2> QED BY <2>1, <2>2
<1>3. Unlink(q, q[1]) = Cut(q, 1)
  BY <1>2, Zenon DEF Unlink, Cut
<1>4. SubSeq(q, 1, 1 - 1) = <<>> /\ SubSeq(q, 1 + 1, Len(q)) = SubSeq(q, 2, Len(q))
  BY <1>1
<1>5. SubSeq(q, 2, Len(q)) \in Seq(Timers)
  BY <1>1
<1>6. <<>> \o SubSeq(q, 2, Len(q)) = SubSeq(q, 2, Len(q))
  BY <1>5, ConcatEmptySeq
<1> QED BY <1>3, <1>4, <1>6, Zenon DEF Cut

LEMMA BeginStep ==
  ASSUME TimerInv, process_begin
  PROVE  TimerInv'
<1>1. timer_manager.list \in Seq(Timers)
  BY TimerFacts
<1>2. isr'.pc = "loop" /\ isr'.timer = First(timer_manager.list)
  BY <1>1 DEF process_begin, First
<1>3. IsrInv'
  BY <1>2 DEF IsrInv, process_begin
<1>4. TaskInv'
  BY <1>2 DEF TaskInv, process_begin, TimerInv
<1>5. Linked(State)'
  BY DEF TimerInv, process_begin, State
<1>6. tick_count' \in Nat
  BY DEF TimerInv, process_begin
<1> QED BY <1>3, <1>4, <1>5, <1>6 DEF TimerInv, process_begin

\* An expired timer that the loop is at is the head of the list.
LEMMA ExpiredIsHead ==
  ASSUME TimerInv, isr.pc = "loop", Expired
  PROVE  /\ timer_manager.list # <<>> /\ isr.timer = timer_manager.list[1]
         /\ isr.timer \in Timers /\ timer[isr.timer].active = TRUE
<1>1. /\ timer_manager.list \in Seq(Timers)
      /\ \A t \in Timers : timer[t] \in timer_t
  BY TimerFacts
<1>2. ~NothingDue
  <2> SUFFICES ASSUME NothingDue PROVE FALSE
    OBVIOUS
  <2>1. isr.timer \in Timers /\ timer[isr.timer].expire_time > tick_count
    BY DEF NothingDue, Expired
  <2>2. timer[isr.timer].expire_time \in Nat /\ tick_count \in Nat
    BY <1>1, <2>1, TimerFields DEF TimerInv
  <2> QED BY <2>1, <2>2 DEF Expired
<1>3. isr.timer = First(timer_manager.list) /\ isr.timer # NoTimer
  BY <1>2 DEF TimerInv, IsrInv, Expired
<1>4. timer_manager.list # <<>> /\ isr.timer = timer_manager.list[1]
  BY <1>3 DEF First
<1>5. 1 \in 1 .. Len(timer_manager.list) /\ isr.timer \in Timers
  BY <1>1, <1>4
<1>6. In(timer_manager.list, isr.timer)
  BY <1>4, <1>5 DEF In
<1>7. timer[isr.timer].active = TRUE
  BY <1>5, <1>6 DEF TimerInv, Linked, State
<1> QED BY <1>4, <1>5, <1>7

LEMMA ExpireStep ==
  ASSUME TimerInv, process_expire
  PROVE  TimerInv'
<1> DEFINE t == isr.timer
           l == timer_manager.list
           st == State
           o == os_timer_stop(st, t)
<1>1. l # <<>> /\ t = l[1] /\ t \in Timers /\ timer[t].active = TRUE
  BY ExpiredIsHead, ZenonT(60) DEF process_expire
<1>2. l \in Seq(Timers) /\ timer \in [Timers -> timer_t] /\ st.timer = timer /\ st.list = l
  BY TimerFacts
<1>3. Once(l) /\ Linked(st)
  BY DEF TimerInv, Linked, State
<1>4. After(t) = SubSeq(l, 2, Len(l))
  <2>0. DOMAIN l = 1 .. Len(l) /\ 1 \in 1 .. Len(l)
    BY <1>1, <1>2
  <2>1. 1 \in DOMAIN l /\ \A i \in DOMAIN l : l[i] = t => i = 1
    <3> HIDE DEF l, t
    <3> QED BY <1>1, <1>3, <2>0, Zenon DEF Once
  <2>2. (CHOOSE i \in DOMAIN l : l[i] = t) = 1
    BY <1>1, <2>1
  <2> QED BY <1>1, <2>1, <2>2, SMTT(30) DEF After
<1>5. After(t) = Unlink(l, t)
  BY <1>1, <1>2, <1>3, <1>4, HeadRemoved
<1>6. Becomes(o)
  BY <1>1, <1>2, <1>5 DEF Becomes, os_timer_stop, process_expire, State
<1> HIDE DEF st
<1>7. Linked(o) /\ o.timer = [st.timer EXCEPT ![t].active = FALSE]
  BY <1>1, <1>3, StopOK, ZenonT(60)
<1> HIDE DEF o
<1>8. /\ Linked(State)' /\ timer' = [timer EXCEPT ![t].active = FALSE]
  BY <1>2, <1>6, <1>7, BecomesLinked, ZenonT(60)
<1>9. /\ timer'[t].period = timer[t].period /\ timer'[t].active = FALSE
      /\ \A u \in Timers : u # t => timer'[u] = timer[u]
  BY <1>1, <1>2, <1>8, StoppedFacts
<1>10. \A u \in Timers : timer'[u].active = TRUE => timer'[u].period # 0
  BY <1>9 DEF TimerInv
<1>11. /\ isr'.pc = "callback" /\ isr'.timer = t /\ timer_manager'.list = After(t)
       /\ isr'.next = IF After(t) = <<>> THEN NoTimer ELSE Head(After(t))
  BY DEF process_expire
<1>12. After(t) \in Seq(Timers)
  BY <1>1, <1>2, <1>4
<1>13. isr'.next = First(timer_manager'.list)
  BY <1>11, <1>12 DEF First
<1>14. IsrInv'
  BY <1>1, <1>9, <1>10, <1>11, <1>13 DEF IsrInv, TimerInv
<1>15. TaskInv'
  BY <1>1, <1>9, <1>11 DEF TaskInv, TimerInv, process_expire
<1> QED BY <1>8, <1>10, <1>14, <1>15 DEF TimerInv, process_expire

LEMMA EndStep ==
  ASSUME TimerInv, process_end
  PROVE  TimerInv'
<1>1. isr'.pc = "out"
  BY DEF process_end
<1>2. IsrInv' /\ TaskInv'
  BY <1>1 DEF IsrInv, TaskInv, TimerInv, process_end
<1>3. Linked(State)'
  BY DEF TimerInv, process_end, State
<1> QED BY <1>2, <1>3 DEF TimerInv, process_end


\* Whatever the callback and the reload link, the loop goes on at the head of the list or
\* nothing is due.
LEMMA CallbackInsert ==
  ASSUME TimerInv, isr.pc = "callback", NEW o, NEW e,
         e = tick_count + timer[isr.timer].period, InsertEffect(State, isr.timer, e, o),
         Becomes(o), isr'.pc = "loop",
         isr'.timer = Head(o.list) \/ isr'.timer = isr.next, UNCHANGED <<tick_count, task>>
  PROVE  TimerInv'
<1> DEFINE t == isr.timer
           l == timer_manager.list
<1>1. /\ l \in Seq(Timers) /\ timer \in [Timers -> timer_t] /\ State.timer = timer
      /\ State.list = l /\ \A u \in Timers : timer[u] \in timer_t
  BY TimerFacts
<1>2. /\ t \in Timers /\ timer[t].active = FALSE /\ timer[t].period # 0
      /\ isr.next = First(l) /\ tick_count \in Nat
  BY DEF TimerInv, IsrInv
<1>3. e \in Nat /\ e > tick_count
  <2>1. timer[t].period \in Nat
    BY <1>1, <1>2, TimerFields
  <2> QED BY <1>2, <2>1
<1>4. Linked(State)' /\ timer' = Rearmed(timer, t, e) /\ timer_manager'.list = o.list
  BY <1>1, BecomesLinked DEF InsertEffect
<1>5. /\ timer'[t].active = TRUE /\ timer'[t].expire_time = e
      /\ timer'[t].period = timer[t].period
      /\ \A u \in Timers : u # t => timer'[u] = timer[u]
  BY <1>1, <1>2, <1>3, <1>4 DEF Rearmed, timer_t
<1>6. \A u \in Timers : timer'[u].active = TRUE => timer'[u].period # 0
  BY <1>2, <1>5 DEF TimerInv
<1>7. TaskInv'
  BY <1>2, <1>5, SMTT(30) DEF TaskInv, TimerInv
<1>8. isr'.timer = First(timer_manager'.list) \/ NothingDue'
  <2>1. o.list # <<>> /\ Head(o.list) = o.list[1] /\ First(timer_manager'.list) = o.list[1]
    BY <1>4 DEF InsertEffect, First
  <2>2. CASE isr'.timer = Head(o.list)
    BY <2>1, <2>2
  <2>3. CASE isr'.timer = isr.next /\ l # <<>> /\ timer[l[1]].expire_time <= e
    BY <1>1, <1>2, <2>1, <2>3, SMTT(30) DEF InsertEffect, First
  <2>4. CASE isr'.timer = isr.next /\ (l = <<>> \/ timer[l[1]].expire_time > e)
    <3>1. ASSUME NEW i \in 1 .. Len(l)
          PROVE  /\ l[i] \in Timers /\ l[i] # t /\ timer[l[i]].expire_time \in Nat
                 /\ timer[l[i]].expire_time > tick_count
      <4>1. l # <<>> /\ 1 \in 1 .. Len(l) /\ l[i] \in Timers /\ l[1] \in Timers
        BY <1>1, <3>1
      <4>2. timer[l[i]].expire_time \in Nat /\ timer[l[1]].expire_time \in Nat
        BY <1>1, <4>1, TimerFields
      <4>3. i = 1 \/ timer[l[1]].expire_time <= timer[l[i]].expire_time
        BY <1>1, <4>1, SMTT(30) DEF TimerInv, Linked, Ordered
      <4>4. In(l, l[i])
        BY <3>1 DEF In
      <4>5. timer[l[i]].active = TRUE
        BY <1>1, <4>1, <4>4, SMTT(30) DEF TimerInv, Linked
      <4> QED BY <1>2, <1>3, <2>4, <4>1, <4>2, <4>3, <4>5, SMTT(30)
    <3>2. ASSUME NEW u \in Timers, timer'[u].active = TRUE
          PROVE  timer'[u].expire_time > tick_count
      <4>1. CASE u = t
        BY <1>3, <1>5, <4>1
      <4>2. CASE u # t
        <5>1. timer'[u] = timer[u] /\ In(l, u)
          BY <1>1, <1>5, <3>2, <4>2, SMTT(30) DEF TimerInv, Linked
        <5>2. PICK i \in 1 .. Len(l) : l[i] = u
          BY <5>1 DEF In
        <5> QED BY <3>1, <5>1, <5>2
      <4> QED BY <4>1, <4>2
    <3>3. CASE l = <<>>
      BY <1>2, <2>4, <3>2, <3>3, ZenonT(60) DEF First, NothingDue
    <3>4. CASE l # <<>>
      <4>1. 1 \in 1 .. Len(l) /\ isr'.timer = l[1]
        BY <1>1, <1>2, <2>4, <3>4 DEF First
      <4>2. isr'.timer \in Timers /\ timer'[isr'.timer].expire_time > tick_count
        BY <1>5, <3>1, <4>1, SMTT(30)
      <4> QED BY <3>2, <4>2, ZenonT(60) DEF NothingDue
    <3> QED BY <3>3, <3>4
  <2>5. l # <<>> => timer[l[1]].expire_time \in Nat
    BY <1>1, TimerFields
  <2> QED BY <1>3, <2>2, <2>3, <2>4, <2>5
<1>9. IsrInv'
  BY <1>8 DEF IsrInv
<1> QED BY <1>2, <1>4, <1>6, <1>7, <1>9, SMTT(30) DEF TimerInv

LEMMA CallbackStep ==
  ASSUME TimerInv, process_callback
  PROVE  TimerInv'
<1> DEFINE t == isr.timer
           st == State
           e == tick_count + timer[t].period
<1>1. /\ timer \in [Timers -> timer_t] /\ st.timer = timer /\ st.list = timer_manager.list
      /\ Linked(st) /\ tick_count \in Nat /\ timer[t] \in timer_t
      /\ t \in Timers /\ timer[t].active = FALSE /\ isr.next = First(timer_manager.list)
      /\ isr.pc = "callback"
  BY TimerFacts, ZenonT(60) DEF TimerInv, IsrInv, process_callback
<1>2. e \in Nat
  BY <1>1, TimerFields
<1>3. isr'.pc = "loop" /\ UNCHANGED <<tick_count, task>>
  BY DEF process_callback
<1>4. CASE timer[t].type = "AUTO_RELOAD"
  <2> DEFINE o == timer_insert_sorted(Armed(st, t, e), t)
  <2>1. Becomes(o) /\ isr'.timer = Head(o.list)
    BY <1>4, SMTT(30) DEF process_callback, Armed
  <2>2. InsertEffect(st, t, e, o)
    <3> HIDE DEF st, e, o
    <3> QED BY <1>1, <1>2, InsertOK, Zenon DEF o
  <2> HIDE DEF o
  <2> QED BY <1>1, <1>3, <2>1, <2>2, CallbackInsert
<1>5. CASE Becomes(State) /\ isr'.timer = isr.next
  <2>1. Linked(State)' /\ timer' = timer /\ timer_manager'.list = timer_manager.list
    BY <1>1, <1>5, BecomesLinked
  <2>2. IsrInv'
    BY <1>1, <1>3, <1>5, <2>1 DEF IsrInv
  <2>3. TaskInv'
    BY <1>3, <2>1 DEF TaskInv, TimerInv
  <2> QED BY <1>3, <2>1, <2>2, <2>3 DEF TimerInv
<1>6. CASE Becomes(os_timer_start(State, t)) /\ isr'.timer = isr.next
  <2> DEFINE o == os_timer_start(st, t)
  <2>1. Becomes(o)
    BY <1>6
  <2>2. InsertEffect(st, t, e, o)
    <3>1. e = tick_count + st.timer[t].period /\ st.timer[t].active = FALSE
      BY <1>1
    <3> HIDE DEF st, e, o
    <3> QED BY <1>1, <3>1, StartOK, Zenon DEF o
  <2> HIDE DEF o
  <2> QED BY <1>1, <1>3, <1>6, <2>1, <2>2, CallbackInsert
<1> QED BY <1>4, <1>5, <1>6 DEF process_callback

---------------------------------------------------------------------------
LEMMA TimerInitOK ==
  ASSUME TimerInit
  PROVE  TimerInv
<1>1. /\ timer_manager.list = <<>> /\ timer_manager.count = 0 /\ isr.pc = "out" /\ task = Done
      /\ timer = [t \in Timers |-> Cleared] /\ tick_count = 0
  BY DEF TimerInit, os_timer_init
<1>2. Cleared \in timer_t /\ Cleared.active = FALSE
  BY DEF Cleared, timer_t
<1>3. State = [list |-> <<>>, count |-> 0, timer |-> timer] /\ timer \in [Timers -> timer_t]
  BY <1>1, <1>2 DEF State
<1>4. State \in TimerData
  BY <1>3 DEF TimerData
<1>5. Linked(State)
  BY <1>1, <1>2, <1>3, <1>4 DEF Linked, Once, Ordered, In
<1>6. TaskInv /\ IsrInv
  BY <1>1 DEF TaskInv, IsrInv, Task, Done
<1> QED BY <1>1, <1>2, <1>5, <1>6 DEF TimerInv

LEMMA TimerStep ==
  ASSUME TimerInv, [TimerNext]_timervars
  PROVE  TimerInv'
<1>1. CASE UNCHANGED timervars
  <2>1. /\ timer_manager' = timer_manager /\ timer' = timer /\ tick_count' = tick_count
        /\ isr' = isr /\ task' = task
    BY <1>1 DEF timervars
  <2>2. Linked(State)'
    BY <2>1 DEF TimerInv, State
  <2>3. IsrInv' /\ TaskInv'
    BY <2>1, SMTT(30) DEF TimerInv, IsrInv, NothingDue, TaskInv
  <2> QED BY <2>1, <2>2, <2>3 DEF TimerInv
<1>2. CASE TimerNext
  BY <1>2, TaskSteps, CreateStep, LookedSetStep, BeginStep, ExpireStep, CallbackStep, EndStep
     DEF TimerNext
<1> QED BY <1>1, <1>2

\* The inductive invariant of the timers: the list is sorted by expiry and holds exactly
\* the active timers; os_timer_process is at its head, or no timer is due.
THEOREM TimerInvHolds == TimerSpec => []TimerInv
BY TimerInitOK, TimerStep, PTL DEF TimerSpec

\* In every reachable state timer_count of timer.c is the length of the list, and the
\* fields of the timers are in range.
THEOREM TimerTypeCorrect == TimerSpec => []TimerTypeOK
<1>1. TimerInv => TimerTypeOK
  BY TimerFacts DEF TimerTypeOK
<1> QED BY <1>1, TimerInvHolds, PTL

\* For any timers and periods: timer_insert_sorted, os_timer_stop and the unlinking in
\* os_timer_process keep every active timer in the list once and nothing else.
THEOREM ListIsActiveHolds == TimerSpec => []ListIsActive
<1>1. ASSUME TimerInv PROVE ListIsActive
  <2> DEFINE l == timer_manager.list
  <2>1. /\ l \in Seq(Timers) /\ timer \in [Timers -> timer_t]
        /\ \A t \in Timers : timer[t].active \in BOOLEAN
    BY <1>1, TimerFacts, TimerFields
  <2>2. Once(l) /\ \A t \in Timers : In(l, t) <=> timer[t].active = TRUE
    BY <1>1 DEF TimerInv, Linked, State
  <2>3. DOMAIN l = 1 .. Len(l) /\ \A i \in 1 .. Len(l) : l[i] \in Timers
    BY <2>1
  <2>4. {l[i] : i \in DOMAIN l} = {t \in Timers : timer[t].active}
    BY <2>1, <2>2, <2>3 DEF In
  <2>5. \A i, j \in DOMAIN l : l[i] = l[j] => i = j
    BY <2>2, <2>3, Zenon DEF Once
  <2> QED BY <2>4, <2>5 DEF ListIsActive
<1> QED BY <1>1, TimerInvHolds, PTL

\* For any timers and periods, when os_timer_process ends no active timer is due, whatever
\* the callbacks restarted.
THEOREM NoneOverdueHolds == TimerSpec => NoneOverdue
<1>1. ASSUME TimerInv, TimerNext, isr.pc = "loop", isr'.pc = "out",
             NEW t \in Timers, timer[t].active
      PROVE  timer[t].expire_time > tick_count
  <2> DEFINE l == timer_manager.list
  <2>1. process_end
    BY <1>1 DEF TimerNext, Start, Stop, os_timer_reset, os_timer_delete, Look, Free,
       os_timer_change_period, os_timer_create, LookedStop, LookedSet, FinalStart,
       process_begin, process_expire, process_callback
  <2>2. /\ l \in Seq(Timers) /\ \A u \in Timers : timer[u] \in timer_t
        /\ timer[t].active = TRUE /\ tick_count \in Nat
    BY <1>1, TimerFacts, TimerFields, ZenonT(60) DEF TimerInv
  <2>3. CASE NothingDue
    BY <2>2, <2>3 DEF NothingDue
  <2>4. CASE isr.timer = First(l)
    <3>1. In(l, t)
      BY <1>1, <2>2, SMTT(30) DEF TimerInv, Linked, State
    <3>2. PICK i \in 1 .. Len(l) : l[i] = t
      BY <3>1 DEF In
    <3>3. l # <<>> /\ 1 \in 1 .. Len(l) /\ l[1] \in Timers
      BY <2>2, <3>2
    <3>4. isr.timer = l[1] /\ isr.timer # NoTimer
      BY <2>4, <3>3, TimerAssumption DEF First
    <3>5. ~(tick_count >= timer[l[1]].expire_time)
      BY <2>1, <3>4 DEF process_end, Expired
    <3>6. timer[l[1]].expire_time \in Nat /\ timer[t].expire_time \in Nat
      BY <2>2, <3>3, TimerFields
    <3>7. i = 1 \/ timer[l[1]].expire_time <= timer[l[i]].expire_time
      BY <1>1, <3>2, <3>3, SMTT(30) DEF TimerInv, Linked, State, Ordered
    <3> QED BY <2>2, <3>2, <3>5, <3>6, <3>7
  <2> QED BY <1>1, <2>3, <2>4 DEF TimerInv, IsrInv
<1>2. ASSUME TimerInv, [TimerNext]_timervars
      PROVE  [isr.pc = "loop" /\ isr'.pc = "out" =>
                \A t \in Timers : timer[t].active => timer[t].expire_time > tick_count]_timervars
  BY <1>1, <1>2
<1> QED BY <1>2, TimerInvHolds, PTL DEF TimerSpec, NoneOverdue
=============================================================================
