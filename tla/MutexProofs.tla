---------------------------- MODULE MutexProofs ----------------------------
(***************************************************************************)
(* Mutual exclusion, and the consistency of the kernel under priority      *)
(* inheritance, for every number of tasks, mutexes and priorities.         *)
(***************************************************************************)
EXTENDS Mutex, SchedProofs, FiniteSetTheorems

\* A task in the middle of os_mutex_unlock still owns the mutex, whatever the
\* tasks do that run while it is switched out.
UnlockerOwns ==
  \A t \in Tasks : pc[t] = "unlock_release" => mutex[arg[t]].owner = t

LocalsOK ==
  /\ primask \in BOOLEAN
  /\ mutex \in [Mutexes -> [locked : BOOLEAN, owner : Tasks \cup {NULL}]]
  /\ pc \in [Tasks -> Location]
  /\ arg \in [Tasks -> Mutexes]
  /\ timed \in [Tasks -> BOOLEAN]
  /\ saved \in [Tasks -> BOOLEAN]
  /\ held \in [Tasks -> SUBSET Mutexes]
  /\ saw \in [Tasks -> Tasks \cup {NULL}]

\* The part of the invariant about mutexes ...
LockInv == LocalsOK /\ MutualExclusion /\ UnlockerOwns

\* ... and the part about the kernel.
KernelOK(n) == QueuesOK(n) /\ OnlyCurrentRuns(n) /\ n.scheduler_running

IInv == LockInv /\ KernelOK(k)

-----------------------------------------------------------------------------
(* The kernel *)

LEMMA YieldOK == ASSUME NEW n, KernelOK(n) PROVE KernelOK(Yield(n))
  BY YieldDispatches DEF KernelOK, Dispatched

LEMMA SchedulerOK == ASSUME NEW n, KernelOK(n) PROVE KernelOK(os_scheduler(n))
<1>1. QueuesOK(n) /\ OnlyCurrentRuns(n) /\ n.scheduler_running
  BY DEF KernelOK
<1>2. CASE Dispatched(n, os_scheduler(n))
  BY <1>2 DEF KernelOK, Dispatched
<1>3. CASE ~Dispatched(n, os_scheduler(n))
  <2>1. /\ QueuesOK(os_scheduler(n))
        /\ os_scheduler(n).current_task = n.current_task
        /\ os_scheduler(n).scheduler_running = n.scheduler_running
        /\ os_scheduler(n).state = n.state
    BY <1>1, <1>3, SchedulerStep, ZenonT(60)
  <2>2. OnlyCurrentRuns(os_scheduler(n))
    BY <1>1, <2>1 DEF OnlyCurrentRuns
  <2> QED BY <1>1, <2>1, <2>2 DEF KernelOK
<1> QED BY <1>2, <1>3

LEMMA RequeueOK ==
  ASSUME NEW n, KernelOK(n), NEW t \in Tasks, NEW p \in Prio
  PROVE  KernelOK(Requeue(n, t, p))
  BY RequeueManages, ZenonT(60) DEF KernelOK, Managed

LEMMA SuspendOK ==
  ASSUME NEW n, KernelOK(n), NEW t \in Tasks
  PROVE  KernelOK(Suspend(n, t))
  BY RetireManages, ZenonT(60) DEF KernelOK, Managed, Suspend

LEMMA ResumeOK ==
  ASSUME NEW n, KernelOK(n), NEW t \in Tasks
  PROVE  KernelOK(Resume(n, t))
  BY AddManages, ZenonT(60) DEF KernelOK, Managed, Resume

LEMMA PrioOK ==
  ASSUME NEW n, KernelOK(n), NEW t \in Tasks
  PROVE  n.priority[t] \in Prio /\ n.base_priority[t] \in Prio
  BY DEF KernelOK, QueuesOK, KernelValue

\* Whatever a task or the timer does, the kernel stays consistent.
LEMMA KernelStep == ASSUME IInv, [Next]_vars PROVE KernelOK(k)'
<1>1. KernelOK(k)
  BY DEF IInv
<1>2. CASE UNCHANGED k
  BY <1>1, <1>2 DEF KernelOK
<1>3. CASE Tick
  BY <1>1, <1>3, SchedulerOK DEF Tick
<1>4. ASSUME NEW t \in Tasks, os_task_resume(t) PROVE KernelOK(k)'
  BY <1>1, <1>4, ResumeOK DEF os_task_resume
<1>5. ASSUME NEW t \in Tasks, Inherit(t) PROVE KernelOK(k)'
  <2> DEFINE owner == mutex[arg[t]].owner
  <2>1. owner \in Tasks \cup {NULL}
    BY DEF IInv, LockInv, LocalsOK
  <2>2. k' = k \/ (owner # NULL /\ k' = Requeue(k, owner, k.priority[t]))
    BY <1>5 DEF Inherit
  <2>3. k.priority[t] \in Prio
    BY <1>1, PrioOK
  <2> QED BY <1>1, <1>2, <2>1, <2>2, <2>3, RequeueOK
<1>6. ASSUME NEW t \in Tasks, LockYield(t) \/ FinalYield(t) \/ os_task_yield(t)
      PROVE  KernelOK(k)'
  BY <1>1, <1>6, YieldOK DEF LockYield, FinalYield, os_task_yield
<1>7. ASSUME NEW t \in Tasks, NEW m \in Mutexes, UnlockUnboosted(t, m) PROVE KernelOK(k)'
  BY <1>1, <1>7, PrioOK, RequeueOK DEF UnlockUnboosted
<1>8. ASSUME NEW t \in Tasks, NEW m \in Mutexes, UnlockBoosted(t, m) PROVE KernelOK(k)'
  BY <1>1, <1>8, PrioOK, RequeueOK, YieldOK DEF UnlockBoosted
<1>9. ASSUME NEW t \in Tasks, os_task_suspend(t) PROVE KernelOK(k)'
  BY <1>1, <1>9, SuspendOK DEF os_task_suspend
<1>10. ASSUME NEW t \in Tasks,
              \/ \E m \in Mutexes, timeout \in Timeouts : os_mutex_lock(t, m, timeout)
              \/ Acquire(t) \/ LockTimeout(t) \/ UnlockRelease(t)
       PROVE  KernelOK(k)'
  BY <1>2, <1>10 DEF os_mutex_lock, Acquire, LockTimeout, UnlockRelease
<1> QED
  BY <1>2, <1>3, <1>4, <1>5, <1>6, <1>7, <1>8, <1>9, <1>10 DEF Next, TaskStep, vars

-----------------------------------------------------------------------------
(* The mutexes *)

\* Steps that touch neither mutex nor held, and bring no task into the middle of
\* os_mutex_unlock.
LEMMA OtherStep ==
  ASSUME LockInv, LocalsOK', UNCHANGED <<mutex, held>>,
         \A t \in Tasks : pc'[t] = "unlock_release"
                          => pc[t] = "unlock_release" /\ arg'[t] = arg[t]
  PROVE  LockInv'
<1>1. MutualExclusion'
  BY DEF LockInv, MutualExclusion
<1>2. UnlockerOwns'
  BY DEF LockInv, UnlockerOwns
<1> QED BY <1>1, <1>2 DEF LockInv

\* The caller gives back a mutex it owns.
LEMMA ReleaseStep ==
  ASSUME LockInv, NEW t \in Tasks, NEW m \in Mutexes, mutex[m].owner = t,
         Release(t, m), primask' \in BOOLEAN, UNCHANGED <<arg, timed, saved>>
  PROVE  LockInv'
<1>1. LocalsOK'
  BY DEF LockInv, LocalsOK, Release, Goto, Location, Unlocked
<1>2. /\ mutex'[m] = Unlocked
      /\ \A x \in Mutexes : x # m => mutex'[x] = mutex[x]
  BY DEF LockInv, LocalsOK, Release
<1>3. \A u \in Tasks : held'[u] = IF u = t THEN held[t] \ {m} ELSE held[u]
  BY DEF LockInv, LocalsOK, Release
<1>4. MutualExclusion'
  <2> SUFFICES ASSUME NEW x \in Mutexes
               PROVE  /\ mutex'[x].locked <=> mutex'[x].owner # NULL
                      /\ \A u \in Tasks : x \in held'[u] <=> mutex'[x].owner = u
    BY DEF MutualExclusion
  <2>1. CASE x = m
    BY <1>2, <1>3, <2>1, SchedAssumption DEF LockInv, MutualExclusion, Unlocked
  <2>2. CASE x # m
    BY <1>2, <1>3, <2>2 DEF LockInv, MutualExclusion
  <2> QED BY <2>1, <2>2
<1>5. UnlockerOwns'
  <2> SUFFICES ASSUME NEW u \in Tasks, pc'[u] = "unlock_release"
               PROVE  mutex'[arg'[u]].owner = u
    BY DEF UnlockerOwns
  <2>1. u # t /\ pc[u] = "unlock_release"
    BY DEF LockInv, LocalsOK, Release, Goto
  <2>2. mutex[arg[u]].owner = u /\ arg[u] \in Mutexes
    BY <2>1 DEF LockInv, LocalsOK, UnlockerOwns
  <2> QED BY <1>2, <2>1, <2>2
<1> QED BY <1>1, <1>4, <1>5 DEF LockInv

\* The caller gets a free mutex.
LEMMA AcquireStep == ASSUME LockInv, NEW t \in Tasks, Acquire(t) PROVE LockInv'
<1> DEFINE m == arg[t]
<1>1. m \in Mutexes /\ ~mutex[m].locked /\ mutex[m].owner = NULL
  BY DEF LockInv, LocalsOK, MutualExclusion, Acquire
<1>2. LocalsOK'
  BY <1>1 DEF LockInv, LocalsOK, Acquire, Goto, Location
<1>3. /\ mutex'[m] = [locked |-> TRUE, owner |-> t]
      /\ \A x \in Mutexes : x # m => mutex'[x] = mutex[x]
  BY <1>1 DEF LockInv, LocalsOK, Acquire
<1>4. \A u \in Tasks : held'[u] = IF u = t THEN held[t] \cup {m} ELSE held[u]
  BY DEF LockInv, LocalsOK, Acquire
<1>5. MutualExclusion'
  <2> SUFFICES ASSUME NEW x \in Mutexes
               PROVE  /\ mutex'[x].locked <=> mutex'[x].owner # NULL
                      /\ \A u \in Tasks : x \in held'[u] <=> mutex'[x].owner = u
    BY DEF MutualExclusion
  <2>1. CASE x = m
    <3>1. \A u \in Tasks : m \notin held[u]
      BY <1>1, SchedAssumption DEF LockInv, MutualExclusion
    <3> QED BY <1>3, <1>4, <2>1, <3>1, SchedAssumption
  <2>2. CASE x # m
    BY <1>3, <1>4, <2>2 DEF LockInv, MutualExclusion
  <2> QED BY <2>1, <2>2
<1>6. UnlockerOwns'
  <2> SUFFICES ASSUME NEW u \in Tasks, pc'[u] = "unlock_release"
               PROVE  mutex'[arg'[u]].owner = u
    BY DEF UnlockerOwns
  <2>1. u # t /\ pc[u] = "unlock_release" /\ arg'[u] = arg[u]
    BY DEF LockInv, LocalsOK, Acquire, Goto
  <2>2. mutex[arg[u]].owner = u /\ arg[u] \in Mutexes
    BY <2>1 DEF LockInv, LocalsOK, UnlockerOwns
  <2> QED BY <1>1, <1>3, <2>1, <2>2, SchedAssumption
<1> QED BY <1>2, <1>5, <1>6 DEF LockInv

\* os_mutex_unlock of a boosted task: from here on it is in the middle.
LEMMA BoostedStep ==
  ASSUME LockInv, NEW t \in Tasks, NEW m \in Mutexes, UnlockBoosted(t, m)
  PROVE  LockInv'
<1>1. LocalsOK'
  BY DEF LockInv, LocalsOK, UnlockBoosted, Calls, Goto, Location
<1>2. MutualExclusion'
  BY DEF LockInv, MutualExclusion, UnlockBoosted
<1>3. UnlockerOwns'
  BY DEF LockInv, LocalsOK, UnlockerOwns, UnlockBoosted, Calls, Goto
<1> QED BY <1>1, <1>2, <1>3 DEF LockInv

LEMMA LockStep == ASSUME LockInv, [Next]_vars PROVE LockInv'
<1>1. CASE UNCHANGED vars
  BY <1>1 DEF vars, LockInv, LocalsOK, MutualExclusion, UnlockerOwns
<1>2. CASE Tick
  BY <1>2, OtherStep DEF Tick, LockInv, LocalsOK
<1>3. ASSUME NEW t \in Tasks, os_task_resume(t) PROVE LockInv'
  BY <1>3, OtherStep DEF os_task_resume, LockInv, LocalsOK
<1>4. ASSUME NEW t \in Tasks, NEW m \in Mutexes, NEW timeout \in Timeouts,
             os_mutex_lock(t, m, timeout)
      PROVE  LockInv'
  <2>1. LocalsOK'
    BY <1>4, MutexAssumption
       DEF os_mutex_lock, At, Calls, Goto, Location, LockInv, LocalsOK
  <2>2. \A u \in Tasks : pc'[u] = "unlock_release"
                         => pc[u] = "unlock_release" /\ arg'[u] = arg[u]
    BY <1>4 DEF os_mutex_lock, Calls, Goto, LockInv, LocalsOK
  <2> QED BY <1>4, <2>1, <2>2, OtherStep DEF os_mutex_lock
<1>5. ASSUME NEW t \in Tasks,
             \/ Inherit(t) \/ LockTimeout(t) \/ LockYield(t) \/ FinalYield(t)
             \/ os_task_yield(t) \/ os_task_suspend(t)
      PROVE  LockInv'
  <2>1. /\ UNCHANGED <<primask, mutex, arg, timed, saved, held>>
        /\ \/ UNCHANGED pc
           \/ \E l \in Location \ {"unlock_release"} : pc' = [pc EXCEPT ![t] = l]
        /\ \/ UNCHANGED saw
           \/ saw' = [saw EXCEPT ![t] = mutex[arg[t]].owner]
           \/ saw' = [saw EXCEPT ![t] = NULL]
    BY <1>5 DEF Inherit, LockTimeout, LockYield, FinalYield, os_task_yield,
                os_task_suspend, Goto, Location
  <2>2. mutex[arg[t]].owner \in Tasks \cup {NULL}
    BY DEF LockInv, LocalsOK
  <2>3. pc' \in [Tasks -> Location] /\ saw' \in [Tasks -> Tasks \cup {NULL}]
    BY <2>1, <2>2, ZenonT(60) DEF LockInv, LocalsOK
  <2>4. LocalsOK'
    BY <2>1, <2>3 DEF LockInv, LocalsOK
  <2>5. \A u \in Tasks : pc'[u] = "unlock_release" => pc[u] = "unlock_release"
    BY <2>1 DEF LockInv, LocalsOK
  <2> QED BY <2>1, <2>4, <2>5, OtherStep
<1>6. ASSUME NEW t \in Tasks, NEW m \in Mutexes, UnlockUnboosted(t, m) PROVE LockInv'
  BY <1>6, ReleaseStep DEF UnlockUnboosted, LockInv, LocalsOK
<1>7. ASSUME NEW t \in Tasks, UnlockRelease(t) PROVE LockInv'
  <2>1. arg[t] \in Mutexes /\ mutex[arg[t]].owner = t /\ saved[t] \in BOOLEAN
    BY <1>7 DEF UnlockRelease, At, LockInv, LocalsOK, UnlockerOwns
  <2> QED BY <1>7, <2>1, ReleaseStep DEF UnlockRelease
<1> QED
  BY <1>1, <1>2, <1>3, <1>4, <1>5, <1>6, <1>7, AcquireStep, BoostedStep
     DEF Next, TaskStep

-----------------------------------------------------------------------------
(* The initial kernel *)

\* A queue that holds a set of tasks.
LEMMA QueueOfSet ==
  ASSUME NEW S \in SUBSET Tasks
  PROVE  /\ SetToSeq(S) \in Seq(Tasks)
         /\ Distinct(SetToSeq(S))
         /\ \A i \in 1 .. Len(SetToSeq(S)) : SetToSeq(S)[i] \in S
         /\ SetToSeq(S) # << >> <=> S # {}
<1> DEFINE n == Cardinality(S)
           q == SetToSeq(S)
<1>1. IsFiniteSet(S)
  BY MutexAssumption, FS_Subset
<1>2. n \in Nat /\ ExistsBijection(1 .. n, S)
  BY <1>1, FS_CardinalityType
<1>3. \E f \in [1 .. n -> S] : IsInjective(f)
  BY <1>2 DEF ExistsBijection, Bijection, Injection
<1>4. q \in [1 .. n -> S] /\ IsInjective(q)
  BY <1>3 DEF SetToSeq
<1> HIDE DEF q
<1>5. q \in Seq(Tasks) /\ Len(q) = n /\ DOMAIN q = 1 .. n
  <2>1. q \in [1 .. n -> Tasks]
    BY <1>4
  <2> QED BY <1>2, <2>1
<1>6. Distinct(q) /\ \A i \in 1 .. Len(q) : q[i] \in S
  BY <1>4, <1>5 DEF Distinct, IsInjective
<1>7. q # << >> <=> n # 0
  BY <1>2, <1>5
<1>8. n # 0 <=> S # {}
  BY <1>1, FS_EmptySet
<1> QED BY <1>5, <1>6, <1>7, <1>8 DEF q

LEMMA KernelWithOK ==
  ASSUME NEW base \in [Tasks -> Prio]
  PROVE  LET n == KernelWith(Tasks, base)
         IN  /\ QueuesOK(n) /\ OnlyCurrentRuns(n) /\ ~n.scheduler_running
             /\ \A t \in Tasks : n.time_slice[t] = TIME_SLICE_MS
<1> DEFINE n == KernelWith(Tasks, base)
           OfPrio(p) == {t \in Tasks : base[t] = p}
<1>1. Tasks \cup {Idle} = Tasks
  BY SchedAssumption
<1>2. Cardinality(Tasks) \in 0 .. COUNT_MOD - 1
  BY MutexAssumption, SchedAssumption, FS_CardinalityType
<1>3. n = [current_task |-> NULL,
           ready_queue  |-> [p \in Prio |-> SetToSeq(OfPrio(p))],
           ready_bitmap |-> {base[t] : t \in Tasks},
           task_count   |-> Cardinality(Tasks),
           tick_count   |-> 0,
           scheduler_running |-> FALSE,
           state         |-> [t \in Tasks |-> "READY"],
           priority      |-> base,
           base_priority |-> base,
           time_slice    |-> [t \in Tasks |-> TIME_SLICE_MS]]
  BY <1>1, Zenon DEF KernelWith
<1> HIDE DEF n
<1>4. \A p \in Prio : /\ SetToSeq(OfPrio(p)) \in Seq(Tasks)
                      /\ Distinct(SetToSeq(OfPrio(p)))
                      /\ \A i \in 1 .. Len(SetToSeq(OfPrio(p))) : SetToSeq(OfPrio(p))[i] \in OfPrio(p)
                      /\ SetToSeq(OfPrio(p)) # << >> <=> OfPrio(p) # {}
  BY QueueOfSet, ZenonT(60)
<1>5. n \in KernelValue
  <2>1. 0 \in 0 .. TICK_MOD - 1 /\ TIME_SLICE_MS \in 0 .. TIME_SLICE_MS
    BY SchedAssumption
  <2>2. [p \in Prio |-> SetToSeq(OfPrio(p))] \in [Prio -> Seq(Tasks)]
    BY <1>4
  <2>3. {base[t] : t \in Tasks} \in SUBSET Prio
    OBVIOUS
  <2>4. /\ [t \in Tasks |-> "READY"] \in [Tasks -> TaskState]
        /\ [t \in Tasks |-> TIME_SLICE_MS] \in [Tasks -> 0 .. TIME_SLICE_MS]
    BY <2>1 DEF TaskState
  <2> QED BY <1>2, <1>3, <2>1, <2>2, <2>3, <2>4, ZenonT(60) DEF KernelValue
<1>6. \A p \in Prio : n.ready_queue[p] = SetToSeq(OfPrio(p))
  BY <1>3
<1>7. QueuesHoldReadyTasks(n)
  <2> SUFFICES ASSUME NEW p \in Prio
               PROVE  /\ \A i \in 1 .. Len(n.ready_queue[p]) :
                           /\ n.state[n.ready_queue[p][i]] = "READY"
                           /\ n.priority[n.ready_queue[p][i]] = p
                      /\ Distinct(n.ready_queue[p])
    BY DEF QueuesHoldReadyTasks, Distinct
  <2>1. \A t \in OfPrio(p) : n.state[t] = "READY" /\ n.priority[t] = p
    BY <1>3
  <2> QED BY <1>4, <1>6, <2>1, ZenonT(60)
<1>8. BitmapMatchesQueues(n)
  <2>1. \A p \in Prio : p \in n.ready_bitmap <=> OfPrio(p) # {}
    BY <1>3
  <2> QED BY <1>4, <1>6, <2>1, ZenonT(60) DEF BitmapMatchesQueues
<1>9. OnlyCurrentRuns(n)
  BY <1>3 DEF OnlyCurrentRuns
<1> QED BY <1>3, <1>5, <1>7, <1>8, <1>9 DEF QueuesOK, n

LEMMA InitOK == ASSUME Init PROVE IInv
<1>1. KernelOK(k)
  <2>1. PICK base \in [Tasks -> Prio] : k = Start(KernelWith(Tasks, base))
    BY DEF Init
  <2> DEFINE n == KernelWith(Tasks, base)
  <2>2. /\ QueuesOK(n) /\ OnlyCurrentRuns(n) /\ ~n.scheduler_running
        /\ \A t \in Tasks : n.time_slice[t] = TIME_SLICE_MS
    BY KernelWithOK
  <2> HIDE DEF n
  <2>3. NextTask(n) \in Tasks
    BY <2>2, PopNext
  <2>4. Dispatched(n, Start(n))
    BY <2>2, <2>3, StartDispatches
  <2> QED BY <2>1, <2>4 DEF KernelOK, Dispatched, n
<1>2. LockInv
  BY SchedAssumption, ZenonT(60)
     DEF Init, LockInv, LocalsOK, MutualExclusion, UnlockerOwns, Unlocked, Location
<1> QED BY <1>1, <1>2 DEF IInv

-----------------------------------------------------------------------------
(* Priority inheritance *)

\* Only raising, resetting and setting a priority changes one.
LEMMA PriorityKept ==
  ASSUME NEW n, KernelOK(n), NEW t \in Tasks
  PROVE  /\ Yield(n).priority = n.priority
         /\ os_scheduler(n).priority = n.priority
         /\ Suspend(n, t).priority = n.priority
         /\ Resume(n, t).priority = n.priority
<1>1. QueuesOK(n) /\ OnlyCurrentRuns(n) /\ n.scheduler_running
  BY DEF KernelOK
<1>2. Yield(n).priority = n.priority
  BY <1>1, YieldDispatches DEF Dispatched
<1>3. os_scheduler(n).priority = n.priority
  BY <1>1, SchedulerStep, ZenonT(60) DEF Dispatched
<1>4. scheduler_remove_task(n, t).priority = n.priority
  BY <1>1, RemoveReady DEF Keeps
<1>5. Suspend(n, t).priority = n.priority
  BY <1>4 DEF Suspend, Retire
<1>6. Resume(n, t).priority = n.priority
  <2>1. CASE n.state[t] = "SUSPENDED"
    BY <1>1, <2>1, NotReadyNotQueued, AddReady DEF Resume, Keeps
  <2>2. CASE n.state[t] # "SUSPENDED"
    BY <2>2 DEF Resume
  <2> QED BY <2>1, <2>2
<1> QED BY <1>2, <1>3, <1>5, <1>6

\* A task that found an owner is still in its lock call, and the owner still has the
\* mutex: a release makes the waiters forget whom they saw.
SawOwner ==
  \A t \in Tasks :
    saw[t] # NULL => /\ pc[t] \in {"lock", "lock_timeout", "lock_yield"}
                     /\ mutex[arg[t]].owner = saw[t]

BoostInv == SawOwner /\ Inheritance

OneMutex == \A m, n \in Mutexes : m = n

\* Steps that change no priority and no mutex, after which no task is newly waiting
\* and no owner has left os_mutex_unlock.
LEMMA BoostKept ==
  ASSUME IInv, BoostInv, LocalsOK', NEW t \in Tasks,
         UNCHANGED mutex, k'.priority = k.priority,
         \A u \in Tasks : u # t => pc'[u] = pc[u] /\ arg'[u] = arg[u] /\ saw'[u] = saw[u],
         \/ saw'[t] = NULL
         \/ /\ saw'[t] = saw[t] /\ arg'[t] = arg[t]
            /\ \/ pc'[t] \in {"lock", "lock_timeout", "lock_yield"}
               \/ pc'[t] = pc[t],
         pc[t] = "unlock_release" => pc'[t] = "unlock_release"
  PROVE  BoostInv'
<1>1. \A u \in Tasks : saw'[u] # NULL => saw'[u] = saw[u] /\ arg'[u] = arg[u]
  OBVIOUS
<1>2. SawOwner'
  <2> SUFFICES ASSUME NEW u \in Tasks, saw'[u] # NULL
               PROVE  /\ pc'[u] \in {"lock", "lock_timeout", "lock_yield"}
                      /\ mutex'[arg'[u]].owner = saw'[u]
    BY DEF SawOwner
  <2>1. /\ pc[u] \in {"lock", "lock_timeout", "lock_yield"}
        /\ mutex[arg[u]].owner = saw[u]
    BY <1>1 DEF BoostInv, SawOwner
  <2> QED BY <1>1, <2>1
<1>3. Inheritance'
  <2> SUFFICES ASSUME NEW u \in Tasks, saw'[u] # NULL, pc'[saw'[u]] # "unlock_release"
               PROVE  k'.priority[saw'[u]] <= k'.priority[u]
    BY DEF Inheritance
  <2>1. saw[u] \in Tasks /\ saw[u] # NULL /\ saw'[u] = saw[u]
    BY <1>1 DEF IInv, LockInv, LocalsOK
  <2>2. pc[saw[u]] # "unlock_release"
    BY <2>1
  <2> QED BY <2>1, <2>2 DEF BoostInv, Inheritance
<1> QED BY <1>2, <1>3 DEF BoostInv

\* Everybody who waits for the only mutex forgets the owner it saw.
LEMMA ReleaseBoost ==
  ASSUME LockInv, OneMutex, NEW t \in Tasks, NEW m \in Mutexes, Release(t, m)
  PROVE  BoostInv'
<1>1. \A u \in Tasks : arg[u] = m
  BY DEF LockInv, LocalsOK, OneMutex
<1>2. \A u \in Tasks : saw'[u] = NULL
  BY <1>1 DEF Release
<1> QED BY <1>2 DEF BoostInv, SawOwner, Inheritance

LEMMA InheritBoost ==
  ASSUME IInv, BoostInv, OneMutex, NEW t \in Tasks, Inherit(t)
  PROVE  BoostInv'
<1> DEFINE m == arg[t]
           owner == mutex[m].owner
<1>1. /\ m \in Mutexes /\ owner \in Tasks
      /\ pc \in [Tasks -> Location] /\ saw \in [Tasks -> Tasks \cup {NULL}]
      /\ \A u \in Tasks : arg[u] = m
  BY DEF IInv, LockInv, LocalsOK, MutualExclusion, Inherit, OneMutex
<1>2. /\ UNCHANGED <<mutex, arg>>
      /\ saw' = [saw EXCEPT ![t] = owner]
      /\ pc' = [pc EXCEPT ![t] = "lock_timeout"]
      /\ pc[t] = "lock"
  BY DEF Inherit, Goto, At
<1>3. k.priority \in [Tasks -> Prio]
  BY DEF IInv, KernelOK, QueuesOK, KernelValue
<1>4. k'.priority = [k.priority EXCEPT ![owner] = IF k.priority[t] < k.priority[owner]
                                                  THEN k.priority[t] ELSE k.priority[owner]]
  <2>1. CASE k.priority[t] < k.priority[owner]
    <3>1. k' = Requeue(k, owner, k.priority[t])
      BY <1>1, <2>1, SchedAssumption DEF Inherit
    <3>2. k'.priority = [k.priority EXCEPT ![owner] = k.priority[t]]
      BY <1>1, <1>3, <3>1, RequeueManages DEF IInv, KernelOK
    <3> QED BY <2>1, <3>2
  <2>2. CASE ~(k.priority[t] < k.priority[owner])
    BY <1>3, <2>2 DEF Inherit
  <2> QED BY <2>1, <2>2
<1>5. SawOwner'
  BY <1>1, <1>2 DEF BoostInv, SawOwner
<1>6. Inheritance'
  <2> SUFFICES ASSUME NEW u \in Tasks, saw'[u] # NULL, pc'[saw'[u]] # "unlock_release"
               PROVE  k'.priority[saw'[u]] <= k'.priority[u]
    BY DEF Inheritance
  <2>1. saw'[u] = owner
    BY <1>1, <1>2 DEF BoostInv, SawOwner
  <2>2. CASE u = t
    BY <1>1, <1>3, <1>4, <2>1, <2>2, SchedAssumption DEF Prio
  <2>3. CASE u # t
    <3>1. saw[u] = owner /\ saw[u] # NULL /\ pc[owner] # "unlock_release"
      BY <1>1, <1>2, <2>1, <2>3
    <3>2. k.priority[owner] <= k.priority[u]
      BY <3>1 DEF BoostInv, Inheritance
    <3> QED BY <1>1, <1>3, <1>4, <2>1, <3>2, SchedAssumption DEF Prio
  <2> QED BY <2>2, <2>3
<1> QED BY <1>5, <1>6 DEF BoostInv

LEMMA BoostStep ==
  ASSUME IInv, BoostInv, OneMutex, [Next]_vars PROVE BoostInv'
<1>1. LockInv /\ KernelOK(k) /\ LocalsOK' /\ LocalsOK
  BY LockStep DEF IInv, LockInv
<1>2. CASE UNCHANGED vars
  BY <1>2 DEF vars, BoostInv, SawOwner, Inheritance
<1>3. CASE Tick
  <2>1. k'.priority = k.priority
    BY <1>1, <1>3, PriorityKept, SchedAssumption DEF Tick
  <2> QED BY <1>3, <2>1 DEF Tick, BoostInv, SawOwner, Inheritance
<1>4. ASSUME NEW t \in Tasks, os_task_resume(t) PROVE BoostInv'
  <2>1. k'.priority = k.priority
    BY <1>1, <1>4, PriorityKept DEF os_task_resume
  <2> QED BY <1>4, <2>1 DEF os_task_resume, BoostInv, SawOwner, Inheritance
<1>5. ASSUME NEW t \in Tasks,
             \/ \E m \in Mutexes, timeout \in Timeouts : os_mutex_lock(t, m, timeout)
             \/ LockTimeout(t) \/ LockYield(t) \/ FinalYield(t)
             \/ os_task_yield(t) \/ os_task_suspend(t)
      PROVE  BoostInv'
  <2>1. k'.priority = k.priority
    BY <1>1, <1>5, PriorityKept
       DEF os_mutex_lock, LockTimeout, LockYield, FinalYield, os_task_yield, os_task_suspend
  <2>2. UNCHANGED mutex
    BY <1>5
       DEF os_mutex_lock, LockTimeout, LockYield, FinalYield, os_task_yield, os_task_suspend
  <2>3. \A u \in Tasks : u # t => pc'[u] = pc[u] /\ arg'[u] = arg[u] /\ saw'[u] = saw[u]
    BY <1>1, <1>5
       DEF os_mutex_lock, LockTimeout, LockYield, FinalYield, os_task_yield, os_task_suspend,
           Calls, Goto, LocalsOK
  <2>4. CASE pc[t] \in {"run", "yield"}
    <3>1. saw[t] = NULL /\ UNCHANGED saw
      BY <1>5, <2>4
         DEF BoostInv, SawOwner, os_mutex_lock, LockTimeout, LockYield, FinalYield,
             os_task_yield, os_task_suspend, At
    <3> QED BY <1>1, <2>1, <2>2, <2>3, <2>4, <3>1, BoostKept
  <2>5. CASE pc[t] \in {"lock_timeout", "lock_yield"}
    <3>1. /\ LockTimeout(t) \/ LockYield(t)
          /\ UNCHANGED arg
      BY <1>5, <2>5
         DEF os_mutex_lock, LockTimeout, LockYield, FinalYield, os_task_yield,
             os_task_suspend, At
    <3>2. \/ saw'[t] = NULL
          \/ /\ saw'[t] = saw[t] /\ arg'[t] = arg[t]
             /\ \/ pc'[t] \in {"lock", "lock_timeout", "lock_yield"}
                \/ pc'[t] = pc[t]
      BY <1>1, <3>1 DEF LockTimeout, LockYield, Goto, LocalsOK
    <3>3. pc[t] # "unlock_release"
      BY <2>5
    <3> QED BY <1>1, <2>1, <2>2, <2>3, <3>2, <3>3, BoostKept
  <2> QED BY <1>5, <2>4, <2>5
         DEF os_mutex_lock, LockTimeout, LockYield, FinalYield, os_task_yield,
             os_task_suspend, At
<1>6. ASSUME NEW t \in Tasks, Acquire(t) PROVE BoostInv'
  <2>1. \A u \in Tasks : saw[u] = NULL
    <3>1. arg[t] \in Mutexes /\ mutex[arg[t]].owner = NULL /\ \A u \in Tasks : arg[u] = arg[t]
      BY <1>1, <1>6 DEF Acquire, LockInv, LocalsOK, MutualExclusion, OneMutex
    <3> QED BY <3>1 DEF BoostInv, SawOwner
  <2> QED BY <1>6, <2>1 DEF Acquire, BoostInv, SawOwner, Inheritance
<1>7. ASSUME NEW t \in Tasks, NEW m \in Mutexes, UnlockUnboosted(t, m) PROVE BoostInv'
  BY <1>1, <1>7, ReleaseBoost DEF UnlockUnboosted
<1>8. ASSUME NEW t \in Tasks, UnlockRelease(t) PROVE BoostInv'
  BY <1>1, <1>8, ReleaseBoost DEF UnlockRelease, LocalsOK
<1>9. ASSUME NEW t \in Tasks, NEW m \in Mutexes, UnlockBoosted(t, m) PROVE BoostInv'
  <2>1. /\ pc' = [pc EXCEPT ![t] = "unlock_release"] /\ pc[t] = "run"
        /\ arg' = [arg EXCEPT ![t] = m] /\ UNCHANGED <<mutex, saw>>
        /\ mutex[m].owner = t
    BY <1>9 DEF UnlockBoosted, Calls, Goto, At
  <2>2. \A u \in Tasks : arg[u] = m
    BY <1>1 DEF LocalsOK, OneMutex
  <2>3. \A u \in Tasks : saw[u] # NULL => u # t /\ saw[u] = t
    BY <2>1, <2>2 DEF BoostInv, SawOwner
  <2>4. SawOwner'
    BY <1>1, <2>1, <2>3 DEF LocalsOK, BoostInv, SawOwner
  <2>5. Inheritance'
    BY <1>1, <2>1, <2>3 DEF LocalsOK, Inheritance
  <2> QED BY <2>4, <2>5 DEF BoostInv
<1> QED
  BY <1>2, <1>3, <1>4, <1>5, <1>6, <1>7, <1>8, <1>9, InheritBoost DEF Next, TaskStep

-----------------------------------------------------------------------------
LEMMA IInvHolds == Spec => []IInv
<1>1. Init => IInv
  BY InitOK
<1>2. IInv /\ [Next]_vars => IInv'
  BY KernelStep, LockStep DEF IInv
<1> QED BY <1>1, <1>2, PTL DEF Spec

\* A mutex that a task has locked is that task's alone until it unlocks it, for every
\* number of tasks and mutexes (os_mutex_lock and os_mutex_unlock, which may be switched
\* out in the middle of its critical section).
THEOREM MutualExclusionHolds == Spec => []MutualExclusion
<1>1. IInv => MutualExclusion
  BY DEF IInv, LockInv
<1> QED BY <1>1, IInvHolds, PTL

\* Priority inheritance leaves the ready queues, the bitmap and the task states
\* consistent (os_task_raise_priority and os_task_reset_priority on a task that is
\* queued, running or suspended).
THEOREM KernelConsistentHolds == Spec => []KernelConsistent
<1>1. IInv => KernelConsistent
  BY DEF IInv, KernelOK, QueuesOK, KernelConsistent
<1> QED BY <1>1, IInvHolds, PTL

\* Every variable keeps its type.
THEOREM MutexTypeOK == Spec => []TypeOK
<1>1. IInv => TypeOK
  BY DEF IInv, LockInv, LocalsOK, KernelOK, QueuesOK, TypeOK
<1> QED BY <1>1, IInvHolds, PTL

\* While a task waits for the mutex, the owner it found there has its priority or a higher
\* one until it starts to unlock, for any number of tasks and priorities that share one
\* mutex.  With two, an unlock of one takes away what a waiter for the other gave.
THEOREM InheritanceHolds == ASSUME OneMutex PROVE Spec => []Inheritance
<1>1. Init => BoostInv
  BY DEF Init, BoostInv, SawOwner, Inheritance
<1>2. IInv /\ BoostInv /\ [Next]_vars => BoostInv'
  BY BoostStep
<1>3. BoostInv => Inheritance
  BY DEF BoostInv
<1> QED BY <1>1, <1>2, <1>3, IInvHolds, PTL DEF Spec
=============================================================================
