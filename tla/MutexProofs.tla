----------------------------- MODULE MutexProofs -----------------------------
(***************************************************************************)
(* Mutexes, for any threads, priorities, mutexes and depth of recursion.   *)
(* The invariants are inductive together with where each thread is: who is *)
(* suspended is inside rt_mutex_take, or sleeps, has no error set, and     *)
(* does not run on before rt_schedule has switched away from it.           *)
(***************************************************************************)
EXTENDS Mutex, KernelProofs

Place == [at : Where, on : Mutexes \cup {Nobody}]

(* Which mutex a call is about *)
PlaceOK ==
  \A t \in Thread :
    /\ pc[t].at \in {"take_sched", "take_return", "detach_loop", "detach_resume"}
         => pc[t].on \in Mutexes
    /\ pc[t].at \in {"sleep_sched", "sleep_return"} => pc[t].on = Nobody

(* There is always a thread for rt_schedule to run: the idle thread.        *)
SchedulerRuns ==
  /\ k.lock = 0
  /\ \A t \in Thread : k.stat[t] \in Living
  /\ pc[Idle] = User

InTake(t) == pc[t].at \in {"take_sched", "take_return"}
InWait(t) == InTake(t) \/ pc[t].at \in {"sleep_sched", "sleep_return"}

(* Who sleeps is inside a call that waits, for the mutex of that call.      *)
WaitersInTake ==
  \A t \in Thread : k.stat[t] = "SUSPEND" =>
    /\ InWait(t)
    /\ \A m \in Mutexes : t \in On(k, m) => pc[t].on = m /\ k.err[t] = "EOK"

(* A suspended thread stays current up to its rt_schedule and no longer.    *)
NotPastSchedule ==
  k.stat[k.current] = "SUSPEND" => pc[k.current].at \in {"take_sched", "sleep_sched"}

(* An owned mutex knows the priority to give back. *)
OriginalKnown ==
  \A m \in Mutexes : mutex[m].owner # Nobody => mutex[m].original \in Prio

MutexInv ==
  /\ TypeOK
  /\ Consistent
  /\ OwnerExact
  /\ HonestReturn
  /\ PlaceOK
  /\ SchedulerRuns
  /\ WaitersInTake
  /\ NotPastSchedule
  /\ OriginalKnown

-----------------------------------------------------------------------------
(* The two ways in which a step changes the kernel, apart from the start of *)
(* a wait: it wakes nobody, or it wakes t and leaves e in its thread->error.*)
Keeps(r) ==
  /\ KernelOK(r)
  /\ \A q \in Queue : On(r, q) = On(k, q)
  /\ \A u \in Thread : r.stat[u] = "SUSPEND" <=> k.stat[u] = "SUSPEND"
  /\ \A u \in Thread : r.stat[u] \in Living
  /\ \A u \in Thread : InTake(u) => r.err[u] = k.err[u]
  /\ r.armed = k.armed /\ r.lock = k.lock /\ Thins(k, r)

Wakes(r, t, e) ==
  /\ KernelOK(r)
  /\ \A q \in Queue : On(r, q) = On(k, q) \ {t}
  /\ \A u \in Thread : r.stat[u] = "SUSPEND" <=> k.stat[u] = "SUSPEND" /\ u # t
  /\ \A u \in Thread : r.stat[u] \in Living
  /\ \A u \in Thread : InTake(u) => r.err[u] = IF u = t THEN e ELSE k.err[u]
  /\ r.armed = k.armed \ {t} /\ r.lock = k.lock /\ Thins(k, r)

(* The places of the threads after a step: who sleeps stays where it is or  *)
(* passes its rt_schedule, and nobody enters rt_mutex_take.                 *)
Places ==
  /\ pc' \in [Thread -> Place] /\ PlaceOK' /\ pc'[Idle] = User
  /\ \A u \in Thread : k.stat[u] = "SUSPEND" => pc'[u].on = pc[u].on /\ InWait(u)'
  /\ \A u \in Thread : InTake(u)' => InTake(u) /\ pc'[u].on = pc[u].on

Running(r) == r.stat[r.current] = "RUNNING"

(* A mutex has a wait list, and Nobody is no thread and no mutex            *)
LEMMA Kinds ==
  /\ \A m \in Mutexes : m \in Queue /\ m \in ListId
  /\ Nobody \notin Thread /\ Nobody \notin Mutexes /\ Idle \in Thread
BY MutexAssumption, ListKinds

(* What the invariant says of the kernel and of the running thread *)
LEMMA KernelFacts ==
  ASSUME MutexInv
  PROVE  /\ KernelOK(k) /\ k \in KernelState /\ k.current \in Thread
         /\ \A t \in Thread : k.stat[t] = "RUNNING" => t = k.current
         /\ \A t \in k.armed : t \in Thread /\ k.stat[t] = "SUSPEND"
         /\ \A t \in Thread, m \in Mutexes : t \in On(k, m) => k.stat[t] = "SUSPEND"
         /\ Idle \in Thread /\ k.stat[Idle] \in {"READY", "RUNNING"} /\ k.lock = 0
         /\ pc \in [Thread -> Place]
<1>1. /\ KernelOK(k) /\ k \in KernelState /\ k.current \in Thread
      /\ \A t \in Thread : k.stat[t] = "RUNNING" => t = k.current
  BY DEF MutexInv, TypeOK, Consistent, KernelOK, KernelConsistent, KernelState, RunningIsCurrent
<1>2. \A t \in k.armed : t \in Thread /\ k.stat[t] = "SUSPEND"
  BY <1>1 DEF KernelOK, KernelConsistent, KernelState, TimersForSuspended
<1>3. \A t \in Thread, m \in Mutexes : t \in On(k, m) => k.stat[t] = "SUSPEND"
  BY <1>1, Kinds DEF KernelOK, KernelConsistent, WaitersSuspended
<1>4. Idle \in Thread /\ k.stat[Idle] \in {"READY", "RUNNING"} /\ k.lock = 0
  BY Kinds DEF MutexInv, SchedulerRuns, WaitersInTake, InWait, InTake, User, Living
<1> QED
  BY <1>1, <1>2, <1>3, <1>4 DEF MutexInv, TypeOK, Place

-----------------------------------------------------------------------------
(* The functions of the kernel, as the mutex functions use them *)
LEMMA Unscheduled ==
  ASSUME MutexInv, UNCHANGED k
  PROVE  Keeps(k')
BY KernelFacts DEF Keeps, MutexInv, SchedulerRuns, KernelOK, KernelConsistent, RunningIsCurrent, Thins

(* Setting an error code moves no thread                                    *)
LEMMA ErrorKeeps ==
  ASSUME MutexInv, NEW t \in Thread, ~InTake(t), NEW e \in Err
  PROVE  LET r == SetError(k, t, e) IN
         Keeps(r) /\ r.current = k.current /\ r.prio = k.prio /\ r.stat = k.stat
<1> DEFINE r == SetError(k, t, e)
<1>1. /\ KernelOK(r) /\ r.stat = k.stat /\ r.current = k.current
      /\ r.lock = k.lock /\ r.err = [k.err EXCEPT ![t] = e]
      /\ r.armed = k.armed /\ r.prio = k.prio
      /\ \A l \in ListId : On(r, l) = On(k, l)
  BY KernelFacts, ErrorOK DEF SetError
<1>4. Thins(k, r)
  BY KernelFacts DEF SetError, KernelState, Thins
<1> HIDE DEF r
<1>2. \A u \in Thread : InTake(u) => r.err[u] = k.err[u]
  BY <1>1
<1>3. \A u \in Thread : r.stat[u] \in Living
  BY <1>1 DEF MutexInv, SchedulerRuns
<1> QED
  BY <1>1, <1>2, <1>3, <1>4, ListKinds DEF Keeps, r

(* rt_schedule wakes nobody and leaves a thread that runs                   *)
LEMMA ScheduleKeeps ==
  ASSUME MutexInv
  PROVE  Keeps(Schedule(k)) /\ Running(Schedule(k)) /\ Schedule(k).prio = k.prio
<1>1. KernelOK(Schedule(k)) /\ WakesNobody(k, Schedule(k)) /\ Thins(k, Schedule(k))
  BY KernelFacts, ScheduleOK, ScheduleThins
<1>2. Running(Schedule(k))
  BY KernelFacts, ScheduleRuns DEF Running
<1>3. \A u \in Thread : Schedule(k).stat[u] \in Living
  BY <1>1 DEF MutexInv, SchedulerRuns, WakesNobody
<1> QED
  BY <1>1, <1>2, <1>3 DEF Keeps, WakesNobody

(* A time-out takes a waiter off its list and leaves RT_ETIMEOUT            *)
LEMMA TimedOut ==
  ASSUME MutexInv, NEW t \in k.armed
  PROVE  LET r == Timeout(k, t) IN
         Wakes(r, t, "ETIMEOUT") /\ Running(r) /\ r.prio = k.prio
<1> DEFINE r == Timeout(k, t)
<1>1. /\ KernelOK(r) /\ OnlyWakes(k, r, t) /\ r.err = [k.err EXCEPT ![t] = "ETIMEOUT"]
      /\ Running(r) /\ Thins(k, r)
  BY KernelFacts, TimeoutOK, TimeoutThins DEF Running
<1> HIDE DEF r
<1>2. \A u \in Thread : InTake(u) => r.err[u] = IF u = t THEN "ETIMEOUT" ELSE k.err[u]
  BY <1>1, KernelFacts DEF KernelState
<1>3. \A u \in Thread : r.stat[u] \in Living
  BY <1>1 DEF MutexInv, SchedulerRuns, OnlyWakes
<1> QED
  BY <1>1, <1>2, <1>3 DEF Wakes, OnlyWakes, r

(* The end of inheritance: the running owner has its priority changed.      *)
LEMMA RestoredKeeps ==
  ASSUME MutexInv, NEW t \in Thread, k.stat[t] = "RUNNING",
         NEW m \in Mutexes, mutex[m].owner = t
  PROVE  LET r == Restored(t, m) IN
         /\ Keeps(r) /\ r.list = k.list /\ r.stat = k.stat /\ r.current = k.current
         /\ r.err = k.err /\ mutex[m].original \in Prio
         /\ r.prio = [k.prio EXCEPT ![t] = mutex[m].original]
<1> DEFINE p == mutex[m].original
           r == Restored(t, m)
<1>1. p \in Prio /\ k.prio \in [Thread -> Prio]
  BY KernelFacts, Kinds DEF MutexInv, OriginalKnown, KernelState
<1> HIDE DEF p
<1>2. CASE p # k.prio[t]
  <2>1. r = ChangePriority(k, t, p)
    BY <1>2 DEF Restored, p
  <2>2. r.list = k.list
    BY <2>1, KernelFacts DEF KernelState, ChangePriority
  <2>3. /\ KernelOK(r) /\ r.stat = k.stat /\ r.err = k.err /\ r.armed = k.armed
        /\ r.current = k.current /\ r.lock = k.lock /\ r.prio = [k.prio EXCEPT ![t] = p]
        /\ \A q \in Queue : On(r, q) = On(k, q)
    <3>1. KernelOK(k)
      BY KernelFacts
    <3> HIDE DEF r
    <3> QED
      BY <1>1, <2>1, <3>1, ChangePriorityOK
  <2> HIDE DEF r
  <2>4. Keeps(r)
    BY <2>2, <2>3 DEF Keeps, MutexInv, SchedulerRuns, Thins
  <2> QED
    BY <1>1, <2>2, <2>3, <2>4 DEF r, p
<1>3. CASE p = k.prio[t]
  <2>1. r = k /\ k.prio = [k.prio EXCEPT ![t] = p]
    BY <1>1, <1>3 DEF Restored, p
  <2>2. Keeps(k)
    BY KernelFacts DEF Keeps, MutexInv, SchedulerRuns, Thins
  <2> QED
    BY <1>1, <2>1, <2>2 DEF r, p
<1> QED
  BY <1>2, <1>3

(* Hand-over: the priority of the owner goes back, and the first waiter is  *)
(* resumed.                                                                 *)
LEMMA HandedOver ==
  ASSUME MutexInv, NEW t \in Thread, k.stat[t] = "RUNNING",
         NEW m \in Mutexes, mutex[m].owner = t, Waiting(m) # <<>>
  PROVE  LET h == Head(Waiting(m))
             r == IpcResume(Restored(t, m), m)
         IN  /\ h \in Thread /\ h \in On(k, m) /\ h # t
             /\ Wakes(r, h, "EOK") /\ r.current = k.current
             /\ r.prio = [k.prio EXCEPT ![t] = mutex[m].original]
<1> DEFINE h == Head(Waiting(m))
           b == Restored(t, m)
           r == IpcResume(b, m)
<1>1. /\ Keeps(b) /\ b.list = k.list /\ b.stat = k.stat /\ b.current = k.current
      /\ b.err = k.err /\ b.prio = [k.prio EXCEPT ![t] = mutex[m].original]
  BY RestoredKeeps
<1> HIDE DEF b
<1>2. h \in Thread /\ k.stat[h] = "SUSPEND" /\ h \in On(k, m)
  <2>1. k.list[m] \in Seq(Thread)
    BY KernelFacts, Kinds, ListType
  <2> QED
    BY <2>1, KernelFacts, Kinds, FirstWaiter, HeadOfList DEF Waiting, On
<1>3. r = Resume(b, h)
  BY <1>1 DEF IpcResume, Waiting
<1> HIDE DEF h, r
<1>4. /\ KernelOK(r) /\ OnlyWakes(b, r, h) /\ r.err = b.err /\ r.current = b.current
      /\ Thins(b, r)
  BY <1>1, <1>2, <1>3, ResumeOK, ResumeThins DEF Keeps, KernelOK
<1>5. InTake(h) => r.err[h] = "EOK"
  BY <1>1, <1>2, <1>4 DEF MutexInv, WaitersInTake
<1>6. Wakes(r, h, "EOK")
  BY <1>1, <1>4, <1>5 DEF Wakes, Keeps, OnlyWakes, Thins
<1> QED
  BY <1>1, <1>2, <1>4, <1>6 DEF OnlyWakes, h, b, r

(* One round of rt_ipc_list_resume_all *)
LEMMA ResumedWithError ==
  ASSUME MutexInv, NEW m \in Mutexes, Waiting(m) # <<>>
  PROVE  LET h == Head(Waiting(m))
             r == IpcResumeWithError(k, m)
         IN  /\ h \in Thread /\ h \in On(k, m)
             /\ Wakes(r, h, "ERROR") /\ r.current = k.current /\ r.prio = k.prio
<1> DEFINE h == Head(Waiting(m))
           e == [k EXCEPT !.err[h] = "ERROR"]
           r == IpcResumeWithError(k, m)
<1>1. h \in Thread /\ k.stat[h] = "SUSPEND" /\ h \in On(k, m)
  <2>1. k.list[m] \in Seq(Thread)
    BY KernelFacts, Kinds, ListType
  <2> QED
    BY <2>1, KernelFacts, Kinds, FirstWaiter, HeadOfList DEF Waiting, On
<1>2. r = Resume(e, h)
  BY DEF IpcResumeWithError, Waiting
<1> HIDE DEF h, r
<1>3. /\ KernelOK(e) /\ e.stat = k.stat /\ e.current = k.current /\ e.lock = k.lock
      /\ e.err = [k.err EXCEPT ![h] = "ERROR"] /\ e.prio = k.prio /\ e.armed = k.armed
      /\ \A l \in ListId : On(e, l) = On(k, l)
  <2>1. KernelOK(k) /\ "ERROR" \in Err /\ h \in Thread
    BY <1>1, KernelFacts DEF Err
  <2> QED
    BY <2>1, ErrorOK
<1>8. e.list = k.list
  BY KernelFacts DEF KernelState
<1> HIDE DEF e
<1>4. /\ KernelOK(r) /\ OnlyWakes(e, r, h) /\ r.err = e.err /\ r.current = e.current
      /\ Thins(k, r)
  BY <1>1, <1>2, <1>3, <1>8, ResumeOK, ResumeThins DEF KernelOK, Thins
<1>5. \A u \in Thread : r.err[u] = IF u = h THEN "ERROR" ELSE k.err[u]
  BY <1>1, <1>3, <1>4, KernelFacts DEF KernelState
<1>6. \A u \in Thread : r.stat[u] \in Living
  BY <1>3, <1>4 DEF MutexInv, SchedulerRuns, OnlyWakes
<1>7. Wakes(r, h, "ERROR")
  BY <1>3, <1>4, <1>5, <1>6, ListKinds DEF Wakes, OnlyWakes
<1> QED
  BY <1>1, <1>3, <1>4, <1>7 DEF OnlyWakes, h, r
-----------------------------------------------------------------------------
(* The parts of the invariant that say where threads wait survive a step    *)
(* that wakes nobody,                                                       *)
LEMMA KeepsWait ==
  ASSUME MutexInv, Keeps(k'), Places
  PROVE  /\ k' \in KernelState /\ pc' \in [Thread -> Place]
         /\ Consistent' /\ PlaceOK' /\ SchedulerRuns' /\ WaitersInTake'
<1>1. k' \in KernelState /\ pc' \in [Thread -> Place] /\ PlaceOK' /\ KernelConsistent(k')
  BY DEF Keeps, Places, KernelOK
<1>2. SchedulerRuns'
  BY DEF Keeps, Places, MutexInv, SchedulerRuns
<1>3. Consistent'
  BY <1>1, Kinds DEF Keeps, Places, MutexInv, Consistent
<1>4. WaitersInTake'
  <2> SUFFICES ASSUME NEW t \in Thread, k'.stat[t] = "SUSPEND"
               PROVE  /\ InWait(t)'
                      /\ \A m \in Mutexes : t \in On(k', m) => pc'[t].on = m /\ k'.err[t] = "EOK"
    BY DEF WaitersInTake
  <2>1. k.stat[t] = "SUSPEND" /\ InWait(t)' /\ pc'[t].on = pc[t].on
    BY DEF Keeps, Places
  <2>2. ASSUME NEW m \in Mutexes, t \in On(k', m)
        PROVE  pc'[t].on = m /\ k'.err[t] = "EOK"
    <3>1. t \in On(k, m) /\ pc[t].on = m /\ k.err[t] = "EOK" /\ InWait(t)
      BY <2>1, <2>2, Kinds DEF Keeps, MutexInv, WaitersInTake
    <3>2. InTake(t)
      BY <3>1, Kinds DEF InWait, MutexInv, PlaceOK
    <3> QED
      BY <2>1, <3>1, <3>2 DEF Keeps
  <2> QED
    BY <2>1, <2>2
<1> QED
  BY <1>1, <1>2, <1>3, <1>4

(* and one that wakes a thread.                                             *)
LEMMA WakesWait ==
  ASSUME MutexInv, NEW t \in Thread, NEW e, Wakes(k', t, e), Places
  PROVE  /\ k' \in KernelState /\ pc' \in [Thread -> Place]
         /\ Consistent' /\ PlaceOK' /\ SchedulerRuns' /\ WaitersInTake'
<1>1. k' \in KernelState /\ pc' \in [Thread -> Place] /\ PlaceOK' /\ KernelConsistent(k')
  BY DEF Wakes, Places, KernelOK
<1>2. SchedulerRuns'
  BY DEF Wakes, Places, MutexInv, SchedulerRuns
<1>3. Consistent'
  BY <1>1, Kinds DEF Wakes, Places, MutexInv, Consistent
<1>4. WaitersInTake'
  <2> SUFFICES ASSUME NEW u \in Thread, k'.stat[u] = "SUSPEND"
               PROVE  /\ InWait(u)'
                      /\ \A m \in Mutexes : u \in On(k', m) => pc'[u].on = m /\ k'.err[u] = "EOK"
    BY DEF WaitersInTake
  <2>1. k.stat[u] = "SUSPEND" /\ u # t /\ InWait(u)' /\ pc'[u].on = pc[u].on
    BY DEF Wakes, Places
  <2>2. ASSUME NEW m \in Mutexes, u \in On(k', m)
        PROVE  pc'[u].on = m /\ k'.err[u] = "EOK"
    <3>1. u \in On(k, m) /\ pc[u].on = m /\ k.err[u] = "EOK" /\ InWait(u)
      BY <2>1, <2>2, Kinds DEF Wakes, MutexInv, WaitersInTake
    <3>2. InTake(u)
      BY <3>1, Kinds DEF InWait, MutexInv, PlaceOK
    <3> QED
      BY <2>1, <3>1, <3>2 DEF Wakes
  <2> QED
    BY <2>1, <2>2
<1> QED
  BY <1>1, <1>2, <1>3, <1>4

(* With the mutexes unchanged, what they say of their owners stays true as  *)
(* well; a thread that is woken owns nothing, and has an error.             *)
LEMMA KeepsOwner ==
  ASSUME MutexInv, Keeps(k'), Places, UNCHANGED mutex
  PROVE  OwnerExact' /\ HonestReturn' /\ OriginalKnown'
<1>1. \A m \in Mutexes : /\ On(k', m) = On(k, m)
                         /\ Waiting(m) = <<>> => Waiting(m)' = <<>>
  <2> TAKE m \in Mutexes
  <2>1. On(k', m) = On(k, m) /\ k' \in KernelState /\ m \in ListId
    BY Kinds DEF Keeps, KernelOK
  <2> QED
    BY <2>1, KernelFacts, EmptyOn DEF Waiting
<1>2. OwnerExact' /\ OriginalKnown'
  BY <1>1 DEF MutexInv, OwnerExact, OriginalKnown
<1>3. HonestReturn'
  BY DEF MutexInv, HonestReturn, Blocked, Keeps, Places, InTake
<1> QED
  BY <1>2, <1>3

(* Waking a waiter keeps the owner of every mutex                           *)
LEMMA WakesOwner ==
  ASSUME MutexInv, NEW t \in Thread, k.stat[t] = "SUSPEND", NEW e, e # "EOK",
         Wakes(k', t, e), Places, UNCHANGED mutex
  PROVE  OwnerExact' /\ HonestReturn' /\ OriginalKnown'
<1>1. \A m \in Mutexes : /\ On(k', m) = On(k, m) \ {t}
                         /\ Waiting(m) = <<>> => Waiting(m)' = <<>>
  <2> TAKE m \in Mutexes
  <2>1. On(k', m) = On(k, m) \ {t} /\ k' \in KernelState /\ m \in ListId
    BY Kinds DEF Wakes, KernelOK
  <2> QED
    BY <2>1, KernelFacts, EmptyOn DEF Waiting
<1>2. OwnerExact' /\ OriginalKnown'
  BY <1>1 DEF MutexInv, OwnerExact, OriginalKnown
<1>3. HonestReturn'
  <2> SUFFICES ASSUME NEW u \in Thread, NEW m \in Mutexes, Blocked(u, m)', k'.stat[u] # "SUSPEND"
               PROVE  k'.err[u] = "EOK" <=> mutex[m].owner = u
    BY DEF HonestReturn
  <2>1. Blocked(u, m) /\ InTake(u)
    BY DEF Blocked, Places, InTake
  <2>2. CASE u = t
    <3>1. u \in On(k, m)
      BY <2>1, <2>2 DEF MutexInv, Consistent, Blocked
    <3> QED
      BY <2>1, <2>2, <3>1 DEF Wakes, MutexInv, OwnerExact
  <2>3. CASE u # t
    BY <2>1, <2>3 DEF Wakes, MutexInv, HonestReturn
  <2> QED
    BY <2>2, <2>3
<1> QED
  BY <1>2, <1>3

(* Where the threads are after a step of the running thread t: t leaves its *)
(* call or goes on in one that does not wait.                               *)
LEMMA SamePlaces ==
  ASSUME MutexInv, UNCHANGED pc
  PROVE  Places
BY DEF Places, MutexInv, TypeOK, Place, SchedulerRuns, PlaceOK, WaitersInTake, InWait, InTake

(* A thread that does not wait goes on in its calls                         *)
LEMMA MovesPlaces ==
  ASSUME MutexInv, NEW t \in Thread, t # Idle, k.stat[t] # "SUSPEND", NEW p \in Place,
         p.at \notin {"take_sched", "take_return", "sleep_sched", "sleep_return"},
         p.at \in {"detach_loop", "detach_resume"} => p.on \in Mutexes,
         pc' = [pc EXCEPT ![t] = p]
  PROVE  Places
<1>1. pc \in [Thread -> Place] /\ pc' \in [Thread -> Place]
  BY KernelFacts
<1>2. \A u \in Thread : pc'[u] = IF u = t THEN p ELSE pc[u]
  BY <1>1
<1>3. PlaceOK'
  BY <1>2 DEF MutexInv, PlaceOK
<1>4. pc'[Idle] = User
  BY <1>2, Kinds DEF MutexInv, SchedulerRuns
<1>5. \A u \in Thread : k.stat[u] = "SUSPEND" => pc'[u].on = pc[u].on /\ InWait(u)'
  BY <1>2 DEF MutexInv, WaitersInTake, InWait, InTake
<1>6. \A u \in Thread : InTake(u)' => InTake(u) /\ pc'[u].on = pc[u].on
  BY <1>2 DEF InTake
<1> QED
  BY <1>1, <1>3, <1>4, <1>5, <1>6 DEF Places

(* Past its rt_schedule, a thread is at the return of its call.             *)
LEMMA ScheduledPlaces ==
  ASSUME MutexInv, NEW t \in Thread,
         \/ pc[t].at = "take_sched" /\ pc' = [pc EXCEPT ![t] = [at |-> "take_return", on |-> pc[t].on]]
         \/ pc[t].at = "sleep_sched" /\ pc' = [pc EXCEPT ![t] = [at |-> "sleep_return", on |-> Nobody]]
  PROVE  Places
<1>1. pc \in [Thread -> Place] /\ t # Idle
  BY KernelFacts DEF MutexInv, SchedulerRuns, User
<1>2. \A u \in Thread : u # t => pc'[u] = pc[u]
  BY <1>1
<1>3. /\ pc'[t].on = pc[t].on /\ InWait(t)' /\ pc'[t] \in Place
      /\ InTake(t)' => InTake(t)
      /\ pc'[t].at = "take_return" => pc'[t].on \in Mutexes
      /\ pc'[t].at = "sleep_return" => pc'[t].on = Nobody
      /\ pc'[t].at \in {"take_return", "sleep_return"}
  BY <1>1 DEF MutexInv, PlaceOK, InWait, InTake, Place, Where
<1>4. pc' \in [Thread -> Place]
  BY <1>1, <1>3
<1>5. PlaceOK'
  BY <1>2, <1>3 DEF MutexInv, PlaceOK
<1>6. pc'[Idle] = User
  BY <1>1, <1>2, Kinds DEF MutexInv, SchedulerRuns
<1>7. \A u \in Thread : k.stat[u] = "SUSPEND" => pc'[u].on = pc[u].on /\ InWait(u)'
  BY <1>2, <1>3 DEF MutexInv, WaitersInTake, InWait, InTake
<1>8. \A u \in Thread : InTake(u)' => InTake(u) /\ pc'[u].on = pc[u].on
  BY <1>2, <1>3 DEF InTake
<1> QED
  BY <1>4, <1>5, <1>6, <1>7, <1>8 DEF Places
-----------------------------------------------------------------------------
(* The rest of the invariant *)
MutexRecord == [owner : Thread \cup {Nobody}, value : {0, 1},
                hold : 0 .. MaxHold, original : Prio \cup {NoPriority}]

Others == flag \in {"PRIO", "FIFO"} /\ alive \in SUBSET Mutexes /\ nested \in BOOLEAN

(* The invariant from its parts                                             *)
LEMMA Whole ==
  ASSUME k' \in KernelState, pc' \in [Thread -> Place], Consistent', PlaceOK',
         SchedulerRuns', WaitersInTake', OwnerExact', HonestReturn', OriginalKnown',
         NotPastSchedule', mutex' \in [Mutexes -> MutexRecord], Others'
  PROVE  MutexInv'
BY DEF MutexInv, TypeOK, Place, MutexRecord, Others

(* What the invariant says of a mutex, owned or free                        *)
LEMMA MutexFacts ==
  ASSUME MutexInv, NEW m \in Mutexes
  PROVE  /\ mutex \in [Mutexes -> MutexRecord] /\ mutex[m] \in MutexRecord
         /\ MaxHold \in Nat \ {0} /\ Others
         /\ mutex[m].owner # Nobody =>
              mutex[m].owner \in Thread /\ mutex[m].value = 0 /\ mutex[m].hold \in 1 .. MaxHold
         /\ mutex[m].owner = Nobody =>
              mutex[m].value = 1 /\ mutex[m].hold = 0 /\ Waiting(m) = <<>> /\ On(k, m) = {}
<1>1. /\ mutex \in [Mutexes -> MutexRecord] /\ MaxHold \in Nat \ {0} /\ Others
  BY MutexAssumption DEF MutexInv, TypeOK, MutexRecord, Others
<1>2. Waiting(m) = <<>> => On(k, m) = {}
  BY KernelFacts, Kinds, EmptyOn DEF Waiting
<1> QED
  BY <1>1, <1>2 DEF MutexInv, OwnerExact, MutexRecord

(* A step of the running thread, after which the kernel has changed as      *)
(* Keeps says and the threads are where Places says                         *)
LEMMA StillRunning ==
  ASSUME MutexInv, k.stat[k.current] # "SUSPEND", k'.current = k.current,
         \A u \in Thread : k'.stat[u] = "SUSPEND" => k.stat[u] = "SUSPEND"
  PROVE  NotPastSchedule'
BY KernelFacts DEF NotPastSchedule

(* A step that wakes nobody keeps the invariant                             *)
LEMMA QuietStep ==
  ASSUME MutexInv, Keeps(k'), Places, UNCHANGED mutex, NotPastSchedule', Others'
  PROVE  MutexInv'
<1>1. mutex' \in [Mutexes -> MutexRecord]
  BY DEF MutexInv, TypeOK, MutexRecord
<1> QED
  BY <1>1, KeepsWait, KeepsOwner, Whole

(* A step that wakes one waiter keeps the invariant                         *)
LEMMA WakeStep ==
  ASSUME MutexInv, NEW t \in Thread, k.stat[t] = "SUSPEND", NEW e, e # "EOK",
         Wakes(k', t, e), Places, UNCHANGED mutex, NotPastSchedule', Others'
  PROVE  MutexInv'
<1>1. mutex' \in [Mutexes -> MutexRecord]
  BY DEF MutexInv, TypeOK, MutexRecord
<1> QED
  BY <1>1, WakesWait, WakesOwner, Whole

(* A step of the running thread t that changes the mutex m only, for which  *)
(* nobody waits unless t owns it: at the end the owner is still t, or it    *)
(* is t now, or nobody.                                                     *)
LEMMA OwnStep ==
  ASSUME MutexInv, NEW t \in Thread, Runs(t), NEW m \in Mutexes, NEW r \in MutexRecord,
         mutex' = [mutex EXCEPT ![m] = r], UNCHANGED pc,
         Keeps(k'), k'.current = k.current, Others',
         mutex[m].owner \in {t, Nobody}, r.owner \in {t, Nobody},
         r.owner = t => r.value = 0 /\ r.hold # 0 /\ r.original \in Prio,
         r.owner = Nobody => r.value = 1 /\ r.hold = 0 /\ Waiting(m) = <<>>
  PROVE  MutexInv'
<1>1. mutex \in [Mutexes -> MutexRecord] /\ mutex' \in [Mutexes -> MutexRecord]
  BY MutexFacts
<1>2. \A n \in Mutexes : mutex'[n] = IF n = m THEN r ELSE mutex[n]
  BY <1>1
<1>3. Places /\ pc[t] = User /\ k.stat[t] = "RUNNING" /\ t = k.current
  BY SamePlaces DEF Runs
<1>4. \A n \in Mutexes : /\ On(k', n) = On(k, n)
                         /\ Waiting(n) = <<>> => Waiting(n)' = <<>>
  <2> TAKE n \in Mutexes
  <2>1. On(k', n) = On(k, n) /\ k' \in KernelState /\ n \in ListId
    BY Kinds DEF Keeps, KernelOK
  <2> QED
    BY <2>1, KernelFacts, EmptyOn DEF Waiting
<1>5. t \notin On(k, m) /\ Nobody \notin On(k, m) /\ t # Nobody
  <2>1. On(k, m) \subseteq Thread
    BY KernelFacts, Kinds, ListType
  <2> QED
    BY <1>3, <2>1, KernelFacts, Kinds
<1>6. OwnerExact'
  <2> SUFFICES ASSUME NEW n \in Mutexes
               PROVE  /\ mutex'[n].value = 1 <=> mutex'[n].owner = Nobody
                      /\ mutex'[n].hold = 0 <=> mutex'[n].owner = Nobody
                      /\ mutex'[n].owner = Nobody => Waiting(n)' = <<>>
                      /\ mutex'[n].owner \notin On(k', n)
    BY DEF OwnerExact
  <2>1. CASE n = m
    BY <1>2, <1>4, <1>5, <2>1
  <2>2. CASE n # m
    BY <1>2, <1>4, <2>2 DEF MutexInv, OwnerExact
  <2> QED
    BY <2>1, <2>2
<1>7. HonestReturn'
  <2> SUFFICES ASSUME NEW u \in Thread, NEW n \in Mutexes, Blocked(u, n)', k'.stat[u] # "SUSPEND"
               PROVE  k'.err[u] = "EOK" <=> mutex'[n].owner = u
    BY DEF HonestReturn
  <2>1. /\ Blocked(u, n) /\ k.stat[u] # "SUSPEND" /\ k'.err[u] = k.err[u] /\ u # t
        /\ u # Nobody
    BY <1>3, Kinds DEF Blocked, InTake, Keeps, User
  <2>2. k.err[u] = "EOK" <=> mutex[n].owner = u
    BY <2>1 DEF MutexInv, HonestReturn
  <2> QED
    BY <1>2, <2>1, <2>2
<1>8. OriginalKnown'
  BY <1>2, <1>5 DEF MutexInv, OriginalKnown
<1>9. NotPastSchedule'
  BY <1>3, StillRunning DEF Keeps
<1> QED
  BY <1>1, <1>3, <1>6, <1>7, <1>8, <1>9, KeepsWait, Whole
-----------------------------------------------------------------------------
(* The actions.  First what the guard of a call says.                       *)
LEMMA Caller ==
  ASSUME MutexInv, NEW t \in Thread, Runs(t)
  PROVE  /\ t = k.current /\ k.stat[t] = "RUNNING" /\ k.stat[k.current] # "SUSPEND"
         /\ t # Idle /\ t # Nobody /\ pc[t] = User /\ ~InTake(t)
BY Kinds DEF Runs, User, InTake

(* rt_mutex_take that succeeds at once                                      *)
LEMMA TakeInv ==
  ASSUME MutexInv, NEW t \in Thread, NEW m \in Mutexes,
         TakeOwned(t, m) \/ TakeFree(t, m) \/ TakeNoWait(t, m)
  PROVE  MutexInv'
<1>0. Runs(t) /\ Others' /\ UNCHANGED pc
  BY MutexFacts DEF TakeOwned, TakeFree, TakeNoWait, MayCall, Others, Asks
<1>1. t = k.current /\ k.stat[t] = "RUNNING" /\ ~InTake(t) /\ t # Nobody
  BY <1>0, Caller
<1>2. CASE TakeOwned(t, m)
  <2> DEFINE r == [mutex[m] EXCEPT !.hold = @ + 1]
  <2>1. mutex' = [mutex EXCEPT ![m] = r] /\ k' = SetError(k, t, "EOK")
        /\ mutex[m].owner = t /\ mutex[m].hold < MaxHold
    BY <1>2 DEF TakeOwned
  <2>2. mutex[m] \in MutexRecord /\ mutex[m].value = 0 /\ mutex[m].hold \in 1 .. MaxHold
        /\ MaxHold \in Nat /\ mutex[m].original \in Prio
    BY <1>1, <2>1, MutexFacts DEF MutexInv, OriginalKnown
  <2>3. r \in MutexRecord /\ r.owner = t /\ r.value = 0 /\ r.hold # 0 /\ r.original \in Prio
    BY <2>1, <2>2 DEF MutexRecord
  <2> HIDE DEF r
  <2>4. Keeps(k') /\ k'.current = k.current
    BY <1>1, <2>1, ErrorKeeps DEF Err
  <2> QED
    BY <1>0, <1>1, <2>1, <2>3, <2>4, OwnStep
<1>3. CASE TakeFree(t, m)
  <2> DEFINE r == [owner |-> t, value |-> mutex[m].value - 1,
                   hold |-> mutex[m].hold + 1, original |-> k.prio[t]]
  <2>1. mutex' = [mutex EXCEPT ![m] = r] /\ k' = SetError(k, t, "EOK") /\ mutex[m].value > 0
    BY <1>3 DEF TakeFree
  <2>2. mutex[m].owner = Nobody
    BY <2>1, MutexFacts
  <2>3. mutex[m].value = 1 /\ mutex[m].hold = 0 /\ MaxHold \in Nat \ {0} /\ k.prio[t] \in Prio
    BY <2>2, KernelFacts, MutexFacts DEF KernelState
  <2>4. r \in MutexRecord /\ r.owner = t /\ r.value = 0 /\ r.hold # 0 /\ r.original \in Prio
    BY <2>3 DEF MutexRecord
  <2> HIDE DEF r
  <2>5. Keeps(k') /\ k'.current = k.current
    BY <1>1, <2>1, ErrorKeeps DEF Err
  <2> QED
    BY <1>0, <1>1, <2>1, <2>2, <2>4, <2>5, OwnStep
<1>4. CASE TakeNoWait(t, m)
  <2>1. k' = SetError(k, t, "ETIMEOUT") /\ UNCHANGED mutex
    BY <1>4 DEF TakeNoWait
  <2>2. Keeps(k') /\ k'.current = k.current
    BY <1>1, <2>1, ErrorKeeps DEF Err
  <2> QED
    BY <1>0, <1>1, <2>1, <2>2, SamePlaces, StillRunning, QuietStep DEF Keeps
<1> QED
  BY <1>2, <1>3, <1>4

(* rt_mutex_release that wakes nobody                                       *)
LEMMA ReleaseInv ==
  ASSUME MutexInv, NEW t \in Thread, NEW m \in Mutexes,
         ReleaseNotOwner(t, m) \/ ReleaseNested(t, m) \/ ReleaseFree(t, m)
  PROVE  MutexInv'
<1>0. Runs(t) /\ Others' /\ UNCHANGED pc
  BY MutexFacts DEF ReleaseNotOwner, ReleaseNested, ReleaseFree, MayCall, Others
<1>1. t = k.current /\ k.stat[t] = "RUNNING" /\ ~InTake(t) /\ t # Nobody
  BY <1>0, Caller
<1>2. CASE ReleaseNotOwner(t, m)
  <2>1. k' = SetError(k, t, "ERROR") /\ UNCHANGED mutex
    BY <1>2 DEF ReleaseNotOwner
  <2>2. Keeps(k') /\ k'.current = k.current
    BY <1>1, <2>1, ErrorKeeps DEF Err
  <2> QED
    BY <1>0, <1>1, <2>1, <2>2, SamePlaces, StillRunning, QuietStep DEF Keeps
<1>3. CASE ReleaseNested(t, m)
  <2> DEFINE r == [mutex[m] EXCEPT !.hold = @ - 1]
  <2>1. mutex' = [mutex EXCEPT ![m] = r] /\ UNCHANGED k
        /\ mutex[m].owner = t /\ mutex[m].hold > 1
    BY <1>3 DEF ReleaseNested
  <2>2. mutex[m] \in MutexRecord /\ mutex[m].value = 0 /\ mutex[m].hold \in 1 .. MaxHold
        /\ MaxHold \in Nat /\ mutex[m].original \in Prio
    BY <1>1, <2>1, MutexFacts DEF MutexInv, OriginalKnown
  <2>3. r \in MutexRecord /\ r.owner = t /\ r.value = 0 /\ r.hold # 0 /\ r.original \in Prio
    BY <2>1, <2>2 DEF MutexRecord
  <2> HIDE DEF r
  <2>4. Keeps(k') /\ k'.current = k.current
    BY <2>1, Unscheduled
  <2> QED
    BY <1>0, <1>1, <2>1, <2>3, <2>4, OwnStep
<1>4. CASE ReleaseFree(t, m)
  <2> DEFINE r == [owner |-> Nobody, value |-> mutex[m].value + 1, hold |-> 0,
                   original |-> NoPriority]
  <2>1. mutex' = [mutex EXCEPT ![m] = r] /\ k' = Restored(t, m)
        /\ mutex[m].owner = t /\ Waiting(m) = <<>>
    BY <1>4 DEF ReleaseFree
  <2>2. mutex[m].value = 0 /\ MaxHold \in Nat
    BY <1>1, <2>1, MutexFacts
  <2>3. r \in MutexRecord /\ r.owner = Nobody /\ r.value = 1 /\ r.hold = 0
    BY <2>2 DEF MutexRecord
  <2> HIDE DEF r
  <2>4. Keeps(k') /\ k'.current = k.current
    BY <1>1, <2>1, RestoredKeeps
  <2> QED
    BY <1>0, <1>1, <2>1, <2>3, <2>4, OwnStep
<1> QED
  BY <1>2, <1>3, <1>4

(* rt_mutex_release that hands the mutex to the first waiter                *)
LEMMA HandOverInv ==
  ASSUME MutexInv, NEW t \in Thread, NEW m \in Mutexes, ReleaseHandOver(t, m)
  PROVE  MutexInv'
<1> DEFINE h == Head(Waiting(m))
           r == [owner |-> h, value |-> mutex[m].value, hold |-> 1,
                 original |-> Restored(t, m).prio[h]]
<1>1. /\ mutex' = [mutex EXCEPT ![m] = r] /\ k' = IpcResume(Restored(t, m), m)
      /\ mutex[m].owner = t /\ Waiting(m) # <<>> /\ Runs(t)
      /\ pc' = [pc EXCEPT ![t] = [at |-> "release_sched", on |-> m]]
  BY DEF ReleaseHandOver, Goto, MayCall
<1>2. /\ t = k.current /\ k.stat[t] = "RUNNING" /\ t # Idle /\ pc[t] = User /\ t # Nobody
      /\ Others'
  BY <1>1, Caller, MutexFacts DEF ReleaseHandOver, Others
<1>3. /\ h \in Thread /\ h \in On(k, m) /\ h # t /\ Wakes(k', h, "EOK")
      /\ k'.current = k.current /\ k.stat[h] = "SUSPEND" /\ h # Nobody
  BY <1>1, <1>2, HandedOver, KernelFacts, Kinds
<1>4. r \in MutexRecord /\ r.owner = h /\ r.value = 0 /\ r.hold = 1 /\ r.original \in Prio
  <2>1. mutex[m].value = 0 /\ 1 \in 0 .. MaxHold
    BY <1>1, <1>2, MutexFacts
  <2>2. Restored(t, m).prio \in [Thread -> Prio]
    BY <1>1, <1>2, RestoredKeeps DEF Keeps, KernelOK, KernelState
  <2> QED
    BY <1>3, <2>1, <2>2 DEF MutexRecord
<1> HIDE DEF h, r
<1>5. /\ mutex' \in [Mutexes -> MutexRecord]
      /\ \A n \in Mutexes : mutex'[n] = IF n = m THEN r ELSE mutex[n]
  BY <1>1, <1>4, MutexFacts
<1>6. Places
  BY <1>1, <1>2, MovesPlaces DEF Place, Where
<1>7. \A n \in Mutexes : /\ On(k', n) = On(k, n) \ {h}
                         /\ Waiting(n) = <<>> => Waiting(n)' = <<>>
  <2> TAKE n \in Mutexes
  <2>1. On(k', n) = On(k, n) \ {h} /\ k' \in KernelState /\ n \in ListId
    BY <1>3, Kinds DEF Wakes, KernelOK
  <2> QED
    BY <2>1, KernelFacts, EmptyOn DEF Waiting
<1>8. OwnerExact'
  <2> SUFFICES ASSUME NEW n \in Mutexes
               PROVE  /\ mutex'[n].value = 1 <=> mutex'[n].owner = Nobody
                      /\ mutex'[n].hold = 0 <=> mutex'[n].owner = Nobody
                      /\ mutex'[n].owner = Nobody => Waiting(n)' = <<>>
                      /\ mutex'[n].owner \notin On(k', n)
    BY DEF OwnerExact
  <2>1. CASE n = m
    BY <1>3, <1>4, <1>5, <1>7, <2>1
  <2>2. CASE n # m
    BY <1>5, <1>7, <2>2 DEF MutexInv, OwnerExact
  <2> QED
    BY <2>1, <2>2
<1>9. HonestReturn'
  <2> SUFFICES ASSUME NEW u \in Thread, NEW n \in Mutexes, Blocked(u, n)', k'.stat[u] # "SUSPEND"
               PROVE  k'.err[u] = "EOK" <=> mutex'[n].owner = u
    BY DEF HonestReturn
  <2>1. Blocked(u, n) /\ InTake(u) /\ u # t
    BY <1>2, <1>6 DEF Blocked, InTake, Places, User
  <2>2. CASE u = h
    <3>1. n = m /\ k'.err[u] = "EOK"
      BY <1>3, <2>1, <2>2 DEF MutexInv, WaitersInTake, Blocked, Wakes
    <3> QED
      BY <1>4, <1>5, <2>2, <3>1
  <2>3. CASE u # h
    <3>1. k.stat[u] # "SUSPEND" /\ k'.err[u] = k.err[u]
      BY <1>3, <2>1, <2>3 DEF Wakes
    <3>2. k.err[u] = "EOK" <=> mutex[n].owner = u
      BY <2>1, <3>1 DEF MutexInv, HonestReturn
    <3> QED
      BY <1>1, <1>4, <1>5, <2>1, <2>3, <3>1, <3>2
  <2> QED
    BY <2>2, <2>3
<1>10. OriginalKnown'
  BY <1>4, <1>5 DEF MutexInv, OriginalKnown
<1>11. NotPastSchedule'
  BY <1>2, <1>3, StillRunning DEF Wakes
<1> QED
  BY <1>2, <1>3, <1>5, <1>6, <1>8, <1>9, <1>10, <1>11, WakesWait, Whole
-----------------------------------------------------------------------------
(* The start of a wait: after the owner has inherited its priority, if it   *)
(* has to, the running thread goes to the list of the mutex.                *)
LEMMA Blocks ==
  ASSUME MutexInv, NEW t \in Thread, NEW m \in Mutexes, TakeBlock(t, m)
  PROVE  /\ KernelOK(k') /\ On(k', m) = On(k, m) \cup {t}
         /\ \A q \in Queue \ {m} : On(k', q) = On(k, q)
         /\ \A u \in Thread : k'.stat[u] = "SUSPEND" <=> k.stat[u] = "SUSPEND" \/ u = t
         /\ \A u \in Thread : k'.stat[u] \in Living
         /\ k'.err = [k.err EXCEPT ![t] = "EOK"]
         /\ k'.lock = 0 /\ k'.current = k.current /\ k.armed \subseteq k'.armed
         /\ \A u \in Thread : u # mutex[m].owner => k'.prio[u] = k.prio[u]
         /\ k'.prio[mutex[m].owner] <= k.prio[mutex[m].owner]
         /\ k'.prio[mutex[m].owner] <= k.prio[t]
         /\ (flag = "PRIO" => SortedBy(k.list[m], k'.prio)) =>
              /\ \A q \in Queue \ {m} : \A x, y \in Thread :
                   Precedes(k'.list[q], x, y) => Precedes(k.list[q], x, y)
              /\ flag = "PRIO" => SortedBy(k'.list[m], k'.prio)
<1> DEFINE o == mutex[m].owner
           e == SetError(k, t, "EOK")
           i == Inherit(e, o, t)
<1>1. /\ Runs(t) /\ t = k.current /\ k.stat[t] = "RUNNING" /\ o \in Thread
      /\ KernelOK(k) /\ k.lock = 0 /\ \A u \in Thread : k.stat[u] \in Living
  BY Caller, MutexFacts, KernelFacts DEF TakeBlock, MayCall, MutexInv, SchedulerRuns
<1>2. PICK timed \in BOOLEAN : k' = IpcSuspend(i, m, t, flag, timed)
  BY DEF TakeBlock
<1> HIDE DEF o
<1>3. /\ KernelOK(e) /\ e.stat = k.stat /\ e.current = k.current /\ e.lock = k.lock
      /\ e.err = [k.err EXCEPT ![t] = "EOK"] /\ e.armed = k.armed /\ e.prio = k.prio
      /\ \A l \in ListId : On(e, l) = On(k, l)
      /\ e.list = k.list
  <2>1. e.list = k.list
    BY <1>1 DEF SetError, KernelOK, KernelState
  <2> HIDE DEF e
  <2> QED
    BY <1>1, <2>1, ErrorOK DEF SetError, Err, e
<1> HIDE DEF e
<1>4. /\ KernelOK(i) /\ i.stat = e.stat /\ i.current = e.current /\ i.lock = e.lock
      /\ i.err = e.err /\ i.armed = e.armed
      /\ \A q \in Queue : On(i, q) = On(e, q)
      /\ \A u \in Thread : u # o => i.prio[u] = e.prio[u]
      /\ i.prio[o] <= e.prio[o] /\ i.prio[o] <= e.prio[t] /\ Thins(e, i)
  <2>1. e.prio \in [Thread -> Prio] /\ e.prio[t] \in Prio /\ e \in KernelState
    BY <1>3 DEF KernelOK, KernelState
  <2>a. e.prio[t] \in Nat /\ e.prio[o] \in Nat
    BY <1>1, <2>1, KernelAssumption DEF Prio
  <2>2. CASE e.prio[t] < e.prio[o]
    <3>1. i = ChangePriority(e, o, e.prio[t])
      BY <2>2 DEF Inherit
    <3>2. /\ KernelOK(i) /\ i.stat = e.stat /\ i.current = e.current /\ i.lock = e.lock
          /\ i.err = e.err /\ i.armed = e.armed
          /\ \A q \in Queue : On(i, q) = On(e, q)
          /\ i.prio = [e.prio EXCEPT ![o] = e.prio[t]]
      BY <1>1, <1>3, <2>1, <3>1, ChangePriorityOK
    <3>3. Thins(e, i)
      BY <1>1, <2>1, <3>1, ChangePriorityThins
    <3> HIDE DEF i
    <3> QED
      BY <1>1, <2>1, <2>2, <2>a, <3>2, <3>3
  <2>3. CASE ~(e.prio[t] < e.prio[o])
    BY <1>3, <2>3, <2>a DEF Inherit, Thins
  <2> QED
    BY <2>2, <2>3
<1> HIDE DEF i
<1>5. /\ KernelOK(k') /\ On(k', m) = On(i, m) \cup {t}
      /\ \A q \in Queue \ {m} : On(k', q) = On(i, q)
      /\ \A w \in Thread : k'.stat[w] = "SUSPEND" <=> i.stat[w] = "SUSPEND" \/ w = t
      /\ \A w \in Thread : i.stat[w] \in Living => k'.stat[w] \in Living
      /\ k'.err = i.err /\ k'.lock = i.lock /\ k'.current = i.current
      /\ k'.prio = i.prio /\ i.armed \subseteq k'.armed
  BY <1>1, <1>2, <1>3, <1>4, Kinds, IpcSuspendOK
<1>6. ASSUME flag = "PRIO" => SortedBy(k.list[m], k'.prio)
      PROVE  /\ \A q \in Queue \ {m} : \A x, y \in Thread :
                  Precedes(k'.list[q], x, y) => Precedes(k.list[q], x, y)
             /\ flag = "PRIO" => SortedBy(k'.list[m], k'.prio)
  <2>1. /\ \A q \in Queue, x, y \in Thread : Precedes(i.list[q], x, y) => Precedes(k.list[q], x, y)
        /\ k'.prio = i.prio
    BY <1>3, <1>4, <1>5 DEF Thins
  <2>2. flag = "PRIO" => SortedBy(i.list[m], i.prio)
    BY <1>6, <2>1, Kinds DEF SortedBy
  <2>3. /\ \A q \in Queue \ {m} : \A x, y \in Thread :
             Precedes(k'.list[q], x, y) => Precedes(i.list[q], x, y)
        /\ \A x, y \in Thread : Precedes(k'.list[m], x, y) =>
             \/ Precedes(i.list[m], x, y)
             \/ x = t /\ flag = "PRIO" /\ i.prio[t] < i.prio[y]
             \/ y = t /\ (flag = "PRIO" => i.prio[x] <= i.prio[t])
    BY <1>1, <1>2, <1>3, <1>4, <2>2, Kinds, IpcSuspendOrder
  <2>4. \A x \in Thread : i.prio[x] \in Nat
    BY <1>4, KernelAssumption DEF KernelOK, KernelState, Prio
  <2>5. flag = "PRIO" => SortedBy(k'.list[m], i.prio)
    BY <1>1, <2>2, <2>3, <2>4 DEF SortedBy
  <2> QED
    BY <2>1, <2>3, <2>5
<1> QED
  BY <1>1, <1>3, <1>4, <1>5, <1>6, Kinds, ListKinds DEF o

(* rt_mutex_take that suspends its caller                                   *)
LEMMA TakeBlockInv ==
  ASSUME MutexInv, NEW t \in Thread, NEW m \in Mutexes, TakeBlock(t, m)
  PROVE  MutexInv'
<1>1. /\ KernelOK(k') /\ On(k', m) = On(k, m) \cup {t}
      /\ \A q \in Queue \ {m} : On(k', q) = On(k, q)
      /\ \A u \in Thread : k'.stat[u] = "SUSPEND" <=> k.stat[u] = "SUSPEND" \/ u = t
      /\ \A u \in Thread : k'.stat[u] \in Living
      /\ k'.err = [k.err EXCEPT ![t] = "EOK"]
      /\ k'.lock = 0 /\ k'.current = k.current /\ k.armed \subseteq k'.armed
  BY Blocks
<1>2. /\ Runs(t) /\ mutex[m].owner # t /\ mutex[m].owner # Nobody /\ UNCHANGED mutex
      /\ pc' = [pc EXCEPT ![t] = [at |-> "take_sched", on |-> m]] /\ Others'
  BY MutexFacts DEF TakeBlock, MayCall, Goto, Others, Asks
<1>3. t = k.current /\ k.stat[t] = "RUNNING" /\ t # Idle /\ pc[t] = User
  BY <1>2, Caller
<1>4. /\ pc' \in [Thread -> Place] /\ pc'[t].at = "take_sched" /\ pc'[t].on = m
      /\ \A u \in Thread : u # t => pc'[u] = pc[u]
  BY <1>2, KernelFacts DEF Place, Where
<1>5. k' \in KernelState /\ KernelConsistent(k')
  BY <1>1 DEF KernelOK
<1>6. \A u \in Thread : u # t => k'.err[u] = k.err[u]
  BY <1>1, KernelFacts DEF KernelState
<1>7. k'.err[t] = "EOK"
  BY <1>1, KernelFacts DEF KernelState
<1>8. \A n \in Mutexes : t \in On(k', n) => n = m
  BY <1>1, <1>3, Kinds, KernelFacts
<1>9. Consistent'
  <2> SUFFICES ASSUME NEW u \in Thread, k'.stat[u] = "SUSPEND"
               PROVE  IF pc'[u].on \in Mutexes THEN u \in On(k', pc'[u].on) ELSE u \in k'.armed
    BY <1>5 DEF Consistent
  <2>1. CASE u = t
    BY <1>1, <1>4, <2>1
  <2>2. CASE u # t
    BY <1>1, <1>4, <2>2, Kinds DEF MutexInv, Consistent
  <2> QED
    BY <2>1, <2>2
<1>10. PlaceOK' /\ SchedulerRuns'
  BY <1>1, <1>3, <1>4, Kinds DEF MutexInv, PlaceOK, SchedulerRuns
<1>11. WaitersInTake'
  <2> SUFFICES ASSUME NEW u \in Thread, k'.stat[u] = "SUSPEND"
               PROVE  /\ InWait(u)'
                      /\ \A n \in Mutexes : u \in On(k', n) => pc'[u].on = n /\ k'.err[u] = "EOK"
    BY DEF WaitersInTake
  <2>1. CASE u = t
    BY <1>4, <1>7, <1>8, <2>1 DEF InWait, InTake
  <2>2. CASE u # t
    <3>1. k.stat[u] = "SUSPEND" /\ InWait(u)' /\ pc'[u].on = pc[u].on /\ k'.err[u] = k.err[u]
      BY <1>1, <1>4, <1>6, <2>2 DEF MutexInv, WaitersInTake, InWait, InTake
    <3>2. \A n \in Mutexes : u \in On(k', n) => u \in On(k, n)
      BY <1>1, <2>2, Kinds
    <3> QED
      BY <3>1, <3>2 DEF MutexInv, WaitersInTake
  <2> QED
    BY <2>1, <2>2
<1>12. OwnerExact'
  <2> SUFFICES ASSUME NEW n \in Mutexes
               PROVE  /\ mutex[n].value = 1 <=> mutex[n].owner = Nobody
                      /\ mutex[n].hold = 0 <=> mutex[n].owner = Nobody
                      /\ mutex[n].owner = Nobody => Waiting(n)' = <<>>
                      /\ mutex[n].owner \notin On(k', n)
    BY <1>2 DEF OwnerExact
  <2>1. CASE n = m
    BY <1>1, <1>2, <2>1 DEF MutexInv, OwnerExact
  <2>2. CASE n # m
    <3>1. On(k', n) = On(k, n)
      BY <1>1, <2>2, Kinds
    <3>2. Waiting(n) = <<>> => Waiting(n)' = <<>>
      BY <1>5, <3>1, KernelFacts, Kinds, EmptyOn DEF Waiting
    <3> QED
      BY <3>1, <3>2 DEF MutexInv, OwnerExact
  <2> QED
    BY <2>1, <2>2
<1>13. HonestReturn'
  BY <1>1, <1>2, <1>4, <1>6 DEF MutexInv, HonestReturn, Blocked
<1>14. OriginalKnown' /\ mutex' \in [Mutexes -> MutexRecord]
  BY <1>2, MutexFacts DEF MutexInv, OriginalKnown
<1>15. NotPastSchedule'
  BY <1>1, <1>3, <1>4 DEF NotPastSchedule
<1> QED
  BY <1>2, <1>4, <1>5, <1>9, <1>10, <1>11, <1>12, <1>13, <1>14, <1>15, Whole

(* rt_thread_sleep *)
LEMMA SleepInv ==
  ASSUME MutexInv, NEW t \in Thread, SleepCall(t)
  PROVE  MutexInv'
<1> DEFINE s == Suspend(k, t)
<1>1. /\ Runs(t) /\ UNCHANGED mutex /\ k' = [s EXCEPT !.armed = @ \cup {t}]
      /\ pc' = [pc EXCEPT ![t] = [at |-> "sleep_sched", on |-> Nobody]] /\ Others'
  BY DEF SleepCall, Goto, Others, Sleep, MutexInv, TypeOK
<1>2. t = k.current /\ k.stat[t] = "RUNNING" /\ t # Idle /\ pc[t] = User
  BY <1>1, Caller
<1>3. /\ KernelOK(s) /\ s.stat = [k.stat EXCEPT ![t] = "SUSPEND"]
      /\ s.err = k.err /\ s.lock = k.lock /\ s.current = k.current /\ s.prio = k.prio
      /\ s.armed = k.armed
      /\ \A q \in Queue : On(s, q) = On(k, q)
  BY <1>2, KernelFacts, SuspendOK
<1> HIDE DEF s
<1>4. \A u \in Thread : s.stat[u] = IF u = t THEN "SUSPEND" ELSE k.stat[u]
  BY <1>3, KernelFacts DEF KernelState
<1>5. s \in KernelState /\ ListsAgree(s) /\ RunningIsCurrent(s)
  BY <1>3, KernelOKParts DEF KernelOK
<1>6. /\ k' \in KernelState /\ k'.list = s.list /\ k'.stat = s.stat /\ k'.prio = s.prio
      /\ k'.group = s.group /\ k'.armed = s.armed \cup {t} /\ k'.current = s.current
      /\ k'.err = s.err /\ k'.lock = s.lock
  BY <1>1, <1>5 DEF KernelState
<1>7. ListsAgree(k') /\ \A l \in ListId : On(k', l) = On(s, l)
  BY <1>4, <1>5, <1>6, FrameLists DEF ListsAgree, TimersForSuspended
<1>8. KernelOK(k') /\ KernelConsistent(k')
  BY <1>5, <1>6, <1>7, KernelOKParts DEF RunningIsCurrent, KernelOK
<1>9. /\ pc' \in [Thread -> Place] /\ pc'[t].at = "sleep_sched" /\ pc'[t].on = Nobody
      /\ \A u \in Thread : u # t => pc'[u] = pc[u]
  BY <1>1, KernelFacts DEF Place, Where
<1>10. \A n \in Mutexes : On(k', n) = On(k, n) /\ (Waiting(n) = <<>> => Waiting(n)' = <<>>)
  BY <1>3, <1>6, <1>7, KernelFacts, Kinds, EmptyOn DEF Waiting
<1>11. Consistent'
  BY <1>3, <1>4, <1>6, <1>8, <1>9, <1>10, Kinds DEF MutexInv, Consistent
<1>12. PlaceOK' /\ SchedulerRuns'
  BY <1>2, <1>3, <1>4, <1>6, <1>9, Kinds DEF MutexInv, PlaceOK, SchedulerRuns, Living
<1>13. WaitersInTake'
  <2>1. \A n \in Mutexes : t \notin On(k', n)
    BY <1>2, <1>10, KernelFacts
  <2> QED
    BY <1>3, <1>4, <1>6, <1>9, <1>10, <2>1 DEF MutexInv, WaitersInTake, InWait, InTake
<1>14. OwnerExact' /\ OriginalKnown' /\ mutex' \in [Mutexes -> MutexRecord]
  BY <1>1, <1>10 DEF MutexInv, TypeOK, MutexRecord, OwnerExact, OriginalKnown
<1>15. HonestReturn'
  <2> SUFFICES ASSUME NEW u \in Thread, NEW n \in Mutexes, Blocked(u, n)', k'.stat[u] # "SUSPEND"
               PROVE  k'.err[u] = "EOK" <=> mutex'[n].owner = u
    BY DEF HonestReturn
  <2>1. u # t /\ Blocked(u, n) /\ k.stat[u] # "SUSPEND" /\ k'.err[u] = k.err[u]
    BY <1>3, <1>4, <1>6, <1>9 DEF Blocked
  <2> QED
    BY <1>1, <2>1 DEF MutexInv, HonestReturn
<1>16. NotPastSchedule'
  BY <1>2, <1>3, <1>6, <1>9 DEF NotPastSchedule
<1> QED
  BY <1>1, <1>6, <1>9, <1>11, <1>12, <1>13, <1>14, <1>15, <1>16, Whole
-----------------------------------------------------------------------------
(* The rt_schedule of a call *)
LEMMA ScheduleInv ==
  ASSUME MutexInv, NEW t \in Thread,
         TakeSchedule(t) \/ ReleaseSchedule(t) \/ SleepSchedule(t)
  PROVE  MutexInv'
<1>1. k' = Schedule(k) /\ UNCHANGED mutex /\ Others' /\ t = k.current
  BY DEF TakeSchedule, ReleaseSchedule, SleepSchedule, At, MutexInv, TypeOK, Others
<1>2. Keeps(k') /\ Running(k')
  BY <1>1, ScheduleKeeps
<1>3. NotPastSchedule'
  BY <1>2 DEF Running, NotPastSchedule
<1>4. Places
  <2>1. CASE TakeSchedule(t)
    BY <2>1, ScheduledPlaces DEF TakeSchedule, At, Goto
  <2>2. CASE SleepSchedule(t)
    BY <2>2, ScheduledPlaces DEF SleepSchedule, At, Goto
  <2>3. CASE ReleaseSchedule(t)
    <3>1. pc[t].at = "release_sched" /\ pc' = [pc EXCEPT ![t] = User]
      BY <2>3 DEF ReleaseSchedule, At, Return
    <3>2. t # Idle /\ k.stat[t] # "SUSPEND"
      BY <3>1 DEF MutexInv, SchedulerRuns, User, WaitersInTake, InWait, InTake
    <3> QED
      BY <3>1, <3>2, MovesPlaces DEF User, Place, Where
  <2> QED
    BY <2>1, <2>2, <2>3
<1> QED
  BY <1>1, <1>2, <1>3, <1>4, QuietStep

(* A call returns after its rt_schedule, or goes on in its loop.            *)
LEMMA CallInv ==
  ASSUME MutexInv, NEW t \in Thread,
         TakeReturn(t) \/ SleepEnd(t) \/ DetachTest(t)
  PROVE  MutexInv'
<1> DEFINE p == pc'[t]
<1>1. /\ t = k.current /\ pc[t].at \in {"take_return", "sleep_return", "detach_loop"}
      /\ UNCHANGED mutex /\ Others'
  BY DEF TakeReturn, SleepEnd, DetachTest, At, MutexInv, TypeOK, Others
<1>2. t # Idle /\ k.stat[t] # "SUSPEND"
  BY <1>1 DEF MutexInv, SchedulerRuns, User, NotPastSchedule
<1>3. Places
  <2>1. CASE TakeReturn(t) \/ SleepEnd(t)
    <3>1. pc' = [pc EXCEPT ![t] = User]
      BY <2>1 DEF TakeReturn, SleepEnd, Return
    <3> QED
      BY <1>2, <3>1, MovesPlaces DEF User, Place, Where
  <2>2. CASE DetachTest(t)
    <3>1. \/ pc' = [pc EXCEPT ![t] = User]
          \/ pc' = [pc EXCEPT ![t] = [at |-> "detach_resume", on |-> pc[t].on]]
      BY <2>2 DEF DetachTest, Return, Goto
    <3>2. pc[t].on \in Mutexes
      BY <2>2 DEF DetachTest, At, MutexInv, PlaceOK
    <3>3. CASE pc' = [pc EXCEPT ![t] = User]
      BY <1>2, <3>3, MovesPlaces DEF User, Place, Where
    <3>4. CASE pc' = [pc EXCEPT ![t] = [at |-> "detach_resume", on |-> pc[t].on]]
      BY <1>2, <3>2, <3>4, MovesPlaces DEF Place, Where
    <3> QED
      BY <3>1, <3>3, <3>4
  <2> QED
    BY <2>1, <2>2
<1>4. Keeps(k') /\ k'.current = k.current
  <2>1. CASE SleepEnd(t)
    <3>1. k' = SetError(k, t, "EOK") \/ UNCHANGED k
      BY <2>1 DEF SleepEnd, SleepReturn, SetError
    <3>2. ~InTake(t)
      BY <2>1 DEF SleepEnd, At, InTake
    <3> QED
      BY <3>1, <3>2, ErrorKeeps, Unscheduled DEF Err
  <2>2. CASE TakeReturn(t) \/ DetachTest(t)
    BY <2>2, Unscheduled DEF TakeReturn, DetachTest
  <2> QED
    BY <2>1, <2>2
<1>5. NotPastSchedule'
  BY <1>1, <1>2, <1>4, StillRunning DEF Keeps
<1> QED
  BY <1>1, <1>3, <1>4, <1>5, QuietStep

(* rt_mutex_detach and rt_mutex_delete: the call, and one round of its loop *)
LEMMA DetachInv ==
  ASSUME MutexInv, NEW t \in Thread, NEW m \in Mutexes, Detach(t, m)
  PROVE  MutexInv'
<1>1. /\ Runs(t) /\ UNCHANGED <<k, mutex>> /\ Others'
      /\ pc' = [pc EXCEPT ![t] = [at |-> "detach_loop", on |-> m]]
  BY DEF Detach, MayCall, Goto, MutexInv, TypeOK, Others
<1>2. t = k.current /\ k.stat[t] = "RUNNING" /\ t # Idle
  BY <1>1, Caller
<1>3. Places
  BY <1>1, <1>2, MovesPlaces DEF Place, Where
<1>4. Keeps(k') /\ NotPastSchedule'
  BY <1>1, <1>2, Unscheduled, StillRunning DEF Keeps
<1> QED
  BY <1>1, <1>3, <1>4, QuietStep

(* One turn of rt_ipc_list_resume_all in rt_mutex_detach                    *)
LEMMA DetachResumeInv ==
  ASSUME MutexInv, NEW t \in Thread, DetachResume(t)
  PROVE  MutexInv'
<1> DEFINE m == pc[t].on
<1>1. t = k.current /\ pc[t].at = "detach_resume" /\ UNCHANGED mutex /\ Others'
  BY DEF DetachResume, At, MutexInv, TypeOK, Others
<1>2. t # Idle /\ k.stat[t] # "SUSPEND" /\ m \in Mutexes
  BY <1>1 DEF MutexInv, SchedulerRuns, User, NotPastSchedule, PlaceOK
<1>3. CASE Waiting(m) # <<>>
  <2>1. k' = IpcResumeWithError(k, m) /\ pc' = [pc EXCEPT ![t] = [at |-> "detach_loop", on |-> m]]
    BY <1>3 DEF DetachResume, Goto
  <2>2. Places
    BY <1>2, <2>1, MovesPlaces DEF Place, Where
  <2> HIDE DEF m
  <2>3. PICK h \in Thread : h \in On(k, m) /\ Wakes(k', h, "ERROR") /\ k'.current = k.current
    BY <1>2, <1>3, <2>1, ResumedWithError
  <2>4. k.stat[h] = "SUSPEND"
    BY <1>2, <2>3, KernelFacts
  <2>5. NotPastSchedule'
    BY <1>1, <1>2, <2>3, StillRunning DEF Wakes
  <2> QED
    BY <1>1, <2>2, <2>3, <2>4, <2>5, WakeStep
<1>4. CASE Waiting(m) = <<>>
  <2>1. UNCHANGED k /\ pc' = [pc EXCEPT ![t] = [at |-> "wild", on |-> m]]
    BY <1>4 DEF DetachResume, Goto
  <2>2. Places
    BY <1>2, <2>1, MovesPlaces DEF Place, Where
  <2>3. Keeps(k') /\ NotPastSchedule'
    BY <1>1, <1>2, <2>1, Unscheduled, StillRunning DEF Keeps
  <2> QED
    BY <1>1, <2>2, <2>3, QuietStep
<1> QED
  BY <1>3, <1>4

(* The interrupts *)
LEMMA InterruptInv ==
  ASSUME MutexInv, SliceIsr \/ \E t \in Thread : TimerIsr(t)
  PROVE  MutexInv'
<1>1. UNCHANGED mutex /\ Others' /\ Places
  BY SamePlaces DEF SliceIsr, TimerIsr, MutexInv, TypeOK, Others
<1>2. CASE SliceIsr
  <2>1. Keeps(k') /\ NotPastSchedule'
    BY <1>2, ScheduleKeeps DEF SliceIsr, Running, NotPastSchedule
  <2> QED
    BY <1>1, <2>1, QuietStep
<1>3. ASSUME NEW t \in Thread, TimerIsr(t) PROVE MutexInv'
  <2>1. t \in k.armed /\ k.stat[t] = "SUSPEND"
    BY <1>3, KernelFacts DEF TimerIsr
  <2>2. Wakes(k', t, "ETIMEOUT") /\ Running(k')
    BY <1>3, <2>1, TimedOut DEF TimerIsr
  <2>3. NotPastSchedule'
    BY <2>2 DEF Running, NotPastSchedule
  <2> QED
    BY <1>1, <2>1, <2>2, <2>3, WakeStep
<1> QED
  BY <1>2, <1>3

-----------------------------------------------------------------------------
(* The started system with its mutexes free *)
LEMMA InitInv == Init => MutexInv
<1> SUFFICES ASSUME Init PROVE MutexInv
  OBVIOUS
<1>1. /\ KernelOK(k) /\ k.lock = 0
      /\ \A q \in Queue : On(k, q) = {}
      /\ \A t \in Thread : k.stat[t] \in {"READY", "RUNNING"}
  BY StartedOK, MutexAssumption DEF Init
<1>2. MaxHold \in Nat /\ \A m \in Mutexes : mutex[m] = FreeMutex
  BY MutexAssumption DEF Init
<1>3. TypeOK
  <2>1. FreeMutex \in [owner : Thread \cup {Nobody}, value : {0, 1},
                      hold : 0 .. MaxHold, original : Prio \cup {NoPriority}]
    BY <1>2 DEF FreeMutex
  <2>2. User \in Place
    BY DEF User, Place, Where
  <2>3. pc \in [Thread -> Place]
    BY <2>2 DEF Init
  <2> QED
    BY <1>1, <2>1, <2>3 DEF Init, TypeOK, KernelOK, Place
<1>4. \A m \in Mutexes : On(k, m) = {} /\ Waiting(m) = <<>>
  BY <1>1, Kinds, EmptyOn DEF KernelOK, Waiting
<1>5. Consistent /\ OwnerExact /\ OriginalKnown
  BY <1>1, <1>2, <1>4 DEF Consistent, OwnerExact, OriginalKnown, FreeMutex, KernelOK
<1>6. /\ k.current \in Thread /\ \A t \in Thread : pc[t] = User
  BY <1>1 DEF Init, KernelOK, KernelState
<1>7. HonestReturn /\ PlaceOK /\ SchedulerRuns
  BY <1>1, <1>6, Kinds DEF HonestReturn, Blocked, PlaceOK, SchedulerRuns, Living, User
<1>8. WaitersInTake /\ NotPastSchedule
  BY <1>1, <1>6 DEF WaitersInTake, NotPastSchedule
<1> QED
  BY <1>3, <1>5, <1>7, <1>8 DEF MutexInv

(* Every step keeps the invariant                                           *)
LEMMA NextInv == MutexInv /\ [Next]_vars => MutexInv'
<1> SUFFICES ASSUME MutexInv, [Next]_vars PROVE MutexInv'
  OBVIOUS
<1>1. CASE UNCHANGED vars
  BY <1>1 DEF vars, MutexInv, TypeOK, Consistent, OwnerExact, HonestReturn, PlaceOK,
              SchedulerRuns, WaitersInTake, NotPastSchedule, OriginalKnown, Waiting,
              Blocked, InWait, InTake
<1>2. ASSUME NEW t \in Thread, InCall(t) PROVE MutexInv'
  BY <1>2, ScheduleInv, CallInv, DetachResumeInv DEF InCall
<1>3. ASSUME NEW t \in Thread, NEW m \in Mutexes, MutexCall(t, m) PROVE MutexInv'
  BY <1>3, TakeInv, TakeBlockInv, ReleaseInv, HandOverInv, DetachInv DEF MutexCall
<1>4. ASSUME NEW t \in Thread, SleepCall(t) PROVE MutexInv'
  BY <1>4, SleepInv
<1>5. CASE SliceIsr \/ \E t \in Thread : TimerIsr(t)
  BY <1>5, InterruptInv
<1> QED
  BY <1>1, <1>2, <1>3, <1>4, <1>5 DEF Next

(* The invariant holds in every reachable state                             *)
LEMMA MutexInvariant == Spec => []MutexInv
BY InitInv, NextInv, PTL DEF Spec

-----------------------------------------------------------------------------
(* A mutex changes hands in rt_mutex_release by its owner, or is taken free. *)
LEMMA Gives ==
  ASSUME MutexInv, [Next]_vars, NEW m \in Mutexes, mutex[m].owner # mutex'[m].owner
  PROVE  LET o == mutex[m].owner  o2 == mutex'[m].owner IN
         /\ o = Nobody \/ o = k.current
         /\ o2 = Nobody \/ (o = Nobody /\ o2 = k.current) \/ o2 \in On(k, m)
<1>1. PICK t \in Thread, n \in Mutexes :
        \/ TakeOwned(t, n) \/ TakeFree(t, n) \/ ReleaseNested(t, n)
        \/ ReleaseFree(t, n) \/ ReleaseHandOver(t, n)
  BY DEF vars, Next, InCall, MutexCall, SleepCall, TimerIsr, SliceIsr, TakeSchedule, TakeReturn,
         ReleaseSchedule, DetachTest, DetachResume, SleepSchedule, SleepEnd, TakeBlock,
         TakeNoWait, ReleaseNotOwner, Detach
<1>2. /\ mutex \in [Mutexes -> MutexRecord] /\ mutex[n] \in MutexRecord
      /\ mutex[n].owner # Nobody => mutex[n].value = 0
  BY MutexFacts
<1>3. t = k.current /\ k.stat[t] = "RUNNING"
  BY <1>1 DEF TakeOwned, TakeFree, ReleaseNested, ReleaseFree, ReleaseHandOver, MayCall, Runs
<1>4. CASE TakeOwned(t, n)
  BY <1>2, <1>4 DEF TakeOwned, MutexRecord
<1>5. CASE TakeFree(t, n)
  BY <1>2, <1>3, <1>5 DEF TakeFree, MutexRecord
<1>6. CASE ReleaseNested(t, n)
  BY <1>2, <1>6 DEF ReleaseNested, MutexRecord
<1>7. CASE ReleaseFree(t, n)
  BY <1>2, <1>3, <1>7 DEF ReleaseFree, MutexRecord
<1>8. CASE ReleaseHandOver(t, n)
  <2>1. /\ mutex[n].owner = t /\ Waiting(n) # <<>>
        /\ \A x \in Mutexes : mutex'[x].owner = IF x = n THEN Head(Waiting(n)) ELSE mutex[x].owner
    BY <1>2, <1>8 DEF ReleaseHandOver
  <2>2. Head(Waiting(n)) \in On(k, n)
    BY <1>3, <2>1, HandedOver
  <2> QED
    BY <1>3, <2>1, <2>2
<1> QED
  BY <1>1, <1>4, <1>5, <1>6, <1>7, <1>8

-----------------------------------------------------------------------------
(* Priorities while no two mutexes are nested: a thread owns one mutex at   *)
(* most and none while it waits for one, every mutex keeps the base         *)
(* priority of its owner, and only an owner runs at another priority.       *)
OwnsNone(t) == \A m \in Mutexes : mutex[m].owner # t

Flat ==
  /\ \A m, n \in Mutexes : mutex[m].owner = mutex[n].owner /\ m # n => mutex[m].owner = Nobody
  /\ \A m \in Mutexes : mutex[m].owner # Nobody => mutex[m].original = BasePrio[mutex[m].owner]
  /\ \A m, n \in Mutexes : mutex[m].owner \notin On(k, n)
  /\ \A t \in Thread : OwnsNone(t) => k.prio[t] = BasePrio[t]

FlatInv == ~nested => Flat

(* A step that neither takes nor releases a mutex, nor starts a wait        *)
LEMMA FlatQuiet ==
  ASSUME FlatInv, UNCHANGED <<mutex, nested>>, k'.prio = k.prio,
         \A m \in Mutexes : On(k', m) \subseteq On(k, m)
  PROVE  FlatInv'
BY DEF FlatInv, Flat, OwnsNone

(* The rest of a call, after the scheduler or a time-out                    *)
LEMMA CallFlat ==
  ASSUME MutexInv, FlatInv, NEW t \in Thread, InCall(t) \/ SleepCall(t)
  PROVE  FlatInv'
<1>1. CASE TakeSchedule(t) \/ ReleaseSchedule(t) \/ SleepSchedule(t)
  <2>1. k' = Schedule(k) /\ UNCHANGED <<mutex, nested>>
    BY <1>1 DEF TakeSchedule, ReleaseSchedule, SleepSchedule
  <2> QED
    BY <2>1, ScheduleKeeps, Kinds, FlatQuiet DEF Keeps
<1>2. CASE TakeReturn(t) \/ DetachTest(t)
  BY <1>2, FlatQuiet DEF TakeReturn, DetachTest
<1>3. CASE SleepEnd(t)
  <2>1. (k' = SetError(k, t, "EOK") \/ UNCHANGED k) /\ ~InTake(t) /\ UNCHANGED <<mutex, nested>>
    BY <1>3 DEF SleepEnd, SleepReturn, SetError, At, InTake
  <2>2. CASE k' = SetError(k, t, "EOK")
    BY <2>1, <2>2, ErrorKeeps, Kinds, FlatQuiet DEF Keeps, Err
  <2> QED
    BY <2>1, <2>2, FlatQuiet
<1>4. CASE DetachResume(t)
  <2> DEFINE m == pc[t].on
  <2>1. m \in Mutexes /\ UNCHANGED <<mutex, nested>>
    BY <1>4 DEF DetachResume, At, MutexInv, PlaceOK
  <2>2. k' = IF Waiting(m) # <<>> THEN IpcResumeWithError(k, m) ELSE k
    BY <1>4 DEF DetachResume
  <2> HIDE DEF m
  <2>3. CASE Waiting(m) # <<>>
    BY <2>1, <2>2, <2>3, ResumedWithError, Kinds, FlatQuiet DEF Wakes
  <2> QED
    BY <2>1, <2>2, <2>3, FlatQuiet
<1>5. CASE SleepCall(t)
  <2> DEFINE s == Suspend(k, t)
  <2>1. k' = [s EXCEPT !.armed = @ \cup {t}] /\ Runs(t) /\ UNCHANGED <<mutex, nested>>
    BY <1>5 DEF SleepCall, Sleep
  <2>2. KernelOK(s) /\ s.prio = k.prio /\ \A q \in Queue : On(s, q) = On(k, q)
    BY <2>1, Caller, KernelFacts, SuspendOK
  <2> HIDE DEF s
  <2>3. k'.list = s.list /\ k'.prio = s.prio
    BY <2>1, <2>2 DEF KernelOK, KernelState
  <2> QED
    BY <2>1, <2>2, <2>3, Kinds, FlatQuiet DEF On
<1> QED
  BY <1>1, <1>2, <1>3, <1>4, <1>5 DEF InCall

(* The steps of interrupts and of timers                                    *)
LEMMA InterruptFlat ==
  ASSUME MutexInv, FlatInv, SliceIsr \/ \E t \in Thread : TimerIsr(t)
  PROVE  FlatInv'
<1>1. CASE SliceIsr
  BY <1>1, ScheduleKeeps, Kinds, FlatQuiet DEF SliceIsr, Keeps
<1>2. ASSUME NEW t \in Thread, TimerIsr(t) PROVE FlatInv'
  BY <1>2, TimedOut, Kinds, FlatQuiet DEF TimerIsr, Wakes
<1> QED
  BY <1>1, <1>2

(* rt_mutex_take raises the owner, never the caller                         *)
LEMMA TakeFlat ==
  ASSUME MutexInv, FlatInv, NEW t \in Thread, NEW m \in Mutexes,
         TakeOwned(t, m) \/ TakeFree(t, m) \/ TakeBlock(t, m) \/ TakeNoWait(t, m)
  PROVE  FlatInv'
<1>1. Runs(t) /\ k.stat[t] = "RUNNING" /\ ~InTake(t)
  BY Caller DEF TakeOwned, TakeFree, TakeBlock, TakeNoWait, MayCall
<1>2. /\ mutex \in [Mutexes -> MutexRecord] /\ mutex[m] \in MutexRecord
      /\ mutex[m].owner # Nobody => mutex[m].value = 0
  BY MutexFacts
<1>3. ASSUME NEW e \in Err, k' = SetError(k, t, e)
      PROVE  k'.prio = k.prio /\ \A n \in Mutexes : On(k', n) = On(k, n)
  BY <1>1, <1>3, ErrorKeeps, Kinds DEF Keeps
<1>4. CASE TakeOwned(t, m)
  <2>1. /\ k'.prio = k.prio /\ \A n \in Mutexes : On(k', n) = On(k, n)
        /\ UNCHANGED nested
    BY <1>3, <1>4 DEF TakeOwned, Err
  <2>2. \A n \in Mutexes : /\ mutex'[n].owner = mutex[n].owner
                           /\ mutex'[n].original = mutex[n].original
    BY <1>2, <1>4 DEF TakeOwned, MutexRecord
  <2> QED
    BY <2>1, <2>2 DEF FlatInv, Flat, OwnsNone
<1>5. CASE TakeNoWait(t, m)
  BY <1>3, <1>5, FlatQuiet DEF TakeNoWait, Err
<1>6. CASE TakeFree(t, m)
  <2> SUFFICES ASSUME ~nested' PROVE Flat'
    BY DEF FlatInv
  <2>1. k'.prio = k.prio /\ \A n \in Mutexes : On(k', n) = On(k, n)
    BY <1>3, <1>6 DEF TakeFree, Err
  <2>2. mutex[m].owner = Nobody /\ t # Nobody
    BY <1>2, <1>6, Kinds DEF TakeFree
  <2>3. Flat /\ OwnsNone(t)
    BY <1>6, <2>2 DEF TakeFree, Asks, Owns, FlatInv, OwnsNone
  <2>4. \A n \in Mutexes :
          /\ mutex'[n].owner = IF n = m THEN t ELSE mutex[n].owner
          /\ mutex'[n].original = IF n = m THEN k.prio[t] ELSE mutex[n].original
    BY <1>2, <1>6 DEF TakeFree
  <2>5. \A n \in Mutexes : t \notin On(k, n)
    BY <1>1, KernelFacts
  <2>6. \A u \in Thread : OwnsNone(u)' => k'.prio[u] = BasePrio[u]
    BY <2>1, <2>2, <2>3, <2>4, Kinds DEF Flat, OwnsNone
  <2>7. \A n, l \in Mutexes : mutex'[n].owner \notin On(k', l)
    BY <2>1, <2>3, <2>4, <2>5 DEF Flat
  <2>8. k.prio[t] = BasePrio[t]
    BY <2>3 DEF Flat
  <2>9. \A n \in Mutexes : mutex'[n].owner # Nobody =>
          mutex'[n].original = BasePrio[mutex'[n].owner]
    BY <2>3, <2>4, <2>8 DEF Flat
  <2>10. \A n, l \in Mutexes : mutex'[n].owner = mutex'[l].owner /\ n # l =>
           mutex'[n].owner = Nobody
    BY <2>3, <2>4 DEF Flat, OwnsNone
  <2> QED
    BY <2>6, <2>7, <2>9, <2>10 DEF Flat
<1>7. CASE TakeBlock(t, m)
  <2> SUFFICES ASSUME ~nested' PROVE Flat'
    BY DEF FlatInv
  <2>1. /\ \A n \in Mutexes : On(k', n) \subseteq On(k, n) \cup {t}
        /\ \A u \in Thread : u # mutex[m].owner => k'.prio[u] = k.prio[u]
    <3>1. /\ On(k', m) = On(k, m) \cup {t}
          /\ \A q \in Queue \ {m} : On(k', q) = On(k, q)
          /\ \A u \in Thread : u # mutex[m].owner => k'.prio[u] = k.prio[u]
      BY <1>7, Blocks
    <3> QED
      BY <3>1, Kinds
  <2>2. Flat /\ OwnsNone(t) /\ UNCHANGED mutex
    BY <1>7 DEF TakeBlock, Asks, Owns, FlatInv, OwnsNone
  <2> QED
    BY <2>1, <2>2 DEF Flat, OwnsNone
<1> QED
  BY <1>4, <1>5, <1>6, <1>7

(* rt_mutex_release restores the priority it found at the take              *)
LEMMA ReleaseFlat ==
  ASSUME MutexInv, FlatInv, NEW t \in Thread, NEW m \in Mutexes,
         \/ ReleaseNotOwner(t, m) \/ ReleaseNested(t, m) \/ Detach(t, m)
         \/ ReleaseFree(t, m) \/ ReleaseHandOver(t, m)
  PROVE  FlatInv'
<1>1. /\ Runs(t) /\ k.stat[t] = "RUNNING" /\ ~InTake(t) /\ t # Nobody
      /\ UNCHANGED nested
  BY Caller DEF ReleaseNotOwner, ReleaseNested, ReleaseFree, ReleaseHandOver, Detach, MayCall
<1>2. mutex \in [Mutexes -> MutexRecord] /\ mutex[m] \in MutexRecord
  BY MutexFacts
<1>3. CASE ReleaseNotOwner(t, m)
  BY <1>1, <1>3, ErrorKeeps, Kinds, FlatQuiet DEF ReleaseNotOwner, Keeps, Err
<1>4. CASE ReleaseNested(t, m)
  <2>1. \A n \in Mutexes : /\ mutex'[n].owner = mutex[n].owner
                           /\ mutex'[n].original = mutex[n].original
    BY <1>2, <1>4 DEF ReleaseNested, MutexRecord
  <2> QED
    BY <1>1, <1>4, <2>1 DEF ReleaseNested, FlatInv, Flat, OwnsNone
<1>5. CASE Detach(t, m)
  BY <1>5, FlatQuiet DEF Detach
<1>6. ASSUME mutex[m].owner = t, Flat,
             NEW o \in Thread \cup {Nobody}, o # t,
             \A n \in Mutexes : mutex'[n].owner = IF n = m THEN o ELSE mutex[n].owner,
             \A n \in Mutexes : n # m => mutex'[n].original = mutex[n].original,
             o # Nobody => /\ \E n \in Mutexes : o \in On(k, n)
                           /\ mutex'[m].original = k.prio[o]
                           /\ \A n \in Mutexes : o \notin On(k', n),
             \A n \in Mutexes : On(k', n) \subseteq On(k, n),
             k'.prio = [k.prio EXCEPT ![t] = mutex[m].original]
      PROVE  Flat'
  <2>1. mutex[m].original = BasePrio[t] /\ k.prio \in [Thread -> Prio]
    BY <1>1, <1>6, KernelFacts DEF Flat, KernelState
  <2>2. \A n \in Mutexes \ {m} : mutex[n].owner # t
    BY <1>1, <1>6 DEF Flat
  <2>3. o # Nobody => OwnsNone(o)
    BY <1>6 DEF Flat, OwnsNone
  <2>4. \A n \in Mutexes : Nobody \notin On(k, n)
    BY KernelFacts, Kinds, ListType
  <2>5. o # Nobody => o \in Thread /\ k.prio[o] = BasePrio[o]
    BY <1>6, <2>3 DEF Flat
  <2>6. \A u \in Thread : OwnsNone(u)' => k'.prio[u] = BasePrio[u]
    <3> TAKE u \in Thread
    <3>1. CASE u = t
      BY <2>1, <1>6, <3>1
    <3>2. CASE u # t
      BY <1>6, <2>1, <3>2 DEF Flat, OwnsNone
    <3> QED
      BY <3>1, <3>2
  <2>7. \A n, l \in Mutexes : mutex'[n].owner \notin On(k', l)
    BY <1>6, <2>4 DEF Flat
  <2>8. \A n \in Mutexes : mutex'[n].owner # Nobody =>
          mutex'[n].original = BasePrio[mutex'[n].owner]
    BY <1>6, <2>5 DEF Flat
  <2>9. \A n, l \in Mutexes : mutex'[n].owner = mutex'[l].owner /\ n # l =>
          mutex'[n].owner = Nobody
    BY <1>6, <2>3 DEF Flat, OwnsNone
  <2> QED
    BY <2>6, <2>7, <2>8, <2>9 DEF Flat
<1>7. CASE ReleaseFree(t, m)
  <2> SUFFICES ASSUME Flat PROVE Flat'
    BY <1>1 DEF FlatInv
  <2>1. /\ mutex[m].owner = t
        /\ \A n \in Mutexes : mutex'[n].owner = IF n = m THEN Nobody ELSE mutex[n].owner
        /\ \A n \in Mutexes : n # m => mutex'[n].original = mutex[n].original
    BY <1>2, <1>7 DEF ReleaseFree
  <2>2. /\ \A n \in Mutexes : On(k', n) \subseteq On(k, n)
        /\ k'.prio = [k.prio EXCEPT ![t] = mutex[m].original]
    BY <1>1, <1>7, <2>1, RestoredKeeps, Kinds DEF ReleaseFree, Keeps
  <2> QED
    BY <1>1, <1>6, <2>1, <2>2
<1>8. CASE ReleaseHandOver(t, m)
  <2> SUFFICES ASSUME Flat PROVE Flat'
    BY <1>1 DEF FlatInv
  <2> DEFINE h == Head(Waiting(m))
  <2>1. /\ mutex[m].owner = t /\ Waiting(m) # <<>> /\ k' = IpcResume(Restored(t, m), m)
        /\ \A n \in Mutexes : mutex'[n].owner = IF n = m THEN h ELSE mutex[n].owner
        /\ \A n \in Mutexes : n # m => mutex'[n].original = mutex[n].original
        /\ mutex'[m].original = Restored(t, m).prio[h]
    BY <1>2, <1>8 DEF ReleaseHandOver
  <2>2. /\ h \in Thread /\ h \in On(k, m) /\ h # t
        /\ \A n \in Mutexes : On(k', n) = On(k, n) \ {h}
        /\ k'.prio = [k.prio EXCEPT ![t] = mutex[m].original]
    BY <1>1, <2>1, HandedOver, Kinds DEF Wakes
  <2>3. k.prio \in [Thread -> Prio] /\ Restored(t, m).prio = [k.prio EXCEPT ![t] = mutex[m].original]
    BY <1>1, <2>1, RestoredKeeps, KernelFacts DEF KernelState
  <2> HIDE DEF h
  <2>4. Restored(t, m).prio[h] = k.prio[h]
    BY <2>2, <2>3
  <2> QED
    BY <1>6, <2>1, <2>2, <2>4, Kinds
<1> QED
  BY <1>3, <1>4, <1>5, <1>7, <1>8

(* At the start nobody owns a mutex                                         *)
LEMMA InitFlat == Init => FlatInv
<1> SUFFICES ASSUME Init PROVE Flat
  BY DEF FlatInv
<1>1. \A m \in Mutexes : mutex[m].owner = Nobody
  BY DEF Init, FreeMutex
<1>2. \A m \in Mutexes : On(k, m) = {}
  BY StartedOK, MutexAssumption, Kinds DEF Init
<1>3. k.prio = BasePrio
  BY DEF Init, StartedKernel
<1> QED
  BY <1>1, <1>2, <1>3 DEF Flat

(* Flat holds until two mutexes are nested                                  *)
LEMMA FlatInvariant == Spec => []FlatInv
<1>1. MutexInv /\ FlatInv /\ [Next]_vars => FlatInv'
  <2> SUFFICES ASSUME MutexInv, FlatInv, [Next]_vars PROVE FlatInv'
    OBVIOUS
  <2>1. CASE UNCHANGED vars
    BY <2>1, FlatQuiet DEF vars
  <2> QED
    BY <2>1, CallFlat, InterruptFlat, TakeFlat, ReleaseFlat DEF Next, MutexCall
<1> QED
  BY <1>1, InitFlat, MutexInvariant, PTL DEF Spec

-----------------------------------------------------------------------------
(* With RT_IPC_FLAG_PRIO and no two mutexes nested, the waiters of a mutex  *)
(* stand in the order of their priorities, so that the first one is as      *)
(* urgent as the others, and its owner is as urgent as any of them.         *)
Urgent ==
  \A m \in Mutexes :
    /\ SortedBy(k.list[m], BasePrio)
    /\ \A w \in On(k, m) : mutex[m].owner # Nobody => k.prio[mutex[m].owner] <= BasePrio[w]

UrgentInv == flag = "PRIO" /\ ~nested => Urgent

(* A step that changes no owner and reorders no wait list                   *)
LEMMA UrgentQuiet ==
  ASSUME UrgentInv, UNCHANGED <<flag, nested>>, k'.prio = k.prio, Thins(k, k'),
         \A m \in Mutexes : On(k', m) \subseteq On(k, m) /\ mutex'[m].owner = mutex[m].owner
  PROVE  UrgentInv'
BY Kinds DEF UrgentInv, Urgent, Thins, SortedBy

(* Priorities are numbers and the lists hold threads                        *)
LEMMA PriorityOrder ==
  ASSUME NEW r \in KernelState
  PROVE  /\ \A t \in Thread : r.prio[t] \in Nat /\ BasePrio[t] \in Nat
         /\ \A m \in Mutexes : On(r, m) \subseteq Thread
         /\ \A m \in Mutexes, x, y \in Thread :
              Precedes(r.list[m], x, y) => x \in On(r, m) /\ y \in On(r, m)
<1>1. BasePrio \in [Thread -> Prio] /\ r.prio \in [Thread -> Prio] /\ Prio \subseteq Nat
  BY SMTT(30), MutexAssumption, KernelAssumption DEF KernelState, Prio, StartOrder
<1>2. ASSUME NEW m \in Mutexes, NEW x \in Thread, NEW y \in Thread, Precedes(r.list[m], x, y)
      PROVE  x \in On(r, m) /\ y \in On(r, m)
  <2>1. r.list[m] \in Seq(Thread)
    BY Kinds, ListType
  <2>2. PICK a, b \in 1 .. Len(r.list[m]) : r.list[m][a] = x /\ r.list[m][b] = y
    BY <1>2 DEF Precedes
  <2> QED
    BY <2>1, <2>2, InToSet DEF On
<1> QED
  BY <1>1, <1>2, Kinds, ListType

(* The rest of a call, after the scheduler or a time-out                    *)
LEMMA CallUrgent ==
  ASSUME MutexInv, UrgentInv, NEW t \in Thread, InCall(t) \/ SleepCall(t)
  PROVE  UrgentInv'
<1>1. CASE TakeSchedule(t) \/ ReleaseSchedule(t) \/ SleepSchedule(t)
  <2>1. k' = Schedule(k) /\ UNCHANGED <<mutex, flag, nested>>
    BY <1>1 DEF TakeSchedule, ReleaseSchedule, SleepSchedule
  <2> QED
    BY <2>1, ScheduleKeeps, Kinds, UrgentQuiet DEF Keeps
<1>2. ASSUME UNCHANGED <<k, mutex, flag, nested>> PROVE UrgentInv'
  BY <1>2, UrgentQuiet DEF Thins
<1>3. CASE TakeReturn(t) \/ DetachTest(t)
  BY <1>2, <1>3 DEF TakeReturn, DetachTest
<1>4. CASE SleepEnd(t)
  <2>1. (k' = SetError(k, t, "EOK") \/ UNCHANGED k) /\ ~InTake(t) /\ UNCHANGED <<mutex, flag, nested>>
    BY <1>4 DEF SleepEnd, SleepReturn, SetError, At, InTake
  <2>2. CASE k' = SetError(k, t, "EOK")
    BY <2>1, <2>2, ErrorKeeps, Kinds, UrgentQuiet DEF Keeps, Err
  <2> QED
    BY <1>2, <2>1, <2>2
<1>5. CASE DetachResume(t)
  <2> DEFINE m == pc[t].on
  <2>1. m \in Mutexes /\ UNCHANGED <<mutex, flag, nested>>
    BY <1>5 DEF DetachResume, At, MutexInv, PlaceOK
  <2>2. k' = IF Waiting(m) # <<>> THEN IpcResumeWithError(k, m) ELSE k
    BY <1>5 DEF DetachResume
  <2> HIDE DEF m
  <2>3. CASE Waiting(m) # <<>>
    BY <2>1, <2>2, <2>3, ResumedWithError, Kinds, UrgentQuiet DEF Wakes
  <2> QED
    BY <1>2, <2>1, <2>2, <2>3
<1>6. CASE SleepCall(t)
  <2> DEFINE s == Suspend(k, t)
  <2>1. k' = [s EXCEPT !.armed = @ \cup {t}] /\ Runs(t) /\ UNCHANGED <<mutex, flag, nested>>
    BY <1>6 DEF SleepCall, Sleep
  <2>2. KernelOK(s) /\ s.prio = k.prio /\ Thins(k, s) /\ \A q \in Queue : On(s, q) = On(k, q)
    BY <2>1, Caller, KernelFacts, SuspendOK, SuspendThins
  <2> HIDE DEF s
  <2>3. k'.list = s.list /\ k'.prio = s.prio
    BY <2>1, <2>2 DEF KernelOK, KernelState
  <2> QED
    BY <2>1, <2>2, <2>3, Kinds, UrgentQuiet DEF On, Thins
<1> QED
  BY <1>1, <1>3, <1>4, <1>5, <1>6 DEF InCall

(* The steps of interrupts and of timers                                    *)
LEMMA InterruptUrgent ==
  ASSUME MutexInv, UrgentInv, SliceIsr \/ \E t \in Thread : TimerIsr(t)
  PROVE  UrgentInv'
<1>1. CASE SliceIsr
  BY <1>1, ScheduleKeeps, Kinds, UrgentQuiet DEF SliceIsr, Keeps
<1>2. ASSUME NEW t \in Thread, TimerIsr(t) PROVE UrgentInv'
  BY <1>2, TimedOut, Kinds, UrgentQuiet DEF TimerIsr, Wakes
<1> QED
  BY <1>1, <1>2

(* A waiter is inserted by its priority and lends it to the owner           *)
LEMMA TakeUrgent ==
  ASSUME MutexInv, FlatInv, UrgentInv, NEW t \in Thread, NEW m \in Mutexes,
         TakeOwned(t, m) \/ TakeFree(t, m) \/ TakeBlock(t, m) \/ TakeNoWait(t, m)
  PROVE  UrgentInv'
<1>1. Runs(t) /\ k.stat[t] = "RUNNING" /\ ~InTake(t) /\ UNCHANGED flag
  BY Caller DEF TakeOwned, TakeFree, TakeBlock, TakeNoWait, MayCall
<1>2. /\ mutex \in [Mutexes -> MutexRecord] /\ mutex[m] \in MutexRecord
      /\ mutex[m].owner # Nobody => mutex[m].value = 0
  BY MutexFacts
<1>3. ASSUME NEW e \in Err, k' = SetError(k, t, e)
      PROVE  k'.prio = k.prio /\ Thins(k, k') /\ \A n \in Mutexes : On(k', n) = On(k, n)
  BY <1>1, <1>3, ErrorKeeps, Kinds DEF Keeps
<1>4. CASE TakeOwned(t, m)
  <2>1. \A n \in Mutexes : mutex'[n].owner = mutex[n].owner
    BY <1>2, <1>4 DEF TakeOwned, MutexRecord
  <2> QED
    BY <1>3, <1>4, <2>1, UrgentQuiet DEF TakeOwned, Err
<1>5. CASE TakeNoWait(t, m)
  BY <1>3, <1>5, UrgentQuiet DEF TakeNoWait, Err
<1>6. CASE TakeFree(t, m)
  <2> SUFFICES ASSUME flag = "PRIO", ~nested' PROVE Urgent'
    BY <1>1 DEF UrgentInv
  <2>1. k'.prio = k.prio /\ Thins(k, k') /\ \A n \in Mutexes : On(k', n) = On(k, n)
    BY <1>3, <1>6 DEF TakeFree, Err
  <2>2. mutex[m].owner = Nobody
    BY <1>2, <1>6 DEF TakeFree
  <2>3. Urgent /\ On(k, m) = {}
    BY <1>6, <2>2, MutexFacts DEF TakeFree, Asks, UrgentInv
  <2>4. \A n \in Mutexes : n # m => mutex'[n].owner = mutex[n].owner
    BY <1>2, <1>6 DEF TakeFree
  <2> QED
    BY <2>1, <2>3, <2>4, Kinds DEF Urgent, Thins, SortedBy
<1>7. CASE TakeBlock(t, m)
  <2> SUFFICES ASSUME flag = "PRIO", ~nested' PROVE Urgent'
    BY <1>1 DEF UrgentInv
  <2> DEFINE o == mutex[m].owner
  <2>1. Flat /\ Urgent /\ OwnsNone(t) /\ UNCHANGED mutex /\ o \in Thread /\ o # Nobody
    <3>1. ~nested /\ OwnsNone(t) /\ UNCHANGED mutex /\ mutex[m].value = 0
      BY <1>7 DEF TakeBlock, Asks, Owns, OwnsNone
    <3>2. o \in Thread /\ o # Nobody
      BY <3>1, MutexFacts
    <3> QED
      BY <3>1, <3>2 DEF FlatInv, UrgentInv
  <2>2. k.prio[t] = BasePrio[t]
    BY <2>1 DEF Flat
  <2>3. /\ On(k', m) = On(k, m) \cup {t}
        /\ \A u \in Thread : u # o => k'.prio[u] = k.prio[u]
        /\ k'.prio[o] <= k.prio[o] /\ k'.prio[o] <= k.prio[t]
    BY <1>7, Blocks
  <2>4. \A n \in Mutexes : n # m => On(k', n) = On(k, n)
    <3>1. \A q \in Queue \ {m} : On(k', q) = On(k, q)
      BY <1>7, Blocks
    <3> QED
      BY <3>1, Kinds
  <2>5. k \in KernelState /\ k' \in KernelState
    BY <1>7, KernelFacts, Blocks DEF KernelOK
  <2>6. \A u \in Thread : k.prio[u] \in Nat /\ k'.prio[u] \in Nat /\ BasePrio[u] \in Nat
    BY <2>5, PriorityOrder
  <2>7. \A u \in On(k', m) : u \in Thread /\ k'.prio[u] = BasePrio[u]
    <3> TAKE u \in On(k', m)
    <3>1. u \in Thread /\ OwnsNone(u) /\ u # o
      BY <2>1, <2>3, <2>5, PriorityOrder DEF Flat, OwnsNone
    <3> QED
      BY <2>1, <2>3, <3>1 DEF Flat
  <2>8. SortedBy(k.list[m], k'.prio)
    <3>1. \A x, y \in Thread : Precedes(k.list[m], x, y) => x \in On(k, m) /\ y \in On(k, m)
      BY <2>5, PriorityOrder
    <3> QED
      BY <2>1, <2>3, <2>7, <3>1 DEF Urgent, SortedBy
  <2>9. \A n \in Mutexes : SortedBy(k'.list[n], BasePrio)
    <3>1. /\ \A q \in Queue \ {m} : \A x, y \in Thread :
               Precedes(k'.list[q], x, y) => Precedes(k.list[q], x, y)
          /\ SortedBy(k'.list[m], k'.prio)
      BY <1>7, <2>8, Blocks
    <3>2. \A x, y \in Thread : Precedes(k'.list[m], x, y) => x \in On(k', m) /\ y \in On(k', m)
      BY <2>5, PriorityOrder
    <3>3. SortedBy(k'.list[m], BasePrio)
      BY <2>7, <3>1, <3>2 DEF SortedBy
    <3>4. \A n \in Mutexes : n # m => SortedBy(k'.list[n], BasePrio)
      BY <2>1, <3>1, Kinds DEF Urgent, SortedBy
    <3> QED
      BY <3>3, <3>4
  <2> HIDE DEF o
  <2>10. ASSUME NEW n \in Mutexes, NEW w \in On(k', n), mutex[n].owner # Nobody
         PROVE  k'.prio[mutex[n].owner] <= BasePrio[w]
    <3>1. mutex[n].owner \in Thread /\ w \in Thread
      BY <2>5, <2>10, MutexFacts, PriorityOrder
    <3>2. k'.prio[mutex[n].owner] <= k.prio[mutex[n].owner]
      BY <2>3, <2>6, <3>1
    <3>3. CASE w \in On(k, n)
      <4>1. k.prio[mutex[n].owner] <= BasePrio[w]
        BY <2>1, <2>10, <3>3 DEF Urgent
      <4> QED
        BY <2>6, <3>1, <3>2, <4>1
    <3>4. CASE w \notin On(k, n)
      <4>1. n = m /\ w = t
        BY <2>3, <2>4, <2>10, <3>4
      <4> QED
        BY <2>2, <2>3, <4>1 DEF o
    <3> QED
      BY <3>3, <3>4
  <2> QED
    BY <2>1, <2>9, <2>10 DEF Urgent
<1> QED
  BY <1>4, <1>5, <1>6, <1>7

(* The new owner is the first waiter, as urgent as the others               *)
LEMMA ReleaseUrgent ==
  ASSUME MutexInv, FlatInv, UrgentInv, NEW t \in Thread, NEW m \in Mutexes,
         \/ ReleaseNotOwner(t, m) \/ ReleaseNested(t, m) \/ Detach(t, m)
         \/ ReleaseFree(t, m) \/ ReleaseHandOver(t, m)
  PROVE  UrgentInv'
<1>1. /\ Runs(t) /\ k.stat[t] = "RUNNING" /\ ~InTake(t) /\ t # Nobody
      /\ UNCHANGED <<flag, nested>>
  BY Caller DEF ReleaseNotOwner, ReleaseNested, ReleaseFree, ReleaseHandOver, Detach, MayCall
<1>2. mutex \in [Mutexes -> MutexRecord] /\ mutex[m] \in MutexRecord
  BY MutexFacts
<1>3. CASE ReleaseNotOwner(t, m)
  BY <1>1, <1>3, ErrorKeeps, Kinds, UrgentQuiet DEF ReleaseNotOwner, Keeps, Err
<1>4. CASE ReleaseNested(t, m)
  <2>1. UNCHANGED k /\ \A n \in Mutexes : mutex'[n].owner = mutex[n].owner
    BY <1>2, <1>4 DEF ReleaseNested, MutexRecord
  <2> QED
    BY <1>1, <2>1, UrgentQuiet DEF Thins
<1>5. CASE Detach(t, m)
  BY <1>1, <1>5, UrgentQuiet DEF Detach, Thins
<1>6. ASSUME Flat, Urgent, mutex[m].owner = t, Thins(k, k'),
             k'.prio = [k.prio EXCEPT ![t] = mutex[m].original],
             \A n \in Mutexes : On(k', n) \subseteq On(k, n),
             \A n \in Mutexes : n # m => mutex'[n].owner = mutex[n].owner,
             mutex'[m].owner # Nobody =>
               \A w \in On(k', m) : k'.prio[mutex'[m].owner] <= BasePrio[w]
      PROVE  Urgent'
  <2>1. \A n \in Mutexes : SortedBy(k'.list[n], BasePrio)
    BY <1>6, Kinds DEF Urgent, Thins, SortedBy
  <2>2. ASSUME NEW n \in Mutexes, n # m, mutex[n].owner # Nobody
        PROVE  k'.prio[mutex[n].owner] = k.prio[mutex[n].owner]
    <3>1. mutex[n].owner # t /\ mutex[n].owner \in Thread /\ k.prio \in [Thread -> Prio]
      BY <1>1, <1>6, <2>2, MutexFacts, KernelFacts DEF Flat, KernelState
    <3> QED
      BY <1>6, <3>1
  <2> QED
    BY <1>6, <2>1, <2>2 DEF Urgent
<1>7. CASE ReleaseFree(t, m)
  <2> SUFFICES ASSUME Flat, Urgent PROVE Urgent'
    BY <1>1 DEF FlatInv, UrgentInv
  <2>1. /\ mutex[m].owner = t
        /\ \A n \in Mutexes : mutex'[n].owner = IF n = m THEN Nobody ELSE mutex[n].owner
    BY <1>2, <1>7 DEF ReleaseFree
  <2>2. /\ \A n \in Mutexes : On(k', n) \subseteq On(k, n)
        /\ k'.prio = [k.prio EXCEPT ![t] = mutex[m].original] /\ Thins(k, k')
    BY <1>1, <1>7, <2>1, RestoredKeeps, Kinds DEF ReleaseFree, Keeps
  <2> QED
    BY <1>6, <2>1, <2>2
<1>8. CASE ReleaseHandOver(t, m)
  <2> SUFFICES ASSUME Flat, Urgent PROVE Urgent'
    BY <1>1 DEF FlatInv, UrgentInv
  <2> DEFINE h == Head(Waiting(m))
  <2>1. /\ mutex[m].owner = t /\ Waiting(m) # <<>> /\ k' = IpcResume(Restored(t, m), m)
        /\ \A n \in Mutexes : mutex'[n].owner = IF n = m THEN h ELSE mutex[n].owner
    BY <1>2, <1>8 DEF ReleaseHandOver
  <2>2. /\ h \in Thread /\ h \in On(k, m) /\ h # t
        /\ \A n \in Mutexes : On(k', n) = On(k, n) \ {h}
        /\ k'.prio = [k.prio EXCEPT ![t] = mutex[m].original] /\ Thins(k, k')
    BY <1>1, <2>1, HandedOver, Kinds DEF Wakes
  <2>3. \A w \in On(k', m) : Precedes(k.list[m], h, w)
    <3>1. k.list[m] \in Seq(Thread)
      BY KernelFacts, Kinds, ListType
    <3> QED
      BY <2>1, <2>2, <3>1, HeadPrecedes DEF Waiting, On
  <2> HIDE DEF h
  <2>4. k'.prio[h] = BasePrio[h]
    <3>1. OwnsNone(h) /\ k.prio \in [Thread -> Prio]
      BY <2>2, KernelFacts DEF Flat, OwnsNone, KernelState
    <3> QED
      BY <2>2, <3>1 DEF Flat
  <2>5. \A w \in On(k', m) : k'.prio[h] <= BasePrio[w]
    BY <2>2, <2>3, <2>4, KernelFacts, PriorityOrder DEF Urgent, SortedBy
  <2> QED
    BY <1>6, <2>1, <2>2, <2>5
<1> QED
  BY <1>3, <1>4, <1>5, <1>7, <1>8

(* The wait lists stay in order until two mutexes are nested                *)
LEMMA UrgentInvariant == Spec => []UrgentInv
<1>1. Init => UrgentInv
  <2> SUFFICES ASSUME Init PROVE Urgent
    BY DEF UrgentInv
  <2>1. MutexInv /\ \A m \in Mutexes : On(k, m) = {}
    BY InitInv, StartedOK, MutexAssumption, Kinds DEF Init
  <2> QED
    BY <2>1, KernelFacts, PriorityOrder DEF Urgent, SortedBy
<1>2. MutexInv /\ FlatInv /\ UrgentInv /\ [Next]_vars => UrgentInv'
  <2> SUFFICES ASSUME MutexInv, FlatInv, UrgentInv, [Next]_vars PROVE UrgentInv'
    OBVIOUS
  <2>1. CASE UNCHANGED vars
    BY <2>1, UrgentQuiet DEF vars, Thins
  <2> QED
    BY <2>1, CallUrgent, InterruptUrgent, TakeUrgent, ReleaseUrgent DEF Next, MutexCall
<1> QED
  BY <1>1, <1>2, MutexInvariant, FlatInvariant, PTL DEF Spec

-----------------------------------------------------------------------------
(* The fields of rt_mutex keep their ranges (hold never passes              *)
(* MaxHold, original_priority is a priority or 0xff) and the kernel and the *)
(* places of the threads their types, whatever the calls of rt_mutex_*.     *)
THEOREM MutexTypes == Spec => []TypeOK
BY MutexInvariant, PTL DEF MutexInv

(* With priority inheritance, the ready queues, their bitmap, the           *)
(* states of the threads and the timers agree after every step, and a       *)
(* suspended thread is on the list of the mutex that it asked for, or has   *)
(* its timer running.                                                       *)
THEOREM MutexConsistent == Spec => []Consistent
BY MutexInvariant, PTL DEF MutexInv

(* value, owner and hold of every mutex agree, nobody waits for a           *)
(* free mutex and no owner for its own, in every interleaving of takes,     *)
(* releases, time-outs and rt_mutex_detach.                                 *)
THEOREM MutexOwnerExact == Spec => []OwnerExact
BY MutexInvariant, PTL DEF MutexInv

(* rt_mutex_take, when it has waited, returns RT_EOK exactly to             *)
(* the thread that owns the mutex.                                          *)
THEOREM MutexAnswersHonestly == Spec => []HonestReturn
BY MutexInvariant, PTL DEF MutexInv

(* A mutex that is owned is given away by its owner only, in                *)
(* rt_mutex_release, and to a thread on its list.                           *)
THEOREM MutexOnlyOwnerGives == Spec => OnlyOwnerGives
<1>1. MutexInv /\ [Next]_vars =>
        [\A m \in Mutexes : LET o == mutex[m].owner  o2 == mutex'[m].owner IN
           o # o2 => /\ o = Nobody \/ o = k.current
                     /\ o2 = Nobody \/ (o = Nobody /\ o2 = k.current) \/ o2 \in On(k, m)]_vars
  BY Gives
<1> QED
  BY <1>1, MutexInvariant, PTL DEF Spec, OnlyOwnerGives

(* As long as no thread has asked for a mutex while it owned                *)
(* another, rt_mutex_release gives back every priority that rt_mutex_take   *)
(* lent: who owns no mutex has the priority it was started with.            *)
THEOREM MutexPriorityRestored == Spec => []FlatPriorityRestored
<1>1. FlatInv => FlatPriorityRestored
  BY DEF FlatInv, Flat, FlatPriorityRestored, OwnsNone, Owns
<1> QED
  BY <1>1, FlatInvariant, PTL

(* As long as no mutex is asked for by an owner of another, the owner of an *)
(* RT_IPC_FLAG_PRIO mutex runs at a priority at least that of every thread  *)
(* that waits for it, also when the mutex is handed from waiter to waiter.  *)
THEOREM MutexOwnerInherits == Spec => []FlatOwnerInherits
<1>1. MutexInv /\ FlatInv /\ UrgentInv => FlatOwnerInherits
  <2> SUFFICES ASSUME MutexInv, FlatInv, UrgentInv, flag = "PRIO", ~nested,
                      NEW m \in Mutexes, NEW w \in On(k, m), mutex[m].owner \in Thread
               PROVE  k.prio[mutex[m].owner] <= k.prio[w]
    BY DEF FlatOwnerInherits, OwnerInherits
  <2>1. w \in Thread /\ OwnsNone(w) /\ Flat /\ Urgent
    BY KernelFacts, PriorityOrder DEF FlatInv, Flat, UrgentInv, OwnsNone
  <2>2. k.prio[w] = BasePrio[w] /\ mutex[m].owner # Nobody
    BY <2>1, Kinds DEF Flat
  <2> QED
    BY <2>1, <2>2 DEF Urgent
<1> QED
  BY <1>1, MutexInvariant, FlatInvariant, UrgentInvariant, PTL
=============================================================================
