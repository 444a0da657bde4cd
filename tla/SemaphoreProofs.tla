--------------------------- MODULE SemaphoreProofs ---------------------------
(***************************************************************************)
(* Semaphores, for any threads, priorities and values.  The four           *)
(* invariants are inductive together: the wait list may only be assumed to *)
(* hold suspended threads while the kernel is consistent, and a release    *)
(* may only be assumed to find the threads it should wake while every      *)
(* suspended thread is on the list.                                        *)
(***************************************************************************)
EXTENDS Semaphore, KernelProofs

SemInv ==
  /\ TypeOK
  /\ Consistent
  /\ NoLostThread
  /\ NoWaiterWhileAvailable

(* What every step but the start of a wait does: the kernel stays           *)
(* consistent, no thread joins the wait list or becomes suspended, and a    *)
(* thread that leaves the list is no longer suspended.                      *)
KernelStep(r) ==
  /\ KernelOK(r)
  /\ On(r, Waiters) \subseteq On(k, Waiters)
  /\ \A t \in Thread : r.stat[t] = "SUSPEND" =>
       k.stat[t] = "SUSPEND" /\ (t \in On(k, Waiters) => t \in On(r, Waiters))

(* The wait list is one of the kernel's suspend lists. *)
LEMMA WaitersIsQueue == Waiters \in Queue /\ Waiters \in ListId
BY SemaphoreAssumption, ListKinds

(* rt_schedule is such a step, *)
LEMMA StepScheduled ==
  ASSUME KernelOK(k)
  PROVE  KernelStep(Schedule(k))
BY ScheduleOK, WaitersIsQueue DEF WakesNobody, KernelStep

(* and so is the expiry of a thread timer, *)
LEMMA StepTimeout ==
  ASSUME KernelOK(k), NEW t \in k.armed
  PROVE  KernelStep(Timeout(k, t))
<1>1. t \in Thread /\ KernelOK(Timeout(k, t)) /\ OnlyWakes(k, Timeout(k, t), t)
  BY TimeoutOK DEF KernelOK, KernelState
<1> QED
  BY <1>1, WaitersIsQueue DEF OnlyWakes, KernelStep

(* rt_ipc_list_resume, in a thread or in an interrupt handler, *)
LEMMA StepResumed ==
  ASSUME KernelOK(k), Waiting # <<>>
  PROVE  /\ KernelStep(IpcResume(k, Waiters))
         /\ KernelStep(Schedule(IpcResume(k, Waiters)))
         /\ Head(Waiting) \in Thread
<1> DEFINE t == Head(k.list[Waiters])
           r == Resume(k, t)
<1>1. t \in Thread /\ k.stat[t] = "SUSPEND"
  BY WaitersIsQueue, FirstWaiter DEF Waiting
<1>2. KernelOK(r) /\ OnlyWakes(k, r, t)
  BY <1>1, ResumeOK
<1>3. IpcResume(k, Waiters) = r
  BY DEF IpcResume
<1> HIDE DEF r, t
<1>4. KernelOK(Schedule(r)) /\ WakesNobody(r, Schedule(r))
  BY <1>2, ScheduleOK
<1> QED
  BY <1>1, <1>2, <1>3, <1>4, WaitersIsQueue DEF KernelStep, OnlyWakes, WakesNobody, t, Waiting

(* and one round of rt_ipc_list_resume_all. *)
LEMMA StepResumedWithError ==
  ASSUME KernelOK(k), Waiting # <<>>
  PROVE  KernelStep(IpcResumeWithError(k, Waiters))
<1> DEFINE t == Head(k.list[Waiters])
           e == [k EXCEPT !.err[t] = "ERROR"]
<1>1. t \in Thread /\ k.stat[t] = "SUSPEND"
  BY WaitersIsQueue, FirstWaiter DEF Waiting
<1>2. /\ KernelOK(e) /\ e.stat = k.stat
      /\ \A l \in ListId : On(e, l) = On(k, l)
  BY <1>1, ErrorOK DEF Err
<1>3. IpcResumeWithError(k, Waiters) = Resume(e, t)
  BY DEF IpcResumeWithError
<1> HIDE DEF e, t
<1>4. KernelOK(Resume(e, t)) /\ OnlyWakes(e, Resume(e, t), t)
  BY <1>1, <1>2, ResumeOK
<1> QED
  BY <1>2, <1>3, <1>4, WaitersIsQueue DEF KernelStep, OnlyWakes

(* A kernel step after which no unit has appeared beside waiting threads *)
LEMMA KernelStepInv ==
  ASSUME SemInv, KernelStep(k'), value' \in 0 .. MaxValue,
         value' = value \/ Waiting = <<>>
  PROVE  k' \in KernelState /\ Consistent' /\ NoLostThread' /\ NoWaiterWhileAvailable'
<1>1. k' \in KernelState /\ Consistent' /\ k \in KernelState
  BY DEF KernelStep, KernelOK, Consistent, SemInv, TypeOK
<1>2. NoLostThread'
  BY DEF NoLostThread, SemInv, KernelStep
<1>3. Waiting = <<>> => Waiting' = <<>>
  <2>1. Waiting = <<>> <=> On(k, Waiters) = {}
    BY <1>1, WaitersIsQueue, EmptyOn DEF Waiting
  <2>2. k'.list[Waiters] = <<>> <=> On(k', Waiters) = {}
    BY <1>1, WaitersIsQueue, EmptyOn
  <2> QED
    BY <2>1, <2>2 DEF KernelStep, Waiting
<1>4. NoWaiterWhileAvailable'
  BY <1>3 DEF NoWaiterWhileAvailable, SemInv
<1> QED
  BY <1>1, <1>2, <1>4

(* A step that leaves the kernel alone *)
LEMMA SameKernel ==
  ASSUME SemInv, UNCHANGED k
  PROVE  KernelStep(k')
BY DEF SemInv, TypeOK, Consistent, KernelStep, KernelOK

(* The started system with a new semaphore *)
LEMMA InitInv == Init => SemInv
<1> SUFFICES ASSUME Init PROVE SemInv
  OBVIOUS
<1>1. /\ KernelOK(k)
      /\ On(k, Waiters) = {}
      /\ \A t \in Thread : k.stat[t] # "SUSPEND"
  BY StartedOK, SemaphoreAssumption, WaitersIsQueue DEF Init
<1>2. TypeOK
  BY <1>1, SemaphoreAssumption DEF Init, TypeOK, KernelOK, PC
<1>3. Consistent /\ NoLostThread
  BY <1>1 DEF KernelOK, Consistent, NoLostThread
<1>4. NoWaiterWhileAvailable
  BY <1>1, WaitersIsQueue, EmptyOn DEF NoWaiterWhileAvailable, Waiting, KernelOK
<1> QED
  BY <1>2, <1>3, <1>4 DEF SemInv

(* The start of a wait: the value is zero, and the list takes the thread. *)
LEMMA BlockInv ==
  ASSUME SemInv, NEW t \in Thread, TakeBlock(t)
  PROVE  SemInv'
<1> DEFINE e == [k EXCEPT !.err[t] = "EOK"]
<1>1. PICK timed \in BOOLEAN : k' = IpcSuspend(e, Waiters, t, flag, timed)
  BY DEF TakeBlock
<1>2. KernelOK(k) /\ k.stat[t] = "RUNNING"
  BY DEF SemInv, TypeOK, Consistent, KernelOK, TakeBlock, MayCall
<1>3. /\ KernelOK(e) /\ e.stat = k.stat
      /\ \A l \in ListId : On(e, l) = On(k, l)
  BY <1>2, ErrorOK DEF Err
<1> HIDE DEF e
<1>4. /\ KernelOK(k') /\ On(k', Waiters) = On(e, Waiters) \cup {t}
      /\ \A w \in Thread : k'.stat[w] = "SUSPEND" <=> e.stat[w] = "SUSPEND" \/ w = t
  BY <1>1, <1>2, <1>3, WaitersIsQueue, IpcSuspendOK
<1>5. TypeOK'
  BY <1>4 DEF SemInv, TypeOK, TakeBlock, Goto, PC, KernelOK
<1>6. Consistent' /\ NoLostThread'
  BY <1>3, <1>4, WaitersIsQueue DEF SemInv, KernelOK, Consistent, NoLostThread
<1>7. NoWaiterWhileAvailable'
  BY DEF TakeBlock, NoWaiterWhileAvailable
<1> QED
  BY <1>5, <1>6, <1>7 DEF SemInv

(* Every step of a thread preserves the invariant: one case per action. *)
LEMMA ThreadStepInv ==
  ASSUME SemInv, NEW t \in Thread, ThreadStep(t)
  PROVE  SemInv'
<1> USE DEF SemInv
<1>0. /\ KernelOK(k) /\ MaxValue \in Nat /\ value \in 0 .. MaxValue
      /\ pc \in [Thread -> PC]
  BY SemaphoreAssumption DEF TypeOK, Consistent, KernelOK
<1>1. CASE TakeAvailable(t)
  <2>1. KernelStep(k')
    BY <1>1, SameKernel DEF TakeAvailable
  <2>2. value' \in 0 .. MaxValue /\ Waiting = <<>>
    BY <1>0, <1>1 DEF TakeAvailable, NoWaiterWhileAvailable
  <2> QED
    BY <1>1, <2>1, <2>2, KernelStepInv DEF TakeAvailable, TypeOK
<1>2. CASE TakeBlock(t)
  BY <1>2, BlockInv
<1>3. CASE TakeSchedule(t)
  BY <1>0, <1>3, StepScheduled, KernelStepInv DEF TakeSchedule, TypeOK, Goto, PC
<1>4. CASE TakeReturn(t)
  BY <1>0, <1>4, SameKernel, KernelStepInv DEF TakeReturn, TypeOK, Goto, PC
<1>5. CASE ReleaseHandOver(t)
  BY <1>0, <1>5, StepResumed, KernelStepInv DEF ReleaseHandOver, HandOver, TypeOK, Goto, PC
<1>6. CASE ReleaseIncrement(t)
  <2>1. value' \in 0 .. MaxValue /\ Waiting = <<>> /\ UNCHANGED <<k, alive, pc, granted, flag>>
    BY <1>0, <1>6 DEF ReleaseIncrement, Increment
  <2> QED
    BY <2>1, SameKernel, KernelStepInv DEF TypeOK
<1>7. CASE ReleaseSchedule(t)
  BY <1>0, <1>7, StepScheduled, KernelStepInv DEF ReleaseSchedule, TypeOK, Goto, PC
<1>8. CASE Reset(t)
  BY <1>0, <1>8, SameKernel, KernelStepInv DEF Reset, TypeOK, Goto, PC
<1>9. CASE ResetResume(t)
  BY <1>0, <1>9, StepResumedWithError, KernelStepInv DEF ResetResume, TypeOK
<1>10. CASE ResetValue(t)
  BY <1>0, <1>10, SameKernel, KernelStepInv DEF ResetValue, TypeOK, Goto, PC
<1>11. CASE ResetSchedule(t)
  BY <1>0, <1>11, StepScheduled, KernelStepInv DEF ResetSchedule, TypeOK, Goto, PC
<1>12. CASE Detach(t)
  BY <1>0, <1>12, SameKernel, KernelStepInv DEF Detach, TypeOK, Goto, PC
<1>13. CASE DetachTest(t)
  BY <1>0, <1>13, SameKernel, KernelStepInv DEF DetachTest, TypeOK, Goto, PC
<1>14. CASE DetachResume(t)
  <2>1. KernelStep(k')
    <3>1. CASE Waiting # <<>>
      BY <1>0, <1>14, <3>1, StepResumedWithError DEF DetachResume
    <3>2. CASE Waiting = <<>>
      BY <1>14, <3>2, SameKernel DEF DetachResume
    <3> QED
      BY <3>1, <3>2
  <2> QED
    BY <1>0, <1>14, <2>1, KernelStepInv DEF DetachResume, TypeOK, Goto, PC
<1> QED
  BY <1>1, <1>2, <1>3, <1>4, <1>5, <1>6, <1>7, <1>8, <1>9, <1>10, <1>11, <1>12,
     <1>13, <1>14 DEF ThreadStep

(* Every interrupt handler preserves the invariant. *)
LEMMA IsrInv ==
  ASSUME SemInv, Isr
  PROVE  SemInv'
<1> USE DEF SemInv
<1>0. /\ KernelOK(k) /\ MaxValue \in Nat /\ value \in 0 .. MaxValue
  BY SemaphoreAssumption DEF TypeOK, Consistent, KernelOK
<1>1. CASE IsrHandOver
  BY <1>0, <1>1, StepResumed, KernelStepInv DEF IsrHandOver, TypeOK
<1>2. CASE IsrIncrement
  <2>1. value' \in 0 .. MaxValue /\ Waiting = <<>> /\ UNCHANGED <<k, alive, pc, granted, flag>>
    BY <1>0, <1>2 DEF IsrIncrement, Increment
  <2> QED
    BY <2>1, SameKernel, KernelStepInv DEF TypeOK
<1>3. CASE SliceIsr
  BY <1>0, <1>3, StepScheduled, KernelStepInv DEF SliceIsr, TypeOK
<1>4. ASSUME NEW t \in Thread, TimerIsr(t) PROVE SemInv'
  BY <1>0, <1>4, StepTimeout, KernelStepInv DEF TimerIsr, TypeOK
<1> QED
  BY <1>1, <1>2, <1>3, <1>4 DEF Isr

(* The invariant is inductive. *)
LEMMA NextInv == SemInv /\ [Next]_vars => SemInv'
<1> SUFFICES ASSUME SemInv, [Next]_vars PROVE SemInv'
  OBVIOUS
<1>1. CASE Next
  BY <1>1, IsrInv, ThreadStepInv DEF Next
<1>2. CASE UNCHANGED vars
  BY <1>2 DEF vars, SemInv, TypeOK, Consistent, NoLostThread, NoWaiterWhileAvailable, Waiting
<1> QED
  BY <1>1, <1>2

(* It holds in every behaviour of the semaphore on the kernel. *)
THEOREM SemaphoreInvariant == Spec => []SemInv
<1> QED
  BY InitInv, NextInv, PTL DEF Spec

(* rt_sem_* and the kernel functions they call stay within their types:     *)
(* sem->value neither wraps below zero nor passes its maximum.              *)
THEOREM SemaphoreTypes == Spec => []TypeOK
<1>1. SemInv => TypeOK
  BY DEF SemInv
<1> QED
  BY <1>1, SemaphoreInvariant, PTL

(* Ready lists, bitmap, wait list, timers and thread states agree between   *)
(* any two stretches of masked code, whatever interrupts come in between.   *)
THEOREM SemaphoreConsistent == Spec => []Consistent
<1>1. SemInv => Consistent
  BY DEF SemInv
<1> QED
  BY <1>1, SemaphoreInvariant, PTL

(* A thread suspended in rt_sem_take is always on the wait list. *)
THEOREM SemaphoreKeepsWaiters == Spec => []NoLostThread
<1>1. SemInv => NoLostThread
  BY DEF SemInv
<1> QED
  BY <1>1, SemaphoreInvariant, PTL

(* No wake-up is lost: rt_sem_release never leaves a unit in sem->value     *)
(* beside a thread that waits for one.                                      *)
THEOREM SemaphoreLosesNoWakeUp == Spec => []NoWaiterWhileAvailable
<1>1. SemInv => NoWaiterWhileAvailable
  BY DEF SemInv
<1> QED
  BY <1>1, SemaphoreInvariant, PTL
-----------------------------------------------------------------------------
(* The order of the wait list: only the start of a wait adds to it, and no  *)
(* step of a semaphore changes a priority.                                  *)
OrderStep(r) == Thins(k, r) /\ r.prio = k.prio

InOrder == flag = "PRIO" => SortedBy(Waiting, k.prio)

(* rt_schedule after a resume or alone *)
LEMMA ScheduleOrder ==
  ASSUME NEW r, KernelOK(r), OrderStep(r)
  PROVE  OrderStep(Schedule(r))
BY ScheduleOK, ScheduleThins DEF OrderStep, Thins, WakesNobody

(* The steps of rt_ipc_list_resume and rt_ipc_list_resume_all *)
LEMMA ResumeOrder ==
  ASSUME KernelOK(k), Waiting # <<>>
  PROVE  /\ OrderStep(Schedule(IpcResume(k, Waiters)))
         /\ OrderStep(IpcResume(k, Waiters))
         /\ OrderStep(IpcResumeWithError(k, Waiters))
<1> DEFINE t == Head(k.list[Waiters])
           e == [k EXCEPT !.err[t] = "ERROR"]
<1>1. k \in KernelState /\ t \in Thread /\ k.stat[t] = "SUSPEND"
  BY WaitersIsQueue, FirstWaiter DEF Waiting, KernelOK
<1>2. /\ KernelOK(e) /\ e \in KernelState /\ e.stat = k.stat
      /\ e.list = k.list /\ e.prio = k.prio
  BY <1>1, ErrorOK DEF Err, KernelOK
<1>3. IpcResume(k, Waiters) = Resume(k, t) /\ IpcResumeWithError(k, Waiters) = Resume(e, t)
  BY DEF IpcResume, IpcResumeWithError
<1> HIDE DEF e, t
<1>4. KernelOK(Resume(k, t)) /\ OrderStep(Resume(k, t))
  BY <1>1, ResumeOK, ResumeThins DEF OnlyWakes, OrderStep
<1>5. OrderStep(Resume(e, t))
  BY <1>1, <1>2, ResumeOK, ResumeThins DEF OnlyWakes, OrderStep, Thins
<1> QED
  BY <1>3, <1>4, <1>5, ScheduleOrder

(* A step that leaves the kernel alone *)
LEMMA SameOrder ==
  ASSUME UNCHANGED k
  PROVE  OrderStep(k')
BY DEF OrderStep, Thins

(* Every step keeps the order or starts a wait. *)
LEMMA StepOrder ==
  ASSUME SemInv, [Next]_vars
  PROVE  UNCHANGED flag /\ (OrderStep(k') \/ \E t \in Thread : TakeBlock(t))
<1>0. KernelOK(k)
  BY DEF SemInv, TypeOK, Consistent, KernelOK
<1>1. OrderStep(Schedule(k))
  BY <1>0, ScheduleOK, ScheduleThins DEF OrderStep, WakesNobody
<1>2. CASE UNCHANGED vars
  BY <1>2, SameOrder DEF vars
<1>3. CASE Isr
  <2>1. CASE IsrHandOver
    BY <1>0, <2>1, ResumeOrder DEF IsrHandOver
  <2>2. CASE IsrIncrement
    BY <2>2, SameOrder DEF IsrIncrement, Increment
  <2>3. CASE SliceIsr
    BY <1>1, <2>3 DEF SliceIsr
  <2>4. ASSUME NEW t \in Thread, TimerIsr(t)
        PROVE  UNCHANGED flag /\ OrderStep(k')
    <3>1. t \in k.armed /\ k' = Timeout(k, t) /\ UNCHANGED flag
      BY <2>4 DEF TimerIsr
    <3> QED
      BY <1>0, <3>1, TimeoutOK, TimeoutThins DEF OrderStep, OnlyWakes
  <2> QED
    BY <1>3, <2>1, <2>2, <2>3, <2>4 DEF Isr
<1>4. ASSUME NEW t \in Thread, ThreadStep(t)
      PROVE  UNCHANGED flag /\ (OrderStep(k') \/ TakeBlock(t))
  <2>1. CASE TakeSchedule(t) \/ ReleaseSchedule(t) \/ ResetSchedule(t)
    BY <1>1, <2>1 DEF TakeSchedule, ReleaseSchedule, ResetSchedule
  <2>2. CASE TakeAvailable(t) \/ TakeReturn(t) \/ ReleaseIncrement(t) \/ Reset(t)
             \/ ResetValue(t) \/ Detach(t) \/ DetachTest(t)
    BY <2>2, SameOrder DEF TakeAvailable, TakeReturn, ReleaseIncrement, Increment, Reset,
       ResetValue, Detach, DetachTest
  <2>3. CASE TakeBlock(t)
    BY <2>3 DEF TakeBlock
  <2>4. CASE ReleaseHandOver(t)
    BY <1>0, <2>4, ResumeOrder DEF ReleaseHandOver, HandOver
  <2>5. CASE ResetResume(t)
    BY <1>0, <2>5, ResumeOrder DEF ResetResume
  <2>6. CASE DetachResume(t)
    BY <1>0, <2>6, ResumeOrder, SameOrder DEF DetachResume
  <2> QED
    BY <1>4, <2>1, <2>2, <2>3, <2>4, <2>5, <2>6 DEF ThreadStep
<1> QED
  BY <1>2, <1>3, <1>4 DEF Next

(* Where a new waiter stands *)
LEMMA BlockOrder ==
  ASSUME SemInv, InOrder, NEW t \in Thread, TakeBlock(t)
  PROVE  /\ k'.prio = k.prio /\ t \notin On(k, Waiters)
         /\ \A x, y \in Thread : Precedes(k'.list[Waiters], x, y) =>
              \/ Precedes(Waiting, x, y)
              \/ x = t /\ flag = "PRIO" /\ k.prio[t] < k.prio[y]
              \/ y = t /\ (flag = "PRIO" => k.prio[x] <= k.prio[t])
<1> DEFINE e == [k EXCEPT !.err[t] = "EOK"]
<1>1. PICK timed \in BOOLEAN : k' = IpcSuspend(e, Waiters, t, flag, timed)
  BY DEF TakeBlock
<1>2. KernelOK(k) /\ k.stat[t] = "RUNNING"
  BY DEF SemInv, TypeOK, Consistent, KernelOK, TakeBlock, MayCall
<1>3. KernelOK(e) /\ e.stat = k.stat /\ e.list = k.list /\ e.prio = k.prio
  BY <1>2, ErrorOK DEF Err
<1> HIDE DEF e
<1>4. k'.prio = e.prio
  BY <1>1, <1>2, <1>3, WaitersIsQueue, IpcSuspendOK
<1>5. t \notin On(k, Waiters)
  BY <1>2, WaitersIsQueue DEF KernelOK, KernelConsistent, WaitersSuspended
<1> QED
  BY <1>1, <1>2, <1>3, <1>4, <1>5, WaitersIsQueue, IpcSuspendOrder DEF InOrder, Waiting

(* The list stays in order. *)
LEMMA OrderInvariant == Spec => []InOrder
<1>1. Init => InOrder
  BY StartedOK, SemaphoreAssumption, WaitersIsQueue, EmptyOn
     DEF Init, InOrder, SortedBy, Precedes, Waiting, KernelOK
<1>2. SemInv /\ InOrder /\ [Next]_vars => InOrder'
  <2> SUFFICES ASSUME SemInv, InOrder, [Next]_vars PROVE InOrder'
    OBVIOUS
  <2>1. CASE OrderStep(k')
    BY <2>1, StepOrder, WaitersIsQueue DEF OrderStep, Thins, InOrder, SortedBy, Waiting
  <2>2. ASSUME NEW t \in Thread, TakeBlock(t) PROVE InOrder'
    <3>1. \A x \in Thread : k.prio[x] \in Nat
      BY KernelAssumption DEF SemInv, TypeOK, KernelState, Prio
    <3> QED
      BY <2>2, <3>1, BlockOrder, StepOrder DEF InOrder, SortedBy, Waiting
  <2> QED
    BY <2>1, <2>2, StepOrder
<1> QED
  BY <1>1, <1>2, SemaphoreInvariant, PTL DEF Spec

(* Nobody is overtaken by a thread that is not more urgent: a release, a    *)
(* time-out and a reset leave the waiters in their order, and rt_sem_take   *)
(* inserts by priority, or at the end (RT_IPC_FLAG_FIFO).                   *)
THEOREM SemaphoreKeepsOrder == Spec => NoOvertaking
<1> DEFINE Step == \A t, u \in Thread :
       LET w2 == k'.list[Waiters] IN
       t \in ToSet(Waiting) /\ t \in ToSet(w2) /\ Before(w2, u, t) =>
         \/ Before(Waiting, u, t)
         \/ u \notin ToSet(Waiting) /\ flag = "PRIO" /\ k.prio[u] < k.prio[t]
<1>1. ASSUME SemInv, InOrder, [Next]_vars PROVE Step
  <2>1. k \in KernelState /\ k' \in KernelState
    BY <1>1, NextInv DEF SemInv, TypeOK
  <2>2. \A t, u \in Thread : /\ Before(Waiting, u, t) <=> Precedes(Waiting, u, t)
                             /\ Before(k'.list[Waiters], u, t) <=> Precedes(k'.list[Waiters], u, t)
    BY <2>1, WaitersIsQueue, ListType DEF Before, Precedes, Waiting
  <2>3. CASE OrderStep(k')
    BY <2>2, <2>3, WaitersIsQueue DEF OrderStep, Thins, Waiting
  <2>4. ASSUME NEW b \in Thread, TakeBlock(b) PROVE Step
    <3>1. b \notin ToSet(Waiting)
      BY <1>1, <2>4, BlockOrder DEF On, Waiting
    <3> QED
      BY <1>1, <2>2, <2>4, <3>1, BlockOrder
  <2> QED
    BY <1>1, <2>3, <2>4, StepOrder
<1>2. SemInv /\ InOrder /\ [Next]_vars => [Step]_vars
  BY <1>1
<1> QED
  BY <1>2, SemaphoreInvariant, OrderInvariant, PTL DEF Spec, NoOvertaking

-----------------------------------------------------------------------------
(* How a wait on a semaphore ends, and that the semaphore implements        *)
(* AbstractSemaphore; SemInv is used throughout.                            *)

(* The ways in which a step changes the kernel, apart from the start of a   *)
(* wait: it wakes nobody, or it wakes t and leaves e in its thread->error.  *)
Quiet(r) == KernelOK(r) /\ WakesNobody(k, r)

Wakes(r, t, e) ==
  /\ KernelOK(r) /\ OnlyWakes(k, r, t)
  /\ r.err = [k.err EXCEPT ![t] = e]

(* It leaves a running thread current, and none that is more urgent ready. *)
Settled(r) == r.stat[r.current] = "RUNNING" /\ Preempted(r)

(* A unit is granted exactly with RT_EOK. *)
GrantedWith(t, e) == granted' = IF e = "EOK" THEN granted \cup {t} ELSE granted

(* Which threads are inside the wait of rt_sem_take does not change. *)
SameBlocked == \A t \in Thread : Blocked(t)' <=> Blocked(t)

(* What both invariants say of the kernel *)
LEMMA KernelFacts ==
  ASSUME SemInv
  PROVE  /\ KernelOK(k) /\ k \in KernelState /\ k.current \in Thread
         /\ \A t \in Thread : k.stat[t] = "RUNNING" => t = k.current
BY DEF SemInv, TypeOK, Consistent, KernelOK, KernelConsistent, KernelState, RunningIsCurrent

(* rt_schedule after any change of the kernel that lets the idle thread run *)
LEMMA ScheduleSettles ==
  ASSUME NEW r, KernelOK(r), r.lock = 0, NEW t \in Thread,
         r.stat[t] \in {"READY", "RUNNING"}
  PROVE  Settled(Schedule(r))
BY ScheduleRuns, SchedulePreempts DEF Settled

LEMMA Scheduled ==
  ASSUME SemInv, SchedulerRuns
  PROVE  Quiet(Schedule(k)) /\ Settled(Schedule(k))
<1>1. KernelOK(k) /\ k.lock = 0 /\ Idle \in Thread /\ k.stat[Idle] \in {"READY", "RUNNING"}
  BY KernelFacts, SemaphoreAssumption DEF SchedulerRuns
<1> QED
  BY <1>1, ScheduleOK, ScheduleSettles DEF Quiet

LEMMA Unscheduled ==
  ASSUME SemInv, UNCHANGED k
  PROVE  Quiet(k')
BY KernelFacts DEF Quiet, WakesNobody, KernelOK, KernelConsistent, RunningIsCurrent

(* rt_ipc_list_resume, alone and followed by rt_schedule *)
LEMMA Resumed ==
  ASSUME SemInv, WaitInv, Waiting # <<>>
  PROVE  LET h == Head(Waiting)
             r == IpcResume(k, Waiters)
         IN  /\ h \in Thread /\ k.stat[h] = "SUSPEND"
             /\ Wakes(r, h, "EOK") /\ r.current = k.current
             /\ Wakes(Schedule(r), h, "EOK") /\ Settled(Schedule(r))
<1> DEFINE h == Head(Waiting)
           r == IpcResume(k, Waiters)
<1>1. h \in Thread /\ k.stat[h] = "SUSPEND" /\ r = Resume(k, h)
  BY KernelFacts, WaitersIsQueue, FirstWaiter DEF Waiting, IpcResume
<1> HIDE DEF h, r
<1>2. KernelOK(r) /\ OnlyWakes(k, r, h) /\ r.err = k.err /\ r.current = k.current
  BY <1>1, KernelFacts, ResumeOK
<1>3. k.err = [k.err EXCEPT ![h] = "EOK"]
  BY <1>1, KernelFacts DEF WaitInv, WaitersInTake, KernelState
<1>4. KernelOK(Schedule(r)) /\ WakesNobody(r, Schedule(r))
  BY <1>2, ScheduleOK
<1>5. Wakes(Schedule(r), h, "EOK")
  BY <1>2, <1>3, <1>4 DEF Wakes, OnlyWakes, WakesNobody
<1>6. r.lock = 0 /\ Idle \in Thread /\ r.stat[Idle] \in {"READY", "RUNNING"}
  BY <1>2, SemaphoreAssumption DEF WaitInv, SchedulerRuns, OnlyWakes, Living
<1>7. Settled(Schedule(r))
  BY <1>2, <1>6, ScheduleSettles
<1> QED
  BY <1>1, <1>2, <1>3, <1>5, <1>7 DEF Wakes, h, r

(* One round of rt_ipc_list_resume_all *)
LEMMA ResumedWithError ==
  ASSUME SemInv, Waiting # <<>>
  PROVE  LET h == Head(Waiting)
             r == IpcResumeWithError(k, Waiters)
         IN  /\ h \in Thread /\ k.stat[h] = "SUSPEND"
             /\ Wakes(r, h, "ERROR") /\ r.current = k.current
<1> DEFINE h == Head(Waiting)
           e == [k EXCEPT !.err[h] = "ERROR"]
           r == IpcResumeWithError(k, Waiters)
<1>1. h \in Thread /\ k.stat[h] = "SUSPEND" /\ r = Resume(e, h)
  BY KernelFacts, WaitersIsQueue, FirstWaiter DEF Waiting, IpcResumeWithError
<1> HIDE DEF h, r
<1>2. /\ KernelOK(e) /\ e.stat = k.stat /\ e.current = k.current /\ e.lock = k.lock
      /\ e.err = [k.err EXCEPT ![h] = "ERROR"] /\ e.prio = k.prio /\ e.armed = k.armed
      /\ \A l \in ListId : On(e, l) = On(k, l)
  BY <1>1, KernelFacts, ErrorOK DEF Err
<1> HIDE DEF e
<1>3. KernelOK(r) /\ OnlyWakes(e, r, h) /\ r.err = e.err /\ r.current = e.current
  BY <1>1, <1>2, ResumeOK
<1>4. OnlyWakes(k, r, h)
  BY <1>2, <1>3, ListKinds DEF OnlyWakes
<1> QED
  BY <1>1, <1>2, <1>3, <1>4 DEF Wakes, h, r

(* The expiry of a thread timer; rt_thread_timeout ends with rt_schedule. *)
LEMMA TimedOut ==
  ASSUME SemInv, SchedulerRuns, NEW t \in k.armed
  PROVE  /\ t \in Thread /\ k.stat[t] = "SUSPEND"
         /\ Wakes(Timeout(k, t), t, "ETIMEOUT") /\ Settled(Timeout(k, t))
<1>1. t \in Thread /\ k.stat[t] = "SUSPEND"
  BY KernelFacts DEF KernelOK, KernelConsistent, TimersForSuspended, KernelState
<1>2. Wakes(Timeout(k, t), t, "ETIMEOUT")
  BY KernelFacts, TimeoutOK DEF Wakes
<1>3. Settled(Timeout(k, t))
  BY KernelFacts, TimeoutOK DEF Settled, SchedulerRuns
<1> QED
  BY <1>1, <1>2, <1>3

-----------------------------------------------------------------------------
(* The parts of the invariant that do not depend on where the current       *)
(* thread is: they survive a step that wakes nobody,                        *)
LEMMA QuietKeeps ==
  ASSUME SemInv, WaitInv, Quiet(k'), SameBlocked, UNCHANGED granted
  PROVE  SchedulerRuns' /\ WaitersInTake' /\ HonestReturn'
<1> USE DEF WaitInv
<1>1. \A t \in Thread : /\ k'.stat[t] = "SUSPEND" <=> k.stat[t] = "SUSPEND"
                        /\ k'.stat[t] \in Living /\ k'.err[t] = k.err[t]
  BY DEF Quiet, WakesNobody, SchedulerRuns, Living
<1>2. SchedulerRuns'
  BY <1>1, SemaphoreAssumption DEF SchedulerRuns, Quiet, WakesNobody, Living
<1>3. WaitersInTake' /\ HonestReturn'
  BY <1>1 DEF WaitersInTake, HonestReturn, SameBlocked, SemInv, TypeOK
<1> QED
  BY <1>2, <1>3

(* and one that wakes a thread, with a unit exactly when with RT_EOK.       *)
LEMMA WakeKeeps ==
  ASSUME SemInv, WaitInv, NEW t \in Thread, k.stat[t] = "SUSPEND", NEW e \in Err,
         Wakes(k', t, e), SameBlocked, GrantedWith(t, e)
  PROVE  SchedulerRuns' /\ WaitersInTake' /\ HonestReturn'
<1> USE DEF WaitInv
<1>1. \A u \in Thread : /\ k'.stat[u] = "SUSPEND" <=> k.stat[u] = "SUSPEND" /\ u # t
                        /\ k'.stat[u] \in Living
                        /\ k'.err[u] = IF u = t THEN e ELSE k.err[u]
  BY KernelFacts DEF Wakes, OnlyWakes, SchedulerRuns, Living, KernelState
<1>2. SchedulerRuns'
  BY <1>1, SemaphoreAssumption DEF SchedulerRuns, Wakes, OnlyWakes, Living
<1>3. \A u \in Thread : u \in granted' <=> u \in granted \/ (u = t /\ e = "EOK")
  BY DEF GrantedWith
<1>4. granted' \subseteq Thread /\ granted \subseteq Thread
  BY DEF GrantedWith, SemInv, TypeOK
<1>5. Blocked(t) /\ t \notin granted
  BY DEF WaitersInTake
<1>6. WaitersInTake'
  BY <1>1, <1>3, <1>4, <1>5 DEF WaitersInTake, SameBlocked
<1>7. HonestReturn'
  BY <1>1, <1>3, <1>5 DEF HonestReturn, SameBlocked
<1> QED
  BY <1>2, <1>6, <1>7

(* A step that ends in rt_schedule keeps the rest about the current thread, *)
LEMMA SettledKeeps ==
  ASSUME Settled(k')
  PROVE  NotPastSchedule' /\ PreemptedAtReturn'
BY DEF Settled, NotPastSchedule, PreemptedAtReturn

(* and a finished rt_sem_detach has left the list empty.                    *)
LEMMA EmptyStays ==
  ASSUME SemInv, KernelStep(k'), Waiting = <<>>
  PROVE  Waiting' = <<>>
<1>1. k \in KernelState /\ k' \in KernelState
  BY KernelFacts DEF KernelStep, KernelOK
<1>2. On(k, Waiters) = {}
  BY <1>1, WaitersIsQueue, EmptyOn DEF Waiting
<1>3. On(k', Waiters) = {}
  BY <1>2 DEF KernelStep
<1> QED
  BY <1>1, <1>3, WaitersIsQueue, EmptyOn DEF Waiting

LEMMA DetachKeeps ==
  ASSUME SemInv, WaitInv, KernelStep(k'), UNCHANGED alive,
         \A t \in Thread : pc[t] \in {"detach_loop", "detach_resume"} <=>
                           pc'[t] \in {"detach_loop", "detach_resume"}
  PROVE  DetachEntered' /\ DetachWakesAll'
BY EmptyStays DEF WaitInv, DetachEntered, DetachWakesAll

LEMMA StepKinds ==
  ASSUME NEW r, SemInv
  PROVE  /\ Quiet(r) => KernelStep(r)
         /\ \A t, e : Wakes(r, t, e) => KernelStep(r)
<1>1. Quiet(r) => KernelStep(r)
  BY WaitersIsQueue DEF Quiet, WakesNobody, KernelStep
<1>2. ASSUME NEW t, NEW e, Wakes(r, t, e) PROVE KernelStep(r)
  BY <1>2, WaitersIsQueue DEF Wakes, OnlyWakes, KernelStep
<1> QED
  BY <1>1, <1>2

(* A new semaphore in the started system *)
LEMMA WaitInit == Init => WaitInv
<1> SUFFICES ASSUME Init PROVE WaitInv
  OBVIOUS
<1>1. /\ \A t \in Thread : k.stat[t] \in {"READY", "RUNNING"}
      /\ k.lock = 0 /\ KernelOK(k)
  BY StartedOK, SemaphoreAssumption DEF Init
<1>2. SchedulerRuns
  BY <1>1, SemaphoreAssumption DEF SchedulerRuns
<1>3. WaitersInTake /\ HonestReturn
  BY <1>1 DEF Init, WaitersInTake, HonestReturn, Blocked
<1>4. k.current \in Thread /\ NotPastSchedule
  BY <1>1 DEF NotPastSchedule, KernelOK, KernelState
<1>5. DetachEntered /\ DetachWakesAll
  BY DEF Init, DetachEntered, DetachWakesAll
<1>6. PreemptedAtReturn
  BY StartedOK, SemaphoreAssumption DEF Init, PreemptedAtReturn
<1> QED
  BY <1>2, <1>3, <1>4, <1>5, <1>6 DEF WaitInv

-----------------------------------------------------------------------------
(* The start of a wait *)
LEMMA BlockKeeps ==
  ASSUME SemInv, WaitInv, NEW t \in Thread, TakeBlock(t)
  PROVE  WaitInv'
<1> USE DEF WaitInv
<1> DEFINE e == [k EXCEPT !.err[t] = "EOK"]
<1>1. PICK timed \in BOOLEAN : k' = IpcSuspend(e, Waiters, t, flag, timed)
  BY DEF TakeBlock
<1>2. /\ t = k.current /\ k.stat[t] = "RUNNING" /\ t # Idle /\ pc[t] = "user"
      /\ alive /\ UNCHANGED <<alive, granted>> /\ pc' = [pc EXCEPT ![t] = "take_sched"]
      /\ pc \in [Thread -> PC]
  BY DEF TakeBlock, MayCall, Goto, SemInv, TypeOK
<1>3. /\ KernelOK(e) /\ e.stat = k.stat /\ e.current = k.current /\ e.lock = k.lock
      /\ e.err = [k.err EXCEPT ![t] = "EOK"]
  BY KernelFacts, ErrorOK DEF Err
<1> HIDE DEF e
<1>4. /\ \A w \in Thread : k'.stat[w] = "SUSPEND" <=> k.stat[w] = "SUSPEND" \/ w = t
      /\ \A w \in Thread : k.stat[w] \in Living => k'.stat[w] \in Living
      /\ k'.err = e.err /\ k'.lock = k.lock /\ k'.current = t
  BY <1>1, <1>2, <1>3, WaitersIsQueue, IpcSuspendOK
<1>5. \A w \in Thread : /\ k'.err[w] = IF w = t THEN "EOK" ELSE k.err[w]
                        /\ pc'[w] = IF w = t THEN "take_sched" ELSE pc[w]
  BY <1>2, <1>3, <1>4, KernelFacts DEF KernelState
<1>6. SchedulerRuns'
  BY <1>2, <1>4, SemaphoreAssumption DEF SchedulerRuns, Living
<1>7. WaitersInTake' /\ HonestReturn'
  BY <1>2, <1>4, <1>5 DEF WaitersInTake, HonestReturn, Blocked, SemInv, TypeOK
<1>8. NotPastSchedule' /\ PreemptedAtReturn'
  BY <1>4, <1>5 DEF NotPastSchedule, PreemptedAtReturn
<1>9. DetachEntered' /\ DetachWakesAll'
  BY <1>2, <1>5 DEF DetachEntered, DetachWakesAll
<1> QED
  BY <1>6, <1>7, <1>8, <1>9

(* Every step of a thread keeps the invariant: one case per action. *)
LEMMA ThreadStepKeeps ==
  ASSUME SemInv, WaitInv, NEW t \in Thread, ThreadStep(t)
  PROVE  WaitInv'
<1> USE DEF WaitInv
<1>0. pc \in [Thread -> PC] /\ granted \subseteq Thread
  BY DEF SemInv, TypeOK
<1>1. CASE TakeAvailable(t)
  <2>1. UNCHANGED <<k, alive, pc, granted>>
    BY <1>1 DEF TakeAvailable
  <2>2. SameBlocked /\ Quiet(k') /\ KernelStep(k')
    BY <2>1, Unscheduled, StepKinds DEF SameBlocked, Blocked
  <2>3. NotPastSchedule' /\ PreemptedAtReturn'
    BY <2>1 DEF NotPastSchedule, PreemptedAtReturn, Preempted
  <2> QED
    BY <2>1, <2>2, <2>3, QuietKeeps, DetachKeeps
<1>2. CASE TakeBlock(t)
  BY <1>2, BlockKeeps
<1>3. CASE TakeSchedule(t)
  <2>1. /\ pc[t] = "take_sched" /\ pc' = [pc EXCEPT ![t] = "take_return"]
        /\ k' = Schedule(k) /\ UNCHANGED <<alive, granted>>
    BY <1>3 DEF TakeSchedule, At, Goto
  <2>2. SameBlocked
    BY <1>0, <2>1 DEF SameBlocked, Blocked
  <2>3. Quiet(k') /\ Settled(k') /\ KernelStep(k')
    BY <2>1, Scheduled, StepKinds
  <2>4. DetachEntered' /\ DetachWakesAll'
    BY <1>0, <2>1, <2>3, DetachKeeps
  <2> QED
    BY <2>1, <2>2, <2>3, <2>4, QuietKeeps, SettledKeeps
<1>4. CASE TakeReturn(t)
  <2>1. /\ t = k.current /\ pc[t] = "take_return" /\ pc' = [pc EXCEPT ![t] = "user"]
        /\ UNCHANGED <<k, alive>> /\ granted' = granted \ {t}
    BY <1>4 DEF TakeReturn, At, Goto
  <2>2. k.stat[t] # "SUSPEND"
    BY <2>1 DEF NotPastSchedule
  <2>3. \A u \in Thread : pc'[u] = IF u = t THEN "user" ELSE pc[u]
    BY <1>0, <2>1
  <2>4. SchedulerRuns'
    BY <2>1 DEF SchedulerRuns
  <2>5. WaitersInTake' /\ HonestReturn'
    BY <1>0, <2>1, <2>2, <2>3 DEF WaitersInTake, HonestReturn, Blocked
  <2>6. NotPastSchedule' /\ PreemptedAtReturn'
    BY <2>1, <2>2, <2>3 DEF NotPastSchedule, PreemptedAtReturn, Preempted
  <2>7. DetachEntered' /\ DetachWakesAll'
    BY <2>1, <2>3, Unscheduled, StepKinds, DetachKeeps
  <2> QED
    BY <2>4, <2>5, <2>6, <2>7
<1>5. CASE ReleaseHandOver(t)
  <2> DEFINE h == Head(Waiting)
  <2>1. /\ t = k.current /\ pc[t] = "user" /\ k.stat[t] = "RUNNING"
        /\ pc' = [pc EXCEPT ![t] = "release_sched"]
        /\ Waiting # <<>> /\ k' = IpcResume(k, Waiters)
        /\ granted' = granted \cup {h} /\ UNCHANGED alive
    BY <1>5 DEF ReleaseHandOver, HandOver, MayCall, Goto
  <2>2. /\ h \in Thread /\ k.stat[h] = "SUSPEND"
        /\ Wakes(k', h, "EOK") /\ k'.current = k.current
    BY <2>1, Resumed
  <2> HIDE DEF h
  <2>3. \A u \in Thread : pc'[u] = IF u = t THEN "release_sched" ELSE pc[u]
    BY <1>0, <2>1
  <2>4. SameBlocked
    BY <2>1, <2>3 DEF SameBlocked, Blocked
  <2>5. SchedulerRuns' /\ WaitersInTake' /\ HonestReturn'
    BY <2>1, <2>2, <2>4, WakeKeeps DEF GrantedWith, Err
  <2>6. NotPastSchedule' /\ PreemptedAtReturn'
    BY <2>1, <2>2, <2>3 DEF NotPastSchedule, PreemptedAtReturn, Wakes, OnlyWakes
  <2>7. DetachEntered' /\ DetachWakesAll'
    BY <2>1, <2>2, <2>3, StepKinds, DetachKeeps
  <2> QED
    BY <2>5, <2>6, <2>7
<1>6. CASE ReleaseIncrement(t)
  <2>1. UNCHANGED <<k, alive, pc, granted>>
    BY <1>6 DEF ReleaseIncrement, Increment
  <2>2. SameBlocked /\ Quiet(k') /\ KernelStep(k')
    BY <2>1, Unscheduled, StepKinds DEF SameBlocked, Blocked
  <2>3. NotPastSchedule' /\ PreemptedAtReturn'
    BY <2>1 DEF NotPastSchedule, PreemptedAtReturn, Preempted
  <2> QED
    BY <2>1, <2>2, <2>3, QuietKeeps, DetachKeeps
<1>7. CASE ReleaseSchedule(t) \/ ResetSchedule(t)
  <2>1. /\ pc[t] \in {"release_sched", "reset_sched"} /\ pc' = [pc EXCEPT ![t] = "user"]
        /\ k' = Schedule(k) /\ UNCHANGED <<alive, granted>>
    BY <1>7 DEF ReleaseSchedule, ResetSchedule, At, Goto
  <2>2. SameBlocked
    BY <1>0, <2>1 DEF SameBlocked, Blocked
  <2>3. Quiet(k') /\ Settled(k') /\ KernelStep(k')
    BY <2>1, Scheduled, StepKinds
  <2>4. DetachEntered' /\ DetachWakesAll'
    BY <1>0, <2>1, <2>3, DetachKeeps
  <2> QED
    BY <2>1, <2>2, <2>3, <2>4, QuietKeeps, SettledKeeps
<1>8. CASE Reset(t) \/ ResetValue(t)
  <2>1. /\ t = k.current /\ pc[t] \in {"user", "reset_loop"}
        /\ \E a \in {"reset_loop", "reset_sched"} : pc' = [pc EXCEPT ![t] = a]
        /\ UNCHANGED <<k, alive, granted>>
    BY <1>8 DEF Reset, ResetValue, MayCall, At, Goto
  <2>2. \A u \in Thread : IF u = t THEN pc'[u] \in {"reset_loop", "reset_sched"}
                                   ELSE pc'[u] = pc[u]
    BY <1>0, <2>1
  <2>3. SameBlocked /\ Quiet(k') /\ KernelStep(k')
    BY <2>1, <2>2, Unscheduled, StepKinds DEF SameBlocked, Blocked
  <2>4. NotPastSchedule' /\ PreemptedAtReturn'
    BY <2>1, <2>2 DEF NotPastSchedule, PreemptedAtReturn
  <2>5. DetachEntered' /\ DetachWakesAll'
    BY <2>1, <2>2, <2>3, DetachKeeps
  <2> QED
    BY <2>1, <2>3, <2>4, <2>5, QuietKeeps
<1>9. CASE ResetResume(t)
  <2>1. /\ t = k.current /\ pc[t] = "reset_loop" /\ Waiting # <<>>
        /\ k' = IpcResumeWithError(k, Waiters) /\ UNCHANGED <<alive, pc, granted>>
    BY <1>9 DEF ResetResume, At
  <2>2. PICK h \in Thread : /\ k.stat[h] = "SUSPEND" /\ Wakes(k', h, "ERROR")
                            /\ k'.current = k.current
    BY <2>1, ResumedWithError
  <2>3. SameBlocked
    BY <2>1 DEF SameBlocked, Blocked
  <2>4. SchedulerRuns' /\ WaitersInTake' /\ HonestReturn'
    BY <2>1, <2>2, <2>3, WakeKeeps DEF GrantedWith, Err
  <2>5. NotPastSchedule' /\ PreemptedAtReturn'
    BY <2>1, <2>2 DEF NotPastSchedule, PreemptedAtReturn, Wakes, OnlyWakes
  <2>6. DetachEntered' /\ DetachWakesAll'
    BY <2>1, <2>2, StepKinds, DetachKeeps
  <2> QED
    BY <2>4, <2>5, <2>6
<1>10. CASE Detach(t) \/ DetachTest(t)
  <2>1. /\ t = k.current /\ pc[t] \in {"user", "detach_loop"} /\ ~alive'
        /\ \E a \in {"detach_loop", "detach_resume", "user"} : pc' = [pc EXCEPT ![t] = a]
        /\ UNCHANGED <<k, granted>>
    BY <1>10 DEF Detach, DetachTest, MayCall, At, Goto, DetachEntered
  <2>2. \A u \in Thread : IF u = t THEN pc'[u] \in {"detach_loop", "detach_resume", "user"}
                                   ELSE pc'[u] = pc[u]
    BY <1>0, <2>1
  <2>3. SameBlocked /\ Quiet(k')
    BY <2>1, <2>2, Unscheduled DEF SameBlocked, Blocked
  <2>4. NotPastSchedule' /\ PreemptedAtReturn' /\ DetachEntered'
    BY <2>1, <2>2 DEF NotPastSchedule, PreemptedAtReturn, DetachEntered
  <2>5. DetachWakesAll'
    <3>1. pc'[t] = "user" => Waiting = <<>>
      BY <1>0, <1>10 DEF Detach, DetachTest, Goto
    <3> QED
      BY <1>10, <2>1, <2>2, <3>1 DEF DetachWakesAll, Waiting
  <2> QED
    BY <2>1, <2>3, <2>4, <2>5, QuietKeeps
<1>11. CASE DetachResume(t)
  <2>1. /\ t = k.current /\ pc[t] = "detach_resume" /\ ~alive /\ UNCHANGED <<alive, granted>>
    BY <1>11 DEF DetachResume, At, DetachEntered
  <2>2. CASE Waiting # <<>>
    <3>1. pc' = [pc EXCEPT ![t] = "detach_loop"] /\ k' = IpcResumeWithError(k, Waiters)
      BY <1>11, <2>2 DEF DetachResume, Goto
    <3>2. PICK h \in Thread : /\ k.stat[h] = "SUSPEND" /\ Wakes(k', h, "ERROR")
                              /\ k'.current = k.current
      BY <2>2, <3>1, ResumedWithError
    <3>3. \A u \in Thread : pc'[u] = IF u = t THEN "detach_loop" ELSE pc[u]
      BY <1>0, <3>1
    <3>4. SameBlocked
      BY <2>1, <3>3 DEF SameBlocked, Blocked
    <3>5. SchedulerRuns' /\ WaitersInTake' /\ HonestReturn'
      BY <2>1, <3>2, <3>4, WakeKeeps DEF GrantedWith, Err
    <3>6. NotPastSchedule' /\ PreemptedAtReturn' /\ DetachEntered' /\ DetachWakesAll'
      BY <2>1, <3>2, <3>3
      DEF NotPastSchedule, PreemptedAtReturn, DetachEntered, DetachWakesAll, Wakes, OnlyWakes
    <3> QED
      BY <3>5, <3>6
  <2>3. CASE Waiting = <<>>
    <3>1. pc' = [pc EXCEPT ![t] = "wild"] /\ UNCHANGED k
      BY <1>11, <2>3 DEF DetachResume, Goto
    <3>2. \A u \in Thread : pc'[u] = IF u = t THEN "wild" ELSE pc[u]
      BY <1>0, <3>1
    <3>3. SameBlocked /\ Quiet(k')
      BY <2>1, <3>1, <3>2, Unscheduled DEF SameBlocked, Blocked
    <3>4. NotPastSchedule' /\ PreemptedAtReturn' /\ DetachEntered' /\ DetachWakesAll'
      BY <2>1, <2>3, <3>1, <3>2
      DEF NotPastSchedule, PreemptedAtReturn, DetachEntered, DetachWakesAll, Waiting
    <3> QED
      BY <2>1, <3>3, <3>4, QuietKeeps
  <2> QED
    BY <2>2, <2>3
<1> QED
  BY <1>1, <1>2, <1>3, <1>4, <1>5, <1>6, <1>7, <1>8, <1>9, <1>10, <1>11 DEF ThreadStep

(* So does every interrupt handler: it ends with rt_schedule, or has        *)
(* changed nothing but sem->value.                                          *)
LEMMA IsrKeeps ==
  ASSUME SemInv, WaitInv, Isr
  PROVE  WaitInv'
<1> USE DEF WaitInv
<1>1. CASE IsrHandOver
  <2> DEFINE h == Head(Waiting)
  <2>1. /\ Waiting # <<>> /\ k' = Schedule(IpcResume(k, Waiters))
        /\ granted' = granted \cup {h} /\ UNCHANGED <<alive, pc>>
    BY <1>1 DEF IsrHandOver
  <2>2. /\ h \in Thread /\ k.stat[h] = "SUSPEND" /\ Wakes(k', h, "EOK") /\ Settled(k')
    BY <2>1, Resumed
  <2> HIDE DEF h
  <2>3. SchedulerRuns' /\ WaitersInTake' /\ HonestReturn'
    BY <2>1, <2>2, WakeKeeps DEF GrantedWith, Err, SameBlocked, Blocked
  <2> QED
    BY <2>1, <2>2, <2>3, SettledKeeps, StepKinds, DetachKeeps
<1>2. CASE IsrIncrement
  <2>1. UNCHANGED <<k, alive, pc, granted>>
    BY <1>2 DEF IsrIncrement, Increment
  <2>2. SameBlocked /\ Quiet(k') /\ KernelStep(k')
    BY <2>1, Unscheduled, StepKinds DEF SameBlocked, Blocked
  <2>3. NotPastSchedule' /\ PreemptedAtReturn'
    BY <2>1 DEF NotPastSchedule, PreemptedAtReturn, Preempted
  <2> QED
    BY <2>1, <2>2, <2>3, QuietKeeps, DetachKeeps
<1>3. CASE SliceIsr
  <2>1. k' = Schedule(k) /\ UNCHANGED <<alive, pc, granted>>
    BY <1>3 DEF SliceIsr
  <2>2. SameBlocked /\ Quiet(k') /\ Settled(k') /\ KernelStep(k')
    BY <2>1, Scheduled, StepKinds DEF SameBlocked, Blocked
  <2> QED
    BY <2>1, <2>2, QuietKeeps, SettledKeeps, DetachKeeps
<1>4. ASSUME NEW t \in Thread, TimerIsr(t) PROVE WaitInv'
  <2>1. t \in k.armed /\ k' = Timeout(k, t) /\ UNCHANGED <<alive, pc, granted>>
    BY <1>4 DEF TimerIsr
  <2>2. k.stat[t] = "SUSPEND" /\ Wakes(k', t, "ETIMEOUT") /\ Settled(k')
    BY <2>1, TimedOut
  <2>3. SchedulerRuns' /\ WaitersInTake' /\ HonestReturn'
    BY <2>1, <2>2, WakeKeeps DEF GrantedWith, Err, SameBlocked, Blocked
  <2> QED
    BY <2>1, <2>2, <2>3, SettledKeeps, StepKinds, DetachKeeps
<1> QED
  BY <1>1, <1>2, <1>3, <1>4 DEF Isr

(* The invariant is inductive relative to SemInv. *)
LEMMA WaitNext == SemInv /\ WaitInv /\ [Next]_vars => WaitInv'
<1> SUFFICES ASSUME SemInv, WaitInv, [Next]_vars PROVE WaitInv'
  OBVIOUS
<1>1. CASE Next
  BY <1>1, IsrKeeps, ThreadStepKeeps DEF Next
<1>2. CASE UNCHANGED vars
  BY <1>2 DEF vars, WaitInv, SchedulerRuns, WaitersInTake, HonestReturn, NotPastSchedule,
     DetachEntered, DetachWakesAll, PreemptedAtReturn, Blocked, Waiting
<1> QED
  BY <1>1, <1>2

(* A thread is suspended only inside rt_sem_take, with no error set and no  *)
(* unit handed over, and is current only until its call of rt_schedule.     *)
THEOREM SemaphoreWait == Spec => []WaitInv
<1> QED
  BY SemaphoreInvariant, WaitInit, WaitNext, PTL DEF Spec

(* rt_sem_take returns RT_EOK exactly when a release handed it a unit,      *)
(* whatever release, time-out, reset or deletion it races with.             *)
THEOREM SemaphoreAnswersHonestly == Spec => []HonestReturn
<1>1. WaitInv => HonestReturn
  BY DEF WaitInv
<1> QED
  BY <1>1, SemaphoreWait, PTL

(* A thread that runs its own code is never less urgent than a ready one    *)
(* while the semaphore is in use: no call and no interrupt forgets to       *)
(* schedule.                                                                *)
THEOREM SemaphorePreempts == Spec => []FullPreemption
<1>1. WaitInv => FullPreemption
  BY DEF WaitInv, FullPreemption, PreemptedAtReturn
<1> QED
  BY <1>1, SemaphoreWait, PTL

(* rt_sem_detach wakes every waiter, although its loop tests the list with  *)
(* interrupts enabled.                                                      *)
THEOREM SemaphoreDetachWakesAll == Spec => []DetachWakesAll
<1>1. WaitInv => DetachWakesAll
  BY DEF WaitInv
<1> QED
  BY <1>1, SemaphoreWait, PTL

-----------------------------------------------------------------------------
(* The refinement: who waits, in the words of AbstractSemaphore. *)
Suspended == {t \in Thread : k.stat[t] = "SUSPEND"}

LEMMA SuspendedListed ==
  ASSUME SemInv, Waiting = <<>>
  PROVE  Suspended = {}
<1>1. On(k, Waiters) = {}
  BY KernelFacts, WaitersIsQueue, EmptyOn DEF Waiting
<1> QED
  BY <1>1 DEF SemInv, NoLostThread, Suspended

LEMMA StepSuspended ==
  ASSUME NEW r
  PROVE  /\ Quiet(r) => {t \in Thread : r.stat[t] = "SUSPEND"} = Suspended
         /\ \A h, e : Wakes(r, h, e) =>
              {t \in Thread : r.stat[t] = "SUSPEND"} = Suspended \ {h}
<1>1. Quiet(r) => {t \in Thread : r.stat[t] = "SUSPEND"} = Suspended
  BY DEF Quiet, WakesNobody, Suspended
<1>2. ASSUME NEW h, NEW e, Wakes(r, h, e)
      PROVE  {t \in Thread : r.stat[t] = "SUSPEND"} = Suspended \ {h}
  BY <1>2 DEF Wakes, OnlyWakes, Suspended
<1> QED
  BY <1>1, <1>2

(* The initial states *)
LEMMA InitImplements == Init => Abstract!Init
<1> SUFFICES ASSUME Init PROVE Abstract!Init
  OBVIOUS
<1>1. \A t \in Thread : k.stat[t] # "SUSPEND"
  BY StartedOK, SemaphoreAssumption DEF Init
<1> QED
  BY <1>1 DEF Init, Abstract!Init

(* What becomes of the kernel steps: nothing, a grant or a failed wait *)
LEMMA QuietImplements ==
  ASSUME Quiet(k'), UNCHANGED <<value, granted>>
  PROVE  UNCHANGED <<value, Suspended, granted>>
BY StepSuspended DEF Suspended

LEMMA WakeImplements ==
  ASSUME NEW h \in Thread, k.stat[h] = "SUSPEND", NEW e, Wakes(k', h, e), UNCHANGED value
  PROVE  /\ granted' = granted \cup {h} => Abstract!Grant(h)
         /\ UNCHANGED granted => Abstract!Fail(h)
<1>1. h \in Suspended /\ Suspended' = Suspended \ {h}
  BY StepSuspended DEF Suspended
<1> QED
  BY <1>1 DEF Suspended, Abstract!Grant, Abstract!Fail

(* Every step of a thread is a step of the abstract semaphore or a stutter. *)
LEMMA ThreadStepImplements ==
  ASSUME SemInv, WaitInv, NEW t \in Thread, ThreadStep(t)
  PROVE  Abstract!Next \/ UNCHANGED <<value, Suspended, granted>>
<1>0. MaxValue \in Nat /\ value \in 0 .. MaxValue
  BY SemaphoreAssumption DEF SemInv, TypeOK
<1>1. CASE TakeAvailable(t)
  <2>1. Abstract!Take
    BY <1>1 DEF TakeAvailable, Abstract!Take
  <2> QED
    BY <2>1 DEF Abstract!Next
<1>2. CASE TakeBlock(t)
  <2> DEFINE e == [k EXCEPT !.err[t] = "EOK"]
  <2>1. PICK timed \in BOOLEAN : k' = IpcSuspend(e, Waiters, t, flag, timed)
    BY <1>2 DEF TakeBlock
  <2>2. k.stat[t] = "RUNNING" /\ pc[t] = "user" /\ value = 0 /\ UNCHANGED <<value, granted>>
    BY <1>2 DEF TakeBlock, MayCall
  <2>3. KernelOK(e) /\ e.stat = k.stat
    BY KernelFacts, ErrorOK DEF Err
  <2> HIDE DEF e
  <2>4. \A w \in Thread : k'.stat[w] = "SUSPEND" <=> k.stat[w] = "SUSPEND" \/ w = t
    BY <2>1, <2>2, <2>3, WaitersIsQueue, IpcSuspendOK
  <2>5. Suspended' = Suspended \cup {t} /\ t \notin Suspended
    BY <2>2, <2>4 DEF Suspended
  <2>6. t \notin granted
    BY <2>2 DEF WaitInv, WaitersInTake, Blocked
  <2>7. Abstract!Wait(t)
    BY <2>2, <2>5, <2>6 DEF Suspended, Abstract!Wait
  <2> QED
    BY <2>7 DEF Abstract!Next
<1>3. CASE TakeSchedule(t) \/ ReleaseSchedule(t) \/ ResetSchedule(t)
  <2>1. k' = Schedule(k) /\ UNCHANGED <<value, granted>>
    BY <1>3 DEF TakeSchedule, ReleaseSchedule, ResetSchedule
  <2> QED
    BY <2>1, Scheduled, QuietImplements DEF WaitInv
<1>4. CASE TakeReturn(t)
  <2>1. UNCHANGED <<k, value>> /\ granted' = granted \ {t}
    BY <1>4 DEF TakeReturn
  <2>2. CASE t \in granted
    <3>1. Abstract!Return(t)
      BY <2>1, <2>2 DEF Abstract!Return
    <3> QED
      BY <3>1 DEF Abstract!Next
  <2>3. CASE t \notin granted
    BY <2>1, <2>3 DEF Suspended
  <2> QED
    BY <2>2, <2>3
<1>5. CASE ReleaseHandOver(t)
  <2>1. /\ Waiting # <<>> /\ k' = IpcResume(k, Waiters)
        /\ granted' = granted \cup {Head(Waiting)} /\ UNCHANGED value
    BY <1>5 DEF ReleaseHandOver, HandOver
  <2>2. PICK h \in Thread : /\ k.stat[h] = "SUSPEND" /\ Wakes(k', h, "EOK")
                            /\ granted' = granted \cup {h}
    BY <2>1, Resumed
  <2>3. Abstract!Grant(h)
    BY <2>1, <2>2, WakeImplements
  <2> QED
    BY <2>3 DEF Abstract!Next
<1>6. CASE ReleaseIncrement(t)
  <2>1. Abstract!Release
    BY <1>6, SuspendedListed
    DEF ReleaseIncrement, Increment, Suspended, Abstract!Release
  <2> QED
    BY <2>1 DEF Abstract!Next
<1>7. CASE Reset(t) \/ Detach(t) \/ DetachTest(t)
  BY <1>7 DEF Reset, Detach, DetachTest, Suspended
<1>8. CASE ResetValue(t)
  <2>1. Abstract!Reset
    BY <1>8, SuspendedListed DEF ResetValue, Suspended, Abstract!Reset
  <2> QED
    BY <2>1 DEF Abstract!Next
<1>9. CASE ResetResume(t) \/ (DetachResume(t) /\ Waiting # <<>>)
  <2>1. /\ Waiting # <<>> /\ k' = IpcResumeWithError(k, Waiters)
        /\ UNCHANGED <<value, granted>>
    BY <1>9 DEF ResetResume, DetachResume
  <2>2. PICK h \in Thread : k.stat[h] = "SUSPEND" /\ Wakes(k', h, "ERROR")
    BY <2>1, ResumedWithError
  <2>3. Abstract!Fail(h)
    BY <2>1, <2>2, WakeImplements
  <2> QED
    BY <2>3 DEF Abstract!Next
<1>10. CASE DetachResume(t) /\ Waiting = <<>>
  BY <1>10 DEF DetachResume, Suspended
<1> QED
  BY <1>1, <1>2, <1>3, <1>4, <1>5, <1>6, <1>7, <1>8, <1>9, <1>10 DEF ThreadStep

(* So is every interrupt. *)
LEMMA IsrImplements ==
  ASSUME SemInv, WaitInv, Isr
  PROVE  Abstract!Next \/ UNCHANGED <<value, Suspended, granted>>
<1>1. CASE IsrHandOver
  <2>1. /\ Waiting # <<>> /\ k' = Schedule(IpcResume(k, Waiters))
        /\ granted' = granted \cup {Head(Waiting)} /\ UNCHANGED value
    BY <1>1 DEF IsrHandOver
  <2>2. PICK h \in Thread : /\ k.stat[h] = "SUSPEND" /\ Wakes(k', h, "EOK")
                            /\ granted' = granted \cup {h}
    BY <2>1, Resumed
  <2>3. Abstract!Grant(h)
    BY <2>1, <2>2, WakeImplements
  <2> QED
    BY <2>3 DEF Abstract!Next
<1>2. CASE IsrIncrement
  <2>1. Abstract!Release
    BY <1>2, SuspendedListed DEF IsrIncrement, Increment, Suspended, Abstract!Release
  <2> QED
    BY <2>1 DEF Abstract!Next
<1>3. CASE SliceIsr
  BY <1>3, Scheduled, QuietImplements DEF WaitInv, SliceIsr
<1>4. ASSUME NEW t \in Thread, TimerIsr(t) PROVE Abstract!Next
  <2>1. t \in k.armed /\ k' = Timeout(k, t) /\ UNCHANGED <<value, granted>>
    BY <1>4 DEF TimerIsr
  <2>2. Abstract!Fail(t)
    BY <2>1, TimedOut, WakeImplements DEF WaitInv
  <2> QED
    BY <2>2 DEF Abstract!Next
<1> QED
  BY <1>1, <1>2, <1>3, <1>4 DEF Isr

LEMMA NextImplements ==
  SemInv /\ WaitInv /\ [Next]_vars => [Abstract!Next]_<<value, Suspended, granted>>
<1> SUFFICES ASSUME SemInv, WaitInv, [Next]_vars
             PROVE  [Abstract!Next]_<<value, Suspended, granted>>
  OBVIOUS
<1>1. CASE Next
  BY <1>1, ThreadStepImplements, IsrImplements DEF Next
<1>2. CASE UNCHANGED vars
  BY <1>2 DEF vars, Suspended
<1> QED
  BY <1>1, <1>2

(* rt_sem_take, rt_sem_release, rt_sem_control, rt_sem_detach and the       *)
(* time-outs, with the scheduler and its lists, implement the abstract      *)
(* semaphore.                                                               *)
THEOREM SemaphoreImplements == Spec => ImplementsAbstract
<1>1. SemInv /\ WaitInv /\ [Next]_vars
        => [Abstract!Next]_<<value, {t \in Thread : k.stat[t] = "SUSPEND"}, granted>>
  BY NextImplements DEF Suspended
<1> QED
  BY <1>1, InitImplements, SemaphoreInvariant, SemaphoreWait, PTL
  DEF Spec, ImplementsAbstract, Abstract!Spec
=============================================================================
