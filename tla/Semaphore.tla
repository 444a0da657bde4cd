------------------------------ MODULE Semaphore ------------------------------
(***************************************************************************)
(* Counting semaphores (rt_sem_* of ipc.c) on the single-core kernel.      *)
(*                                                                         *)
(* A C function is a sequence of steps of the current thread, one for each *)
(* stretch it runs with interrupts masked; pc says which one comes next.   *)
(* Between two steps an interrupt handler may run: it is one atomic action *)
(* (the port does not nest interrupts) that ends with rt_schedule.  Time   *)
(* slices and time-outs are abstracted: a slice may end, and any timer     *)
(* that is on the timer list may expire, at every tick.                    *)
(*                                                                         *)
(* rt_sem_take with time = 0 on an empty semaphore changes nothing and is  *)
(* a stuttering step.                                                      *)
(***************************************************************************)
EXTENDS Kernel

CONSTANTS
  Waiters,     \* sem->parent.suspend_thread
  InitValue,   \* the value given to rt_sem_init
  MaxValue,    \* most units outstanding; 65535, sem->value is a rt_uint16_t
  First, BasePrio, ReadyOrder,   \* the started system, see StartedKernel
  Idle         \* the idle thread, which never calls a blocking function

ASSUME SemaphoreAssumption ==
  /\ Waiters \in Queue
  /\ MaxValue \in Nat \ {0} /\ InitValue \in 0 .. MaxValue
  /\ StartOrder(First, BasePrio, ReadyOrder)
  /\ Idle \in Thread

VARIABLES
  k,        \* the kernel
  value,    \* sem->value
  flag,     \* sem->parent.parent.flag: RT_IPC_FLAG_PRIO or RT_IPC_FLAG_FIFO
  alive,    \* FALSE once rt_sem_detach or rt_sem_delete has been entered
  pc,       \* where each thread is
  granted   \* history: the threads a release has handed a unit to, until
            \* their rt_sem_take returns

vars == <<k, value, flag, alive, pc, granted>>

PC == {"user", "take_sched", "take_return", "release_sched",
       "reset_loop", "reset_sched", "detach_loop", "detach_resume", "wild"}

Init ==
  /\ k = StartedKernel(First, BasePrio, ReadyOrder)
  /\ value = InitValue
  /\ flag \in {"PRIO", "FIFO"}
  /\ alive = TRUE
  /\ pc = [t \in Thread |-> "user"]
  /\ granted = {}

-----------------------------------------------------------------------------
(* Thread t executes its own code and may call an operation.  After a       *)
(* thread has entered rt_sem_detach nobody calls one any more.              *)
MayCall(t) ==
  /\ t = k.current /\ k.stat[t] = "RUNNING" /\ t # Idle
  /\ pc[t] = "user"
  /\ alive

(* The current thread t executes the step at a. *)
At(t, a) == t = k.current /\ pc[t] = a

Goto(t, a) == pc' = [pc EXCEPT ![t] = a]

(* rt_ipc_list_resume_all inside rt_sem_control runs with interrupts masked. *)
Masked == \E t \in Thread : pc[t] = "reset_loop"

Waiting == k.list[Waiters]

-----------------------------------------------------------------------------
(* Mutation: the last unit is taken twice. *)
TakeAvailable_OffByOne(t) ==
  /\ MayCall(t)
  /\ value >= 0
  /\ value' = value - 1
  /\ UNCHANGED <<k, alive, pc, granted, flag>>

(* rt_sem_take finding a unit *)
TakeAvailable(t) ==
  /\ MayCall(t)
  /\ value > 0
  /\ value' = value - 1
  /\ UNCHANGED <<k, alive, pc, granted, flag>>

(* Mutation: the error of an earlier call is not reset. *)
TakeBlock_StaleError(t) ==
  /\ MayCall(t)
  /\ value = 0
  /\ \E timed \in BOOLEAN : k' = IpcSuspend(k, Waiters, t, flag, timed)
  /\ Goto(t, "take_sched")
  /\ UNCHANGED <<value, alive, granted, flag>>

(* rt_sem_take finding none: it waits, for a time or for ever. *)
TakeBlock(t) ==
  /\ MayCall(t)
  /\ value = 0
  /\ \E timed \in BOOLEAN :
       k' = IpcSuspend([k EXCEPT !.err[t] = "EOK"], Waiters, t, flag, timed)
  /\ Goto(t, "take_sched")
  /\ UNCHANGED <<value, alive, granted, flag>>

TakeSchedule(t) ==
  /\ At(t, "take_sched")
  /\ k' = Schedule(k)
  /\ Goto(t, "take_return")
  /\ UNCHANGED <<value, alive, granted, flag>>

(* rt_schedule has returned: rt_sem_take returns thread->error. *)
TakeReturn(t) ==
  /\ At(t, "take_return")
  /\ granted' = granted \ {t}
  /\ Goto(t, "user")
  /\ UNCHANGED <<k, value, alive, flag>>

-----------------------------------------------------------------------------
(* The masked part of rt_sem_release when a thread waits, and when not. *)
HandOver ==
  /\ k' = IpcResume(k, Waiters)
  /\ granted' = granted \cup {Head(Waiting)}
  /\ UNCHANGED <<value, alive, flag>>

Increment ==
  /\ value < MaxValue
  /\ value' = value + 1
  /\ UNCHANGED <<k, alive, pc, granted, flag>>

(* Mutation: the unit is both handed over and counted. *)
ReleaseHandOver_Counted(t) ==
  /\ MayCall(t)
  /\ Waiting # <<>> /\ value < MaxValue
  /\ k' = IpcResume(k, Waiters)
  /\ granted' = granted \cup {Head(Waiting)}
  /\ value' = value + 1
  /\ Goto(t, "release_sched")
  /\ UNCHANGED <<alive, flag>>

ReleaseHandOver(t) ==
  /\ MayCall(t)
  /\ Waiting # <<>>
  /\ HandOver
  /\ Goto(t, "release_sched")

ReleaseIncrement(t) ==
  /\ MayCall(t)
  /\ Waiting = <<>>
  /\ Increment

(* Mutation: need_schedule is never set. *)
ReleaseSchedule_Skipped(t) ==
  /\ At(t, "release_sched")
  /\ Goto(t, "user")
  /\ UNCHANGED <<k, value, alive, granted, flag>>

ReleaseSchedule(t) ==
  /\ At(t, "release_sched")
  /\ k' = Schedule(k)
  /\ Goto(t, "user")
  /\ UNCHANGED <<value, alive, granted, flag>>

(* rt_sem_release called by an interrupt handler; rt_schedule runs at once. *)
IsrHandOver ==
  /\ alive /\ ~Masked
  /\ Waiting # <<>>
  /\ k' = Schedule(IpcResume(k, Waiters))
  /\ granted' = granted \cup {Head(Waiting)}
  /\ UNCHANGED <<value, alive, pc, flag>>

IsrIncrement ==
  /\ alive /\ ~Masked
  /\ Waiting = <<>>
  /\ Increment

-----------------------------------------------------------------------------
(* rt_sem_control(RT_IPC_CMD_RESET): one round of the loop per step. *)
Reset(t) ==
  /\ MayCall(t)
  /\ Goto(t, "reset_loop")
  /\ UNCHANGED <<k, value, alive, granted, flag>>

ResetResume(t) ==
  /\ At(t, "reset_loop")
  /\ Waiting # <<>>
  /\ k' = IpcResumeWithError(k, Waiters)
  /\ UNCHANGED <<value, alive, pc, granted, flag>>

(* Mutation: the new value is set while threads still wait. *)
ResetValue_Early(t) ==
  /\ At(t, "reset_loop")
  /\ value' \in 0 .. MaxValue
  /\ Goto(t, "reset_sched")
  /\ UNCHANGED <<k, alive, granted, flag>>

ResetValue(t) ==
  /\ At(t, "reset_loop")
  /\ Waiting = <<>>
  /\ value' \in 0 .. MaxValue
  /\ Goto(t, "reset_sched")
  /\ UNCHANGED <<k, alive, granted, flag>>

ResetSchedule(t) ==
  /\ At(t, "reset_sched")
  /\ k' = Schedule(k)
  /\ Goto(t, "user")
  /\ UNCHANGED <<value, alive, granted, flag>>

-----------------------------------------------------------------------------
(* rt_sem_detach and rt_sem_delete: the loop tests the list and masks the   *)
(* interrupts afterwards, and nothing calls rt_schedule at the end.         *)
Detach(t) ==
  /\ MayCall(t)
  /\ alive' = FALSE
  /\ Goto(t, "detach_loop")
  /\ UNCHANGED <<k, value, granted, flag>>

(* Mutation: the loop is left after one thread. *)
DetachTest_Once(t) ==
  /\ At(t, "detach_loop")
  /\ Goto(t, IF Len(Waiting) > 1 THEN "detach_resume" ELSE "user")
  /\ UNCHANGED <<k, value, alive, granted, flag>>

DetachTest(t) ==
  /\ At(t, "detach_loop")
  /\ Goto(t, IF Waiting # <<>> THEN "detach_resume" ELSE "user")
  /\ UNCHANGED <<k, value, alive, granted, flag>>

(* With the list empty, list->next is the list head itself and is taken for *)
(* a thread: what follows is undefined, and t gets no further here.         *)
DetachResume(t) ==
  /\ At(t, "detach_resume")
  /\ k' = IF Waiting # <<>> THEN IpcResumeWithError(k, Waiters) ELSE k
  /\ Goto(t, IF Waiting # <<>> THEN "detach_loop" ELSE "wild")
  /\ UNCHANGED <<value, alive, granted, flag>>

-----------------------------------------------------------------------------
(* A tick interrupt in which the timer of thread t expires. *)
TimerIsr(t) ==
  /\ t \in k.armed /\ ~Masked
  /\ k' = Timeout(k, t)
  /\ UNCHANGED <<value, alive, pc, granted, flag>>

(* A tick interrupt that ends the time slice of the current thread. *)
SliceIsr ==
  /\ ~Masked
  /\ k' = Schedule(k)
  /\ UNCHANGED <<value, alive, pc, granted, flag>>

-----------------------------------------------------------------------------
ThreadStep(t) ==
  \/ TakeAvailable(t) \/ TakeBlock(t) \/ TakeSchedule(t) \/ TakeReturn(t)
  \/ ReleaseHandOver(t) \/ ReleaseIncrement(t) \/ ReleaseSchedule(t)
  \/ Reset(t) \/ ResetResume(t) \/ ResetValue(t) \/ ResetSchedule(t)
  \/ Detach(t) \/ DetachTest(t) \/ DetachResume(t)

Isr == IsrHandOver \/ IsrIncrement \/ SliceIsr \/ \E t \in Thread : TimerIsr(t)

Next == Isr \/ \E t \in Thread : ThreadStep(t)

Spec == Init /\ [][Next]_vars


-----------------------------------------------------------------------------
(* The state of rt_sem_* and of the kernel stays within its types. *)
TypeOK ==
  /\ k \in KernelState
  /\ value \in 0 .. MaxValue
  /\ flag \in {"PRIO", "FIFO"}
  /\ alive \in BOOLEAN
  /\ pc \in [Thread -> PC]
  /\ granted \in SUBSET Thread

(* The lists, the bitmap and the thread states that scheduler.c, thread.c   *)
(* and ipc.c each change a part of agree with each other.                   *)
Consistent == KernelConsistent(k)

(* Every suspended thread is on the wait list, where a release, a reset or  *)
(* a deletion finds it: none is left suspended with nobody to wake it.      *)
NoLostThread == \A t \in Thread : k.stat[t] = "SUSPEND" => t \in On(k, Waiters)

(* A unit is never left in sem->value while a thread waits for one: a lost  *)
(* wake-up between the test in rt_sem_take and an interrupt handler's       *)
(* rt_sem_release would show here.                                          *)
NoWaiterWhileAvailable == value > 0 => Waiting = <<>>

Blocked(t) == pc[t] \in {"take_sched", "take_return"}

(* Once a blocked thread has been woken, rt_sem_take is going to return     *)
(* RT_EOK exactly when a release has handed it a unit; a time-out, a reset  *)
(* or a deletion that races with the release never changes its answer.      *)
HonestReturn ==
  \A t \in Thread :
    Blocked(t) /\ k.stat[t] # "SUSPEND" => (k.err[t] = "EOK" <=> t \in granted)

(* A thread that runs its own code is at least as urgent as every ready     *)
(* thread: each call and each interrupt that makes a more urgent thread     *)
(* ready has given it the processor by the time it returns (kernel.h:28,    *)
(* "full preemptive priority-based scheduling").  rt_sem_detach does not,   *)
(* so nothing is said once it has been entered.                             *)
FullPreemption == alive /\ pc[k.current] = "user" => Preempted(k)

(* Two threads that wait keep their order, and one that joins stands behind *)
(* every waiter that is as urgent as itself or more (RT_IPC_FLAG_PRIO) or   *)
(* behind them all (RT_IPC_FLAG_FIFO).                                      *)
Before(s, t, u) == \E i, j \in DOMAIN s : i < j /\ s[i] = t /\ s[j] = u
NoOvertaking ==
  [][\A t, u \in Thread :
       LET w2 == k'.list[Waiters] IN
       t \in ToSet(Waiting) /\ t \in ToSet(w2) /\ Before(w2, u, t) =>
         \/ Before(Waiting, u, t)
         \/ u \notin ToSet(Waiting) /\ flag = "PRIO" /\ k.prio[u] < k.prio[t]]_vars

(* A finished rt_sem_detach leaves no thread waiting on the dead object. *)
DetachWakesAll ==
  ~alive /\ (\A t \in Thread : pc[t] \notin {"detach_loop", "detach_resume"})
    => Waiting = <<>>

(* rt_ipc_list_resume_all resumes only threads (ipc.c:167, "get next        *)
(* suspend thread"), never the head of an empty list.                       *)
NoWildResume == \A t \in Thread : pc[t] # "wild"

-----------------------------------------------------------------------------
(* What makes these properties inductive. *)

(* rt_schedule always finds a thread to run: no thread has ended, and the   *)
(* idle thread never waits.                                                 *)
SchedulerRuns ==
  /\ k.lock = 0
  /\ k.stat[Idle] # "SUSPEND"
  /\ \A t \in Thread : k.stat[t] \in {"READY", "RUNNING", "SUSPEND"}

(* Who is suspended is inside rt_sem_take, with no error set and no unit    *)
(* handed over; and a unit that is handed over stays with a thread inside.  *)
WaitersInTake ==
  /\ \A t \in Thread : k.stat[t] = "SUSPEND" =>
       Blocked(t) /\ k.err[t] = "EOK" /\ t \notin granted
  /\ \A t \in granted : Blocked(t)

(* A thread that has suspended itself does not get past its rt_schedule. *)
NotPastSchedule == k.stat[k.current] = "SUSPEND" => pc[k.current] = "take_sched"

DetachEntered == \A t \in Thread : pc[t] \in {"detach_loop", "detach_resume"} => ~alive

PreemptedAtReturn ==
  alive /\ pc[k.current] \in {"user", "take_return"} => Preempted(k)

(* A wait ends in the way its reason says, whatever comes in between. *)
WaitInv ==
  /\ SchedulerRuns
  /\ WaitersInTake
  /\ HonestReturn
  /\ NotPastSchedule
  /\ DetachEntered
  /\ DetachWakesAll
  /\ PreemptedAtReturn

(* The semaphore implements AbstractSemaphore: the clients that wait are    *)
(* the suspended threads.  A release that counted a unit it has handed over *)
(* as well, or one that makes a unit available beside a waiter, a taker     *)
(* that waits although there is one, or a time-out that loses a unit that   *)
(* was handed over, is no step of it.                                       *)
Abstract == INSTANCE AbstractSemaphore WITH
  Client <- Thread,
  InitUnits <- InitValue,
  MaxUnits <- MaxValue,
  available <- value,
  waiting <- {t \in Thread : k.stat[t] = "SUSPEND"},
  granted <- granted
ImplementsAbstract == Abstract!Spec
=============================================================================
