-------------------------------- MODULE Thread --------------------------------
(***************************************************************************)
(* The life of a thread (thread.c), the scheduler's lock (scheduler.c) and *)
(* the idle thread that frees what dead threads leave (idle.c).            *)
(*                                                                         *)
(* The conventions are those of Semaphore.  rt_thread_suspend,             *)
(* rt_thread_resume and rt_thread_delete test or change a part of the      *)
(* thread outside the stretches they run with interrupts masked, so they   *)
(* are several steps.  Which thread operates on which is a constant: the   *)
(* kernel does not serialise two operations on one thread.                 *)
(***************************************************************************)
EXTENDS Kernel

CONSTANTS
  First, BasePrio, ReadyOrder,   \* the started system, see StartedKernel
  Idle,        \* tidle0
  Nobody,      \* no thread
  MaxNest,     \* deepest nesting of rt_enter_critical
  Controls,    \* whose priority a thread changes, and whom it suspends, resumes
  Deletes,     \* whom a thread deletes
  Creates,     \* whom a thread creates and starts up
  Sleepers,    \* the threads that call rt_thread_sleep
  Exiting,     \* the threads whose entry function may return
  Signalled,   \* the threads that an interrupt handler resumes
  Static       \* the threads made with rt_thread_init, without a cleanup

ASSUME ThreadAssumption ==
  /\ StartOrder(First, BasePrio, ReadyOrder)
  /\ Idle \in Thread /\ BasePrio[Idle] = MaxPrio - 1
  /\ Nobody \notin Thread
  /\ MaxNest \in Nat \ {0}
  /\ Controls \in [Thread -> SUBSET Thread]
  /\ Deletes \in [Thread -> SUBSET Thread]
  /\ Creates \in [Thread -> SUBSET Thread]
  /\ Sleepers \cup Exiting \cup Signalled \cup Static \subseteq Thread \ {Idle}

VARIABLES
  k,       \* the kernel
  pc,      \* where each thread is, and the thread its call is about
  free     \* the threads whose control block is not in use

vars == <<k, pc, free>>

Where == {"user", "schedule", "suspend_mask", "suspend_sched", "resume_unlink", "resume_insert",
          "start_unlink", "start_insert", "sleep_sched", "sleep_return", "exit_sched",
          "delete_timer", "delete_close", "delete_insert", "reap_free"}

User == [at |-> "user", on |-> Nobody]

Init ==
  /\ k = StartedKernel(First, BasePrio, ReadyOrder)
  /\ pc = [t \in Thread |-> User]
  /\ free = {}

-----------------------------------------------------------------------------
Runs(c) == c = k.current /\ k.stat[c] = "RUNNING" /\ pc[c] = User /\ c # Idle

(* A thread blocks or ends only with the scheduler unlocked. *)
MayBlock(c) == Runs(c) /\ k.lock = 0

At(c, a) == c = k.current /\ pc[c].at = a

Goto(c, a, t) == pc' = [pc EXCEPT ![c] = [at |-> a, on |-> t]]
Return(c) == pc' = [pc EXCEPT ![c] = User]

(* rt_schedule as the last part of a call *)
CallSchedule(c) ==
  /\ At(c, "schedule") \/ At(c, "suspend_sched")
  /\ k' = Schedule(k)
  /\ Return(c)
  /\ UNCHANGED free

Yield(c) == MayBlock(c) /\ k' = Schedule(k) /\ UNCHANGED <<pc, free>>

-----------------------------------------------------------------------------
(* rt_thread_create or rt_thread_init of a thread *)
Create(c, t) ==
  /\ Runs(c) /\ t \in Creates[c] \cap free
  /\ free' = free \ {t}
  /\ k' = [k EXCEPT !.stat[t] = "INIT", !.prio[t] = BasePrio[t], !.err[t] = "EOK"]
  /\ pc' = [pc EXCEPT ![t] = User]

(* rt_thread_startup: the thread becomes suspended and is resumed. *)
Startup(c, t) ==
  /\ Runs(c) /\ t \in Creates[c] \ free
  /\ k.stat[t] = "INIT"
  /\ k' = [k EXCEPT !.stat[t] = "SUSPEND", !.prio[t] = BasePrio[t]]
  /\ Goto(c, "start_unlink", t)
  /\ UNCHANGED free

(* rt_thread_resume: the test of the state, ... *)
ResumeTest(c, t) ==
  /\ Runs(c) /\ t \in Controls[c] \ free
  /\ k.stat[t] = "SUSPEND"
  /\ Goto(c, "resume_unlink", t)
  /\ UNCHANGED <<k, free>>

(* ... the masked part, ... *)
ResumeUnlink(c, from, to) ==
  LET t == pc[c].on IN
  /\ At(c, from)
  /\ k' = [Unlink(k, t) EXCEPT !.armed = @ \ {t}]
  /\ Goto(c, to, t)
  /\ UNCHANGED free

(* ... and rt_schedule_insert_thread, masked on its own.  Only a start-up  *)
(* goes on to rt_schedule.                                                 *)
ResumeInsert(c) ==
  /\ At(c, "resume_insert")
  /\ k' = InsertThread(k, pc[c].on)
  /\ Return(c)
  /\ UNCHANGED free

StartInsert(c) ==
  /\ At(c, "start_insert")
  /\ k' = InsertThread(k, pc[c].on)
  /\ Goto(c, "schedule", Nobody)
  /\ UNCHANGED free

-----------------------------------------------------------------------------
(* rt_thread_suspend of another thread: the test of the state, ... *)
SuspendTest(c, t) ==
  /\ Runs(c) /\ t \in Controls[c] \ free
  /\ k.stat[t] = "READY"
  /\ Goto(c, "suspend_mask", t)
  /\ UNCHANGED <<k, free>>

(* Mutation: the thread stays on its ready list. *)
SuspendMask_Listed(c) ==
  LET t == pc[c].on IN
  /\ At(c, "suspend_mask")
  /\ k' = [k EXCEPT !.stat[t] = "SUSPEND", !.armed = @ \ {t}]
  /\ Return(c)
  /\ UNCHANGED free

(* ... and the masked part. *)
SuspendMask(c) ==
  LET t == pc[c].on IN
  /\ At(c, "suspend_mask")
  /\ k' = [RemoveThread(k, t) EXCEPT !.stat[t] = "SUSPEND", !.armed = @ \ {t}]
  /\ Return(c)
  /\ UNCHANGED free

(* A thread that somebody resumes suspends itself and calls rt_schedule. *)
SuspendSelf(c) ==
  /\ MayBlock(c) /\ c \in Signalled \cup UNION {Controls[d] : d \in Thread}
  /\ k' = Suspend(k, c)
  /\ Goto(c, "suspend_sched", Nobody)
  /\ UNCHANGED free

(* rt_thread_control, RT_THREAD_CTRL_CHANGE_PRIORITY *)
SetPriority(c, t) ==
  /\ Runs(c) /\ t \in Controls[c] \ free
  /\ \E p \in Prio : k' = ChangePriority(k, t, p)
  /\ UNCHANGED <<pc, free>>

-----------------------------------------------------------------------------
(* rt_thread_sleep *)
SleepCall(c) ==
  /\ MayBlock(c) /\ c \in Sleepers
  /\ k' = Sleep(k, c)
  /\ Goto(c, "sleep_sched", Nobody)
  /\ UNCHANGED free

SleepSchedule(c) ==
  /\ At(c, "sleep_sched")
  /\ k' = Schedule(k)
  /\ Goto(c, "sleep_return", Nobody)
  /\ UNCHANGED free

SleepEnd(c) ==
  /\ At(c, "sleep_return")
  /\ k' = SleepReturn(k, c)
  /\ Return(c)
  /\ UNCHANGED free

-----------------------------------------------------------------------------
(* rt_list_insert_after(&rt_thread_defunct, &thread->tlist) *)
ToDefunct(kk, t) == [kk EXCEPT !.list[Defunct] = <<t>> \o @]

(* The entry function of a thread has returned: rt_thread_exit. *)
Exit(c) ==
  /\ MayBlock(c) /\ c \in Exiting
  /\ LET closed == [RemoveThread(k, c) EXCEPT !.stat[c] = "CLOSE", !.armed = @ \ {c}] IN
       k' = IF c \in Static THEN closed ELSE ToDefunct(closed, c)
  /\ free' = IF c \in Static THEN free \cup {c} ELSE free
  /\ Goto(c, "exit_sched", Nobody)

ExitSchedule(c) ==
  /\ At(c, "exit_sched")
  /\ k' = Schedule(k)
  /\ UNCHANGED <<pc, free>>

(* Mutation: the thread stays on its list. *)
Delete_Listed(c, t) ==
  /\ Runs(c) /\ t \in Deletes[c] \ free
  /\ k.stat[t] # "CLOSE"
  /\ Goto(c, "delete_timer", t)
  /\ UNCHANGED <<k, free>>

(* rt_thread_delete and rt_thread_detach: off its list if it was started, ... *)
Delete(c, t) ==
  /\ Runs(c) /\ t \in Deletes[c] \ free
  /\ k.stat[t] # "CLOSE"
  /\ k' = IF k.stat[t] # "INIT" THEN RemoveThread(k, t) ELSE k
  /\ Goto(c, "delete_timer", t)
  /\ UNCHANGED free

(* ... its timer off the timer list, ... *)
DeleteTimer(c) ==
  LET t == pc[c].on IN
  /\ At(c, "delete_timer")
  /\ k' = [k EXCEPT !.armed = @ \ {t}]
  /\ Goto(c, "delete_close", t)
  /\ UNCHANGED free

(* ... then closed, ... *)
DeleteClose(c) ==
  LET t == pc[c].on IN
  /\ At(c, "delete_close")
  /\ k' = [k EXCEPT !.stat[t] = "CLOSE"]
  /\ Goto(c, "delete_insert", t)
  /\ UNCHANGED free

(* ... and left to the idle thread, unless it is static. *)
DeleteInsert(c) ==
  LET t == pc[c].on IN
  /\ At(c, "delete_insert")
  /\ k' = IF t \in Static THEN k ELSE ToDefunct(k, t)
  /\ free' = IF t \in Static THEN free \cup {t} ELSE free
  /\ Return(c)

-----------------------------------------------------------------------------
(* Mutation: the thread is left on the list of defunct threads. *)
ReapTake_Listed ==
  /\ Idle = k.current /\ pc[Idle] = User
  /\ k.list[Defunct] # <<>>
  /\ k' = Schedule(k)
  /\ Goto(Idle, "reap_free", Head(k.list[Defunct]))
  /\ UNCHANGED free

(* rt_thread_idle_excute: the idle thread takes a defunct thread off the    *)
(* list; rt_exit_critical calls rt_schedule.                                *)
ReapTake ==
  LET t == Head(k.list[Defunct]) IN
  /\ Idle = k.current /\ pc[Idle] = User
  /\ k.list[Defunct] # <<>>
  /\ k' = Schedule(Unlink(k, t))
  /\ Goto(Idle, "reap_free", t)
  /\ UNCHANGED free

(* The stack and the control block are freed with interrupts enabled. *)
ReapFree ==
  /\ At(Idle, "reap_free")
  /\ free' = free \cup {pc[Idle].on}
  /\ Return(Idle)
  /\ UNCHANGED k

-----------------------------------------------------------------------------
EnterCritical(c) ==
  /\ Runs(c) /\ k.lock < MaxNest
  /\ k' = [k EXCEPT !.lock = @ + 1]
  /\ UNCHANGED <<pc, free>>

(* Mutation: the count is not held at 0. *)
ExitCritical_Unclamped(c) ==
  /\ Runs(c)
  /\ k' = [k EXCEPT !.lock = @ - 1]
  /\ IF k.lock <= 1 THEN Goto(c, "schedule", Nobody) ELSE UNCHANGED pc
  /\ UNCHANGED free

(* The outermost rt_exit_critical calls rt_schedule, and so does one that   *)
(* matches no rt_enter_critical.                                            *)
ExitCritical(c) ==
  /\ Runs(c)
  /\ k' = [k EXCEPT !.lock = IF @ <= 1 THEN 0 ELSE @ - 1]
  /\ IF k.lock <= 1 THEN Goto(c, "schedule", Nobody) ELSE UNCHANGED pc
  /\ UNCHANGED free

-----------------------------------------------------------------------------
(* Interrupt handlers: one resumes a suspended thread, whether that waits   *)
(* for it or sleeps (but it does not know of a thread that is only being    *)
(* started), a thread timer expires, or the time slice of the current       *)
(* thread ends.                                                             *)
BeingStarted(t) ==
  \E c \in Thread : pc[c].at \in {"start_unlink", "start_insert"} /\ pc[c].on = t

SignalIsr(t) ==
  /\ t \in Signalled /\ k.stat[t] = "SUSPEND" /\ ~BeingStarted(t)
  /\ k' = Schedule(Resume(k, t))
  /\ UNCHANGED <<pc, free>>

TimerIsr(t) ==
  /\ t \in k.armed
  /\ k' = Timeout(k, t)
  /\ UNCHANGED <<pc, free>>

SliceIsr == k' = Schedule(k) /\ UNCHANGED <<pc, free>>

Isr == SliceIsr \/ \E t \in Thread : SignalIsr(t) \/ TimerIsr(t)

Operate(c, t) ==
  \/ Create(c, t) \/ Startup(c, t) \/ ResumeTest(c, t) \/ SuspendTest(c, t)
  \/ SetPriority(c, t) \/ Delete(c, t)

Call(c) ==
  \/ \E t \in Thread : Operate(c, t)
  \/ Yield(c) \/ SuspendSelf(c) \/ SleepCall(c) \/ Exit(c)
  \/ EnterCritical(c) \/ ExitCritical(c)

InCall(c) ==
  \/ CallSchedule(c) \/ SuspendMask(c)
  \/ ResumeUnlink(c, "resume_unlink", "resume_insert") \/ ResumeInsert(c)
  \/ ResumeUnlink(c, "start_unlink", "start_insert") \/ StartInsert(c)
  \/ SleepSchedule(c) \/ SleepEnd(c) \/ ExitSchedule(c)
  \/ DeleteTimer(c) \/ DeleteClose(c) \/ DeleteInsert(c)

Next == Isr \/ ReapTake \/ ReapFree \/ \E c \in Thread : Call(c) \/ InCall(c)

Spec == Init /\ [][Next]_vars

(* Time slices end, the current thread gets through a call it is in, and    *)
(* it leaves a critical section, the outermost one too.                     *)
FairSpec ==
  /\ Spec
  /\ WF_vars(SliceIsr)
  /\ WF_vars(\E c \in Thread : InCall(c))
  /\ SF_vars(k.lock > 0 /\ \E c \in Thread : ExitCritical(c))
  /\ SF_vars(k.lock = 1 /\ \E c \in Thread : ExitCritical(c))

-----------------------------------------------------------------------------
(* The state of the kernel and of the calls stays within its types. *)
TypeOK ==
  /\ k \in KernelState /\ k.lock <= MaxNest
  /\ pc \in [Thread -> [at : Where, on : Thread \cup {Nobody}]]
  /\ free \in SUBSET Thread

(* What keeps two operations on one thread apart: it has one manager, a     *)
(* thread that is suspended or resumed by its manager does not end and      *)
(* is woken by nobody else, and a thread that is deleted is woken by nobody *)
(* and deletes nobody itself, for it would stop half-way.                   *)
Manages(c) == Controls[c] \cup Deletes[c] \cup Creates[c]
Disciplined ==
  /\ \A c, d \in Thread : c # d => Manages(c) \cap Manages(d) = {}
  /\ \A c \in Thread : Controls[c] \cap (Sleepers \cup Signalled \cup Exiting) = {}
  /\ \A c \in Thread : Deletes[c] \cap (Sleepers \cup Signalled \cup {Idle}) = {}
  /\ \A c \in Thread : \A t \in Deletes[c] : Deletes[t] = {}

(* A thread that rt_thread_delete has taken off its list but not yet closed *)
(* counts as closed.                                                        *)
Deleting == {pc[c].on : c \in {d \in Thread : pc[d].at \in {"delete_timer", "delete_close"}}}
Seen == [k EXCEPT !.stat = [t \in Thread |-> IF t \in Deleting THEN "CLOSE" ELSE k.stat[t]]]

(* The lists, the bitmap, the timers and the thread states agree through    *)
(* creation, start-up, suspension, priority changes, exit and deletion; and *)
(* a thread that sleeps and that nobody else suspends is always woken by    *)
(* its timer: suspended, it has a running one.                              *)
Consistent ==
  /\ KernelConsistent(Seen)
  /\ \A t \in Thread : pc[t].at \in {"sleep_sched", "sleep_return"} /\ k.stat[t] = "SUSPEND"
       => t \in k.armed

(* A closed thread is on no list from which it would run or be resumed      *)
(* (thread.c:423, "The thread object will be removed from thread queue").   *)
ClosedOffQueues ==
  \A t \in Thread : k.stat[t] = "CLOSE" => \A l \in ListId \ {Defunct} : t \notin On(k, l)

(* The idle thread frees a stack only when nothing can run on it any more:  *)
(* a freed thread, and one about to be freed, is closed, on no list, has no *)
(* timer, and is not the current thread unless it is static.                *)
FreedIsGone ==
  \A t \in (free \cup {pc[Idle].on}) \ {Nobody} :
    /\ k.stat[t] = "CLOSE"
    /\ \A l \in ListId : t \notin On(k, l)
    /\ t \notin k.armed
    /\ t = k.current => t \in Static

(* A thread that was closed never runs again unless it is created anew.     *)
ClosedIsFinal ==
  [][\A t \in Thread : k.stat[t] = "CLOSE" =>
       /\ k'.stat[t] = "CLOSE" \/ (t \in free /\ k'.stat[t] = "INIT")
       /\ t = k'.current => t = k.current]_vars

(* Between rt_enter_critical and the matching rt_exit_critical no interrupt *)
(* and no call takes the processor from the thread.                         *)
CriticalKeepsProcessor ==
  [][k.lock > 0 => k'.current = k.current]_vars

(* Threads of one priority share the processor (kernel.h:31, "shared       *)
(* time-slice round-robin"): none stays ready for ever while threads that   *)
(* are not more urgent run.                                                 *)
EqualShare ==
  \A t \in Thread :
    ~<>[](k.stat[t] = "READY" /\ t \notin Deleting /\ k.prio[t] <= k.prio[k.current])
=============================================================================
