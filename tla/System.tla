------------------------------- MODULE System -------------------------------
(***************************************************************************)
(* What the blocking objects of ipc.c and mempool.c have in common: the    *)
(* single-core kernel, the threads and interrupt handlers that call them,  *)
(* and the shape of a call that may wait,                                  *)
(*                                                                         *)
(*    mask; while (nothing there) { suspend; unmask; rt_schedule();        *)
(*                                  if (error) return error; mask; }       *)
(*    take; resume a waiter; unmask; rt_schedule(); return                 *)
(*                                                                         *)
(* One step of a thread is one stretch with interrupts masked (pc says     *)
(* which comes next, op in which call), so an interrupt handler, which is  *)
(* one action, or a thread it makes ready may come in between any two.     *)
(* Ticks are abstracted: a slice may end and a timer that runs may expire  *)
(* at any time, and a waiting time may be used up or not at each wake-up.  *)
(***************************************************************************)
EXTENDS Kernel, TLC

CONSTANTS
  First, BasePrio, ReadyOrder,   \* the started system, see StartedKernel
  Idle,      \* the idle thread, which calls nothing
  Isr,       \* the interrupt handlers, as a caller
  Object,    \* the IPC objects and memory pools
  Item,      \* blocks of the memory pool; their addresses are sent as mails
  None,
  Programs   \* what the application does, one of them is chosen in Init:
             \* uses[t] the operations that t calls, flag the queueing order

VARIABLES
  k,         \* the kernel
  prog,      \* the member of Programs that runs; it never changes
  alive,     \* the objects whose detach or delete has not been entered
  op,        \* the operation that each thread is inside
  pc,        \* and where
  timed,     \* whether its wait has a time limit
  held       \* the block that each thread has and may post or free

sysVars == <<k, prog, alive, op, pc, timed, held>>

Op ==
  {"mq_send", "mq_urgent", "mq_recv", "mq_reset", "mq_detach",
   "mb_send", "mb_recv", "mb_reset", "mb_detach",
   "mp_alloc", "mp_free", "mp_detach",
   "event_send", "event_recv", "event_reset", "event_detach",
   "malloc", "free", "realloc", "realloc_malloc", "realloc_free",
   "timer_start", "timer_stop", "timer_entry", "delay"}

PC == {"user", "link", "copy_out", "sched", "wait", "woken",
       "test", "resume", "test2", "resume2", "wild",
       "critical", "release", "resched", "again",
       "insert", "wake", "resume_test", "unlink", "ready", "remove", "flag",
       "next", "suspend", "delay", "asleep", "check", "loop", "expired", "torn",
       "func", "f_insert", "f_remove", "f_flag", "nap", "napped",
       "after", "restart", "mark"}

ASSUME SystemAssumption ==
  /\ StartOrder(First, BasePrio, ReadyOrder)
  /\ Idle \in Thread /\ Isr \notin Thread /\ None \notin Item
  /\ \A p \in Programs : /\ p.uses \in [Thread \cup {Isr} -> SUBSET Op]
                         /\ p.uses[Idle] = {}
                         /\ p.flag \in {"PRIO", "FIFO"}

SysInit ==
  /\ k = StartedKernel(First, BasePrio, ReadyOrder)
  /\ prog \in Programs
  /\ alive = Object
  /\ op = [t \in Thread |-> "none"]
  /\ pc = [t \in Thread |-> "user"]
  /\ timed = [t \in Thread |-> FALSE]
  /\ held = [t \in Thread |-> None]

-----------------------------------------------------------------------------
(* The current thread t runs its own code and calls o of the object x. *)
Calls(t, o, x) ==
  /\ t = k.current /\ k.stat[t] = "RUNNING"
  /\ pc[t] = "user"
  /\ o \in prog.uses[t] /\ x \in alive

(* An interrupt handler calls o of the object x. *)
IsrCalls(o, x) == o \in prog.uses[Isr] /\ x \in alive

(* The current thread t executes the step a of o. *)
At(t, o, a) == t = k.current /\ op[t] = o /\ pc[t] = a

(* The current thread t is at the test of the loop of o. *)
InLoop(t, o, x) ==
  Calls(t, o, x) \/ (At(t, o, "woken") /\ k.err[t] = "EOK")

Goto(t, o, a) == op' = [op EXCEPT ![t] = o] /\ pc' = [pc EXCEPT ![t] = a]
Proceed(t, a) == pc' = [pc EXCEPT ![t] = a] /\ UNCHANGED op
Return(t) == Goto(t, "none", "user") /\ timed' = [timed EXCEPT ![t] = FALSE]

(* The masked part of o ends here for t: it resumes the first waiter of q  *)
(* and calls rt_schedule, or, with no waiter, returns.                     *)
WakeOneAndReturn(t, q) ==
  IF k.list[q] # <<>>
  THEN k' = IpcResume(k, q) /\ Proceed(t, "sched") /\ UNCHANGED timed
  ELSE UNCHANGED k /\ Return(t)

(* The same when t makes the call and returns without waiting before. *)
EnterWakeOne(t, o, q) ==
  IF k.list[q] # <<>>
  THEN k' = IpcResume(k, q) /\ Goto(t, o, "sched") /\ UNCHANGED timed
  ELSE UNCHANGED k /\ Return(t)

(* In an interrupt handler rt_schedule runs at once. *)
IsrWakeOne(q) ==
  /\ k' = IF k.list[q] # <<>> THEN Schedule(IpcResume(k, q)) ELSE k
  /\ UNCHANGED <<op, pc, timed>>

(* t goes to sleep, for a time or for ever; a limit that it was called with *)
(* stays a limit at every round of the loop.                                *)
Limit(t) == IF pc[t] = "user" THEN BOOLEAN ELSE {timed[t]}

WaitOn(t, o, q) ==
  /\ \E limit \in Limit(t) :
       /\ k' = IpcSuspend([k EXCEPT !.err[t] = "EOK"], q, t, prog.flag, limit)
       /\ timed' = [timed EXCEPT ![t] = limit]
  /\ Goto(t, o, "wait")

(* No time is left after a wake-up: the call returns, leaving error behind. *)
TimeIsUp(t, o, error) ==
  /\ At(t, o, "woken") /\ k.err[t] = "EOK"
  /\ timed[t]
  /\ k' = [k EXCEPT !.err[t] = error]
  /\ Return(t)

(* rt_ipc_list_resume_all, called with interrupts masked: one round for     *)
(* each thread that waits.                                                  *)
ResumeAll(kernel, q) ==
  LET round[n \in 0 .. Len(kernel.list[q])] ==
        IF n = 0 THEN kernel ELSE IpcResumeWithError(round[n - 1], q)
  IN  round[Len(kernel.list[q])]

-----------------------------------------------------------------------------
(* The rt_schedule of a thread that has gone to sleep *)
WaitSchedule(t) ==
  /\ t = k.current /\ pc[t] = "wait"
  /\ k' = Schedule(k)
  /\ Proceed(t, "woken")
  /\ UNCHANGED <<prog, alive, timed, held>>

(* rt_thread_delay *)
Delay(t) ==
  /\ t = k.current /\ k.stat[t] = "RUNNING" /\ pc[t] = "user"
  /\ "delay" \in prog.uses[t]
  /\ k' = Sleep(k, t)
  /\ Goto(t, "delay", "wait")
  /\ UNCHANGED <<prog, alive, timed, held>>

DelayReturn(t) ==
  /\ At(t, "delay", "woken")
  /\ k' = SleepReturn(k, t)
  /\ Return(t)
  /\ UNCHANGED <<prog, alive, held>>

(* Awake again with thread->error set: the call returns it. *)
GiveUp(t, o) ==
  /\ At(t, o, "woken") /\ k.err[t] # "EOK"
  /\ Return(t)
  /\ UNCHANGED <<k, prog, alive, held>>

(* The rt_schedule at the end of a call *)
ScheduleAndReturn(t) ==
  /\ t = k.current /\ pc[t] = "sched"
  /\ k' = Schedule(k)
  /\ Return(t)
  /\ UNCHANGED <<prog, alive, held>>

(* A tick interrupt in which the timer of thread t expires. *)
TimerIsr(t) ==
  /\ t \in k.armed
  /\ k' = Timeout(k, t)
  /\ UNCHANGED <<prog, alive, op, pc, timed, held>>

(* A tick interrupt that ends the time slice of the current thread. *)
SliceIsr ==
  /\ k' = Schedule(k)
  /\ UNCHANGED <<prog, alive, op, pc, timed, held>>

SysNext ==
  \/ SliceIsr
  \/ \E t \in Thread : \/ Delay(t) \/ WaitSchedule(t) \/ DelayReturn(t)
                       \/ ScheduleAndReturn(t) \/ TimerIsr(t)

-----------------------------------------------------------------------------
(* Deletion: the wait list q is tested, and only then are interrupts masked *)
(* and its first thread resumed; a is "test" and b "resume".                *)
Detach(t, o, x) ==
  /\ Calls(t, o, x)
  /\ alive' = alive \ {x}
  /\ Goto(t, o, "test")
  /\ UNCHANGED <<k, prog, timed, held>>

DrainTest(t, o, q, a, b, next) ==
  /\ At(t, o, a)
  /\ IF k.list[q] # <<>> THEN Proceed(t, b) /\ UNCHANGED timed
     ELSE IF next = "user" THEN Return(t) ELSE Proceed(t, next) /\ UNCHANGED timed
  /\ UNCHANGED <<k, prog, alive, held>>

(* With the list empty by now, its head is taken for a thread: undefined. *)
DrainResume(t, o, q, a, b) ==
  /\ At(t, o, b)
  /\ k' = IF k.list[q] # <<>> THEN IpcResumeWithError(k, q) ELSE k
  /\ Proceed(t, IF k.list[q] # <<>> THEN a ELSE "wild")
  /\ UNCHANGED <<prog, alive, timed, held>>

-----------------------------------------------------------------------------
(* The threads that a waker has picked out of the wait for o and that have *)
(* not tried again yet.                                                    *)
Woken(o) == {t \in Thread : /\ op[t] = o /\ pc[t] \in {"wait", "woken"}
                            /\ k.stat[t] # "SUSPEND" /\ k.err[t] = "EOK"}

SysTypeOK ==
  /\ k \in KernelState
  /\ prog \in Programs
  /\ alive \in SUBSET Object
  /\ op \in [Thread -> Op \cup {"none"}]
  /\ pc \in [Thread -> PC]
  /\ timed \in [Thread -> BOOLEAN]
  /\ held \in [Thread -> Item \cup {None}]
=============================================================================
