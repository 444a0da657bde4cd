------------------------------- MODULE Kernel -------------------------------
(***************************************************************************)
(* The single-core RT-Thread kernel state and the functions of             *)
(* scheduler.c, thread.c and the static helpers of ipc.c that transform    *)
(* it, as operators from a kernel record to a kernel record.  The C        *)
(* functions compose (rt_ipc_list_resume calls rt_thread_resume, which     *)
(* calls rt_schedule_insert_thread, ...) and so do the operators.  Each    *)
(* runs with interrupts masked; the modules that use them decide where an  *)
(* interrupt may come in between two of them.                              *)
(*                                                                         *)
(* A thread has ONE list node, tlist, so every list of the system is a     *)
(* member of ListId: a ready list for each priority, the suspend list of   *)
(* each IPC object, and the list of defunct threads.                       *)
(*                                                                         *)
(* The kernel record has the fields                                        *)
(*   stat     thread->stat & RT_THREAD_STAT_MASK                           *)
(*   prio     thread->current_priority (number_mask is its bit)            *)
(*   err      thread->error                                                *)
(*   armed    the threads whose thread_timer is on the timer list          *)
(*   list     the contents of every list, first node first                 *)
(*   group    the bits of rt_thread_ready_priority_group that are set      *)
(*   current  rt_current_thread                                            *)
(*   lock     rt_scheduler_lock_nest                                       *)
(***************************************************************************)
EXTENDS Naturals, Sequences, SequencesExt, FiniteSetsExt, Functions

CONSTANTS
  Thread,    \* thread control blocks
  MaxPrio,   \* RT_THREAD_PRIORITY_MAX; 0 is the most urgent priority
  Queue,     \* suspend lists of the IPC objects
  Defunct    \* the list rt_thread_defunct

Prio == 0 .. MaxPrio - 1
ListId == Prio \cup Queue \cup {Defunct}

ASSUME KernelAssumption ==
  /\ Thread # {} /\ IsFiniteSet(Thread)
  /\ MaxPrio \in Nat \ {0}
  /\ Prio \cap Queue = {}
  /\ Defunct \notin Prio \cup Queue

Stat == {"INIT", "READY", "SUSPEND", "RUNNING", "CLOSE"}
Err == {"EOK", "ETIMEOUT", "ERROR"}

(* The states of the kernel, whatever the code does. *)
KernelState ==
  [stat : [Thread -> Stat], prio : [Thread -> Prio], err : [Thread -> Err],
   armed : SUBSET Thread, list : [ListId -> Seq(Thread)],
   group : SUBSET Prio, current : Thread, lock : Nat]

-----------------------------------------------------------------------------
(* rt_list_remove(&thread->tlist): the node leaves whichever list it is on. *)
Unlink(k, t) ==
  [k EXCEPT !.list = [l \in ListId |-> RemoveFirst(k.list[l], t)]]

(* rt_schedule_insert_thread.  The current thread never sits on a ready list. *)
InsertThread(k, t) ==
  IF t = k.current
  THEN [k EXCEPT !.stat[t] = "RUNNING"]
  ELSE [k EXCEPT !.stat[t] = "READY",
                 !.list[k.prio[t]] = Append(@, t),
                 !.group = @ \cup {k.prio[t]}]

(* rt_schedule_remove_thread.  The priority bit is cleared when the ready  *)
(* list of the thread's own priority is empty afterwards.                  *)
RemoveThread(k, t) ==
  LET u == Unlink(k, t)
  IN  [u EXCEPT !.group = IF u.list[k.prio[t]] = <<>> THEN @ \ {k.prio[t]} ELSE @]

(* _get_highest_priority_thread: __rt_ffs finds the lowest bit that is set. *)
HighestPrio(k) == Min(k.group)

(* What rt_schedule does when it switches to another thread. *)
SwitchTo(k, to) ==
  LET from == k.current
      k1   == [k EXCEPT !.current = to]
      k2   == IF k.stat[from] = "RUNNING" THEN InsertThread(k1, from) ELSE k1
  IN  [RemoveThread(k2, to) EXCEPT !.stat[to] = "RUNNING"]

(* Mutations: the lock is ignored; a running thread of equal priority stays. *)
Schedule_Unlocked(k) ==
  IF k.group = {} THEN k
  ELSE LET hp == HighestPrio(k)
           to == IF k.stat[k.current] = "RUNNING" /\ k.prio[k.current] < hp
                 THEN k.current ELSE Head(k.list[hp])
       IN  IF to = k.current
           THEN [RemoveThread(k, to) EXCEPT !.stat[to] = "RUNNING"]
           ELSE SwitchTo(k, to)
Schedule_EqualStays(k) ==
  IF k.lock # 0 \/ k.group = {} THEN k
  ELSE LET hp == HighestPrio(k)
           to == IF k.stat[k.current] = "RUNNING" /\ k.prio[k.current] <= hp
                 THEN k.current ELSE Head(k.list[hp])
       IN  IF to = k.current
           THEN [RemoveThread(k, to) EXCEPT !.stat[to] = "RUNNING"]
           ELSE SwitchTo(k, to)

(* rt_schedule.  A running thread of strictly higher priority stays; one   *)
(* of equal priority goes to the tail of its list.                         *)
Schedule(k) ==
  IF k.lock # 0 \/ k.group = {}
  THEN k
  ELSE LET hp == HighestPrio(k)
           to == IF k.stat[k.current] = "RUNNING" /\ k.prio[k.current] < hp
                 THEN k.current ELSE Head(k.list[hp])
       IN  IF to = k.current
           THEN [RemoveThread(k, to) EXCEPT !.stat[to] = "RUNNING"]
           ELSE SwitchTo(k, to)

-----------------------------------------------------------------------------
(* rt_thread_suspend of a thread that is READY or RUNNING. *)
Suspend(k, t) ==
  IF k.stat[t] \notin {"READY", "RUNNING"}
  THEN k
  ELSE [RemoveThread(k, t) EXCEPT !.stat[t] = "SUSPEND", !.armed = @ \ {t}]

(* Mutation: the timer is not stopped. *)
Resume_TimerRuns(k, t) ==
  IF k.stat[t] # "SUSPEND" THEN k ELSE InsertThread(Unlink(k, t), t)

(* rt_thread_resume *)
Resume(k, t) ==
  IF k.stat[t] # "SUSPEND"
  THEN k
  ELSE InsertThread([Unlink(k, t) EXCEPT !.armed = @ \ {t}], t)

(* rt_thread_timeout, called by rt_timer_check with the timer already      *)
(* taken off the timer list.                                               *)
Timeout(k, t) ==
  Schedule(InsertThread([Unlink(k, t) EXCEPT !.err[t] = "ETIMEOUT",
                                             !.armed = @ \ {t}], t))

(* The masked part of rt_thread_sleep *)
Sleep(k, t) == LET s == Suspend(k, t) IN [s EXCEPT !.armed = @ \cup {t}]

(* The end of rt_thread_sleep: the time-out is not an error. *)
SleepReturn(k, t) == IF k.err[t] = "ETIMEOUT" THEN [k EXCEPT !.err[t] = "EOK"] ELSE k

(* Mutation: a ready thread stays on the list of its old priority. *)
ChangePriority_NotRequeued(k, t, p) == [k EXCEPT !.prio[t] = p]

(* rt_thread_control, RT_THREAD_CTRL_CHANGE_PRIORITY *)
ChangePriority(k, t, p) ==
  IF k.stat[t] = "READY"
  THEN InsertThread([RemoveThread(k, t) EXCEPT !.prio[t] = p], t)
  ELSE [k EXCEPT !.prio[t] = p]

-----------------------------------------------------------------------------
(* Mutation: before waiters of the same priority. *)
WaitPosition_NotStrict(k, q, t, flag) ==
  LET later == SelectInSeq(k.list[q], LAMBDA u : k.prio[t] <= k.prio[u])
  IN  IF flag = "PRIO" /\ later # 0 THEN later ELSE Len(k.list[q]) + 1

(* Where rt_ipc_list_suspend puts the node: at the tail (RT_IPC_FLAG_FIFO) *)
(* or before the first waiter of strictly lower priority.                  *)
WaitPosition(k, q, t, flag) ==
  LET later == SelectInSeq(k.list[q], LAMBDA u : k.prio[t] < k.prio[u])
  IN  IF flag = "PRIO" /\ later # 0 THEN later ELSE Len(k.list[q]) + 1

(* Mutation: with no less urgent waiter, the thread is put nowhere. *)
IpcSuspend_NoAppend(k, q, t, flag, timed) ==
  LET s == Suspend(k, t)
      n == WaitPosition(s, q, t, flag)
  IN  [s EXCEPT !.list[q] = IF n <= Len(@) THEN InsertAt(@, n, t) ELSE @,
                !.armed = IF timed THEN @ \cup {t} ELSE @]

(* rt_ipc_list_suspend, followed by the start of thread_timer when the     *)
(* caller gave a positive waiting time.                                    *)
IpcSuspend(k, q, t, flag, timed) ==
  LET s == Suspend(k, t)
  IN  [s EXCEPT !.list[q] = InsertAt(@, WaitPosition(s, q, t, flag), t),
                !.armed = IF timed THEN @ \cup {t} ELSE @]

(* rt_ipc_list_resume: the first waiter of the list. *)
IpcResume(k, q) == Resume(k, Head(k.list[q]))

(* One round of the loop of rt_ipc_list_resume_all. *)
IpcResumeWithError(k, q) ==
  LET t == Head(k.list[q]) IN Resume([k EXCEPT !.err[t] = "ERROR"], t)

-----------------------------------------------------------------------------
(* What rt_system_scheduler_start leaves behind: thread first runs and the  *)
(* others are READY, on the lists that order gives for each priority.       *)
StartedKernel(first, base, order) ==
  [stat    |-> [t \in Thread |-> IF t = first THEN "RUNNING" ELSE "READY"],
   prio    |-> base,
   err     |-> [t \in Thread |-> "EOK"],
   armed   |-> {},
   list    |-> [l \in ListId |-> IF l \in Prio THEN order[l] ELSE <<>>],
   group   |-> {p \in Prio : order[p] # <<>>},
   current |-> first,
   lock    |-> 0]

(* order lists each thread but the first once, under its base priority, and *)
(* the first one is of the highest priority.                                *)
StartOrder(first, base, order) ==
  /\ first \in Thread
  /\ base \in [Thread -> Prio]
  /\ order \in [Prio -> Seq(Thread)]
  /\ \A p \in Prio : /\ IsInjective(order[p])
                     /\ ToSet(order[p]) = {t \in Thread \ {first} : base[t] = p}
  /\ \A t \in Thread : base[first] <= base[t]

-----------------------------------------------------------------------------
(* The parts of the consistency of a kernel state. *)

On(k, l) == ToSet(k.list[l])

(* Every node is on at most one list, and only once. *)
OneList(k) ==
  /\ \A l \in ListId : IsInjective(k.list[l])
  /\ \A l1, l2 \in ListId : l1 # l2 => On(k, l1) \cap On(k, l2) = {}

(* The ready lists hold exactly the READY threads, each at its priority. *)
ReadyListed(k) ==
  \A p \in Prio, t \in Thread :
    t \in On(k, p) <=> k.stat[t] = "READY" /\ k.prio[t] = p

(* Only suspended threads wait, and only closed ones are defunct. *)
WaitersSuspended(k) ==
  /\ \A q \in Queue : \A t \in On(k, q) : k.stat[t] = "SUSPEND"
  /\ \A t \in On(k, Defunct) : k.stat[t] = "CLOSE"

(* The bitmap the scheduler searches says which ready lists are not empty. *)
BitmapExact(k) == \A p \in Prio : p \in k.group <=> k.list[p] # <<>>

(* Nothing but the current thread is RUNNING, and the current thread is    *)
(* never READY, that is, on a list from which it would be picked again.    *)
RunningIsCurrent(k) ==
  /\ k.stat[k.current] \in {"RUNNING", "SUSPEND", "CLOSE"}
  /\ \A t \in Thread : k.stat[t] = "RUNNING" => t = k.current

(* A thread timer runs only for a suspended thread. *)
TimersForSuspended(k) == \A t \in k.armed : k.stat[t] = "SUSPEND"

KernelConsistent(k) ==
  /\ OneList(k)
  /\ ReadyListed(k)
  /\ WaitersSuspended(k)
  /\ BitmapExact(k)
  /\ RunningIsCurrent(k)
  /\ TimersForSuspended(k)

(* No ready thread is more urgent than the current one. *)
Preempted(k) == \A p \in k.group : k.prio[k.current] <= p
=============================================================================
