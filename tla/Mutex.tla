-------------------------------- MODULE Mutex --------------------------------
(***************************************************************************)
(* Recursive mutexes with priority inheritance (rt_mutex_* of ipc.c) on    *)
(* the single-core kernel.  The conventions are those of Semaphore: one    *)
(* action for each stretch with interrupts masked, interrupt handlers      *)
(* between two of them, any timer that is on the list expires at any tick. *)
(* Mutexes are used by threads only (RT_DEBUG_IN_THREAD_CONTEXT).          *)
(***************************************************************************)
EXTENDS Kernel

CONSTANTS
  Mutexes,     \* the mutexes, each standing for its suspend list too
  MaxHold,     \* deepest recursion; 255, mutex->hold is a rt_uint8_t
  Nobody,      \* RT_NULL, and "no mutex" in pc
  First, BasePrio, ReadyOrder,   \* the started system, see StartedKernel
  Idle,        \* the idle thread, which takes no mutex
  Uses,        \* the mutexes each thread uses
  Sleepers,    \* the threads that also sleep
  Deletable    \* the mutexes that may be detached or deleted

ASSUME MutexAssumption ==
  /\ Mutexes \subseteq Queue
  /\ MaxHold \in Nat \ {0}
  /\ Nobody \notin Thread \cup Mutexes
  /\ StartOrder(First, BasePrio, ReadyOrder)
  /\ Idle \in Thread
  /\ Uses \in [Thread -> SUBSET Mutexes]
  /\ Sleepers \subseteq Thread
  /\ Deletable \subseteq Mutexes

VARIABLES
  k,       \* the kernel
  mutex,   \* each mutex: owner, value, hold, original_priority
  flag,    \* of every mutex: RT_IPC_FLAG_PRIO or RT_IPC_FLAG_FIFO
  alive,   \* the mutexes that no rt_mutex_detach or _delete has entered
  pc,      \* where each thread is, and the mutex its call is about
  nested   \* history: some thread has asked for a mutex while it owned another

vars == <<k, mutex, flag, alive, pc, nested>>

Where == {"user", "take_sched", "take_return", "release_sched",
          "sleep_sched", "sleep_return", "detach_loop", "detach_resume", "wild"}

NoPriority == MaxPrio   \* stands for 0xff

FreeMutex == [owner |-> Nobody, value |-> 1, hold |-> 0, original |-> NoPriority]

User == [at |-> "user", on |-> Nobody]

Init ==
  /\ k = StartedKernel(First, BasePrio, ReadyOrder)
  /\ mutex = [m \in Mutexes |-> FreeMutex]
  /\ flag \in {"PRIO", "FIFO"}
  /\ alive = Mutexes
  /\ pc = [t \in Thread |-> User]
  /\ nested = FALSE

-----------------------------------------------------------------------------
Runs(t) == t = k.current /\ k.stat[t] = "RUNNING" /\ t # Idle /\ pc[t] = User

MayCall(t, m) == Runs(t) /\ m \in Uses[t] \cap alive

Owns(t) == {m \in Mutexes : mutex[m].owner = t}
Asks(t, m) == nested' = (nested \/ Owns(t) \ {m} # {})

At(t, a) == t = k.current /\ pc[t].at = a

Goto(t, a, m) == pc' = [pc EXCEPT ![t] = [at |-> a, on |-> m]]

Return(t) == pc' = [pc EXCEPT ![t] = User]

Waiting(m) == k.list[m]

SetError(kk, t, e) == [kk EXCEPT !.err[t] = e]

-----------------------------------------------------------------------------
(* rt_mutex_take by the owner *)
TakeOwned(t, m) ==
  /\ MayCall(t, m)
  /\ mutex[m].owner = t /\ mutex[m].hold < MaxHold
  /\ mutex' = [mutex EXCEPT ![m].hold = @ + 1]
  /\ k' = SetError(k, t, "EOK")
  /\ UNCHANGED <<alive, pc, flag, nested>>

(* Mutation: a mutex with a value of 0 is taken. *)
TakeFree_NotFree(t, m) ==
  /\ MayCall(t, m)
  /\ mutex[m].owner # t
  /\ mutex' = [mutex EXCEPT ![m] = [owner |-> t, value |-> 0,
                                    hold |-> 1, original |-> k.prio[t]]]
  /\ k' = SetError(k, t, "EOK")
  /\ Asks(t, m)
  /\ UNCHANGED <<alive, pc, flag>>

TakeFree(t, m) ==
  /\ MayCall(t, m)
  /\ mutex[m].owner # t /\ mutex[m].value > 0
  /\ mutex' = [mutex EXCEPT ![m] = [owner |-> t, value |-> @.value - 1,
                                    hold |-> @.hold + 1, original |-> k.prio[t]]]
  /\ k' = SetError(k, t, "EOK")
  /\ Asks(t, m)
  /\ UNCHANGED <<alive, pc, flag>>

(* Mutation: no inheritance. *)
Inherit_Never(kk, owner, t) == kk

(* The owner inherits the priority of a more urgent thread that blocks. *)
Inherit(kk, owner, t) ==
  IF kk.prio[t] < kk.prio[owner]
  THEN ChangePriority(kk, owner, kk.prio[t]) ELSE kk

TakeBlock(t, m) ==
  /\ MayCall(t, m)
  /\ mutex[m].owner # t /\ mutex[m].value = 0
  /\ \E timed \in BOOLEAN :
       k' = IpcSuspend(Inherit(SetError(k, t, "EOK"), mutex[m].owner, t),
                       m, t, flag, timed)
  /\ Goto(t, "take_sched", m)
  /\ Asks(t, m)
  /\ UNCHANGED <<mutex, alive, flag>>

(* rt_mutex_take with time = 0 *)
TakeNoWait(t, m) ==
  /\ MayCall(t, m)
  /\ mutex[m].owner # t /\ mutex[m].value = 0
  /\ k' = SetError(k, t, "ETIMEOUT")
  /\ UNCHANGED <<mutex, alive, pc, flag, nested>>

TakeSchedule(t) ==
  /\ At(t, "take_sched")
  /\ k' = Schedule(k)
  /\ Goto(t, "take_return", pc[t].on)
  /\ UNCHANGED <<mutex, alive, flag, nested>>

(* rt_schedule has returned: rt_mutex_take returns thread->error. *)
TakeReturn(t) ==
  /\ At(t, "take_return")
  /\ Return(t)
  /\ UNCHANGED <<k, mutex, alive, flag, nested>>

-----------------------------------------------------------------------------
(* rt_mutex_release by a thread that does not own the mutex *)
ReleaseNotOwner(t, m) ==
  /\ MayCall(t, m)
  /\ mutex[m].owner # t
  /\ k' = SetError(k, t, "ERROR")
  /\ UNCHANGED <<mutex, alive, pc, flag, nested>>

(* Mutation: value is incremented by every release. *)
ReleaseNested_Freed(t, m) ==
  /\ MayCall(t, m)
  /\ mutex[m].owner = t /\ mutex[m].hold > 1
  /\ mutex' = [mutex EXCEPT ![m].hold = @ - 1, ![m].value = @ + 1]
  /\ UNCHANGED <<k, alive, pc, flag, nested>>

ReleaseNested(t, m) ==
  /\ MayCall(t, m)
  /\ mutex[m].owner = t /\ mutex[m].hold > 1
  /\ mutex' = [mutex EXCEPT ![m].hold = @ - 1]
  /\ UNCHANGED <<k, alive, pc, flag, nested>>

(* Mutation: the priority is never given back. *)
Restored_Never(t, m) == k

(* The last release gives the owner its original priority back. *)
Restored(t, m) ==
  IF mutex[m].original # k.prio[t]
  THEN ChangePriority(k, t, mutex[m].original) ELSE k

(* Mutation: the mutex is freed although threads wait. *)
ReleaseFree_Waiting(t, m) ==
  /\ MayCall(t, m)
  /\ mutex[m].owner = t /\ mutex[m].hold = 1
  /\ k' = Restored(t, m)
  /\ mutex' = [mutex EXCEPT ![m] = FreeMutex]
  /\ UNCHANGED <<alive, pc, flag, nested>>

ReleaseFree(t, m) ==
  /\ MayCall(t, m)
  /\ mutex[m].owner = t /\ mutex[m].hold = 1
  /\ Waiting(m) = <<>>
  /\ k' = Restored(t, m)
  /\ mutex' = [mutex EXCEPT ![m] = [owner |-> Nobody, value |-> @.value + 1,
                                    hold |-> 0, original |-> NoPriority]]
  /\ UNCHANGED <<alive, pc, flag, nested>>

(* Mutation: the owner is not changed until the waiter runs. *)
ReleaseHandOver_OwnerKept(t, m) ==
  /\ MayCall(t, m)
  /\ mutex[m].owner = t /\ mutex[m].hold = 1
  /\ Waiting(m) # <<>>
  /\ k' = IpcResume(Restored(t, m), m)
  /\ Goto(t, "release_sched", m)
  /\ UNCHANGED <<mutex, alive, flag, nested>>

(* The first waiter becomes the owner before it runs. *)
ReleaseHandOver(t, m) ==
  /\ MayCall(t, m)
  /\ mutex[m].owner = t /\ mutex[m].hold = 1
  /\ Waiting(m) # <<>>
  /\ LET next == Head(Waiting(m)) IN
       mutex' = [mutex EXCEPT ![m] = [owner |-> next, value |-> @.value, hold |-> 1,
                                      original |-> Restored(t, m).prio[next]]]
  /\ k' = IpcResume(Restored(t, m), m)
  /\ Goto(t, "release_sched", m)
  /\ UNCHANGED <<alive, flag, nested>>

ReleaseSchedule(t) ==
  /\ At(t, "release_sched")
  /\ k' = Schedule(k)
  /\ Return(t)
  /\ UNCHANGED <<mutex, alive, flag, nested>>

-----------------------------------------------------------------------------
(* rt_mutex_detach and rt_mutex_delete: rt_ipc_list_resume_all tests the    *)
(* list before it masks the interrupts, see Semaphore.                      *)
Detach(t, m) ==
  /\ MayCall(t, m) /\ m \in Deletable
  /\ alive' = alive \ {m}
  /\ Goto(t, "detach_loop", m)
  /\ UNCHANGED <<k, mutex, flag, nested>>

DetachTest(t) ==
  LET m == pc[t].on IN
  /\ At(t, "detach_loop")
  /\ IF Waiting(m) # <<>> THEN Goto(t, "detach_resume", m) ELSE Return(t)
  /\ UNCHANGED <<k, mutex, alive, flag, nested>>

DetachResume(t) ==
  LET m == pc[t].on IN
  /\ At(t, "detach_resume")
  /\ k' = IF Waiting(m) # <<>> THEN IpcResumeWithError(k, m) ELSE k
  /\ Goto(t, IF Waiting(m) # <<>> THEN "detach_loop" ELSE "wild", m)
  /\ UNCHANGED <<mutex, alive, flag, nested>>

-----------------------------------------------------------------------------
(* rt_thread_delay: a thread may sleep, with a mutex or without. *)
SleepCall(t) ==
  /\ t \in Sleepers
  /\ Runs(t)
  /\ k' = Sleep(k, t)
  /\ Goto(t, "sleep_sched", Nobody)
  /\ UNCHANGED <<mutex, alive, flag, nested>>

SleepSchedule(t) ==
  /\ At(t, "sleep_sched")
  /\ k' = Schedule(k)
  /\ Goto(t, "sleep_return", Nobody)
  /\ UNCHANGED <<mutex, alive, flag, nested>>

SleepEnd(t) ==
  /\ At(t, "sleep_return")
  /\ k' = SleepReturn(k, t)
  /\ Return(t)
  /\ UNCHANGED <<mutex, alive, flag, nested>>

-----------------------------------------------------------------------------
TimerIsr(t) ==
  /\ t \in k.armed
  /\ k' = Timeout(k, t)
  /\ UNCHANGED <<mutex, alive, pc, flag, nested>>

SliceIsr == k' = Schedule(k) /\ UNCHANGED <<mutex, alive, pc, flag, nested>>

MutexCall(t, m) ==
  \/ TakeOwned(t, m) \/ TakeFree(t, m) \/ TakeBlock(t, m) \/ TakeNoWait(t, m)
  \/ ReleaseNotOwner(t, m) \/ ReleaseNested(t, m)
  \/ ReleaseFree(t, m) \/ ReleaseHandOver(t, m)
  \/ Detach(t, m)

InCall(t) ==
  \/ TakeSchedule(t) \/ TakeReturn(t) \/ ReleaseSchedule(t)
  \/ DetachTest(t) \/ DetachResume(t)
  \/ SleepSchedule(t) \/ SleepEnd(t)

Next ==
  \/ \E t \in Thread : InCall(t) \/ SleepCall(t) \/ TimerIsr(t) \/ \E m \in Mutexes : MutexCall(t, m)
  \/ SliceIsr

Spec == Init /\ [][Next]_vars

(* The processor executes the call of the current thread, the tick          *)
(* interrupt never stops, and a thread that owns a mutex and gets the       *)
(* processor again and again releases it.                                   *)
Releases(t, m) == ReleaseNested(t, m) \/ ReleaseFree(t, m) \/ ReleaseHandOver(t, m)

FairSpec ==
  /\ Spec
  /\ WF_vars(\E t \in Thread : InCall(t))
  /\ \A t \in Thread \ {Idle} : WF_vars(TimerIsr(t))
  /\ \A t \in Thread, m \in Mutexes : m \in Uses[t] => SF_vars(Releases(t, m))

-----------------------------------------------------------------------------
(* The state of rt_mutex_* and of the kernel stays within its types. *)
TypeOK ==
  /\ k \in KernelState
  /\ mutex \in [Mutexes -> [owner : Thread \cup {Nobody}, value : {0, 1},
                            hold : 0 .. MaxHold, original : Prio \cup {NoPriority}]]
  /\ flag \in {"PRIO", "FIFO"}
  /\ alive \in SUBSET Mutexes
  /\ pc \in [Thread -> [at : Where, on : Mutexes \cup {Nobody}]]
  /\ nested \in BOOLEAN

Blocked(t, m) == pc[t].on = m /\ pc[t].at \in {"take_sched", "take_return"}

(* The lists, the bitmap and the thread states agree with each other, also  *)
(* when inheritance changes the priority of a ready or a waiting owner, and *)
(* every suspended thread waits on the list of the mutex it asked for, or   *)
(* sleeps with its timer running.                                           *)
Consistent ==
  /\ KernelConsistent(k)
  /\ \A t \in Thread : k.stat[t] = "SUSPEND" =>
       IF pc[t].on \in Mutexes THEN t \in On(k, pc[t].on) ELSE t \in k.armed

(* value, owner and hold say the same thing of a mutex, nobody waits for a  *)
(* free one, and its owner never waits for it, whatever the order in which  *)
(* releases, time-outs and takes come.                                      *)
OwnerExact ==
  \A m \in Mutexes :
    /\ mutex[m].value = 1 <=> mutex[m].owner = Nobody
    /\ mutex[m].hold = 0 <=> mutex[m].owner = Nobody
    /\ mutex[m].owner = Nobody => Waiting(m) = <<>>
    /\ mutex[m].owner \notin On(k, m)

(* A thread that blocked and has been woken returns RT_EOK from             *)
(* rt_mutex_take exactly when it owns the mutex.                            *)
HonestReturn ==
  \A t \in Thread, m \in Mutexes :
    Blocked(t, m) /\ k.stat[t] # "SUSPEND" =>
      (k.err[t] = "EOK" <=> mutex[m].owner = t)

(* An owner, unless it is blocked itself, has at least the priority of      *)
(* every thread that waits for its mutex and owns none itself (kernel.h:77, *)
(* "Mutex objects use inherited priority to prevent priority reversion").   *)
IsBlocked(t) == \E m \in Mutexes : t \in On(k, m)
OwnerInherits ==
  \A m \in Mutexes : \A w \in On(k, m) :
    mutex[m].owner \in Thread /\ ~IsBlocked(mutex[m].owner) /\ Owns(w) = {} =>
      k.prio[mutex[m].owner] <= k.prio[w]

(* The same with RT_IPC_FLAG_PRIO, as long as no two mutexes are nested. *)
FlatOwnerInherits == flag = "PRIO" /\ ~nested => OwnerInherits

(* As long as no two mutexes are nested, a thread that owns none has the    *)
(* priority it was started with: rt_mutex_release takes back what           *)
(* rt_mutex_take gave.                                                      *)
FlatPriorityRestored ==
  ~nested => \A t \in Thread : Owns(t) = {} => k.prio[t] = BasePrio[t]

(* A thread that has a mutex loses it by its own release only, and what it  *)
(* gives away goes to a thread that waits for it or to nobody.              *)
OnlyOwnerGives ==
  [][\A m \in Mutexes : LET o == mutex[m].owner  o2 == mutex'[m].owner IN
       o # o2 => /\ o = Nobody \/ o = k.current
                 /\ o2 = Nobody \/ (o = Nobody /\ o2 = k.current) \/ o2 \in On(k, m)]_vars
=============================================================================
