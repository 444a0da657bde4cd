# A verification project for the RT-Thread kernel of the CL32Q0 SDK

The repository is a vendor SDK.  Most of it is boards, drivers' headers, wireless
stacks, examples and vendored code; its own core logic at run time is the
RT-Thread 4.0.1 kernel in `src/rtos/rt-thread-4.0.1/` (all paths below are
relative to that directory), as configured by `bsp/proton/rtconfig.h`: one
core, 32 priorities, semaphores, mutexes, events, mailboxes, message queues,
memory pools and a heap, no SMP, no signals, no hooks.  This project models that
kernel, model-checks it with TLC and proves part of it with TLAPS.

## 1. Inventory

| Component | State | Operations | Interacts with |
|---|---|---|---|
| Scheduler, `src/scheduler.c` | ready lists by priority, priority bitmap, current thread, lock nesting | `rt_schedule`, insert and remove a thread, `rt_enter/exit_critical` | everything that makes a thread ready or not |
| Threads, `src/thread.c` | state, priority, error, list node and timer of each thread | create, start up, suspend, resume, sleep, yield, change priority, exit, delete, time-out | scheduler; its timer calls back `rt_thread_timeout` |
| Idle thread, `src/idle.c` | list of defunct threads | frees what exited and deleted threads leave | threads, heap |
| Hard timers and tick, `src/timer.c`, `src/clock.c` | sorted timer list, tick, flags | start, stop, set time, detach, tick interrupt | calls time-out functions, which call anything allowed in an interrupt |
| Soft timers, `src/timer.c` | second timer list, timer thread and the node it goes on from | start, stop, the thread's sleep and its walk over the list | scheduler lock; a start resumes the timer thread |
| Semaphores, `src/ipc.c` | value, wait list | take, try, release, reset, detach, delete | threads, scheduler, timers |
| Mutexes, `src/ipc.c` | owner, hold count, original priority, wait list | take, release, detach, delete | the same, and the owner's priority |
| Events, mailboxes, message queues, `src/ipc.c` | event set; ring of words; free and queued messages; wait lists of receivers and senders | send, receive, control, detach | the same |
| Memory pools, `src/mempool.c` | free block list, wait list | alloc with time-out, free | the same |
| Heap, `src/mem.c` | headers that tile the memory, linked both ways; `lfree`, the lowest free one | `rt_malloc`, `rt_realloc`, `rt_free` | a semaphore, with interrupts enabled |
| Other heaps, `src/memheap.c`, `src/slab.c` | block lists | alloc, realloc, free | a semaphore; not built in this configuration |
| Objects and devices, `src/object.c`, `src/device.c` | name lists, reference counts | register, open, close | driver code |
| Driver IPC, `components/drivers/src` | completions, work queues, data queues, ring buffers | | threads, semaphores |

How they interact: there are no messages.  Everything is shared memory on one
core; a function masks interrupts for the stretches it wants atomic.  Between two
such stretches an interrupt handler may run, and at its end (or at any
`rt_schedule`) another thread.  A thread has ONE list node (`tlist`), so being
ready, waiting for an object and being defunct exclude each other, as long as
every function unlinks before it links; and it has one timer, which is on the
timer list exactly while it may still wake the thread.

What is hard here:

- masked stretches that are almost, but not quite, the whole operation: a state
  is tested before the mask, or a second mask follows the first;
- a time-out that races with the release, reset or deletion that wakes the same
  thread: the thread must leave the list once and get the right error;
- the priority of a thread is the index of the list it is on: changing it in
  the wrong order corrupts the bitmap;
- priority inheritance with nesting, out-of-order release, time-outs;
- 32-bit ticks that wrap around under a sorted list, and time-out functions that
  change the list that is being walked;
- dead threads whose stack is freed by another thread;
- a thread that was woken for a message, a mail, a slot or a block finds it taken by
  another one that came first, and waits again;
- one send that wakes several waiters, and changes what the later ones of them see;
- messages that are copied, and time-out functions that run, with interrupts or
  the scheduler released in the middle of an operation on a list;
- counts kept beside lists (`mq->entry`, `mp->suspend_thread_count`, `lfree`) that
  must agree with them.

What makes each component correct is stated in section 4, as properties of its
module.  `PROJECT.json` lists every hazard at its line.

## 2. Modules

| Module | Models | State and its code counterpart |
|---|---|---|
| `Kernel` | the masked functions of `scheduler.c`, `thread.c` and the static helpers of `ipc.c`, as operators on one record; the parts of its consistency | `stat`, `prio`, `err`, `armed` (thread timers on the timer list), `list` (every list a node can be on), `group` (bitmap), `current`, `lock` |
| `Semaphore` | `rt_sem_*`; extends `Kernel` | `k` (kernel), `value`, `flag`, `alive`, `pc` (where each thread is in a call), `granted` (history) |
| `AbstractSemaphore` | what a semaphore promises: a unit is available or granted to a client that waited, never available beside a waiter | `available`, `waiting`, `granted` |
| `Mutex` | `rt_mutex_*` with inheritance; extends `Kernel` | `k`, `mutex` (owner, value, hold, original priority), `flag`, `alive`, `pc`, `nested` (history) |
| `Thread` | thread life, scheduler lock, idle reclamation; extends `Kernel` | `k`, `pc`, `free` (control blocks given back) |
| `Timer` | hard timers and the tick interrupt | `tick`, `list`, `timeout`, `init`, `active`, `detached`, `pc`, `isr`, `due` (history: unwrapped remaining time), `setup` (the program that uses the timers) |
| `System` | what the objects below share: threads inside calls that wait in a loop, interrupt handlers, deletion loops, time slices and thread timers; extends `Kernel` | `k`, `prog` (the application that runs, constant), `alive`, `op` and `pc` (call and place), `timed` (a wait with a limit), `held` (the pool block a thread has) |
| `MessageQueue` | `rt_mq_*`; extends `System` | `queue`, `free` (the two linked lists), `entry`, `hand` (the block a thread copies), `content` |
| `Mailbox` | `rt_mb_*`; extends `System` | `msg_pool`, `in_offset`, `out_offset` (the ring), `mb_entry`, `dropped` (history: blocks in mails that a reset discarded) |
| `MemPool` | `rt_mp_*`; extends `System` | `block_list`, `block_free_count`, `suspend_thread_count` |
| `Event` | `rt_event_*`; extends `System` | `set`, `event_set` and `event_info` of each thread |
| `SoftTimer` | soft timers and `rt_thread_timer_entry`; extends `System` | `soft_list`, `activated`, `on` (the timer of each call), `called` and `node` (`t` and `n` in `rt_soft_timer_check`), `missed` (history: the timer thread suspends itself beside a running timer) |
| `Heap` | `rt_malloc`, `rt_realloc`, `rt_free` of `mem.c`; extends `System` | `heap.mem` (headers by offset), `heap.lfree`, `heap_sem`, `own` (blocks of each thread), `arg` (of its call) |
| `AbstractFifo` | what a message queue and a mailbox promise: a bounded queue; what is sent goes to its end, and what is sent urgently, and only that, to its head | `items`, `taken` |
| `Application` | the composition of the six objects above on one kernel | all of the above |
| `MCSemaphore`, `MCMutex`, `MCThread`, `MCTimer`, `MCApplication` | instances for TLC | |
| `ListProofs` | lemmas on the list operators | |
| `KernelProofs` | each kernel function preserves consistency | |
| `SemaphoreProofs` | the theorems on semaphores: the invariants of the lists, how a wait ends, and the refinement | |
| `MutexProofs` | the theorems on mutexes, priority inheritance included | |
| `ThreadProofs` | the theorems on threads | |
| `TimerProofs` | the theorems on hard timers: types, the sorted list, the flag | |
| `ObjectProofs` | the theorems on the objects that need nothing of the kernel: blocks, queues as bounded FIFOs, the heap's blocks | |
| `ApplicationProofs` | the theorems on the composition: types, consistency, no lost wake-up, cleared events, soft timers | |

The C functions compose, and so do the operators: `Timeout(k, t)` is
`Schedule(InsertThread(...))` as `rt_thread_timeout` calls
`rt_schedule_insert_thread` and `rt_schedule`.  An action of a module is one
masked stretch of a call, from the unmasking before it to its own unmasking,
together with the unmasked code that touches only the thread's own locals; `pc`
says which stretch comes next.  An interrupt handler is one atomic action, since
the port does not nest interrupts, and ends with `rt_schedule`.  A thread that
is not current takes no step: an action of thread `t` has `t = k.current` as a
guard, so preemption is a consequence of `Schedule` and not of the interleaving.
`rt_schedule` is an action of its own wherever the code unmasks before calling
it, because an interrupt may come in between (a suspended thread is then still
current).

`prio` stands for both `current_priority` and `number_mask`, which the code
always assigns together.  `Queue` holds the suspend lists, named by their object.
The object container, names, hooks, stack contents and debug assertions are left
out; an assertion on the caller's context (`RT_DEBUG_NOT_IN_INTERRUPT`) is a
guard.

Definitions whose name has an underscore (`Resume_TimerRuns`) and a comment
beginning "Mutation" are plausible bugs.  No specification uses them: each is a
variant of the definition it is named after, for which some property of the runs fails.

## 3. Which C stretch is which action

- **Semaphores.**  `rt_sem_take`: `TakeAvailable` or `TakeBlock` (the masked
  part), `TakeSchedule`, `TakeReturn`.  `rt_sem_release`: `ReleaseHandOver` or
  `ReleaseIncrement`, `ReleaseSchedule`; from a handler `IsrHandOver`,
  `IsrIncrement`.  `rt_sem_control(RESET)`: `Reset`, one `ResetResume` per round of
  the loop, all with interrupts masked (`Masked` keeps the handlers out), `ResetValue`,
  `ResetSchedule`.  `rt_sem_detach` and `rt_sem_delete`: `Detach`, then for each
  waiter `DetachTest` (unmasked test of the list) and `DetachResume` (masked).
- **Mutexes.**  `rt_mutex_take`: `TakeOwned`, `TakeFree`, `TakeNoWait` or `TakeBlock`
  (with `Inherit`), `TakeSchedule`, `TakeReturn`.  `rt_mutex_release`:
  `ReleaseNotOwner`, `ReleaseNested`, `ReleaseFree` or `ReleaseHandOver` (with
  `Restored`), `ReleaseSchedule`.  `rt_mutex_detach/delete` as for semaphores.
- **Threads.**  `rt_thread_create/init`: `Create`.  `rt_thread_startup`: `Startup`,
  `ResumeUnlink`, `StartInsert`, `CallSchedule`.  `rt_thread_resume`: `ResumeTest`,
  `ResumeUnlink`, `ResumeInsert`.  `rt_thread_suspend`: `SuspendTest`, `SuspendMask`;
  `SuspendSelf`.  `rt_thread_sleep`: `SleepCall`, `SleepSchedule`, `SleepEnd`.
  `rt_thread_exit`: `Exit`, `ExitSchedule`.  `rt_thread_delete/detach`: `Delete`,
  `DeleteTimer`, `DeleteClose`, `DeleteInsert`.  `rt_thread_idle_excute`: `ReapTake`,
  `ReapFree`.  `rt_enter/exit_critical`: `EnterCritical`, `ExitCritical`.
- **Timers.**  `rt_timer_start`: `Start`, `StartTime`, `StartInsert`; `rt_timer_stop`:
  `Stop`, `StopRemove`, `StopFlag`; `rt_timer_control(SET_TIME)`: `SetTime`;
  `rt_timer_detach/delete`: `Detach`; `rt_tick_increase` and `rt_timer_check`:
  `TickIsr`, one `CheckCall` for each timer called, `CheckDone`.

- **Calls that wait in a loop** (`System`).  The masked test of `rt_mq_recv`, `rt_mb_recv`,
  `rt_mb_send_wait` and `rt_mp_alloc` is reached from the caller's code or, woken without an error, from
  the loop (`InLoop`): it finds nothing and suspends (`MqRecvWait`, `MbRecvWait`, `MbSendWait`,
  `MpAllocWait`), finds its time used up (`MqRecvTimeIsUp`, ...; the remaining time after a wake-up is
  nondeterministic, used up or not), or takes (`MqRecvTake`, `MbRecv`, `MbSend`, `MpAlloc`).
  `WaitSchedule` is the `rt_schedule` of the sleeper, `GiveUp` its return with `thread->error`
  set, `ScheduleAndReturn` the `rt_schedule` at the end of a call that woke someone.
- **Message queues.**  `rt_mq_send/urgent`: `MqTakeFree`, then, the message copied with
  interrupts enabled, `MqLink`; `MqIsrSend` in a handler.  `rt_mq_recv`: `MqRecvTake` and, the message
  copied out, `MqRecvFree`.  `rt_mq_control(RESET)`: `MqReset`; detach and delete: `MqDetach`.
- **Mailboxes.**  `MbSend`, `MbRecv`, `MbReset`, `MbDetach`, which drains two lists.
- **Memory pools.**  `MpAlloc`, `MpAllocFails`, `MpFree`, `MpDetach`.  `IsrProduce` of `Application`
  is a handler that allocates a block and mails it.
- **Events.**  `rt_event_recv`: `EvRecvAtOnce`, `EvRecvFails`, `EvRecvWait`, `EvRecvReturn`.
  `rt_event_send`: `EvSend` and `EvIsrSend`, the loop over the waiters being `DeliverAll`.  `EvReset`, `EvDetach`.
- **Soft timers.**  `rt_timer_start`: `StStart` (it takes the timer off the list), `StInsert`, and then, as the code masks
  interrupts for none of it as a whole, `StWake` (the test of the timer thread's state, `timer.c:398`), `StResumeTest`
  (that of `rt_thread_resume`), `StUnlink` and `StReady` (its two masked stretches, `thread.c:725` and `736`) and the
  `rt_schedule` of `System`.  A handler, a time-out or a time slice may come between any two of them.  `rt_timer_stop`: `StStop`,
  `StRemove`, `StFlag`.  A handler's start is one action, `StIsrStart`.
  `rt_thread_timer_entry`: `Enter`, `NextTimeout`, `FallAsleep`, `SleepSchedule`; `rt_soft_timer_check`: `Check`, and for each
  timer that has expired `Expire` (it saves the next node), `CallFunction` (it takes the timer off the list, unlocks the scheduler and
  calls), `FuncReturn`, then `Restart` and `RestartInsert`, or `Expired` and `Mark`; `CheckEnd`.  A time-out
  function makes any number of calls, each in its own steps: `FuncStart`, `FuncInsert`; `FuncStop`, `FuncRemove`, `FuncFlag`; and
  `Nap`, `NapSchedule`, `NapReturn`, a `rt_thread_delay` during which less urgent threads run.
- **Heap.**  `Malloc` and `Give` (of `rt_free` and `rt_realloc`) up to `rt_sem_take(&heap_sem)`; with the unit,
  `MallocFound` or `MallocFailed`, `Free`, `ReallocSame`, `ReallocCut` or `ReallocMove`, each what the caller
  does until it releases the unit; `ReleaseHeap`, `ReleaseSchedule`.  The `rt_realloc` that moves
  goes on with its inner `rt_malloc` and `rt_free`, each with a `SemTake` of its own (`ReallocGoesOn`).

Timers appear in three ways.  `Timer` models hard timers exactly.  In the other modules a timer that
is on the list (`k.armed`) may expire at any tick, which covers every waiting time; what
the lists need of the timer module is that a stopped timer does not fire, which is
what `Timer` checks.  `SoftTimer` models the list and the thread that serves it, and leaves the ticks to
`Timer`, whose list operations are the same code: a started timer takes any place on the list, and the timer
at the node has expired or not.  Two details of the code are kept.  `rt_timer_list_next_timeout` (`timer.c:108`) returns
`RT_TICK_MAX` for an empty list, and also for a first timer that is due at that tick: `NextTimeout` may take any
timer for it, and suspend for ever.  And `rt_soft_timer_check` unlinks the timer it calls with interrupts enabled (`timer.c:600`): a handler
that links or unlinks a neighbour in the middle of that leaves a list on which the code's behaviour is undefined; the timer thread then stops at
the place `torn`, and the model says nothing of what it does from there.  Of the ways in which a time-out function may
block, only `rt_thread_delay` is modelled; a function that waits for one of the objects is not.

## 4. Runs

Passing runs:

| Run | Instance | Shows |
|---|---|---|
| `sem` | 3 workers (two of equal priority) and idle; up to 2 units; both flags | `Consistent`, `NoLostThread`, `NoWaiterWhileAvailable` (no lost wake-up), `HonestReturn` (the error of `rt_sem_take` tells whether a unit was handed over, under all races), `FullPreemption`, `NoOvertaking` (order of the wait list), `DetachWakesAll`, and `ImplementsAbstract`: the refinement of `AbstractSemaphore` |
| `mutex` | priorities 0, 1, 2 and idle; two mutexes, all three threads contend for `m1`, the low one also uses `m2`; recursion to 2; two threads sleep; `m1` may be deleted | `Consistent` (with: a suspended thread is where somebody looks for it), `OwnerExact`, `HonestReturn`, `OnlyOwnerGives`; `FlatOwnerInherits` and `FlatPriorityRestored` as long as mutexes are not nested |
| `mutex_live` | urgent and low thread on one mutex, a middle one competes for the processor | `UrgentAcquires`: bounded priority inversion, under fairness |
| `timer` | tick of three bits, one periodic and one one-shot timer, times 1 and 2, every start tick, two programs: each client has a timer, and the periodic one may stop or start itself and the one-shot one detach itself; or one client drives both, the one-shot timer starting and stopping the periodic one, which may stop itself | `Sorted` across wrap-around, `FlagAgrees`, `NotEarly`, `NotLate`, `SameTickFifo`, `DetachedStaysOut`, `CheckEnds` |
| `thread` | 4 threads and idle on 3 priorities; lock nesting to 2 | `Consistent` (with: a sleeping thread has its timer running), `FreedIsGone`, `ClosedIsFinal`, `CriticalKeepsProcessor`, `EqualShare` |
| `application` | 3 threads (two of equal priority) and idle, handlers, in thirteen programs (below) | `Consistent`, `BlocksConserved` (no block of the message queue or the pool is lost, used twice or in two places), `NoLostWakeUp` (nobody waits for a message, mail, slot, block, event or heap that is there and not meant for a thread already woken), `HeapSound` (the blocks tile the memory and have one owner each), `NoTimerForgottenOnceSeen` (the timer thread does not sleep for ever beside a running timer, but in two cases, below), `ClearedForOthers` (a cleared event reaches one waiter), `ImplementFifo`: the refinement of `AbstractFifo` by the message queue and by the mailbox |

Runs that find a disagreement (each quotes its statement under `findings` in
`PROJECT.json`):

| Run | Shows |
|---|---|
| `sem_detach_timeout` | `rt_ipc_list_resume_all` tests the list with interrupts enabled; the last waiter's time-out can empty it before the masked part, which then treats the list head as a thread (`NoWildResume`) |
| `mutex_nested` | a thread that owns two mutexes and releases one goes back below the priority of a thread that waits for the other (`OwnerInherits`) |
| `thread_delete` | a sleeping thread that is deleted is put back on a ready list if its timer expires between the steps of `rt_thread_delete` (`ClosedOffQueues`) |
| `timer_stopped` | while a soft time-out function delays itself, a thread stops the timer that `rt_soft_timer_check` has saved as the next one: the check goes on from that node, and calls the stopped timer (`StoppedIsNotCalled`).  As the node of a stopped timer leads to itself, the code calls it over and over |
| `pool_timeout` | a waiter that leaves `rt_mp_alloc` by time-out stays in `suspend_thread_count`, and the next `rt_mp_free` takes the head of the empty list for a thread (`NoWildResume`) |
| `heap_lost_block` | `rt_realloc` cuts a block without moving `lfree` down, and `rt_malloc` then finds nothing although the free block is big enough (`MallocFindsBlock`) |

**The programs of `application`.**  An application uses few of the objects at a time, and what it does is a
member of `Programs` chosen in `Init`: which operations each thread and the handlers call, and the queueing order.
`MqProgram` and `MqResetProgram` send, send urgently and receive, from threads and a handler, while the message queue is
deleted or reset.  `PipeProgram`, `DriverProgram`, `DetachProgram` and `ResetProgram` allocate pool blocks, mail them, receive
and free them; in the middle two a handler feeds the mailbox as well; the pool or the mailbox is deleted or reset
meanwhile.  `ReceiversProgram` has three threads that compete for mails that only a handler sends.  `EventProgram` has two
receivers whose requests overlap, a sender, reset and deletion; in `EventIsrProgram` a handler sends.
There are two soft timers: the periodic `tp`, whose function stops it, and `ts`, whose function starts `tp` and delays itself.
In `TimerProgram` one thread starts `ts` and another one stops `tp`; in `TimerIsrProgram` a handler starts `ts`.
The timer thread has the highest priority, as in the configuration.  `HeapProgram` is one user of the heap (the timer thread
finds no timer and suspends itself); in `SharedHeapProgram` a more urgent thread, which allocates and resizes, preempts
one that allocates, anywhere.

**Bounds, and why they are enough.**  The races involve one object, one waker, one
or two waiters and one interrupt; three workers let two wait while one acts, with a
third priority relation (equal) in `sem` and a middle priority in `mutex`.  `MaxValue = 2` distinguishes
0, 1 and more than one unit, and is reached.  `MaxHold = 2` has the nested and the
last release.  `TickRange = 8` gives `Half = 3`, so times 1 and 2 are all the times
`RT_ASSERT` admits besides 0, and every sum wraps for some start tick.  Time 0 is
excluded: a timer of 0 ticks that starts again keeps `rt_timer_check` in its loop for ever
(the hazard at `timer.c:507`), so `CheckEnds` is a statement about positive times.
`MaxLag = 1` is a client preempted for a tick between computing its time and inserting
the timer; the constraint is needed because a longer preemption than `Half` makes any
timer wrap.  `MaxNest = 2` has an inner and an outer `rt_exit_critical`, and
unmatched exits are allowed.
In `application` the mailbox has two slots for three pool blocks, so that it is both full and empty with blocks to spare;
the message queue has two blocks, so that it is exhausted; the pool's three blocks are symmetric (nothing
in the modules tells them apart but the order of lists, which the permutation moves along).  A thread holds at most one pool
block.  `MaxSuspended = 3` bounds `suspend_thread_count`, which the time-outs of the finding above would
let grow without end; it is more than the threads that can wait.  `MemSize = 18` with headers and minimal
blocks of 3 (units of 4 bytes; the real header and minimum are 12 bytes) has room for up to three blocks;
with requests of 2 (below the minimum) and 9 every case of splitting, merging, `lfree` and in-place `rt_realloc` is taken.
Each bound is a constant with a name, in a guard; no state
constraint is used, and no run switches the deadlock check off.

**Restrictions of the instances.**  They are constants, not part of the modules.
In `thread` a thread has one controller, that does not resume a sleeping thread
(`Controls`, `Sleepers`): with two, `rt_thread_resume` and `rt_thread_suspend` act on a
state they tested before masking, and `Consistent` fails; the hazards list says so.  In
`timer` each timer is used by one client, for the same reason (double insertion), and its function starts or detaches
only itself or a timer that no client uses (`Separate`); a one-shot timer does not start itself and a periodic one does
not detach itself (`SelfCallsFit`).  These conditions are definitions of the modules (`Disciplined` in `Thread`), the
theorems have them as hypotheses, and the MC modules assert them of the instances.  No
operation is called on an object after its detachment began.  Threads block only with the
scheduler unlocked.  The timer thread runs `rt_thread_timer_entry` and nothing else (`SoftTimerAssumption`).
For soft timers there are three rules, definitions of `SoftTimer` that `MCApplication` asserts of its programs
(`TimersWellUsed`).  Threads that use them are less urgent than the timer thread (`TimersUsedBelow`).  One thread only, or
handlers only, start them (`OneWaker`): a second starter can resume the timer thread between the two masked stretches of the first one's
`rt_thread_resume`; the timer thread delays itself again, its timer running, and the first starter then makes it READY, so
that `Consistent` fails.  And nobody starts a timer while somebody else does (`OneStarter`), which would insert it twice.
Within these rules the timer thread still sleeps for ever beside a running timer in two cases, and `NoTimerForgotten` alone fails: the
first timer is due at `RT_TICK_MAX`, or a handler starts a timer between the thread's look at the list and its
`rt_thread_suspend`.  The history variable `missed` marks just these two, and `NoTimerForgottenOnceSeen` says that there is no third;
`timer.c:646` is a hazard.  In `thread`, a handler does not wake a thread that somebody is just starting (`BeingStarted`), which
it cannot know of yet; it may wake one that waits for it, and one that sleeps.
A hard one-shot timer that its own function starts again ends up on the list with its flag cleared (`timer.c:541`), and
`rt_timer_stop` refuses to stop it: `FlagAgrees` fails without `SelfCallsFit`, and `timer.c:532` is a hazard.
`MallocFindsBlock` speaks of blocks
with room to spare: the search of `rt_malloc` ends at `ptr < mem_size_aligned - size` (`mem.c:306`), so a
free block of exactly the wanted size at the end of the heap is not found either.

**Fairness.**  `Semaphore` and `Application` claim no liveness and need none.  `Mutex!FairSpec`: the
current thread executes the call it is in (the processor does not stop); thread timers
expire (the tick interrupt comes for ever); a thread that owns a mutex and gets the
processor again and again releases it: this is the user's obligation, and without
it no mutex can promise anything.  `Timer!FairSpec`: the tick interrupt occurs, and its
handler proceeds.  `Thread!FairSpec`: time slices end, calls proceed, and critical
sections are left (strongly fair, because a thread in one can be at the test many times).
No fairness is assumed of user code otherwise.

## 5. Proofs

`SemaphoreProofs` proves, for every set of threads, number of priorities, initial value and start
order that satisfy the assumptions,

- `SemaphoreTypes`: `Spec => []TypeOK`,
- `SemaphoreConsistent`: `Spec => []Consistent`,
- `SemaphoreKeepsWaiters`: `Spec => []NoLostThread`,
- `SemaphoreLosesNoWakeUp`: `Spec => []NoWaiterWhileAvailable`,
- `SemaphoreKeepsOrder`: `Spec => NoOvertaking`,

and, for the same instances,

- `SemaphoreAnswersHonestly`: `Spec => []HonestReturn`,
- `SemaphorePreempts`: `Spec => []FullPreemption`,
- `SemaphoreDetachWakesAll`: `Spec => []DetachWakesAll`,
- `SemaphoreImplements`: `Spec => ImplementsAbstract`, the refinement.

There are two inductive invariants, and a third for the order of the list.  `SemInv` is the conjunction of the first
four.  It has to be the conjunction: that a woken thread is a thread at all, and suspended, needs
`Consistent` (the wait list holds suspended threads only); `Consistent` after a suspension needs
the running thread to be on no list, which follows from `ReadyListed` and
`WaitersSuspended` together; and that a wait list stays empty across `rt_schedule` and time-outs
needs the lists to be disjoint.

`WaitInv` (theorem `SemaphoreWait`: suspended threads are inside `rt_sem_take` and never run past its
`rt_schedule`) is inductive relative to `SemInv`.  `HonestReturn` speaks of woken threads only, so it
does not survive a wake-up by itself: `WaitersInTake` says of a thread that still sleeps that its
error is not set and no unit is its own.  `rt_sem_take` reads the error after
`rt_schedule` has returned, so the proof must know that it does not return to a thread that still
sleeps (`NotPastSchedule`).  That needs another thread for `rt_schedule` to run, at every moment: the
idle thread, which never waits (`SchedulerRuns`; theorem `ScheduleRuns`).  `FullPreemption`
follows in the same way from `SchedulePreempts`, with `PreemptedAtReturn` for a thread that is about to
return from its wait.

For the refinement, each step is mapped by what it does to the set of suspended threads (`StepSuspended`):
nothing (a stutter, `Take`, `Release`, `Reset` or `Return`), one thread less with a unit (`Grant`) or without (`Fail`),
or one more (`Wait`, whose guard that the client holds no grant comes from `WaitersInTake`).

The argument has three layers.  `ListProofs` shows what `RemoveFirst`, `InsertAt` and
`Append` do to the members of a list without repetitions (by splitting a list in two
and joining again), and that `Min` finds the least bit.  `KernelProofs` shows that
each function of the kernel takes a consistent state to a consistent state: `ResumeOK`,
`SuspendOK`, `IpcSuspendOK`, `ScheduleOK`, `TimeoutOK`, `StartedOK`; `ScheduleRuns` and
`SchedulePreempts` say which thread `rt_schedule` leaves running.  `rt_schedule` changes the current
thread before it re-inserts the old one, so in the middle `RunningIsCurrent` is
false; `ListsAgree` (all other parts) is preserved by each half (`InsertLists`,
`TakeOffLists`), and `SwitchOK` restores the rest.  Each lemma also says
what happens to the wait lists and to the set of suspended threads
(`OnlyWakes`, `WakesNobody`), which is all the object modules need: in `SemaphoreProofs` an
action is covered by the kernel lemma for its function and by `KernelStepInv`, and
for `WaitInv` by one of `QuietKeeps` and `WakeKeeps`.

The assumptions are `KernelAssumption` (there is a thread and a priority; list names are distinct) and
`SemaphoreAssumption` (the start order lists the threads by priority, the value is in range).
TLC evaluates both in the runs.  The kernel lemmas are stated for any kernel record, so
the proofs for `Mutex` and `Thread` cite them too.

`SemaphoreKeepsOrder` (`Spec => NoOvertaking`) needs the order of the lists and not only their members.
`Precedes(s, x, y)` says that x stands before y; `RemoveKeepsOrder` and `InsertOrder` (`ListProofs`) say what the
list operators do to it, and from them each kernel function but `rt_ipc_list_suspend` is shown to reorder no wait
list (`Thins`), while `IpcSuspendOrder` says where a new waiter stands.  Its search stops at the first waiter that is less
urgent, so it finds the right place only in a list that is sorted; that it is (`InOrder`) is an invariant of its own.

On mutexes, for any threads, priorities, start order, mutexes and depth of recursion (`MutexProofs`):

- `MutexTypes`, `MutexConsistent`, `MutexOwnerExact`, `MutexAnswersHonestly`: `Spec => []TypeOK`, `[]Consistent`,
  `[]OwnerExact`, `[]HonestReturn`; `MutexOnlyOwnerGives`: `Spec => OnlyOwnerGives`,
- `MutexPriorityRestored`: `Spec => []FlatPriorityRestored`; `MutexOwnerInherits`: `Spec => []FlatOwnerInherits`.

The first five come from one inductive invariant.  `MutexInv` adds to the four state properties where each thread is
(`PlaceOK`, `WaitersInTake`: who waits is inside the call for that mutex with no error set, or sleeps), the two facts
about `rt_schedule` known from semaphores (`SchedulerRuns`, `NotPastSchedule`), and that an owned mutex has a
priority to give back (`OriginalKnown`), without which `rt_thread_control(CHANGE_PRIORITY)` in a release would have
no priority to take.  The proof separates the two halves of a step: the kernel either wakes nobody (`Keeps`) or one
thread with one error (`Wakes`), and a thread moves in its program (`Places`); `QuietStep`, `WakeStep` and `OwnStep` combine
them for the three kinds of actions.

Inheritance is proved on top of it.  As long as no thread nests mutexes, `Flat` holds: a thread owns at most one
mutex and none while it waits for one, so the priority that the take saved is its base priority, and a thread without
a mutex has its base priority.  That is `FlatPriorityRestored`.  A hand-over in `rt_mutex_release` raises nobody: the new
owner gets the mutex with its own priority although others still wait, and that is right only if it is as urgent as
they are.  So `Urgent` adds that the wait lists are sorted by base priority and the owner is as urgent as every waiter;
the head of a sorted list is (`HeadPrecedes`).  With nested mutexes both fail, and `mutex_nested` shows how.
`MutexAssumption` (there is an idle thread, the start order lists the threads by priority, the depth of recursion is
bounded) is all that is assumed besides `KernelAssumption`.

On threads, for any threads, priorities, start order and programs that satisfy `Disciplined` (`ThreadProofs`):

- `ThreadTypes`, `ThreadConsistent`, `ThreadFreedIsGone`: `Spec => []TypeOK`, `[]Consistent`, `[]FreedIsGone`,
- `ThreadClosedIsFinal`, `ThreadCriticalKeepsProcessor`: `Spec => ClosedIsFinal`, `Spec => CriticalKeepsProcessor`.

`Disciplined` keeps two operations on one thread apart, which the code leaves to its callers: `rt_thread_resume`,
`rt_thread_suspend` and `rt_thread_delete` test and unlink in one stretch and go on in another.  A thread has one manager;
a thread that its manager suspends and resumes does not sleep, is not woken by a handler and does not exit; one that is deleted does not sleep, is not
woken, is not the idle thread and deletes nobody itself.  `thread_delete` is what happens without the condition on sleep.

Between `rt_schedule_remove_thread` and `stat = RT_THREAD_CLOSE` in `rt_thread_delete` a thread is off every list and
still says that it is ready or suspended, so the kernel record is not consistent, and the kernel lemmas do not apply to it.  They
apply to the record in which the threads that are half-way through a deletion count as closed (`Hide`, the `Seen` of
`Consistent`).  `HideInsert`, `HideRun`, `HideSchedule` and `HideChange` say that the kernel functions do not look at the hidden threads: to hide
and to step, or to step and to hide, is the same.  From them each kernel lemma has a counterpart for `Sane`
(`SaneSchedule`, `SanePut`, `SaneTakeOff`, `SaneDelete`, ...).

The invariant is `ThreadInv`: `TypeOK`, `Sane`, `CallsOK`, `Reaping` and `ThreadsOK`.  `CallsOK` says of each operation between its
stretches that what it has tested still holds: a thread about to be inserted is suspended (`Resuming`, `Starting`; otherwise `rt_schedule_insert_thread`
would link a node twice), one about to be suspended is alive (`Suspending`), one being deleted is closed exactly at the last
step, not yet defunct, and its deleter can still run (`Removing`), one asleep has a timer (`Sleeping`).  `Reaping` says
it of `rt_thread_idle_excute` and that the idle thread never blocks, so that `rt_schedule` always finds a thread.  `ThreadsOK` ties the
states to timers and freed blocks; without it a timer could go off for a thread that sleeps no more.
None of them survives a step alone: that the thread in hand stays suspended needs that nobody else can wake it,
thus `Sane` for the timers and `Disciplined` for the managers.

For a step one shows which threads it touches (`Near`, `Frame`), that it spares those that the other calls have in hand
(`Spares`), and what holds of the thread that takes the step (`Own`) and of those touched (`Touched`); `StepKept`
gives the invariant and both action properties (`Safe`) from these.  `ManagedSafe`, `WakeSafe`, `BlockSafe` and the `Quiet` lemmas are the four
patterns of actions, `ThreadStep` the case split.

On hard timers, for any tick range, times, clients and programs (`TimerProofs`):

- `TimerTypes`: `Spec => []TypeOK`, with no hypothesis,
- `TimerSorted`: `Spec => []Sorted`; `TimerNotEarly`, `TimerNotLate`, `TimerSameTickFifo`: `Spec => NotEarly`, `NotLate`,
  `SameTickFifo`, under `Disciplined`,
- `TimerFlagAgrees`, `TimerDetachedStaysOut`: `Spec => []FlagAgrees`, `[]DetachedStaysOut`, under `Disciplined` and `SelfCallsFit`.

`Disciplined` here is `TimesFit` and `Separate` for every program.  `TimesFit` is about the numbers: the code asserts that a
time is less than half the range of the tick, but `rt_timer_start` reads the tick, may be preempted, and inserts by the old time, so the
preemption counts as well.  It is needed: with `MaxLag = 2` in the run's instance TLC finds `Sorted` violated.

`due[t]`, the unwrapped time that remains, is what the theorems compare; the code has only `timeout_tick`, modulo the
range.  `TimerInv` says that the list holds each timer once, sorted by `due`, with `timeout = (tick + due) % TickRange` and
every `due` within half the range (`ListOK`), one tick more while `rt_timer_check` has not caught up
(`Slack`); that a timer about to be inserted is off the list (`OutOfList`) and its computed time-out still agrees with its `due`
(`Pending`).  Without the range the sign of a wrapped difference (`MinusDue`) says nothing and the insertion
finds a wrong place.  `Sorted` alone is not inductive: it does not say that a new element is comparable with the old ones.
`SameTickFifo` makes an exception for the timer that is being called, which is started last when its function has returned.

The flag needs another invariant, `FlagInv`, inductive relative to `TimerInv`: a timer that nobody is stopping is
activated exactly when it is listed, and one that is being started is neither activated nor detached.  `SelfCallsFit` excludes what
`rt_timer_check` gets wrong after the function has returned: a one-shot timer that started itself loses its flag
(hazard `timer.c:532`), and a periodic timer that detached itself is started again.

On the objects of `Application`, for all its constants and every set of programs (`ObjectProofs`):

- `MessageBlocksConserved`: `Spec => []MqBlocksConserved`; `ApplicationConservesBlocks`: `Spec => []BlocksConserved`,
- `ApplicationImplementsFifo`: `Spec => ImplementFifo`, both refinements,
- `ApplicationKeepsHeap`: `Spec => []HeapSound`.

None of them needs anything of the kernel, and that is a result in itself: these properties do not depend on
who is scheduled when, only on the stretches that are masked.  `MqInv` adds to conservation that a
thread has a block in hand exactly when it is at one of the two copies of its program (`HandAtCopy`);
every action of the other objects is `Quiet`, it neither enters nor leaves one of these places.
`ItemInv` adds that `in_offset` is `mb_entry` slots behind `out_offset` (`RingOK`), so that a new mail goes
behind the last one and not over one that is unread.  For the heap, the list of headers is a chain
(`Chained`); each of the operations `Split`, `Join` and marking a block takes chains to chains (`SplitChained`,
`JoinChained`, `MarkChained`), and says which blocks in use it leaves as they are (`SameUse`).
Two free neighbours appear only at the block that `plug_holes` is called for (`ApartBut`), which
removes them.  Here it is the list and its owners that
are proved; that a caller who waits for the heap's semaphore is not forgotten is part of `ApplicationLosesNoWakeUp`.

On the composition, again for all constants, and every set of programs that keeps `TimersUsedBelow` and
`OneWaker` (`ApplicationProofs`):

- `ApplicationTyped`: `Spec => []TypeOK`; `ApplicationConsistent`: `Spec => []Consistent`,
- `ApplicationLosesNoWakeUp`: `Spec => []NoLostWakeUp`, for all six kinds of waiting,
- `EventsAreCleared`: `Spec => ClearedForOthers`,
- `TimersNotForgotten`: `Spec => []NoTimerForgottenOnceSeen`.

They share one inductive invariant, `AppInv /\ WakeInv`.  All five need the two hypotheses, because the invariant is about one kernel: a
timer thread that is made READY with its timer running would spoil the lists for everybody.  A set of programs
that starts no soft timers satisfies both.

`AppInv` says where everybody is.  Its core, `Settled`, speaks of a kernel and of the places of the threads: whoever
is suspended is inside a call whose list or timer finds it; a wait list holds threads in waiting operations only; the current
thread is asleep only on its way to `rt_schedule`; the idle thread never waits, so that `rt_schedule` always finds a thread;
and the scheduler is locked exactly while the timer thread goes through its list.  `AppInv` adds the types and the
invariants of `ObjectProofs` (`MqInv`, `ItemInv`, `HpInv`).  The last two parts of `Settled` are what makes
`Consistent` inductive: without an idle thread that can run, `rt_schedule` could return to a thread that sleeps, and with the
lock held by anybody else a thread would sleep on the processor.

A step does one of three things to `Settled`: the current thread goes on while a set `W` of threads wakes up (`Wakes`), it
falls asleep on a list or with a timer (`Sleeps`), or the timer thread locks or unlocks the scheduler.  Each action is shown to be
one of these (`Effect`), with what it does to the threads' places (`Moves`); `MqStep`, `MbStep`, `MpStep`, `HpStep`, `EvStep` and
`StStep` say of each object which of its calls end, wait or wake whom, and `LeavesBut` that the steps of one object are invisible to the
invariants of the others, which is how the six compose.

`rt_ipc_list_resume_all` and the loop of `rt_event_send` over the waiters are folds in the model.  `ResumeRounds` and `DeliverRounds`
unfold such a fold into a function of the number of rounds that have been made, and the invariants are shown to hold after each number, up
to the length of the list.  So the theorems hold for any number of waiters, where a run has three.

`WakeInv` is about wake-ups.  `NoLostWakeUp` counts the threads woken and not yet run against what is there, and is for message
queues and mailboxes inductive as it stands, given `AppInv`.  A pool needs `MpCount` in addition: `rt_mp_free` looks at `suspend_thread_count` and not at
the list, so the count must be at least the number of waiters (it may be more, which is the finding of `pool_timeout`).  The heap
needs `HpSemInv`: the semaphore is free, or one thread is inside or has been handed it; only then is the long stretch between
`rt_sem_take` and `rt_sem_release` one step for everybody else.  Events need `EvWants`: no waiter wants nothing, or the
empty set would satisfy it.  The action property `ClearedForOthers` then follows from what a round of `rt_event_send` does (`Delivered`).

The part of `AppInv` on the timer thread is `TimInv`.  `Yields` says that when that thread is awake nobody less urgent
runs, but a starter that has just made it ready and is about to call `rt_schedule`; it follows from `TimersUsedBelow` and from the fact that
`rt_schedule` and each handler leave the most urgent ready thread current (`Runners`).  So no thread can start a timer
between the timer thread's look at the list and its suspension (`SuspendsOnEmpty`).  `WakerInv` says that in the middle of
`rt_thread_resume` the timer thread still sleeps, with no timer running: the starter has stopped it, a second starter does not exist
(`OneWaker`), and nothing else wakes that thread.  Without it `StReady` would link a node that is on a list.  `NapTimed` says
that the timer thread has its timer running when it delays itself in a time-out function, or is just being woken; `ForgetsNone`
is the property with `SuspendsOnEmpty`.  `StTimers` shows that the steps of the soft timers keep `TimInv`, `AsideTimers` that all
others do: they wake the timer thread only when its timer expires (`Aside`).  TLC evaluates the two hypotheses for the programs of the runs.

The assumptions of `ObjectProofs` and `ApplicationProofs` are those of the modules (`SystemAssumption`, `MessageQueueAssumption`,
`SoftTimerAssumption`, ...: list names are distinct, initial free lists hold each block once, sizes are positive, the timer
thread runs `rt_thread_timer_entry`).

Every safety property of a passing run is thus a theorem, under the hypotheses named.  Out of the prover's reach and left to TLC are the liveness
properties (`UrgentAcquires`, `CheckEnds`, `EqualShare`).  The properties of the six runs that find a disagreement are false, and their
restricted forms (`FlatOwnerInherits` and the hypotheses above) are what is proved instead.

## 6. Not modelled

- **Other heaps, signals, SMP, hooks**: not in the configuration.  Of `mem.c`, the statistics and the names of owners are left
  out; the idle thread's own calls of `rt_free` belong to `Thread` (`ReapFree`) and do not touch `Heap`.
- `bsp/proton/rtconfig.h` leaves events, mailboxes, message queues, memory pools, soft timers and the driver IPC
  switched off by default; they are in the source for an application to enable, and modelled as the source has them
  (the driver IPC is not).
- **Objects and devices** are registration by name and reference counts around driver calls.
- **Driver IPC** (`components/drivers/src`): completions, data queues, work queues and ring buffers are the next components
  (section 7).
- The wrap-around of `sem->value`, `mutex->hold` and `mq->entry` is bounded away by constants.
  `rt_thread_delay_until` and `RT_TIMER_CTRL_SET_ONESHOT/PERIODIC` add no new interleaving.
- Message sizes: a message fits its block (`rt_mq_send` refuses it otherwise, before it changes anything).
- Nobody changes the priority of a waiting thread, except by inheritance.  No program has two controllers of one thread or
  two clients of one hard timer (section 4 says what fails then).
- **The rest of the SDK**: boards, peripheral libraries, wireless stacks, lwIP, FatFs, FreeRTOS, the shell and the code page
  tables are vendored or generated and have their own upstreams; the kernel is what every one of them runs
  on.  The models cover the kernel, which is a small share of the lines of the whole SDK.

## 7. Plan

1. `Workqueue`, `Completion`, `Dataqueue` of `components/drivers/src`, on `System`: submitting work
   beside cancelling it, `rt_completion_done` beside a time-out, the index of the data queue where a
   `rt_uint16_t` is promoted to `int`, a test of a thread's state before its suspension.
2. Changing the priority of a waiter, and threads that block with the scheduler locked.
