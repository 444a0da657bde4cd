------------------------------ MODULE SoftTimer ------------------------------
(***************************************************************************)
(* Soft timers (timer.c with RT_USING_TIMER_SOFT): their functions are     *)
(* called by a thread, which sleeps until the first of them expires and    *)
(* releases the scheduler while a function runs.  Whoever starts a timer   *)
(* wakes that thread.                                                      *)
(*                                                                         *)
(* Ticks are abstracted: a timer that starts takes any place on the list   *)
(* (Timer.tla has the place that its time-out gives it), and the one that  *)
(* the thread looks at has expired or not, or is due at the tick           *)
(* RT_TICK_MAX, which the code also takes for "no timer".                  *)
(***************************************************************************)
EXTENDS System

CONSTANTS
  SoftTimers,     \* timers made with RT_TIMER_FLAG_SOFT_TIMER
  SoftPeriodic,   \* and with RT_TIMER_FLAG_PERIODIC
  TimerThread,    \* timer_thread, in the programs that have one
  SoftUses,       \* the timers that each thread and interrupt handler uses
  SoftCallback,   \* the calls that each time-out function may make, in any number
  SoftNaps        \* the timers whose functions call rt_thread_delay

ASSUME SoftTimerAssumption ==
  /\ SoftPeriodic \subseteq SoftTimers /\ None \notin SoftTimers
  /\ TimerThread \in Thread /\ "timer" \in Object
  /\ SoftUses \in [Thread \cup {Isr} -> SUBSET SoftTimers]
  /\ SoftCallback \in [SoftTimers -> SUBSET ({"timer_start", "timer_stop"} \X SoftTimers)]
  /\ SoftNaps \subseteq SoftTimers
  (* With timers, the thread runs rt_thread_timer_entry and nothing else. *)
  /\ \A p \in Programs : \/ p.uses[TimerThread] = {"timer_entry"}
                         \/ \A t \in Thread \cup {Isr} : "timer_start" \notin p.uses[t]

VARIABLES
  soft_list,    \* rt_soft_timer_list
  activated,    \* the timers with RT_TIMER_FLAG_ACTIVATED
  on,           \* the timer that each thread is starting or stopping
  called,       \* t in rt_soft_timer_check, whose function is called
  node,         \* n in rt_soft_timer_check; None is the list head
  missed        \* history: since the timer thread looked at the list it is
                \* about to suspend itself, or has, although a timer runs

stVars == <<soft_list, activated, on, called, node, missed>>

StInit ==
  /\ soft_list = <<>> /\ activated = {}
  /\ on = [t \in Thread |-> None]
  /\ called = None /\ node = None
  /\ missed = FALSE

Unlinked(s) == RemoveFirst(soft_list, s)
Insertions(l, s) == {InsertAt(l, i, s) : i \in 1 .. Len(l) + 1}

-----------------------------------------------------------------------------
(* The masked stretches of rt_timer_start and rt_timer_stop, called by the   *)
(* thread t: a start first takes the timer off the list, ...                 *)
TakeOff(t, s) ==
  /\ soft_list' = Unlinked(s)
  /\ activated' = activated \ {s}
  /\ on' = [on EXCEPT ![t] = s]

(* ... and then puts it on; ... *)
PutOn(t) ==
  /\ soft_list' \in Insertions(soft_list, on[t])
  /\ activated' = activated \cup {on[t]}
  /\ on' = [on EXCEPT ![t] = None]

(* ... a stop takes it off with its flag still set, ... *)
Delist(t) == soft_list' = Unlinked(on[t]) /\ UNCHANGED <<activated, on>>

(* ... which it clears when interrupts are enabled again. *)
ClearFlag(t) ==
  /\ activated' = activated \ {on[t]}
  /\ on' = [on EXCEPT ![t] = None]
  /\ UNCHANGED soft_list

-----------------------------------------------------------------------------
(* rt_timer_start by a thread: the two masked stretches, ... *)
StStart(t, s) ==
  /\ Calls(t, "timer_start", "timer") /\ s \in SoftUses[t]
  /\ TakeOff(t, s)
  /\ Goto(t, "timer_start", "insert")
  /\ UNCHANGED <<k, prog, alive, timed, held, called, node, missed>>

StInsert(t) ==
  /\ At(t, "timer_start", "insert")
  /\ PutOn(t)
  /\ Proceed(t, "wake")
  /\ UNCHANGED <<k, prog, alive, timed, held, called, node, missed>>

(* Mutation: only a timer thread that sleeps for a time is woken. *)
StWake_Sleeping(t) ==
  /\ At(t, "timer_start", "wake")
  /\ IF TimerThread \in k.armed
     THEN Proceed(t, "resume_test") /\ UNCHANGED timed
     ELSE Return(t)
  /\ UNCHANGED <<k, prog, alive, held, stVars>>

(* ... then, with interrupts enabled, the test whether the timer thread is   *)
(* suspended, ...                                                            *)
StWake(t) ==
  /\ At(t, "timer_start", "wake")
  /\ IF k.stat[TimerThread] = "SUSPEND"
     THEN Proceed(t, "resume_test") /\ UNCHANGED timed
     ELSE Return(t)
  /\ UNCHANGED <<k, prog, alive, held, stVars>>

(* ... and rt_thread_resume: its own test, after which rt_schedule follows   *)
(* either way, ...                                                           *)
StResumeTest(t) ==
  /\ At(t, "timer_start", "resume_test")
  /\ Proceed(t, IF k.stat[TimerThread] = "SUSPEND" THEN "unlink" ELSE "sched")
  /\ UNCHANGED <<k, prog, alive, timed, held, stVars>>

(* ... the masked part, ... *)
StUnlink(t) ==
  /\ At(t, "timer_start", "unlink")
  /\ k' = [Unlink(k, TimerThread) EXCEPT !.armed = @ \ {TimerThread}]
  /\ Proceed(t, "ready")
  /\ UNCHANGED <<prog, alive, timed, held, stVars>>

(* ... and rt_schedule_insert_thread, masked on its own. *)
StReady(t) ==
  /\ At(t, "timer_start", "ready")
  /\ k' = InsertThread(k, TimerThread)
  /\ Proceed(t, "sched")
  /\ UNCHANGED <<prog, alive, timed, held, stVars>>

(* rt_timer_stop of an activated timer; otherwise it returns -RT_ERROR. *)
StStop(t, s) ==
  /\ Calls(t, "timer_stop", "timer") /\ s \in SoftUses[t]
  /\ s \in activated
  /\ on' = [on EXCEPT ![t] = s]
  /\ Goto(t, "timer_stop", "remove")
  /\ UNCHANGED <<k, prog, alive, timed, held, soft_list, activated, called, node, missed>>

StRemove(t) ==
  /\ At(t, "timer_stop", "remove")
  /\ Delist(t)
  /\ Proceed(t, "flag")
  /\ UNCHANGED <<k, prog, alive, timed, held, called, node, missed>>

StFlag(t) ==
  /\ At(t, "timer_stop", "flag")
  /\ ClearFlag(t)
  /\ Return(t)
  /\ UNCHANGED <<k, prog, alive, held, called, node, missed>>

-----------------------------------------------------------------------------
(* rt_thread_timer_entry: the step a of the timer thread *)
Entry(a) == At(TimerThread, "timer_entry", a)
EntryGoes(a) == Proceed(TimerThread, a)

(* rt_timer_start in an interrupt handler, all of it at once.  The timer     *)
(* thread takes the timer `called' off the list with interrupts enabled:     *)
(* a handler that comes in the middle of it and links or unlinks a           *)
(* neighbour leaves the list torn, with undefined behaviour from there on.   *)
Beside(l, r, s) == \E i \in 1 .. Len(l) - 1 : {l[i], l[i + 1]} = {r, s}

StIsrStart(s) ==
  /\ IsrCalls("timer_start", "timer") /\ s \in SoftUses[Isr]
  /\ soft_list' \in Insertions(Unlinked(s), s)
  /\ activated' = activated \cup {s}
  /\ k' = IF k.stat[TimerThread] = "SUSPEND" THEN Schedule(Resume(k, TimerThread)) ELSE k
  /\ \/ UNCHANGED <<op, pc>>
     \/ /\ op[TimerThread] = "timer_entry" /\ pc[TimerThread] = "expired"
        /\ s = called \/ Beside(soft_list, s, called) \/ Beside(soft_list', s, called)
        /\ Proceed(TimerThread, "torn")
  /\ missed' = (missed \/ pc[TimerThread] = "suspend")
  /\ UNCHANGED <<prog, alive, timed, held, on, called, node>>

Enter ==
  /\ Calls(TimerThread, "timer_entry", "timer")
  /\ Goto(TimerThread, "timer_entry", "next")
  /\ UNCHANGED <<k, prog, alive, timed, held, stVars>>

(* It looks at the first timer and decides how to wait for it: for ever with *)
(* no timer, and also with one that is due at the tick RT_TICK_MAX, the      *)
(* value by which rt_timer_list_next_timeout says that there is none.        *)
NextTimeout ==
  /\ Entry("next")
  /\ \E a \in IF soft_list = <<>> THEN {"suspend"} ELSE {"suspend", "delay", "check"} :
       /\ EntryGoes(a)
       /\ missed' = (a = "suspend" /\ soft_list # <<>>)
  /\ UNCHANGED <<k, prog, alive, timed, held, soft_list, activated, on, called, node>>

(* rt_thread_suspend, or the masked part of rt_thread_delay *)
FallAsleep ==
  /\ \/ Entry("suspend") /\ k' = Suspend(k, TimerThread)
     \/ Entry("delay") /\ k' = Sleep(k, TimerThread)
  /\ EntryGoes("asleep")
  /\ UNCHANGED <<prog, alive, timed, held, stVars>>

SleepSchedule ==
  /\ Entry("asleep")
  /\ k' = Schedule(k)
  /\ EntryGoes("check")
  /\ UNCHANGED <<prog, alive, timed, held, stVars>>

(* rt_soft_timer_check: it locks the scheduler and starts at the first      *)
(* timer.                                                                   *)
ListHead(l) == IF l = <<>> THEN None ELSE Head(l)
Check ==
  /\ Entry("check")
  /\ k' = [SleepReturn(k, TimerThread) EXCEPT !.lock = @ + 1]
  /\ node' = ListHead(soft_list)
  /\ EntryGoes("loop")
  /\ UNCHANGED <<prog, alive, timed, held, soft_list, activated, on, called, missed>>

(* rt_exit_critical *)
Unlock(kk) == Schedule([kk EXCEPT !.lock = @ - 1])

(* Where the node of the timer s leads: rt_list_remove links a node that    *)
(* leaves its list to itself.                                               *)
Successor(s) ==
  IF s \in ToSet(soft_list)
  THEN LET i == CHOOSE j \in DOMAIN soft_list : soft_list[j] = s IN
       IF i = Len(soft_list) THEN None ELSE soft_list[i + 1]
  ELSE s

(* The timer at node has expired: the thread goes on to its successor, ... *)
Expire ==
  /\ Entry("loop") /\ node # None
  /\ called' = node
  /\ node' = Successor(node)
  /\ EntryGoes("expired")
  /\ UNCHANGED <<k, prog, alive, timed, held, soft_list, activated, on, missed>>

(* ... takes it off the list, unlocks the scheduler and calls its function.  *)
CallFunction ==
  /\ Entry("expired")
  /\ soft_list' = Unlinked(called)
  /\ k' = Unlock(k)
  /\ EntryGoes("func")
  /\ UNCHANGED <<prog, alive, timed, held, activated, on, called, node, missed>>

(* The end of the list, or a timer that has not expired *)
CheckEnd ==
  /\ Entry("loop")
  /\ k' = Unlock(k)
  /\ node' = None
  /\ EntryGoes("next")
  /\ UNCHANGED <<prog, alive, timed, held, soft_list, activated, on, called, missed>>

-----------------------------------------------------------------------------
(* A time-out function starts and stops timers (the timer thread runs, so    *)
(* that rt_timer_start does not wake it), ...                                *)
FuncStart(s) ==
  /\ Entry("func") /\ <<"timer_start", s>> \in SoftCallback[called]
  /\ TakeOff(TimerThread, s)
  /\ EntryGoes("f_insert")
  /\ UNCHANGED <<k, prog, alive, timed, held, called, node, missed>>

FuncInsert ==
  /\ Entry("f_insert")
  /\ PutOn(TimerThread)
  /\ EntryGoes("func")
  /\ UNCHANGED <<k, prog, alive, timed, held, called, node, missed>>

FuncStop(s) ==
  /\ Entry("func") /\ <<"timer_stop", s>> \in SoftCallback[called]
  /\ s \in activated
  /\ on' = [on EXCEPT ![TimerThread] = s]
  /\ EntryGoes("f_remove")
  /\ UNCHANGED <<k, prog, alive, timed, held, soft_list, activated, called, node, missed>>

FuncRemove ==
  /\ Entry("f_remove")
  /\ Delist(TimerThread)
  /\ EntryGoes("f_flag")
  /\ UNCHANGED <<k, prog, alive, timed, held, called, node, missed>>

FuncFlag ==
  /\ Entry("f_flag")
  /\ ClearFlag(TimerThread)
  /\ EntryGoes("func")
  /\ UNCHANGED <<k, prog, alive, timed, held, called, node, missed>>

(* ... delays itself, while less urgent threads run, ... *)
Nap ==
  /\ Entry("func") /\ called \in SoftNaps
  /\ k' = Sleep(k, TimerThread)
  /\ EntryGoes("nap")
  /\ UNCHANGED <<prog, alive, timed, held, stVars>>

NapSchedule ==
  /\ Entry("nap")
  /\ k' = Schedule(k)
  /\ EntryGoes("napped")
  /\ UNCHANGED <<prog, alive, timed, held, stVars>>

NapReturn ==
  /\ Entry("napped")
  /\ k' = SleepReturn(k, TimerThread)
  /\ EntryGoes("func")
  /\ UNCHANGED <<prog, alive, timed, held, stVars>>

(* ... and returns; the scheduler is locked again. *)
FuncReturn ==
  /\ Entry("func")
  /\ k' = [k EXCEPT !.lock = @ + 1]
  /\ EntryGoes("after")
  /\ UNCHANGED <<prog, alive, timed, held, stVars>>

(* A periodic timer that is still activated is started again; ... *)
Restart ==
  /\ Entry("after")
  /\ called \in SoftPeriodic \cap activated
  /\ TakeOff(TimerThread, called)
  /\ called' = None
  /\ EntryGoes("restart")
  /\ UNCHANGED <<k, prog, alive, timed, held, node, missed>>

RestartInsert ==
  /\ Entry("restart")
  /\ PutOn(TimerThread)
  /\ EntryGoes("loop")
  /\ UNCHANGED <<k, prog, alive, timed, held, called, node, missed>>

(* ... any other one is marked as stopped, in a step after that test. *)
Expired ==
  /\ Entry("after")
  /\ called \notin SoftPeriodic \cap activated
  /\ on' = [on EXCEPT ![TimerThread] = called]
  /\ called' = None
  /\ EntryGoes("mark")
  /\ UNCHANGED <<k, prog, alive, timed, held, soft_list, activated, node, missed>>

Mark ==
  /\ Entry("mark")
  /\ ClearFlag(TimerThread)
  /\ EntryGoes("loop")
  /\ UNCHANGED <<k, prog, alive, timed, held, called, node, missed>>

-----------------------------------------------------------------------------
StNext ==
  \/ \E s \in SoftTimers :
       \/ StIsrStart(s) \/ FuncStart(s) \/ FuncStop(s)
       \/ \E t \in Thread : StStart(t, s) \/ StStop(t, s)
  \/ \E t \in Thread :
       \/ StInsert(t) \/ StWake(t) \/ StResumeTest(t) \/ StUnlink(t) \/ StReady(t)
       \/ StRemove(t) \/ StFlag(t)
  \/ Enter \/ NextTimeout \/ FallAsleep \/ SleepSchedule
  \/ Check \/ Expire \/ CallFunction \/ CheckEnd
  \/ FuncInsert \/ FuncRemove \/ FuncFlag \/ Nap \/ NapSchedule \/ NapReturn
  \/ FuncReturn \/ Restart \/ RestartInsert \/ Expired \/ Mark

-----------------------------------------------------------------------------
StTypeOK ==
  /\ soft_list \in Seq(SoftTimers)
  /\ activated \in SUBSET SoftTimers
  /\ on \in [Thread -> SoftTimers \cup {None}]
  /\ called \in SoftTimers \cup {None}
  /\ node \in SoftTimers \cup {None}
  /\ missed \in BOOLEAN

(* The timer thread does not call the function of a timer that has been     *)
(* stopped, neither on the list nor activated (the comment of               *)
(* rt_timer_stop, timer.c:417: "This function will stop the timer").        *)
StoppedIsNotCalled ==
  [][called' # called /\ called' # None => called' \in ToSet(soft_list) \cup activated
    ]_<<called, soft_list, activated>>

(* The thread t is between the two masked stretches of rt_thread_resume.    *)
Readies(t) == op[t] = "timer_start" /\ pc[t] = "ready"

(* The thread t is between the insertion of a timer and that of the timer   *)
(* thread into its ready list.                                              *)
Rouses(t) == Readies(t) \/ (op[t] = "timer_start" /\ pc[t] \in {"wake", "resume_test", "unlink"})

(* The timer thread is suspended for an unlimited time only when no timer   *)
(* runs (timer.c:651, "no software timer exist, suspend self"), or whoever  *)
(* has started one is about to wake it.                                     *)
NoTimerForgotten ==
  k.stat[TimerThread] = "SUSPEND" /\ op[TimerThread] = "timer_entry"
    /\ TimerThread \notin k.armed /\ soft_list # <<>>
    => \E t \in Thread : Rouses(t)

(* That is so but for two cases: the first timer was due at RT_TICK_MAX, or *)
(* a handler started one after the timer thread had looked at the list and  *)
(* before it suspended itself.                                              *)
NoTimerForgottenOnceSeen == ~missed => NoTimerForgotten

-----------------------------------------------------------------------------
(* How the programs use soft timers, where the code relies on it.  Threads   *)
(* that start or stop them are less urgent than the timer thread, which has  *)
(* RT_TIMER_THREAD_PRIO (0 unless it is configured, timer.c:33): they run    *)
(* only while it sleeps.                                                     *)
TimersUsedBelow ==
  \A p \in Programs, t \in Thread :
    p.uses[t] \cap {"timer_start", "timer_stop"} # {} => BasePrio[TimerThread] < BasePrio[t]

(* Only one thread starts timers, or only interrupt handlers do: a second    *)
(* one may resume the timer thread between the two masked stretches of       *)
(* rt_thread_resume (thread.c:733 and 736), and the first one then inserts   *)
(* it into its ready list when it sleeps again with its timer running.       *)
OneWaker ==
  \A p \in Programs, t, u \in Thread \cup {Isr} :
    "timer_start" \in p.uses[t] /\ "timer_start" \in p.uses[u] => t = u

(* Nobody starts a timer that somebody else is starting: rt_timer_start      *)
(* takes it off the list and puts it back in two steps.                      *)
OneStarter ==
  \A p \in Programs, t \in Thread \cup {Isr} :
    "timer_start" \in p.uses[t] =>
      /\ \A s, r \in SoftTimers : <<"timer_start", r>> \in SoftCallback[s] => r \notin SoftUses[t]
      /\ t = Isr => SoftUses[t] \cap SoftPeriodic = {}

TimersWellUsed == TimersUsedBelow /\ OneWaker /\ OneStarter
=============================================================================
