-------------------------- MODULE ApplicationProofs --------------------------
(***************************************************************************)
(* The threads, the kernel and the objects together: everything keeps its   *)
(* type, the lists of the kernel agree, whoever is suspended is where a     *)
(* send, a free, a reset or a timer finds it, and nobody waits for what is  *)
(* there, for any threads, objects and programs.                            *)
(*                                                                         *)
(* The invariant Settled speaks of a kernel and of where the threads are.   *)
(* A step does to them one of three things: the current thread goes on,     *)
(* while some waiters wake up (Wakes); it falls asleep (Sleeps); or the     *)
(* timer thread locks or unlocks the scheduler.                             *)
(***************************************************************************)
EXTENDS ObjectProofs, KernelProofs

(* Where the timer thread has the scheduler locked, and how it goes on from *)
(* where it falls asleep                                                    *)
Locked == {"loop", "expired", "torn", "after", "restart", "mark"}
RunsOn(a, b) == \/ a = "asleep" /\ b = "check"
                \/ a = "nap" /\ b = "napped"
USE DEF Locked, RunsOn

(* The operations in which a thread waits on a list *)
WaitOp == {"mq_recv", "mb_recv", "mb_send", "mp_alloc", "event_recv"} \cup HeapOp

(* With the threads at the places g of the operations f, the suspended      *)
(* thread t is on the list of its call, or has a timer, or is the timer     *)
(* thread.                                                                  *)
WaitsFor(kk, f, g, t) ==
  \/ f[t] = "timer_entry" /\ t = TimerThread
       /\ g[t] \in {"asleep", "check", "nap", "napped"}
  \/ f[t] = "delay" /\ g[t] \in {"wait", "woken"} /\ t \in kk.armed
  \/ /\ f[t] \in WaitOp /\ g[t] \in {"wait", "woken"}
     /\ kk.err[t] = "EOK" /\ t \in On(kk, WaitList(f[t]))

Settled(kk, f, g) ==
  /\ KernelOK(kk) /\ kk.prio = BasePrio
  /\ f \in [Thread -> Op \cup {"none"}] /\ g \in [Thread -> PC]
  /\ \A t \in Thread : kk.stat[t] \in Living
  /\ \A t \in Thread : kk.stat[t] = "SUSPEND" => WaitsFor(kk, f, g, t)
  /\ \A q \in Queue : \A t \in On(kk, q) : f[t] \in WaitOp
  /\ \A t \in Thread : f[t] \in HeapOp => t \notin kk.armed
  (* A thread that has gone to sleep runs on to its rt_schedule only. *)
  /\ kk.stat[kk.current] = "SUSPEND" => g[kk.current] \in {"wait", "asleep", "nap"}
  (* The idle thread never waits, so that somebody can always run. *)
  /\ f[Idle] = "none" /\ g[Idle] = "user" /\ kk.stat[Idle] # "SUSPEND"
  (* The scheduler is locked while the timer thread goes through its list. *)
  /\ kk.lock = IF g[TimerThread] \in Locked THEN 1 ELSE 0
  /\ g[TimerThread] \in Locked => kk.current = TimerThread

(* Threads are only inside operations that they use. *)
Used(f) ==
  \A t \in Thread : \/ f[t] \in prog.uses[t] \cup {"none"}
                    \/ f[t] \in HeapOp /\ prog.uses[t] \cap HeapOp # {}

CallInv ==
  /\ Settled(k, op, pc) /\ prog \in Programs /\ Used(op)
  /\ alive \subseteq Object /\ timed \in [Thread -> BOOLEAN]

LEMMA Kinds == Idle \in Thread /\ TimerThread \in Thread /\ IsFiniteSet(Thread)
BY SystemAssumption, SoftTimerAssumption, KernelAssumption

(* The six wait lists are six lists. *)
LEMMA SixLists ==
  /\ MqWaiters \in Queue /\ MbReceivers \in Queue /\ MbSenders \in Queue
  /\ MpWaiters \in Queue /\ EvWaiters \in Queue /\ HeapWaiters \in Queue
  /\ MqWaiters \notin {MbReceivers, MbSenders, MpWaiters, EvWaiters, HeapWaiters}
  /\ MbReceivers \notin {MbSenders, MpWaiters, EvWaiters, HeapWaiters}
  /\ MbSenders \notin {MpWaiters, EvWaiters, HeapWaiters}
  /\ MpWaiters \notin {EvWaiters, HeapWaiters} /\ EvWaiters # HeapWaiters
<1> DEFINE s == <<MqWaiters, MbReceivers, MbSenders, MpWaiters, EvWaiters, HeapWaiters>>
<1>1. \A i, j \in 1 .. 6 : s[i] = s[j] => i = j
  BY ApplicationAssumption DEF IsInjective
<1>2. /\ s[1] = MqWaiters /\ s[2] = MbReceivers /\ s[3] = MbSenders
      /\ s[4] = MpWaiters /\ s[5] = EvWaiters /\ s[6] = HeapWaiters
  OBVIOUS
<1> HIDE DEF s
<1> QED
  BY <1>1, <1>2, MessageQueueAssumption, MailboxAssumption, MemPoolAssumption,
     EventAssumption, HeapAssumption

LEMMA WaitListOf ==
  ASSUME NEW o \in WaitOp
  PROVE  /\ WaitList(o) \in Queue
         /\ WaitList(o) = MqWaiters <=> o = "mq_recv"
         /\ WaitList(o) = MbReceivers <=> o = "mb_recv"
         /\ WaitList(o) = MbSenders <=> o = "mb_send"
         /\ WaitList(o) = MpWaiters <=> o = "mp_alloc"
         /\ WaitList(o) = EvWaiters <=> o = "event_recv"
         /\ WaitList(o) = HeapWaiters <=> o \in HeapOp
<1>1. CASE o = "mq_recv"
  BY <1>1, SixLists DEF WaitList, HeapOp
<1>2. CASE o = "mb_recv"
  BY <1>2, SixLists DEF WaitList, HeapOp
<1>3. CASE o = "mb_send"
  BY <1>3, SixLists DEF WaitList, HeapOp
<1>4. CASE o = "mp_alloc"
  BY <1>4, SixLists DEF WaitList, HeapOp
<1>5. CASE o = "event_recv"
  BY <1>5, SixLists DEF WaitList, HeapOp
<1>6. CASE o \in HeapOp
  BY <1>6, SixLists DEF WaitList, HeapOp
<1> QED
  BY <1>1, <1>2, <1>3, <1>4, <1>5, <1>6 DEF WaitOp

-----------------------------------------------------------------------------
(* From kk to r the threads W wake up, errors change at most for those in   *)
(* E, and otherwise threads only take turns.                                *)
Wakes(kk, r, W, E) ==
  /\ KernelOK(r) /\ r.prio = kk.prio /\ r.lock = kk.lock
  /\ \A u \in Thread : r.stat[u] \in Living
  /\ \A u \in Thread : r.stat[u] = "SUSPEND" <=> kk.stat[u] = "SUSPEND" /\ u \notin W
  /\ \A u \in Thread : u \notin E => r.err[u] = kk.err[u]
  /\ \A u \in Thread : u \in r.armed <=> u \in kk.armed /\ u \notin W
  /\ \A q \in Queue : On(r, q) = On(kk, q) \ W
  /\ \A u \in W : u \in Thread /\ kk.stat[u] = "SUSPEND"

(* The same thread runs on, or the most urgent ready one now does. *)
Turns(kk, r) ==
  \/ r.current = kk.current
  \/ kk.lock = 0 /\ r.stat[r.current] = "RUNNING" /\ Preempted(r)

Lively(kk) ==
  /\ KernelOK(kk) /\ \A t \in Thread : kk.stat[t] \in Living
  /\ \E t \in Thread : kk.stat[t] # "SUSPEND"

LEMMA WakesTwice ==
  ASSUME NEW kk, NEW r, NEW v, NEW W1, NEW W2, NEW E1, NEW E2,
         Wakes(kk, r, W1, E1), Wakes(r, v, W2, E2)
  PROVE  Wakes(kk, v, W1 \cup W2, E1 \cup E2)
BY DEF Wakes

LEMMA ScheduleWakes ==
  ASSUME NEW kk, Lively(kk)
  PROVE  /\ Wakes(kk, Schedule(kk), {}, {}) /\ Lively(Schedule(kk)) /\ Turns(kk, Schedule(kk))
         /\ kk.lock = 0 => /\ Schedule(kk).stat[Schedule(kk).current] = "RUNNING"
                           /\ Preempted(Schedule(kk))
<1> DEFINE r == Schedule(kk)
<1>0. KernelOK(kk) /\ \A t \in Thread : kk.stat[t] \in Living
  BY DEF Lively
<1>1. KernelOK(r) /\ WakesNobody(kk, r)
  BY <1>0, ScheduleOK
<1>2. PICK t \in Thread : kk.stat[t] \in {"READY", "RUNNING"}
  BY DEF Lively, Living
<1>3. kk.lock = 0 => r.stat[r.current] = "RUNNING" /\ Preempted(r)
  BY <1>0, <1>2, ScheduleRuns, SchedulePreempts
<1>4. kk.lock # 0 => r.current = kk.current
  BY DEF Schedule
<1> HIDE DEF r
<1>5. Wakes(kk, r, {}, {})
  BY <1>0, <1>1 DEF WakesNobody, Wakes
<1>6. Lively(r)
  BY <1>1, <1>0, <1>2 DEF Lively, WakesNobody, Living
<1>7. Turns(kk, r)
  BY <1>3, <1>4 DEF Turns
<1> QED
  BY <1>3, <1>5, <1>6, <1>7 DEF r

LEMMA ErrorWakes ==
  ASSUME NEW kk, Lively(kk), NEW t \in Thread, NEW e \in Err
  PROVE  LET r == [kk EXCEPT !.err[t] = e]
         IN  /\ Wakes(kk, r, {}, {t}) /\ Lively(r) /\ r.current = kk.current
             /\ r.err[t] = e /\ r.list = kk.list
<1> DEFINE r == [kk EXCEPT !.err[t] = e]
<1>0. KernelOK(kk) /\ \A u \in Thread : kk.stat[u] \in Living
  BY DEF Lively
<1>1. /\ KernelOK(r)
      /\ r.stat = kk.stat /\ r.current = kk.current /\ r.list = kk.list
      /\ r.lock = kk.lock /\ r.err = [kk.err EXCEPT ![t] = e]
      /\ r.armed = kk.armed /\ r.prio = kk.prio
      /\ \A l \in ListId : On(r, l) = On(kk, l)
  BY <1>0, ErrorOK
<1>2. kk.err \in [Thread -> Err]
  BY <1>0 DEF KernelOK, KernelState
<1> HIDE DEF r
<1>3. Wakes(kk, r, {}, {t}) /\ Lively(r)
  BY <1>0, <1>1, <1>2, ListKinds DEF Wakes, Lively
<1> QED
  BY <1>1, <1>2, <1>3 DEF r

LEMMA ResumeWakes ==
  ASSUME NEW kk, Lively(kk), NEW t \in Thread, kk.stat[t] = "SUSPEND"
  PROVE  /\ Wakes(kk, Resume(kk, t), {t}, {}) /\ Lively(Resume(kk, t))
         /\ Resume(kk, t).err = kk.err /\ Resume(kk, t).current = kk.current
<1> DEFINE r == Resume(kk, t)
<1>1. /\ KernelOK(r) /\ OnlyWakes(kk, r, t)
      /\ r.err = kk.err /\ r.current = kk.current
  BY ResumeOK DEF Lively
<1> HIDE DEF r
<1>2. Wakes(kk, r, {t}, {})
  BY <1>1 DEF Wakes, OnlyWakes, Lively
<1>3. Lively(r)
  BY <1>1, <1>2 DEF Wakes, Lively
<1> QED
  BY <1>1, <1>2, <1>3 DEF r

(* A suspended thread is resumed with an error code set. *)
LEMMA ResumeWithWakes ==
  ASSUME NEW kk, Lively(kk), NEW t \in Thread, kk.stat[t] = "SUSPEND", NEW e \in Err
  PROVE  LET r == Resume([kk EXCEPT !.err[t] = e], t)
         IN  /\ Wakes(kk, r, {t}, {t}) /\ Lively(r)
             /\ r.err[t] = e /\ r.current = kk.current
<1> DEFINE v == [kk EXCEPT !.err[t] = e]
           r == Resume(v, t)
<1>1. Wakes(kk, v, {}, {t}) /\ Lively(v) /\ v.current = kk.current /\ v.err[t] = e
  BY ErrorWakes
<1> HIDE DEF v
<1>2. v.stat[t] = "SUSPEND"
  BY <1>1 DEF Wakes
<1>3. /\ Wakes(v, r, {t}, {}) /\ Lively(r) /\ r.err = v.err /\ r.current = v.current
  BY <1>1, <1>2, ResumeWakes
<1> HIDE DEF r
<1>4. Wakes(kk, r, {} \cup {t}, {t} \cup {})
  BY <1>1, <1>3, WakesTwice
<1>5. {} \cup {t} = {t} /\ {t} \cup {} = {t}
  OBVIOUS
<1> QED
  BY <1>1, <1>3, <1>4, <1>5 DEF r, v

LEMMA FirstWaits ==
  ASSUME NEW kk, KernelOK(kk), NEW q \in Queue, kk.list[q] # <<>>
  PROVE  /\ Head(kk.list[q]) \in Thread /\ kk.stat[Head(kk.list[q])] = "SUSPEND"
         /\ Head(kk.list[q]) \in On(kk, q)
<1>1. kk \in KernelState /\ q \in ListId
  BY ListKinds DEF KernelOK
<1>2. kk.list[q] \in Seq(Thread)
  BY <1>1, ListType
<1> QED
  BY <1>2, FirstWaiter, HeadOfList DEF On

LEMMA TimeoutWakes ==
  ASSUME NEW kk, Lively(kk), NEW t \in kk.armed
  PROVE  LET r == Timeout(kk, t)
         IN  /\ Wakes(kk, r, {t}, {t}) /\ Turns(kk, r) /\ r.err[t] = "ETIMEOUT"
             /\ kk.lock = 0 => r.stat[r.current] = "RUNNING" /\ Preempted(r)
<1> DEFINE r == Timeout(kk, t)
<1>0. KernelOK(kk) /\ \A u \in Thread : kk.stat[u] \in Living
  BY DEF Lively
<1>1. t \in Thread /\ kk.stat[t] = "SUSPEND" /\ kk.err \in [Thread -> Err]
  BY <1>0 DEF KernelOK, KernelConsistent, TimersForSuspended, KernelState
<1>2. /\ KernelOK(r) /\ OnlyWakes(kk, r, t)
      /\ r.err = [kk.err EXCEPT ![t] = "ETIMEOUT"]
      /\ kk.lock = 0 => r.stat[r.current] = "RUNNING" /\ Preempted(r)
  BY <1>0, TimeoutOK
<1>3. kk.lock # 0 => r.current = kk.current
  <2> DEFINE v == [Unlink(kk, t) EXCEPT !.err[t] = "ETIMEOUT", !.armed = @ \ {t}]
             i == InsertThread(v, t)
  <2>1. v.lock = kk.lock /\ v.current = kk.current
    BY DEF Unlink
  <2> HIDE DEF v
  <2>2. i.lock = v.lock /\ i.current = v.current
    BY DEF InsertThread
  <2> HIDE DEF i
  <2>3. r = Schedule(i)
    BY DEF Timeout, i, v
  <2> QED
    BY <2>1, <2>2, <2>3 DEF Schedule
<1> HIDE DEF r
<1>4. Wakes(kk, r, {t}, {t})
  BY <1>0, <1>1, <1>2 DEF Wakes, OnlyWakes
<1>5. Turns(kk, r)
  BY <1>2, <1>3 DEF Turns
<1> QED
  BY <1>1, <1>2, <1>4, <1>5 DEF r

-----------------------------------------------------------------------------
(* From kk to r the current thread t goes to sleep, on the list q, if q is  *)
(* one of an object.                                                        *)
Sleeps(kk, r, t, q) ==
  /\ KernelOK(r) /\ r.prio = kk.prio /\ r.lock = kk.lock /\ r.current = kk.current
  /\ \A u \in Thread : r.stat[u] \in Living
  /\ \A u \in Thread : r.stat[u] = "SUSPEND" <=> kk.stat[u] = "SUSPEND" \/ u = t
  /\ \A u \in Thread : u # t => r.err[u] = kk.err[u]
  /\ \A u \in Thread : u # t => (u \in r.armed <=> u \in kk.armed)
  /\ \A o \in Queue : On(r, o) = IF o = q THEN On(kk, o) \cup {t} ELSE On(kk, o)

LEMMA SuspendSleeps ==
  ASSUME NEW kk, Lively(kk), NEW t \in Thread, kk.stat[t] = "RUNNING"
  PROVE  Sleeps(kk, Suspend(kk, t), t, Defunct)
<1> DEFINE r == Suspend(kk, t)
<1>1. /\ KernelOK(r) /\ r.stat = [kk.stat EXCEPT ![t] = "SUSPEND"]
      /\ r.err = kk.err /\ r.lock = kk.lock /\ r.current = kk.current /\ r.prio = kk.prio
      /\ r.armed = kk.armed /\ \A q \in Queue : On(r, q) = On(kk, q)
  BY SuspendOK DEF Lively
<1> HIDE DEF r
<1>2. kk.stat \in [Thread -> Stat] /\ \A q \in Queue : q # Defunct
  BY ListKinds DEF Lively, KernelOK, KernelState
<1>3. Sleeps(kk, r, t, Defunct)
  BY <1>1, <1>2 DEF Sleeps, Lively, Living
<1> QED
  BY <1>3 DEF r

LEMMA SleepSleeps ==
  ASSUME NEW kk, Lively(kk), NEW t \in Thread, kk.stat[t] = "RUNNING"
  PROVE  Sleeps(kk, Sleep(kk, t), t, Defunct) /\ t \in Sleep(kk, t).armed
<1> DEFINE s == Suspend(kk, t)
           r == [s EXCEPT !.armed = @ \cup {t}]
<1>0. r = Sleep(kk, t)
  BY DEF Sleep
<1>1. Sleeps(kk, s, t, Defunct)
  BY SuspendSleeps
<1> HIDE DEF s
<1>2. KernelOK(s) /\ s \in KernelState /\ s.stat[t] = "SUSPEND"
  BY <1>1 DEF Sleeps, KernelOK
<1>3. /\ r \in KernelState /\ r.list = s.list /\ r.stat = s.stat /\ r.prio = s.prio
      /\ r.group = s.group /\ r.armed = s.armed \cup {t} /\ r.err = s.err
      /\ r.current = s.current /\ r.lock = s.lock
  BY <1>2 DEF KernelState
<1> HIDE DEF r
<1>4. ListsAgree(s) /\ RunningIsCurrent(s)
  BY <1>2, KernelOKParts
<1>5. \A u \in r.armed : s.stat[u] = "SUSPEND"
  BY <1>2, <1>3, <1>4 DEF ListsAgree, TimersForSuspended
<1>6. ListsAgree(r) /\ \A l \in ListId : On(r, l) = On(s, l)
  BY <1>3, <1>4, <1>5, FrameLists
<1>7. RunningIsCurrent(r)
  BY <1>3, <1>4 DEF RunningIsCurrent
<1>8. KernelOK(r)
  BY <1>6, <1>7, KernelOKParts
<1>9. Sleeps(kk, r, t, Defunct)
  BY <1>1, <1>3, <1>6, <1>8, ListKinds DEF Sleeps
<1> QED
  BY <1>0, <1>3, <1>9

(* A waiting call: the thread has no error and sleeps on the list q. *)
LEMMA WaitSleeps ==
  ASSUME NEW kk, Lively(kk), NEW t \in Thread, kk.stat[t] = "RUNNING",
         NEW q \in Queue, NEW flag, NEW limit \in BOOLEAN
  PROVE  LET r == IpcSuspend([kk EXCEPT !.err[t] = "EOK"], q, t, flag, limit)
         IN  /\ Sleeps(kk, r, t, q) /\ r.err[t] = "EOK" /\ r.list[q] # <<>>
             /\ limit = FALSE => t \notin r.armed
<1> DEFINE v == [kk EXCEPT !.err[t] = "EOK"]
           s == Suspend(v, t)
           r == IpcSuspend(v, q, t, flag, limit)
<1>1. /\ Wakes(kk, v, {}, {t}) /\ Lively(v) /\ v.current = kk.current /\ v.err[t] = "EOK"
  BY ErrorWakes DEF Err
<1>2. v.stat = kk.stat
  OBVIOUS
<1> HIDE DEF v
<1>3. /\ KernelOK(v) /\ v.stat[t] = "RUNNING"
  BY <1>1, <1>2 DEF Lively
<1>4. /\ KernelOK(r)
      /\ On(r, q) = On(v, q) \cup {t}
      /\ \A o \in Queue \ {q} : On(r, o) = On(v, o)
      /\ \A w \in Thread : r.stat[w] = "SUSPEND" <=> v.stat[w] = "SUSPEND" \/ w = t
      /\ \A w \in Thread : v.stat[w] \in Living => r.stat[w] \in Living
      /\ r.err = v.err /\ r.lock = v.lock /\ r.current = v.current
      /\ r.prio = v.prio
  BY <1>3, IpcSuspendOK
<1>5. s.armed = v.armed /\ t \notin v.armed /\ KernelOK(s)
  BY <1>3, SuspendOK
<1>6. r.armed = IF limit THEN s.armed \cup {t} ELSE s.armed
  <2> HIDE DEF s
  <2>1. s \in KernelState
    BY <1>5 DEF KernelOK
  <2>2. r = [s EXCEPT !.list[q] = InsertAt(@, WaitPosition(s, q, t, flag), t),
                      !.armed = IF limit THEN @ \cup {t} ELSE @]
    BY DEF IpcSuspend, s
  <2> QED
    BY <2>1, <2>2 DEF KernelState
<1> HIDE DEF s, r
<1>7. Sleeps(kk, r, t, q)
  BY <1>1, <1>4, <1>5, <1>6 DEF Sleeps, Wakes, Lively
<1>8. r.list[q] # <<>>
  <2>1. r \in KernelState /\ q \in ListId
    BY <1>4, ListKinds DEF KernelOK
  <2> QED
    BY <1>4, <2>1, EmptyOn
<1> QED
  BY <1>1, <1>4, <1>5, <1>6, <1>7, <1>8 DEF r, v

(* rt_mp_alloc puts the thread at the head of the list. *)
PoolSuspend(kk, t, limit) ==
  LET s == Suspend([kk EXCEPT !.err[t] = "EOK"], t)
  IN  [s EXCEPT !.list[MpWaiters] = <<t>> \o @,
                !.armed = IF limit THEN @ \cup {t} ELSE @]

LEMMA PoolSleeps ==
  ASSUME NEW kk, Lively(kk), NEW t \in Thread, kk.stat[t] = "RUNNING",
         NEW limit \in BOOLEAN
  PROVE  LET r == PoolSuspend(kk, t, limit)
         IN  Sleeps(kk, r, t, MpWaiters) /\ r.err[t] = "EOK"
<1> DEFINE q == MpWaiters
           v == [kk EXCEPT !.err[t] = "EOK"]
           s == Suspend(v, t)
           new == <<t>> \o s.list[q]
           li == [s.list EXCEPT ![q] = new]
           ar == IF limit THEN s.armed \cup {t} ELSE s.armed
           r == PoolSuspend(kk, t, limit)
<1>0. Wakes(kk, v, {}, {t}) /\ Lively(v) /\ v.current = kk.current /\ v.err[t] = "EOK"
  BY ErrorWakes DEF Err
<1>a. v.stat = kk.stat
  OBVIOUS
<1> HIDE DEF v
<1>b. KernelOK(v) /\ v.stat[t] = "RUNNING"
  BY <1>0, <1>a DEF Lively
<1>1. /\ KernelOK(s) /\ Off(s, t) /\ s.stat = [v.stat EXCEPT ![t] = "SUSPEND"]
      /\ s.err = v.err /\ s.lock = v.lock /\ s.current = v.current
      /\ s.prio = v.prio /\ s.armed = v.armed
      /\ \A o \in Queue : On(s, o) = On(v, o)
  BY <1>b, SuspendOK
<1>2. s \in KernelState /\ ListsAgree(s) /\ RunningIsCurrent(s) /\ v \in KernelState
  BY <1>1, <1>b, KernelOKParts DEF KernelOK
<1>3. /\ q \in Queue /\ q \in ListId /\ s.list[q] \in Seq(Thread) /\ IsInjective(s.list[q])
      /\ t \notin On(s, q)
  BY <1>1, <1>2, ListKinds, ListType, MemPoolAssumption DEF ListsAgree, OneList, Off
<1>6. r = [s EXCEPT !.list = li, !.armed = ar]
  <2> HIDE DEF s
  <2>1. r = [s EXCEPT !.list[q] = <<t>> \o @, !.armed = IF limit THEN @ \cup {t} ELSE @]
    BY DEF PoolSuspend, s, v
  <2> QED
    BY <1>2, <2>1 DEF KernelState
<1> HIDE DEF s
<1>5. new \in Seq(Thread) /\ ToSet(new) = On(s, q) \cup {t} /\ IsInjective(new)
  BY <1>3, PushToList DEF On
<1> HIDE DEF new
<1>7. li \in [ListId -> Seq(Thread)] /\ ar \in SUBSET Thread
  BY <1>2, <1>3, <1>5 DEF KernelState
<1> HIDE DEF li, ar, r, q
<1>8. /\ r \in KernelState /\ r.list = li /\ r.stat = s.stat /\ r.prio = s.prio
      /\ r.group = s.group /\ r.current = s.current /\ r.armed = ar
      /\ r.err = s.err /\ r.lock = s.lock
  BY <1>2, <1>6, <1>7 DEF KernelState
<1>9. /\ \A l \in ListId \ {q} : r.list[l] = s.list[l] /\ On(r, l) = On(s, l)
      /\ r.list[q] = new /\ On(r, q) = On(s, q) \cup {t}
  BY <1>2, <1>3, <1>5, <1>8 DEF li, On, KernelState
<1>10. \A w \in Thread : r.stat[w] = IF w = t THEN "SUSPEND" ELSE v.stat[w]
  BY <1>1, <1>2, <1>8 DEF KernelState
<1>11. OneList(r)
  <2>1. \A l \in ListId : IsInjective(r.list[l])
    BY <1>2, <1>5, <1>9 DEF ListsAgree, OneList
  <2>2. \A l1, l2 \in ListId : l1 # l2 => On(r, l1) \cap On(r, l2) = {}
    BY <1>1, <1>2, <1>3, <1>9 DEF ListsAgree, OneList, Off
  <2> QED
    BY <2>1, <2>2 DEF OneList
<1>12. ReadyListed(r) /\ BitmapExact(r)
  BY <1>2, <1>3, <1>8, <1>9, ListKinds DEF ListsAgree, ReadyListed, BitmapExact
<1>13. WaitersSuspended(r)
  BY <1>2, <1>3, <1>8, <1>9, <1>10, ListKinds DEF ListsAgree, WaitersSuspended
<1>14. TimersForSuspended(r)
  BY <1>2, <1>8, <1>10 DEF ListsAgree, TimersForSuspended, ar
<1>15. RunningIsCurrent(r)
  BY <1>2, <1>8 DEF RunningIsCurrent
<1>16. KernelOK(r)
  BY <1>8, <1>11, <1>12, <1>13, <1>14, <1>15 DEF KernelOK, KernelConsistent
<1>17. \A o \in Queue : On(r, o) = IF o = q THEN On(v, o) \cup {t} ELSE On(v, o)
  BY <1>1, <1>9, ListKinds
<1>18. \A u \in Thread : u # t => (u \in r.armed <=> u \in v.armed)
  BY <1>1, <1>8 DEF ar
<1>19. Sleeps(kk, r, t, q) /\ r.err[t] = "EOK"
  BY <1>0, <1>1, <1>8, <1>10, <1>16, <1>17, <1>18 DEF Sleeps, Wakes, Lively, Living
<1> QED
  BY <1>19 DEF r, q

-----------------------------------------------------------------------------
(* The loops of rt_ipc_list_resume_all and rt_event_send *)
LEMMA ListCounts ==
  ASSUME NEW S, NEW s \in Seq(S), IsInjective(s)
  PROVE  IsFiniteSet(ToSet(s)) /\ Cardinality(ToSet(s)) = Len(s)
<1>1. /\ s \in [1 .. Len(s) -> ToSet(s)] /\ Len(s) \in Nat
      /\ \A x \in ToSet(s) : \E i \in 1 .. Len(s) : s[i] = x
  BY DEF ToSet
<1>2. s \in Surjection(1 .. Len(s), ToSet(s)) /\ s \in Injection(1 .. Len(s), ToSet(s))
  BY <1>1 DEF Surjection, Injection, IsInjective
<1>3. IsFiniteSet(1 .. Len(s)) /\ Cardinality(1 .. Len(s)) = Len(s)
  <2>1. 1 \in Int /\ Len(s) \in Int
    BY <1>1
  <2>2. /\ IsFiniteSet(1 .. Len(s))
        /\ Cardinality(1 .. Len(s)) = IF 1 > Len(s) THEN 0 ELSE Len(s) - 1 + 1
    BY <2>1, FS_Interval, Zenon
  <2> QED
    BY <1>1, <2>2
<1> QED
  BY <1>2, <1>3, FS_Surjection

(* The states of the loop of rt_ipc_list_resume_all exist: *)
ResumeRounds(kk, q, f) ==
  f = [n \in 0 .. Len(kk.list[q]) |->
         IF n = 0 THEN kk ELSE IpcResumeWithError(f[n - 1], q)]

LEMMA ResumeRoundsExist ==
  ASSUME NEW kk, NEW q, Len(kk.list[q]) \in Nat
  PROVE  \E f : ResumeRounds(kk, q, f)
<1> DEFINE N == Len(kk.list[q])
           Upto(m, f) == f = [n \in 0 .. m |-> IF n = 0 THEN kk
                                               ELSE IpcResumeWithError(f[n - 1], q)]
           Bad == {m \in Nat : ~\E f : Upto(m, f)}
<1>1. SUFFICES Bad = {}
  BY DEF ResumeRounds
<1>2. SUFFICES ASSUME Bad # {} PROVE FALSE
  OBVIOUS
<1>3. Bad \in SUBSET Nat
  OBVIOUS
<1>4. Min(Bad) \in Bad /\ \A j \in Bad : Min(Bad) <= j
  BY <1>2, <1>3, MinOfNat
<1> DEFINE m == Min(Bad)
<1>a. m \in Nat /\ ~\E f : Upto(m, f)
  BY <1>4
<1> HIDE DEF Bad
<1>5. m \in Nat /\ (~\E f : Upto(m, f)) /\ (m # 0 => m - 1 \notin Bad)
  <2> HIDE DEF Upto
  <2>1. m \in Bad /\ \A j \in Bad : m <= j
    BY <1>4
  <2> HIDE DEF m
  <2> QED
    BY <1>a, <2>1
<1> HIDE DEF m
<1>6. CASE m = 0
  <2> DEFINE g == [n \in 0 .. 0 |-> kk]
  <2>1. Upto(0, g)
    BY SMT
  <2> QED
    BY <1>5, <1>6, <2>1
<1>7. CASE m # 0
  <2>1. PICK f : Upto(m - 1, f)
    BY <1>5, <1>7 DEF Bad
  <2> DEFINE g == [n \in 0 .. m |-> IF n = m THEN IpcResumeWithError(f[m - 1], q) ELSE f[n]]
  <2>2. \A n \in 0 .. m : g[n] = IF n = 0 THEN kk ELSE IpcResumeWithError(g[n - 1], q)
    <3>1. ASSUME NEW n \in 0 .. m
          PROVE  g[n] = IF n = 0 THEN kk ELSE IpcResumeWithError(g[n - 1], q)
      <4>1. CASE n = m
        <5>1. g[n] = IpcResumeWithError(f[m - 1], q) /\ g[n - 1] = f[m - 1] /\ n # 0
          BY <1>5, <1>7, <4>1
        <5> QED
          BY <4>1, <5>1
      <4>2. CASE n # m
        <5>1. n \in 0 .. m - 1 /\ g[n] = f[n] /\ (n # 0 => g[n - 1] = f[n - 1])
          BY <1>5, <1>7, <4>2
        <5> HIDE DEF g
        <5> QED
          BY <2>1, <5>1
      <4> QED
        BY <4>1, <4>2
    <3> QED
      BY <3>1
  <2>3. Upto(m, g)
    <3>1. g = [n \in 0 .. m |-> g[n]]
      OBVIOUS
    <3> HIDE DEF g
    <3> QED
      BY <2>2, <3>1
  <2> QED
    BY <1>5, <2>3
<1> QED
  BY <1>6, <1>7

(* After n rounds n of the waiters are awake, with an error set. *)
ResumedBy(kk, q, n, r) ==
  /\ Lively(r) /\ r.current = kk.current
  /\ \E W \in SUBSET On(kk, q) : /\ Wakes(kk, r, W, W)
                                 /\ \A u \in W : r.err[u] = "ERROR"
  /\ Cardinality(On(r, q)) = Len(kk.list[q]) - n

LEMMA ResumeRound ==
  ASSUME NEW kk, Lively(kk), NEW q \in Queue,
         NEW n \in 1 .. Len(kk.list[q]), NEW r, ResumedBy(kk, q, n - 1, r)
  PROVE  ResumedBy(kk, q, n, IpcResumeWithError(r, q))
<1> DEFINE h == Head(r.list[q])
           v == IpcResumeWithError(r, q)
<1>0. PICK W \in SUBSET On(kk, q) : Wakes(kk, r, W, W) /\ \A u \in W : r.err[u] = "ERROR"
  BY DEF ResumedBy
<1>1. Lively(r) /\ KernelOK(r) /\ KernelOK(kk) /\ r.current = kk.current
  BY DEF ResumedBy, Lively
<1>2. r \in KernelState /\ q \in ListId /\ kk \in KernelState
  BY <1>1, ListKinds DEF KernelOK
<1>3. /\ r.list[q] \in Seq(Thread) /\ IsInjective(r.list[q])
      /\ Len(kk.list[q]) \in Nat /\ Cardinality(On(r, q)) > 0
  <2>1. r.list[q] \in Seq(Thread) /\ kk.list[q] \in Seq(Thread)
    BY <1>2, ListType
  <2>2. IsInjective(r.list[q])
    BY <1>1, <1>2 DEF KernelOK, KernelConsistent, OneList
  <2> QED
    BY <2>1, <2>2 DEF ResumedBy
<1>4. r.list[q] # <<>>
  <2>1. Cardinality(On(r, q)) # 0
    BY <1>3
  <2>2. On(r, q) # {}
    BY <2>1, FS_EmptySet, Zenon
  <2> QED
    BY <1>2, <2>2, EmptyOn
<1>5. h \in Thread /\ r.stat[h] = "SUSPEND" /\ h \in On(r, q)
  BY <1>1, <1>4, FirstWaits
<1> HIDE DEF h
<1>6. /\ Wakes(r, v, {h}, {h}) /\ Lively(v) /\ v.err[h] = "ERROR" /\ v.current = r.current
  <2>1. v = Resume([r EXCEPT !.err[h] = "ERROR"], h)
    BY DEF IpcResumeWithError, h
  <2>2. "ERROR" \in Err
    BY DEF Err
  <2> HIDE DEF v
  <2> QED
    BY <1>1, <1>5, <2>1, <2>2, ResumeWithWakes
<1> HIDE DEF v
<1>7. Wakes(kk, v, W \cup {h}, W \cup {h})
  BY <1>0, <1>6, WakesTwice
<1>8. h \in On(kk, q) /\ On(v, q) = On(r, q) \ {h}
  BY <1>0, <1>5, <1>6 DEF Wakes
<1>9. \A u \in W \cup {h} : v.err[u] = "ERROR"
  BY <1>0, <1>6 DEF Wakes
<1>10. Cardinality(On(v, q)) = Len(kk.list[q]) - n
  <2>1. IsFiniteSet(On(r, q))
    BY <1>3, ListCounts DEF On
  <2>2. Cardinality(On(v, q)) = Cardinality(On(r, q)) - 1
    BY <1>5, <1>8, <2>1, FS_RemoveElement
  <2> QED
    BY <1>3, <2>2 DEF ResumedBy
<1> QED
  BY <1>1, <1>6, <1>7, <1>8, <1>9, <1>10 DEF ResumedBy, v

LEMMA ResumeAllWakes ==
  ASSUME NEW kk, Lively(kk), NEW q \in Queue
  PROVE  LET r == ResumeAll(kk, q)
         IN  /\ Wakes(kk, r, On(kk, q), On(kk, q)) /\ Lively(r) /\ r.current = kk.current
             /\ r.list[q] = <<>> /\ \A u \in On(kk, q) : r.err[u] = "ERROR"
<1> DEFINE N == Len(kk.list[q])
           f == CHOOSE g : ResumeRounds(kk, q, g)
           Bad == {n \in 0 .. N : ~ResumedBy(kk, q, n, f[n])}
           r == f[N]
<1>1. KernelOK(kk) /\ kk \in KernelState /\ q \in ListId
  BY ListKinds DEF Lively, KernelOK
<1>2. kk.list[q] \in Seq(Thread) /\ N \in Nat /\ IsInjective(kk.list[q])
  <2>1. kk.list[q] \in Seq(Thread)
    BY <1>1, ListType
  <2>2. IsInjective(kk.list[q])
    BY <1>1 DEF KernelOK, KernelConsistent, OneList
  <2> QED
    BY <2>1, <2>2
<1>3. ResumeRounds(kk, q, f)
  BY <1>2, ResumeRoundsExist
<1>4. ResumeAll(kk, q) = r
  BY DEF ResumeAll, ResumeRounds
<1> HIDE DEF f
<1>5. \A n \in 0 .. N : f[n] = IF n = 0 THEN kk ELSE IpcResumeWithError(f[n - 1], q)
  BY <1>3 DEF ResumeRounds
<1>6. ResumedBy(kk, q, 0, kk)
  <2>1. Cardinality(On(kk, q)) = N
    BY <1>2, ListCounts DEF On
  <2>2. Wakes(kk, kk, {}, {})
    BY DEF Wakes, Lively
  <2> QED
    BY <1>2, <2>1, <2>2 DEF ResumedBy
<1>7. Bad = {}
  <2>1. SUFFICES ASSUME Bad # {} PROVE FALSE
    OBVIOUS
  <2>2. Bad \in SUBSET Nat
    BY <1>2
  <2> DEFINE m == Min(Bad)
  <2>3. m \in Bad /\ \A j \in Bad : m <= j
    BY <2>1, <2>2, MinOfNat
  <2>4. m \in 0 .. N /\ ~ResumedBy(kk, q, m, f[m]) /\ (m # 0 => m - 1 \notin Bad)
    BY <1>2, <2>3
  <2> HIDE DEF m
  <2>5. m # 0
    BY <1>2, <1>5, <1>6, <2>4
  <2>6. m \in 1 .. N /\ m - 1 \in 0 .. N /\ ResumedBy(kk, q, m - 1, f[m - 1])
    BY <1>2, <2>4, <2>5
  <2>7. f[m] = IpcResumeWithError(f[m - 1], q)
    BY <1>5, <2>4, <2>5
  <2> QED
    BY <2>4, <2>6, <2>7, ResumeRound
<1>8. ResumedBy(kk, q, N, r)
  BY <1>2, <1>7
<1> HIDE DEF r, N
<1>9. PICK W \in SUBSET On(kk, q) : Wakes(kk, r, W, W) /\ \A u \in W : r.err[u] = "ERROR"
  BY <1>8 DEF ResumedBy
<1>10. /\ Lively(r) /\ r.current = kk.current /\ r.list[q] \in Seq(Thread)
       /\ r.list[q] = <<>> <=> On(r, q) = {}
       /\ IsFiniteSet(On(r, q)) /\ Cardinality(On(r, q)) = 0
  <2>1. Lively(r) /\ r.current = kk.current /\ Cardinality(On(r, q)) = 0
    BY <1>2, <1>8 DEF ResumedBy, N
  <2>2. r \in KernelState /\ IsInjective(r.list[q])
    BY <1>1, <2>1 DEF Lively, KernelOK, KernelConsistent, OneList
  <2>3. r.list[q] \in Seq(Thread)
    BY <1>1, <2>2, ListType
  <2> QED
    BY <1>1, <2>1, <2>2, <2>3, EmptyOn, ListCounts DEF On
<1>11. On(r, q) = {} /\ W = On(kk, q)
  BY <1>9, <1>10, FS_EmptySet DEF Wakes
<1> QED
  BY <1>4, <1>9, <1>10, <1>11

-----------------------------------------------------------------------------
(* The invariant is kept while waiters wake up and the current thread does  *)
(* or does not go on.                                                       *)
LEMMA SettledLively ==
  ASSUME NEW kk, NEW f, NEW g, Settled(kk, f, g)
  PROVE  Lively(kk) /\ KernelOK(kk) /\ kk \in KernelState /\ kk.current \in Thread
<1>1. KernelOK(kk) /\ kk \in KernelState
  BY DEF Settled, KernelOK
<1>2. kk.current \in Thread
  BY <1>1 DEF KernelState
<1> QED
  BY <1>1, <1>2, Kinds DEF Settled, Lively

LEMMA WakesSettled ==
  ASSUME NEW kk, NEW f, NEW g, Settled(kk, f, g),
         NEW r, NEW W, NEW E, Wakes(kk, r, W, E), Turns(kk, r),
         \A u \in E : u \in W \/ kk.stat[u] # "SUSPEND",
         NEW f2 \in [Thread -> Op \cup {"none"}], NEW g2 \in [Thread -> PC],
         \A u \in Thread : u # kk.current => f2[u] = f[u] /\ g2[u] = g[u],
         \A u \in Thread : kk.stat[u] = "SUSPEND" =>
           /\ f2[u] = f[u]
           /\ \/ g2[u] = g[u]
              \/ g[u] = "wait" /\ g2[u] = "woken"
              \/ RunsOn(g[u], g2[u]),
         r.stat[r.current] = "SUSPEND" => g2[r.current] \in {"wait", "asleep", "nap"},
         f2[Idle] = "none", g2[Idle] = "user",
         g2[TimerThread] \in Locked <=> g[TimerThread] \in Locked
  PROVE  Settled(r, f2, g2)
<1>1. /\ KernelOK(kk) /\ kk \in KernelState /\ kk.current \in Thread
      /\ KernelOK(r) /\ r.prio = BasePrio /\ r.lock = kk.lock
  BY SettledLively DEF Settled, Wakes
<1>2. ASSUME NEW u \in Thread, r.stat[u] = "SUSPEND" PROVE WaitsFor(r, f2, g2, u)
  <2>1. kk.stat[u] = "SUSPEND" /\ u \notin W /\ u \notin E
    BY <1>2 DEF Wakes
  <2>2. WaitsFor(kk, f, g, u)
    BY <2>1 DEF Settled
  <2>3. r.err[u] = kk.err[u] /\ (u \in r.armed <=> u \in kk.armed)
    BY <2>1 DEF Wakes
  <2>4. CASE f[u] \in WaitOp
    <3>1. WaitList(f[u]) \in Queue
      BY <2>4, WaitListOf
    <3>2. u \in On(kk, WaitList(f[u])) => u \in On(r, WaitList(f[u]))
      BY <2>1, <3>1 DEF Wakes
    <3> QED
      BY <2>1, <2>2, <2>3, <2>4, <3>2 DEF WaitsFor
  <2>5. CASE f[u] \notin WaitOp
    BY <2>1, <2>2, <2>3, <2>5 DEF WaitsFor
  <2> QED
    BY <2>4, <2>5
<1>3. ASSUME NEW q \in Queue, NEW u \in On(r, q) PROVE f2[u] \in WaitOp
  <2>1. u \in On(kk, q)
    BY <1>3 DEF Wakes
  <2>2. u \in Thread /\ kk.stat[u] = "SUSPEND"
    BY <1>1, <2>1, ListType, ListKinds DEF KernelOK, KernelConsistent, WaitersSuspended
  <2> QED
    BY <2>1, <2>2 DEF Settled
<1>4. ASSUME NEW u \in Thread, f2[u] \in HeapOp PROVE u \notin r.armed
  <2>1. SUFFICES ASSUME u \in r.armed PROVE FALSE
    OBVIOUS
  <2>2. u \in kk.armed
    BY <2>1 DEF Wakes
  <2>3. kk.stat[u] = "SUSPEND"
    BY <1>1, <2>2 DEF KernelOK, KernelConsistent, TimersForSuspended
  <2> QED
    BY <1>4, <2>2, <2>3 DEF Settled
<1>5. \A u \in Thread : r.stat[u] \in Living
  BY DEF Wakes
<1>6. r.stat[Idle] # "SUSPEND"
  BY Kinds DEF Settled, Wakes
<1>7. /\ r.lock = IF g2[TimerThread] \in Locked THEN 1 ELSE 0
      /\ g2[TimerThread] \in Locked => r.current = TimerThread
  BY <1>1 DEF Settled, Turns
<1> QED
  BY <1>1, <1>2, <1>3, <1>4, <1>5, <1>6, <1>7 DEF Settled

(* The current thread, awake, goes to the place a of the operation o. *)
LEMMA GoingOnSettled ==
  ASSUME NEW kk, NEW f, NEW g, Settled(kk, f, g),
         NEW r, NEW W, NEW E, Wakes(kk, r, W, E), Turns(kk, r),
         NEW t, t = kk.current, kk.stat[t] # "SUSPEND", t # Idle,
         \A u \in E : u \in W \/ u = t,
         NEW o \in Op \cup {"none"}, NEW a \in PC, g[t] \notin Locked, a \notin Locked
  PROVE  Settled(r, [f EXCEPT ![t] = o], [g EXCEPT ![t] = a])
<1> DEFINE f2 == [f EXCEPT ![t] = o]
           g2 == [g EXCEPT ![t] = a]
<1>1. /\ f \in [Thread -> Op \cup {"none"}] /\ g \in [Thread -> PC]
      /\ f[Idle] = "none" /\ g[Idle] = "user" /\ t \in Thread
  BY SettledLively DEF Settled
<1>2. /\ f2 \in [Thread -> Op \cup {"none"}] /\ g2 \in [Thread -> PC]
      /\ f2[Idle] = "none" /\ g2[Idle] = "user"
      /\ g2[TimerThread] \in Locked <=> g[TimerThread] \in Locked
      /\ \A u \in Thread : u # kk.current => f2[u] = f[u] /\ g2[u] = g[u]
  BY <1>1, Kinds
<1> HIDE DEF f2, g2
<1>3. r.stat[r.current] # "SUSPEND"
  BY <1>1 DEF Turns, Wakes
<1>4. \A u \in Thread : kk.stat[u] = "SUSPEND" => f2[u] = f[u] /\ g2[u] = g[u]
  BY <1>2
<1>5. \A u \in E : u \in W \/ kk.stat[u] # "SUSPEND"
  OBVIOUS
<1>6. \A u \in Thread : kk.stat[u] = "SUSPEND" =>
        /\ f2[u] = f[u]
        /\ \/ g2[u] = g[u]
           \/ g[u] = "wait" /\ g2[u] = "woken"
           \/ RunsOn(g[u], g2[u])
  BY <1>4
<1>7. r.stat[r.current] = "SUSPEND" => g2[r.current] \in {"wait", "asleep", "nap"}
  BY <1>3
<1>8. Settled(r, f2, g2)
  BY <1>2, <1>5, <1>6, <1>7, WakesSettled
<1> QED
  BY <1>8 DEF f2, g2

LEMMA StayingSettled ==
  ASSUME NEW kk, NEW f, NEW g, Settled(kk, f, g),
         NEW r, NEW W, Wakes(kk, r, W, W), Turns(kk, r)
  PROVE  Settled(r, f, g)
<1>1. /\ f \in [Thread -> Op \cup {"none"}] /\ g \in [Thread -> PC]
      /\ f[Idle] = "none" /\ g[Idle] = "user" /\ kk.current \in Thread
      /\ kk.stat[kk.current] = "SUSPEND" => g[kk.current] \in {"wait", "asleep", "nap"}
  BY SettledLively DEF Settled
<1>2. r.stat[r.current] = "SUSPEND" => g[r.current] \in {"wait", "asleep", "nap"}
  BY <1>1 DEF Turns, Wakes
<1>3. /\ \A u \in W : u \in W \/ kk.stat[u] # "SUSPEND"
      /\ \A u \in Thread : u # kk.current => f[u] = f[u] /\ g[u] = g[u]
  OBVIOUS
<1>4. \A u \in Thread : kk.stat[u] = "SUSPEND" =>
        /\ f[u] = f[u]
        /\ \/ g[u] = g[u]
           \/ g[u] = "wait" /\ g[u] = "woken"
           \/ RunsOn(g[u], g[u])
  OBVIOUS
<1> QED
  BY <1>1, <1>2, <1>3, <1>4, WakesSettled

(* The rt_schedule of a thread that may have gone to sleep *)
LEMMA SwitchSettled ==
  ASSUME NEW kk, NEW f, NEW g, Settled(kk, f, g), NEW t, t = kk.current, t # Idle,
         NEW a, \/ g[t] = "wait" /\ a = "woken"
                \/ RunsOn(g[t], a)
  PROVE  Settled(Schedule(kk), f, [g EXCEPT ![t] = a])
<1> DEFINE r == Schedule(kk)
           g2 == [g EXCEPT ![t] = a]
<1>1. /\ f \in [Thread -> Op \cup {"none"}] /\ g \in [Thread -> PC]
      /\ f[Idle] = "none" /\ g[Idle] = "user" /\ t \in Thread /\ a \in PC
      /\ g[TimerThread] \in Locked => kk.current = TimerThread
  BY SettledLively DEF Settled, PC
<1>2. g[TimerThread] \notin Locked
  BY <1>1
<1>3. kk.lock = 0
  BY <1>2 DEF Settled
<1>4. /\ Wakes(kk, r, {}, {}) /\ Turns(kk, r) /\ r.stat[r.current] = "RUNNING"
  BY <1>3, SettledLively, ScheduleWakes
<1>5. /\ g2 \in [Thread -> PC] /\ g2[Idle] = "user" /\ g2[TimerThread] \notin Locked
      /\ \A u \in Thread : u # t => g2[u] = g[u]
      /\ g2[t] = a
  BY <1>1, <1>2, Kinds
<1> HIDE DEF r, g2
<1>6. /\ \A u \in {} : u \in {} \/ kk.stat[u] # "SUSPEND"
      /\ \A u \in Thread : u # kk.current => f[u] = f[u] /\ g2[u] = g[u]
      /\ g2[TimerThread] \in Locked <=> g[TimerThread] \in Locked
      /\ r.stat[r.current] = "SUSPEND" => g2[r.current] \in {"wait", "asleep", "nap"}
  BY <1>2, <1>4, <1>5
<1>7. \A u \in Thread : kk.stat[u] = "SUSPEND" =>
        /\ f[u] = f[u]
        /\ \/ g2[u] = g[u]
           \/ g[u] = "wait" /\ g2[u] = "woken"
           \/ RunsOn(g[u], g2[u])
  BY <1>5
<1>8. Settled(r, f, g2)
  BY <1>1, <1>4, <1>5, <1>6, <1>7, WakesSettled
<1> QED
  BY <1>8 DEF r, g2

(* The current thread goes to sleep. *)
LEMMA SleepingSettled ==
  ASSUME NEW kk, NEW f, NEW g, Settled(kk, f, g), NEW t, t = kk.current, t # Idle,
         kk.stat[t] # "SUSPEND", g[t] \notin Locked,
         NEW r, NEW q, Sleeps(kk, r, t, q),
         NEW o \in Op, NEW a \in {"wait", "asleep", "nap"},
         \/ o \in WaitOp /\ q = WaitList(o) /\ a = "wait" /\ r.err[t] = "EOK"
              /\ (o \in HeapOp => t \notin r.armed)
         \/ o = "delay" /\ q = Defunct /\ a = "wait" /\ t \in r.armed
         \/ o = "timer_entry" /\ q = Defunct /\ a \in {"asleep", "nap"} /\ t = TimerThread
  PROVE  Settled(r, [f EXCEPT ![t] = o], [g EXCEPT ![t] = a])
<1> DEFINE f2 == [f EXCEPT ![t] = o]
           g2 == [g EXCEPT ![t] = a]
<1>1. /\ f \in [Thread -> Op \cup {"none"}] /\ g \in [Thread -> PC]
      /\ f[Idle] = "none" /\ g[Idle] = "user" /\ t \in Thread
      /\ KernelOK(kk) /\ kk \in KernelState
  BY SettledLively DEF Settled
<1>2. /\ f2 \in [Thread -> Op \cup {"none"}] /\ g2 \in [Thread -> PC]
      /\ f2[Idle] = "none" /\ g2[Idle] = "user"
      /\ g2[TimerThread] \in Locked <=> g[TimerThread] \in Locked
      /\ \A u \in Thread : u # t => f2[u] = f[u] /\ g2[u] = g[u]
      /\ f2[t] = o /\ g2[t] = a
  BY <1>1, Kinds DEF PC
<1> HIDE DEF f2, g2
<1>3. ASSUME NEW u \in Thread, r.stat[u] = "SUSPEND" PROVE WaitsFor(r, f2, g2, u)
  <2>1. CASE u = t
    <3>1. CASE o \in WaitOp /\ q = WaitList(o) /\ a = "wait" /\ r.err[t] = "EOK"
      <4>1. q \in Queue
        BY <3>1, WaitListOf
      <4>2. t \in On(r, q)
        BY <4>1 DEF Sleeps
      <4> QED
        BY <1>2, <2>1, <3>1, <4>2 DEF WaitsFor
    <3>2. CASE o = "delay" /\ q = Defunct /\ a = "wait" /\ t \in r.armed
      BY <1>2, <2>1, <3>2 DEF WaitsFor
    <3>3. CASE o = "timer_entry" /\ q = Defunct /\ a \in {"asleep", "nap"} /\ t = TimerThread
      BY <1>2, <2>1, <3>3 DEF WaitsFor
    <3> QED
      BY <3>1, <3>2, <3>3
  <2>2. CASE u # t
    <3>1. kk.stat[u] = "SUSPEND" /\ r.err[u] = kk.err[u] /\ (u \in r.armed <=> u \in kk.armed)
      BY <1>3, <2>2 DEF Sleeps
    <3>2. WaitsFor(kk, f, g, u)
      BY <3>1 DEF Settled
    <3>3. f[u] \in WaitOp /\ u \in On(kk, WaitList(f[u])) => u \in On(r, WaitList(f[u]))
      BY WaitListOf DEF Sleeps
    <3> QED
      BY <1>2, <2>2, <3>1, <3>2, <3>3 DEF WaitsFor
  <2> QED
    BY <2>1, <2>2
<1>4. ASSUME NEW p \in Queue, NEW u \in On(r, p) PROVE f2[u] \in WaitOp
  <2>0. p # Defunct /\ (u \in On(kk, p) => u \in Thread /\ kk.stat[u] = "SUSPEND")
    BY <1>1, ListType, ListKinds DEF KernelOK, KernelConsistent, WaitersSuspended
  <2>1. CASE u \in On(kk, p)
    BY <1>2, <2>0, <2>1 DEF Settled
  <2>2. CASE u \notin On(kk, p)
    <3>1. p = q /\ u = t
      BY <2>2 DEF Sleeps
    <3> QED
      BY <1>2, <2>0, <3>1
  <2> QED
    BY <2>1, <2>2
<1>5. ASSUME NEW u \in Thread, f2[u] \in HeapOp PROVE u \notin r.armed
  <2>1. CASE u = t
    BY <1>2, <1>5, <2>1 DEF HeapOp
  <2>2. CASE u # t
    BY <1>2, <1>5, <2>2 DEF Settled, Sleeps
  <2> QED
    BY <2>1, <2>2
<1>6. /\ KernelOK(r) /\ r.prio = BasePrio /\ r.lock = kk.lock /\ r.current = t
      /\ \A u \in Thread : r.stat[u] \in Living
      /\ r.stat[Idle] # "SUSPEND"
  BY Kinds DEF Settled, Sleeps
<1>7. /\ r.lock = IF g2[TimerThread] \in Locked THEN 1 ELSE 0
      /\ g2[TimerThread] \in Locked => r.current = TimerThread
  BY <1>2, <1>6 DEF Settled
<1>8. Settled(r, f2, g2)
  BY <1>2, <1>3, <1>4, <1>5, <1>6, <1>7 DEF Settled
<1> QED
  BY <1>8 DEF f2, g2


-----------------------------------------------------------------------------
(* The most urgent ready thread runs after the step. *)
Runners == k'.stat[k'.current] = "RUNNING" /\ Preempted(k')

(* The thread t takes the sleeping timer thread u off its timer. *)
Disarms(t, u) == /\ u = TimerThread /\ k.stat[u] = "SUSPEND" /\ u \notin k'.armed
                 /\ t \in Thread /\ op[t] = "timer_start" /\ pc[t] = "unlink"

(* What a step does to the rest: at most the thread t goes to another       *)
(* place, the threads W wake up, and others only take turns.                *)
Effect(t, W) ==
  /\ CallInv' /\ prog' = prog
  /\ k'.current = k.current \/ Runners
  /\ t \in Thread /\ pc[t] = "sched" => Runners
  /\ \A u \in Thread \ {t} :
       /\ op'[u] = op[u] /\ pc'[u] = pc[u]
       /\ k'.stat[u] = "SUSPEND" <=> k.stat[u] = "SUSPEND" /\ u \notin W
       /\ u \notin W => /\ k'.err[u] = k.err[u]
                       /\ \/ u \in k'.armed <=> u \in k.armed
                          \/ Disarms(t, u)
  /\ \A u \in W : u \in Thread \ {t} /\ k.stat[u] = "SUSPEND"
  /\ \A q \in Queue : t \notin On(k, q) /\ On(k', q) \ {t} = On(k, q) \ W

(* What no step does *)
Steady == /\ prog' = prog /\ alive' \subseteq alive
        /\ timed' \in [Thread -> BOOLEAN]

(* What t may be inside after a step *)
MayDo(t, o) ==
  \/ o \in {"none", op[t]} \cup prog.uses[t]
  \/ o \in HeapOp /\ (op[t] \in HeapOp \/ prog.uses[t] \cap HeapOp # {})

LEMMA UsedGoesOn ==
  ASSUME CallInv, NEW t \in Thread, NEW o, MayDo(t, o), Steady,
         op' = [op EXCEPT ![t] = o]
  PROVE  /\ prog' \in Programs /\ Used(op)'
         /\ alive' \subseteq Object /\ timed' \in [Thread -> BOOLEAN]
<1>1. op \in [Thread -> Op \cup {"none"}] /\ Used(op) /\ prog \in Programs
  BY DEF CallInv, Settled
<1>2. ASSUME NEW u \in Thread
      PROVE  \/ op'[u] \in prog.uses[u] \cup {"none"}
             \/ op'[u] \in HeapOp /\ prog.uses[u] \cap HeapOp # {}
  <2>1. CASE u = t
    <3>1. op'[t] = o
      BY <1>1
    <3>2. \/ op[t] \in prog.uses[t] \cup {"none"}
          \/ op[t] \in HeapOp /\ prog.uses[t] \cap HeapOp # {}
      BY <1>1 DEF Used
    <3>3. \/ o \in prog.uses[t] \cup {"none"}
          \/ o \in HeapOp /\ prog.uses[t] \cap HeapOp # {}
          \/ o = op[t]
          \/ o \in HeapOp /\ op[t] \in HeapOp
      BY DEF MayDo
    <3>4. "none" \notin HeapOp /\ HeapOp \cap prog.uses[t] = prog.uses[t] \cap HeapOp
      BY DEF HeapOp
    <3>5. \/ o \in prog.uses[t] \cup {"none"}
          \/ o \in HeapOp /\ prog.uses[t] \cap HeapOp # {}
      <4>1. CASE op[t] \in HeapOp
        <5>1. prog.uses[t] \cap HeapOp # {}
          BY <3>2, <3>4, <4>1
        <5> QED
          BY <3>2, <3>3, <5>1
      <4>2. CASE op[t] \notin HeapOp
        BY <3>2, <3>3, <4>2
      <4> QED
        BY <4>1, <4>2
    <3> QED
      BY <2>1, <3>1, <3>5
  <2>2. CASE u # t
    BY <1>1, <2>2 DEF Used
  <2> QED
    BY <2>1, <2>2
<1> QED
  BY <1>1, <1>2 DEF Used, Steady, CallInv

LEMMA CurrentAwake ==
  ASSUME CallInv
  PROVE  /\ k.current \in Thread /\ k \in KernelState /\ Lively(k) /\ KernelOK(k)
         /\ pc[k.current] \notin {"wait", "asleep", "nap"} =>
              k.stat[k.current] = "RUNNING" /\ k.stat[k.current] # "SUSPEND"
         /\ pc[k.current] # "user" => k.current # Idle
         /\ pc[k.current] \notin Locked => k.lock = 0 /\ pc[TimerThread] \notin Locked
         /\ \A q \in Queue : k.stat[k.current] # "SUSPEND" => k.current \notin On(k, q)
<1>1. Settled(k, op, pc)
  BY DEF CallInv
<1>2. /\ k.current \in Thread /\ k \in KernelState /\ Lively(k) /\ KernelOK(k)
  BY <1>1, SettledLively
<1>3. k.stat[k.current] # "SUSPEND" => k.stat[k.current] = "RUNNING"
  BY <1>1, <1>2 DEF Settled, Living, KernelOK, KernelConsistent, RunningIsCurrent
<1> QED
  BY <1>1, <1>2, <1>3 DEF Settled, KernelOK, KernelConsistent, WaitersSuspended

(* Whoever calls or is awake inside a call is not the idle thread. *)
LEMMA CallerAwake ==
  ASSUME CallInv, NEW t \in Thread, NEW o, NEW x, Calls(t, o, x)
  PROVE  /\ t = k.current /\ t # Idle /\ k.stat[t] = "RUNNING" /\ pc[t] = "user"
         /\ o \in prog.uses[t] /\ o \in Op
<1>1. prog \in Programs /\ prog.uses[Idle] = {} /\ prog.uses \in [Thread \cup {Isr} -> SUBSET Op]
  BY SystemAssumption DEF CallInv
<1> QED
  BY <1>1 DEF Calls

(* The current thread t goes on to the place a of o. *)
LEMMA ActEffect ==
  ASSUME CallInv, NEW t \in Thread, t = k.current, t # Idle,
         pc[t] \notin {"wait", "asleep", "nap"} \cup Locked,
         NEW o \in Op \cup {"none"}, NEW a \in PC, a \notin Locked, MayDo(t, o),
         op' = [op EXCEPT ![t] = o], pc' = [pc EXCEPT ![t] = a], Steady,
         NEW W, NEW E, Wakes(k, k', W, E), Turns(k, k'),
         \A u \in E : u \in W \/ u = t, pc[t] = "sched" => Runners
  PROVE  Effect(t, W) /\ op'[t] = o /\ pc'[t] = a
<1>1. /\ Settled(k, op, pc) /\ k.stat[t] # "SUSPEND" /\ Lively(k)
      /\ op \in [Thread -> Op \cup {"none"}] /\ pc \in [Thread -> PC]
      /\ \A q \in Queue : t \notin On(k, q)
  BY CurrentAwake DEF CallInv, Settled
<1>2. Settled(k', [op EXCEPT ![t] = o], [pc EXCEPT ![t] = a])
  BY <1>1, GoingOnSettled
<1>3. Settled(k', op', pc')
  BY <1>2
<1>4. CallInv'
  BY <1>3, UsedGoesOn DEF CallInv
<1>5. \A u \in Thread \ {t} :
        /\ op'[u] = op[u] /\ pc'[u] = pc[u]
        /\ k'.stat[u] = "SUSPEND" <=> k.stat[u] = "SUSPEND" /\ u \notin W
        /\ u \notin W => k'.err[u] = k.err[u] /\ (u \in k'.armed <=> u \in k.armed)
  BY <1>1 DEF Wakes
<1>6. /\ \A u \in W : u \in Thread \ {t} /\ k.stat[u] = "SUSPEND"
      /\ \A q \in Queue : On(k', q) \ {t} = On(k, q) \ W
  BY <1>1 DEF Wakes
<1>7. k'.current = k.current \/ Runners
  BY DEF Turns, Runners
<1> QED
  BY <1>1, <1>4, <1>5, <1>6, <1>7 DEF Effect, Steady

(* No thread goes on: an interrupt handler *)
LEMMA StayEffect ==
  ASSUME CallInv, op' = op, pc' = pc, Steady,
         NEW W, Wakes(k, k', W, W), Turns(k, k')
  PROVE  Effect(Isr, W)
<1>1. Settled(k, op, pc) /\ prog \in Programs /\ Used(op)
  BY DEF CallInv
<1>2. Settled(k', op, pc)
  BY <1>1, StayingSettled
<1>3. CallInv'
  BY <1>1, <1>2 DEF CallInv, Used, Steady
<1>4. Isr \notin Thread /\ \A q \in Queue : On(k, q) \subseteq Thread
  <2>1. k \in KernelState
    BY CurrentAwake
  <2> QED
    BY <2>1, ListType, ListKinds, SystemAssumption DEF On
<1> QED
  BY <1>3, <1>4 DEF Effect, Wakes, Turns, Steady, Runners

LEMMA SleepEffect ==
  ASSUME CallInv, NEW t \in Thread, t = k.current, t # Idle,
         pc[t] \notin {"wait", "asleep", "nap", "sched"} \cup Locked,
         NEW q, Sleeps(k, k', t, q), NEW o \in Op, NEW a \in {"wait", "asleep", "nap"},
         op' = [op EXCEPT ![t] = o], pc' = [pc EXCEPT ![t] = a], Steady,
         MayDo(t, o),
         \/ o \in WaitOp /\ q = WaitList(o) /\ a = "wait" /\ k'.err[t] = "EOK"
              /\ (o \in HeapOp => t \notin k'.armed)
         \/ o = "delay" /\ q = Defunct /\ a = "wait" /\ t \in k'.armed
         \/ o = "timer_entry" /\ q = Defunct /\ a \in {"asleep", "nap"} /\ t = TimerThread
  PROVE  Effect(t, {}) /\ op'[t] = o /\ pc'[t] = a
<1>1. /\ Settled(k, op, pc) /\ k.stat[t] # "SUSPEND" /\ Lively(k)
      /\ op \in [Thread -> Op \cup {"none"}] /\ pc \in [Thread -> PC]
      /\ \A p \in Queue : t \notin On(k, p)
  BY CurrentAwake DEF CallInv, Settled
<1>2. Settled(k', [op EXCEPT ![t] = o], [pc EXCEPT ![t] = a])
  BY <1>1, SleepingSettled
<1>3. Settled(k', op', pc')
  BY <1>2
<1>4. CallInv'
  BY <1>3, UsedGoesOn DEF CallInv
<1> QED
  BY <1>1, <1>4 DEF Effect, Sleeps, Steady

LEMMA SwitchEffect ==
  ASSUME CallInv, NEW t \in Thread, t = k.current, NEW a \in PC,
         \/ pc[t] = "wait" /\ a = "woken"
         \/ RunsOn(pc[t], a),
         k' = Schedule(k), op' = op, pc' = [pc EXCEPT ![t] = a], Steady
  PROVE  /\ CallInv' /\ Wakes(k, k', {}, {}) /\ Turns(k, k')
         /\ pc'[t] = a /\ \A u \in Thread \ {t} : pc'[u] = pc[u]
<1>1. /\ Settled(k, op, pc) /\ prog \in Programs /\ Used(op)
      /\ t # Idle /\ pc \in [Thread -> PC] /\ Lively(k)
  BY CurrentAwake DEF CallInv, Settled
<1>2. Settled(k', op, [pc EXCEPT ![t] = a])
  BY <1>1, SwitchSettled
<1>3. CallInv'
  BY <1>1, <1>2 DEF CallInv, Used, Steady
<1>4. Wakes(k, k', {}, {}) /\ Turns(k, k')
  BY <1>1, ScheduleWakes
<1> QED
  BY <1>1, <1>3, <1>4

-----------------------------------------------------------------------------
(* Where the current thread t is, before and after: inside the operations O *)
(* or outside of them, and not at the places that only those of the soft    *)
(* timers and the heap have                                                 *)
Outer == {"user", "sched"}
StPlaces ==
  {"insert", "wake", "resume_test", "unlink", "ready", "remove", "flag",
   "next", "suspend", "delay", "asleep", "check", "func", "f_insert", "f_remove", "f_flag",
   "nap", "napped"} \cup Locked
HeapPlaces == {"critical", "release", "resched", "again"}
Special == StPlaces \cup HeapPlaces

Within(t, O) ==
  t \in Thread => /\ op[t] \in O \/ pc[t] \in Outer
                  /\ op'[t] \in O \/ pc'[t] \in Outer

Plain(t) == t \in Thread => pc[t] \notin Special /\ pc'[t] \notin Special

(* A waiter that wakes up without the heap, and without events; the timer   *)
(* thread, when its time is up, which runs at once unless something as      *)
(* urgent does                                                              *)
Stirred(u) ==
  /\ op[u] \notin HeapOp /\ (op[u] = "event_recv" => k'.err[u] # "EOK")
  /\ op[u] = "timer_entry" => u \in k.armed /\ Runners

Moves(t, W, O) ==
  /\ Effect(t, W) /\ Within(t, O) /\ Plain(t)
  /\ \A u \in W : Stirred(u)

LEMMA WaiterAt ==
  ASSUME NEW kk, NEW f, NEW g, Settled(kk, f, g), NEW q \in Queue, NEW u \in On(kk, q)
  PROVE  /\ u \in Thread /\ kk.stat[u] = "SUSPEND" /\ kk.err[u] = "EOK"
         /\ f[u] \in WaitOp /\ WaitList(f[u]) = q /\ g[u] \in {"wait", "woken"}
<1>1. KernelOK(kk) /\ kk \in KernelState
  BY SettledLively
<1>2. u \in Thread /\ kk.stat[u] = "SUSPEND" /\ f[u] \in WaitOp
  BY <1>1, ListType, ListKinds DEF Settled, KernelOK, KernelConsistent, WaitersSuspended
<1>3. WaitsFor(kk, f, g, u)
  BY <1>2 DEF Settled
<1>4. kk.err[u] = "EOK" /\ u \in On(kk, WaitList(f[u])) /\ g[u] \in {"wait", "woken"}
  BY <1>2, <1>3 DEF WaitsFor, WaitOp, HeapOp
<1>5. WaitList(f[u]) \in ListId /\ q \in ListId
  BY <1>2, WaitListOf, ListKinds
<1>6. WaitList(f[u]) = q
  BY <1>1, <1>4, <1>5 DEF KernelOK, KernelConsistent, OneList
<1> QED
  BY <1>2, <1>4, <1>6

(* Before and after a step *)
LEMMA Waiter ==
  ASSUME CallInv, NEW q \in Queue, NEW u \in On(k, q)
  PROVE  /\ u \in Thread /\ k.stat[u] = "SUSPEND" /\ k.err[u] = "EOK"
         /\ op[u] \in WaitOp /\ WaitList(op[u]) = q /\ pc[u] \in {"wait", "woken"}
<1>1. Settled(k, op, pc)
  BY DEF CallInv
<1> QED
  BY <1>1, WaiterAt

LEMMA WaiterAfter ==
  ASSUME CallInv', NEW q \in Queue, NEW u \in On(k', q)
  PROVE  /\ u \in Thread /\ k'.stat[u] = "SUSPEND" /\ k'.err[u] = "EOK"
         /\ op'[u] \in WaitOp /\ WaitList(op'[u]) = q /\ pc'[u] \in {"wait", "woken"}
<1>1. Settled(k', op', pc')
  BY DEF CallInv
<1> QED
  BY <1>1, WaiterAt

LEMMA ListsOf ==
  ASSUME CallInv, NEW q \in Queue
  PROVE  /\ k.list[q] \in Seq(Thread) /\ IsInjective(k.list[q])
         /\ k.list[q] = <<>> <=> On(k, q) = {}
         /\ IsFiniteSet(On(k, q)) /\ Cardinality(On(k, q)) = Len(k.list[q])
<1>1. k \in KernelState /\ KernelOK(k) /\ q \in ListId
  BY CurrentAwake, ListKinds
<1>2. k.list[q] \in Seq(Thread) /\ IsInjective(k.list[q])
  BY <1>1, ListType DEF KernelOK, KernelConsistent, OneList
<1> QED
  BY <1>1, <1>2, EmptyOn, ListCounts DEF On

LEMMA ListsAfter ==
  ASSUME CallInv', NEW q \in Queue
  PROVE  /\ k'.list[q] = <<>> <=> On(k', q) = {}
         /\ IsFiniteSet(On(k', q)) /\ Cardinality(On(k', q)) = Len(k'.list[q])
<1>1. Settled(k', op', pc')
  BY DEF CallInv
<1>2. k' \in KernelState /\ KernelOK(k') /\ q \in ListId
  BY <1>1, SettledLively, ListKinds
<1>3. k'.list[q] \in Seq(Thread) /\ IsInjective(k'.list[q])
  BY <1>2, ListType DEF KernelOK, KernelConsistent, OneList
<1> QED
  BY <1>2, <1>3, EmptyOn, ListCounts DEF On

(* The waiters of other operations *)
LEMMA WokenStay ==
  ASSUME NEW t, NEW W, NEW O, Effect(t, W), Within(t, O), NEW o, o \notin O
  PROVE  Woken(o) \subseteq Woken(o)'
<1> SUFFICES ASSUME NEW u \in Woken(o) PROVE u \in Woken(o)'
  OBVIOUS
<1>1. /\ u \in Thread /\ op[u] = o /\ pc[u] \in {"wait", "woken"}
      /\ k.stat[u] # "SUSPEND" /\ k.err[u] = "EOK"
  BY DEF Woken
<1>2. u # t /\ u \notin W
  BY <1>1 DEF Effect, Within, Outer
<1> QED
  BY <1>1, <1>2 DEF Effect, Woken

LEMMA ListsShrink ==
  ASSUME NEW t, NEW W, NEW O, Effect(t, W), Within(t, O), NEW q \in Queue,
         \A o \in O \cap WaitOp : WaitList(o) # q
  PROVE  On(k', q) \subseteq On(k, q)
<1> SUFFICES ASSUME NEW u \in On(k', q) PROVE u \in On(k, q)
  OBVIOUS
<1>1. /\ u \in Thread
      /\ op'[u] \in WaitOp /\ WaitList(op'[u]) = q /\ pc'[u] \in {"wait", "woken"}
  BY WaiterAfter DEF Effect
<1>2. u # t
  BY <1>1 DEF Within, Outer
<1> QED
  BY <1>2 DEF Effect

LEMMA WokenFinite ==
  ASSUME NEW o
  PROVE  /\ IsFiniteSet(Woken(o)) /\ Cardinality(Woken(o)) \in Nat
         /\ IsFiniteSet(Woken(o)') /\ Cardinality(Woken(o)') \in Nat
<1>1. Woken(o) \subseteq Thread /\ Woken(o)' \subseteq Thread
  BY DEF Woken
<1>2. IsFiniteSet(Woken(o)) /\ IsFiniteSet(Woken(o)')
  BY <1>1, Kinds, FS_Subset
<1> QED
  BY <1>2, FS_CardinalityType

(* A supply of n things, of which there are m after the step: more only if  *)
(* somebody else is woken for it, and less if a thread takes one.           *)
LEMMA SupplyKept ==
  ASSUME CallInv, CallInv', NEW q \in Queue, NEW o, NEW n \in Nat, NEW m \in Nat,
         On(k', q) \subseteq On(k, q),
         k.list[q] # <<>> => n <= Cardinality(Woken(o)),
         \/ m <= n /\ Woken(o) \subseteq Woken(o)'
         \/ /\ m <= n + 1 /\ Woken(o) \subseteq Woken(o)'
            /\ k.list[q] # <<>> => \E h \in Woken(o)' : h \notin Woken(o)
         \/ m + 1 <= n /\ \E t : Woken(o) \ {t} \subseteq Woken(o)'
  PROVE  k'.list[q] # <<>> => m <= Cardinality(Woken(o)')
<1> DEFINE A == Woken(o)
           B == Woken(o)'
<1>1. SUFFICES ASSUME k'.list[q] # <<>> PROVE m <= Cardinality(B)
  OBVIOUS
<1>2. /\ IsFiniteSet(A) /\ Cardinality(A) \in Nat
      /\ IsFiniteSet(B) /\ Cardinality(B) \in Nat
  BY WokenFinite
<1>3. k.list[q] # <<>> /\ n <= Cardinality(A)
  BY <1>1, ListsOf, ListsAfter
<1> HIDE DEF A, B
<1>4. CASE m <= n /\ A \subseteq B
  <2>1. Cardinality(A) <= Cardinality(B)
    BY <1>2, <1>4, FS_Subset
  <2> QED
    BY <1>2, <1>3, <1>4, <2>1
<1>5. CASE m <= n + 1 /\ A \subseteq B /\ \E h \in B : h \notin A
  <2>1. PICK h \in B : h \notin A
    BY <1>5
  <2>2. IsFiniteSet(A \cup {h}) /\ Cardinality(A \cup {h}) = Cardinality(A) + 1
    BY <1>2, <2>1, FS_AddElement
  <2>3. A \cup {h} \subseteq B
    BY <1>5, <2>1
  <2>4. Cardinality(A \cup {h}) <= Cardinality(B)
    BY <1>2, <2>3, FS_Subset
  <2> QED
    BY <1>2, <1>3, <1>5, <2>2, <2>4
<1>6. CASE m + 1 <= n /\ \E t : A \ {t} \subseteq B
  <2>1. PICK t : A \ {t} \subseteq B
    BY <1>6
  <2>2. IsFiniteSet(A \ {t}) /\ Cardinality(A \ {t}) + 1 >= Cardinality(A)
        /\ Cardinality(A \ {t}) \in Nat
    <3>1. /\ IsFiniteSet(A \ {t})
          /\ Cardinality(A \ {t}) = IF t \in A THEN Cardinality(A) - 1 ELSE Cardinality(A)
      BY <1>2, FS_RemoveElement
    <3>2. Cardinality(A \ {t}) \in Nat
      BY <3>1, FS_CardinalityType
    <3> QED
      BY <1>2, <3>1, <3>2
  <2>3. Cardinality(A \ {t}) <= Cardinality(B)
    BY <1>2, <2>1, FS_Subset
  <2> QED
    BY <1>2, <1>3, <1>6, <2>2, <2>3
<1> QED
  BY <1>3, <1>4, <1>5, <1>6 DEF A, B

-----------------------------------------------------------------------------
(* The ways in which the actions of the objects move a thread *)
LEMMA NothingWakes ==
  ASSUME NEW kk, Lively(kk)
  PROVE  Wakes(kk, kk, {}, {}) /\ Turns(kk, kk)
BY DEF Lively, Wakes, Turns

(* The current thread t is at a place where it can go on from. *)
Runs(t) ==
  /\ t \in Thread /\ t = k.current /\ t # Idle
  /\ pc[t] \notin {"wait", "sched"} \cup Special

LEMMA CallRuns ==
  ASSUME CallInv, NEW t \in Thread, NEW o, NEW x, Calls(t, o, x)
  PROVE  Runs(t) /\ pc[t] = "user" /\ o \in Op /\ MayDo(t, o) /\ k.stat[t] = "RUNNING"
BY CallerAwake DEF Runs, Special, StPlaces, HeapPlaces, MayDo

LEMMA AtRuns ==
  ASSUME CallInv, NEW t \in Thread, NEW o, NEW a, At(t, o, a),
         a \notin {"user", "wait", "sched"} \cup Special
  PROVE  Runs(t) /\ op[t] = o /\ pc[t] = a /\ MayDo(t, o) /\ k.stat[t] = "RUNNING"
BY CurrentAwake DEF Runs, At, MayDo, Special, StPlaces, HeapPlaces

LEMMA LoopRuns ==
  ASSUME CallInv, NEW t \in Thread, NEW o, NEW x, InLoop(t, o, x)
  PROVE  /\ Runs(t) /\ MayDo(t, o) /\ k.stat[t] = "RUNNING"
         /\ \/ op[t] = o /\ pc[t] = "woken" /\ k.err[t] = "EOK"
            \/ pc[t] = "user" /\ o \in Op
<1>1. CASE Calls(t, o, x)
  BY <1>1, CallRuns
<1>2. CASE At(t, o, "woken") /\ k.err[t] = "EOK"
  BY <1>2, AtRuns DEF Special, StPlaces, HeapPlaces
<1> QED
  BY <1>1, <1>2 DEF InLoop

(* It goes on to the place a of o. *)
GoesTo(t, o, a) ==
  /\ Runs(t) /\ Steady /\ o \in Op \cup {"none"} /\ a \in PC \ Special /\ MayDo(t, o)
  /\ op' = [op EXCEPT ![t] = o] /\ pc' = [pc EXCEPT ![t] = a]

LEMMA Goes ==
  ASSUME CallInv, NEW t, NEW o, NEW a, GoesTo(t, o, a),
         NEW W, NEW E, Wakes(k, k', W, E), Turns(k, k'), E \subseteq W \cup {t},
         \A u \in W : Stirred(u),
         NEW O, op[t] \in O \/ pc[t] \in Outer, o \in O \/ a \in Outer
  PROVE  Moves(t, W, O) /\ op'[t] = o /\ pc'[t] = a
<1>1. /\ t \in Thread /\ t = k.current /\ t # Idle /\ a \notin Locked /\ a \in PC
      /\ pc[t] \notin {"wait", "asleep", "nap"} \cup Locked /\ \A u \in E : u \in W \/ u = t
      /\ pc[t] = "sched" => Runners
      /\ o \in Op \cup {"none"} /\ a \in PC \ Special /\ MayDo(t, o) /\ Steady
      /\ op' = [op EXCEPT ![t] = o] /\ pc' = [pc EXCEPT ![t] = a]
  BY DEF Runs, Special, StPlaces, HeapPlaces, GoesTo
<1>2. Effect(t, W) /\ op'[t] = o /\ pc'[t] = a
  BY <1>1, ActEffect
<1> QED
  BY <1>1, <1>2 DEF Moves, Within, Plain, Runs, GoesTo

(* The kernel is left as it is. *)
SameKernel == k' = k

LEMMA GoesQuietly ==
  ASSUME CallInv, NEW t, NEW o, NEW a, GoesTo(t, o, a), SameKernel,
         NEW O, op[t] \in O \/ pc[t] \in Outer, o \in O \/ a \in Outer
  PROVE  Moves(t, {}, O) /\ op'[t] = o /\ pc'[t] = a
<1> DEFINE nobody == {}
<1>1. Wakes(k, k', nobody, nobody) /\ Turns(k, k') /\ nobody \subseteq nobody \cup {t}
  BY CurrentAwake, NothingWakes DEF SameKernel
<1>2. \A u \in nobody : Stirred(u)
  OBVIOUS
<1> HIDE DEF nobody
<1>3. Moves(t, nobody, O) /\ op'[t] = o /\ pc'[t] = a
  BY <1>1, <1>2, Goes
<1> QED
  BY <1>3 DEF nobody

LEMMA StaysHere ==
  ASSUME CallInv, Steady, op' = op, pc' = pc,
         NEW W, Wakes(k, k', W, W), Turns(k, k'), \A u \in W : Stirred(u)
  PROVE  Moves(Isr, W, {})
<1>1. Effect(Isr, W)
  BY StayEffect
<1> QED
  BY <1>1, SystemAssumption DEF Moves, Within, Plain

LEMMA StaysPut ==
  ASSUME CallInv, Steady, op' = op, pc' = pc, k' = k
  PROVE  Moves(Isr, {}, {})
<1>1. Wakes(k, k', {}, {}) /\ Turns(k, k')
  BY CurrentAwake, NothingWakes
<1> QED
  BY <1>1, StaysHere

(* A waiter for o gets what it has waited for. *)
Served(o) == k.list[WaitList(o)] # <<>> => \E h \in Woken(o)' : h \notin Woken(o)

LEMMA GetsIt ==
  ASSUME CallInv, NEW o \in WaitOp \ HeapOp, NEW h \in On(k, WaitList(o)),
         NEW t, NEW W, Effect(t, W), h \in W, k'.err[h] = "EOK"
  PROVE  /\ h \in Woken(o)' /\ h \notin Woken(o)
         /\ Served(o)
<1>1. WaitList(o) \in Queue
  BY WaitListOf
<1>2. /\ h \in Thread /\ k.stat[h] = "SUSPEND" /\ op[h] \in WaitOp
      /\ WaitList(op[h]) = WaitList(o) /\ pc[h] \in {"wait", "woken"}
  BY <1>1, Waiter
<1>3. op[h] = o
  BY <1>2, WaitListOf DEF WaitOp
<1> QED
  BY <1>2, <1>3 DEF Effect, Woken, Served

LEMMA ListWaiters ==
  ASSUME CallInv, NEW o \in WaitOp \ HeapOp, NEW u \in On(k, WaitList(o))
  PROVE  u \in Thread /\ op[u] = o /\ op[u] \notin HeapOp
<1>1. WaitList(o) \in Queue
  BY WaitListOf
<1>2. u \in Thread /\ op[u] \in WaitOp /\ WaitList(op[u]) = WaitList(o)
  BY <1>1, Waiter
<1> QED
  BY <1>2, WaitListOf DEF WaitOp

(* rt_ipc_list_resume, from a thread and from an interrupt handler *)
LEMMA ResumeFirst ==
  ASSUME CallInv, NEW o \in WaitOp \ HeapOp, k.list[WaitList(o)] # <<>>
  PROVE  LET h == Head(k.list[WaitList(o)])
             r == IpcResume(k, WaitList(o))
         IN  /\ h \in On(k, WaitList(o)) /\ op[h] = o
             /\ Wakes(k, r, {h}, {}) /\ Turns(k, r) /\ Lively(r)
             /\ Wakes(k, Schedule(r), {h}, {}) /\ Turns(k, Schedule(r))
             /\ r.err[h] = "EOK" /\ Schedule(r).err[h] = "EOK"
<1> DEFINE q == WaitList(o)
           h == Head(k.list[q])
           r == IpcResume(k, q)
<1>1. q \in Queue /\ KernelOK(k) /\ Lively(k)
  BY WaitListOf, CurrentAwake
<1>2. h \in Thread /\ h \in On(k, q) /\ k.stat[h] = "SUSPEND"
  BY <1>1, FirstWaits
<1>3. k.err[h] = "EOK" /\ op[h] = o
  BY <1>1, <1>2, Waiter, ListWaiters
<1>4. r = Resume(k, h)
  BY DEF IpcResume
<1> HIDE DEF h, r
<1>5. /\ Wakes(k, r, {h}, {}) /\ Lively(r) /\ r.err = k.err /\ r.current = k.current
  BY <1>1, <1>2, <1>4, ResumeWakes
<1>6. Wakes(r, Schedule(r), {}, {}) /\ Turns(r, Schedule(r))
  BY <1>5, ScheduleWakes
<1>7. Wakes(k, Schedule(r), {h} \cup {}, {} \cup {})
  BY <1>5, <1>6, WakesTwice
<1>8. Wakes(k, Schedule(r), {h}, {})
  BY <1>7
<1>9. Turns(k, r) /\ Turns(k, Schedule(r))
  BY <1>5, <1>6 DEF Turns, Wakes
<1>10. Schedule(r).err[h] = "EOK"
  BY <1>2, <1>3, <1>8 DEF Wakes
<1> QED
  BY <1>2, <1>3, <1>5, <1>8, <1>9, <1>10 DEF h, r

(* A stretch that ends with a waiter for w resumed, if there is one *)
LEMMA ServesOne ==
  ASSUME CallInv, NEW t, Runs(t), Steady, NEW o \in Op, MayDo(t, o),
         NEW w \in WaitOp \ HeapOp, w # "event_recv",
         IF k.list[WaitList(w)] # <<>>
         THEN /\ k' = IpcResume(k, WaitList(w))
              /\ op' = [op EXCEPT ![t] = o] /\ pc' = [pc EXCEPT ![t] = "sched"]
         ELSE k' = k /\ Goto(t, "none", "user"),
         NEW O, op[t] \in O \/ pc[t] \in Outer
  PROVE  /\ \E W \in SUBSET On(k, WaitList(w)) : Moves(t, W, O)
         /\ Served(w) /\ pc'[t] \in {"sched", "user"}
<1>0. "sched" \in PC \ Special /\ "user" \in PC \ Special /\ "none" \in Op \cup {"none"}
      /\ "sched" \in Outer /\ "user" \in Outer /\ MayDo(t, "none")
  BY DEF PC, Special, StPlaces, HeapPlaces, Outer, MayDo
<1>1. CASE k.list[WaitList(w)] # <<>>
  <2> DEFINE h == Head(k.list[WaitList(w)])
  <2>1. /\ h \in On(k, WaitList(w)) /\ op[h] = w
        /\ Wakes(k, k', {h}, {}) /\ Turns(k, k') /\ k'.err[h] = "EOK"
    BY <1>1, ResumeFirst
  <2> HIDE DEF h
  <2>2. {} \subseteq {h} \cup {t} /\ \A u \in {h} : Stirred(u)
    BY <2>1 DEF Stirred, WaitOp, HeapOp
  <2>a. GoesTo(t, o, "sched")
    BY <1>0, <1>1 DEF GoesTo
  <2>3. Moves(t, {h}, O) /\ pc'[t] = "sched"
    BY <1>0, <2>a, <2>1, <2>2, Goes
  <2>4. Served(w)
    BY <2>1, <2>3, GetsIt DEF Moves
  <2> QED
    BY <2>1, <2>3, <2>4
<1>2. CASE k.list[WaitList(w)] = <<>>
  <2>1. Moves(t, {}, O) /\ pc'[t] = "user"
    <3>1. SameKernel
      BY <1>2 DEF SameKernel
    <3>2. GoesTo(t, "none", "user")
      BY <1>0, <1>2 DEF Goto, GoesTo
    <3> QED
      BY <1>0, <3>1, <3>2, GoesQuietly
  <2> QED
    BY <1>2, <2>1 DEF Served
<1> QED
  BY <1>1, <1>2

LEMMA IsrServesOne ==
  ASSUME CallInv, Steady, NEW w \in WaitOp \ HeapOp, w # "event_recv", IsrWakeOne(WaitList(w))
  PROVE  /\ \E W \in SUBSET On(k, WaitList(w)) : Moves(Isr, W, {})
         /\ Served(w)
<1>1. CASE k.list[WaitList(w)] # <<>>
  <2> DEFINE h == Head(k.list[WaitList(w)])
  <2>1. /\ h \in On(k, WaitList(w)) /\ op[h] = w
        /\ Wakes(k, k', {h}, {}) /\ Turns(k, k') /\ k'.err[h] = "EOK"
    BY <1>1, ResumeFirst DEF IsrWakeOne
  <2> HIDE DEF h
  <2>2. Wakes(k, k', {h}, {h}) /\ \A u \in {h} : Stirred(u)
    BY <2>1 DEF Wakes, Stirred, WaitOp, HeapOp
  <2>3. Moves(Isr, {h}, {})
    BY <2>1, <2>2, StaysHere DEF IsrWakeOne
  <2>4. Served(w)
    BY <2>1, <2>3, GetsIt DEF Moves
  <2> QED
    BY <2>1, <2>3, <2>4
<1>2. CASE k.list[WaitList(w)] = <<>>
  <2>1. Moves(Isr, {}, {})
    BY <1>2, StaysPut DEF IsrWakeOne
  <2> QED
    BY <1>2, <2>1 DEF Served
<1> QED
  BY <1>1, <1>2

(* A thread waits on the list of its call, ... *)
LEMMA WaitMoves ==
  ASSUME CallInv, NEW t \in Thread, NEW o \in WaitOp \ HeapOp, NEW x, InLoop(t, o, x),
         WaitOn(t, o, WaitList(o)), prog' = prog, alive' = alive
  PROVE  Moves(t, {}, {o}) /\ op'[t] = o /\ pc'[t] = "wait" /\ k'.stat[t] = "SUSPEND"
         /\ On(k', WaitList(o)) = On(k, WaitList(o)) \cup {t} /\ t \notin On(k, WaitList(o))
<1> DEFINE q == WaitList(o)
<1>1. /\ Runs(t) /\ MayDo(t, o) /\ k.stat[t] = "RUNNING"
      /\ \/ op[t] = o /\ pc[t] = "woken"
         \/ pc[t] = "user"
  BY LoopRuns
<1>2. q \in Queue /\ Lively(k) /\ o \in Op /\ t \notin On(k, q)
  BY <1>1, WaitListOf, CurrentAwake DEF WaitOp, Op, Runs
<1>3. PICK limit \in Limit(t) :
        /\ k' = IpcSuspend([k EXCEPT !.err[t] = "EOK"], q, t, prog.flag, limit)
        /\ timed' = [timed EXCEPT ![t] = limit]
  BY DEF WaitOn
<1>4. op' = [op EXCEPT ![t] = o] /\ pc' = [pc EXCEPT ![t] = "wait"]
  BY DEF WaitOn, Goto
<1> HIDE DEF q
<1>5. timed \in [Thread -> BOOLEAN]
  BY DEF CallInv
<1>6. limit \in BOOLEAN
  BY <1>3, <1>5 DEF Limit
<1>7. Steady
  BY <1>3, <1>5, <1>6 DEF Steady
<1>8. Sleeps(k, k', t, q) /\ k'.err[t] = "EOK"
  BY ZenonT(40), <1>1, <1>2, <1>3, <1>6, WaitSleeps
<1>9. /\ t = k.current /\ t # Idle
      /\ pc[t] \notin {"wait", "asleep", "nap", "sched"} \cup Locked
      /\ "wait" \in {"wait", "asleep", "nap"}
  BY <1>1 DEF Runs, Special, StPlaces, HeapPlaces
<1>a. \/ o \in WaitOp /\ q = WaitList(o) /\ "wait" = "wait" /\ k'.err[t] = "EOK"
           /\ (o \in HeapOp => t \notin k'.armed)
      \/ o = "delay" /\ q = Defunct /\ "wait" = "wait" /\ t \in k'.armed
      \/ o = "timer_entry" /\ q = Defunct /\ "wait" \in {"asleep", "nap"} /\ t = TimerThread
  BY <1>8 DEF q
<1>b. Effect(t, {}) /\ op'[t] = o /\ pc'[t] = "wait"
  BY ZenonT(40), <1>1, <1>2, <1>4, <1>7, <1>8, <1>9, <1>a, SleepEffect
<1>c. Within(t, {o}) /\ Plain(t)
  BY <1>1, <1>b DEF Within, Plain, Outer, Special, StPlaces, HeapPlaces
<1>d. Moves(t, {}, {o})
  BY <1>b, <1>c DEF Moves
<1> QED
  BY <1>2, <1>8, <1>b, <1>d DEF Sleeps, q

(* ... and returns when its time is up. *)
LEMMA TimeIsUpMoves ==
  ASSUME CallInv, NEW t \in Thread, NEW o \in WaitOp, NEW e \in Err, TimeIsUp(t, o, e),
         prog' = prog, alive' = alive
  PROVE  Moves(t, {}, {o}) /\ pc'[t] = "user"
<1> DEFINE nobody == {}
<1>1. Runs(t) /\ op[t] = o /\ MayDo(t, o) /\ Lively(k) /\ timed \in [Thread -> BOOLEAN]
  BY AtRuns, CurrentAwake DEF TimeIsUp, Special, StPlaces, HeapPlaces, CallInv
<1>2. k' = [k EXCEPT !.err[t] = e] /\ Return(t)
  BY DEF TimeIsUp
<1>3. Wakes(k, k', nobody, {t}) /\ Turns(k, k')
  BY <1>1, <1>2, ErrorWakes DEF Turns
<1>4. Steady
  BY <1>1, <1>2 DEF Return, Steady
<1>5. GoesTo(t, "none", "user")
  BY <1>1, <1>2, <1>4 DEF GoesTo, PC, Special, StPlaces, HeapPlaces, MayDo, Return, Goto
<1>6. {t} \subseteq nobody \cup {t} /\ \A u \in nobody : Stirred(u)
  OBVIOUS
<1>7. op[t] \in {o} \/ pc[t] \in Outer
  BY <1>1
<1>8. "none" \in {o} \/ "user" \in Outer
  BY DEF Outer
<1> HIDE DEF nobody
<1>9. Moves(t, nobody, {o}) /\ op'[t] = "none" /\ pc'[t] = "user"
  BY <1>3, <1>5, <1>6, <1>7, <1>8, Goes
<1> QED
  BY <1>9 DEF nobody

(* A call without waiting or a waker leaves the kernel alone. *)
LEMMA ReturnMoves ==
  ASSUME CallInv, NEW t, Runs(t), SameKernel, Return(t), prog' = prog, alive' = alive,
         NEW O, op[t] \in O \/ pc[t] \in Outer
  PROVE  Moves(t, {}, O) /\ pc'[t] = "user"
<1>1. timed \in [Thread -> BOOLEAN]
  BY DEF CallInv
<1>2. Steady
  BY <1>1 DEF Return, Steady
<1>3. GoesTo(t, "none", "user")
  BY <1>2 DEF GoesTo, PC, Special, StPlaces, HeapPlaces, MayDo, Return, Goto
<1>4. "none" \in O \/ "user" \in Outer
  BY DEF Outer
<1> QED
  BY <1>3, <1>4, GoesQuietly

LEMMA GiveUpMoves ==
  ASSUME CallInv, NEW t \in Thread, NEW o, GiveUp(t, o)
  PROVE  Moves(t, {}, {o}) /\ pc'[t] = "user" /\ SameKernel /\ t \notin Woken(o)
<1>1. Runs(t) /\ op[t] = o
  BY AtRuns DEF GiveUp, Special, StPlaces, HeapPlaces
<1>2. SameKernel /\ Return(t) /\ prog' = prog /\ alive' = alive
  BY <1>1 DEF GiveUp, SameKernel
<1>a. op[t] \in {o} \/ pc[t] \in Outer
  BY <1>1
<1>3. Moves(t, {}, {o}) /\ pc'[t] = "user"
  BY <1>1, <1>2, <1>a, ReturnMoves
<1> QED
  BY <1>2, <1>3 DEF GiveUp, Woken

(* A call goes on to another stretch of it. *)
LEMMA GotoMoves ==
  ASSUME CallInv, NEW t, Runs(t), SameKernel, NEW o \in Op, NEW a \in PC \ Special,
         MayDo(t, o), Goto(t, o, a), prog' = prog, alive' \subseteq alive, timed' = timed,
         NEW O, op[t] \in O \/ pc[t] \in Outer, o \in O
  PROVE  Moves(t, {}, O) /\ pc'[t] = a /\ op'[t] = o
<1>1. timed \in [Thread -> BOOLEAN]
  BY DEF CallInv
<1>2. Steady
  BY <1>1 DEF Steady
<1>3. GoesTo(t, o, a)
  BY <1>2 DEF GoesTo, Goto
<1> QED
  BY <1>3, GoesQuietly

(* A thread in a call that may wait on a list other than that of the event  *)
(* set and of the heap                                                      *)
Listed(u) == op[u] \in WaitOp \ (HeapOp \cup {"event_recv"})

LEMMA ListedStirred ==
  ASSUME NEW u, Listed(u)
  PROVE  Stirred(u)
<1>1. "timer_entry" \notin WaitOp
  BY DEF WaitOp, HeapOp
<1> QED
  BY <1>1 DEF Listed, Stirred

(* A reset wakes all the waiters of w. *)
LEMMA AllWake ==
  ASSUME CallInv, NEW kk, Lively(kk), NEW w \in WaitOp \ HeapOp, w # "event_recv",
         NEW V \in SUBSET Thread, Wakes(k, kk, V, V), kk.current = k.current,
         \A u \in V : Listed(u),
         NEW r, r = ResumeAll(kk, WaitList(w))
  PROVE  LET W == V \cup On(kk, WaitList(w))
         IN  /\ Lively(r) /\ Wakes(k, r, W, W) /\ r.current = k.current
             /\ W \subseteq Thread /\ \A u \in W : Listed(u)
             /\ r.list[WaitList(w)] = <<>> /\ \A u \in On(kk, WaitList(w)) : r.err[u] = "ERROR"
<1> DEFINE q == WaitList(w)
           U == On(kk, q)
<1>1. q \in Queue /\ kk \in KernelState
  BY WaitListOf DEF Lively, KernelOK
<1>2. /\ Wakes(kk, r, U, U) /\ Lively(r) /\ r.current = kk.current
      /\ r.list[q] = <<>> /\ \A u \in U : r.err[u] = "ERROR"
  BY <1>1, ResumeAllWakes
<1>3. U \subseteq On(k, q)
  BY <1>1 DEF Wakes
<1>4. \A u \in U : u \in Thread /\ Listed(u)
  BY <1>3, ListWaiters DEF Listed
<1> HIDE DEF U, q
<1>5. Wakes(k, r, V \cup U, V \cup U)
  BY <1>2, WakesTwice
<1> QED
  BY <1>2, <1>4, <1>5 DEF U, q

LEMMA AllWakeHere ==
  ASSUME CallInv, NEW w \in WaitOp \ HeapOp, NEW r, r = ResumeAll(k, WaitList(w))
  PROVE  LET W == On(k, WaitList(w))
         IN  /\ Lively(r) /\ Wakes(k, r, W, W) /\ r.current = k.current
             /\ W \subseteq Thread /\ \A u \in W : op[u] = w /\ op[u] \notin HeapOp
             /\ r.list[WaitList(w)] = <<>> /\ \A u \in W : r.err[u] = "ERROR"
<1> DEFINE q == WaitList(w)
           W == On(k, q)
<1>1. q \in Queue /\ Lively(k)
  BY WaitListOf, CurrentAwake
<1>2. /\ Wakes(k, r, W, W) /\ Lively(r) /\ r.current = k.current
      /\ r.list[q] = <<>> /\ \A u \in W : r.err[u] = "ERROR"
  BY <1>1, ResumeAllWakes
<1>3. \A u \in W : u \in Thread /\ op[u] = w /\ op[u] \notin HeapOp
  BY ListWaiters
<1> QED
  BY <1>2, <1>3

LEMMA ResetMoves ==
  ASSUME CallInv, NEW t \in Thread, NEW o, NEW x, Calls(t, o, x), Goto(t, o, "sched"),
         prog' = prog, alive' = alive, timed' = timed,
         NEW W, Wakes(k, k', W, W), k'.current = k.current, \A u \in W : Stirred(u)
  PROVE  Moves(t, W, {}) /\ pc'[t] = "sched"
<1>1. Runs(t) /\ pc[t] = "user" /\ o \in Op /\ MayDo(t, o) /\ timed \in [Thread -> BOOLEAN]
  BY CallRuns DEF CallInv
<1>2. Steady
  BY <1>1 DEF Steady
<1>3. GoesTo(t, o, "sched")
  BY <1>1, <1>2 DEF GoesTo, Goto, PC, Special, StPlaces, HeapPlaces
<1>4. Turns(k, k') /\ W \subseteq W \cup {t}
  BY DEF Turns
<1>5. op[t] \in {} \/ pc[t] \in Outer
  BY <1>1 DEF Outer
<1>6. o \in {} \/ "sched" \in Outer
  BY DEF Outer
<1> QED
  BY <1>3, <1>4, <1>5, <1>6, Goes

(* Detach and delete: entered, ... *)
LEMMA DetachMoves ==
  ASSUME CallInv, NEW t \in Thread, NEW o, NEW x, Detach(t, o, x)
  PROVE  Moves(t, {}, {o}) /\ SameKernel /\ pc'[t] = "test"
<1>1. Runs(t) /\ pc[t] = "user" /\ o \in Op /\ MayDo(t, o)
  BY CallRuns DEF Detach
<1>2. /\ SameKernel /\ Goto(t, o, "test") /\ prog' = prog /\ alive' \subseteq alive
      /\ timed' = timed /\ "test" \in PC \ Special /\ o \in {o}
  BY DEF Detach, SameKernel, PC, Special, StPlaces, HeapPlaces
<1>3. op[t] \in {o} \/ pc[t] \in Outer
  BY <1>1 DEF Outer
<1> QED
  BY <1>1, <1>2, <1>3, GotoMoves

(* ... the list tested, ... *)
LEMMA DrainTestMoves ==
  ASSUME CallInv, NEW t \in Thread, NEW o \in Op, NEW q, NEW a \in {"test", "test2"},
         NEW b \in {"resume", "resume2"}, NEW next \in {"user", "test2"},
         DrainTest(t, o, q, a, b, next)
  PROVE  Moves(t, {}, {o}) /\ SameKernel /\ pc'[t] \notin {"wait", "woken"}
<1>1. Runs(t) /\ op[t] = o /\ MayDo(t, o) /\ op \in [Thread -> Op \cup {"none"}]
  BY AtRuns DEF DrainTest, Special, StPlaces, HeapPlaces, CallInv, Settled
<1>2. SameKernel /\ prog' = prog /\ alive' = alive
  BY DEF DrainTest, SameKernel
<1>3. op[t] \in {o} \/ pc[t] \in Outer
  BY <1>1
<1>4. CASE Return(t)
  BY <1>1, <1>2, <1>3, <1>4, ReturnMoves
<1>5. ASSUME NEW c \in {b, next} \ {"user"}, Proceed(t, c), UNCHANGED timed
      PROVE  Moves(t, {}, {o}) /\ SameKernel /\ pc'[t] = c
  <2>1. Goto(t, o, c) /\ timed' = timed /\ c \in PC \ Special /\ o \in {o}
    BY <1>1, <1>5 DEF Proceed, Goto, PC, Special, StPlaces, HeapPlaces
  <2> QED
    BY <1>1, <1>2, <1>3, <2>1, GotoMoves
<1>6. \/ Return(t)
      \/ \E c \in {b, next} \ {"user"} : Proceed(t, c) /\ UNCHANGED timed
  BY DEF DrainTest
<1> QED
  BY <1>2, <1>4, <1>5, <1>6

(* ... and its first thread resumed with an error. *)
LEMMA DrainResumeMoves ==
  ASSUME CallInv, NEW t \in Thread, NEW o \in Op, NEW w \in WaitOp \ HeapOp,
         NEW a \in {"test", "test2"}, NEW b \in {"resume", "resume2"},
         DrainResume(t, o, WaitList(w), a, b)
  PROVE  /\ \E W \in SUBSET On(k, WaitList(w)) : Moves(t, W, {o})
         /\ Cardinality(On(k', WaitList(w))) =
              IF k.list[WaitList(w)] # <<>> THEN Cardinality(On(k, WaitList(w))) - 1
              ELSE Cardinality(On(k, WaitList(w)))
         /\ pc'[t] \notin {"wait", "woken"}
<1> DEFINE q == WaitList(w)
<1>1. /\ Runs(t) /\ op[t] = o /\ MayDo(t, o) /\ op \in [Thread -> Op \cup {"none"}]
      /\ timed \in [Thread -> BOOLEAN]
  BY AtRuns DEF DrainResume, Special, StPlaces, HeapPlaces, CallInv, Settled
<1>2. prog' = prog /\ alive' = alive /\ timed' = timed
  BY DEF DrainResume
<1>3. op[t] \in {o} \/ pc[t] \in Outer
  BY <1>1
<1>4. CASE k.list[q] = <<>>
  <2>1. SameKernel /\ Goto(t, o, "wild") /\ "wild" \in PC \ Special /\ o \in {o}
    BY <1>1, <1>4 DEF DrainResume, SameKernel, Proceed, Goto, PC, Special, StPlaces, HeapPlaces
  <2>2. Moves(t, {}, {o}) /\ pc'[t] = "wild"
    BY <1>1, <1>2, <1>3, <2>1, GotoMoves
  <2> QED
    BY <1>4, <2>1, <2>2 DEF SameKernel
<1>5. CASE k.list[q] # <<>>
  <2> DEFINE h == Head(k.list[q])
  <2>1. q \in Queue /\ KernelOK(k) /\ Lively(k)
    BY WaitListOf, CurrentAwake
  <2>2. h \in Thread /\ h \in On(k, q) /\ k.stat[h] = "SUSPEND"
    BY <1>5, <2>1, FirstWaits
  <2>3. op[h] \notin HeapOp \cup {"timer_entry"}
    BY <2>2, ListWaiters DEF WaitOp
  <2>4. k' = Resume([k EXCEPT !.err[h] = "ERROR"], h)
    BY <1>5 DEF DrainResume, IpcResumeWithError
  <2> HIDE DEF h
  <2>5. Wakes(k, k', {h}, {h}) /\ k'.current = k.current /\ k'.err[h] = "ERROR"
    BY <2>1, <2>2, <2>4, ResumeWithWakes DEF Err
  <2>6. Steady /\ Turns(k, k') /\ {h} \subseteq {h} \cup {t} /\ \A u \in {h} : Stirred(u)
    BY <1>1, <1>2, <2>3, <2>5 DEF Steady, Turns, Stirred
  <2>7. GoesTo(t, o, a)
    BY <1>1, <1>5, <2>6 DEF GoesTo, DrainResume, Proceed, PC, Special, StPlaces, HeapPlaces
  <2>8. o \in {o} \/ a \in Outer
    OBVIOUS
  <2>9. Moves(t, {h}, {o}) /\ pc'[t] = a
    BY <1>3, <2>5, <2>6, <2>7, <2>8, Goes
  <2>10. On(k', q) = On(k, q) \ {h} /\ IsFiniteSet(On(k, q))
    BY <2>1, <2>5, ListsOf DEF Wakes
  <2>11. Cardinality(On(k', q)) = Cardinality(On(k, q)) - 1
    BY <2>2, <2>10, FS_RemoveElement
  <2> QED
    BY <1>5, <2>2, <2>9, <2>11
<1> QED
  BY <1>4, <1>5

-----------------------------------------------------------------------------
(* A thread that has gone to sleep calls rt_schedule: nobody wakes up.      *)
SameWaits ==
  /\ CallInv' /\ prog' = prog /\ op' = op
  /\ k'.current = k.current \/ Runners
  /\ \A u \in Thread : /\ k'.stat[u] = "SUSPEND" <=> k.stat[u] = "SUSPEND"
                       /\ k'.err[u] = k.err[u] /\ (u \in k'.armed <=> u \in k.armed)
                       /\ \/ pc'[u] = pc[u]
                          \/ pc[u] = "wait" /\ pc'[u] = "woken"
                          \/ u = TimerThread /\ RunsOn(pc[u], pc'[u])
  /\ \A q \in Queue : On(k', q) = On(k, q)

LEMMA SwitchSame ==
  ASSUME CallInv, NEW t \in Thread, t = k.current, NEW a \in PC,
         \/ pc[t] = "wait" /\ a = "woken"
         \/ t = TimerThread /\ RunsOn(pc[t], a),
         k' = Schedule(k), op' = op, pc' = [pc EXCEPT ![t] = a],
         prog' = prog, alive' = alive, timed' = timed
  PROVE  SameWaits /\ pc'[t] = a
<1>1. Steady
  BY DEF Steady, CallInv
<1>2. /\ CallInv' /\ Wakes(k, k', {}, {}) /\ Turns(k, k')
      /\ pc'[t] = a /\ \A u \in Thread \ {t} : pc'[u] = pc[u]
  BY <1>1, SwitchEffect
<1> QED
  BY <1>2 DEF SameWaits, Wakes, Turns, Runners

(* The operations and interrupts of System.tla *)
LEMMA DelayMoves ==
  ASSUME CallInv, NEW t \in Thread, Delay(t)
  PROVE  Moves(t, {}, {"delay"})
<1>1. /\ t = k.current /\ k.stat[t] = "RUNNING" /\ pc[t] = "user" /\ "delay" \in prog.uses[t]
      /\ k' = Sleep(k, t) /\ op' = [op EXCEPT ![t] = "delay"] /\ pc' = [pc EXCEPT ![t] = "wait"]
      /\ prog' = prog /\ alive' = alive /\ timed' = timed
  BY DEF Delay, Goto
<1>2. prog.uses[Idle] = {} /\ timed \in [Thread -> BOOLEAN] /\ Lively(k)
  BY SystemAssumption, CurrentAwake DEF CallInv
<1>3. /\ t # Idle /\ Steady /\ MayDo(t, "delay") /\ "delay" \in Op
      /\ "wait" \in {"wait", "asleep", "nap"}
  BY <1>1, <1>2 DEF Steady, MayDo, Op
<1>4. Sleeps(k, k', t, Defunct) /\ t \in k'.armed
  BY <1>1, <1>2, SleepSleeps
<1>5. pc[t] \notin {"wait", "asleep", "nap", "sched"} \cup Locked
  BY <1>1
<1>6. \/ "delay" \in WaitOp /\ Defunct = WaitList("delay") /\ "wait" = "wait" /\ k'.err[t] = "EOK"
           /\ ("delay" \in HeapOp => t \notin k'.armed)
      \/ "delay" = "delay" /\ Defunct = Defunct /\ "wait" = "wait" /\ t \in k'.armed
      \/ /\ "delay" = "timer_entry" /\ Defunct = Defunct /\ "wait" \in {"asleep", "nap"}
         /\ t = TimerThread
  BY <1>4
<1>7. Effect(t, {}) /\ op'[t] = "delay" /\ pc'[t] = "wait"
  BY <1>1, <1>3, <1>4, <1>5, <1>6, SleepEffect
<1> QED
  BY <1>1, <1>7 DEF Moves, Within, Plain, Outer, Special, StPlaces, HeapPlaces

LEMMA DelayReturnMoves ==
  ASSUME CallInv, NEW t \in Thread, DelayReturn(t)
  PROVE  Moves(t, {}, {"delay"})
<1> DEFINE nobody == {}
<1>1. /\ Runs(t) /\ op[t] = "delay" /\ Lively(k) /\ timed \in [Thread -> BOOLEAN]
  BY AtRuns, CurrentAwake DEF DelayReturn, Special, StPlaces, HeapPlaces, CallInv
<1>2. k' = SleepReturn(k, t) /\ Return(t) /\ prog' = prog /\ alive' = alive
  BY DEF DelayReturn
<1>3. Wakes(k, k', nobody, {t}) /\ Turns(k, k')
  <2>1. CASE k' = k
    BY <1>1, <2>1, NothingWakes DEF Wakes
  <2>2. CASE k' = [k EXCEPT !.err[t] = "EOK"]
    BY <1>1, <2>2, ErrorWakes DEF Turns, Err
  <2> QED
    BY <1>2, <2>1, <2>2 DEF SleepReturn
<1>4. Steady
  BY <1>1, <1>2 DEF Return, Steady
<1>5. GoesTo(t, "none", "user")
  BY <1>1, <1>2, <1>4 DEF GoesTo, PC, Special, StPlaces, HeapPlaces, MayDo, Return, Goto
<1>6. {t} \subseteq nobody \cup {t} /\ \A u \in nobody : Stirred(u)
  OBVIOUS
<1>7. op[t] \in {"delay"} \/ pc[t] \in Outer
  BY <1>1
<1>8. "none" \in {"delay"} \/ "user" \in Outer
  BY DEF Outer
<1> HIDE DEF nobody
<1>9. Moves(t, nobody, {"delay"})
  BY <1>3, <1>5, <1>6, <1>7, <1>8, Goes
<1> QED
  BY <1>9 DEF nobody

LEMMA ScheduleMoves ==
  ASSUME CallInv, NEW t \in Thread, ScheduleAndReturn(t)
  PROVE  Moves(t, {}, {"delay"})
<1> DEFINE nobody == {}
<1>1. /\ t = k.current /\ t # Idle /\ pc[t] = "sched" /\ Lively(k) /\ k.lock = 0
      /\ timed \in [Thread -> BOOLEAN]
  BY CurrentAwake DEF ScheduleAndReturn, CallInv
<1>2. k' = Schedule(k) /\ Return(t) /\ prog' = prog /\ alive' = alive
  BY DEF ScheduleAndReturn
<1>3. Wakes(k, k', nobody, nobody) /\ Turns(k, k') /\ Runners
  BY <1>1, <1>2, ScheduleWakes DEF Runners
<1> HIDE DEF nobody
<1>4. ASSUME NEW o, o = "none", NEW a, a = "user"
      PROVE  Effect(t, nobody) /\ op'[t] = o /\ pc'[t] = a
  <2>1. o \in Op \cup {"none"} /\ a \in PC /\ a \notin Locked /\ MayDo(t, o)
    BY <1>4 DEF PC, MayDo
  <2>2. Steady /\ op' = [op EXCEPT ![t] = o] /\ pc' = [pc EXCEPT ![t] = a]
    BY <1>1, <1>2, <1>4 DEF Return, Steady, Goto
  <2>3. /\ pc[t] \notin {"wait", "asleep", "nap"} \cup Locked /\ (pc[t] = "sched" => Runners)
        /\ \A u \in nobody : u \in nobody \/ u = t
    BY <1>1, <1>3
  <2> QED
    BY <1>1, <1>3, <2>1, <2>2, <2>3, ActEffect
<1>6. Effect(t, nobody) /\ op'[t] = "none" /\ pc'[t] = "user"
  BY <1>4
<1>7. Within(t, {"delay"}) /\ Plain(t)
  BY <1>1, <1>6 DEF Within, Plain, Outer, Special, StPlaces, HeapPlaces
<1> QED
  BY <1>6, <1>7 DEF Moves, nobody

LEMMA TickMoves ==
  ASSUME CallInv, SliceIsr \/ \E t \in Thread : TimerIsr(t)
  PROVE  \E W : Moves(Isr, W, {})
<1>1. Lively(k) /\ timed \in [Thread -> BOOLEAN] /\ Settled(k, op, pc)
  BY CurrentAwake DEF CallInv
<1>2. CASE SliceIsr
  <2>1. Wakes(k, k', {}, {}) /\ Turns(k, k')
    BY <1>1, <1>2, ScheduleWakes DEF SliceIsr
  <2>2. Steady /\ op' = op /\ pc' = pc
    BY <1>1, <1>2 DEF Steady, SliceIsr
  <2>3. \A u \in {} : Stirred(u)
    OBVIOUS
  <2>4. Moves(Isr, {}, {})
    BY <2>1, <2>2, <2>3, StaysHere
  <2> QED
    BY <2>4
<1>3. ASSUME NEW t \in Thread, TimerIsr(t) PROVE Moves(Isr, {t}, {})
  <2>1. t \in k.armed /\ k' = Timeout(k, t)
    BY <1>3 DEF TimerIsr
  <2>2. /\ Wakes(k, k', {t}, {t}) /\ Turns(k, k') /\ k'.err[t] = "ETIMEOUT"
        /\ k.lock = 0 => Runners
    BY <1>1, <2>1, TimeoutWakes DEF Runners
  <2>3. Steady /\ op' = op /\ pc' = pc
    BY <1>1, <1>3 DEF Steady, TimerIsr
  <2>4. \A u \in {t} : Stirred(u)
    <3>1. op[t] \notin HeapOp /\ t \in Thread /\ k.stat[t] = "SUSPEND"
      BY <1>1, <2>1, <2>2 DEF Settled, Wakes
    <3>2. ASSUME op[t] = "timer_entry" PROVE Runners
      <4>1. t = TimerThread /\ pc[t] \notin Locked
        BY <1>1, <3>1, <3>2 DEF Settled, WaitsFor, WaitOp, HeapOp
      <4>2. k.lock = 0
        BY <1>1, <4>1 DEF Settled
      <4> QED
        BY <2>2, <4>2
    <3> QED
      BY <2>1, <2>2, <3>1, <3>2 DEF Stirred
  <2> QED
    BY <2>2, <2>3, <2>4, StaysHere
<1> QED
  BY <1>2, <1>3

LEMMA SysMoves ==
  ASSUME CallInv, SysNext
  PROVE  SameWaits \/ \E t, W : Moves(t, W, {"delay"})
<1>1. CASE SliceIsr \/ \E t \in Thread : TimerIsr(t)
  <2>1. PICK W : Moves(Isr, W, {})
    BY <1>1, TickMoves
  <2>2. Moves(Isr, W, {"delay"})
    BY <2>1 DEF Moves, Within
  <2> QED
    BY <2>2
<1>2. ASSUME NEW t \in Thread, Delay(t) PROVE Moves(t, {}, {"delay"})
  BY <1>2, DelayMoves
<1>3. ASSUME NEW t \in Thread, WaitSchedule(t) PROVE SameWaits
  <2>1. /\ t = k.current /\ pc[t] = "wait" /\ k' = Schedule(k) /\ op' = op
        /\ pc' = [pc EXCEPT ![t] = "woken"]
        /\ prog' = prog /\ alive' = alive /\ timed' = timed
    BY <1>3 DEF WaitSchedule, Proceed
  <2>2. "woken" \in PC
    BY DEF PC
  <2>3. \/ pc[t] = "wait" /\ "woken" = "woken"
        \/ t = TimerThread /\ RunsOn(pc[t], "woken")
    BY <2>1
  <2> QED
    BY <2>1, <2>2, <2>3, SwitchSame
<1>4. ASSUME NEW t \in Thread, DelayReturn(t) PROVE Moves(t, {}, {"delay"})
  BY <1>4, DelayReturnMoves
<1>5. ASSUME NEW t \in Thread, ScheduleAndReturn(t) PROVE Moves(t, {}, {"delay"})
  BY <1>5, ScheduleMoves
<1> QED
  BY <1>1, <1>2, <1>3, <1>4, <1>5 DEF SysNext

-----------------------------------------------------------------------------
(* Supplies: what threads wait for in the operation o *)
LEMMA WokenBut ==
  ASSUME NEW t, NEW W, Effect(t, W), NEW o
  PROVE  Woken(o) \ {t} \subseteq Woken(o)'
<1> SUFFICES ASSUME NEW u \in Woken(o) \ {t} PROVE u \in Woken(o)'
  OBVIOUS
<1>1. /\ u \in Thread /\ op[u] = o /\ pc[u] \in {"wait", "woken"}
      /\ k.stat[u] # "SUSPEND" /\ k.err[u] = "EOK" /\ u # t
  BY DEF Woken
<1>2. u \notin W
  BY <1>1 DEF Effect
<1> QED
  BY <1>1, <1>2 DEF Effect, Woken

(* A step that no thread of o takes leaves those waiting and woken alone.   *)
Leaves(o) ==
  \/ SameWaits
  \/ \E t, W, O : Effect(t, W) /\ Within(t, O) /\ o \notin O

LEMMA OwnList ==
  ASSUME NEW o \in WaitOp \ HeapOp, NEW p \in WaitOp, WaitList(p) = WaitList(o)
  PROVE  p = o
<1>1. /\ WaitList(p) = MqWaiters <=> p = "mq_recv"
      /\ WaitList(p) = MbReceivers <=> p = "mb_recv"
      /\ WaitList(p) = MbSenders <=> p = "mb_send"
      /\ WaitList(p) = MpWaiters <=> p = "mp_alloc"
      /\ WaitList(p) = EvWaiters <=> p = "event_recv"
  BY WaitListOf
<1>2. /\ WaitList(o) = MqWaiters <=> o = "mq_recv"
      /\ WaitList(o) = MbReceivers <=> o = "mb_recv"
      /\ WaitList(o) = MbSenders <=> o = "mb_send"
      /\ WaitList(o) = MpWaiters <=> o = "mp_alloc"
      /\ WaitList(o) = EvWaiters <=> o = "event_recv"
  BY WaitListOf
<1> QED
  BY <1>1, <1>2 DEF WaitOp

LEMMA LeavesWaiters ==
  ASSUME NEW o \in WaitOp \ HeapOp, Leaves(o)
  PROVE  /\ CallInv' /\ On(k', WaitList(o)) \subseteq On(k, WaitList(o))
         /\ Woken(o) \subseteq Woken(o)'
<1>1. WaitList(o) \in Queue
  BY WaitListOf
<1>2. CASE SameWaits
  <2>1. On(k', WaitList(o)) = On(k, WaitList(o)) /\ CallInv'
    BY <1>1, <1>2 DEF SameWaits
  <2>2. Woken(o) \subseteq Woken(o)'
    BY <1>2 DEF SameWaits, Woken
  <2> QED
    BY <2>1, <2>2
<1>3. ASSUME NEW t, NEW W, NEW O, Effect(t, W), Within(t, O), o \notin O
      PROVE  /\ CallInv' /\ On(k', WaitList(o)) \subseteq On(k, WaitList(o))
             /\ Woken(o) \subseteq Woken(o)'
  <2>1. \A p \in O \cap WaitOp : WaitList(p) # WaitList(o)
    BY <1>3, OwnList
  <2>2. On(k', WaitList(o)) \subseteq On(k, WaitList(o))
    BY <1>1, <1>3, <2>1, ListsShrink
  <2>3. Woken(o) \subseteq Woken(o)'
    BY <1>3, WokenStay
  <2> QED
    BY <1>3, <2>2, <2>3 DEF Effect
<1> QED
  BY <1>2, <1>3 DEF Leaves

(* The supply for o stays what it is, ... *)
LEMMA SupplyLeft ==
  ASSUME CallInv, NEW o \in WaitOp \ HeapOp, Leaves(o), NEW n \in Nat,
         k.list[WaitList(o)] # <<>> => n <= Cardinality(Woken(o))
  PROVE  k'.list[WaitList(o)] # <<>> => n <= Cardinality(Woken(o)')
<1>1. WaitList(o) \in Queue
  BY WaitListOf
<1>2. /\ CallInv' /\ On(k', WaitList(o)) \subseteq On(k, WaitList(o))
      /\ Woken(o) \subseteq Woken(o)'
  BY LeavesWaiters
<1>3. n <= n /\ Woken(o) \subseteq Woken(o)'
  BY <1>2
<1> QED
  BY <1>1, <1>2, <1>3, SupplyKept

(* ... or there are m after a step of t, which does not wait for them. *)
Supplies(t, o, n, m) ==
  \/ m <= n /\ t \notin Woken(o)
  \/ m <= n + 1 /\ t \notin Woken(o) /\ Served(o)
  \/ m + 1 <= n

LEMMA SupplyGoesOn ==
  ASSUME CallInv, NEW o \in WaitOp \ HeapOp, NEW t, NEW W, Effect(t, W),
         NEW n \in Nat, NEW m \in Nat, Supplies(t, o, n, m),
         t \in Thread => pc'[t] \notin {"wait", "woken"},
         k.list[WaitList(o)] # <<>> => n <= Cardinality(Woken(o))
  PROVE  k'.list[WaitList(o)] # <<>> => m <= Cardinality(Woken(o)')
<1>1. WaitList(o) \in Queue /\ CallInv'
  BY WaitListOf DEF Effect
<1>2. On(k', WaitList(o)) \subseteq On(k, WaitList(o))
  <2> SUFFICES ASSUME NEW u \in On(k', WaitList(o)) PROVE u \in On(k, WaitList(o))
    OBVIOUS
  <2>1. u \in Thread /\ pc'[u] \in {"wait", "woken"}
    BY <1>1, WaiterAfter
  <2> QED
    BY <1>1, <2>1 DEF Effect
<1>3. Woken(o) \ {t} \subseteq Woken(o)'
  BY WokenBut
<1>4. \/ m <= n /\ Woken(o) \subseteq Woken(o)'
      \/ /\ m <= n + 1 /\ Woken(o) \subseteq Woken(o)'
         /\ k.list[WaitList(o)] # <<>> => \E h \in Woken(o)' : h \notin Woken(o)
      \/ m + 1 <= n /\ \E u : Woken(o) \ {u} \subseteq Woken(o)'
  BY <1>3 DEF Supplies, Served
<1> QED
  BY <1>1, <1>2, <1>4, SupplyKept

-----------------------------------------------------------------------------
(* The message queue *)
MqOp == {"mq_send", "mq_urgent", "mq_recv", "mq_reset", "mq_detach"}

LEMMA MqQueue ==
  /\ "mq_recv" \in WaitOp \ HeapOp /\ WaitList("mq_recv") = MqWaiters
  /\ MqWaiters \in Queue /\ MqOp \subseteq Op
BY WaitListOf DEF WaitOp, HeapOp, MqOp, Op

(* What a step of the message queue does to the threads and to its supply *)
MqStep ==
  \E t, W : /\ Moves(t, W, MqOp)
            /\ \/ entry' = 0 \/ k'.list[MqWaiters] = <<>>
               \/ /\ Supplies(t, "mq_recv", entry, entry')
                  /\ t \in Thread => pc'[t] \notin {"wait", "woken"}

LEMMA MovesMore ==
  ASSUME NEW t, NEW W, NEW O, Moves(t, W, O), NEW P, O \subseteq P
  PROVE  Moves(t, W, P)
BY DEF Moves, Within

LEMMA MqTakeFreeStep ==
  ASSUME CallInv, entry \in Nat, NEW t \in Thread, NEW o \in {"mq_send", "mq_urgent"},
         MqTakeFree(t, o)
  PROVE  MqStep
<1>1. Runs(t) /\ pc[t] = "user" /\ o \in Op /\ MayDo(t, o)
  BY CallRuns DEF MqTakeFree
<1>2. /\ SameKernel /\ "link" \in PC \ Special /\ Goto(t, o, "link")
      /\ prog' = prog /\ alive' \subseteq alive /\ timed' = timed /\ o \in MqOp
  BY DEF MqTakeFree, SameKernel, PC, Special, StPlaces, HeapPlaces, MqOp
<1>3. op[t] \in MqOp \/ pc[t] \in Outer
  BY <1>1 DEF Outer
<1>4. Moves(t, {}, MqOp) /\ pc'[t] = "link"
  BY <1>1, <1>2, <1>3, GotoMoves
<1>5. entry' = entry /\ t \notin Woken("mq_recv")
  BY <1>1 DEF MqTakeFree, Woken
<1>6. Supplies(t, "mq_recv", entry, entry')
  BY <1>5 DEF Supplies
<1> QED
  BY <1>4, <1>6 DEF MqStep

LEMMA MqLinkStep ==
  ASSUME CallInv, entry \in Nat, NEW t \in Thread, NEW o \in {"mq_send", "mq_urgent"},
         MqLink(t, o)
  PROVE  MqStep
<1> DEFINE w == "mq_recv"
<1>1. /\ Runs(t) /\ op[t] = o /\ pc[t] = "link" /\ MayDo(t, o) /\ o \in Op
      /\ op \in [Thread -> Op \cup {"none"}] /\ timed \in [Thread -> BOOLEAN]
  BY AtRuns DEF MqLink, Special, StPlaces, HeapPlaces, CallInv, Settled, Op
<1>2. w \in WaitOp \ HeapOp /\ w # "event_recv" /\ WaitList(w) = MqWaiters
  BY MqQueue
<1> HIDE DEF w
<1>3. Steady
  BY <1>1 DEF MqLink, WakeOneAndReturn, Return, Steady
<1>4. IF k.list[WaitList(w)] # <<>>
      THEN /\ k' = IpcResume(k, WaitList(w))
           /\ op' = [op EXCEPT ![t] = o] /\ pc' = [pc EXCEPT ![t] = "sched"]
      ELSE k' = k /\ Goto(t, "none", "user")
  BY <1>1, <1>2 DEF MqLink, WakeOneAndReturn, Return, Proceed
<1>5. op[t] \in MqOp \/ pc[t] \in Outer
  BY <1>1 DEF MqOp
<1>6. /\ \E W \in SUBSET On(k, WaitList(w)) : Moves(t, W, MqOp)
      /\ Served(w) /\ pc'[t] \in {"sched", "user"}
  BY <1>1, <1>2, <1>3, <1>4, <1>5, ServesOne
<1>7. entry' = entry + 1 /\ t \notin Woken(w)
  BY <1>1 DEF MqLink, Enqueue, Woken
<1>8. Supplies(t, w, entry, entry')
  BY <1>6, <1>7 DEF Supplies
<1> QED
  BY <1>6, <1>8 DEF MqStep, w

LEMMA MqIsrSendStep ==
  ASSUME CallInv, entry \in Nat, NEW o, MqIsrSend(o)
  PROVE  MqStep
<1> DEFINE w == "mq_recv"
<1>1. w \in WaitOp \ HeapOp /\ w # "event_recv" /\ WaitList(w) = MqWaiters
  BY MqQueue
<1>2. Steady
  BY DEF MqIsrSend, IsrWakeOne, Steady, CallInv
<1>3. IsrWakeOne(WaitList(w))
  BY <1>1 DEF MqIsrSend
<1> HIDE DEF w
<1>4. (\E W \in SUBSET On(k, WaitList(w)) : Moves(Isr, W, {})) /\ Served(w)
  BY <1>1, <1>2, <1>3, IsrServesOne
<1>5. PICK W : Moves(Isr, W, {})
  BY <1>4
<1>6. Moves(Isr, W, MqOp)
  BY <1>5, MovesMore
<1>7. entry' = entry + 1 /\ Isr \notin Woken(w) /\ Isr \notin Thread
  BY SystemAssumption DEF MqIsrSend, Enqueue, Woken
<1>8. Supplies(Isr, w, entry, entry')
  BY <1>4, <1>7 DEF Supplies
<1> QED
  BY <1>6, <1>7, <1>8 DEF MqStep, w

LEMMA MqRecvStep ==
  ASSUME CallInv, entry \in Nat, NEW t \in Thread,
         MqRecvWait(t) \/ MqRecvTimeIsUp(t) \/ MqRecvTake(t) \/ MqRecvFree(t)
  PROVE  MqStep
<1>0. {"mq_recv"} \subseteq MqOp /\ "mq_recv" \in WaitOp
  BY MqQueue DEF MqOp
<1>1. CASE MqRecvWait(t)
  <2>1. Moves(t, {}, {"mq_recv"})
    BY <1>1, MqQueue, WaitMoves DEF MqRecvWait
  <2>2. entry' = 0
    BY <1>1 DEF MqRecvWait, mqVars
  <2> QED
    BY <1>0, <2>1, <2>2, MovesMore DEF MqStep
<1>2. CASE MqRecvTimeIsUp(t)
  <2>1. Moves(t, {}, {"mq_recv"})
    BY <1>0, <1>2, TimeIsUpMoves DEF MqRecvTimeIsUp, Err
  <2>2. entry' = 0
    BY <1>2 DEF MqRecvTimeIsUp, mqVars
  <2> QED
    BY <1>0, <2>1, <2>2, MovesMore DEF MqStep
<1>3. CASE MqRecvTake(t)
  <2>1. /\ Runs(t) /\ MayDo(t, "mq_recv")
        /\ \/ op[t] = "mq_recv" /\ pc[t] = "woken" /\ k.err[t] = "EOK"
           \/ pc[t] = "user" /\ "mq_recv" \in Op
    BY <1>3, LoopRuns DEF MqRecvTake
  <2>2. /\ SameKernel /\ "copy_out" \in PC \ Special /\ Goto(t, "mq_recv", "copy_out")
        /\ prog' = prog /\ alive' \subseteq alive /\ timed' = timed /\ "mq_recv" \in MqOp
        /\ "mq_recv" \in Op
    BY <1>3 DEF MqRecvTake, SameKernel, PC, Special, StPlaces, HeapPlaces, MqOp, Op
  <2>3. op[t] \in MqOp \/ pc[t] \in Outer
    BY <2>1 DEF Outer, MqOp
  <2>4. Moves(t, {}, MqOp) /\ pc'[t] = "copy_out"
    BY <2>1, <2>2, <2>3, GotoMoves
  <2>5. entry' = entry - 1 /\ entry > 0
    BY <1>3 DEF MqRecvTake
  <2>6. Supplies(t, "mq_recv", entry, entry')
    BY <2>5 DEF Supplies
  <2> QED
    BY <2>4, <2>6 DEF MqStep
<1>4. CASE MqRecvFree(t)
  <2>1. Runs(t) /\ op[t] = "mq_recv" /\ pc[t] = "copy_out"
    BY <1>4, AtRuns DEF MqRecvFree, Special, StPlaces, HeapPlaces
  <2>2. SameKernel /\ Return(t) /\ prog' = prog /\ alive' = alive
    BY <1>4 DEF MqRecvFree, SameKernel
  <2>3. op[t] \in MqOp \/ pc[t] \in Outer
    BY <2>1 DEF MqOp
  <2>4. Moves(t, {}, MqOp) /\ pc'[t] = "user"
    BY <2>1, <2>2, <2>3, ReturnMoves
  <2>5. entry' = entry /\ t \notin Woken("mq_recv")
    BY <1>4, <2>1 DEF MqRecvFree, Woken
  <2>6. Supplies(t, "mq_recv", entry, entry')
    BY <2>5 DEF Supplies
  <2> QED
    BY <2>4, <2>6 DEF MqStep
<1> QED
  BY <1>1, <1>2, <1>3, <1>4

LEMMA MqOtherStep ==
  ASSUME CallInv, entry \in Nat, NEW t \in Thread,
         \/ GiveUp(t, "mq_recv") /\ UNCHANGED mqVars
         \/ MqReset(t) \/ MqDetach(t)
  PROVE  MqStep
<1> DEFINE w == "mq_recv"
<1>0. /\ {w} \subseteq MqOp /\ {"mq_detach"} \subseteq MqOp /\ {} \subseteq MqOp
      /\ "mq_detach" \in Op /\ w \in WaitOp \ HeapOp /\ WaitList(w) = MqWaiters
  BY MqQueue DEF MqOp, Op
<1>1. CASE GiveUp(t, w) /\ UNCHANGED mqVars
  <2>1. Moves(t, {}, {w}) /\ pc'[t] = "user" /\ t \notin Woken(w)
    BY <1>1, GiveUpMoves
  <2>2. entry' = entry
    BY <1>1 DEF mqVars
  <2>3. Supplies(t, w, entry, entry') /\ pc'[t] \notin {"wait", "woken"}
    BY <2>1, <2>2 DEF Supplies
  <2>4. Moves(t, {}, MqOp)
    BY <1>0, <2>1, MovesMore
  <2> QED
    BY <2>3, <2>4 DEF MqStep
<1>2. CASE MqReset(t)
  <2> DEFINE W == On(k, WaitList(w))
  <2>a. k' = ResumeAll(k, WaitList(w))
    BY <1>0, <1>2 DEF MqReset
  <2>1. /\ Wakes(k, k', W, W) /\ k'.current = k.current /\ \A u \in W : Stirred(u)
    <3>1. /\ Wakes(k, k', W, W) /\ k'.current = k.current
          /\ \A u \in W : op[u] = w /\ op[u] \notin HeapOp
      BY <1>0, <2>a, AllWakeHere
    <3> QED
      BY <3>1 DEF Stirred
  <2>2. /\ Calls(t, "mq_reset", "mq") /\ Goto(t, "mq_reset", "sched")
        /\ prog' = prog /\ alive' = alive /\ timed' = timed /\ entry' = 0
    BY <1>2 DEF MqReset
  <2> HIDE DEF W
  <2>3. Moves(t, W, {})
    BY <2>1, <2>2, ResetMoves
  <2>4. Moves(t, W, MqOp)
    BY <1>0, <2>3, MovesMore
  <2> QED
    BY <2>2, <2>4 DEF MqStep
<1>3. CASE MqDetach(t)
  <2>1. entry' = entry
    BY <1>3 DEF MqDetach, mqVars
  <2>2. CASE Detach(t, "mq_detach", "mq")
    <3>1. Moves(t, {}, {"mq_detach"}) /\ pc'[t] = "test" /\ t \notin Woken(w)
      BY <2>2, CallRuns, DetachMoves DEF Woken, Detach
    <3>2. Supplies(t, w, entry, entry') /\ pc'[t] \notin {"wait", "woken"}
      BY <2>1, <3>1 DEF Supplies
    <3>3. Moves(t, {}, MqOp)
      BY <1>0, <3>1, MovesMore
    <3> QED
      BY <3>2, <3>3 DEF MqStep
  <2>3. CASE DrainTest(t, "mq_detach", MqWaiters, "test", "resume", "user")
    <3>1. Moves(t, {}, {"mq_detach"}) /\ pc'[t] \notin {"wait", "woken"}
      BY <1>0, <2>3, DrainTestMoves
    <3>2. t \notin Woken(w)
      BY <2>3 DEF DrainTest, At, Woken
    <3>3. Supplies(t, w, entry, entry')
      BY <2>1, <3>2 DEF Supplies
    <3>4. Moves(t, {}, MqOp)
      BY <1>0, <3>1, MovesMore
    <3> QED
      BY <3>1, <3>3, <3>4 DEF MqStep
  <2>4. CASE DrainResume(t, "mq_detach", MqWaiters, "test", "resume")
    <3>1. /\ \E W \in SUBSET On(k, WaitList(w)) : Moves(t, W, {"mq_detach"})
          /\ pc'[t] \notin {"wait", "woken"}
      BY <1>0, <2>4, DrainResumeMoves
    <3>2. t \notin Woken(w)
      BY <2>4 DEF DrainResume, At, Woken
    <3>3. Supplies(t, w, entry, entry')
      BY <2>1, <3>2 DEF Supplies
    <3>4. PICK W : Moves(t, W, {"mq_detach"})
      BY <3>1
    <3>5. Moves(t, W, MqOp)
      BY <1>0, <3>4, MovesMore
    <3> QED
      BY <3>1, <3>3, <3>5 DEF MqStep
  <2> QED
    BY <1>3, <2>2, <2>3, <2>4 DEF MqDetach
<1> QED
  BY <1>1, <1>2, <1>3

LEMMA MqMoves ==
  ASSUME CallInv, entry \in Nat, MqNext
  PROVE  MqStep
BY MqTakeFreeStep, MqLinkStep, MqIsrSendStep, MqRecvStep, MqOtherStep DEF MqNext

LEMMA MqSupplied ==
  ASSUME CallInv, entry \in Nat, entry' \in Nat, MqNext, MqNoLostWakeUp
  PROVE  MqNoLostWakeUp'
<1>1. PICK t, W :
        /\ Moves(t, W, MqOp)
        /\ \/ entry' = 0 \/ k'.list[MqWaiters] = <<>>
           \/ /\ Supplies(t, "mq_recv", entry, entry')
              /\ t \in Thread => pc'[t] \notin {"wait", "woken"}
  BY MqMoves DEF MqStep
<1>2. Effect(t, W)
  BY <1>1 DEF Moves
<1>3. CASE entry' = 0 \/ k'.list[MqWaiters] = <<>>
  BY <1>3, WokenFinite DEF MqNoLostWakeUp
<1>4. CASE /\ Supplies(t, "mq_recv", entry, entry')
           /\ t \in Thread => pc'[t] \notin {"wait", "woken"}
  BY <1>2, <1>4, MqQueue, SupplyGoesOn DEF MqNoLostWakeUp
<1> QED
  BY <1>1, <1>3, <1>4

LEMMA MqLeft ==
  ASSUME CallInv, entry \in Nat, Leaves("mq_recv"), UNCHANGED mqVars, MqNoLostWakeUp
  PROVE  MqNoLostWakeUp'
<1>1. entry' = entry
  BY DEF mqVars
<1> QED
  BY <1>1, MqQueue, SupplyLeft DEF MqNoLostWakeUp

-----------------------------------------------------------------------------
(* The mailbox: mails for receivers and free slots for senders *)
MbOp == {"mb_send", "mb_recv", "mb_reset", "mb_detach"}

LEMMA MbQueues ==
  /\ "mb_recv" \in WaitOp \ HeapOp /\ WaitList("mb_recv") = MbReceivers
  /\ "mb_send" \in WaitOp \ HeapOp /\ WaitList("mb_send") = MbSenders
  /\ MbOp \subseteq Op /\ MbReceivers \in Queue /\ MbSenders \in Queue
BY WaitListOf DEF WaitOp, HeapOp, MbOp, Op

LEMMA MovesLeaves ==
  ASSUME NEW t, NEW W, NEW O, Moves(t, W, O), NEW o, o \notin O
  PROVE  Leaves(o)
BY DEF Moves, Leaves

(* What a step that t takes does to the supply for o, n before and m after  *)
Provides(t, o, n, m) ==
  \/ m = 0 \/ k'.list[WaitList(o)] = <<>>
  \/ Leaves(o) /\ m = n
  \/ Supplies(t, o, n, m) /\ (t \in Thread => pc'[t] \notin {"wait", "woken"})

LEMMA SupplyProvided ==
  ASSUME CallInv, NEW o \in WaitOp \ HeapOp, NEW t, NEW W, Effect(t, W),
         NEW n \in Nat, NEW m \in Nat, Provides(t, o, n, m),
         k.list[WaitList(o)] # <<>> => n <= Cardinality(Woken(o))
  PROVE  k'.list[WaitList(o)] # <<>> => m <= Cardinality(Woken(o)')
<1>1. CASE m = 0 \/ k'.list[WaitList(o)] = <<>>
  BY <1>1, WokenFinite
<1>2. CASE Leaves(o) /\ m = n
  BY <1>2, SupplyLeft
<1>3. CASE Supplies(t, o, n, m) /\ (t \in Thread => pc'[t] \notin {"wait", "woken"})
  BY <1>3, SupplyGoesOn
<1> QED
  BY <1>1, <1>2, <1>3 DEF Provides

MbProvides(t) ==
  /\ Provides(t, "mb_recv", mb_entry, mb_entry')
  /\ Provides(t, "mb_send", MbSize - mb_entry, MbSize - mb_entry')

MbStep == \E t, W : Moves(t, W, MbOp) /\ MbProvides(t)

LEMMA MbWaitStep ==
  ASSUME CallInv, mb_entry \in 0 .. MbSize, NEW t \in Thread,
         \/ MbSendWait(t) \/ MbSendTimeIsUp(t) \/ MbRecvWait(t) \/ MbRecvTimeIsUp(t)
  PROVE  MbStep
<1>0. /\ {"mb_send"} \subseteq MbOp /\ {"mb_recv"} \subseteq MbOp /\ MbSize \in Nat
      /\ "mb_recv" \notin {"mb_send"} /\ "mb_send" \notin {"mb_recv"}
  BY MailboxAssumption DEF MbOp
<1>1. CASE MbSendWait(t) \/ MbSendTimeIsUp(t)
  <2>1. Moves(t, {}, {"mb_send"})
    <3>1. CASE MbSendWait(t)
      BY <3>1, MbQueues, WaitMoves DEF MbSendWait
    <3>2. CASE MbSendTimeIsUp(t)
      BY <3>2, MbQueues, TimeIsUpMoves DEF MbSendTimeIsUp, Err
    <3> QED
      BY <1>1, <3>1, <3>2
  <2>2. mb_entry' = mb_entry /\ mb_entry = MbSize
    BY <1>1 DEF MbSendWait, MbSendTimeIsUp, mbVars
  <2>3. Leaves("mb_recv") /\ Moves(t, {}, MbOp)
    BY <1>0, <2>1, MovesLeaves, MovesMore
  <2>4. Provides(t, "mb_recv", mb_entry, mb_entry')
    BY <2>2, <2>3 DEF Provides
  <2>5. Provides(t, "mb_send", MbSize - mb_entry, MbSize - mb_entry')
    BY <1>0, <2>2 DEF Provides
  <2> QED
    BY <2>3, <2>4, <2>5 DEF MbStep, MbProvides
<1>2. CASE MbRecvWait(t) \/ MbRecvTimeIsUp(t)
  <2>1. Moves(t, {}, {"mb_recv"})
    <3>1. CASE MbRecvWait(t)
      BY <3>1, MbQueues, WaitMoves DEF MbRecvWait
    <3>2. CASE MbRecvTimeIsUp(t)
      BY <3>2, MbQueues, TimeIsUpMoves DEF MbRecvTimeIsUp, Err
    <3> QED
      BY <1>2, <3>1, <3>2
  <2>2. mb_entry' = mb_entry /\ mb_entry = 0
    BY <1>2 DEF MbRecvWait, MbRecvTimeIsUp, mbVars
  <2>3. Leaves("mb_send") /\ Moves(t, {}, MbOp)
    BY <1>0, <2>1, MovesLeaves, MovesMore
  <2>4. Provides(t, "mb_recv", mb_entry, mb_entry')
    BY <2>2 DEF Provides
  <2>5. Provides(t, "mb_send", MbSize - mb_entry, MbSize - mb_entry')
    BY <2>2, <2>3 DEF Provides
  <2> QED
    BY <2>3, <2>4, <2>5 DEF MbStep, MbProvides
<1> QED
  BY <1>1, <1>2

(* A call that ends with EnterWakeOne *)
LEMMA EnterServesOne ==
  ASSUME CallInv, NEW t \in Thread, NEW o \in Op, NEW x, InLoop(t, o, x),
         NEW w \in WaitOp \ HeapOp, w # "event_recv", EnterWakeOne(t, o, WaitList(w)), w # o,
         prog' = prog, alive' = alive
  PROVE  /\ \E W \in SUBSET On(k, WaitList(w)) : Moves(t, W, {o})
         /\ Served(w) /\ pc'[t] \notin {"wait", "woken"} /\ t \notin Woken(w)
<1>1. /\ Runs(t) /\ MayDo(t, o)
      /\ \/ op[t] = o /\ pc[t] = "woken"
         \/ pc[t] = "user"
      /\ timed \in [Thread -> BOOLEAN]
  BY LoopRuns DEF CallInv
<1>2. Steady
  BY <1>1 DEF EnterWakeOne, Return, Steady
<1>3. IF k.list[WaitList(w)] # <<>>
      THEN /\ k' = IpcResume(k, WaitList(w))
           /\ op' = [op EXCEPT ![t] = o] /\ pc' = [pc EXCEPT ![t] = "sched"]
      ELSE k' = k /\ Goto(t, "none", "user")
  BY DEF EnterWakeOne, Return, Goto
<1>4. op[t] \in {o} \/ pc[t] \in Outer
  BY <1>1 DEF Outer
<1>5. /\ \E W \in SUBSET On(k, WaitList(w)) : Moves(t, W, {o})
      /\ Served(w) /\ pc'[t] \in {"sched", "user"}
  BY <1>1, <1>2, <1>3, <1>4, ServesOne
<1> QED
  BY <1>1, <1>5 DEF Woken

LEMMA MbTransferStep ==
  ASSUME CallInv, mb_entry \in 0 .. MbSize, NEW t \in Thread, MbSend(t) \/ MbRecv(t)
  PROVE  MbStep
<1>0. /\ {"mb_send"} \subseteq MbOp /\ {"mb_recv"} \subseteq MbOp /\ MbSize \in Nat
      /\ "mb_send" \in Op /\ "mb_recv" \in Op
  BY MailboxAssumption DEF MbOp, Op
<1>1. CASE MbSend(t)
  <2>1. /\ InLoop(t, "mb_send", "mb") /\ EnterWakeOne(t, "mb_send", WaitList("mb_recv"))
        /\ prog' = prog /\ alive' = alive /\ "mb_recv" # "mb_send"
    BY <1>1, MbQueues DEF MbSend
  <2>2. /\ \E W \in SUBSET On(k, WaitList("mb_recv")) : Moves(t, W, {"mb_send"})
        /\ Served("mb_recv") /\ pc'[t] \notin {"wait", "woken"} /\ t \notin Woken("mb_recv")
    BY <1>0, <2>1, MbQueues, EnterServesOne
  <2>3. PICK W : Moves(t, W, {"mb_send"})
    BY <2>2
  <2>4. mb_entry' = mb_entry + 1 /\ mb_entry < MbSize
    BY <1>0, <1>1 DEF MbSend, PutMail
  <2>5. Supplies(t, "mb_recv", mb_entry, mb_entry')
    BY <2>2, <2>4 DEF Supplies
  <2>6. Supplies(t, "mb_send", MbSize - mb_entry, MbSize - mb_entry')
    BY <1>0, <2>4 DEF Supplies
  <2>7. Moves(t, W, MbOp)
    BY <1>0, <2>3, MovesMore
  <2> QED
    BY <2>2, <2>5, <2>6, <2>7 DEF MbStep, MbProvides, Provides
<1>2. CASE MbRecv(t)
  <2>1. /\ InLoop(t, "mb_recv", "mb") /\ EnterWakeOne(t, "mb_recv", WaitList("mb_send"))
        /\ prog' = prog /\ alive' = alive /\ "mb_send" # "mb_recv"
    BY <1>2, MbQueues DEF MbRecv
  <2>2. /\ \E W \in SUBSET On(k, WaitList("mb_send")) : Moves(t, W, {"mb_recv"})
        /\ Served("mb_send") /\ pc'[t] \notin {"wait", "woken"} /\ t \notin Woken("mb_send")
    BY <1>0, <2>1, MbQueues, EnterServesOne
  <2>3. PICK W : Moves(t, W, {"mb_recv"})
    BY <2>2
  <2>4. mb_entry' = mb_entry - 1 /\ mb_entry > 0
    BY <1>0, <1>2 DEF MbRecv
  <2>5. Supplies(t, "mb_recv", mb_entry, mb_entry')
    BY <2>4 DEF Supplies
  <2>6. Supplies(t, "mb_send", MbSize - mb_entry, MbSize - mb_entry')
    BY <1>0, <2>2, <2>4 DEF Supplies
  <2>7. Moves(t, W, MbOp)
    BY <1>0, <2>3, MovesMore
  <2> QED
    BY <2>2, <2>5, <2>6, <2>7 DEF MbStep, MbProvides, Provides
<1> QED
  BY <1>1, <1>2

LEMMA MbGiveUpStep ==
  ASSUME CallInv, mb_entry \in 0 .. MbSize, NEW t \in Thread,
         NEW o \in {"mb_send", "mb_recv"}, GiveUp(t, o), UNCHANGED mbVars
  PROVE  MbStep
<1>1. /\ Moves(t, {}, {o}) /\ pc'[t] \notin {"wait", "woken"} /\ t \notin Woken(o)
      /\ {o} \subseteq MbOp /\ mb_entry' = mb_entry /\ MbSize \in Nat
  BY GiveUpMoves, MailboxAssumption DEF MbOp, mbVars
<1>2. Moves(t, {}, MbOp)
  BY <1>1, MovesMore
<1>3. ASSUME NEW p, NEW n \in Int, NEW m, m = n PROVE Provides(t, p, n, m)
  <2>1. CASE p = o
    BY <1>1, <1>3, <2>1 DEF Provides, Supplies
  <2>2. CASE p # o
    <3>1. p \notin {o}
      BY <2>2
    <3>2. Leaves(p)
      BY <1>1, <3>1, MovesLeaves
    <3> QED
      BY <1>3, <3>2 DEF Provides
  <2> QED
    BY <2>1, <2>2
<1>4. /\ Provides(t, "mb_recv", mb_entry, mb_entry')
      /\ Provides(t, "mb_send", MbSize - mb_entry, MbSize - mb_entry')
  BY <1>1, <1>3
<1> QED
  BY <1>2, <1>4 DEF MbStep, MbProvides

LEMMA MbResetStep ==
  ASSUME CallInv, mb_entry \in 0 .. MbSize, NEW t \in Thread, MbReset(t)
  PROVE  MbStep
<1> DEFINE kk == ResumeAll(k, MbReceivers)
           V == On(k, MbReceivers)
           W == V \cup On(kk, WaitList("mb_send"))
<1>1. /\ Lively(kk) /\ Wakes(k, kk, V, V) /\ kk.current = k.current
      /\ V \in SUBSET Thread /\ \A u \in V : Listed(u)
      /\ kk.list[MbReceivers] = <<>>
  BY MbQueues, AllWakeHere DEF Listed
<1>2. k' = ResumeAll(kk, WaitList("mb_send"))
  BY MbQueues DEF MbReset
<1> HIDE DEF kk, V
<1>3. /\ Wakes(k, k', W, W) /\ k'.current = k.current /\ \A u \in W : Stirred(u)
      /\ k'.list[WaitList("mb_send")] = <<>>
  <2> DEFINE w == "mb_send"
  <2>1. w \in WaitOp \ HeapOp /\ w # "event_recv"
    BY MbQueues
  <2>a. k' = ResumeAll(kk, WaitList(w))
    BY <1>2
  <2>b. W = V \cup On(kk, WaitList(w))
    OBVIOUS
  <2> HIDE DEF w, W
  <2>c. LET U == V \cup On(kk, WaitList(w))
        IN  /\ Wakes(k, k', U, U) /\ k'.current = k.current
            /\ \A u \in U : Listed(u)
            /\ k'.list[WaitList(w)] = <<>>
    BY <1>1, <2>1, <2>a, AllWake
  <2>2. /\ Wakes(k, k', W, W) /\ k'.current = k.current
        /\ \A u \in W : Listed(u)
        /\ k'.list[WaitList("mb_send")] = <<>>
    BY <2>b, <2>c DEF w
  <2> QED
    BY <2>2, ListedStirred
<1> HIDE DEF W
<1>4. /\ Calls(t, "mb_reset", "mb") /\ Goto(t, "mb_reset", "sched")
      /\ prog' = prog /\ alive' = alive /\ timed' = timed /\ mb_entry' = 0
  BY DEF MbReset
<1>5. Moves(t, W, {})
  BY <1>3, <1>4, ResetMoves
<1>6. Moves(t, W, MbOp)
  BY <1>5, MovesMore
<1>7. Provides(t, "mb_recv", mb_entry, mb_entry')
  BY <1>4 DEF Provides
<1>8. Provides(t, "mb_send", MbSize - mb_entry, MbSize - mb_entry')
  BY <1>3, MbQueues DEF Provides
<1> QED
  BY <1>6, <1>7, <1>8 DEF MbStep, MbProvides

LEMMA MbDetachStep ==
  ASSUME CallInv, mb_entry \in 0 .. MbSize, NEW t \in Thread, MbDetach(t)
  PROVE  MbStep
<1>0. mb_entry' = mb_entry /\ "mb_detach" \in Op /\ {"mb_detach"} \subseteq MbOp
  BY DEF MbDetach, mbVars, Op, MbOp
<1>1. \E W : Moves(t, W, {"mb_detach"})
  <2>1. CASE Detach(t, "mb_detach", "mb")
    BY <2>1, DetachMoves
  <2>2. CASE DrainTest(t, "mb_detach", MbReceivers, "test", "resume", "test2")
    BY <1>0, <2>2, DrainTestMoves
  <2>3. CASE DrainResume(t, "mb_detach", MbReceivers, "test", "resume")
    BY <1>0, <2>3, MbQueues, DrainResumeMoves
  <2>4. CASE DrainTest(t, "mb_detach", MbSenders, "test2", "resume2", "user")
    BY <1>0, <2>4, DrainTestMoves
  <2>5. CASE DrainResume(t, "mb_detach", MbSenders, "test2", "resume2")
    BY <1>0, <2>5, MbQueues, DrainResumeMoves
  <2> QED
    BY <2>1, <2>2, <2>3, <2>4, <2>5 DEF MbDetach
<1>2. PICK W : Moves(t, W, {"mb_detach"})
  BY <1>1
<1>3. Moves(t, W, MbOp)
  BY <1>0, <1>2, MovesMore
<1>4. "mb_recv" \notin {"mb_detach"} /\ "mb_send" \notin {"mb_detach"}
  OBVIOUS
<1>5. Leaves("mb_recv") /\ Leaves("mb_send")
  BY <1>2, <1>4, MovesLeaves
<1> QED
  BY <1>0, <1>3, <1>5 DEF MbStep, MbProvides, Provides

LEMMA MbMoves ==
  ASSUME CallInv, mb_entry \in 0 .. MbSize, MbNext
  PROVE  MbStep
BY MbWaitStep, MbTransferStep, MbGiveUpStep, MbResetStep, MbDetachStep DEF MbNext

(* Blocks of the memory pool that interrupt handlers post *)
LEMMA ProduceStep ==
  ASSUME CallInv, mb_entry \in 0 .. MbSize, IsrProduce
  PROVE  MbProvides(Isr) /\ \E W : Moves(Isr, W, {})
<1>1. Steady
  BY DEF IsrProduce, IsrWakeOne, Steady, CallInv
<1>2. IsrWakeOne(WaitList("mb_recv"))
  BY MbQueues DEF IsrProduce
<1>3. (\E W \in SUBSET On(k, WaitList("mb_recv")) : Moves(Isr, W, {})) /\ Served("mb_recv")
  BY <1>1, <1>2, MbQueues, IsrServesOne
<1>4. PICK W : Moves(Isr, W, {})
  BY <1>3
<1>5. mb_entry' = mb_entry + 1 /\ mb_entry < MbSize /\ MbSize \in Nat
  BY MailboxAssumption DEF IsrProduce, PutMail
<1>6. Isr \notin Woken("mb_recv") /\ Isr \notin Thread
  BY SystemAssumption DEF Woken
<1>7. Supplies(Isr, "mb_recv", mb_entry, mb_entry')
  BY <1>3, <1>5, <1>6 DEF Supplies
<1>8. Supplies(Isr, "mb_send", MbSize - mb_entry, MbSize - mb_entry')
  BY <1>5 DEF Supplies
<1> QED
  BY <1>4, <1>6, <1>7, <1>8 DEF Provides, MbProvides

LEMMA RoomFor ==
  ASSUME NEW n \in 0 .. MbSize
  PROVE  n \in Nat /\ MbSize - n \in Nat
<1>1. MbSize \in Nat
  BY MailboxAssumption
<1> QED
  BY <1>1

LEMMA MbSupplied ==
  ASSUME CallInv, mb_entry \in 0 .. MbSize, mb_entry' \in 0 .. MbSize, MbNoLostWakeUp,
         NEW t, NEW W, Effect(t, W), MbProvides(t)
  PROVE  MbNoLostWakeUp'
<1>1. /\ mb_entry \in Nat /\ mb_entry' \in Nat
      /\ MbSize - mb_entry \in Nat /\ MbSize - mb_entry' \in Nat
  BY RoomFor
<1>2. k'.list[MbReceivers] # <<>> => mb_entry' <= Cardinality(Woken("mb_recv")')
  BY <1>1, MbQueues, SupplyProvided DEF MbNoLostWakeUp, MbProvides
<1> DEFINE n == MbSize - mb_entry
           m == MbSize - mb_entry'
<1>3. /\ n \in Nat /\ m \in Nat /\ Provides(t, "mb_send", n, m)
      /\ k.list[WaitList("mb_send")] # <<>> => n <= Cardinality(Woken("mb_send"))
  BY <1>1, MbQueues DEF MbNoLostWakeUp, MbProvides
<1> HIDE DEF n, m
<1>4. k'.list[MbSenders] # <<>> => m <= Cardinality(Woken("mb_send")')
  BY <1>3, MbQueues, SupplyProvided
<1> QED
  BY <1>2, <1>4 DEF MbNoLostWakeUp, m

LEMMA MbLeft ==
  ASSUME CallInv, mb_entry \in 0 .. MbSize, Leaves("mb_recv"), Leaves("mb_send"),
         UNCHANGED mbVars, MbNoLostWakeUp
  PROVE  MbNoLostWakeUp'
<1> DEFINE n == MbSize - mb_entry
<1>1. mb_entry' = mb_entry /\ mb_entry \in Nat /\ n \in Nat
  BY MailboxAssumption DEF mbVars
<1>2. k'.list[MbReceivers] # <<>> => mb_entry <= Cardinality(Woken("mb_recv")')
  BY <1>1, MbQueues, SupplyLeft DEF MbNoLostWakeUp
<1>3. k.list[WaitList("mb_send")] # <<>> => n <= Cardinality(Woken("mb_send"))
  BY MbQueues DEF MbNoLostWakeUp
<1> HIDE DEF n
<1>4. k'.list[MbSenders] # <<>> => n <= Cardinality(Woken("mb_send")')
  BY <1>1, <1>3, MbQueues, SupplyLeft
<1> QED
  BY <1>1, <1>2, <1>4 DEF MbNoLostWakeUp, n

-----------------------------------------------------------------------------
(* The memory pool: blocks for those that wait, who are counted *)
MpOp == {"mp_alloc", "mp_free", "mp_detach"}

MpCount ==
  /\ suspend_thread_count \in 0 .. MaxSuspended
  /\ Cardinality(On(k, MpWaiters)) <= suspend_thread_count

MpStep ==
  \E t, W : /\ Moves(t, W, MpOp) /\ MpCount'
            /\ Provides(t, "mp_alloc", block_free_count, block_free_count')

LEMMA MpQueue ==
  /\ "mp_alloc" \in WaitOp \ HeapOp /\ WaitList("mp_alloc") = MpWaiters
  /\ MpWaiters \in Queue /\ MpOp \subseteq Op
  /\ {"mp_alloc"} \subseteq MpOp /\ {"mp_detach"} \subseteq MpOp /\ {} \subseteq MpOp
BY WaitListOf DEF WaitOp, HeapOp, MpOp, Op

LEMMA MpCounted ==
  ASSUME CallInv, MpCount
  PROVE  /\ IsFiniteSet(On(k, MpWaiters)) /\ Cardinality(On(k, MpWaiters)) \in Nat
         /\ k.list[MpWaiters] # <<>> => Cardinality(On(k, MpWaiters)) # 0
         /\ k.list[MpWaiters] = <<>> => Cardinality(On(k, MpWaiters)) = 0
         /\ suspend_thread_count \in Nat /\ MaxSuspended \in Nat
<1>1. /\ IsFiniteSet(On(k, MpWaiters))
      /\ k.list[MpWaiters] = <<>> <=> On(k, MpWaiters) = {}
  BY MpQueue, ListsOf
<1>2. Cardinality(On(k, MpWaiters)) \in Nat
  BY <1>1, FS_CardinalityType
<1>3. Cardinality(On(k, MpWaiters)) = 0 <=> On(k, MpWaiters) = {}
  BY <1>1, FS_EmptySet
<1> QED
  BY <1>1, <1>2, <1>3, MemPoolAssumption DEF MpCount

LEMMA MpCountLeft ==
  ASSUME CallInv, MpCount, On(k', MpWaiters) \subseteq On(k, MpWaiters),
         suspend_thread_count' = suspend_thread_count
  PROVE  MpCount'
<1>1. IsFiniteSet(On(k, MpWaiters)) /\ Cardinality(On(k, MpWaiters)) \in Nat
  BY MpCounted
<1>2. /\ IsFiniteSet(On(k', MpWaiters))
      /\ Cardinality(On(k', MpWaiters)) <= Cardinality(On(k, MpWaiters))
  BY <1>1, FS_Subset
<1>3. Cardinality(On(k', MpWaiters)) \in Nat
  BY <1>2, FS_CardinalityType
<1>4. suspend_thread_count \in Nat
  BY MpCounted
<1> QED
  BY <1>1, <1>2, <1>3, <1>4 DEF MpCount

(* A call that sets thread->error and returns at once *)
LEMMA ErrorMoves ==
  ASSUME CallInv, NEW t \in Thread, NEW o, NEW x, Calls(t, o, x), NEW e \in Err,
         k' = [k EXCEPT !.err[t] = e], op' = op, pc' = pc, timed' = timed,
         prog' = prog, alive' = alive
  PROVE  Moves(t, {}, {}) /\ pc'[t] = "user"
<1> DEFINE nobody == {}
           p == op[t]
<1>1. /\ Runs(t) /\ pc[t] = "user" /\ Lively(k) /\ timed \in [Thread -> BOOLEAN]
      /\ op \in [Thread -> Op \cup {"none"}] /\ pc \in [Thread -> PC]
  BY CallRuns, CurrentAwake DEF CallInv, Settled
<1>2. Wakes(k, k', nobody, {t}) /\ Turns(k, k')
  BY ZenonT(40), <1>1, ErrorWakes DEF Turns
<1>3. Steady
  BY <1>1 DEF Steady
<1>4. GoesTo(t, p, "user")
  BY <1>1, <1>3 DEF GoesTo, PC, Special, StPlaces, HeapPlaces, MayDo
<1>5. {t} \subseteq nobody \cup {t} /\ \A u \in nobody : Stirred(u)
  OBVIOUS
<1>6. op[t] \in {} \/ pc[t] \in Outer
  BY <1>1 DEF Outer
<1>7. p \in {} \/ "user" \in Outer
  BY DEF Outer
<1> HIDE DEF nobody, p
<1>8. Moves(t, nobody, {}) /\ pc'[t] = "user"
  BY <1>2, <1>4, <1>5, <1>6, <1>7, Goes
<1> QED
  BY <1>8 DEF nobody

LEMMA MpWaitStep ==
  ASSUME CallInv, MpCount, block_free_count \in Nat, NEW t \in Thread, MpAllocWait(t)
  PROVE  MpStep
<1> DEFINE o == "mp_alloc"
           q == MpWaiters
<1>1. /\ Runs(t) /\ MayDo(t, o) /\ k.stat[t] = "RUNNING"
      /\ \/ op[t] = o /\ pc[t] = "woken"
         \/ pc[t] = "user"
  BY LoopRuns DEF MpAllocWait
<1>2. /\ o \in WaitOp \ HeapOp /\ q = WaitList(o) /\ q \in Queue /\ o \in Op /\ Lively(k)
      /\ t \notin On(k, q) /\ timed \in [Thread -> BOOLEAN]
  BY <1>1, MpQueue, CurrentAwake DEF Runs, MpOp, CallInv
<1>3. PICK limit \in Limit(t) :
        /\ k' = PoolSuspend(k, t, limit)
        /\ timed' = [timed EXCEPT ![t] = limit]
  BY DEF MpAllocWait, PoolSuspend
<1>4. /\ op' = [op EXCEPT ![t] = o] /\ pc' = [pc EXCEPT ![t] = "wait"]
      /\ prog' = prog /\ alive' = alive /\ block_free_count' = 0
      /\ suspend_thread_count' = suspend_thread_count + 1
      /\ suspend_thread_count < MaxSuspended
  BY DEF MpAllocWait, Goto
<1> HIDE DEF q, o
<1>5. limit \in BOOLEAN
  BY <1>2, <1>3 DEF Limit
<1>6. Steady
  BY <1>2, <1>3, <1>4, <1>5 DEF Steady
<1>7. Sleeps(k, k', t, q) /\ k'.err[t] = "EOK"
  BY <1>1, <1>2, <1>3, <1>5, PoolSleeps DEF q
<1>8. /\ t = k.current /\ t # Idle
      /\ pc[t] \notin {"wait", "asleep", "nap", "sched"} \cup Locked
      /\ "wait" \in {"wait", "asleep", "nap"}
  BY <1>1 DEF Runs, Special, StPlaces, HeapPlaces
<1>9. \/ o \in WaitOp /\ q = WaitList(o) /\ "wait" = "wait" /\ k'.err[t] = "EOK"
           /\ (o \in HeapOp => t \notin k'.armed)
      \/ o = "delay" /\ q = Defunct /\ "wait" = "wait" /\ t \in k'.armed
      \/ o = "timer_entry" /\ q = Defunct /\ "wait" \in {"asleep", "nap"} /\ t = TimerThread
  BY <1>2, <1>7
<1>10. Effect(t, {}) /\ op'[t] = o /\ pc'[t] = "wait"
  BY <1>1, <1>2, <1>4, <1>6, <1>7, <1>8, <1>9, SleepEffect
<1>11. Within(t, {o}) /\ Plain(t)
  BY <1>1, <1>10 DEF Within, Plain, Outer, Special, StPlaces, HeapPlaces
<1>12. Moves(t, {}, {o})
  BY <1>10, <1>11 DEF Moves
<1>13. Moves(t, {}, MpOp)
  BY <1>12, MpQueue, MovesMore DEF o
<1>14. MpCount'
  <2>1. IsFiniteSet(On(k, q)) /\ Cardinality(On(k, q)) \in Nat /\ suspend_thread_count \in Nat
        /\ MaxSuspended \in Nat
    BY MpCounted DEF q
  <2>2. On(k', q) = On(k, q) \cup {t}
    BY <1>2, <1>7 DEF Sleeps
  <2>3. Cardinality(On(k', q)) = Cardinality(On(k, q)) + 1
    BY <1>2, <2>1, <2>2, FS_AddElement
  <2> QED
    BY <1>4, <2>1, <2>3 DEF MpCount, q
<1> QED
  BY <1>4, <1>13, <1>14 DEF MpStep, Provides

LEMMA MpAllocStep ==
  ASSUME CallInv, MpCount, block_free_count \in Nat, NEW t \in Thread,
         \/ MpAllocFails(t) \/ MpAlloc(t)
         \/ GiveUp(t, "mp_alloc") /\ UNCHANGED mpVars
  PROVE  MpStep
<1> DEFINE o == "mp_alloc"
<1>1. CASE MpAllocFails(t)
  <2>1. Moves(t, {}, MpOp)
    <3>1. CASE TimeIsUp(t, o, "ETIMEOUT")
      BY <1>1, <3>1, MpQueue, TimeIsUpMoves, MovesMore DEF MpAllocFails, Err
    <3>2. CASE Calls(t, o, "mp") /\ k' = [k EXCEPT !.err[t] = "ETIMEOUT"] /\ UNCHANGED <<op, pc, timed>>
      <4>1. Moves(t, {}, {})
        BY <1>1, <3>2, ErrorMoves DEF MpAllocFails, Err
      <4> QED
        BY <4>1, MpQueue, MovesMore
    <3> QED
      BY <1>1, <3>1, <3>2 DEF MpAllocFails
  <2>2. block_free_count' = 0 /\ suspend_thread_count' = suspend_thread_count
    BY <1>1 DEF MpAllocFails, mpVars
  <2>3. k'.list = k.list
    <3>1. k' = [k EXCEPT !.err[t] = "ETIMEOUT"]
      BY <1>1 DEF MpAllocFails, TimeIsUp
    <3>2. k \in KernelState
      BY CurrentAwake
    <3> QED
      BY <3>1, <3>2 DEF KernelState
  <2>4. MpCount'
    BY <2>2, <2>3, MpCountLeft DEF On
  <2> QED
    BY <2>1, <2>2, <2>4 DEF MpStep, Provides
<1>2. CASE MpAlloc(t)
  <2>1. /\ Runs(t) /\ MayDo(t, o)
        /\ \/ op[t] = o /\ pc[t] = "woken" /\ k.err[t] = "EOK"
           \/ pc[t] = "user" /\ o \in Op
    BY <1>2, LoopRuns DEF MpAlloc
  <2>2. SameKernel /\ Return(t) /\ prog' = prog /\ alive' = alive
    BY <1>2 DEF MpAlloc, SameKernel
  <2>3. op[t] \in MpOp \/ pc[t] \in Outer
    BY <2>1 DEF MpOp, Outer
  <2>4. Moves(t, {}, MpOp) /\ pc'[t] = "user"
    BY <2>1, <2>2, <2>3, ReturnMoves
  <2>5. /\ block_free_count' = block_free_count - 1 /\ block_free_count > 0
        /\ suspend_thread_count' = suspend_thread_count /\ k' = k
    BY <1>2 DEF MpAlloc, TakeBlock
  <2>6. MpCount'
    BY <2>5, MpCountLeft
  <2>7. Supplies(t, o, block_free_count, block_free_count') /\ pc'[t] \notin {"wait", "woken"}
    BY <2>4, <2>5 DEF Supplies
  <2> QED
    BY <2>4, <2>6, <2>7 DEF MpStep, Provides
<1>3. CASE GiveUp(t, o) /\ UNCHANGED mpVars
  <2>1. Moves(t, {}, {o}) /\ pc'[t] = "user" /\ SameKernel /\ t \notin Woken(o)
    BY <1>3, GiveUpMoves
  <2>2. /\ block_free_count' = block_free_count /\ k' = k
        /\ suspend_thread_count' = suspend_thread_count
    BY <1>3, <2>1 DEF mpVars, SameKernel
  <2>3. MpCount'
    BY <2>2, MpCountLeft
  <2>4. Supplies(t, o, block_free_count, block_free_count') /\ pc'[t] \notin {"wait", "woken"}
    BY <2>1, <2>2 DEF Supplies
  <2>5. Moves(t, {}, MpOp)
    BY <2>1, MpQueue, MovesMore
  <2> QED
    BY <2>3, <2>4, <2>5 DEF MpStep, Provides
<1> QED
  BY <1>1, <1>2, <1>3

LEMMA MpFreeStep ==
  ASSUME CallInv, MpCount, block_free_count \in Nat, NEW t \in Thread, MpFree(t)
  PROVE  MpStep
<1> DEFINE w == "mp_alloc"
           n == suspend_thread_count
           c == Cardinality(On(k, MpWaiters))
<1>1. /\ Runs(t) /\ pc[t] = "user" /\ MayDo(t, "mp_free") /\ "mp_free" \in Op
      /\ timed \in [Thread -> BOOLEAN] /\ Lively(k) /\ KernelOK(k)
  BY CallRuns, CurrentAwake DEF MpFree, CallInv
<1>2. prog' = prog /\ alive' = alive /\ block_free_count' = block_free_count + 1
  BY DEF MpFree
<1>3. op[t] \in MpOp \/ pc[t] \in Outer
  BY <1>1 DEF Outer
<1>4. /\ c \in Nat /\ n \in Nat /\ c <= n /\ n <= MaxSuspended /\ MaxSuspended \in Nat
      /\ k.list[MpWaiters] # <<>> => c # 0
      /\ k.list[MpWaiters] = <<>> => c = 0
      /\ IsFiniteSet(On(k, MpWaiters))
  BY MpCounted DEF MpCount
<1>5. w \in WaitOp \ HeapOp /\ WaitList(w) = MpWaiters /\ MpWaiters \in Queue /\ t \notin Woken(w)
  BY <1>1, MpQueue DEF Woken
<1>6. CASE n = 0
  <2>1. Return(t) /\ SameKernel /\ suspend_thread_count' = suspend_thread_count
    BY <1>6 DEF MpFree, SameKernel
  <2>2. Moves(t, {}, MpOp) /\ pc'[t] = "user"
    BY <1>1, <1>2, <1>3, <2>1, ReturnMoves
  <2>3. Served(w) /\ MpCount'
    BY <1>4, <1>5, <1>6, <2>1, MpCountLeft DEF Served, SameKernel
  <2>4. Provides(t, w, block_free_count, block_free_count')
    BY <1>2, <1>5, <2>2, <2>3 DEF Provides, Supplies
  <2> QED
    BY <2>2, <2>3, <2>4 DEF MpStep
<1>7. CASE n # 0 /\ k.list[MpWaiters] = <<>>
  <2>1. /\ Goto(t, "mp_free", "wild") /\ SameKernel /\ suspend_thread_count' = n - 1
        /\ timed' = timed /\ "wild" \in PC \ Special /\ "mp_free" \in MpOp /\ alive' \subseteq alive
    BY <1>2, <1>7 DEF MpFree, SameKernel, PC, Special, StPlaces, HeapPlaces, MpOp
  <2>2. Moves(t, {}, MpOp) /\ pc'[t] = "wild"
    BY <1>1, <1>2, <1>3, <2>1, GotoMoves
  <2>3. Served(w)
    BY <1>5, <1>7 DEF Served
  <2>4. MpCount'
    BY <1>4, <1>7, <2>1 DEF MpCount, SameKernel
  <2>5. Provides(t, w, block_free_count, block_free_count')
    BY <1>2, <1>5, <2>2, <2>3 DEF Provides, Supplies
  <2> QED
    BY <2>2, <2>4, <2>5 DEF MpStep
<1>8. CASE n # 0 /\ k.list[MpWaiters] # <<>>
  <2> DEFINE h == Head(k.list[MpWaiters])
  <2>1. /\ k' = Resume([k EXCEPT !.err[h] = "EOK"], h) /\ suspend_thread_count' = n - 1
        /\ Goto(t, "mp_free", "sched") /\ timed' = timed
    BY <1>8 DEF MpFree
  <2>2. h \in Thread /\ h \in On(k, MpWaiters) /\ k.stat[h] = "SUSPEND"
    BY <1>1, <1>5, <1>8, FirstWaits
  <2> HIDE DEF h
  <2>3. op[h] \notin HeapOp /\ op[h] = w
    BY <1>5, <2>2, ListWaiters
  <2>4. Wakes(k, k', {h}, {h}) /\ k'.current = k.current /\ k'.err[h] = "EOK"
    <3>1. "EOK" \in Err
      BY DEF Err
    <3> QED
      BY <1>1, <2>1, <2>2, <3>1, ResumeWithWakes
  <2>5. Steady /\ Turns(k, k') /\ {h} \subseteq {h} \cup {t} /\ \A u \in {h} : Stirred(u)
    BY <1>1, <1>2, <2>1, <2>3, <2>4 DEF Steady, Turns, Stirred
  <2>6. GoesTo(t, "mp_free", "sched")
    BY <1>1, <2>1, <2>5 DEF GoesTo, Goto, PC, Special, StPlaces, HeapPlaces
  <2>7. "mp_free" \in MpOp \/ "sched" \in Outer
    BY DEF MpOp
  <2>8. Moves(t, {h}, MpOp) /\ pc'[t] = "sched"
    BY <1>3, <2>4, <2>5, <2>6, <2>7, Goes
  <2>9. Served(w)
    BY <1>5, <2>2, <2>4, <2>8, GetsIt DEF Moves
  <2>10. MpCount'
    <3>1. On(k', MpWaiters) = On(k, MpWaiters) \ {h}
      BY <1>5, <2>4 DEF Wakes
    <3>2. Cardinality(On(k', MpWaiters)) = c - 1
      BY <1>4, <2>2, <3>1, FS_RemoveElement
    <3> QED
      BY <1>4, <1>8, <2>1, <3>2 DEF MpCount
  <2>11. Provides(t, w, block_free_count, block_free_count')
    BY <1>2, <1>5, <2>8, <2>9 DEF Provides, Supplies
  <2> QED
    BY <2>8, <2>10, <2>11 DEF MpStep
<1> QED
  BY <1>6, <1>7, <1>8

LEMMA MpDetachStep ==
  ASSUME CallInv, MpCount, block_free_count \in Nat, NEW t \in Thread, MpDetach(t)
  PROVE  MpStep
<1> DEFINE n == suspend_thread_count
           c == Cardinality(On(k, MpWaiters))
<1>0. /\ block_free_count' = block_free_count /\ "mp_detach" \in Op
      /\ "mp_alloc" \notin {"mp_detach"}
  BY DEF MpDetach, mpVars, Op
<1>1. /\ MpCount' /\ \E W : Moves(t, W, {"mp_detach"})
  <2>1. CASE \/ Detach(t, "mp_detach", "mp") /\ UNCHANGED mpVars
             \/ /\ DrainTest(t, "mp_detach", MpWaiters, "test", "resume", "user")
                /\ UNCHANGED mpVars
    <3>1. Moves(t, {}, {"mp_detach"}) /\ SameKernel
      BY <1>0, <2>1, DetachMoves, DrainTestMoves
    <3>2. MpCount'
      BY <2>1, <3>1, MpCountLeft DEF mpVars, SameKernel
    <3> QED
      BY <3>1, <3>2
  <2>2. CASE /\ DrainResume(t, "mp_detach", MpWaiters, "test", "resume")
             /\ n' = IF k.list[MpWaiters] # <<>> THEN n - 1 ELSE n
    <3>1. /\ \E W \in SUBSET On(k, MpWaiters) : Moves(t, W, {"mp_detach"})
          /\ Cardinality(On(k', MpWaiters)) = IF k.list[MpWaiters] # <<>> THEN c - 1 ELSE c
      BY <1>0, <2>2, MpQueue, DrainResumeMoves
    <3>2. /\ c \in Nat /\ n \in Nat /\ c <= n /\ n <= MaxSuspended /\ MaxSuspended \in Nat
          /\ k.list[MpWaiters] # <<>> => c # 0
      BY MpCounted DEF MpCount
    <3>3. MpCount'
      BY <2>2, <3>1, <3>2 DEF MpCount
    <3> QED
      BY <3>1, <3>3
  <2> QED
    BY <2>1, <2>2 DEF MpDetach
<1>2. PICK W : Moves(t, W, {"mp_detach"})
  BY <1>1
<1>3. Moves(t, W, MpOp) /\ Leaves("mp_alloc")
  BY <1>0, <1>2, MpQueue, MovesMore, MovesLeaves
<1> QED
  BY <1>0, <1>1, <1>3 DEF MpStep, Provides

LEMMA MpMoves ==
  ASSUME CallInv, MpCount, block_free_count \in Nat, MpNext
  PROVE  MpStep
BY MpWaitStep, MpAllocStep, MpFreeStep, MpDetachStep DEF MpNext

LEMMA MpSupplied ==
  ASSUME CallInv, block_free_count \in Nat, block_free_count' \in Nat, MpNoLostWakeUp,
         NEW t, NEW W, Effect(t, W),
         Provides(t, "mp_alloc", block_free_count, block_free_count')
  PROVE  MpNoLostWakeUp'
BY MpQueue, SupplyProvided DEF MpNoLostWakeUp

LEMMA MpLeft ==
  ASSUME CallInv, MpCount, block_free_count \in Nat, Leaves("mp_alloc"), UNCHANGED mpVars,
         MpNoLostWakeUp
  PROVE  MpNoLostWakeUp' /\ MpCount'
<1>1. block_free_count' = block_free_count /\ suspend_thread_count' = suspend_thread_count
  BY DEF mpVars
<1>2. MpNoLostWakeUp'
  BY <1>1, MpQueue, SupplyLeft DEF MpNoLostWakeUp
<1>3. On(k', MpWaiters) \subseteq On(k, MpWaiters)
  BY MpQueue, LeavesWaiters
<1> QED
  BY <1>1, <1>2, <1>3, MpCountLeft


-----------------------------------------------------------------------------
(* The heap: at most one thread has the unit of its semaphore, and with the *)
(* unit at hand nobody waits.                                               *)
HeapAt == \A t \in Thread : pc[t] \in HeapPlaces => op[t] \in HeapOp

HpSem ==
  \/ heap_sem = 1 /\ On(k, HeapWaiters) = {} /\ \A t \in Thread : ~Holds(t)
  \/ heap_sem = 0 /\ \E t \in Thread : Holds(t) /\ \A u \in Thread : Holds(u) => u = t

HpSemInv == HpSem /\ HeapAt

(* A step that nobody takes inside the heap, and that wakes nobody there    *)
Spares ==
  \/ SameWaits
  \/ \E t, W, O : /\ Effect(t, W) /\ Within(t, O) /\ O \cap HeapOp = {}
                  /\ \A u \in W : op[u] \notin HeapOp
                  /\ t \in Thread => pc[t] \notin HeapPlaces /\ pc'[t] \notin HeapPlaces

HpStep ==
  \E t \in Thread : \E W : /\ Effect(t, W) /\ Within(t, HeapOp)
                           /\ pc[t] \notin StPlaces /\ pc'[t] \notin StPlaces
                           /\ \A u \in W : op[u] \in HeapOp
                           /\ HpSemInv'

LEMMA HeapWaiter ==
  ASSUME CallInv, NEW u \in On(k, HeapWaiters)
  PROVE  u \in Thread /\ op[u] \in HeapOp /\ pc[u] \in {"wait", "woken"} /\ k.stat[u] = "SUSPEND"
<1>1. HeapWaiters \in Queue
  BY SixLists
<1>2. /\ u \in Thread /\ op[u] \in WaitOp /\ WaitList(op[u]) = HeapWaiters
      /\ pc[u] \in {"wait", "woken"} /\ k.stat[u] = "SUSPEND"
  BY <1>1, Waiter
<1> QED
  BY <1>2, WaitListOf

(* Others hold the unit as before, unless they wake up with it. *)
LEMMA HoldsElse ==
  ASSUME NEW t, NEW W, Effect(t, W), NEW u \in Thread \ {t}
  PROVE  Holds(u)' <=> \/ Holds(u)
                       \/ u \in W /\ op[u] \in HeapOp /\ pc[u] \in {"wait", "woken"}
BY DEF Effect, Holds

LEMMA HpLeft ==
  ASSUME CallInv, HpSemInv, Spares, heap_sem' = heap_sem
  PROVE  HpSemInv'
<1>1. HeapWaiters \in Queue
  BY SixLists
<1>2. CASE SameWaits
  <2>1. \A u \in Thread : Holds(u)' <=> Holds(u)
    BY <1>2 DEF SameWaits, Holds
  <2>2. On(k', HeapWaiters) = On(k, HeapWaiters)
    BY <1>1, <1>2 DEF SameWaits
  <2>3. HeapAt'
    BY <1>2 DEF SameWaits, HeapAt, HpSemInv, HeapPlaces
  <2> QED
    BY <2>1, <2>2, <2>3 DEF HpSemInv, HpSem
<1>3. ASSUME NEW t, NEW W, NEW O, Effect(t, W), Within(t, O), O \cap HeapOp = {},
             \A u \in W : op[u] \notin HeapOp,
             t \in Thread => pc[t] \notin HeapPlaces /\ pc'[t] \notin HeapPlaces
      PROVE  HpSemInv'
  <2>1. \A p \in O \cap WaitOp : WaitList(p) # HeapWaiters
    BY <1>3, WaitListOf
  <2>2. On(k', HeapWaiters) \subseteq On(k, HeapWaiters)
    BY <1>1, <1>3, <2>1, ListsShrink
  <2>3. \A u \in Thread \ {t} : Holds(u)' <=> Holds(u)
    BY <1>3, HoldsElse
  <2>4. t \in Thread => ~Holds(t) /\ ~Holds(t)'
    BY <1>3 DEF Within, Holds, Outer
  <2>5. HeapAt'
    BY <1>3 DEF HeapAt, HpSemInv, Effect
  <2>6. \A u \in Thread : Holds(u)' <=> Holds(u)
    BY <2>3, <2>4
  <2> QED
    BY <2>2, <2>5, <2>6 DEF HpSemInv, HpSem
<1> QED
  BY <1>2, <1>3 DEF Spares

(* A thread of the heap goes on: who has the unit now? *)
LEMMA HpGoes ==
  ASSUME CallInv, HpSemInv, NEW t \in Thread, NEW W, Effect(t, W),
         op[t] \in HeapOp \/ pc[t] \in Outer, op'[t] \in HeapOp \/ pc'[t] \in Outer,
         pc[t] \notin StPlaces, pc'[t] \notin StPlaces, \A u \in W : op[u] \in HeapOp, HpSem'
  PROVE  HpStep
<1>1. HeapAt'
  BY DEF HeapAt, HpSemInv, Effect, Outer, HeapPlaces
<1>2. Within(t, HeapOp)
  BY DEF Within
<1> QED
  BY <1>1, <1>2 DEF HpStep, HpSemInv

LEMMA SemWaits ==
  ASSUME NEW kk, Lively(kk), NEW t \in Thread, kk.stat[t] = "RUNNING", NEW q \in Queue,
         NEW flag, NEW limit \in BOOLEAN,
         NEW r, r = IpcSuspend([kk EXCEPT !.err[t] = "EOK"], q, t, flag, limit)
  PROVE  /\ Sleeps(kk, r, t, q) /\ r.err[t] = "EOK"
         /\ limit = FALSE => t \notin r.armed
<1>1. Sleeps(kk, r, t, q) /\ r.err[t] = "EOK"
  BY WaitSleeps
<1>2. limit = FALSE => t \notin r.armed
  BY WaitSleeps
<1> QED
  BY <1>1, <1>2

LEMMA SemWaitsForever ==
  ASSUME NEW kk, Lively(kk), NEW t \in Thread, kk.stat[t] = "RUNNING", NEW q \in Queue,
         NEW r, r = IpcSuspend([kk EXCEPT !.err[t] = "EOK"], q, t, "FIFO", FALSE)
  PROVE  Sleeps(kk, r, t, q) /\ r.err[t] = "EOK" /\ t \notin r.armed
<1>1. Sleeps(kk, r, t, q) /\ r.err[t] = "EOK"
  BY SemWaits
<1>2. t \notin r.armed
  BY SemWaits
<1> QED
  BY <1>1, <1>2

LEMMA SemTakeStep ==
  ASSUME CallInv, HpSemInv, NEW t \in Thread, t = k.current, k.stat[t] = "RUNNING", t # Idle,
         pc[t] = "user" \/ (pc[t] = "again" /\ op[t] \in HeapOp), NEW o \in HeapOp, MayDo(t, o),
         Steady, SemTake(t, o)
  PROVE  HpStep
<1> DEFINE nobody == {}
<1>1. /\ ~Holds(t) /\ Lively(k) /\ HeapWaiters \in Queue /\ o \in Op /\ o \in WaitOp
      /\ WaitList(o) = HeapWaiters /\ WaitList(o) \in Queue
      /\ op \in [Thread -> Op \cup {"none"}] /\ pc \in [Thread -> PC]
  BY CurrentAwake, SixLists, WaitListOf
  DEF Holds, HeapOp, Op, WaitOp, CallInv, Settled
<1>2. CASE heap_sem > 0
  <2>1. /\ heap_sem = 1 /\ \A u \in Thread : ~Holds(u)
    BY <1>2 DEF HpSemInv, HpSem
  <2>2. /\ heap_sem' = heap_sem - 1 /\ k' = k
        /\ op' = [op EXCEPT ![t] = o] /\ pc' = [pc EXCEPT ![t] = "critical"]
    BY <1>2 DEF SemTake, Goto
  <2>3. Wakes(k, k', nobody, nobody) /\ Turns(k, k')
    BY <1>1, <2>2, NothingWakes
  <2>4. /\ "critical" \in PC /\ "critical" \notin Locked
        /\ \A u \in nobody : u \in nobody \/ u = t
        /\ pc[t] \notin {"wait", "asleep", "nap"} \cup Locked /\ (pc[t] = "sched" => Runners)
    BY DEF PC
  <2> HIDE DEF nobody
  <2>5. Effect(t, nobody) /\ op'[t] = o /\ pc'[t] = "critical"
    BY <1>1, <2>2, <2>3, <2>4, ActEffect
  <2>6. Holds(t)' /\ \A u \in Thread \ {t} : ~Holds(u)'
    <3>1. Holds(t)'
      BY <2>5 DEF Holds
    <3>2. ASSUME NEW u \in Thread \ {t} PROVE ~Holds(u)'
      BY <2>1, <2>5, HoldsElse DEF nobody
    <3> QED
      BY <3>1, <3>2
  <2>7. heap_sem' = 0
    BY <2>1, <2>2
  <2>8. HpSem'
    BY <2>6, <2>7 DEF HpSem
  <2>9. \A u \in nobody : op[u] \in HeapOp
    BY DEF nobody
  <2> QED
    BY <2>5, <2>8, <2>9, HpGoes DEF Outer, StPlaces
<1>3. CASE ~(heap_sem > 0)
  <2>1. heap_sem = 0 /\ \E h \in Thread : Holds(h) /\ \A u \in Thread : Holds(u) => u = h
    BY <1>3 DEF HpSemInv, HpSem
  <2>2. /\ k' = IpcSuspend([k EXCEPT !.err[t] = "EOK"], HeapWaiters, t, "FIFO", FALSE)
        /\ op' = [op EXCEPT ![t] = o] /\ pc' = [pc EXCEPT ![t] = "wait"] /\ heap_sem' = heap_sem
    BY <1>3 DEF SemTake, Goto
  <2>3. Sleeps(k, k', t, HeapWaiters) /\ k'.err[t] = "EOK" /\ t \notin k'.armed
    <3>1. Lively(k) /\ HeapWaiters \in Queue
      BY <1>1
    <3>2. k' = IpcSuspend([k EXCEPT !.err[t] = "EOK"], HeapWaiters, t, "FIFO", FALSE)
      BY <2>2
    <3> QED
      BY <3>1, <3>2, SemWaitsForever
  <2>5. \/ o \in WaitOp /\ HeapWaiters = WaitList(o) /\ "wait" = "wait" /\ k'.err[t] = "EOK"
           /\ (o \in HeapOp => t \notin k'.armed)
        \/ o = "delay" /\ HeapWaiters = Defunct /\ "wait" = "wait" /\ t \in k'.armed
        \/ /\ o = "timer_entry" /\ HeapWaiters = Defunct /\ "wait" \in {"asleep", "nap"}
           /\ t = TimerThread
    BY <1>1, <2>3
  <2>6. /\ "wait" \in {"wait", "asleep", "nap"}
        /\ pc[t] \notin {"wait", "asleep", "nap", "sched"} \cup Locked
    OBVIOUS
  <2>7. Effect(t, {}) /\ op'[t] = o /\ pc'[t] = "wait"
    BY <1>1, <2>2, <2>3, <2>5, <2>6, SleepEffect
  <2>8. k'.stat[t] = "SUSPEND"
    BY <2>3 DEF Sleeps
  <2>9. \A u \in Thread : Holds(u)' <=> Holds(u)
    <3>1. ~Holds(t)'
      BY <2>7, <2>8 DEF Holds
    <3>2. ASSUME NEW u \in Thread \ {t} PROVE Holds(u)' <=> Holds(u)
      BY <2>7, HoldsElse
    <3> QED
      BY <1>1, <3>1, <3>2
  <2>10. HpSem'
    BY <2>1, <2>2, <2>9 DEF HpSem
  <2>11. \A u \in {} : op[u] \in HeapOp
    OBVIOUS
  <2> QED
    BY <2>7, <2>10, <2>11, HpGoes DEF Outer, StPlaces
<1> QED
  BY <1>2, <1>3

(* The current thread, which has the unit, goes on with it. *)
LEMMA HeapGivesBack ==
  ASSUME CallInv, HpSemInv, NEW t \in Thread, NEW o \in HeapOp, HasHeap(t, o),
         NEW p \in HeapOp, GiveBack(t, p)
  PROVE  HpStep
<1> DEFINE nobody == {}
<1>1. /\ t = k.current /\ op[t] = o /\ pc[t] \in {"critical", "woken"} /\ Lively(k)
      /\ op \in [Thread -> Op \cup {"none"}] /\ pc \in [Thread -> PC] /\ timed \in [Thread -> BOOLEAN]
      /\ p \in Op
  BY CurrentAwake DEF HasHeap, At, CallInv, Settled, HeapOp, Op
<1>2. /\ k.stat[t] # "SUSPEND" /\ t # Idle /\ MayDo(t, p)
      /\ pc[t] \notin {"wait", "asleep", "nap"} \cup Locked /\ (pc[t] = "sched" => Runners)
  BY <1>1, CurrentAwake DEF MayDo
<1>3. /\ op' = [op EXCEPT ![t] = p] /\ pc' = [pc EXCEPT ![t] = "release"]
      /\ k' = k /\ heap_sem' = heap_sem /\ Steady
  BY <1>1 DEF GiveBack, Goto, Steady
<1>4. Wakes(k, k', nobody, nobody) /\ Turns(k, k')
  BY <1>1, <1>3, NothingWakes
<1>5. "release" \in PC /\ "release" \notin Locked /\ \A u \in nobody : u \in nobody \/ u = t
  BY DEF PC
<1> HIDE DEF nobody
<1>6. Effect(t, nobody) /\ op'[t] = p /\ pc'[t] = "release"
  BY <1>1, <1>2, <1>3, <1>4, <1>5, ActEffect
<1>7. Holds(t) /\ Holds(t)'
  BY <1>1, <1>2, <1>6 DEF Holds
<1>8. \A u \in Thread : Holds(u)' <=> Holds(u)
  <2>1. ASSUME NEW u \in Thread \ {t} PROVE Holds(u)' <=> Holds(u)
    BY <1>6, HoldsElse DEF nobody
  <2> QED
    BY <1>7, <2>1
<1>9. HpSem'
  BY <1>3, <1>7, <1>8 DEF HpSem, HpSemInv
<1>10. op[t] \in HeapOp /\ pc[t] \notin StPlaces /\ pc'[t] \notin StPlaces
  BY <1>1, <1>6 DEF StPlaces
<1>11. \A u \in nobody : op[u] \in HeapOp
  BY DEF nobody
<1> QED
  BY <1>6, <1>9, <1>10, <1>11, HpGoes

(* It returns the unit, ... *)
LEMMA ReleaseHeapStep ==
  ASSUME CallInv, HpSemInv, NEW t \in Thread, ReleaseHeap(t)
  PROVE  HpStep
<1> DEFINE nobody == {}
<1>1. /\ t = k.current /\ pc[t] = "release" /\ Lively(k) /\ KernelOK(k) /\ HeapWaiters \in Queue
      /\ op \in [Thread -> Op \cup {"none"}] /\ pc \in [Thread -> PC] /\ timed \in [Thread -> BOOLEAN]
      /\ prog' = prog /\ alive' = alive
  BY CurrentAwake, SixLists DEF ReleaseHeap, CallInv, Settled
<1>2. /\ k.stat[t] # "SUSPEND" /\ t # Idle /\ MayDo(t, op[t]) /\ MayDo(t, "none")
      /\ pc[t] \notin {"wait", "asleep", "nap"} \cup Locked /\ op[t] \in Op \cup {"none"}
      /\ pc[t] = "sched" => Runners
  BY <1>1, CurrentAwake DEF MayDo
<1>3. op[t] \in HeapOp /\ Holds(t)
  BY <1>1 DEF HpSemInv, HeapAt, HeapPlaces, Holds
<1>4. heap_sem = 0 /\ \A u \in Thread : Holds(u) => u = t
  BY <1>3 DEF HpSemInv, HpSem
<1>5. CASE k.list[HeapWaiters] # <<>>
  <2>0. PICK h \in Thread, a \in {"resched", "sched"} :
          h = Head(k.list[HeapWaiters]) /\ a = IF GoesOn(t) THEN "resched" ELSE "sched"
    BY <1>1, <1>5, FirstWaits
  <2>1. /\ k' = Resume(k, h) /\ heap_sem' = heap_sem /\ timed' = timed
        /\ op' = op /\ pc' = [pc EXCEPT ![t] = a]
    BY <1>5, <2>0 DEF ReleaseHeap, IpcResume, Proceed
  <2>2. h \in Thread /\ h \in On(k, HeapWaiters) /\ k.stat[h] = "SUSPEND"
    BY <1>1, <1>5, <2>0, FirstWaits
  <2>3. op[h] \in HeapOp /\ pc[h] \in {"wait", "woken"} /\ h # t
    BY <1>2, <2>2, HeapWaiter
  <2>4. a \in {"resched", "sched"} /\ a \in PC /\ a \notin Locked
    BY <2>0 DEF PC
  <2>5. Wakes(k, k', {h}, nobody) /\ Turns(k, k')
    BY <1>1, <2>1, <2>2, ResumeWakes DEF Turns
  <2>6. op' = [op EXCEPT ![t] = op[t]] /\ Steady /\ \A u \in nobody : u \in {h} \/ u = t
    BY <1>1, <2>1 DEF Steady
  <2> HIDE DEF nobody
  <2>7. Effect(t, {h}) /\ op'[t] = op[t] /\ pc'[t] = a
    BY <1>1, <1>2, <2>1, <2>4, <2>5, <2>6, ActEffect
  <2>8. ~Holds(t)' /\ Holds(h)'
    <3>1. ~Holds(t)'
      BY <2>4, <2>7 DEF Holds
    <3>2. Holds(h)'
      BY <2>2, <2>3, <2>7, HoldsElse
    <3> QED
      BY <3>1, <3>2
  <2>9. \A u \in Thread : Holds(u)' => u = h
    <3>1. ASSUME NEW u \in Thread \ {t}, Holds(u)' PROVE u = h
      BY <1>4, <2>7, <3>1, HoldsElse
    <3> QED
      BY <2>8, <3>1
  <2>10. HpSem'
    BY <1>4, <2>1, <2>2, <2>8, <2>9 DEF HpSem
  <2>11. /\ pc[t] \notin StPlaces /\ pc'[t] \notin StPlaces
         /\ op'[t] \in HeapOp /\ \A u \in {h} : op[u] \in HeapOp
    BY <1>1, <1>3, <2>3, <2>4, <2>7 DEF StPlaces
  <2> QED
    BY <1>3, <2>7, <2>10, <2>11, HpGoes
<1>6. CASE k.list[HeapWaiters] = <<>>
  <2>1. /\ k' = k /\ heap_sem' = heap_sem + 1
        /\ IF GoesOn(t) THEN Proceed(t, "again") /\ UNCHANGED timed ELSE Return(t)
    BY <1>6 DEF ReleaseHeap
  <2>2. PICK o \in {"none", op[t]}, a \in {"again", "user"} :
          /\ op' = [op EXCEPT ![t] = o] /\ pc' = [pc EXCEPT ![t] = a] /\ Steady
          /\ o \in HeapOp \/ a = "user"
    <3>1. CASE GoesOn(t)
      <4>1. op' = [op EXCEPT ![t] = op[t]] /\ pc' = [pc EXCEPT ![t] = "again"] /\ Steady
        BY <1>1, <2>1, <3>1 DEF Proceed, Steady
      <4> QED
        BY <1>3, <4>1
    <3>2. CASE ~GoesOn(t)
      <4>1. op' = [op EXCEPT ![t] = "none"] /\ pc' = [pc EXCEPT ![t] = "user"] /\ Steady
        BY <1>1, <2>1, <3>2 DEF Return, Goto, Steady
      <4> QED
        BY <4>1
    <3> QED
      BY <3>1, <3>2
  <2>3. Wakes(k, k', nobody, nobody) /\ Turns(k, k')
    BY <1>1, <2>1, NothingWakes
  <2>4. /\ a \in PC /\ a \notin Locked /\ \A u \in nobody : u \in nobody \/ u = t
        /\ o \in Op \cup {"none"} /\ MayDo(t, o)
    BY <1>2 DEF PC
  <2>5. Effect(t, nobody) /\ op'[t] = o /\ pc'[t] = a
    <3> HIDE DEF nobody
    <3> QED
      BY <1>1, <1>2, <2>2, <2>3, <2>4, ActEffect
  <2>6. \A u \in Thread : ~Holds(u)'
    <3>1. ~Holds(t)'
      BY <2>5 DEF Holds
    <3>2. ASSUME NEW u \in Thread \ {t} PROVE ~Holds(u)'
      BY <1>4, <2>5, HoldsElse
    <3> QED
      BY <3>1, <3>2
  <2>7. On(k', HeapWaiters) = {}
    BY <1>1, <1>6, <2>1, EmptyOn, ListKinds DEF KernelOK
  <2>8. heap_sem' = 1
    BY <1>4, <2>1
  <2>9. HpSem'
    BY <2>6, <2>7, <2>8 DEF HpSem
  <2>10. /\ pc[t] \notin StPlaces /\ pc'[t] \notin StPlaces
         /\ op'[t] \in HeapOp \/ pc'[t] \in Outer
    BY <1>1, <2>2, <2>5 DEF StPlaces, Outer
  <2>11. \A u \in nobody : op[u] \in HeapOp
    BY DEF nobody
  <2> HIDE DEF nobody
  <2> QED
    BY <1>3, <2>5, <2>9, <2>10, <2>11, HpGoes
<1> QED
  BY <1>5, <1>6

(* ... and inside rt_realloc it goes on. *)
LEMMA ReleaseScheduleStep ==
  ASSUME CallInv, HpSemInv, NEW t \in Thread, ReleaseSchedule(t)
  PROVE  HpStep
<1> DEFINE nobody == {}
<1>1. /\ t = k.current /\ pc[t] = "resched" /\ Lively(k) /\ HeapWaiters \in Queue
      /\ op \in [Thread -> Op \cup {"none"}] /\ pc \in [Thread -> PC] /\ timed \in [Thread -> BOOLEAN]
      /\ prog' = prog /\ alive' = alive /\ timed' = timed /\ heap_sem' = heap_sem
      /\ k' = Schedule(k) /\ op' = op /\ pc' = [pc EXCEPT ![t] = "again"]
  BY CurrentAwake, SixLists DEF ReleaseSchedule, CallInv, Settled, hpVars, Proceed
<1>2. /\ t # Idle /\ MayDo(t, op[t]) /\ pc[t] \notin {"wait", "asleep", "nap"} \cup Locked
      /\ op[t] \in Op \cup {"none"} /\ Steady /\ op' = [op EXCEPT ![t] = op[t]]
      /\ pc[t] = "sched" => Runners
      /\ "again" \in PC /\ "again" \notin Locked /\ \A u \in nobody : u \in nobody \/ u = t
  BY <1>1, CurrentAwake DEF MayDo, Steady, PC
<1>3. op[t] \in HeapOp
  BY <1>1 DEF HpSemInv, HeapAt, HeapPlaces
<1>4. Wakes(k, k', nobody, nobody) /\ Turns(k, k')
  BY <1>1, ScheduleWakes
<1>5. Effect(t, nobody) /\ op'[t] = op[t] /\ pc'[t] = "again"
  <2> HIDE DEF nobody
  <2> QED
    BY <1>1, <1>2, <1>4, ActEffect
<1>6. \A u \in Thread : Holds(u)' <=> Holds(u)
  <2>1. ~Holds(t) /\ ~Holds(t)'
    BY <1>1, <1>5 DEF Holds
  <2>2. ASSUME NEW u \in Thread \ {t} PROVE Holds(u)' <=> Holds(u)
    BY <1>5, HoldsElse
  <2> QED
    BY <2>1, <2>2
<1>7. On(k', HeapWaiters) = On(k, HeapWaiters)
  BY <1>1, <1>4 DEF Wakes
<1>8. HpSem'
  BY <1>1, <1>6, <1>7 DEF HpSem, HpSemInv
<1>9. pc[t] \notin StPlaces /\ pc'[t] \notin StPlaces
  BY <1>1, <1>5 DEF StPlaces
<1>10. \A u \in nobody : op[u] \in HeapOp
  BY DEF nobody
<1> HIDE DEF nobody
<1> QED
  BY <1>3, <1>5, <1>8, <1>9, <1>10, HpGoes

LEMMA HeapTakes ==
  ASSUME CallInv, HpSemInv, NEW t \in Thread, NEW o \in {"malloc", "free", "realloc"},
         Calls(t, o, "heap"), SemTake(t, o), prog' = prog, alive' = alive, timed' = timed
  PROVE  HpStep
<1>1. Runs(t) /\ pc[t] = "user" /\ MayDo(t, o) /\ k.stat[t] = "RUNNING"
  BY CallRuns
<1>2. Steady /\ t = k.current /\ t # Idle /\ o \in HeapOp
  BY <1>1 DEF Steady, Runs, HeapOp, CallInv
<1> QED
  BY <1>1, <1>2, SemTakeStep

LEMMA ReallocGoesOnStep ==
  ASSUME CallInv, HpSemInv, NEW t \in Thread, ReallocGoesOn(t)
  PROVE  HpStep
<1>1. /\ t = k.current /\ pc[t] = "again" /\ SemTake(t, op[t])
      /\ prog' = prog /\ alive' = alive /\ timed' = timed
  BY DEF ReallocGoesOn
<1>2. op[t] \in HeapOp
  BY <1>1 DEF HpSemInv, HeapAt, HeapPlaces
<1>3. k.stat[t] = "RUNNING" /\ t # Idle /\ MayDo(t, op[t]) /\ Steady
  BY <1>1, CurrentAwake DEF MayDo, Steady, CallInv
<1> QED
  BY <1>1, <1>2, <1>3, SemTakeStep

LEMMA HpMoves ==
  ASSUME CallInv, HpSemInv, HpNext
  PROVE  HpStep
<1>1. PICK t \in Thread :
        \/ Malloc(t) \/ Give(t, "free", {0}) \/ Give(t, "realloc", Sizes)
        \/ \E o \in HeapOp : MallocFound(t, o) \/ MallocFailed(t, o) \/ Free(t, o)
        \/ ReallocSame(t) \/ ReallocCut(t) \/ ReallocMove(t)
        \/ ReleaseHeap(t) \/ ReleaseSchedule(t) \/ ReallocGoesOn(t)
  BY DEF HpNext
<1>2. CASE Malloc(t)
  BY <1>2, HeapTakes DEF Malloc
<1>3. CASE Give(t, "free", {0}) \/ Give(t, "realloc", Sizes)
  BY <1>3, HeapTakes DEF Give
<1>4. ASSUME NEW o \in HeapOp, MallocFound(t, o) \/ MallocFailed(t, o) \/ Free(t, o)
      PROVE  HpStep
  <2>1. \E p \in {"malloc", "free", "realloc_free"} : GiveBack(t, p)
    BY <1>4 DEF MallocFound, MallocFailed, Free
  <2>2. HasHeap(t, o)
    BY <1>4 DEF MallocFound, MallocFailed, Free
  <2>3. {"malloc", "free", "realloc_free"} \subseteq HeapOp
    BY DEF HeapOp
  <2> QED
    BY <2>1, <2>2, <2>3, HeapGivesBack
<1>5. CASE ReallocSame(t) \/ ReallocCut(t) \/ ReallocMove(t)
  <2>1. \E p \in {"realloc", "realloc_malloc"} : GiveBack(t, p)
    BY <1>5 DEF ReallocSame, ReallocCut, ReallocMove
  <2>2. HasHeap(t, "realloc")
    BY <1>5 DEF ReallocSame, ReallocCut, ReallocMove
  <2>3. {"realloc", "realloc_malloc"} \subseteq HeapOp /\ "realloc" \in HeapOp
    BY DEF HeapOp
  <2> QED
    BY <2>1, <2>2, <2>3, HeapGivesBack
<1>6. CASE ReleaseHeap(t) \/ ReleaseSchedule(t) \/ ReallocGoesOn(t)
  BY <1>6, ReleaseHeapStep, ReleaseScheduleStep, ReallocGoesOnStep
<1> QED
  BY <1>1, <1>2, <1>3, <1>4, <1>5, <1>6

(* What the run checks is what the invariant says. *)
LEMMA HpSupplied ==
  ASSUME CallInv, HpSemInv
  PROVE  HpNoLostWakeUp
<1> DEFINE H == {t \in Thread : Holds(t)}
<1>1. /\ k \in KernelState /\ HeapWaiters \in ListId
      /\ k.list[HeapWaiters] = <<>> <=> On(k, HeapWaiters) = {}
  BY SixLists, CurrentAwake, EmptyOn, ListKinds
<1>2. CASE heap_sem = 1 /\ On(k, HeapWaiters) = {} /\ \A t \in Thread : ~Holds(t)
  <2>1. H = {}
    BY <1>2
  <2>2. Cardinality(H) = 0
    BY <2>1, FS_EmptySet
  <2> QED
    BY <1>1, <1>2, <2>2 DEF HpNoLostWakeUp
<1>3. CASE heap_sem = 0 /\ \E t \in Thread : Holds(t) /\ \A u \in Thread : Holds(u) => u = t
  <2>1. PICK t \in Thread : Holds(t) /\ \A u \in Thread : Holds(u) => u = t
    BY <1>3
  <2>2. H = {t}
    BY <2>1
  <2>3. Cardinality(H) = 1
    BY <2>2, FS_Singleton
  <2> QED
    BY <1>1, <1>3, <2>3 DEF HpNoLostWakeUp
<1> QED
  BY <1>2, <1>3 DEF HpSemInv, HpSem

(* The steps of the other objects *)
LEMMA MovesSpares ==
  ASSUME NEW t, NEW W, NEW O, Moves(t, W, O), O \cap HeapOp = {}
  PROVE  Spares
<1>1. t \in Thread => pc[t] \notin HeapPlaces /\ pc'[t] \notin HeapPlaces
  BY DEF Moves, Plain, Special, StPlaces, HeapPlaces
<1> QED
  BY <1>1 DEF Moves, Spares, Stirred

-----------------------------------------------------------------------------
(* The event set: the states of the loop of rt_event_send *)
EvOp == {"event_send", "event_recv", "event_reset", "event_detach"}

DeliverRounds(e, f) ==
  f = [n \in 0 .. Len(k.list[EvWaiters]) |->
         IF n = 0 THEN [kernel |-> k, set |-> set \cup e, got |-> event_set]
         ELSE Deliver(f[n - 1], k.list[EvWaiters][n])]

LEMMA DeliverRoundsExist ==
  ASSUME NEW e, Len(k.list[EvWaiters]) \in Nat
  PROVE  \E f : DeliverRounds(e, f)
<1> DEFINE w == k.list[EvWaiters]
           s0 == [kernel |-> k, set |-> set \cup e, got |-> event_set]
           Upto(m, f) == f = [n \in 0 .. m |-> IF n = 0 THEN s0 ELSE Deliver(f[n - 1], w[n])]
           Bad == {m \in Nat : ~\E f : Upto(m, f)}
<1>1. SUFFICES Bad = {}
  BY DEF DeliverRounds
<1>2. SUFFICES ASSUME Bad # {} PROVE FALSE
  OBVIOUS
<1> HIDE DEF s0, w
<1>3. Bad \in SUBSET Nat
  OBVIOUS
<1>4. Min(Bad) \in Bad /\ \A j \in Bad : Min(Bad) <= j
  BY <1>2, <1>3, MinOfNat
<1> DEFINE m == Min(Bad)
<1>a. m \in Nat /\ ~\E f : Upto(m, f)
  BY <1>4
<1> HIDE DEF Bad
<1>5. m \in Nat /\ (~\E f : Upto(m, f)) /\ (m # 0 => m - 1 \notin Bad)
  <2> HIDE DEF Upto
  <2>1. m \in Bad /\ \A j \in Bad : m <= j
    BY <1>4
  <2> HIDE DEF m
  <2> QED
    BY <1>a, <2>1
<1> HIDE DEF m
<1>6. CASE m = 0
  <2> DEFINE g == [n \in 0 .. 0 |-> s0]
  <2>1. Upto(0, g)
    BY SMT
  <2> QED
    BY <1>5, <1>6, <2>1
<1>7. CASE m # 0
  <2>1. PICK f : Upto(m - 1, f)
    BY <1>5, <1>7 DEF Bad
  <2> DEFINE g == [n \in 0 .. m |-> IF n = m THEN Deliver(f[m - 1], w[m]) ELSE f[n]]
  <2>2. \A n \in 0 .. m : g[n] = IF n = 0 THEN s0 ELSE Deliver(g[n - 1], w[n])
    <3>1. ASSUME NEW n \in 0 .. m
          PROVE  g[n] = IF n = 0 THEN s0 ELSE Deliver(g[n - 1], w[n])
      <4>1. CASE n = m
        <5>1. g[n] = Deliver(f[m - 1], w[m]) /\ g[n - 1] = f[m - 1] /\ n # 0
          BY <1>5, <1>7, <4>1
        <5> QED
          BY <4>1, <5>1
      <4>2. CASE n # m
        <5>1. n \in 0 .. m - 1 /\ g[n] = f[n] /\ (n # 0 => g[n - 1] = f[n - 1])
          BY <1>5, <1>7, <4>2
        <5> HIDE DEF g
        <5> QED
          BY <2>1, <5>1
      <4> QED
        BY <4>1, <4>2
    <3> QED
      BY <3>1
  <2>3. Upto(m, g)
    <3>1. g = [n \in 0 .. m |-> g[n]]
      OBVIOUS
    <3> HIDE DEF g
    <3> QED
      BY <2>2, <3>1
  <2> QED
    BY <1>5, <2>3
<1> QED
  BY <1>6, <1>7

(* Every waiter wants some events, and none of them has them all. *)
EvWants == \A t \in On(k, EvWaiters) : event_set[t] # {}
EvInv == EvWants /\ NoSatisfiedWaiter

(* What the waiter u gets *)
Gotten(s, u) ==
  /\ s.got[u] # {} /\ s.got[u] \subseteq event_set[u]
  /\ event_info[u].all => s.got[u] = event_set[u]
  /\ event_info[u].clear => s.got[u] \cap s.set = {}

Unmet(s, u) == ~Satisfied(event_set[u], event_info[u].all, s.set)

(* After n rounds some of the first n waiters of the list w, W, are awake. *)
DeliveredTo(w, n, s, W) ==
  /\ W \subseteq On(k, EvWaiters)
  /\ Wakes(k, s.kernel, W, {})
  /\ \A u \in Thread \ W : s.got[u] = event_set[u]
  /\ \A u \in W : Gotten(s, u)
  /\ \A i \in 1 .. n : w[i] \notin W => Unmet(s, w[i])
  /\ \A i \in DOMAIN w : w[i] \in W => i <= n
  /\ \A i, j \in 1 .. n :
       i < j /\ w[i] \in W /\ w[j] \in W /\ event_info[w[i]].clear
         => s.got[w[i]] \cap s.got[w[j]] = {}

Delivered(e, n, s) ==
  /\ Lively(s.kernel) /\ s.kernel.current = k.current
  /\ s.set \subseteq set \cup e /\ s.got \in [Thread -> SUBSET Bit]
  /\ \E W : DeliveredTo(k.list[EvWaiters], n, s, W)

(* With fewer events, no more waiters have what they want. *)
LEMMA FewerEvents ==
  ASSUME NEW w, NEW all, NEW e, NEW d, d \subseteq e, ~Satisfied(w, all, e)
  PROVE  ~Satisfied(w, all, d)
BY DEF Satisfied

LEMMA DeliverRound ==
  ASSUME CallInv, EvTypeOK, EvWants, NEW e \in SUBSET Bit,
         NEW n \in 1 .. Len(k.list[EvWaiters]), NEW s, Delivered(e, n - 1, s)
  PROVE  Delivered(e, n, Deliver(s, k.list[EvWaiters][n]))
<1>0. PICK w : w = k.list[EvWaiters]
  OBVIOUS
<1>1. /\ EvWaiters \in Queue /\ w \in Seq(Thread) /\ IsInjective(w)
      /\ On(k, EvWaiters) = {w[i] : i \in DOMAIN w} /\ DOMAIN w = 1 .. Len(w) /\ Len(w) \in Nat
      /\ n \in DOMAIN w
  <2>1. EvWaiters \in Queue
    BY SixLists
  <2>2. w \in Seq(Thread) /\ IsInjective(w)
    BY <1>0, <2>1, ListsOf
  <2> QED
    BY <1>0, <2>1, <2>2 DEF On, ToSet
<1>2. PICK u \in Thread : u = w[n]
  BY <1>1
<1>a. PICK W : DeliveredTo(w, n - 1, s, W)
  BY <1>0 DEF Delivered
<1>3. /\ W \subseteq On(k, EvWaiters) /\ Wakes(k, s.kernel, W, {})
      /\ \A x \in Thread \ W : s.got[x] = event_set[x]
      /\ \A x \in W : Gotten(s, x)
      /\ \A i \in 1 .. n - 1 : w[i] \notin W => Unmet(s, w[i])
      /\ \A i \in DOMAIN w : w[i] \in W => i <= n - 1
      /\ \A i, j \in 1 .. n - 1 :
           i < j /\ w[i] \in W /\ w[j] \in W /\ event_info[w[i]].clear
             => s.got[w[i]] \cap s.got[w[j]] = {}
  BY <1>a DEF DeliveredTo
<1>4. /\ Lively(s.kernel) /\ s.kernel.current = k.current
      /\ s.set \subseteq set \cup e /\ s.got \in [Thread -> SUBSET Bit]
  BY DEF Delivered
<1>5. /\ u \in On(k, EvWaiters) /\ u \notin W /\ event_set[u] # {} /\ event_set[u] \in SUBSET Bit
      /\ W \subseteq Thread /\ event_set \in [Thread -> SUBSET Bit] /\ s.set \subseteq Bit
  BY <1>1, <1>2, <1>3, <1>4 DEF EvWants, EvTypeOK
<1>6. s.kernel.stat[u] = "SUSPEND" /\ s.got[u] = event_set[u]
  <2>1. k.stat[u] = "SUSPEND"
    BY <1>1, <1>5, Waiter
  <2> QED
    BY <1>3, <1>5, <2>1 DEF Wakes
<1>7. \A i \in 1 .. n : i = n \/ i \in 1 .. n - 1
  OBVIOUS
<1>8. CASE ~Satisfied(event_set[u], event_info[u].all, s.set)
  <2>1. Deliver(s, u) = s
    BY <1>8 DEF Deliver
  <2>2. \A i \in 1 .. n : w[i] \notin W => Unmet(s, w[i])
    BY <1>2, <1>3, <1>7, <1>8 DEF Unmet
  <2>3. \A i \in DOMAIN w : w[i] \in W => i <= n
    BY <1>1, <1>3
  <2>4. \A i, j \in 1 .. n :
            i < j /\ w[i] \in W /\ w[j] \in W /\ event_info[w[i]].clear
              => s.got[w[i]] \cap s.got[w[j]] = {}
    BY <1>2, <1>3, <1>5, <1>7
  <2>5. Delivered(e, n, s)
    <3>1. DeliveredTo(w, n, s, W)
      BY <1>3, <2>2, <2>3, <2>4 DEF DeliveredTo
    <3> QED
      BY <1>0, <1>4, <3>1 DEF Delivered
  <2> QED
    BY <1>0, <1>2, <2>1, <2>5
<1>9. CASE Satisfied(event_set[u], event_info[u].all, s.set)
  <2>1. PICK got : got = IF event_info[u].all THEN event_set[u] ELSE event_set[u] \cap s.set
    OBVIOUS
  <2>2. PICK v : v = Deliver(s, u)
    OBVIOUS
  <2>3. /\ v.kernel = Resume(s.kernel, u)
        /\ v.set = IF event_info[u].clear THEN s.set \ got ELSE s.set
        /\ v.got = [s.got EXCEPT ![u] = got]
    BY <1>9, <2>1, <2>2 DEF Deliver
  <2>4. got # {} /\ got \subseteq event_set[u] /\ got \subseteq s.set /\ got \in SUBSET Bit
    BY <1>5, <1>9, <2>1 DEF Satisfied
  <2>5. /\ v.got[u] = got /\ \A x \in Thread \ {u} : v.got[x] = s.got[x]
        /\ v.got \in [Thread -> SUBSET Bit] /\ v.set \subseteq s.set
        /\ event_info[u].clear => got \cap v.set = {}
    BY <1>4, <2>3, <2>4
  <2>6. Gotten(v, u)
    BY <2>1, <2>4, <2>5 DEF Gotten
  <2>7. \A x \in W : Gotten(v, x)
    BY <1>3, <1>5, <2>5 DEF Gotten
  <2>8. /\ Wakes(s.kernel, v.kernel, {u}, {}) /\ Lively(v.kernel) /\ v.kernel.current = k.current
    <3>1. PICK kk : kk = s.kernel
      OBVIOUS
    <3>2. Lively(kk) /\ kk.stat[u] = "SUSPEND" /\ v.kernel = Resume(kk, u)
      BY <1>4, <1>6, <2>3, <3>1
    <3>3. /\ Wakes(kk, v.kernel, {u}, {}) /\ Lively(v.kernel) /\ v.kernel.current = kk.current
      BY <3>2, ResumeWakes
    <3> QED
      BY <1>4, <3>1, <3>3
  <2>9. Wakes(k, v.kernel, W \cup {u}, {})
    <3>1. Wakes(k, v.kernel, W \cup {u}, {} \cup {})
      BY <1>3, <2>8, WakesTwice
    <3> QED
      BY <3>1
  <2>10. \A i \in 1 .. n : w[i] \notin W \cup {u} => Unmet(v, w[i])
    <3>1. ASSUME NEW i \in 1 .. n, w[i] \notin W \cup {u} PROVE Unmet(v, w[i])
      <4>1. Unmet(s, w[i])
        BY <1>2, <1>3, <1>7, <3>1
      <4> QED
        BY <2>5, <4>1, FewerEvents DEF Unmet
    <3> QED
      BY <3>1
  <2>11. \A i \in DOMAIN w : w[i] \in W \cup {u} => i <= n
    BY <1>1, <1>2, <1>3 DEF IsInjective
  <2>12. \A i, j \in 1 .. n :
            i < j /\ w[i] \in W \cup {u} /\ w[j] \in W \cup {u} /\ event_info[w[i]].clear
              => v.got[w[i]] \cap v.got[w[j]] = {}
    <3>1. ASSUME NEW i \in 1 .. n, NEW j \in 1 .. n, i < j, w[i] \in W \cup {u},
                 w[j] \in W \cup {u}, event_info[w[i]].clear
          PROVE  v.got[w[i]] \cap v.got[w[j]] = {}
      <4>1. i \in 1 .. n - 1 /\ i # n /\ i \in DOMAIN w /\ j \in DOMAIN w
        BY <1>1, <3>1
      <4>2. w[i] # u /\ w[i] \in W /\ w[i] \in Thread
        BY <1>1, <1>2, <1>5, <3>1, <4>1 DEF IsInjective
      <4>3. v.got[w[i]] = s.got[w[i]] /\ s.got[w[i]] \cap s.set = {}
        BY <1>3, <2>5, <3>1, <4>2 DEF Gotten
      <4>4. CASE w[j] = u
        BY <2>4, <2>5, <4>3, <4>4
      <4>5. CASE w[j] # u
        <5>1. w[j] \in W /\ w[j] \in Thread /\ j # n
          BY <1>1, <1>2, <1>5, <3>1, <4>5
        <5>2. j \in 1 .. n - 1
          BY <5>1
        <5> QED
          BY <1>3, <2>5, <3>1, <4>1, <4>2, <4>3, <4>5, <5>1, <5>2
      <4> QED
        BY <4>4, <4>5
    <3> QED
      BY <3>1
  <2>13. /\ W \cup {u} \subseteq On(k, EvWaiters) /\ v.set \subseteq set \cup e
         /\ \A x \in Thread \ (W \cup {u}) : v.got[x] = event_set[x]
         /\ \A x \in W \cup {u} : Gotten(v, x)
    BY <1>3, <1>4, <1>5, <2>5, <2>6, <2>7
  <2>14. Delivered(e, n, v)
    <3>1. DeliveredTo(w, n, v, W \cup {u})
      BY <2>9, <2>10, <2>11, <2>12, <2>13 DEF DeliveredTo
    <3> QED
      BY <1>0, <2>5, <2>8, <2>13, <3>1 DEF Delivered
  <2> QED
    BY <1>0, <1>2, <2>2, <2>14
<1> QED
  BY <1>8, <1>9

LEMMA DeliverAllDelivers ==
  ASSUME CallInv, EvTypeOK, EvWants, NEW e \in SUBSET Bit
  PROVE  Delivered(e, Len(k.list[EvWaiters]), DeliverAll(e))
<1> DEFINE N == Len(k.list[EvWaiters])
           f == CHOOSE g : DeliverRounds(e, g)
           s0 == [kernel |-> k, set |-> set \cup e, got |-> event_set]
           Bad == {n \in 0 .. N : ~Delivered(e, n, f[n])}
<1>1. N \in Nat /\ DOMAIN k.list[EvWaiters] = 1 .. N
  <2>1. k.list[EvWaiters] \in Seq(Thread)
    BY SixLists, ListsOf
  <2> QED
    BY <2>1
<1>2. DeliverRounds(e, f)
  BY <1>1, DeliverRoundsExist
<1>3. DeliverAll(e) = f[N]
  BY DEF DeliverAll, DeliverRounds
<1> HIDE DEF f
<1>4. \A n \in 0 .. N : f[n] = IF n = 0 THEN s0 ELSE Deliver(f[n - 1], k.list[EvWaiters][n])
  BY <1>2 DEF DeliverRounds
<1>5. Delivered(e, 0, s0)
  <2>1. Lively(k) /\ Wakes(k, k, {}, {}) /\ event_set \in [Thread -> SUBSET Bit]
    BY CurrentAwake, NothingWakes DEF EvTypeOK
  <2>2. PICK s : s = s0
    OBVIOUS
  <2>3. s.kernel = k /\ s.set = set \cup e /\ s.got = event_set
    BY <2>2
  <2>4. DeliveredTo(k.list[EvWaiters], 0, s, {})
    BY <2>1, <2>3 DEF DeliveredTo
  <2> HIDE DEF s0
  <2>5. Delivered(e, 0, s)
    BY <2>1, <2>3, <2>4 DEF Delivered
  <2> QED
    BY <2>2, <2>5
<1> HIDE DEF s0
<1>6. Bad = {}
  <2>1. SUFFICES ASSUME Bad # {} PROVE FALSE
    OBVIOUS
  <2>2. Bad \in SUBSET Nat
    BY <1>1
  <2> DEFINE m == Min(Bad)
  <2>3. m \in Bad /\ \A j \in Bad : m <= j
    BY <2>1, <2>2, MinOfNat
  <2>4. m \in 0 .. N /\ ~Delivered(e, m, f[m]) /\ (m # 0 => m - 1 \notin Bad)
    BY <1>1, <2>3
  <2> HIDE DEF m
  <2>5. m # 0
    BY <1>1, <1>4, <1>5, <2>4
  <2>6. m \in 1 .. N /\ m - 1 \in 0 .. N /\ Delivered(e, m - 1, f[m - 1])
    BY <1>1, <2>4, <2>5
  <2>7. f[m] = Deliver(f[m - 1], k.list[EvWaiters][m])
    BY <1>4, <2>4, <2>5
  <2> QED
    BY <2>4, <2>6, <2>7, DeliverRound
<1> QED
  BY <1>1, <1>3, <1>6

(* After the loop no waiter is left that has what it wants. *)
LEMMA SendDelivers ==
  ASSUME CallInv, EvTypeOK, EvWants, NEW e \in SUBSET Bit, NEW s, s = DeliverAll(e)
  PROVE  /\ Lively(s.kernel) /\ s.kernel.current = k.current
         /\ s.set \subseteq Bit /\ s.got \in [Thread -> SUBSET Bit]
         /\ \E W \in SUBSET On(k, EvWaiters) :
              /\ DeliveredTo(k.list[EvWaiters], Len(k.list[EvWaiters]), s, W)
              /\ Wakes(k, s.kernel, W, {})
              /\ \A u \in W : op[u] = "event_recv" /\ op[u] \notin HeapOp
              /\ \A u \in On(k, EvWaiters) \ W : s.got[u] = event_set[u] /\ Unmet(s, u)
<1>0. PICK w : w = k.list[EvWaiters]
  OBVIOUS
<1>1. Delivered(e, Len(w), s)
  BY <1>0, DeliverAllDelivers
<1>2. PICK W : DeliveredTo(w, Len(w), s, W)
  BY <1>0, <1>1 DEF Delivered
<1>3. w \in Seq(Thread) /\ On(k, EvWaiters) = {w[i] : i \in DOMAIN w}
  BY <1>0, SixLists, ListsOf DEF On, ToSet
<1>4. \A u \in On(k, EvWaiters) \ W : s.got[u] = event_set[u] /\ Unmet(s, u)
  BY <1>2, <1>3 DEF DeliveredTo
<1>5. \A u \in W : op[u] = "event_recv" /\ op[u] \notin HeapOp
  <2>1. "event_recv" \in WaitOp \ HeapOp /\ WaitList("event_recv") = EvWaiters
    BY WaitListOf DEF WaitOp, HeapOp
  <2>2. W \subseteq On(k, EvWaiters)
    BY <1>2 DEF DeliveredTo
  <2>3. \A u \in On(k, EvWaiters) : op[u] = "event_recv" /\ op[u] \notin HeapOp
    BY <2>1, ListWaiters
  <2> QED
    BY <2>2, <2>3
<1>6. W \subseteq On(k, EvWaiters) /\ Wakes(k, s.kernel, W, {})
  BY <1>2 DEF DeliveredTo
<1>7. /\ Lively(s.kernel) /\ s.kernel.current = k.current
      /\ s.set \subseteq set \cup e /\ s.got \in [Thread -> SUBSET Bit] /\ set \subseteq Bit
  BY <1>1 DEF Delivered, EvTypeOK
<1>8. s.set \subseteq Bit
  BY <1>7
<1> QED
  BY <1>0, <1>2, <1>4, <1>5, <1>6, <1>7, <1>8

LEMMA EvQueue ==
  /\ EvWaiters \in Queue /\ "event_recv" \in WaitOp \ HeapOp /\ WaitList("event_recv") = EvWaiters
  /\ "event_detach" \in Op /\ {} \subseteq EvOp
  /\ {"event_recv"} \subseteq EvOp /\ {"event_detach"} \subseteq EvOp
BY SixLists, WaitListOf DEF WaitOp, HeapOp, Op, EvOp

(* What ClearedForOthers says of one step *)
ClearedNow ==
  \A t \in Thread : Received(t) =>
    /\ event_set'[t] # {} /\ event_set'[t] \subseteq event_set[t]
    /\ event_info[t].all => event_set'[t] = event_set[t]
    /\ event_info[t].clear =>
         /\ event_set'[t] \cap set' = {}
         /\ \A u \in Behind(t) : Received(u) => event_set'[t] \cap event_set'[u] = {}

(* A send wakes waiters with events. *)
Shifts(t, W, O) ==
  /\ Effect(t, W) /\ Within(t, O) /\ Plain(t)
  /\ \A u \in W : /\ op[u] \notin HeapOp
                  /\ op[u] = "timer_entry" => u \in k.armed /\ Runners

EvStep == /\ \E t, W : Shifts(t, W, EvOp)
          /\ EvInv' /\ ClearedNow

LEMMA MovesShifts ==
  ASSUME NEW t, NEW W, NEW O, Moves(t, W, O)
  PROVE  Shifts(t, W, O)
BY DEF Moves, Shifts, Stirred

(* Those who still wait want the same, and no more events are set. *)
LEMMA EvKept ==
  ASSUME EvInv, NEW W, On(k', EvWaiters) \subseteq On(k, EvWaiters) \ W, set' \subseteq set,
         \A u \in On(k, EvWaiters) \ W : event_set'[u] = event_set[u] /\ event_info'[u] = event_info[u]
  PROVE  EvInv'
<1>1. ASSUME NEW u \in On(k', EvWaiters)
      PROVE  event_set'[u] # {} /\ ~Satisfied(event_set'[u], event_info'[u].all, set')
  <2>1. /\ u \in On(k, EvWaiters) /\ event_set[u] # {}
        /\ ~Satisfied(event_set[u], event_info[u].all, set)
    BY DEF EvInv, EvWants, NoSatisfiedWaiter
  <2> QED
    BY <2>1, FewerEvents
<1> QED
  BY <1>1 DEF EvInv, EvWants, NoSatisfiedWaiter

LEMMA NobodyReceives ==
  ASSUME \A u \in On(k, EvWaiters) : u \in On(k', EvWaiters) \/ k'.err[u] # "EOK"
  PROVE  ClearedNow
BY DEF ClearedNow, Received, On

LEMMA EvRecvStep ==
  ASSUME CallInv, EvTypeOK, EvInv, NEW t \in Thread,
         EvRecvAtOnce(t) \/ EvRecvFails(t) \/ EvRecvReturn(t)
  PROVE  EvStep
<1> DEFINE nobody == {}
<1>1. On(k', EvWaiters) = On(k, EvWaiters)
  <2>1. CASE EvRecvAtOnce(t) \/ EvRecvFails(t)
    <3>1. k \in KernelState
      BY CurrentAwake
    <3>2. PICK e : k' = [k EXCEPT !.err[t] = e]
      BY <2>1 DEF EvRecvAtOnce, EvRecvFails
    <3>3. k'.list = k.list
      BY <3>1, <3>2 DEF KernelState
    <3> QED
      BY <3>3 DEF On
  <2>2. CASE EvRecvReturn(t)
    BY <2>2 DEF EvRecvReturn
  <2> QED
    BY <2>1, <2>2
<1>2. Moves(t, {}, EvOp)
  <2>1. CASE EvRecvAtOnce(t) \/ EvRecvFails(t)
    <3>1. /\ Calls(t, "event_recv", "event") /\ op' = op /\ pc' = pc /\ timed' = timed
          /\ prog' = prog /\ alive' = alive
      BY <2>1 DEF EvRecvAtOnce, EvRecvFails
    <3>2. PICK e \in Err : k' = [k EXCEPT !.err[t] = e]
      BY <2>1 DEF EvRecvAtOnce, EvRecvFails, Err
    <3>3. Moves(t, {}, {})
      BY <3>1, <3>2, ErrorMoves
    <3> QED
      BY <3>3, EvQueue, MovesMore
  <2>2. CASE EvRecvReturn(t)
    <3>1. Runs(t) /\ op[t] = "event_recv"
      BY <2>2, AtRuns DEF EvRecvReturn, Special, StPlaces, HeapPlaces
    <3>2. /\ SameKernel /\ Return(t) /\ prog' = prog /\ alive' = alive
          /\ op[t] \in {"event_recv"} \/ pc[t] \in Outer
      BY <2>2, <3>1 DEF EvRecvReturn, SameKernel
    <3>3. Moves(t, {}, {"event_recv"})
      BY <3>1, <3>2, ReturnMoves
    <3> QED
      BY <3>3, EvQueue, MovesMore
  <2> QED
    BY <2>1, <2>2
<1>3. EvInv'
  <2>1. t \notin On(k, EvWaiters)
    BY <1>2, EvQueue DEF Moves, Effect
  <2>2. set' \subseteq set
    BY DEF EvRecvAtOnce, EvRecvFails, EvRecvReturn, evVars
  <2>3. On(k, EvWaiters) \subseteq Thread
    BY EvQueue, Waiter
  <2>4. \A u \in On(k, EvWaiters) : event_set'[u] = event_set[u] /\ event_info'[u] = event_info[u]
    BY <2>1, <2>3 DEF EvRecvAtOnce, EvRecvFails, EvRecvReturn, evVars, EvTypeOK
  <2>5. On(k', EvWaiters) \subseteq On(k, EvWaiters) \ nobody
    BY <1>1
  <2> QED
    BY <2>2, <2>4, <2>5, EvKept
<1>4. ClearedNow
  BY <1>1, NobodyReceives
<1> QED
  BY <1>2, <1>3, <1>4, MovesShifts DEF EvStep

LEMMA EvWaitStep ==
  ASSUME CallInv, EvTypeOK, EvInv, NEW t \in Thread, EvRecvWait(t)
  PROVE  EvStep
<1>1. /\ Calls(t, "event_recv", "event") /\ WaitOn(t, "event_recv", EvWaiters)
      /\ prog' = prog /\ alive' = alive /\ set' = set
  BY DEF EvRecvWait
<1>2. InLoop(t, "event_recv", "event")
  BY <1>1 DEF InLoop
<1>3. /\ Moves(t, {}, {"event_recv"})
      /\ On(k', EvWaiters) = On(k, EvWaiters) \cup {t} /\ t \notin On(k, EvWaiters)
  BY <1>1, <1>2, EvQueue, WaitMoves
<1>4. PICK r \in Request : /\ ~Satisfied(r[1], r[2].all, set)
                           /\ event_set' = [event_set EXCEPT ![t] = r[1]]
                           /\ event_info' = [event_info EXCEPT ![t] = r[2]]
  BY DEF EvRecvWait
<1>5. r[1] # {}
  BY <1>4, EventAssumption
<1>6. EvInv'
  <2>1. ASSUME NEW u \in On(k', EvWaiters)
        PROVE  event_set'[u] # {} /\ ~Satisfied(event_set'[u], event_info'[u].all, set')
    <3>1. CASE u = t
      BY <1>1, <1>4, <1>5, <3>1 DEF EvTypeOK
    <3>2. CASE u # t
      <4>1. /\ u \in On(k, EvWaiters) /\ event_set[u] # {}
            /\ ~Satisfied(event_set[u], event_info[u].all, set)
        BY <1>3, <3>2 DEF EvInv, EvWants, NoSatisfiedWaiter
      <4>2. u \in Thread
        BY <4>1, EvQueue, Waiter
      <4> QED
        BY <1>1, <1>4, <3>2, <4>1, <4>2 DEF EvTypeOK
    <3> QED
      BY <3>1, <3>2
  <2> QED
    BY <2>1 DEF EvInv, EvWants, NoSatisfiedWaiter
<1>7. ClearedNow
  BY <1>3, NobodyReceives
<1>8. Moves(t, {}, EvOp)
  BY <1>3, EvQueue, MovesMore
<1> QED
  BY <1>6, <1>7, <1>8, MovesShifts DEF EvStep

LEMMA EvResetStep ==
  ASSUME CallInv, EvTypeOK, EvInv, NEW t \in Thread, EvReset(t)
  PROVE  EvStep
<1> DEFINE W == On(k, EvWaiters)
<1>1. /\ Calls(t, "event_reset", "event") /\ Goto(t, "event_reset", "sched")
      /\ prog' = prog /\ alive' = alive /\ timed' = timed
      /\ set' = {} /\ event_set' = event_set /\ event_info' = event_info
      /\ k' = ResumeAll(k, EvWaiters)
  BY DEF EvReset
<1>2. /\ Wakes(k, k', W, W) /\ k'.current = k.current /\ \A u \in W : Stirred(u)
      /\ \A u \in W : k'.err[u] = "ERROR"
  <2>1. /\ Wakes(k, k', W, W) /\ k'.current = k.current
        /\ \A u \in W : op[u] = "event_recv" /\ op[u] \notin HeapOp /\ k'.err[u] = "ERROR"
    BY <1>1, EvQueue, AllWakeHere
  <2> QED
    BY <2>1 DEF Stirred
<1> HIDE DEF W
<1>3. Moves(t, W, {})
  BY <1>1, <1>2, ResetMoves
<1>4. Moves(t, W, EvOp)
  BY <1>3, EvQueue, MovesMore
<1>5. On(k', EvWaiters) = {}
  BY <1>2, EvQueue DEF Wakes, W
<1>6. EvInv'
  BY <1>5 DEF EvInv, EvWants, NoSatisfiedWaiter
<1>7. ClearedNow
  BY <1>2, NobodyReceives DEF W
<1> QED
  BY <1>4, <1>6, <1>7, MovesShifts DEF EvStep

(* A step that does not wake threads with events lets none of them receive. *)
LEMMA MovesReceive ==
  ASSUME CallInv, NEW t, NEW W, NEW O, Moves(t, W, O)
  PROVE  \A u \in On(k, EvWaiters) : u \in On(k', EvWaiters) \/ k'.err[u] # "EOK"
<1> SUFFICES ASSUME NEW u \in On(k, EvWaiters), u \notin On(k', EvWaiters)
             PROVE  k'.err[u] # "EOK"
  OBVIOUS
<1>1. op[u] = "event_recv"
  BY EvQueue, ListWaiters
<1>2. u \in W
  BY EvQueue DEF Moves, Effect
<1> QED
  BY <1>1, <1>2 DEF Moves, Stirred

LEMMA EvDetachStep ==
  ASSUME CallInv, EvTypeOK, EvInv, NEW t \in Thread, EvDetach(t)
  PROVE  EvStep
<1> DEFINE w == "event_recv"
           nobody == {}
<1>0. /\ set' = set /\ event_set' = event_set /\ event_info' = event_info
      /\ \/ Detach(t, "event_detach", "event")
         \/ DrainTest(t, "event_detach", WaitList(w), "test", "resume", "user")
         \/ DrainResume(t, "event_detach", WaitList(w), "test", "resume")
  BY EvQueue DEF EvDetach, evVars
<1>1. \E W : Moves(t, W, {"event_detach"}) /\ pc'[t] \notin {"wait", "woken"}
  <2>1. CASE Detach(t, "event_detach", "event")
    BY <2>1, DetachMoves
  <2>2. CASE DrainTest(t, "event_detach", WaitList(w), "test", "resume", "user")
    BY <2>2, EvQueue, DrainTestMoves
  <2>3. CASE DrainResume(t, "event_detach", WaitList(w), "test", "resume")
    BY <2>3, EvQueue, DrainResumeMoves
  <2> QED
    BY <1>0, <2>1, <2>2, <2>3
<1>2. PICK W : Moves(t, W, {"event_detach"})
  BY <1>1
<1>3. Moves(t, W, EvOp)
  BY <1>2, EvQueue, MovesMore
<1>4. ClearedNow
  BY <1>2, MovesReceive, NobodyReceives
<1>5. On(k', EvWaiters) \subseteq On(k, EvWaiters) \ nobody
  <2>1. Leaves(w)
    BY <1>2, MovesLeaves
  <2> QED
    BY <2>1, EvQueue, LeavesWaiters
<1>6. EvInv'
  <2>1. /\ \A u \in On(k, EvWaiters) \ nobody :
             event_set'[u] = event_set[u] /\ event_info'[u] = event_info[u]
        /\ set' \subseteq set
    BY <1>0
  <2> HIDE DEF nobody
  <2> QED
    BY <1>5, <2>1, EvKept
<1> QED
  BY <1>3, <1>4, <1>6, MovesShifts DEF EvStep

(* The events e are sent, and threads of W receive them. *)
Sends(e, W) ==
  LET s == DeliverAll(e) IN
  /\ set' = s.set /\ event_set' = s.got /\ event_info' = event_info
  /\ DeliveredTo(k.list[EvWaiters], Len(k.list[EvWaiters]), s, W)
  /\ On(k', EvWaiters) = On(k, EvWaiters) \ W
  /\ \A u \in On(k, EvWaiters) \ W : s.got[u] = event_set[u] /\ Unmet(s, u)
  /\ s.got \in [Thread -> SUBSET Bit]

LEMMA SendsKeeps ==
  ASSUME CallInv, EvTypeOK, EvInv, NEW e, NEW W, Sends(e, W)
  PROVE  EvInv'
<1>1. ASSUME NEW u \in On(k', EvWaiters)
      PROVE  event_set'[u] # {} /\ ~Satisfied(event_set'[u], event_info'[u].all, set')
  <2>1. u \in On(k, EvWaiters) \ W /\ event_set[u] # {}
    BY DEF Sends, EvInv, EvWants
  <2> QED
    BY <2>1 DEF Sends, Unmet
<1> QED
  BY <1>1 DEF EvInv, EvWants, NoSatisfiedWaiter

LEMMA SendsClears ==
  ASSUME CallInv, EvTypeOK, NEW e, NEW W, Sends(e, W)
  PROVE  ClearedNow
<1>0. PICK w : w = k.list[EvWaiters]
  OBVIOUS
<1>1. PICK s : s = DeliverAll(e)
  OBVIOUS
<1>2. /\ set' = s.set /\ event_set' = s.got /\ event_info' = event_info
      /\ DeliveredTo(w, Len(w), s, W) /\ On(k', EvWaiters) = On(k, EvWaiters) \ W
  BY <1>0, <1>1 DEF Sends
<1>3. /\ w \in Seq(Thread) /\ IsInjective(w) /\ DOMAIN w = 1 .. Len(w)
      /\ On(k, EvWaiters) = {w[i] : i \in DOMAIN w}
  <2>1. w \in Seq(Thread) /\ IsInjective(w)
    BY <1>0, EvQueue, ListsOf
  <2> QED
    BY <1>0, <2>1 DEF On, ToSet
<1>4. \A t \in Thread : Received(t) => t \in W
  BY <1>2 DEF Received, On
<1>5. \A t \in W : Gotten(s, t)
  BY <1>2 DEF DeliveredTo
<1>6. ASSUME NEW t \in Thread, Received(t), event_info[t].clear,
             NEW u \in Behind(t), Received(u)
      PROVE  event_set'[t] \cap event_set'[u] = {}
  <2>1. PICK i \in DOMAIN w, j \in DOMAIN w : i < j /\ w[i] = t /\ w[j] = u
    BY <1>0, <1>6 DEF Behind
  <2>2. u \in W /\ t \in W
    BY <1>4, <1>6 DEF Behind
  <2>3. s.got[w[i]] \cap s.got[w[j]] = {}
    BY <1>2, <1>3, <1>6, <2>1, <2>2 DEF DeliveredTo
  <2> QED
    BY <1>2, <2>1, <2>3
<1>7. ASSUME NEW t \in Thread, Received(t)
      PROVE  /\ event_set'[t] # {} /\ event_set'[t] \subseteq event_set[t]
             /\ event_info[t].all => event_set'[t] = event_set[t]
             /\ event_info[t].clear => event_set'[t] \cap set' = {}
  <2>1. Gotten(s, t)
    BY <1>4, <1>5, <1>7
  <2> QED
    BY <1>2, <2>1 DEF Gotten
<1> QED
  BY <1>6, <1>7 DEF ClearedNow

(* A step of the running thread that wakes W, in one formula *)
Acts(t, o, a, W) ==
  /\ t \in Thread /\ t = k.current /\ t # Idle
  /\ pc[t] \notin {"wait", "asleep", "nap", "sched"} \cup Locked
  /\ o \in Op \cup {"none"} /\ a \in PC /\ a \notin Locked /\ MayDo(t, o)
  /\ op' = [op EXCEPT ![t] = o] /\ pc' = [pc EXCEPT ![t] = a] /\ Steady
  /\ Wakes(k, k', W, {}) /\ Turns(k, k')

LEMMA ActsEffect ==
  ASSUME CallInv, NEW t, NEW o, NEW a, NEW W, Acts(t, o, a, W)
  PROVE  Effect(t, W) /\ op'[t] = o /\ pc'[t] = a
<1>0. /\ t \in Thread /\ t = k.current /\ t # Idle
      /\ pc[t] \notin {"wait", "asleep", "nap", "sched"} \cup Locked
      /\ o \in Op \cup {"none"} /\ a \in PC /\ a \notin Locked /\ MayDo(t, o)
      /\ op' = [op EXCEPT ![t] = o] /\ pc' = [pc EXCEPT ![t] = a] /\ Steady
      /\ Turns(k, k')
  BY DEF Acts
<1>00. PICK E : E = {}
  OBVIOUS
<1>01. Wakes(k, k', W, E) /\ \A u \in E : u \in W \/ u = t
  BY <1>00 DEF Acts
<1>1. /\ Settled(k, op, pc) /\ k.stat[t] # "SUSPEND" /\ Lively(k)
      /\ op \in [Thread -> Op \cup {"none"}] /\ pc \in [Thread -> PC]
      /\ \A q \in Queue : t \notin On(k, q)
  BY <1>0, CurrentAwake DEF CallInv, Settled
<1>2. Settled(k', [op EXCEPT ![t] = o], [pc EXCEPT ![t] = a])
  BY <1>0, <1>01, <1>1, GoingOnSettled
<1>3. Settled(k', op', pc')
  BY <1>0, <1>2
<1>4. CallInv'
  BY <1>0, <1>3, UsedGoesOn DEF CallInv
<1>5. \A u \in Thread \ {t} :
        /\ op'[u] = op[u] /\ pc'[u] = pc[u]
        /\ k'.stat[u] = "SUSPEND" <=> k.stat[u] = "SUSPEND" /\ u \notin W
        /\ u \notin W => k'.err[u] = k.err[u] /\ (u \in k'.armed <=> u \in k.armed)
  BY <1>0, <1>01, <1>1 DEF Wakes
<1>6. /\ \A u \in W : u \in Thread \ {t} /\ k.stat[u] = "SUSPEND"
      /\ \A q \in Queue : On(k', q) \ {t} = On(k, q) \ W
  BY <1>0, <1>01, <1>1 DEF Wakes
<1>7. k'.current = k.current \/ Runners
  BY <1>0 DEF Turns, Runners
<1> QED
  BY <1>0, <1>1, <1>4, <1>5, <1>6, <1>7 DEF Effect, Steady

LEMMA EvSendStep ==
  ASSUME CallInv, EvTypeOK, EvInv, NEW t \in Thread, EvSend(t)
  PROVE  EvStep
<1>1. PICK e \in SUBSET Bit :
        LET s == DeliverAll(e) IN
        /\ k' = s.kernel /\ set' = s.set /\ event_set' = s.got
        /\ IF s.kernel # k
           THEN Goto(t, "event_send", "sched") /\ UNCHANGED timed
           ELSE Return(t)
  BY DEF EvSend
<1>2. PICK s : s = DeliverAll(e)
  OBVIOUS
<1>3. PICK W \in SUBSET On(k, EvWaiters) :
        /\ DeliveredTo(k.list[EvWaiters], Len(k.list[EvWaiters]), s, W)
        /\ Wakes(k, s.kernel, W, {})
        /\ \A u \in W : op[u] = "event_recv" /\ op[u] \notin HeapOp
        /\ \A u \in On(k, EvWaiters) \ W : s.got[u] = event_set[u] /\ Unmet(s, u)
  BY <1>2, SendDelivers DEF EvInv
<1>4. s.kernel.current = k.current /\ s.got \in [Thread -> SUBSET Bit]
  BY <1>2, SendDelivers DEF EvInv
<1>5. /\ k' = s.kernel /\ set' = s.set /\ event_set' = s.got /\ event_info' = event_info
      /\ \/ Goto(t, "event_send", "sched") /\ timed' = timed
         \/ Return(t)
      /\ prog' = prog /\ alive' = alive
  BY <1>1, <1>2 DEF EvSend
<1>6. /\ Runs(t) /\ pc[t] = "user" /\ "event_send" \in Op /\ MayDo(t, "event_send")
      /\ timed \in [Thread -> BOOLEAN]
  BY CallRuns DEF EvSend, CallInv
<1>7. PICK o \in {"event_send", "none"}, a \in {"sched", "user"} :
        /\ op' = [op EXCEPT ![t] = o] /\ pc' = [pc EXCEPT ![t] = a] /\ Steady
  BY <1>5, <1>6 DEF Goto, Return, Steady
<1>8. /\ t \in Thread /\ t = k.current /\ t # Idle
      /\ pc[t] \notin {"wait", "asleep", "nap", "sched"} \cup Locked
      /\ o \in Op \cup {"none"} /\ a \in PC /\ a \notin Locked /\ MayDo(t, o)
  BY <1>6, <1>7 DEF Runs, MayDo, PC
<1>9. Wakes(k, k', W, {})
  BY <1>3, <1>5
<1>14. Turns(k, k')
  BY <1>4, <1>5 DEF Turns
<1>10. Effect(t, W) /\ op'[t] = o /\ pc'[t] = a
  <2>1. Acts(t, o, a, W)
    BY <1>7, <1>8, <1>9, <1>14 DEF Acts
  <2> QED
    BY <2>1, ActsEffect
<1>11. Shifts(t, W, EvOp)
  BY <1>3, <1>6, <1>10 DEF Shifts, Within, Plain, Outer, Special, StPlaces, HeapPlaces
<1>12. On(k', EvWaiters) = On(k, EvWaiters) \ W
  BY <1>9, EvQueue DEF Wakes
<1>13. Sends(e, W)
  BY <1>2, <1>3, <1>4, <1>5, <1>12 DEF Sends
<1> QED
  BY <1>11, <1>13, SendsKeeps, SendsClears DEF EvStep

LEMMA EvIsrSendStep ==
  ASSUME CallInv, EvTypeOK, EvInv, EvIsrSend
  PROVE  EvStep
<1>1. PICK e \in SUBSET Bit :
        LET s == DeliverAll(e) IN
        /\ k' = IF s.kernel # k THEN Schedule(s.kernel) ELSE k
        /\ set' = s.set /\ event_set' = s.got
  BY DEF EvIsrSend
<1>2. PICK s : s = DeliverAll(e)
  OBVIOUS
<1>3. PICK W \in SUBSET On(k, EvWaiters) :
        /\ DeliveredTo(k.list[EvWaiters], Len(k.list[EvWaiters]), s, W)
        /\ Wakes(k, s.kernel, W, {})
        /\ \A u \in W : op[u] = "event_recv" /\ op[u] \notin HeapOp
        /\ \A u \in On(k, EvWaiters) \ W : s.got[u] = event_set[u] /\ Unmet(s, u)
  BY <1>2, SendDelivers DEF EvInv
<1>4. /\ s.kernel.current = k.current /\ Lively(s.kernel)
      /\ s.got \in [Thread -> SUBSET Bit]
  BY <1>2, SendDelivers DEF EvInv
<1>5. /\ k' = s.kernel \/ k' = Schedule(s.kernel)
      /\ set' = s.set /\ event_set' = s.got /\ event_info' = event_info
      /\ prog' = prog /\ alive' = alive /\ timed' = timed /\ op' = op /\ pc' = pc
  BY <1>1, <1>2 DEF EvIsrSend
<1>6. Wakes(k, k', W, {}) /\ Turns(k, k')
  <2>1. PICK kk : kk = s.kernel
    OBVIOUS
  <2>2. Wakes(kk, Schedule(kk), {}, {}) /\ Turns(kk, Schedule(kk))
    BY <1>4, <2>1, ScheduleWakes
  <2>3. Wakes(k, Schedule(kk), W \cup {}, {} \cup {})
    BY <1>3, <2>1, <2>2, WakesTwice
  <2>4. Wakes(k, Schedule(kk), W, {})
    BY <2>3
  <2>5. Turns(k, kk) /\ Turns(k, Schedule(kk))
    BY <1>3, <1>4, <2>1, <2>2 DEF Turns, Wakes
  <2> QED
    BY <1>3, <1>5, <2>1, <2>4, <2>5
<1>7. Wakes(k, k', W, W)
  BY <1>6 DEF Wakes
<1>8. Steady
  BY <1>5 DEF Steady, CallInv
<1>9. Effect(Isr, W)
  BY <1>5, <1>6, <1>7, <1>8, StayEffect
<1>10. Shifts(Isr, W, EvOp)
  BY <1>3, <1>9, SystemAssumption DEF Shifts, Within, Plain
<1>11. On(k', EvWaiters) = On(k, EvWaiters) \ W
  BY <1>6, EvQueue DEF Wakes
<1>12. Sends(e, W)
  BY <1>2, <1>3, <1>4, <1>5, <1>11 DEF Sends
<1> QED
  BY <1>10, <1>12, SendsKeeps, SendsClears DEF EvStep

LEMMA EvMoves ==
  ASSUME CallInv, EvTypeOK, EvInv, EvNext
  PROVE  EvStep
BY EvIsrSendStep, EvRecvStep, EvWaitStep, EvSendStep, EvResetStep, EvDetachStep DEF EvNext

(* The fields of the event set keep their types. *)
LEMMA EvTypes ==
  ASSUME CallInv, EvTypeOK, EvInv, EvNext
  PROVE  EvTypeOK'
<1>1. ASSUME NEW e \in SUBSET Bit, set' = DeliverAll(e).set, event_set' = DeliverAll(e).got
      PROVE  set' \in SUBSET Bit /\ event_set' \in [Thread -> SUBSET Bit]
  <2>1. PICK s : s = DeliverAll(e)
    OBVIOUS
  <2>2. s.set \subseteq Bit /\ s.got \in [Thread -> SUBSET Bit]
    BY <2>1, SendDelivers DEF EvInv
  <2> QED
    BY <1>1, <2>1, <2>2
<1>2. CASE EvIsrSend
  BY <1>1, <1>2 DEF EvIsrSend, EvTypeOK
<1>3. ASSUME NEW t \in Thread, EvSend(t) PROVE EvTypeOK'
  BY <1>1, <1>3 DEF EvSend, EvTypeOK
<1>4. ASSUME NEW t \in Thread, EvRecvAtOnce(t) \/ EvRecvFails(t) \/ EvDetach(t) \/ EvReset(t)
      PROVE  EvTypeOK'
  BY <1>4 DEF EvRecvAtOnce, EvRecvFails, EvDetach, EvReset, evVars, EvTypeOK
<1>5. ASSUME NEW t \in Thread, EvRecvWait(t) PROVE EvTypeOK'
  <2>1. PICK r \in Request : /\ event_set' = [event_set EXCEPT ![t] = r[1]]
                             /\ event_info' = [event_info EXCEPT ![t] = r[2]]
    BY <1>5 DEF EvRecvWait
  <2>2. r[1] \in SUBSET Bit /\ r[2] \in Info
    BY EventAssumption
  <2> QED
    BY <1>5, <2>1, <2>2 DEF EvRecvWait, EvTypeOK
<1>6. ASSUME NEW t \in Thread, EvRecvReturn(t) PROVE EvTypeOK'
  <2>1. NoInfo \in Info
    BY DEF NoInfo, Info
  <2> QED
    BY <1>6, <2>1 DEF EvRecvReturn, EvTypeOK
<1> QED
  BY <1>2, <1>3, <1>4, <1>5, <1>6 DEF EvNext

(* The steps of the other objects *)
LEMMA EvLeft ==
  ASSUME CallInv, EvTypeOK, EvInv, Leaves("event_recv"), UNCHANGED evVars
  PROVE  EvInv' /\ EvTypeOK'
<1> DEFINE nobody == {}
<1>1. On(k', EvWaiters) \subseteq On(k, EvWaiters) \ nobody
  BY EvQueue, LeavesWaiters
<1>2. /\ set' = set /\ event_set' = event_set /\ event_info' = event_info
  BY DEF evVars
<1>3. EvInv'
  <2> HIDE DEF nobody
  <2> QED
    BY <1>1, <1>2, EvKept
<1> QED
  BY <1>2, <1>3 DEF EvTypeOK

-----------------------------------------------------------------------------
(* Soft timers: they are used by threads outside of the objects. *)
StOp == {"timer_start", "timer_stop", "timer_entry"}

(* Who waits neither for the heap nor for events *)
OtherWait(u) == op[u] \notin HeapOp \cup {"event_recv"}

StStep ==
  \/ SameWaits
  \/ \E t, W : /\ Effect(t, W) /\ Within(t, StOp) /\ \A u \in W : OtherWait(u)
               /\ t \in Thread => pc[t] \notin HeapPlaces /\ pc'[t] \notin HeapPlaces

(* The places of rt_thread_timer_entry *)
EntryPlaces ==
  {"next", "suspend", "delay", "asleep", "check",
   "func", "f_insert", "f_remove", "f_flag", "nap", "napped"} \cup Locked

(* At a place of the soft timers a thread is inside the operation that has  *)
(* that place, and between the two stretches of a start it has a timer.     *)
PlacedAt(o, a, s, t) ==
  /\ a \in {"insert", "wake", "resume_test", "unlink", "ready"} => o = "timer_start"
  /\ a \in {"remove", "flag"} => o = "timer_stop"
  /\ a \in EntryPlaces => o = "timer_entry" /\ t = TimerThread
  /\ a \in {"insert", "f_insert", "restart"} => s \in SoftTimers

StPlaced == \A t \in Thread : PlacedAt(op[t], pc[t], on[t], t)

(* When the timer thread is awake, nobody less urgent runs, but who has     *)
(* just woken it and is about to call rt_schedule.                          *)
Yields ==
  pc[TimerThread] \in EntryPlaces /\ k.stat[TimerThread] # "SUSPEND" =>
    \/ BasePrio[k.current] <= BasePrio[TimerThread]
    \/ op[k.current] = "timer_start" /\ pc[k.current] = "sched"

(* It still sleeps, without a timer, when the thread that wakes it comes to *)
(* the second masked stretch of rt_thread_resume.                           *)
WakerInv ==
  \A t \in Thread :
    /\ pc[t] \in {"unlink", "ready"} => pc[TimerThread] \in EntryPlaces
    /\ pc[t] = "ready" => /\ k.stat[TimerThread] = "SUSPEND" /\ TimerThread \notin k.armed
                          /\ k.current # TimerThread

(* In a time-out function it sleeps with a timer, unless it is being woken. *)
NapTimed ==
  pc[TimerThread] \in {"nap", "napped"} /\ k.stat[TimerThread] = "SUSPEND" =>
    TimerThread \in k.armed \/ \E u \in Thread : Readies(u)

(* It suspends itself for an unlimited time on an empty list only, but for  *)
(* the cases that missed stands for, and no timer is forgotten then.        *)
SuspendsOnEmpty == pc[TimerThread] = "suspend" /\ ~missed => soft_list = <<>>
ForgetsNone == SuspendsOnEmpty /\ NoTimerForgottenOnceSeen

TimInv == Yields /\ WakerInv /\ NapTimed /\ ForgetsNone

-----------------------------------------------------------------------------
LEMMA StSpares ==
  ASSUME StStep
  PROVE  Spares /\ \A o \in WaitOp : Leaves(o)
<1>1. \A o \in WaitOp : o \notin StOp
  BY DEF WaitOp, HeapOp, StOp
<1>2. CASE SameWaits
  BY <1>2 DEF Spares, Leaves
<1>3. ASSUME NEW t, NEW W, Effect(t, W), Within(t, StOp), \A u \in W : OtherWait(u),
             t \in Thread => pc[t] \notin HeapPlaces /\ pc'[t] \notin HeapPlaces
      PROVE  Spares /\ \A o \in WaitOp : Leaves(o)
  <2>1. StOp \cap HeapOp = {}
    BY DEF StOp, HeapOp
  <2> QED
    BY <1>1, <1>3, <2>1 DEF Spares, Leaves, OtherWait
<1> QED
  BY <1>2, <1>3 DEF StStep

(* A step of t without an effect on the kernel *)
LEMMA StGoesOn ==
  ASSUME CallInv, NEW t, NEW o, NEW a, NEW W, Acts(t, o, a, W), \A u \in W : OtherWait(u),
         op[t] \in StOp \/ pc[t] = "user", o \in StOp \/ a = "user",
         pc[t] \notin HeapPlaces, a \notin HeapPlaces
  PROVE  StStep
<1>1. Effect(t, W) /\ op'[t] = o /\ pc'[t] = a
  BY ActsEffect
<1>2. Within(t, StOp)
  BY <1>1 DEF Within, Outer
<1> QED
  BY <1>1, <1>2 DEF StStep

(* The timer thread goes on, the scheduler locked or not. *)
LEMMA LockSettled ==
  ASSUME NEW kk, NEW f, NEW g, Settled(kk, f, g), kk.current = TimerThread,
         f[TimerThread] = "timer_entry", kk.stat[TimerThread] # "SUSPEND",
         NEW a \in PC, NEW r, KernelOK(r), r.stat = kk.stat, r.prio = kk.prio,
         r.armed = kk.armed, r.list = kk.list, r.current = kk.current,
         \A u \in Thread : u # TimerThread => r.err[u] = kk.err[u],
         r.lock = IF a \in Locked THEN 1 ELSE 0
  PROVE  Settled(r, f, [g EXCEPT ![TimerThread] = a])
<1> DEFINE g2 == [g EXCEPT ![TimerThread] = a]
<1>1. /\ TimerThread \in Thread /\ TimerThread # Idle
      /\ g \in [Thread -> PC] /\ g2 \in [Thread -> PC] /\ g2[TimerThread] = a
      /\ \A u \in Thread : u # TimerThread => g2[u] = g[u]
  BY Kinds DEF Settled
<1> HIDE DEF g2
<1>2. \A u \in Thread : r.stat[u] = "SUSPEND" => WaitsFor(r, f, g2, u)
  <2> SUFFICES ASSUME NEW u \in Thread, r.stat[u] = "SUSPEND" PROVE WaitsFor(r, f, g2, u)
    OBVIOUS
  <2>1. WaitsFor(kk, f, g, u) /\ u # TimerThread
    BY DEF Settled
  <2> QED
    BY <1>1, <2>1 DEF WaitsFor, On
<1>3. Settled(r, f, g2)
  BY <1>1, <1>2, Kinds DEF Settled, On
<1> QED
  BY <1>3 DEF g2

LEMMA LockEffect ==
  ASSUME CallInv, Steady, op' = op, NEW a \in PC, pc' = [pc EXCEPT ![TimerThread] = a],
         Entry(pc[TimerThread]), pc[TimerThread] \notin {"wait", "asleep", "nap", "sched"},
         NEW r, KernelOK(r), r.stat = k.stat, r.prio = k.prio,
         r.armed = k.armed, r.list = k.list, r.current = k.current,
         \A u \in Thread : u # TimerThread => r.err[u] = k.err[u],
         r.lock = IF a \in Locked THEN 1 ELSE 0,
         k' = r \/ (a \notin Locked /\ k' = Schedule(r))
  PROVE  Effect(TimerThread, {}) /\ op'[TimerThread] = "timer_entry" /\ pc'[TimerThread] = a
<1>1. /\ k.current = TimerThread /\ op[TimerThread] = "timer_entry"
      /\ k.stat[TimerThread] # "SUSPEND" /\ TimerThread \in Thread
      /\ Settled(k, op, pc) /\ pc \in [Thread -> PC] /\ prog \in Programs /\ Used(op)
      /\ \A q \in Queue : TimerThread \notin On(k, q)
  BY CurrentAwake, Kinds DEF Entry, At, CallInv, Settled
<1>2. Settled(r, op, [pc EXCEPT ![TimerThread] = a])
  BY ZenonT(40), <1>1, LockSettled
<1>3. Settled(r, op, pc')
  BY <1>2
<1>4. /\ Settled(k', op, pc')
      /\ k'.current = k.current \/ Runners
      /\ \A u \in Thread : /\ k'.stat[u] = "SUSPEND" <=> k.stat[u] = "SUSPEND"
                           /\ u # TimerThread => k'.err[u] = k.err[u]
                           /\ u \in k'.armed <=> u \in k.armed
      /\ \A q \in Queue : On(k', q) = On(k, q)
  <2>1. CASE k' = r
    BY <1>3, <2>1 DEF On
  <2>2. CASE a \notin Locked /\ k' = Schedule(r)
    <3> DEFINE nobody == {}
    <3>1. Wakes(r, Schedule(r), nobody, nobody) /\ Turns(r, Schedule(r))
      BY <1>3, SettledLively, ScheduleWakes
    <3>2. Settled(Schedule(r), op, pc')
      <4> HIDE DEF nobody
      <4> QED
        BY <1>3, <3>1, StayingSettled
    <3>3. /\ \A u \in Thread : /\ Schedule(r).stat[u] = "SUSPEND" <=> r.stat[u] = "SUSPEND"
                               /\ Schedule(r).err[u] = r.err[u]
                               /\ u \in Schedule(r).armed <=> u \in r.armed
          /\ \A q \in Queue : On(Schedule(r), q) = On(r, q)
      BY <3>1 DEF Wakes
    <3>4. \A q \in Queue : On(r, q) = On(k, q)
      BY DEF On
    <3> QED
      BY <2>2, <3>1, <3>2, <3>3, <3>4 DEF Turns, Runners
  <2> QED
    BY <2>1, <2>2
<1>5. CallInv'
  BY <1>1, <1>4 DEF CallInv, Used, Steady
<1>6. \A u \in Thread \ {TimerThread} : op'[u] = op[u] /\ pc'[u] = pc[u]
  BY <1>1
<1> QED
  BY <1>1, <1>4, <1>5, <1>6 DEF Effect, Steady

(* The current thread is at a place of the soft timers. *)
LEMMA StAt ==
  ASSUME CallInv, NEW t \in Thread, NEW o \in StOp, NEW a, At(t, o, a),
         a \notin {"user", "wait", "asleep", "nap"} \cup Locked
  PROVE  /\ t = k.current /\ t # Idle /\ pc[t] = a /\ op[t] = o /\ k.stat[t] = "RUNNING"
         /\ MayDo(t, o) /\ MayDo(t, "none") /\ o \in Op /\ o \in prog.uses[t] /\ Lively(k)
         /\ op \in [Thread -> Op \cup {"none"}] /\ pc \in [Thread -> PC]
         /\ timed \in [Thread -> BOOLEAN]
<1>1. op \in [Thread -> Op \cup {"none"}] /\ pc \in [Thread -> PC]
  BY DEF CallInv, Settled
<1>2. t = k.current /\ pc[t] = a /\ op[t] = o
  BY DEF At
<1>3. t # Idle /\ k.stat[t] = "RUNNING" /\ Lively(k)
  BY <1>2, CurrentAwake
<1>4. o \in Op /\ o \notin HeapOp /\ o # "none"
  BY DEF StOp, Op, HeapOp
<1>5. o \in prog.uses[t]
  BY <1>2, <1>4 DEF CallInv, Used
<1> QED
  BY <1>1, <1>2, <1>3, <1>4, <1>5 DEF MayDo, CallInv

(* It goes on, and the kernel stays as it is. *)
Shut == {"wait", "asleep", "nap", "sched"} \cup Locked \cup HeapPlaces

LEMMA StGoes ==
  ASSUME CallInv, NEW t \in Thread, t = k.current, t # Idle, pc[t] \notin Shut,
         NEW o \in Op \cup {"none"}, NEW a \in PC, a \notin Locked, a \notin HeapPlaces, MayDo(t, o),
         op' = [op EXCEPT ![t] = o], pc' = [pc EXCEPT ![t] = a], Steady, SameKernel,
         op[t] \in StOp \/ pc[t] = "user", o \in StOp \/ a = "user"
  PROVE  StStep
<1> DEFINE nobody == {}
<1>1. Wakes(k, k', nobody, {}) /\ Turns(k, k') /\ \A u \in nobody : OtherWait(u)
  BY CurrentAwake, NothingWakes DEF SameKernel
<1> HIDE DEF nobody
<1>2. Acts(t, o, a, nobody)
  BY <1>1 DEF Acts, Shut
<1>3. pc[t] \notin HeapPlaces
  BY DEF Shut
<1> QED
  BY <1>1, <1>2, <1>3, StGoesOn

LEMMA StartStopStep ==
  ASSUME CallInv, NEW t \in Thread, NEW s \in SoftTimers,
         StStart(t, s) \/ StStop(t, s)
  PROVE  StStep
<1>1. PICK o \in {"timer_start", "timer_stop"}, a \in {"insert", "remove"} :
        /\ Calls(t, o, "timer")
        /\ op' = [op EXCEPT ![t] = o] /\ pc' = [pc EXCEPT ![t] = a]
        /\ SameKernel /\ prog' = prog /\ alive' = alive /\ timed' = timed
  BY DEF StStart, StStop, Goto, SameKernel
<1>2. /\ t = k.current /\ t # Idle /\ pc[t] = "user" /\ o \in Op /\ MayDo(t, o)
      /\ timed \in [Thread -> BOOLEAN]
  BY <1>1, CallRuns DEF Runs, CallInv
<1>3. Steady
  BY <1>1, <1>2 DEF Steady
<1>4. /\ a \in PC /\ a \notin Locked /\ a \notin HeapPlaces /\ o \in StOp /\ pc[t] \notin Shut
  BY <1>2 DEF PC, HeapPlaces, StOp, Shut
<1> QED
  BY <1>1, <1>2, <1>3, <1>4, StGoes

(* A starting or stopping thread goes on to its next place. *)
LEMMA PlaceStep ==
  ASSUME CallInv, NEW t \in Thread, NEW o \in StOp, NEW a \in PC, At(t, o, a),
         a \notin Shut \cup {"user"},
         NEW b \in PC, b \notin Locked, b \notin HeapPlaces, Proceed(t, b),
         SameKernel, prog' = prog, alive' = alive, timed' = timed
  PROVE  StStep
<1>0. a \notin {"user", "wait", "asleep", "nap"} \cup Locked
  BY DEF Shut
<1>1. /\ t = k.current /\ t # Idle /\ pc[t] = a /\ op[t] = o /\ o \in Op
      /\ MayDo(t, o) /\ timed \in [Thread -> BOOLEAN]
      /\ op \in [Thread -> Op \cup {"none"}]
  BY <1>0, StAt
<1>2. op' = [op EXCEPT ![t] = o] /\ pc' = [pc EXCEPT ![t] = b] /\ Steady
  BY <1>1 DEF Proceed, Steady
<1> QED
  BY <1>1, <1>2, StGoes

(* Its call returns. *)
LEMMA StReturnStep ==
  ASSUME CallInv, NEW t \in Thread, NEW o \in StOp, NEW a \in PC, At(t, o, a),
         a \notin Shut \cup {"user"},
         Return(t), SameKernel, prog' = prog, alive' = alive
  PROVE  StStep
<1>0. a \notin {"user", "wait", "asleep", "nap"} \cup Locked
  BY DEF Shut
<1>1. /\ t = k.current /\ t # Idle /\ pc[t] = a /\ op[t] = o
      /\ MayDo(t, "none") /\ timed \in [Thread -> BOOLEAN]
  BY <1>0, StAt
<1>2. op' = [op EXCEPT ![t] = "none"] /\ pc' = [pc EXCEPT ![t] = "user"] /\ Steady
  BY <1>1 DEF Return, Goto, Steady
<1>3. "user" \in PC /\ "user" \notin Locked /\ "user" \notin HeapPlaces
  BY DEF PC, HeapPlaces
<1> QED
  BY <1>1, <1>2, <1>3, StGoes

LEMMA UserGoesStep ==
  ASSUME CallInv, NEW t \in Thread,
         StInsert(t) \/ StWake(t) \/ StResumeTest(t) \/ StRemove(t) \/ StFlag(t)
  PROVE  StStep
<1>1. PICK o \in StOp, a \in {"insert", "wake", "resume_test", "remove", "flag"} :
        /\ At(t, o, a) /\ SameKernel /\ prog' = prog /\ alive' = alive
        /\ \/ Return(t)
           \/ /\ timed' = timed
              /\ \E b \in {"wake", "resume_test", "unlink", "sched", "flag"} : Proceed(t, b)
  BY DEF StInsert, StWake, StResumeTest, StRemove, StFlag, SameKernel, StOp
<1>2. a \in PC /\ a \notin Shut \cup {"user"}
  BY DEF PC, Shut, HeapPlaces
<1>3. \A b \in {"wake", "resume_test", "unlink", "sched", "flag"} :
        b \in PC /\ b \notin Locked /\ b \notin HeapPlaces
  BY DEF PC, HeapPlaces
<1> QED
  BY <1>1, <1>2, <1>3, PlaceStep, StReturnStep

LEMMA EnterStep ==
  ASSUME CallInv, Enter
  PROVE  StStep
<1>1. /\ Calls(TimerThread, "timer_entry", "timer") /\ TimerThread \in Thread
      /\ op' = [op EXCEPT ![TimerThread] = "timer_entry"]
      /\ pc' = [pc EXCEPT ![TimerThread] = "next"]
      /\ SameKernel /\ prog' = prog /\ alive' = alive /\ timed' = timed
  BY Kinds DEF Enter, Goto, SameKernel
<1>2. /\ TimerThread = k.current /\ TimerThread # Idle /\ pc[TimerThread] = "user"
      /\ MayDo(TimerThread, "timer_entry") /\ timed \in [Thread -> BOOLEAN]
  BY <1>1, CallRuns DEF Runs, CallInv
<1>3. Steady
  BY <1>1, <1>2 DEF Steady
<1>4. /\ "next" \in PC /\ "next" \notin Locked /\ "next" \notin HeapPlaces /\ "timer_entry" \in StOp
      /\ "timer_entry" \in Op /\ pc[TimerThread] \notin Shut
  BY <1>2 DEF PC, HeapPlaces, StOp, Op, Shut
<1> QED
  BY <1>1, <1>2, <1>3, <1>4, StGoes

-----------------------------------------------------------------------------
(* The second half of a start wakes the timer thread.  At the masked part    *)
(* of rt_thread_resume it sleeps, on no list.                                *)
LEMMA TimerThreadWaits ==
  ASSUME CallInv, StPlaced, Yields, WakerInv, TimersUsedBelow, NEW t \in Thread,
         StUnlink(t) \/ StReady(t)
  PROVE  /\ TimerThread \in Thread /\ t # TimerThread /\ pc[TimerThread] \in EntryPlaces
         /\ op[TimerThread] = "timer_entry" /\ k.stat[TimerThread] = "SUSPEND"
         /\ \A l \in ListId : TimerThread \notin On(k, l)
<1>0. PICK a \in {"unlink", "ready"} : At(t, "timer_start", a)
  BY DEF StUnlink, StReady
<1>1. /\ t = k.current /\ pc[t] = a /\ op[t] = "timer_start" /\ "timer_start" \in prog.uses[t]
      /\ prog \in Programs
  <2>1. "timer_start" \in StOp /\ a \notin {"user", "wait", "asleep", "nap"} \cup Locked
    BY DEF StOp
  <2> QED
    BY <1>0, <2>1, StAt DEF CallInv
<1>2. /\ TimerThread \in Thread /\ pc[TimerThread] \in EntryPlaces
      /\ op[TimerThread] = "timer_entry"
  BY <1>1, Kinds DEF WakerInv, StPlaced, PlacedAt
<1>3. /\ BasePrio[TimerThread] < BasePrio[t]
      /\ BasePrio[TimerThread] \in Nat /\ BasePrio[t] \in Nat
  BY <1>1, <1>2, SystemAssumption DEF TimersUsedBelow, StartOrder, Prio
<1>4. k.stat[TimerThread] = "SUSPEND"
  <2>1. ~(BasePrio[t] <= BasePrio[TimerThread])
    BY <1>3
  <2> QED
    BY <1>1, <1>2, <2>1 DEF Yields
<1>5. ASSUME NEW l \in ListId, TimerThread \in On(k, l) PROVE FALSE
  <2>1. l \notin Prio
    BY <1>2, <1>4, <1>5 DEF CallInv, Settled, KernelOK, KernelConsistent, ReadyListed
  <2>2. l \notin Queue
    BY <1>2, <1>5 DEF CallInv, Settled, WaitOp, HeapOp
  <2>3. l # Defunct
    BY <1>4, <1>5 DEF CallInv, Settled, KernelOK, KernelConsistent, WaitersSuspended
  <2> QED
    BY <2>1, <2>2, <2>3, ListKinds
<1> QED
  BY <1>1, <1>2, <1>4, <1>5

(* Taking it off its timer leaves it asleep. *)
LEMMA DisarmSettled ==
  ASSUME NEW kk, NEW f, NEW g, Settled(kk, f, g), kk.current # Idle,
         kk.stat[kk.current] = "RUNNING", g[kk.current] \notin Locked,
         f[TimerThread] = "timer_entry", kk.stat[TimerThread] = "SUSPEND",
         NEW g2 \in [Thread -> PC], g2[kk.current] \notin Locked,
         \A u \in Thread : u # kk.current => g2[u] = g[u],
         NEW r, KernelOK(r), r.stat = kk.stat, r.prio = kk.prio, r.err = kk.err,
         r.armed = kk.armed \ {TimerThread}, r.current = kk.current, r.lock = kk.lock,
         \A q \in Queue : On(r, q) = On(kk, q)
  PROVE  Settled(r, f, g2)
<1> DEFINE t == kk.current
<1>1. /\ t \in Thread /\ TimerThread \in Thread /\ t # TimerThread
      /\ \A u \in Thread : u # t => g2[u] = g[u]
  BY Kinds, SettledLively DEF Settled
<1>2. ASSUME NEW u \in Thread, r.stat[u] = "SUSPEND" PROVE WaitsFor(r, f, g2, u)
  <2>1. u # t /\ g2[u] = g[u] /\ WaitsFor(kk, f, g, u)
    BY <1>1, <1>2 DEF Settled
  <2>2. f[u] \in WaitOp => WaitList(f[u]) \in Queue
    BY WaitListOf
  <2> QED
    BY <2>1, <2>2 DEF WaitsFor
<1> QED
  BY <1>1, <1>2, Kinds DEF Settled

LEMMA UnlinkEffect ==
  ASSUME CallInv, StPlaced, Yields, WakerInv, TimersUsedBelow, NEW t \in Thread, StUnlink(t)
  PROVE  /\ Effect(t, {}) /\ op'[t] = "timer_start" /\ pc'[t] = "ready"
         /\ k'.stat = k.stat /\ TimerThread \notin k'.armed /\ k'.current = k.current
<1>1. /\ TimerThread \in Thread /\ t # TimerThread /\ op[TimerThread] = "timer_entry"
      /\ k.stat[TimerThread] = "SUSPEND" /\ \A l \in ListId : TimerThread \notin On(k, l)
  BY TimerThreadWaits
<1>2. /\ At(t, "timer_start", "unlink") /\ op' = op /\ pc' = [pc EXCEPT ![t] = "ready"]
      /\ k' = [Unlink(k, TimerThread) EXCEPT !.armed = @ \ {TimerThread}]
      /\ prog' = prog /\ alive' = alive /\ timed' = timed
  BY DEF StUnlink, Proceed
<1>3. /\ t = k.current /\ t # Idle /\ pc[t] = "unlink" /\ op[t] = "timer_start"
      /\ k.stat[t] = "RUNNING" /\ Lively(k) /\ pc \in [Thread -> PC]
      /\ op \in [Thread -> Op \cup {"none"}] /\ timed \in [Thread -> BOOLEAN]
  <2>1. /\ "timer_start" \in StOp /\ "unlink" \notin {"user", "wait", "asleep", "nap"} \cup Locked
    BY DEF StOp
  <2> QED
    BY <1>2, <2>1, StAt
<1>4. k \in KernelState /\ OneList(k) /\ ListsAgree(k) /\ RunningIsCurrent(k)
  BY <1>3, KernelOKParts DEF Lively, ListsAgree
<1>5. PICK v : v = Unlink(k, TimerThread)
  OBVIOUS
<1>6. /\ v \in KernelState /\ ListsAgree(v)
      /\ \A l \in ListId : On(v, l) = On(k, l) \ {TimerThread}
      /\ v.stat = k.stat /\ v.prio = k.prio /\ v.err = k.err /\ v.armed = k.armed
      /\ v.current = k.current /\ v.lock = k.lock
  BY <1>1, <1>4, <1>5, UnlinkLists, UnlinkWaiter
<1>7. /\ k' \in KernelState /\ k'.list = v.list /\ k'.stat = k.stat /\ k'.prio = k.prio
      /\ k'.err = k.err /\ k'.armed = k.armed \ {TimerThread} /\ k'.current = k.current
      /\ k'.lock = k.lock /\ k'.group = v.group
  BY <1>2, <1>5, <1>6 DEF KernelState
<1>8. \A u \in k'.armed : v.stat[u] = "SUSPEND"
  BY <1>6, <1>7 DEF ListsAgree, TimersForSuspended
<1>9. ListsAgree(k') /\ \A l \in ListId : On(k', l) = On(v, l)
  BY <1>6, <1>7, <1>8, FrameLists
<1>10. RunningIsCurrent(k')
  BY <1>4, <1>7 DEF RunningIsCurrent
<1>11. KernelOK(k') /\ \A q \in Queue : On(k', q) = On(k, q)
  <2>1. KernelOK(k')
    BY <1>9, <1>10, KernelOKParts
  <2>2. \A q \in Queue : On(k', q) = On(k, q)
    BY <1>1, <1>6, <1>9, ListKinds
  <2> QED
    BY <2>1, <2>2
<1>12. ASSUME NEW a, a = "ready" PROVE Settled(k', op, [pc EXCEPT ![t] = a])
  <2>1. Settled(k, op, pc) /\ pc[t] \notin Locked /\ a \in PC /\ a \notin Locked
    BY <1>3, <1>12 DEF CallInv, PC
  <2>2. PICK r : r = k'
    OBVIOUS
  <2>3. /\ KernelOK(r) /\ r.stat = k.stat /\ r.prio = k.prio /\ r.err = k.err
        /\ r.armed = k.armed \ {TimerThread} /\ r.current = k.current /\ r.lock = k.lock
        /\ \A q \in Queue : On(r, q) = On(k, q)
    BY <1>7, <1>11, <2>2
  <2>4. PICK g2 : g2 = [pc EXCEPT ![t] = a]
    OBVIOUS
  <2>5. /\ g2 \in [Thread -> PC] /\ g2[k.current] \notin Locked
        /\ \A u \in Thread : u # k.current => g2[u] = pc[u]
    BY <1>3, <2>1, <2>4
  <2>6. /\ k.current # Idle /\ k.stat[k.current] = "RUNNING" /\ pc[k.current] \notin Locked
    BY <1>3, <2>1
  <2>7. Settled(r, op, g2)
    BY <1>1, <2>1, <2>3, <2>5, <2>6, DisarmSettled
  <2> QED
    BY <2>2, <2>4, <2>7
<1>13. CallInv'
  <2>1. Settled(k', op', pc')
    BY <1>2, <1>12
  <2> QED
    BY <1>2, <2>1 DEF CallInv, Used
<1>14. \A u \in Thread \ {t} :
         /\ op'[u] = op[u] /\ pc'[u] = pc[u]
         /\ k'.stat[u] = k.stat[u] /\ k'.err[u] = k.err[u]
         /\ (u \in k'.armed <=> u \in k.armed) \/ Disarms(t, u)
  BY <1>1, <1>2, <1>3, <1>7 DEF Disarms
<1>15. \A q \in Queue : t \notin On(k, q)
  BY <1>3, CurrentAwake
<1> DEFINE nobody == {}
<1>16. Effect(t, nobody)
  <2>1. \A u \in Thread : u \notin nobody
    OBVIOUS
  <2>2. \A q \in Queue : t \notin On(k, q) /\ On(k', q) \ {t} = On(k, q) \ nobody
    BY <1>11, <1>15
  <2>3. \A u \in nobody : u \in Thread \ {t} /\ k.stat[u] = "SUSPEND"
    OBVIOUS
  <2>4. k'.current = k.current /\ prog' = prog /\ pc[t] # "sched"
    BY <1>2, <1>3, <1>7
  <2> HIDE DEF nobody
  <2>5. \A u \in Thread \ {t} :
         /\ op'[u] = op[u] /\ pc'[u] = pc[u]
         /\ k'.stat[u] = "SUSPEND" <=> k.stat[u] = "SUSPEND" /\ u \notin nobody
         /\ u \notin nobody => /\ k'.err[u] = k.err[u]
                               /\ (u \in k'.armed <=> u \in k.armed) \/ Disarms(t, u)
    BY <1>14, <2>1
  <2> QED
    BY <1>13, <2>2, <2>3, <2>4, <2>5 DEF Effect
<1> QED
  BY <1>2, <1>3, <1>7, <1>16

LEMMA StUnlinkStep ==
  ASSUME CallInv, StPlaced, Yields, WakerInv, TimersUsedBelow, NEW t \in Thread, StUnlink(t)
  PROVE  StStep
<1>1. Effect(t, {}) /\ op'[t] = "timer_start" /\ pc'[t] = "ready"
  BY UnlinkEffect
<1>2. op[t] = "timer_start" /\ pc[t] = "unlink"
  BY DEF StUnlink, At
<1>3. Within(t, StOp) /\ \A u \in {} : OtherWait(u)
  BY <1>1, <1>2 DEF Within, StOp
<1>4. pc[t] \notin HeapPlaces /\ pc'[t] \notin HeapPlaces
  BY <1>1, <1>2 DEF HeapPlaces
<1> QED
  BY <1>1, <1>3, <1>4 DEF StStep

(* A thread on no list with no timer: rt_thread_resume would insert it only. *)
LEMMA InsertResumes ==
  ASSUME NEW kk, KernelOK(kk), NEW t \in Thread, kk.stat[t] = "SUSPEND", t \notin kk.armed,
         \A l \in ListId : t \notin On(kk, l)
  PROVE  InsertThread(kk, t) = Resume(kk, t)
<1>1. kk \in KernelState
  BY DEF KernelOK
<1>2. kk.list \in [ListId -> Seq(Thread)] /\ kk.armed \in SUBSET Thread
  BY <1>1 DEF KernelState
<1>3. ASSUME NEW l \in ListId PROVE RemoveFirst(kk.list[l], t) = kk.list[l]
  <2>1. kk.list[l] \in Seq(Thread)
    BY <1>2
  <2>2. ~\E i \in 1 .. Len(kk.list[l]) : kk.list[l][i] = t
    BY <2>1, InToSet DEF On
  <2> QED
    BY <2>2, Zenon DEF RemoveFirst
<1>4. [l \in ListId |-> RemoveFirst(kk.list[l], t)] = kk.list
  BY <1>2, <1>3
<1>5. kk.armed \ {t} = kk.armed
  OBVIOUS
<1>6. Unlink(kk, t) = [kk EXCEPT !.list = kk.list]
  BY <1>4 DEF Unlink
<1>7. Unlink(kk, t) = kk
  BY <1>1, <1>6 DEF KernelState
<1>8. [Unlink(kk, t) EXCEPT !.armed = @ \ {t}] = kk
  BY <1>1, <1>5, <1>7 DEF KernelState
<1> QED
  BY <1>8 DEF Resume

LEMMA ReadyActs ==
  ASSUME CallInv, StPlaced, Yields, WakerInv, TimersUsedBelow, NEW t \in Thread, StReady(t)
  PROVE  /\ Acts(t, "timer_start", "sched", {TimerThread})
         /\ op[t] = "timer_start" /\ pc[t] = "ready" /\ OtherWait(TimerThread)
         /\ k'.stat[TimerThread] # "SUSPEND" /\ k'.current = k.current
<1>1. /\ TimerThread \in Thread /\ t # TimerThread /\ op[TimerThread] = "timer_entry"
      /\ k.stat[TimerThread] = "SUSPEND" /\ \A l \in ListId : TimerThread \notin On(k, l)
  BY TimerThreadWaits
<1>2. /\ At(t, "timer_start", "ready") /\ op' = op /\ pc' = [pc EXCEPT ![t] = "sched"]
      /\ k' = InsertThread(k, TimerThread)
      /\ prog' = prog /\ alive' = alive /\ timed' = timed
  BY DEF StReady, Proceed
<1>3. /\ t = k.current /\ t # Idle /\ pc[t] = "ready" /\ op[t] = "timer_start"
      /\ Lively(k) /\ MayDo(t, "timer_start") /\ "timer_start" \in Op
      /\ op \in [Thread -> Op \cup {"none"}] /\ timed \in [Thread -> BOOLEAN]
  <2>1. /\ "timer_start" \in StOp /\ "ready" \notin {"user", "wait", "asleep", "nap"} \cup Locked
    BY DEF StOp
  <2> QED
    BY <1>2, <2>1, StAt
<1>4. TimerThread \notin k.armed
  BY <1>3 DEF WakerInv
<1>5. k' = Resume(k, TimerThread)
  BY <1>1, <1>2, <1>3, <1>4, InsertResumes DEF Lively
<1>6. Wakes(k, k', {TimerThread}, {}) /\ k'.current = k.current
  BY <1>1, <1>3, <1>5, ResumeWakes
<1>7. Turns(k, k') /\ k'.stat[TimerThread] # "SUSPEND"
  BY <1>1, <1>6 DEF Turns, Wakes
<1>8. /\ op' = [op EXCEPT ![t] = "timer_start"] /\ Steady
      /\ "sched" \in PC /\ "sched" \notin Locked
      /\ pc[t] \notin {"wait", "asleep", "nap", "sched"} \cup Locked
  BY <1>2, <1>3 DEF Steady, PC
<1>9. Acts(t, "timer_start", "sched", {TimerThread})
  BY <1>2, <1>3, <1>6, <1>7, <1>8 DEF Acts
<1>10. OtherWait(TimerThread)
  BY <1>1 DEF OtherWait, HeapOp
<1> QED
  BY <1>3, <1>6, <1>7, <1>9, <1>10

LEMMA StReadyStep ==
  ASSUME CallInv, StPlaced, Yields, WakerInv, TimersUsedBelow, NEW t \in Thread, StReady(t)
  PROVE  StStep
<1>1. /\ Acts(t, "timer_start", "sched", {TimerThread})
      /\ op[t] = "timer_start" /\ pc[t] = "ready" /\ \A u \in {TimerThread} : OtherWait(u)
  BY ReadyActs
<1>2. /\ op[t] \in StOp /\ "timer_start" \in StOp
      /\ pc[t] \notin HeapPlaces /\ "sched" \notin HeapPlaces
  BY <1>1 DEF StOp, HeapPlaces
<1> QED
  BY <1>1, <1>2, StGoesOn

-----------------------------------------------------------------------------
(* Where timers are started, the timer thread does nothing but its entry    *)
(* function.                                                                *)
LEMMA EntryUser ==
  ASSUME CallInv, NEW t \in Thread \cup {Isr}, "timer_start" \in prog.uses[t]
  PROVE  /\ TimerThread \in Thread /\ prog.uses[TimerThread] = {"timer_entry"}
         /\ op[TimerThread] \in {"timer_entry", "none"} /\ OtherWait(TimerThread)
<1>1. TimerThread \in Thread /\ prog.uses[TimerThread] = {"timer_entry"}
  BY SoftTimerAssumption DEF CallInv
<1>2. op[TimerThread] \in {"timer_entry", "none"}
  BY <1>1 DEF CallInv, Used, HeapOp
<1> QED
  BY <1>1, <1>2 DEF OtherWait, HeapOp

(* A handler that starts a timer wakes at most the timer thread. *)
HandlerWakes == IF k.stat[TimerThread] = "SUSPEND" THEN Schedule(Resume(k, TimerThread)) ELSE k

LEMMA TimerThreadWakes ==
  ASSUME CallInv
  PROVE  /\ \E W : /\ Wakes(k, HandlerWakes, W, {}) /\ Turns(k, HandlerWakes)
                   /\ W \subseteq {TimerThread}
         /\ k.stat[TimerThread] = "SUSPEND" =>
              /\ HandlerWakes.stat[TimerThread] # "SUSPEND"
              /\ k.lock = 0 => /\ HandlerWakes.stat[HandlerWakes.current] = "RUNNING"
                               /\ Preempted(HandlerWakes)
<1> DEFINE nobody == {}
<1>1. Lively(k) /\ TimerThread \in Thread
  BY CurrentAwake, Kinds
<1>2. CASE k.stat[TimerThread] = "SUSPEND"
  <2> DEFINE r == Resume(k, TimerThread)
             v == Schedule(r)
  <2>1. /\ Wakes(k, r, {TimerThread}, nobody) /\ Lively(r) /\ r.current = k.current
    BY <1>1, <1>2, ResumeWakes
  <2>2. r.lock = k.lock
    BY <2>1 DEF Wakes
  <2>3. v = HandlerWakes
    BY <1>2 DEF HandlerWakes
  <2> HIDE DEF r
  <2>4. /\ Wakes(r, v, nobody, nobody) /\ Turns(r, v)
        /\ r.lock = 0 => v.stat[v.current] = "RUNNING" /\ Preempted(v)
    BY <2>1, ScheduleWakes
  <2> HIDE DEF v
  <2>5. Wakes(k, v, {TimerThread} \cup nobody, nobody \cup nobody)
    <3> HIDE DEF nobody
    <3> QED
      BY <2>1, <2>4, WakesTwice
  <2>6. {TimerThread} \cup nobody = {TimerThread} /\ nobody \cup nobody = nobody
    OBVIOUS
  <2>7. Wakes(k, v, {TimerThread}, nobody)
    BY <2>5, <2>6
  <2>8. Turns(k, v)
    BY <2>1, <2>2, <2>4 DEF Turns
  <2>9. v.stat[TimerThread] # "SUSPEND"
    BY <1>1, <2>7 DEF Wakes
  <2> QED
    BY <2>2, <2>3, <2>4, <2>7, <2>8, <2>9
<1>3. CASE k.stat[TimerThread] # "SUSPEND"
  <2>1. HandlerWakes = k
    BY <1>3 DEF HandlerWakes
  <2>2. Wakes(k, HandlerWakes, nobody, nobody) /\ Turns(k, HandlerWakes)
    BY <1>1, <2>1, NothingWakes
  <2> QED
    BY <1>3, <2>2
<1> QED
  BY <1>2, <1>3

LEMMA IsrStartWakes ==
  ASSUME CallInv, NEW s \in SoftTimers, StIsrStart(s)
  PROVE  /\ "timer_start" \in prog.uses[Isr] /\ k' = HandlerWakes /\ Steady
         /\ TimerThread \in Thread /\ OtherWait(TimerThread)
         /\ k'.stat[TimerThread] # "SUSPEND"
         /\ op[TimerThread] \in {"timer_entry", "none"}
<1>1. "timer_start" \in prog.uses[Isr] /\ k' = HandlerWakes /\ Steady
  BY DEF StIsrStart, IsrCalls, HandlerWakes, Steady, CallInv
<1>2. /\ TimerThread \in Thread /\ OtherWait(TimerThread)
      /\ op[TimerThread] \in {"timer_entry", "none"}
  BY <1>1, EntryUser
<1>3. k'.stat[TimerThread] # "SUSPEND"
  BY <1>1, TimerThreadWakes DEF HandlerWakes
<1> QED
  BY <1>1, <1>2, <1>3

(* With the timer thread between the stretches in which it takes a timer    *)
(* off, the handler may leave the list torn.                                *)
Tears == /\ op' = op /\ pc' = [pc EXCEPT ![TimerThread] = "torn"] /\ k' = k
         /\ Entry("expired")

LEMMA IsrStartTears ==
  ASSUME CallInv, NEW s \in SoftTimers, StIsrStart(s), ~UNCHANGED <<op, pc>>
  PROVE  Tears
<1>1. /\ op' = op /\ pc' = [pc EXCEPT ![TimerThread] = "torn"]
      /\ op[TimerThread] = "timer_entry" /\ pc[TimerThread] = "expired"
  BY DEF StIsrStart, Proceed
<1>2. TimerThread = k.current /\ k.stat[TimerThread] # "SUSPEND"
  BY <1>1, CurrentAwake DEF CallInv, Settled
<1> QED
  BY <1>1, <1>2 DEF StIsrStart, Tears, Entry, At

LEMMA StIsrStartStep ==
  ASSUME CallInv, NEW s \in SoftTimers, StIsrStart(s)
  PROVE  StStep
<1>1. k' = HandlerWakes /\ Steady /\ OtherWait(TimerThread)
  BY IsrStartWakes
<1>2. CASE UNCHANGED <<op, pc>>
  <2>1. PICK W : /\ Wakes(k, k', W, {}) /\ Turns(k, k') /\ W \subseteq {TimerThread}
    BY <1>1, TimerThreadWakes
  <2>2. Wakes(k, k', W, W)
    BY <2>1 DEF Wakes
  <2>3. op' = op /\ pc' = pc
    BY <1>2
  <2>4. Effect(Isr, W)
    BY <1>1, <2>1, <2>2, <2>3, StayEffect
  <2>5. \A u \in W : OtherWait(u)
    BY <1>1, <2>1
  <2> QED
    BY <2>4, <2>5, SystemAssumption DEF StStep, Within
<1>3. CASE ~UNCHANGED <<op, pc>>
  <2>1. Tears
    BY <1>3, IsrStartTears
  <2>2. /\ KernelOK(k) /\ pc[TimerThread] = "expired" /\ op[TimerThread] = "timer_entry"
        /\ Entry(pc[TimerThread]) /\ k.lock = 1
    BY <2>1, CurrentAwake DEF Tears, Entry, At, CallInv, Settled
  <2>3. PICK r : r = k
    OBVIOUS
  <2>4. /\ KernelOK(r) /\ r.stat = k.stat /\ r.prio = k.prio
        /\ r.armed = k.armed /\ r.list = k.list /\ r.current = k.current
        /\ \A u \in Thread : u # TimerThread => r.err[u] = k.err[u]
        /\ r.lock = 1 /\ k' = r /\ op' = op
    BY <2>1, <2>2, <2>3 DEF Tears
  <2>5. PICK a : a = "torn"
    OBVIOUS
  <2>6. /\ a \in PC /\ a \in Locked /\ pc' = [pc EXCEPT ![TimerThread] = a]
        /\ pc[TimerThread] \notin {"wait", "asleep", "nap", "sched"}
    BY <2>1, <2>2, <2>5 DEF PC, Tears
  <2>7. Effect(TimerThread, {}) /\ op'[TimerThread] = "timer_entry" /\ pc'[TimerThread] = a
    BY <1>1, <2>2, <2>4, <2>6, LockEffect
  <2>8. Within(TimerThread, StOp) /\ \A u \in {} : OtherWait(u)
    BY <2>2, <2>7 DEF Within, StOp
  <2>9. pc[TimerThread] \notin HeapPlaces /\ pc'[TimerThread] \notin HeapPlaces
    BY <2>2, <2>5, <2>7 DEF HeapPlaces
  <2> QED
    BY <2>7, <2>8, <2>9 DEF StStep
<1> QED
  BY <1>2, <1>3

(* The timer thread is at a place where the scheduler is locked or not. *)
LEMMA LockAt ==
  ASSUME CallInv, NEW a, Entry(a), a \notin {"user", "wait", "asleep", "nap"}
  PROVE  /\ Entry(pc[TimerThread]) /\ pc[TimerThread] = a /\ op[TimerThread] = "timer_entry"
         /\ k.lock = IF a \in Locked THEN 1 ELSE 0
         /\ KernelOK(k) /\ Lively(k) /\ TimerThread \in Thread /\ TimerThread = k.current
         /\ TimerThread # Idle /\ k.stat[TimerThread] = "RUNNING"
         /\ MayDo(TimerThread, "timer_entry")
<1>1. TimerThread = k.current /\ pc[TimerThread] = a /\ op[TimerThread] = "timer_entry"
  BY DEF Entry, At
<1>2. /\ KernelOK(k) /\ Lively(k) /\ TimerThread \in Thread
      /\ TimerThread # Idle /\ k.stat[TimerThread] = "RUNNING"
  BY <1>1, CurrentAwake, Kinds
<1>3. k.lock = IF a \in Locked THEN 1 ELSE 0
  BY <1>1 DEF CallInv, Settled
<1> QED
  BY <1>1, <1>2, <1>3 DEF MayDo, Entry, At

LEMMA LockStep ==
  ASSUME Effect(TimerThread, {}), NEW a, Entry(a), a \notin HeapPlaces,
         NEW b, pc'[TimerThread] = b, b \notin HeapPlaces, op'[TimerThread] = "timer_entry"
  PROVE  StStep
<1>1. Within(TimerThread, StOp) /\ \A u \in {} : OtherWait(u)
  BY DEF Within, StOp, Entry, At
<1>2. pc[TimerThread] = a
  BY DEF Entry, At
<1> QED
  BY <1>1, <1>2 DEF StStep

(* It falls asleep. *)
LEMMA EntrySleeps ==
  ASSUME CallInv, NEW b, Entry(b), b \notin {"user", "wait", "asleep", "nap", "sched"} \cup Locked,
         b \notin HeapPlaces, NEW a \in {"asleep", "nap"}, EntryGoes(a),
         k' = Suspend(k, TimerThread) \/ k' = Sleep(k, TimerThread),
         prog' = prog, alive' = alive, timed' = timed
  PROVE  StStep
<1>1. /\ TimerThread = k.current /\ TimerThread \in Thread /\ TimerThread # Idle
      /\ pc[TimerThread] = b /\ op[TimerThread] = "timer_entry" /\ Lively(k)
      /\ k.stat[TimerThread] = "RUNNING" /\ MayDo(TimerThread, "timer_entry")
      /\ op \in [Thread -> Op \cup {"none"}]
  BY LockAt DEF CallInv, Settled
<1>2. Sleeps(k, k', TimerThread, Defunct)
  BY <1>1, SuspendSleeps, SleepSleeps
<1>3. PICK o : o = "timer_entry"
  OBVIOUS
<1>4. /\ op' = [op EXCEPT ![TimerThread] = o] /\ pc' = [pc EXCEPT ![TimerThread] = a]
      /\ Steady /\ o \in Op /\ MayDo(TimerThread, o) /\ a \in {"wait", "asleep", "nap"}
  BY <1>1, <1>3 DEF EntryGoes, Proceed, Steady, CallInv, Op
<1>5. PICK q : q = Defunct
  OBVIOUS
<1>6. \/ o \in WaitOp /\ q = WaitList(o) /\ a = "wait" /\ k'.err[TimerThread] = "EOK"
           /\ (o \in HeapOp => TimerThread \notin k'.armed)
      \/ o = "delay" /\ q = Defunct /\ a = "wait" /\ TimerThread \in k'.armed
      \/ o = "timer_entry" /\ q = Defunct /\ a \in {"asleep", "nap"}
           /\ TimerThread = TimerThread
  BY <1>3, <1>5
<1>7. Sleeps(k, k', TimerThread, q) /\ pc[TimerThread] \notin {"wait", "asleep", "nap", "sched"} \cup Locked
  BY <1>1, <1>2, <1>5
<1>8. Effect(TimerThread, {}) /\ op'[TimerThread] = o /\ pc'[TimerThread] = a
  BY <1>1, <1>4, <1>6, <1>7, SleepEffect, ZenonT(60)
<1>9. a \notin HeapPlaces
  BY DEF HeapPlaces
<1> QED
  BY <1>3, <1>8, <1>9, LockStep

LEMMA SleepStep ==
  ASSUME CallInv, FallAsleep \/ Nap
  PROVE  StStep
<1>1. PICK b \in {"suspend", "delay", "func"}, a \in {"asleep", "nap"} :
        /\ Entry(b) /\ EntryGoes(a)
        /\ k' = Suspend(k, TimerThread) \/ k' = Sleep(k, TimerThread)
        /\ prog' = prog /\ alive' = alive /\ timed' = timed
  BY DEF FallAsleep, Nap
<1>2. b \notin {"user", "wait", "asleep", "nap", "sched"} \cup Locked /\ b \notin HeapPlaces
  BY DEF HeapPlaces
<1> QED
  BY <1>1, <1>2, EntrySleeps

(* The rt_schedule after that *)
LEMMA SleepSwitches ==
  ASSUME CallInv, SleepSchedule \/ NapSchedule
  PROVE  SameWaits /\ RunsOn(pc[TimerThread], pc'[TimerThread]) /\ TimerThread = k.current
<1>1. PICK a \in {"check", "napped"} :
        /\ RunsOn(pc[TimerThread], a) /\ TimerThread = k.current /\ TimerThread \in Thread
        /\ k' = Schedule(k) /\ op' = op /\ pc' = [pc EXCEPT ![TimerThread] = a]
        /\ prog' = prog /\ alive' = alive /\ timed' = timed
  BY Kinds DEF SleepSchedule, NapSchedule, Entry, EntryGoes, At, Proceed
<1>2. a \in PC
  BY DEF PC
<1>3. \/ pc[TimerThread] = "wait" /\ a = "woken"
      \/ TimerThread = TimerThread /\ RunsOn(pc[TimerThread], a)
  BY <1>1
<1>4. SameWaits /\ pc'[TimerThread] = a
  BY <1>1, <1>2, <1>3, SwitchSame
<1> QED
  BY <1>1, <1>4

(* rt_enter_critical and rt_exit_critical change the lock and, after a      *)
(* sleep, the error code.                                                   *)
LEMMA LockOK ==
  ASSUME NEW kk, KernelOK(kk), NEW n \in Nat
  PROVE  LET r == [kk EXCEPT !.lock = n]
         IN  /\ KernelOK(r) /\ r.stat = kk.stat /\ r.prio = kk.prio /\ r.armed = kk.armed
             /\ r.list = kk.list /\ r.current = kk.current /\ r.err = kk.err /\ r.lock = n
<1> DEFINE r == [kk EXCEPT !.lock = n]
<1>1. kk \in KernelState
  BY DEF KernelOK
<1>2. /\ r \in KernelState /\ r.stat = kk.stat /\ r.prio = kk.prio /\ r.armed = kk.armed
      /\ r.list = kk.list /\ r.current = kk.current /\ r.err = kk.err /\ r.lock = n
      /\ r.group = kk.group
  BY <1>1 DEF KernelState
<1> HIDE DEF r
<1>3. ListsAgree(kk) /\ RunningIsCurrent(kk)
  BY KernelOKParts
<1>4. \A u \in r.armed : kk.stat[u] = "SUSPEND"
  BY <1>2, <1>3 DEF ListsAgree, TimersForSuspended
<1>5. ListsAgree(r)
  BY <1>2, <1>3, <1>4, FrameLists
<1>6. RunningIsCurrent(r)
  BY <1>2, <1>3 DEF RunningIsCurrent
<1> QED
  BY <1>2, <1>5, <1>6, KernelOKParts DEF r

LEMMA SleepReturnOK ==
  ASSUME CallInv, NEW v, v = SleepReturn(k, TimerThread)
  PROVE  /\ KernelOK(v) /\ v.stat = k.stat /\ v.prio = k.prio /\ v.armed = k.armed
         /\ v.list = k.list /\ v.current = k.current /\ v.lock = k.lock
         /\ \A u \in Thread : u # TimerThread => v.err[u] = k.err[u]
<1>1. KernelOK(k) /\ Lively(k) /\ TimerThread \in Thread
  BY CurrentAwake, Kinds
<1>2. CASE v = k
  BY <1>1, <1>2
<1>3. CASE v = [k EXCEPT !.err[TimerThread] = "EOK"]
  <2>1. "EOK" \in Err
    BY DEF Err
  <2>2. Lively([k EXCEPT !.err[TimerThread] = "EOK"])
    BY <1>1, <2>1, ErrorWakes
  <2>3. KernelOK(v) /\ k \in KernelState
    BY <1>1, <1>3, <2>2 DEF Lively, KernelOK
  <2> QED
    BY <1>3, <2>3 DEF KernelState
<1> QED
  BY <1>2, <1>3 DEF SleepReturn

(* A step of the timer thread that leaves lists and states alone: it locks  *)
(* or unlocks, or only goes on.                                             *)
LEMMA EntryStep ==
  ASSUME CallInv, NEW a, Entry(a), a \notin {"user", "wait", "asleep", "nap", "sched"},
         a \notin HeapPlaces, NEW b \in PC, b \notin HeapPlaces, EntryGoes(b), Steady,
         NEW r, KernelOK(r), r.stat = k.stat, r.prio = k.prio,
         r.armed = k.armed, r.list = k.list, r.current = k.current,
         \A u \in Thread : u # TimerThread => r.err[u] = k.err[u],
         r.lock = IF b \in Locked THEN 1 ELSE 0,
         k' = r \/ (b \notin Locked /\ k' = Schedule(r))
  PROVE  StStep
<1>1. /\ op' = op /\ pc' = [pc EXCEPT ![TimerThread] = b] /\ Entry(pc[TimerThread])
      /\ pc[TimerThread] \notin {"wait", "asleep", "nap", "sched"}
  BY LockAt DEF EntryGoes, Proceed
<1>2. Effect(TimerThread, {}) /\ op'[TimerThread] = "timer_entry" /\ pc'[TimerThread] = b
  BY <1>1, LockEffect
<1> QED
  BY <1>2, LockStep

(* It goes on, with the scheduler locked or not as before. *)
LEMMA EntryStays ==
  ASSUME CallInv, NEW a, Entry(a), a \notin {"user", "wait", "asleep", "nap", "sched"},
         a \notin HeapPlaces, NEW b \in PC, b \notin HeapPlaces, EntryGoes(b), Steady,
         a \in Locked <=> b \in Locked, k' = k
  PROVE  StStep
<1>1. PICK r : r = k
  OBVIOUS
<1>2. /\ KernelOK(r) /\ r.stat = k.stat /\ r.prio = k.prio
      /\ r.armed = k.armed /\ r.list = k.list /\ r.current = k.current
      /\ \A u \in Thread : u # TimerThread => r.err[u] = k.err[u]
      /\ r.lock = IF b \in Locked THEN 1 ELSE 0
      /\ k' = r
  BY <1>1, LockAt
<1> QED
  BY <1>2, EntryStep

LEMMA EntryStaysStep ==
  ASSUME CallInv,
         \/ NextTimeout \/ Expire \/ FuncInsert \/ FuncRemove \/ FuncFlag
         \/ Restart \/ RestartInsert \/ Expired \/ Mark
         \/ \E s \in SoftTimers : FuncStart(s) \/ FuncStop(s)
  PROVE  StStep
<1>1. k' = k /\ Steady
  BY DEF NextTimeout, Expire, FuncInsert, FuncRemove, FuncFlag, Restart, RestartInsert,
         Expired, Mark, FuncStart, FuncStop, Steady, CallInv
<1>2. PICK a \in {"next", "func", "f_insert", "f_remove", "f_flag",
                  "loop", "after", "restart", "mark"},
           b \in {"suspend", "delay", "check", "func", "f_insert", "f_remove", "f_flag",
                  "expired", "restart", "mark", "loop"} :
        Entry(a) /\ EntryGoes(b) /\ (a \in Locked <=> b \in Locked)
  <2>1. CASE NextTimeout
    BY <2>1 DEF NextTimeout
  <2>2. CASE Expire \/ Restart \/ RestartInsert \/ Expired \/ Mark
    BY <2>2 DEF Expire, Restart, RestartInsert, Expired, Mark
  <2>3. CASE \/ FuncInsert \/ FuncRemove \/ FuncFlag
             \/ \E s \in SoftTimers : FuncStart(s) \/ FuncStop(s)
    BY <2>3 DEF FuncInsert, FuncRemove, FuncFlag, FuncStart, FuncStop
  <2> QED
    BY <2>1, <2>2, <2>3
<1>3. a \notin HeapPlaces /\ b \notin HeapPlaces /\ b \in PC
  BY DEF HeapPlaces, PC
<1> QED
  BY <1>1, <1>2, <1>3, EntryStays

(* It locks, ... *)
LEMMA LockingStep ==
  ASSUME CallInv, Check \/ NapReturn \/ FuncReturn
  PROVE  StStep
<1>0. PICK a \in {"check", "napped", "func"} :
        /\ Entry(a)
        /\ a = "check" => EntryGoes("loop") /\ k' = [SleepReturn(k, TimerThread) EXCEPT !.lock = @ + 1]
        /\ a = "napped" => EntryGoes("func") /\ k' = SleepReturn(k, TimerThread)
        /\ a = "func" => EntryGoes("after") /\ k' = [k EXCEPT !.lock = @ + 1]
        /\ prog' = prog /\ alive' = alive /\ timed' = timed
  BY DEF Check, NapReturn, FuncReturn
<1>1. /\ a \notin HeapPlaces /\ "loop" \notin HeapPlaces /\ "func" \notin HeapPlaces
      /\ "after" \notin HeapPlaces /\ "loop" \in PC /\ "func" \in PC /\ "after" \in PC
  BY DEF HeapPlaces, PC
<1>2. k.lock = 0 /\ KernelOK(k) /\ Steady
  BY <1>0, LockAt DEF Steady, CallInv
<1>3. PICK v : v = IF a = "func" THEN k ELSE SleepReturn(k, TimerThread)
  OBVIOUS
<1>4. /\ KernelOK(v) /\ v.stat = k.stat /\ v.prio = k.prio /\ v.armed = k.armed
      /\ v.list = k.list /\ v.current = k.current /\ v.lock = k.lock
      /\ \A u \in Thread : u # TimerThread => v.err[u] = k.err[u]
  BY <1>2, <1>3, SleepReturnOK
<1>5. PICK r : r = [v EXCEPT !.lock = 1]
  OBVIOUS
<1>6. /\ KernelOK(r) /\ r.stat = v.stat /\ r.prio = v.prio /\ r.armed = v.armed
      /\ r.list = v.list /\ r.current = v.current /\ r.err = v.err /\ r.lock = 1
  BY <1>4, <1>5, LockOK
<1>7. CASE a = "napped"
  <2>1. k' = v /\ v.lock = 0 /\ EntryGoes("func")
    BY <1>0, <1>2, <1>3, <1>4, <1>7
  <2> QED
    BY <1>0, <1>1, <1>2, <1>4, <1>7, <2>1, EntryStep
<1>8. CASE a # "napped"
  <2>1. PICK b \in {"loop", "after"} : EntryGoes(b)
    BY <1>0, <1>8
  <2>2. k' = r
    <3>1. k' = [v EXCEPT !.lock = @ + 1]
      BY <1>0, <1>3, <1>8
    <3>2. v.lock + 1 = 1
      BY <1>2, <1>4
    <3> QED
      BY <1>5, <3>1, <3>2
  <2>3. /\ KernelOK(r) /\ r.stat = k.stat /\ r.prio = k.prio /\ r.armed = k.armed
        /\ r.list = k.list /\ r.current = k.current
        /\ \A u \in Thread : u # TimerThread => r.err[u] = k.err[u]
        /\ r.lock = 1
    BY <1>4, <1>6
  <2>4. b \in PC /\ b \notin HeapPlaces /\ b \in Locked
    BY <1>1
  <2> QED
    BY <1>0, <1>1, <1>2, <2>1, <2>2, <2>3, <2>4, EntryStep
<1> QED
  BY <1>7, <1>8

(* ... and unlocks. *)
LEMMA UnlockStep ==
  ASSUME CallInv, CallFunction \/ CheckEnd
  PROVE  StStep
<1>0. PICK a \in {"expired", "loop"}, b \in {"func", "next"} :
        /\ Entry(a) /\ EntryGoes(b) /\ k' = Schedule([k EXCEPT !.lock = @ - 1])
        /\ prog' = prog /\ alive' = alive /\ timed' = timed
  BY DEF CallFunction, CheckEnd, Unlock
<1>1. k.lock = 1 /\ KernelOK(k) /\ Steady
  BY <1>0, LockAt DEF Steady, CallInv
<1>2. PICK r : r = [k EXCEPT !.lock = 0]
  OBVIOUS
<1>3. /\ KernelOK(r) /\ r.stat = k.stat /\ r.prio = k.prio /\ r.armed = k.armed
      /\ r.list = k.list /\ r.current = k.current /\ r.err = k.err /\ r.lock = 0
  BY <1>1, <1>2, LockOK
<1>4. k' = Schedule(r)
  <2>1. k.lock - 1 = 0
    BY <1>1
  <2> QED
    BY <1>0, <1>2, <2>1
<1>5. a \notin HeapPlaces /\ b \in PC /\ b \notin HeapPlaces /\ b \notin Locked
  BY DEF PC, HeapPlaces
<1> QED
  BY <1>0, <1>1, <1>3, <1>4, <1>5, EntryStep

LEMMA StMoves ==
  ASSUME CallInv, StPlaced, Yields, WakerInv, TimersUsedBelow, StNext
  PROVE  StStep
<1>1. CASE \/ \E s \in SoftTimers :
                StIsrStart(s) \/ \E t \in Thread : StStart(t, s) \/ StStop(t, s)
           \/ \E t \in Thread :
                \/ StInsert(t) \/ StWake(t) \/ StResumeTest(t) \/ StUnlink(t) \/ StReady(t)
                \/ StRemove(t) \/ StFlag(t)
  BY <1>1, StIsrStartStep, StartStopStep, UserGoesStep, StUnlinkStep, StReadyStep
<1>2. CASE Enter \/ FallAsleep \/ Nap
  BY <1>2, EnterStep, SleepStep
<1>3. CASE SleepSchedule \/ NapSchedule
  BY <1>3, SleepSwitches DEF StStep
<1>4. CASE \/ NextTimeout \/ Expire \/ FuncInsert \/ FuncRemove \/ FuncFlag
           \/ Restart \/ RestartInsert \/ Expired \/ Mark
           \/ \E s \in SoftTimers : FuncStart(s) \/ FuncStop(s)
  BY <1>4, EntryStaysStep
<1>5. CASE Check \/ NapReturn \/ FuncReturn \/ CallFunction \/ CheckEnd
  BY <1>5, LockingStep, UnlockStep
<1> QED
  BY <1>1, <1>2, <1>3, <1>4, <1>5 DEF StNext

-----------------------------------------------------------------------------
(* A step beside the soft timers, or the rt_schedule of a sleeper *)
Aside ==
  \/ SameWaits
  \/ \E t, W : /\ Effect(t, W)
               /\ t \in Thread => pc[t] \notin StPlaces /\ pc'[t] \notin StPlaces
               /\ \A u \in W : op[u] = "timer_entry" => u \in k.armed /\ Runners

LEMMA PlacedAside ==
  ASSUME StPlaced, Aside, on' = on
  PROVE  StPlaced'
<1>1. CASE SameWaits
  <2> SUFFICES ASSUME NEW u \in Thread PROVE PlacedAt(op'[u], pc'[u], on'[u], u)
    BY DEF StPlaced
  <2>1. /\ op'[u] = op[u] /\ on'[u] = on[u] /\ PlacedAt(op[u], pc[u], on[u], u)
        /\ \/ pc'[u] = pc[u]
           \/ pc[u] = "wait" /\ pc'[u] = "woken"
           \/ u = TimerThread /\ RunsOn(pc[u], pc'[u])
    BY <1>1 DEF SameWaits, StPlaced
  <2> QED
    BY <2>1 DEF PlacedAt, EntryPlaces
<1>2. ASSUME NEW t, NEW W, Effect(t, W),
             t \in Thread => pc[t] \notin StPlaces /\ pc'[t] \notin StPlaces
      PROVE  StPlaced'
  <2> SUFFICES ASSUME NEW u \in Thread PROVE PlacedAt(op'[u], pc'[u], on'[u], u)
    BY DEF StPlaced
  <2>1. CASE u = t
    BY <1>2, <2>1 DEF PlacedAt, StPlaces, EntryPlaces
  <2>2. CASE u # t
    <3>1. op'[u] = op[u] /\ pc'[u] = pc[u] /\ on'[u] = on[u]
      BY <1>2, <2>2 DEF Effect
    <3>2. PlacedAt(op[u], pc[u], on[u], u)
      BY DEF StPlaced
    <3> QED
      BY <3>1, <3>2
  <2> QED
    BY <2>1, <2>2
<1> QED
  BY <1>1, <1>2 DEF Aside

(* The thread t goes on to the place a of o, with the timer s. *)
LEMMA PlacedGoes ==
  ASSUME CallInv, StTypeOK, StPlaced, NEW t \in Thread, NEW o, NEW a, NEW s,
         op' = [op EXCEPT ![t] = o], pc' = [pc EXCEPT ![t] = a], on' = [on EXCEPT ![t] = s],
         PlacedAt(o, a, s, t)
  PROVE  StPlaced'
<1> SUFFICES ASSUME NEW u \in Thread PROVE PlacedAt(op'[u], pc'[u], on'[u], u)
  BY DEF StPlaced
<1>1. /\ op \in [Thread -> Op \cup {"none"}] /\ pc \in [Thread -> PC]
      /\ on \in [Thread -> SoftTimers \cup {None}]
  BY DEF CallInv, Settled, StTypeOK
<1>2. CASE u = t
  <2>1. op'[u] = o /\ pc'[u] = a /\ on'[u] = s
    BY <1>1, <1>2
  <2> QED
    BY <1>2, <2>1
<1>3. CASE u # t
  <2>1. op'[u] = op[u] /\ pc'[u] = pc[u] /\ on'[u] = on[u]
    BY <1>1, <1>3
  <2>2. PlacedAt(op[u], pc[u], on[u], u)
    BY DEF StPlaced
  <2> QED
    BY <2>1, <2>2
<1> QED
  BY <1>2, <1>3

LEMMA PlacedCaller ==
  ASSUME CallInv, StTypeOK, StPlaced, NEW t \in Thread,
         \/ \E s \in SoftTimers : StStart(t, s) \/ StStop(t, s)
         \/ StInsert(t) \/ StWake(t) \/ StResumeTest(t) \/ StUnlink(t) \/ StReady(t)
         \/ StRemove(t) \/ StFlag(t)
  PROVE  StPlaced'
<1>0. /\ op \in [Thread -> Op \cup {"none"}] /\ on \in [Thread -> SoftTimers \cup {None}]
  BY DEF CallInv, Settled, StTypeOK
<1>1. ASSUME NEW s \in SoftTimers, StStart(t, s) \/ StStop(t, s) PROVE StPlaced'
  <2>1. PICK o, a : /\ op' = [op EXCEPT ![t] = o] /\ pc' = [pc EXCEPT ![t] = a]
                    /\ on' = [on EXCEPT ![t] = s]
                    /\ \/ o = "timer_start" /\ a = "insert"
                       \/ o = "timer_stop" /\ a = "remove"
    BY <1>1 DEF StStart, StStop, TakeOff, Goto
  <2>2. PlacedAt(o, a, s, t)
    BY <2>1 DEF PlacedAt, EntryPlaces
  <2> QED
    BY <2>1, <2>2, PlacedGoes
<1>2. ASSUME StInsert(t) \/ StWake(t) \/ StResumeTest(t) \/ StUnlink(t) \/ StReady(t)
             \/ StRemove(t) \/ StFlag(t)
      PROVE  StPlaced'
  <2>1. on' = [on EXCEPT ![t] = on[t]] \/ on' = [on EXCEPT ![t] = None]
    BY <1>0, <1>2 DEF StInsert, StWake, StResumeTest, StUnlink, StReady, StRemove, StFlag,
                      PutOn, Delist, ClearFlag, stVars
  <2>2. \/ \E a \in {"wake", "resume_test", "unlink", "ready", "sched"} :
             op[t] = "timer_start" /\ Proceed(t, a)
        \/ op[t] = "timer_stop" /\ Proceed(t, "flag")
        \/ Return(t)
    BY <1>2 DEF StInsert, StWake, StResumeTest, StUnlink, StReady, StRemove, StFlag, At
  <2>3. PICK o, a : /\ op' = [op EXCEPT ![t] = o] /\ pc' = [pc EXCEPT ![t] = a]
                    /\ \/ o = "timer_start" /\ a \in {"wake", "resume_test", "unlink", "ready", "sched"}
                       \/ o = "timer_stop" /\ a = "flag"
                       \/ o = "none" /\ a = "user"
    <3>1. CASE \E a \in {"wake", "resume_test", "unlink", "ready", "sched"} :
                 op[t] = "timer_start" /\ Proceed(t, a)
      <4>1. op' = [op EXCEPT ![t] = "timer_start"]
        BY <1>0, <3>1 DEF Proceed
      <4> QED
        BY <3>1, <4>1 DEF Proceed
    <3>2. CASE op[t] = "timer_stop" /\ Proceed(t, "flag")
      <4>1. op' = [op EXCEPT ![t] = "timer_stop"]
        BY <1>0, <3>2 DEF Proceed
      <4> QED
        BY <3>2, <4>1 DEF Proceed
    <3>3. CASE Return(t)
      BY <3>3 DEF Return, Goto
    <3> QED
      BY <2>2, <3>1, <3>2, <3>3
  <2>4. PlacedAt(o, a, on[t], t) /\ PlacedAt(o, a, None, t)
    BY <2>3 DEF PlacedAt, EntryPlaces
  <2> QED
    BY <2>1, <2>3, <2>4, PlacedGoes
<1> QED
  BY <1>1, <1>2

(* The actions of the timer thread *)
EntryAct ==
  \/ NextTimeout \/ FallAsleep \/ SleepSchedule
  \/ Check \/ Expire \/ CallFunction \/ CheckEnd
  \/ FuncInsert \/ FuncRemove \/ FuncFlag \/ Nap \/ NapSchedule \/ NapReturn
  \/ FuncReturn \/ Restart \/ RestartInsert \/ Expired \/ Mark
  \/ \E s \in SoftTimers : FuncStart(s) \/ FuncStop(s)

(* It goes on, with the timer that it starts or stops. *)
LEMMA EntryGoesOn ==
  ASSUME StTypeOK, EntryAct
  PROVE  \E a \in EntryPlaces, s \in SoftTimers \cup {None} :
           /\ EntryGoes(a) /\ Entry(pc[TimerThread])
           /\ on' = [on EXCEPT ![TimerThread] = s]
           /\ a \in {"f_insert", "restart"} => s \in SoftTimers
<1>0. /\ on \in [Thread -> SoftTimers \cup {None}] /\ TimerThread \in Thread
      /\ on[TimerThread] \in SoftTimers \cup {None}
      /\ on = [on EXCEPT ![TimerThread] = on[TimerThread]]
  BY Kinds DEF StTypeOK
<1>1. CASE NextTimeout \/ FallAsleep \/ SleepSchedule \/ Check \/ Expire \/ CallFunction \/ CheckEnd
  <2>1. /\ on' = on /\ Entry(pc[TimerThread])
        /\ \E a \in {"suspend", "delay", "check", "asleep", "loop", "expired", "func", "next"} :
             EntryGoes(a)
    BY <1>1 DEF NextTimeout, FallAsleep, SleepSchedule, Check, Expire, CallFunction, CheckEnd,
                stVars, Entry, At
  <2> QED
    BY <1>0, <2>1 DEF EntryPlaces
<1>2. CASE Nap \/ NapSchedule \/ NapReturn \/ FuncReturn \/ FuncRemove
  <2>1. /\ on' = on /\ Entry(pc[TimerThread])
        /\ \E a \in {"nap", "napped", "func", "after", "f_flag"} : EntryGoes(a)
    BY <1>2 DEF Nap, NapSchedule, NapReturn, FuncReturn, FuncRemove, Delist, stVars, Entry, At
  <2> QED
    BY <1>0, <2>1 DEF EntryPlaces
<1>3. CASE FuncInsert \/ FuncFlag \/ RestartInsert \/ Mark
  <2>1. /\ on' = [on EXCEPT ![TimerThread] = None] /\ Entry(pc[TimerThread])
        /\ \E a \in {"func", "loop"} : EntryGoes(a)
    BY <1>3 DEF FuncInsert, FuncFlag, RestartInsert, Mark, PutOn, ClearFlag, Entry, At
  <2> QED
    BY <2>1 DEF EntryPlaces
<1>4. ASSUME NEW s \in SoftTimers, FuncStart(s) \/ FuncStop(s)
      PROVE  \E a \in {"f_insert", "f_remove"} :
               /\ EntryGoes(a) /\ Entry(pc[TimerThread])
               /\ on' = [on EXCEPT ![TimerThread] = s]
  BY <1>4 DEF FuncStart, FuncStop, TakeOff, Entry, At
<1>5. CASE Restart
  <2>1. called \in SoftTimers
    BY <1>5 DEF Restart, StTypeOK
  <2>2. /\ EntryGoes("restart") /\ Entry(pc[TimerThread])
        /\ on' = [on EXCEPT ![TimerThread] = called]
    BY <1>5 DEF Restart, TakeOff, Entry, At
  <2> QED
    BY <2>1, <2>2 DEF EntryPlaces
<1>6. CASE Expired
  <2>1. /\ EntryGoes("mark") /\ Entry(pc[TimerThread])
        /\ on' = [on EXCEPT ![TimerThread] = called]
    BY <1>6 DEF Expired, Entry, At
  <2>2. called \in SoftTimers \cup {None}
    BY DEF StTypeOK
  <2>3. "mark" \in EntryPlaces /\ "mark" \notin {"f_insert", "restart"}
    BY DEF EntryPlaces
  <2> QED
    BY <2>1, <2>2, <2>3
<1>7. CASE \E s \in SoftTimers : FuncStart(s) \/ FuncStop(s)
  BY <1>4, <1>7 DEF EntryPlaces
<1> QED
  BY <1>1, <1>2, <1>3, <1>5, <1>6, <1>7 DEF EntryAct

LEMMA StPlacedNext ==
  ASSUME CallInv, StTypeOK, StPlaced, StNext
  PROVE  StPlaced'
<1>0. /\ op \in [Thread -> Op \cup {"none"}] /\ on \in [Thread -> SoftTimers \cup {None}]
      /\ TimerThread \in Thread
  BY Kinds DEF CallInv, Settled, StTypeOK
<1>1. CASE \E t \in Thread :
             \/ \E s \in SoftTimers : StStart(t, s) \/ StStop(t, s)
             \/ StInsert(t) \/ StWake(t) \/ StResumeTest(t) \/ StUnlink(t) \/ StReady(t)
             \/ StRemove(t) \/ StFlag(t)
  BY <1>1, PlacedCaller
<1>2. CASE Enter
  <2>1. /\ op' = [op EXCEPT ![TimerThread] = "timer_entry"]
        /\ pc' = [pc EXCEPT ![TimerThread] = "next"]
        /\ on' = [on EXCEPT ![TimerThread] = on[TimerThread]]
    BY <1>0, <1>2 DEF Enter, Goto, stVars
  <2>2. PlacedAt("timer_entry", "next", on[TimerThread], TimerThread)
    BY DEF PlacedAt
  <2> QED
    BY <1>0, <2>1, <2>2, PlacedGoes
<1>3. CASE EntryAct
  <2>1. PICK a \in EntryPlaces, s \in SoftTimers \cup {None} :
           /\ EntryGoes(a) /\ Entry(pc[TimerThread])
           /\ on' = [on EXCEPT ![TimerThread] = s]
           /\ a \in {"f_insert", "restart"} => s \in SoftTimers
    BY <1>3, EntryGoesOn
  <2>2. /\ op' = [op EXCEPT ![TimerThread] = "timer_entry"]
        /\ pc' = [pc EXCEPT ![TimerThread] = a]
    BY <1>0, <2>1 DEF EntryGoes, Proceed, Entry, At
  <2>3. PlacedAt("timer_entry", a, s, TimerThread)
    BY <2>1 DEF PlacedAt, EntryPlaces
  <2> QED
    BY <1>0, <2>1, <2>2, <2>3, PlacedGoes
<1>4. ASSUME NEW s \in SoftTimers, StIsrStart(s) PROVE StPlaced'
  <2>1. on' = on
    BY <1>4 DEF StIsrStart
  <2>2. CASE UNCHANGED <<op, pc>>
    BY <2>1, <2>2 DEF StPlaced
  <2>3. CASE ~UNCHANGED <<op, pc>>
    <3>1. op' = op /\ pc' = [pc EXCEPT ![TimerThread] = "torn"] /\ op[TimerThread] = "timer_entry"
      BY <1>4, <2>3 DEF StIsrStart, Proceed
    <3>2. /\ op' = [op EXCEPT ![TimerThread] = "timer_entry"]
          /\ on' = [on EXCEPT ![TimerThread] = on[TimerThread]]
      BY <1>0, <2>1, <3>1
    <3>3. PlacedAt("timer_entry", "torn", on[TimerThread], TimerThread)
      BY DEF PlacedAt
    <3> QED
      BY <1>0, <3>1, <3>2, <3>3, PlacedGoes
  <2> QED
    BY <2>2, <2>3
<1> QED
  BY <1>1, <1>2, <1>3, <1>4 DEF StNext, EntryAct

-----------------------------------------------------------------------------
(* What the lists of the soft timers are made of *)
LEMMA InsertionsTyped ==
  ASSUME NEW l \in Seq(SoftTimers), NEW s \in SoftTimers, NEW r \in Insertions(l, s)
  PROVE  r \in Seq(SoftTimers)
<1>1. PICK n \in 1 .. Len(l) + 1 : r = InsertAt(l, n, s)
  BY DEF Insertions
<1> QED
  BY <1>1, InsertMembers

LEMMA UnlinkedTyped == ASSUME StTypeOK, NEW s PROVE Unlinked(s) \in Seq(SoftTimers)
BY RemoveKeepsOrder DEF StTypeOK, Unlinked

LEMMA OneFurther ==
  ASSUME NEW S, NEW l \in Seq(S), NEW i \in 1 .. Len(l), i # Len(l)
  PROVE  l[i + 1] \in S
<1>1. Len(l) \in Nat
  BY LenProperties
<1>2. i + 1 \in 1 .. Len(l)
  BY <1>1
<1> QED
  BY <1>2

LEMMA NodeTyped ==
  ASSUME StTypeOK, NEW s \in SoftTimers
  PROVE  /\ ListHead(soft_list) \in SoftTimers \cup {None}
         /\ Successor(s) \in SoftTimers \cup {None}
<1>1. soft_list \in Seq(SoftTimers) /\ Len(soft_list) \in Nat
      /\ DOMAIN soft_list = 1 .. Len(soft_list)
  BY DEF StTypeOK
<1>2. ListHead(soft_list) \in SoftTimers \cup {None}
  BY <1>1, HeadOfList DEF ListHead
<1>3. CASE s \in ToSet(soft_list)
  <2> DEFINE i == CHOOSE j \in DOMAIN soft_list : soft_list[j] = s
  <2>1. \E j \in DOMAIN soft_list : soft_list[j] = s
    BY <1>1, <1>3, InToSet
  <2>2. i \in 1 .. Len(soft_list)
    BY <1>1, <2>1
  <2>6. Successor(s) = IF i = Len(soft_list) THEN None ELSE soft_list[i + 1]
    BY <1>3, Zenon DEF Successor
  <2> HIDE DEF i
  <2>3. i = Len(soft_list) \/ soft_list[i + 1] \in SoftTimers
    BY <1>1, <2>2, OneFurther
  <2>5. Successor(s) \in SoftTimers \cup {None}
    BY <2>3, <2>6
  <2> QED
    BY <1>2, <2>5
<1>4. CASE s \notin ToSet(soft_list)
  BY <1>2, <1>4 DEF Successor
<1> QED
  BY <1>3, <1>4

(* The masked stretches keep the types, on included, which every step of a  *)
(* starter or stopper changes for one thread.                               *)
LEMMA StretchTypes ==
  ASSUME StTypeOK, NEW t \in Thread,
         \/ \E s \in SoftTimers : TakeOff(t, s)
         \/ on[t] \in SoftTimers /\ PutOn(t)
         \/ Delist(t) \/ ClearFlag(t)
         \/ \E s \in SoftTimers \cup {None} :
              on' = [on EXCEPT ![t] = s] /\ UNCHANGED <<soft_list, activated>>
         \/ UNCHANGED <<soft_list, activated, on>>
  PROVE  /\ soft_list' \in Seq(SoftTimers) /\ activated' \in SUBSET SoftTimers
         /\ on' \in [Thread -> SoftTimers \cup {None}]
<1>1. /\ soft_list \in Seq(SoftTimers) /\ activated \subseteq SoftTimers
      /\ on \in [Thread -> SoftTimers \cup {None}]
      /\ \A s : Unlinked(s) \in Seq(SoftTimers)
  BY UnlinkedTyped DEF StTypeOK
<1>2. CASE \E s \in SoftTimers : TakeOff(t, s)
  BY <1>1, <1>2 DEF TakeOff
<1>3. CASE on[t] \in SoftTimers /\ PutOn(t)
  <2>1. soft_list' \in Seq(SoftTimers)
    BY <1>1, <1>3, InsertionsTyped DEF PutOn
  <2> QED
    BY <1>1, <1>3, <2>1 DEF PutOn
<1>4. CASE Delist(t) \/ ClearFlag(t)
  BY <1>1, <1>4 DEF Delist, ClearFlag
<1>5. CASE \/ \E s \in SoftTimers \cup {None} :
                on' = [on EXCEPT ![t] = s] /\ UNCHANGED <<soft_list, activated>>
           \/ UNCHANGED <<soft_list, activated, on>>
  BY <1>1, <1>5
<1> QED
  BY <1>2, <1>3, <1>4, <1>5

LEMMA StTypes ==
  ASSUME CallInv, StTypeOK, StPlaced, StNext
  PROVE  StTypeOK'
<1>0. /\ TimerThread \in Thread
      /\ called \in SoftTimers \cup {None} /\ node \in SoftTimers \cup {None}
      /\ missed \in BOOLEAN /\ None \in SoftTimers \cup {None}
      /\ soft_list \in Seq(SoftTimers) /\ activated \subseteq SoftTimers
  BY Kinds DEF StTypeOK
<1>1. ASSUME NEW t \in Thread,
             \/ \E s \in SoftTimers : StStart(t, s) \/ StStop(t, s)
             \/ StInsert(t) \/ StWake(t) \/ StResumeTest(t) \/ StUnlink(t) \/ StReady(t)
             \/ StRemove(t) \/ StFlag(t)
      PROVE  StTypeOK'
  <2>1. called' = called /\ node' = node /\ missed' = missed
    BY <1>1 DEF StStart, StStop, StInsert, StWake, StResumeTest, StUnlink, StReady,
                StRemove, StFlag, stVars
  <2>2. StInsert(t) => on[t] \in SoftTimers
    BY DEF StInsert, At, StPlaced, PlacedAt
  <2>3. \/ \E s \in SoftTimers : TakeOff(t, s)
        \/ on[t] \in SoftTimers /\ PutOn(t)
        \/ Delist(t) \/ ClearFlag(t)
        \/ \E s \in SoftTimers \cup {None} :
             on' = [on EXCEPT ![t] = s] /\ UNCHANGED <<soft_list, activated>>
        \/ UNCHANGED <<soft_list, activated, on>>
    BY <1>1, <2>2 DEF StStart, StStop, StInsert, StWake, StResumeTest, StUnlink, StReady,
                      StRemove, StFlag, stVars
  <2> QED
    BY <1>0, <2>1, <2>3, StretchTypes DEF StTypeOK
<1>2. CASE Enter
  BY <1>2 DEF Enter, stVars, StTypeOK
<1>3. CASE EntryAct
  <2>1. /\ called' \in SoftTimers \cup {None} /\ missed' \in BOOLEAN
        /\ node' \in SoftTimers \cup {None}
    <3>1. CASE NextTimeout
      BY <1>0, <3>1 DEF NextTimeout
    <3>2. CASE Check \/ CheckEnd \/ Expire
      <4>1. node \in SoftTimers => Successor(node) \in SoftTimers \cup {None}
        BY NodeTyped
      <4>2. ListHead(soft_list) \in SoftTimers \cup {None}
        BY <1>0, HeadOfList DEF ListHead
      <4> QED
        BY <1>0, <3>2, <4>1, <4>2 DEF Check, CheckEnd, Expire
    <3>3. CASE Restart \/ Expired
      BY <1>0, <3>3 DEF Restart, Expired
    <3>4. CASE \/ FallAsleep \/ SleepSchedule \/ CallFunction
               \/ FuncInsert \/ FuncRemove \/ FuncFlag \/ Nap \/ NapSchedule \/ NapReturn
               \/ FuncReturn \/ RestartInsert \/ Mark
               \/ \E s \in SoftTimers : FuncStart(s) \/ FuncStop(s)
      BY <1>0, <3>4 DEF FallAsleep, SleepSchedule, CallFunction, FuncInsert, FuncRemove,
           FuncFlag, Nap, NapSchedule, NapReturn, FuncReturn, RestartInsert, Mark, FuncStart,
           FuncStop, stVars
    <3> QED
      BY <1>3, <3>1, <3>2, <3>3, <3>4 DEF EntryAct
  <2>2. FuncInsert \/ RestartInsert => on[TimerThread] \in SoftTimers
    BY <1>0 DEF FuncInsert, RestartInsert, Entry, At, StPlaced, PlacedAt
  <2>3. CASE CallFunction
    BY <1>0, <2>1, <2>3, UnlinkedTyped DEF CallFunction, StTypeOK
  <2>4. CASE ~CallFunction
    <3>1. \/ \E s \in SoftTimers : TakeOff(TimerThread, s)
          \/ on[TimerThread] \in SoftTimers /\ PutOn(TimerThread)
          \/ Delist(TimerThread) \/ ClearFlag(TimerThread)
          \/ \E s \in SoftTimers \cup {None} :
               on' = [on EXCEPT ![TimerThread] = s] /\ UNCHANGED <<soft_list, activated>>
          \/ UNCHANGED <<soft_list, activated, on>>
      BY <1>0, <1>3, <2>2, <2>4 DEF EntryAct, NextTimeout, FallAsleep, SleepSchedule, Check, Expire,
           CheckEnd, FuncInsert, FuncRemove, FuncFlag, Nap, NapSchedule, NapReturn,
           FuncReturn, Restart, RestartInsert, Expired, Mark, FuncStart, FuncStop, stVars
    <3> QED
      BY <1>0, <2>1, <3>1, StretchTypes DEF StTypeOK
  <2> QED
    BY <2>3, <2>4
<1>4. ASSUME NEW s \in SoftTimers, StIsrStart(s) PROVE StTypeOK'
  <2>1. soft_list' \in Seq(SoftTimers)
    BY <1>4, InsertionsTyped, UnlinkedTyped DEF StIsrStart
  <2>2. activated' \subseteq SoftTimers /\ on' = on /\ called' = called /\ node' = node
        /\ missed' \in BOOLEAN
    BY <1>0, <1>4 DEF StIsrStart
  <2> QED
    BY <1>0, <2>1, <2>2 DEF StTypeOK
<1> QED
  BY <1>1, <1>2, <1>3, <1>4 DEF StNext, EntryAct

-----------------------------------------------------------------------------
(* The timer thread and those that wake it.  The thread that runs after a   *)
(* step is as urgent as the timer thread when that is awake.                *)
LEMMA MostUrgent ==
  ASSUME NEW kk, KernelOK(kk), kk.prio = BasePrio, kk.stat[kk.current] = "RUNNING",
         Preempted(kk), NEW t \in Thread, kk.stat[t] \in {"READY", "RUNNING"}
  PROVE  BasePrio[kk.current] <= BasePrio[t]
<1>1. /\ kk.current \in Thread /\ BasePrio \in [Thread -> Prio] /\ Prio \subseteq Nat
      /\ kk \in KernelState
  BY SMTT(30), SystemAssumption, KernelAssumption DEF KernelOK, KernelState, StartOrder, Prio
<1>2. CASE kk.stat[t] = "RUNNING"
  <2>1. t = kk.current
    BY <1>2 DEF KernelOK, KernelConsistent, RunningIsCurrent
  <2>2. BasePrio[t] \in Nat
    BY <1>1
  <2> QED
    BY <2>1, <2>2
<1>3. CASE kk.stat[t] = "READY"
  <2> DEFINE p == kk.prio[t]
  <2>1. p \in Prio
    BY <1>1
  <2>2. t \in On(kk, p)
    BY <1>1, <1>3, <2>1 DEF KernelOK, KernelConsistent, ReadyListed
  <2>3. kk.list[p] # <<>>
    <3>1. kk.list[p] = <<>> => On(kk, p) = {}
      BY DEF On, ToSet
    <3> QED
      BY <2>2, <3>1
  <2>4. p \in kk.group
    BY <2>1, <2>3 DEF KernelOK, KernelConsistent, BitmapExact
  <2>5. kk.prio[kk.current] <= p
    BY <2>4 DEF Preempted
  <2> QED
    BY <2>5
<1> QED
  BY <1>2, <1>3

LEMMA RunnersUrgent ==
  ASSUME CallInv', Runners, k'.stat[TimerThread] # "SUSPEND"
  PROVE  BasePrio[k'.current] <= BasePrio[TimerThread]
<1>1. /\ KernelOK(k') /\ k'.prio = BasePrio /\ TimerThread \in Thread
      /\ k'.stat[TimerThread] \in Living
  BY Kinds DEF CallInv, Settled
<1>2. PICK kk : kk = k'
  OBVIOUS
<1>3. /\ KernelOK(kk) /\ kk.prio = BasePrio /\ kk.stat[TimerThread] \in {"READY", "RUNNING"}
      /\ kk.stat[kk.current] = "RUNNING" /\ Preempted(kk)
  BY <1>1, <1>2 DEF Living, Runners
<1> QED
  BY <1>1, <1>2, <1>3, MostUrgent

(* Suspended inside its entry function, it is at one of four places; inside *)
(* no call it is not suspended.                                             *)
LEMMA EntrySuspended ==
  ASSUME CallInv, k.stat[TimerThread] = "SUSPEND"
  PROVE  /\ op[TimerThread] # "none"
         /\ op[TimerThread] = "timer_entry" =>
              pc[TimerThread] \in {"asleep", "check", "nap", "napped"}
         /\ pc[TimerThread] \in EntryPlaces => pc[TimerThread] \in {"asleep", "check", "nap", "napped"}
<1>1. WaitsFor(k, op, pc, TimerThread)
  BY Kinds DEF CallInv, Settled
<1> QED
  BY <1>1 DEF WaitsFor, WaitOp, HeapOp, EntryPlaces

(* What a step aside leaves of it *)
EntryKept ==
  /\ CallInv' /\ (k'.current = k.current \/ Runners)
  /\ \A u \in Thread : pc[u] \in StPlaces \/ pc'[u] \in StPlaces =>
       /\ op'[u] = op[u]
       /\ pc'[u] = pc[u] \/ (u = TimerThread /\ RunsOn(pc[u], pc'[u]))
  /\ pc[TimerThread] \in EntryPlaces =>
       \/ /\ k'.stat[TimerThread] = "SUSPEND" <=> k.stat[TimerThread] = "SUSPEND"
          /\ TimerThread \in k'.armed <=> TimerThread \in k.armed
       \/ /\ k.stat[TimerThread] = "SUSPEND" /\ k'.stat[TimerThread] # "SUSPEND"
          /\ TimerThread \in k.armed /\ Runners
  /\ op[k.current] = "timer_start" /\ pc[k.current] = "sched" =>
       Runners \/ (op'[k.current] = "timer_start" /\ pc'[k.current] = "sched")

LEMMA AsideKeeps ==
  ASSUME CallInv, StPlaced, Aside
  PROVE  EntryKept
<1>0. TimerThread \in Thread /\ k.current \in Thread
  BY Kinds, CurrentAwake
<1>1. CASE SameWaits
  <2>1. /\ CallInv' /\ (k'.current = k.current \/ Runners)
        /\ \A u \in Thread : /\ op'[u] = op[u]
                             /\ k'.stat[u] = "SUSPEND" <=> k.stat[u] = "SUSPEND"
                             /\ u \in k'.armed <=> u \in k.armed
                             /\ \/ pc'[u] = pc[u]
                                \/ pc[u] = "wait" /\ pc'[u] = "woken"
                                \/ u = TimerThread /\ RunsOn(pc[u], pc'[u])
    BY <1>1 DEF SameWaits
  <2>2. "wait" \notin StPlaces /\ "woken" \notin StPlaces
    BY DEF StPlaces
  <2> QED
    BY <1>0, <2>1, <2>2 DEF EntryKept
<1>2. ASSUME NEW t, NEW W, Effect(t, W),
             t \in Thread => pc[t] \notin StPlaces /\ pc'[t] \notin StPlaces,
             \A u \in W : op[u] = "timer_entry" => u \in k.armed /\ Runners
      PROVE  EntryKept
  <2>1. /\ CallInv' /\ (k'.current = k.current \/ Runners)
        /\ t \in Thread /\ pc[t] = "sched" => Runners
        /\ \A u \in Thread \ {t} :
             /\ op'[u] = op[u] /\ pc'[u] = pc[u]
             /\ k'.stat[u] = "SUSPEND" <=> k.stat[u] = "SUSPEND" /\ u \notin W
             /\ u \notin W => (u \in k'.armed <=> u \in k.armed) \/ Disarms(t, u)
        /\ \A u \in W : u \in Thread \ {t} /\ k.stat[u] = "SUSPEND"
    BY <1>2 DEF Effect
  <2>2. ~Disarms(t, TimerThread)
    BY <1>2 DEF Disarms, StPlaces
  <2>3. ASSUME NEW u \in Thread, pc[u] \in StPlaces \/ pc'[u] \in StPlaces
        PROVE  op'[u] = op[u] /\ pc'[u] = pc[u]
    BY <1>2, <2>1, <2>3
  <2>4. ASSUME pc[TimerThread] \in EntryPlaces
        PROVE  \/ /\ k'.stat[TimerThread] = "SUSPEND" <=> k.stat[TimerThread] = "SUSPEND"
                  /\ TimerThread \in k'.armed <=> TimerThread \in k.armed
               \/ /\ k.stat[TimerThread] = "SUSPEND" /\ k'.stat[TimerThread] # "SUSPEND"
                  /\ TimerThread \in k.armed /\ Runners
    <3>1. TimerThread # t
      BY <1>0, <1>2, <2>4 DEF EntryPlaces, StPlaces
    <3>2. op[TimerThread] = "timer_entry"
      BY <1>0, <2>4 DEF StPlaced, PlacedAt
    <3>3. CASE TimerThread \in W
      BY <1>0, <1>2, <2>1, <3>1, <3>2, <3>3
    <3>4. CASE TimerThread \notin W
      BY <1>0, <2>1, <2>2, <3>1, <3>4
    <3> QED
      BY <3>3, <3>4
  <2>5. op[k.current] = "timer_start" /\ pc[k.current] = "sched" =>
          Runners \/ (op'[k.current] = "timer_start" /\ pc'[k.current] = "sched")
    BY <1>0, <2>1
  <2> QED
    BY <2>1, <2>3, <2>4, <2>5 DEF EntryKept
<1> QED
  BY <1>1, <1>2 DEF Aside

LEMMA AsideTimers ==
  ASSUME CallInv, StPlaced, TimInv, Aside, UNCHANGED stVars
  PROVE  TimInv'
<1>0. /\ TimerThread \in Thread /\ k.current \in Thread /\ EntryKept /\ CallInv'
  BY Kinds, CurrentAwake, AsideKeeps DEF EntryKept
<1>1. EntryPlaces \subseteq StPlaces
  BY DEF EntryPlaces, StPlaces
<1>2. /\ pc'[TimerThread] \in EntryPlaces => pc[TimerThread] \in EntryPlaces
      /\ pc[TimerThread] \in EntryPlaces => pc'[TimerThread] \in EntryPlaces
  BY <1>0, <1>1 DEF EntryKept, EntryPlaces
<1>3. \A u \in Thread : \A a \in {"wake", "resume_test", "unlink", "ready"} :
         /\ pc[u] = a <=> pc'[u] = a
         /\ pc[u] = a => op[u] = "timer_start" /\ op'[u] = "timer_start"
  <2> SUFFICES ASSUME NEW u \in Thread, NEW a \in {"wake", "resume_test", "unlink", "ready"}
               PROVE  /\ pc[u] = a <=> pc'[u] = a
                      /\ pc[u] = a => op[u] = "timer_start" /\ op'[u] = "timer_start"
    OBVIOUS
  <2>1. a \in StPlaces /\ a \notin {"asleep", "nap", "check", "napped"}
    BY DEF StPlaces
  <2>2. pc[u] = a => op[u] = "timer_start"
    BY DEF StPlaced, PlacedAt
  <2> QED
    BY <1>0, <2>1, <2>2 DEF EntryKept
<1>4. Yields'
  <2> SUFFICES ASSUME pc'[TimerThread] \in EntryPlaces, k'.stat[TimerThread] # "SUSPEND", ~Runners
               PROVE  \/ BasePrio[k'.current] <= BasePrio[TimerThread]
                      \/ op'[k'.current] = "timer_start" /\ pc'[k'.current] = "sched"
    BY <1>0, RunnersUrgent DEF Yields
  <2>1. k.stat[TimerThread] # "SUSPEND" /\ pc[TimerThread] \in EntryPlaces /\ k'.current = k.current
    BY <1>0, <1>2 DEF EntryKept
  <2> QED
    BY <1>0, <2>1 DEF EntryKept, TimInv, Yields
<1>5. WakerInv'
  <2> SUFFICES ASSUME NEW t \in Thread
               PROVE  /\ pc'[t] \in {"unlink", "ready"} => pc'[TimerThread] \in EntryPlaces
                      /\ pc'[t] = "ready" =>
                           /\ k'.stat[TimerThread] = "SUSPEND" /\ TimerThread \notin k'.armed
                           /\ k'.current # TimerThread
    BY DEF WakerInv
  <2>1. pc'[t] \in {"unlink", "ready"} => pc[t] = pc'[t] /\ pc[TimerThread] \in EntryPlaces
    BY <1>3 DEF TimInv, WakerInv
  <2>2. ASSUME pc'[t] = "ready"
        PROVE  /\ k'.stat[TimerThread] = "SUSPEND" /\ TimerThread \notin k'.armed
               /\ k'.current # TimerThread
    <3>1. /\ k.stat[TimerThread] = "SUSPEND" /\ TimerThread \notin k.armed
          /\ k.current # TimerThread /\ pc[TimerThread] \in EntryPlaces
      BY <2>1, <2>2 DEF TimInv, WakerInv
    <3>2. k'.stat[TimerThread] = "SUSPEND" /\ TimerThread \notin k'.armed
      BY <1>0, <3>1 DEF EntryKept
    <3>3. k'.current = k.current \/ k'.stat[k'.current] = "RUNNING"
      BY <1>0 DEF EntryKept, Runners
    <3> QED
      BY <3>1, <3>2, <3>3
  <2> QED
    BY <1>2, <2>1, <2>2
<1>6. NapTimed'
  <2> SUFFICES ASSUME pc'[TimerThread] \in {"nap", "napped"}, k'.stat[TimerThread] = "SUSPEND"
               PROVE  TimerThread \in k'.armed \/ \E u \in Thread : Readies(u)'
    BY DEF NapTimed
  <2>1. pc'[TimerThread] \in StPlaces /\ pc'[TimerThread] \in EntryPlaces
    BY DEF StPlaces, EntryPlaces
  <2>2. pc[TimerThread] \in {"nap", "napped"} /\ pc[TimerThread] \in EntryPlaces
    BY <1>0, <1>2, <2>1 DEF EntryKept
  <2>3. /\ k.stat[TimerThread] = "SUSPEND"
        /\ TimerThread \in k'.armed <=> TimerThread \in k.armed
    BY <1>0, <2>2 DEF EntryKept
  <2>4. TimerThread \in k.armed \/ \E u \in Thread : Readies(u)
    BY <2>2, <2>3 DEF TimInv, NapTimed
  <2>5. \A u \in Thread : Readies(u) => Readies(u)'
    BY <1>3 DEF Readies
  <2> QED
    BY <2>3, <2>4, <2>5
<1>7. ForgetsNone'
  <2>0. soft_list' = soft_list /\ missed' = missed
    BY DEF stVars
  <2>1. SuspendsOnEmpty'
    <3>1. pc'[TimerThread] = "suspend" => pc[TimerThread] = "suspend"
      BY <1>0 DEF EntryKept, StPlaces
    <3> QED
      BY <2>0, <3>1 DEF TimInv, ForgetsNone, SuspendsOnEmpty
  <2>2. ASSUME ~missed', k'.stat[TimerThread] = "SUSPEND", op'[TimerThread] = "timer_entry",
               TimerThread \notin k'.armed, soft_list' # <<>>
        PROVE  \E u \in Thread : Rouses(u)'
    <3>1. pc'[TimerThread] \in {"asleep", "check", "nap", "napped"}
      BY <1>0, <2>2, Kinds DEF CallInv, Settled, WaitsFor, WaitOp, HeapOp
    <3>2. pc[TimerThread] \in EntryPlaces
      BY <1>2, <3>1 DEF EntryPlaces
    <3>3. /\ k.stat[TimerThread] = "SUSPEND" /\ TimerThread \notin k.armed
          /\ op[TimerThread] = "timer_entry"
      BY <1>0, <2>2, <3>2 DEF EntryKept, StPlaced, PlacedAt
    <3>4. PICK u \in Thread : Rouses(u)
      BY <2>0, <2>2, <3>3 DEF TimInv, ForgetsNone, NoTimerForgottenOnceSeen, NoTimerForgotten
    <3>5. Rouses(u)'
      BY <1>3, <3>4 DEF Rouses, Readies
    <3> QED
      BY <3>5
  <2> QED
    BY <2>1, <2>2 DEF ForgetsNone, NoTimerForgottenOnceSeen, NoTimerForgotten
<1> QED
  BY <1>4, <1>5, <1>6, <1>7 DEF TimInv

-----------------------------------------------------------------------------
(* A step of a thread that starts or stops a timer: it is less urgent than  *)
(* the timer thread, which sleeps.                                          *)
UserAct(t) ==
  \/ \E s \in SoftTimers : StStart(t, s) \/ StStop(t, s)
  \/ StInsert(t) \/ StWake(t) \/ StResumeTest(t) \/ StUnlink(t) \/ StReady(t)
  \/ StRemove(t) \/ StFlag(t)

UserPlaces == {"user", "insert", "wake", "resume_test", "unlink", "ready", "remove", "flag"}

LEMMA UserActs ==
  ASSUME CallInv, NEW t \in Thread, UserAct(t)
  PROVE  /\ t = k.current /\ k.stat[t] = "RUNNING"
         /\ prog.uses[t] \cap {"timer_start", "timer_stop"} # {} /\ prog \in Programs
         /\ pc[t] \in UserPlaces
         /\ op[t] = "timer_start" => "timer_start" \in prog.uses[t]
         /\ \E o \in Op \cup {"none"} : \E a : /\ op' = [op EXCEPT ![t] = o]
                                                /\ pc' = [pc EXCEPT ![t] = a]
<1>0. /\ op \in [Thread -> Op \cup {"none"}] /\ prog \in Programs
      /\ op[t] \in {"timer_start", "timer_stop"} => op[t] \in prog.uses[t]
  BY DEF CallInv, Settled, Used, HeapOp
<1>1. ASSUME NEW s \in SoftTimers, StStart(t, s) \/ StStop(t, s)
      PROVE  /\ t = k.current /\ k.stat[t] = "RUNNING" /\ pc[t] = "user"
             /\ prog.uses[t] \cap {"timer_start", "timer_stop"} # {}
             /\ \E o \in {"timer_start", "timer_stop"} : \E a :
                  op' = [op EXCEPT ![t] = o] /\ pc' = [pc EXCEPT ![t] = a]
  BY <1>1 DEF StStart, StStop, Calls, Goto
<1>2. ASSUME \/ StInsert(t) \/ StWake(t) \/ StResumeTest(t) \/ StUnlink(t) \/ StReady(t)
             \/ StRemove(t) \/ StFlag(t)
      PROVE  /\ t = k.current /\ pc[t] \in UserPlaces /\ pc[t] # "user"
             /\ op[t] \in {"timer_start", "timer_stop"}
             /\ \E o \in {op[t], "none"} : \E a :
                  op' = [op EXCEPT ![t] = o] /\ pc' = [pc EXCEPT ![t] = a]
  <2>1. /\ t = k.current /\ pc[t] \in UserPlaces /\ pc[t] # "user"
        /\ op[t] \in {"timer_start", "timer_stop"}
    BY <1>2 DEF StInsert, StWake, StResumeTest, StUnlink, StReady, StRemove, StFlag, At,
                UserPlaces
  <2>2. \/ \E a : Proceed(t, a)
        \/ Return(t)
    BY <1>2 DEF StInsert, StWake, StResumeTest, StUnlink, StReady, StRemove, StFlag
  <2>3. op = [op EXCEPT ![t] = op[t]]
    BY <1>0
  <2> QED
    BY <2>1, <2>2, <2>3 DEF Proceed, Return, Goto
<1>3. "timer_start" \in Op /\ "timer_stop" \in Op /\ op[t] \in Op \cup {"none"}
  BY <1>0 DEF Op
<1>4. CASE \E s \in SoftTimers : StStart(t, s) \/ StStop(t, s)
  <2>1. /\ t = k.current /\ k.stat[t] = "RUNNING" /\ pc[t] = "user"
        /\ prog.uses[t] \cap {"timer_start", "timer_stop"} # {}
        /\ \E o \in {"timer_start", "timer_stop"} : \E a :
             op' = [op EXCEPT ![t] = o] /\ pc' = [pc EXCEPT ![t] = a]
    BY <1>1, <1>4
  <2>2. \E o \in Op \cup {"none"} : \E a : op' = [op EXCEPT ![t] = o] /\ pc' = [pc EXCEPT ![t] = a]
    <3>1. {"timer_start", "timer_stop"} \subseteq Op \cup {"none"}
      BY <1>3
    <3>2. PICK o \in {"timer_start", "timer_stop"} : \E a :
            op' = [op EXCEPT ![t] = o] /\ pc' = [pc EXCEPT ![t] = a]
      BY <2>1
    <3>3. o \in Op \cup {"none"}
      BY <3>1
    <3> QED
      BY <3>2, <3>3, Zenon
  <2>3. pc[t] \in UserPlaces
    BY <2>1 DEF UserPlaces
  <2> QED
    BY <1>0, <2>1, <2>2, <2>3
<1>5. CASE \/ StInsert(t) \/ StWake(t) \/ StResumeTest(t) \/ StUnlink(t) \/ StReady(t)
           \/ StRemove(t) \/ StFlag(t)
  <2>1. k.stat[t] = "RUNNING"
    BY <1>2, <1>5, CurrentAwake DEF UserPlaces
  <2> QED
    BY <1>0, <1>2, <1>3, <1>5, <2>1
<1> QED
  BY <1>4, <1>5 DEF UserAct

LEMMA UserBelow ==
  ASSUME CallInv, StPlaced, Yields, TimersUsedBelow, NEW t \in Thread, UserAct(t)
  PROVE  /\ TimerThread \in Thread /\ t # TimerThread /\ t = k.current
         /\ pc'[TimerThread] = pc[TimerThread] /\ op'[TimerThread] = op[TimerThread]
         /\ \A u \in Thread \ {t} : op'[u] = op[u] /\ pc'[u] = pc[u]
         /\ pc[TimerThread] \in EntryPlaces => /\ k.stat[TimerThread] = "SUSPEND"
                                              /\ op[TimerThread] = "timer_entry"
         /\ ~(pc[TimerThread] \in EntryPlaces /\ pc[TimerThread] \notin {"asleep", "check", "nap", "napped"})
<1>1. /\ t = k.current /\ prog.uses[t] \cap {"timer_start", "timer_stop"} # {} /\ prog \in Programs
      /\ pc[t] \in UserPlaces
      /\ \E o \in Op \cup {"none"} : \E a : op' = [op EXCEPT ![t] = o] /\ pc' = [pc EXCEPT ![t] = a]
  BY UserActs
<1>2. TimerThread \in Thread /\ op \in [Thread -> Op \cup {"none"}] /\ pc \in [Thread -> PC]
  BY Kinds DEF CallInv, Settled
<1>3. /\ BasePrio[TimerThread] < BasePrio[t]
      /\ BasePrio[TimerThread] \in Nat /\ BasePrio[t] \in Nat
  BY <1>1, <1>2, SystemAssumption DEF TimersUsedBelow, StartOrder, Prio
<1>4. ~(BasePrio[t] <= BasePrio[TimerThread]) /\ t # TimerThread
  BY <1>3
<1>5. pc[TimerThread] \in EntryPlaces => /\ k.stat[TimerThread] = "SUSPEND"
                                        /\ op[TimerThread] = "timer_entry"
  BY <1>1, <1>2, <1>4 DEF Yields, UserPlaces, StPlaced, PlacedAt
<1>6. \A u \in Thread \ {t} : op'[u] = op[u] /\ pc'[u] = pc[u]
  BY <1>1, <1>2
<1>7. ~(pc[TimerThread] \in EntryPlaces /\ pc[TimerThread] \notin {"asleep", "check", "nap", "napped"})
  BY <1>5, EntrySuspended
<1> QED
  BY <1>1, <1>2, <1>4, <1>5, <1>6, <1>7

(* Only one thread starts timers. *)
LEMMA OneStarts ==
  ASSUME CallInv, StPlaced, OneWaker, NEW t \in Thread \cup {Isr}, "timer_start" \in prog.uses[t],
         NEW u \in Thread, pc[u] \in {"unlink", "ready"}
  PROVE  u = t
<1>1. op[u] = "timer_start"
  BY DEF StPlaced, PlacedAt
<1>2. "timer_start" \in prog.uses[u] /\ prog \in Programs
  BY <1>1 DEF CallInv, Used, HeapOp
<1> QED
  BY <1>2 DEF OneWaker

LEMMA UserWaker ==
  ASSUME CallInv, CallInv', StPlaced, Yields, WakerInv, NapTimed, TimersUsedBelow, OneWaker,
         NEW t \in Thread, UserAct(t)
  PROVE  Yields' /\ WakerInv' /\ NapTimed'
<1>0. /\ TimerThread \in Thread /\ t # TimerThread /\ t = k.current
      /\ pc'[TimerThread] = pc[TimerThread] /\ op'[TimerThread] = op[TimerThread]
      /\ \A u \in Thread \ {t} : op'[u] = op[u] /\ pc'[u] = pc[u]
      /\ pc[TimerThread] \in EntryPlaces => k.stat[TimerThread] = "SUSPEND"
  BY UserBelow
<1>1. CASE StUnlink(t)
  <2>1. /\ op'[t] = "timer_start" /\ pc'[t] = "ready"
        /\ k'.stat = k.stat /\ TimerThread \notin k'.armed /\ k'.current = k.current
    BY <1>1, UnlinkEffect
  <2>2. pc[TimerThread] \in EntryPlaces /\ k.stat[TimerThread] = "SUSPEND"
    BY <1>1, TimerThreadWaits
  <2>3. Yields'
    BY <1>0, <2>1, <2>2 DEF Yields
  <2>4. WakerInv'
    BY <1>0, <2>1, <2>2 DEF WakerInv
  <2>5. Readies(t)'
    BY <2>1 DEF Readies
  <2> QED
    BY <2>3, <2>4, <2>5 DEF NapTimed
<1>2. CASE StReady(t)
  <2>1. /\ op[t] = "timer_start" /\ pc[t] = "ready" /\ Acts(t, "timer_start", "sched", {TimerThread})
        /\ k'.stat[TimerThread] # "SUSPEND" /\ k'.current = k.current
    BY <1>2, ReadyActs
  <2>2. op'[t] = "timer_start" /\ pc'[t] = "sched"
    BY <2>1, ActsEffect
  <2>3. "timer_start" \in prog.uses[t]
    BY <1>2, <2>1, UserActs DEF UserAct
  <2>4. ASSUME NEW u \in Thread, pc'[u] \in {"unlink", "ready"} PROVE FALSE
    <3>1. u # t /\ pc[u] \in {"unlink", "ready"}
      BY <1>0, <2>2, <2>4
    <3> QED
      BY <2>3, <3>1, OneStarts
  <2> QED
    BY <1>0, <2>1, <2>2, <2>4 DEF Yields, WakerInv, NapTimed
<1>3. CASE ~StUnlink(t) /\ ~StReady(t)
  <2>1. k' = k /\ (pc[t] = "ready" => FALSE)
    BY <1>3 DEF UserAct, StStart, StStop, StInsert, StWake, StResumeTest, StRemove, StFlag,
                Calls, At
  <2>2. pc'[t] # "ready"
    BY <1>0, <1>3, UserActs DEF UserAct, StStart, StStop, StInsert, StWake, StResumeTest, StRemove,
           StFlag, Goto, Proceed, Return, CallInv, Settled
  <2>3. pc'[t] = "unlink" => pc[TimerThread] \in EntryPlaces
    <3>1. SUFFICES ASSUME pc'[t] = "unlink" PROVE pc[TimerThread] \in EntryPlaces
      OBVIOUS
    <3>2. StResumeTest(t)
      BY <1>3, <3>1 DEF UserAct, StStart, StStop, StInsert, StWake, StResumeTest, StRemove,
           StFlag, Goto, Proceed, Return, CallInv, Settled
    <3>3. op[t] = "timer_start" /\ k.stat[TimerThread] = "SUSPEND"
      BY <3>1, <3>2 DEF StResumeTest, At, Proceed, CallInv, Settled
    <3>4. op[TimerThread] \in {"timer_entry", "none"}
      BY <3>3, UserActs, EntryUser
    <3> QED
      BY <3>3, <3>4, EntrySuspended DEF EntryPlaces
  <2>4. Yields'
    BY <1>0, <2>1 DEF Yields
  <2>5. WakerInv'
    BY <1>0, <2>1, <2>2, <2>3 DEF WakerInv
  <2>6. \A u \in Thread : Readies(u) => Readies(u)'
    BY <1>0, <2>1 DEF Readies
  <2>7. NapTimed'
    BY <1>0, <2>1, <2>6 DEF NapTimed
  <2> QED
    BY <2>4, <2>5, <2>7
<1> QED
  BY <1>1, <1>2, <1>3

(* It forgets no timer: from the insertion on it is about to wake the timer *)
(* thread, until that is awake.                                             *)
LEMMA UserForgets ==
  ASSUME CallInv, CallInv', StTypeOK, StPlaced, Yields, WakerInv, ForgetsNone, TimersUsedBelow,
         NEW t \in Thread, UserAct(t)
  PROVE  ForgetsNone'
<1>0. /\ TimerThread \in Thread /\ t # TimerThread /\ t = k.current
      /\ pc'[TimerThread] = pc[TimerThread] /\ op'[TimerThread] = op[TimerThread]
      /\ \A u \in Thread \ {t} : op'[u] = op[u] /\ pc'[u] = pc[u]
      /\ ~(pc[TimerThread] \in EntryPlaces /\ pc[TimerThread] \notin {"asleep", "check", "nap", "napped"})
      /\ op \in [Thread -> Op \cup {"none"}] /\ pc \in [Thread -> PC]
  BY UserBelow DEF CallInv, Settled
<1>1. SuspendsOnEmpty'
  <2>1. pc'[TimerThread] # "suspend"
    BY <1>0 DEF EntryPlaces
  <2> QED
    BY <2>1 DEF SuspendsOnEmpty
<1>2. missed' = missed
  BY DEF UserAct, StStart, StStop, StInsert, StWake, StResumeTest, StUnlink, StReady,
         StRemove, StFlag, stVars
<1>3. ASSUME ~missed', k'.stat[TimerThread] = "SUSPEND", op'[TimerThread] = "timer_entry",
             TimerThread \notin k'.armed, soft_list' # <<>>
      PROVE  \E u \in Thread : Rouses(u)'
  <2>1. CASE StReady(t)
    <3>1. k'.stat[TimerThread] # "SUSPEND"
      BY <2>1, ReadyActs
    <3> QED
      BY <1>3, <3>1
  <2>2. CASE StUnlink(t)
    <3>1. op'[t] = "timer_start" /\ pc'[t] = "ready"
      BY <2>2, UnlinkEffect
    <3> QED
      BY <3>1 DEF Rouses, Readies
  <2>3. CASE StInsert(t)
    <3>1. op'[t] = "timer_start" /\ pc'[t] = "wake"
      BY <1>0, <2>3 DEF StInsert, At, Proceed
    <3> QED
      BY <3>1 DEF Rouses
  <2>4. CASE StWake(t) \/ StResumeTest(t)
    <3>1. op'[t] = "timer_start" /\ pc'[t] \in {"resume_test", "unlink"}
      <4>1. k.stat[TimerThread] = "SUSPEND"
        BY <1>3, <2>4 DEF StWake, StResumeTest
      <4> QED
        BY <1>0, <2>4, <4>1 DEF StWake, StResumeTest, At, Proceed
    <3> QED
      BY <3>1 DEF Rouses
  <2>5. ASSUME k' = k, ~Rouses(t), soft_list = <<>> => soft_list' = <<>>
        PROVE  \E u \in Thread : Rouses(u)'
    <3>1. PICK u \in Thread : Rouses(u)
      BY <1>0, <1>2, <1>3, <2>5 DEF ForgetsNone, NoTimerForgottenOnceSeen, NoTimerForgotten
    <3>2. u # t
      BY <2>5, <3>1
    <3>3. op'[u] = op[u] /\ pc'[u] = pc[u]
      BY <1>0, <3>2
    <3> QED
      BY <3>1, <3>3 DEF Rouses, Readies
  <2>6. \A s : soft_list = <<>> => Unlinked(s) = <<>>
    <3> SUFFICES ASSUME NEW s, soft_list = <<>> PROVE Unlinked(s) = <<>>
      OBVIOUS
    <3>1. ~\E i \in 1 .. Len(soft_list) : soft_list[i] = s
      OBVIOUS
    <3> QED
      BY <3>1, Zenon DEF Unlinked, RemoveFirst
  <2>7. CASE \E s \in SoftTimers : StStart(t, s) \/ StStop(t, s)
    <3>1. k' = k /\ pc[t] = "user" /\ (soft_list = <<>> => soft_list' = <<>>)
      BY <2>6, <2>7 DEF StStart, StStop, TakeOff, Calls
    <3>2. ~Rouses(t)
      BY <3>1 DEF Rouses, Readies
    <3> QED
      BY <2>5, <3>1, <3>2
  <2>8. CASE StRemove(t) \/ StFlag(t)
    <3>1. k' = k /\ op[t] = "timer_stop" /\ (soft_list = <<>> => soft_list' = <<>>)
      BY <2>6, <2>8 DEF StRemove, StFlag, Delist, ClearFlag, At
    <3>2. ~Rouses(t)
      BY <3>1 DEF Rouses, Readies
    <3> QED
      BY <2>5, <3>1, <3>2
  <2> QED
    BY <2>1, <2>2, <2>3, <2>4, <2>7, <2>8 DEF UserAct
<1> QED
  BY <1>1, <1>3 DEF ForgetsNone, NoTimerForgottenOnceSeen, NoTimerForgotten

-----------------------------------------------------------------------------
(* A handler that starts a timer: the timer thread is awake afterwards.     *)
LEMMA HandlerTimers ==
  ASSUME CallInv, CallInv', StPlaced, TimInv, OneWaker, NEW s \in SoftTimers, StIsrStart(s)
  PROVE  TimInv'
<1>1. /\ "timer_start" \in prog.uses[Isr] /\ k' = HandlerWakes /\ TimerThread \in Thread
      /\ k'.stat[TimerThread] # "SUSPEND" /\ pc \in [Thread -> PC]
  BY IsrStartWakes DEF CallInv, Settled
<1>2. \/ op' = op /\ pc' = pc
      \/ Tears
  BY IsrStartTears
<1>3. op' = op /\ \A u \in Thread : u # TimerThread => pc'[u] = pc[u]
  BY <1>1, <1>2 DEF Tears
<1>4. /\ pc'[TimerThread] \in EntryPlaces => pc[TimerThread] \in EntryPlaces
      /\ pc'[TimerThread] \in {"suspend", "unlink", "ready"} => pc'[TimerThread] = pc[TimerThread]
  BY <1>1, <1>2 DEF Tears, Entry, At, EntryPlaces
<1>5. Yields'
  <2> SUFFICES ASSUME pc'[TimerThread] \in EntryPlaces
               PROVE  \/ BasePrio[k'.current] <= BasePrio[TimerThread]
                      \/ op'[k'.current] = "timer_start" /\ pc'[k'.current] = "sched"
    BY DEF Yields
  <2>1. CASE k.stat[TimerThread] = "SUSPEND"
    <3>1. pc[TimerThread] \in {"asleep", "check", "nap", "napped"}
      BY <1>4, <2>1, EntrySuspended
    <3>2. k.lock = 0
      BY <3>1 DEF CallInv, Settled
    <3>3. Runners
      BY <1>1, <2>1, <3>2, TimerThreadWakes DEF Runners
    <3> QED
      BY <1>1, <3>3, RunnersUrgent
  <2>2. CASE k.stat[TimerThread] # "SUSPEND"
    <3>1. k' = k
      BY <1>1, <2>2 DEF HandlerWakes
    <3>2. \/ BasePrio[k.current] <= BasePrio[TimerThread]
          \/ op[k.current] = "timer_start" /\ pc[k.current] = "sched"
      BY <1>4, <2>2 DEF TimInv, Yields
    <3>3. k.current \in Thread
      BY CurrentAwake
    <3>4. k.current = TimerThread => BasePrio[k.current] <= BasePrio[TimerThread]
      BY <1>1, SystemAssumption DEF StartOrder, Prio
    <3> QED
      BY <1>3, <3>1, <3>2, <3>3, <3>4
  <2> QED
    BY <2>1, <2>2
<1>6. ASSUME NEW u \in Thread, pc'[u] \in {"unlink", "ready"} PROVE FALSE
  <2>1. pc[u] \in {"unlink", "ready"}
    BY <1>3, <1>4, <1>6
  <2>2. u = Isr
    BY <1>1, <2>1, OneStarts
  <2> QED
    BY <2>2, SystemAssumption
<1>7. SuspendsOnEmpty'
  <2>1. missed' = (missed \/ pc[TimerThread] = "suspend")
    BY DEF StIsrStart
  <2> QED
    BY <1>4, <2>1 DEF SuspendsOnEmpty
<1> QED
  BY <1>1, <1>5, <1>6, <1>7
     DEF TimInv, WakerInv, NapTimed, ForgetsNone, NoTimerForgottenOnceSeen, NoTimerForgotten

-----------------------------------------------------------------------------
(* A step of the timer thread: it runs, and falls asleep with a timer or    *)
(* when it has seen an empty list.                                          *)
LEMMA ThreadActs ==
  ASSUME CallInv, Enter \/ EntryAct, ~SleepSchedule, ~NapSchedule
  PROVE  /\ TimerThread = k.current /\ TimerThread \in Thread /\ op'[TimerThread] = "timer_entry"
         /\ \A u \in Thread \ {TimerThread} : op'[u] = op[u] /\ pc'[u] = pc[u]
         /\ pc'[TimerThread] \in EntryPlaces /\ pc'[TimerThread] # "napped"
         /\ pc'[TimerThread] = "suspend" =>
              NextTimeout /\ missed' = (soft_list # <<>>) /\ soft_list' = soft_list
         /\ pc'[TimerThread] = "asleep" => FallAsleep
         /\ pc'[TimerThread] = "nap" => Nap
         /\ pc'[TimerThread] = "check" => k'.stat[TimerThread] # "SUSPEND"
<1>0. TimerThread \in Thread /\ op \in [Thread -> Op \cup {"none"}] /\ pc \in [Thread -> PC]
  BY Kinds DEF CallInv, Settled
<1>1. CASE Enter
  <2>1. /\ TimerThread = k.current /\ op' = [op EXCEPT ![TimerThread] = "timer_entry"]
        /\ pc' = [pc EXCEPT ![TimerThread] = "next"]
    BY <1>1 DEF Enter, Calls, Goto
  <2> QED
    BY <1>0, <2>1 DEF EntryPlaces
<1>2. ASSUME EntryAct
      PROVE  /\ TimerThread = k.current /\ op' = op /\ op[TimerThread] = "timer_entry"
             /\ \E a \in EntryPlaces :
                  /\ pc' = [pc EXCEPT ![TimerThread] = a] /\ a # "napped"
                  /\ a = "suspend" =>
                       NextTimeout /\ missed' = (soft_list # <<>>) /\ soft_list' = soft_list
                  /\ a = "asleep" => FallAsleep
                  /\ a = "nap" => Nap
                  /\ a = "check" => NextTimeout
  <2>1. CASE NextTimeout
    <3>1. PICK a \in {"suspend", "delay", "check"} :
            EntryGoes(a) /\ missed' = (a = "suspend" /\ soft_list # <<>>)
      BY <2>1 DEF NextTimeout
    <3>2. Entry("next") /\ soft_list' = soft_list
      BY <2>1 DEF NextTimeout
    <3> QED
      BY <2>1, <3>1, <3>2 DEF Entry, EntryGoes, At, Proceed, EntryPlaces
  <2>2. CASE FallAsleep \/ Nap
    BY <2>2 DEF FallAsleep, Nap, Entry, EntryGoes, At, Proceed, EntryPlaces
  <2>3. CASE \/ Check \/ Expire \/ CallFunction \/ CheckEnd
             \/ FuncInsert \/ FuncRemove \/ FuncFlag \/ NapReturn
             \/ FuncReturn \/ Restart \/ RestartInsert \/ Expired \/ Mark
             \/ \E s \in SoftTimers : FuncStart(s) \/ FuncStop(s)
    <3>1. PICK a \in {"loop", "expired", "func", "next", "f_insert", "f_remove", "f_flag",
                      "after", "restart", "mark"},
               b \in {"check", "loop", "expired", "func", "f_insert", "f_remove", "f_flag",
                      "napped", "after", "restart", "mark"} : Entry(b) /\ EntryGoes(a)
      <4>1. CASE Check \/ Expire \/ CallFunction \/ CheckEnd
        BY <4>1 DEF Check, Expire, CallFunction, CheckEnd
      <4>2. CASE FuncInsert \/ FuncRemove \/ FuncFlag \/ NapReturn
        BY <4>2 DEF FuncInsert, FuncRemove, FuncFlag, NapReturn
      <4>3. CASE FuncReturn \/ Restart \/ RestartInsert \/ Expired \/ Mark
        BY <4>3 DEF FuncReturn, Restart, RestartInsert, Expired, Mark
      <4>4. CASE \E s \in SoftTimers : FuncStart(s) \/ FuncStop(s)
        BY <4>4 DEF FuncStart, FuncStop
      <4> QED
        BY <2>3, <4>1, <4>2, <4>3, <4>4
    <3> QED
      BY <3>1 DEF Entry, EntryGoes, At, Proceed, EntryPlaces
  <2> QED
    BY <1>2, <2>1, <2>2, <2>3 DEF EntryAct
<1>3. NextTimeout => k' = k /\ k.stat[TimerThread] # "SUSPEND"
  BY LockAt DEF NextTimeout
<1>4. CASE EntryAct
  <2>1. TimerThread = k.current /\ op' = op /\ op[TimerThread] = "timer_entry"
    BY <1>2, <1>4
  <2>2. PICK a \in EntryPlaces :
          /\ pc' = [pc EXCEPT ![TimerThread] = a] /\ a # "napped"
          /\ a = "suspend" =>
               NextTimeout /\ missed' = (soft_list # <<>>) /\ soft_list' = soft_list
          /\ a = "asleep" => FallAsleep
          /\ a = "nap" => Nap
          /\ a = "check" => NextTimeout
    BY <1>2, <1>4
  <2>3. pc'[TimerThread] = a /\ \A u \in Thread \ {TimerThread} : pc'[u] = pc[u]
    BY <1>0, <2>2
  <2>4. NextTimeout => k'.stat[TimerThread] # "SUSPEND"
    BY <1>3
  <2> QED
    BY <1>0, <2>1, <2>2, <2>3, <2>4
<1> QED
  BY <1>1, <1>4

LEMMA ThreadTimers ==
  ASSUME CallInv, CallInv', StTypeOK, StPlaced, TimInv, k'.current = k.current \/ Runners,
         Enter \/ EntryAct, ~SleepSchedule, ~NapSchedule
  PROVE  TimInv'
<1>0. /\ TimerThread = k.current /\ TimerThread \in Thread /\ op'[TimerThread] = "timer_entry"
      /\ \A u \in Thread \ {TimerThread} : op'[u] = op[u] /\ pc'[u] = pc[u]
      /\ pc'[TimerThread] \in EntryPlaces /\ pc'[TimerThread] # "napped"
      /\ pc'[TimerThread] = "suspend" =>
           NextTimeout /\ missed' = (soft_list # <<>>) /\ soft_list' = soft_list
      /\ pc'[TimerThread] = "asleep" => FallAsleep
      /\ pc'[TimerThread] = "nap" => Nap
      /\ pc'[TimerThread] = "check" => k'.stat[TimerThread] # "SUSPEND"
  BY ThreadActs
<1>1. Yields'
  <2>1. BasePrio[TimerThread] <= BasePrio[TimerThread]
    BY <1>0, SystemAssumption DEF StartOrder, Prio
  <2> QED
    BY <1>0, <2>1, RunnersUrgent DEF Yields
<1>2. WakerInv'
  <2>1. ASSUME NEW u \in Thread, pc'[u] = "ready" PROVE FALSE
    BY <1>0, <2>1 DEF TimInv, WakerInv, EntryPlaces
  <2> QED
    BY <1>0, <2>1 DEF WakerInv
<1>3. FallAsleep => \/ TimerThread \in k'.armed
                    \/ pc[TimerThread] = "suspend" /\ soft_list' = soft_list /\ missed' = missed
  <2>1. CASE Entry("delay") /\ k' = Sleep(k, TimerThread)
    BY <2>1, LockAt, SleepSleeps
  <2>2. CASE Entry("suspend") /\ FallAsleep
    BY <2>2 DEF FallAsleep, Entry, At, stVars
  <2> QED
    BY <2>1, <2>2 DEF FallAsleep
<1>4. Nap => TimerThread \in k'.armed
  <2>1. Nap => Entry("func") /\ k' = Sleep(k, TimerThread)
    BY DEF Nap
  <2> QED
    BY <2>1, LockAt, SleepSleeps
<1>5. NapTimed'
  BY <1>0, <1>4 DEF NapTimed
<1>6. SuspendsOnEmpty'
  BY <1>0 DEF SuspendsOnEmpty
<1>7. ASSUME ~missed', k'.stat[TimerThread] = "SUSPEND", TimerThread \notin k'.armed,
             soft_list' # <<>>
      PROVE  FALSE
  <2>1. pc'[TimerThread] \in {"asleep", "nap"}
    BY <1>0, <1>7 DEF CallInv, Settled, WaitsFor, WaitOp, HeapOp
  <2>2. pc[TimerThread] = "suspend" /\ soft_list' = soft_list /\ missed' = missed
    BY <1>0, <1>3, <1>4, <1>7, <2>1
  <2> QED
    BY <1>7, <2>2 DEF TimInv, ForgetsNone, SuspendsOnEmpty
<1> QED
  BY <1>1, <1>2, <1>5, <1>6, <1>7
     DEF TimInv, ForgetsNone, NoTimerForgottenOnceSeen, NoTimerForgotten

LEMMA StTimers ==
  ASSUME CallInv, StTypeOK, StPlaced, TimInv, TimersUsedBelow, OneWaker, StNext
  PROVE  TimInv'
<1>0. StStep
  BY StMoves DEF TimInv
<1>1. CallInv' /\ (k'.current = k.current \/ Runners)
  BY <1>0 DEF StStep, SameWaits, Effect
<1>2. CASE SleepSchedule \/ NapSchedule
  <2>1. SameWaits /\ UNCHANGED stVars
    BY <1>2, SleepSwitches DEF SleepSchedule, NapSchedule
  <2> QED
    BY <2>1, AsideTimers DEF Aside
<1>3. CASE (Enter \/ EntryAct) /\ ~SleepSchedule /\ ~NapSchedule
  BY <1>1, <1>3, ThreadTimers
<1>4. CASE \E t \in Thread : UserAct(t)
  <2>1. PICK t \in Thread : UserAct(t)
    BY <1>4
  <2> QED
    BY <1>1, <2>1, UserWaker, UserForgets DEF TimInv
<1>5. CASE \E s \in SoftTimers : StIsrStart(s)
  BY <1>1, <1>5, HandlerTimers
<1> QED
  BY <1>2, <1>3, <1>4, <1>5 DEF StNext, EntryAct, UserAct

-----------------------------------------------------------------------------
(* All together.  Counts are numbers and everything is of its type, ... *)
AppInv ==
  CallInv /\ MqInv /\ ItemInv /\ HpInv /\ EvTypeOK /\ StTypeOK /\ StPlaced
  /\ TimInv

(* ... and nobody waits for what is there. *)
WakeInv ==
  MqNoLostWakeUp /\ MbNoLostWakeUp /\ MpNoLostWakeUp /\ MpCount /\ HpSemInv /\ EvInv

(* What a step of the operations O does to the others *)
LeavesBut(O) ==
  /\ CallInv' /\ ClearedNow
  /\ \A o \in {"mq_recv", "mb_recv", "mb_send", "mp_alloc", "event_recv"} \ O : Leaves(o)

LEMMA SameLeaves ==
  ASSUME SameWaits
  PROVE  LeavesBut({}) /\ Spares /\ Aside
<1>1. ClearedNow
  BY SixLists, NobodyReceives DEF SameWaits
<1> QED
  BY <1>1 DEF SameWaits, LeavesBut, Leaves, Spares, Aside

LEMMA MovesLeavesBut ==
  ASSUME CallInv, NEW t, NEW W, NEW O, Moves(t, W, O)
  PROVE  LeavesBut(O) /\ Aside
<1>1. ClearedNow
  BY MovesReceive, NobodyReceives
<1>2. \A o \in {"mq_recv", "mb_recv", "mb_send", "mp_alloc", "event_recv"} \ O : Leaves(o)
  BY MovesLeaves
<1>3. CallInv' /\ Effect(t, W)
  BY DEF Moves, Effect
<1>4. t \in Thread => pc[t] \notin StPlaces /\ pc'[t] \notin StPlaces
  BY DEF Moves, Plain, Special, StPlaces
<1>5. \A u \in W : op[u] = "timer_entry" => u \in k.armed /\ Runners
  BY DEF Moves, Stirred
<1> QED
  BY <1>1, <1>2, <1>3, <1>4, <1>5 DEF LeavesBut, Aside

LEMMA SysLeaves ==
  ASSUME CallInv, SysNext
  PROVE  LeavesBut({}) /\ Spares /\ Aside
<1>1. CASE SameWaits
  BY <1>1, SameLeaves
<1>2. ASSUME NEW t, NEW W, Moves(t, W, {"delay"}) PROVE LeavesBut({}) /\ Spares /\ Aside
  <2>1. LeavesBut({"delay"}) /\ Aside
    BY <1>2, MovesLeavesBut
  <2>2. {"delay"} \cap HeapOp = {}
    BY DEF HeapOp
  <2> QED
    BY <1>2, <2>1, <2>2, MovesSpares DEF LeavesBut
<1> QED
  BY <1>1, <1>2, SysMoves

LEMMA StutterLeaves ==
  ASSUME CallInv, UNCHANGED vars
  PROVE  LeavesBut({}) /\ Spares /\ Aside
<1>1. CallInv' /\ UNCHANGED <<k, op, pc, prog>>
  BY DEF vars, sysVars, CallInv, Used
<1>2. SameWaits
  BY <1>1 DEF SameWaits
<1> QED
  BY <1>2, SameLeaves

(* No operation of the objects is one of the heap. *)
LEMMA NotTheHeap ==
  /\ MqOp \cap HeapOp = {} /\ MbOp \cap HeapOp = {} /\ MpOp \cap HeapOp = {}
  /\ EvOp \cap HeapOp = {}
BY DEF MqOp, MbOp, MpOp, EvOp, HeapOp

LEMMA MqLeaves ==
  ASSUME CallInv, entry \in Nat, MqNext
  PROVE  LeavesBut(MqOp) /\ Spares /\ Aside
<1>1. PICK t, W : Moves(t, W, MqOp)
  BY MqMoves DEF MqStep
<1> QED
  BY <1>1, MovesLeavesBut, MovesSpares, NotTheHeap

LEMMA MbLeaves ==
  ASSUME CallInv, mb_entry \in 0 .. MbSize, MbNext
  PROVE  LeavesBut(MbOp) /\ Spares /\ Aside
<1>1. PICK t, W : Moves(t, W, MbOp)
  BY MbMoves DEF MbStep
<1> QED
  BY <1>1, MovesLeavesBut, MovesSpares, NotTheHeap

LEMMA MpLeaves ==
  ASSUME CallInv, MpCount, block_free_count \in Nat, MpNext
  PROVE  LeavesBut(MpOp) /\ Spares /\ Aside
<1>1. PICK t, W : Moves(t, W, MpOp)
  BY MpMoves DEF MpStep
<1> QED
  BY <1>1, MovesLeavesBut, MovesSpares, NotTheHeap

LEMMA EvLeaves ==
  ASSUME CallInv, EvTypeOK, EvInv, EvNext
  PROVE  LeavesBut(EvOp) /\ Spares /\ Aside
<1>1. PICK t, W : Shifts(t, W, EvOp)
  BY EvMoves DEF EvStep
<1>2. Effect(t, W) /\ Within(t, EvOp) /\ CallInv' /\ ClearedNow
  BY <1>1, EvMoves DEF EvStep, Shifts, Effect
<1>3. t \in Thread => /\ pc[t] \notin HeapPlaces /\ pc'[t] \notin HeapPlaces
                      /\ pc[t] \notin StPlaces /\ pc'[t] \notin StPlaces
  BY <1>1 DEF Shifts, Plain, Special, HeapPlaces, StPlaces
<1>6. \A u \in W : op[u] = "timer_entry" => u \in k.armed /\ Runners
  BY <1>1 DEF Shifts
<1>4. LeavesBut(EvOp)
  BY <1>2 DEF LeavesBut, Leaves
<1>5. Spares
  BY <1>1, <1>2, <1>3, NotTheHeap DEF Spares, Shifts
<1> QED
  BY <1>2, <1>3, <1>4, <1>5, <1>6 DEF Aside

LEMMA StLeaves ==
  ASSUME CallInv, StPlaced, Yields, WakerInv, TimersUsedBelow, StNext
  PROVE  LeavesBut({}) /\ Spares
<1>1. StStep
  BY StMoves
<1>2. CASE SameWaits
  BY <1>2, SameLeaves
<1>3. ASSUME NEW t, NEW W, Effect(t, W), \A u \in W : OtherWait(u), Within(t, StOp)
      PROVE  CallInv' /\ ClearedNow
  <2>1. CallInv' /\ EvWaiters \in Queue
    BY <1>3, SixLists DEF Effect
  <2>2. ASSUME NEW u \in On(k, EvWaiters) PROVE u \in On(k', EvWaiters) \/ k'.err[u] # "EOK"
    <3>1. op[u] = "event_recv" /\ u # t
      BY <1>3, <2>1, <2>2, EvQueue, ListWaiters DEF Effect
    <3>2. CASE u \in W
      BY <1>3, <3>1, <3>2 DEF OtherWait
    <3>3. CASE u \notin W
      BY <1>3, <2>1, <3>1, <3>3 DEF Effect
    <3> QED
      BY <3>2, <3>3
  <2> QED
    BY <2>1, <2>2, NobodyReceives
<1>4. CallInv' /\ ClearedNow
  BY <1>1, <1>2, <1>3 DEF StStep, LeavesBut
<1>5. {"mq_recv", "mb_recv", "mb_send", "mp_alloc", "event_recv"} \subseteq WaitOp
  BY DEF WaitOp
<1> QED
  BY <1>1, <1>4, <1>5, StSpares DEF LeavesBut

LEMMA HpLeaves ==
  ASSUME CallInv, HpSemInv, HpNext
  PROVE  LeavesBut({}) /\ Aside
<1>1. PICK t \in Thread : \E W : /\ Effect(t, W) /\ Within(t, HeapOp)
                                 /\ pc[t] \notin StPlaces /\ pc'[t] \notin StPlaces
                                 /\ \A u \in W : op[u] \in HeapOp
  BY HpMoves DEF HpStep
<1>2. PICK W : /\ Effect(t, W) /\ Within(t, HeapOp)
               /\ pc[t] \notin StPlaces /\ pc'[t] \notin StPlaces
               /\ \A u \in W : op[u] \in HeapOp
  BY <1>1
<1>3. CallInv' /\ EvWaiters \in Queue /\ "event_recv" \notin HeapOp
  BY <1>2, SixLists DEF Effect, HeapOp
<1>4. ASSUME NEW u \in On(k, EvWaiters) PROVE u \in On(k', EvWaiters)
  <2>1. op[u] = "event_recv" /\ u # t
    BY <1>2, <1>3, EvQueue, ListWaiters DEF Effect
  <2> QED
    BY <1>2, <1>3, <2>1 DEF Effect
<1>5. ClearedNow
  BY <1>4, NobodyReceives
<1>6. \A o \in {"mq_recv", "mb_recv", "mb_send", "mp_alloc", "event_recv"} : o \notin HeapOp
  BY DEF HeapOp
<1>7. \A u \in W : op[u] # "timer_entry"
  BY <1>2 DEF HeapOp
<1> QED
  BY <1>2, <1>3, <1>5, <1>6, <1>7 DEF LeavesBut, Leaves, Aside

LEMMA ProduceLeaves ==
  ASSUME CallInv, mb_entry \in 0 .. MbSize, IsrProduce
  PROVE  LeavesBut({}) /\ Spares /\ Aside
<1>1. PICK W : Moves(Isr, W, {})
  BY ProduceStep
<1> QED
  BY <1>1, MovesLeavesBut, MovesSpares

(* The invariant of the objects in this state *)
LEMMA Counts ==
  ASSUME AppInv
  PROVE  entry \in Nat /\ mb_entry \in 0 .. MbSize /\ block_free_count \in Nat
<1>1. entry \in Nat
  BY DEF AppInv, MqInv, MqTypeOK
<1>2. mb_entry \in 0 .. MbSize
  BY DEF AppInv, ItemInv, MbTypeOK
<1>3. block_list \in Seq(Item) /\ block_free_count = Len(block_list)
  BY DEF AppInv, ItemInv, ItemsConserved
<1> QED
  BY <1>1, <1>2, <1>3, LenProperties

LEMMA ObjectInvNext ==
  ASSUME AppInv, [Next]_vars
  PROVE  MqInv' /\ ItemInv' /\ HpInv'
BY MqInvNext, ItemStep, HpInvNext DEF AppInv, MqInv

(* The objects that a step leaves alone *)
LEMMA MqStays ==
  ASSUME AppInv, WakeInv, NEW O, LeavesBut(O), "mq_recv" \notin O, UNCHANGED mqVars
  PROVE  MqNoLostWakeUp'
BY Counts, MqLeft DEF AppInv, WakeInv, LeavesBut

LEMMA MbStays ==
  ASSUME AppInv, WakeInv, NEW O, LeavesBut(O), "mb_recv" \notin O, "mb_send" \notin O,
         UNCHANGED mbVars
  PROVE  MbNoLostWakeUp'
BY Counts, MbLeft DEF AppInv, WakeInv, LeavesBut

LEMMA MpStays ==
  ASSUME AppInv, WakeInv, NEW O, LeavesBut(O), "mp_alloc" \notin O, UNCHANGED mpVars
  PROVE  MpNoLostWakeUp' /\ MpCount'
BY Counts, MpLeft DEF AppInv, WakeInv, LeavesBut

LEMMA EvStays ==
  ASSUME AppInv, WakeInv, NEW O, LeavesBut(O), "event_recv" \notin O, UNCHANGED evVars
  PROVE  EvInv' /\ EvTypeOK'
BY EvLeft DEF AppInv, WakeInv, LeavesBut

LEMMA HpStays ==
  ASSUME AppInv, WakeInv, Spares, UNCHANGED hpVars
  PROVE  HpSemInv'
BY HpLeft DEF AppInv, WakeInv, hpVars

LEMMA StStays ==
  ASSUME AppInv, Aside, UNCHANGED stVars
  PROVE  StTypeOK' /\ StPlaced' /\ TimInv'
<1>1. UNCHANGED <<soft_list, activated, on, called, node, missed>>
  BY DEF stVars
<1>2. StTypeOK'
  BY <1>1 DEF AppInv, StTypeOK
<1>3. StPlaced'
  BY <1>1, PlacedAside DEF AppInv
<1>4. TimInv'
  BY AsideTimers DEF AppInv
<1> QED
  BY <1>2, <1>3, <1>4

(* What is left to show of a step *)
StepOK == /\ CallInv' /\ EvTypeOK' /\ StTypeOK' /\ StPlaced' /\ TimInv' /\ WakeInv'
          /\ ClearedNow

LEMMA OpsApart ==
  /\ MqOp \cap {"mb_recv", "mb_send", "mp_alloc", "event_recv"} = {}
  /\ MbOp \cap {"mq_recv", "mp_alloc", "event_recv"} = {}
  /\ MpOp \cap {"mq_recv", "mb_recv", "mb_send", "event_recv"} = {}
  /\ EvOp \cap {"mq_recv", "mb_recv", "mb_send", "mp_alloc"} = {}
BY DEF MqOp, MbOp, MpOp, EvOp

LEMMA AsideOK ==
  ASSUME AppInv, WakeInv, LeavesBut({}), Spares, Aside,
         UNCHANGED <<mqVars, mbVars, mpVars, evVars, stVars, hpVars>>
  PROVE  StepOK
<1>1. CallInv' /\ ClearedNow
  BY DEF LeavesBut
<1>2. MqNoLostWakeUp' /\ MbNoLostWakeUp' /\ MpNoLostWakeUp' /\ MpCount'
  BY MqStays, MbStays, MpStays
<1>3. EvInv' /\ EvTypeOK' /\ HpSemInv' /\ StTypeOK' /\ StPlaced' /\ TimInv'
  BY EvStays, HpStays, StStays
<1> QED
  BY <1>1, <1>2, <1>3 DEF StepOK, WakeInv

LEMMA MqOK ==
  ASSUME AppInv, WakeInv, [Next]_vars, MqNext,
         UNCHANGED <<mbVars, mpVars, evVars, stVars, hpVars>>
  PROVE  StepOK
<1>0. CallInv /\ entry \in Nat /\ entry' \in Nat /\ MqNoLostWakeUp
  BY Counts, ObjectInvNext DEF AppInv, WakeInv, MqInv, MqTypeOK
<1>1. LeavesBut(MqOp) /\ Spares /\ Aside
  BY <1>0, MqLeaves
<1>2. CallInv' /\ ClearedNow
  BY <1>1 DEF LeavesBut
<1>3. MqNoLostWakeUp'
  BY <1>0, MqSupplied
<1>4. MbNoLostWakeUp' /\ MpNoLostWakeUp' /\ MpCount'
  BY <1>1, OpsApart, MbStays, MpStays
<1>5. EvInv' /\ EvTypeOK' /\ HpSemInv' /\ StTypeOK' /\ StPlaced' /\ TimInv'
  BY <1>1, OpsApart, EvStays, HpStays, StStays
<1> QED
  BY <1>2, <1>3, <1>4, <1>5 DEF StepOK, WakeInv

LEMMA MbOK ==
  ASSUME AppInv, WakeInv, [Next]_vars, MbNext,
         UNCHANGED <<mqVars, mpVars, evVars, stVars, hpVars>>
  PROVE  StepOK
<1>0. CallInv /\ mb_entry \in 0 .. MbSize /\ mb_entry' \in 0 .. MbSize /\ MbNoLostWakeUp
  BY Counts, ObjectInvNext DEF AppInv, WakeInv, ItemInv, MbTypeOK
<1>1. LeavesBut(MbOp) /\ Spares /\ Aside
  BY <1>0, MbLeaves
<1>2. CallInv' /\ ClearedNow
  BY <1>1 DEF LeavesBut
<1>3. PICK t, W : Moves(t, W, MbOp) /\ MbProvides(t)
  BY <1>0, MbMoves DEF MbStep
<1>4. MbNoLostWakeUp'
  BY <1>0, <1>3, MbSupplied DEF Moves
<1>5. MqNoLostWakeUp' /\ MpNoLostWakeUp' /\ MpCount'
  BY <1>1, OpsApart, MqStays, MpStays
<1>6. EvInv' /\ EvTypeOK' /\ HpSemInv' /\ StTypeOK' /\ StPlaced' /\ TimInv'
  BY <1>1, OpsApart, EvStays, HpStays, StStays
<1> QED
  BY <1>2, <1>4, <1>5, <1>6 DEF StepOK, WakeInv

LEMMA NextCounts ==
  ASSUME AppInv, [Next]_vars
  PROVE  block_free_count' \in Nat
<1>1. block_list' \in Seq(Item) /\ block_free_count' = Len(block_list')
  BY ObjectInvNext DEF ItemInv, ItemsConserved
<1> QED
  BY <1>1, LenProperties

LEMMA MpOK ==
  ASSUME AppInv, WakeInv, [Next]_vars, MpNext,
         UNCHANGED <<mqVars, mbVars, evVars, stVars, hpVars>>
  PROVE  StepOK
<1>0. CallInv /\ block_free_count \in Nat /\ block_free_count' \in Nat /\ MpNoLostWakeUp /\ MpCount
  BY Counts, NextCounts DEF AppInv, WakeInv
<1>1. LeavesBut(MpOp) /\ Spares /\ Aside
  BY <1>0, MpLeaves
<1>2. CallInv' /\ ClearedNow
  BY <1>1 DEF LeavesBut
<1>3. PICK t, W : /\ Moves(t, W, MpOp) /\ MpCount'
                  /\ Provides(t, "mp_alloc", block_free_count, block_free_count')
  BY <1>0, MpMoves DEF MpStep
<1>4. MpNoLostWakeUp'
  BY <1>0, <1>3, MpSupplied DEF Moves
<1>5. MqNoLostWakeUp' /\ MbNoLostWakeUp'
  BY <1>1, OpsApart, MqStays, MbStays
<1>6. EvInv' /\ EvTypeOK' /\ HpSemInv' /\ StTypeOK' /\ StPlaced' /\ TimInv'
  BY <1>1, OpsApart, EvStays, HpStays, StStays
<1> QED
  BY <1>2, <1>3, <1>4, <1>5, <1>6 DEF StepOK, WakeInv

LEMMA EvOK ==
  ASSUME AppInv, WakeInv, EvNext, UNCHANGED <<mqVars, mbVars, mpVars, stVars, hpVars>>
  PROVE  StepOK
<1>0. CallInv /\ EvTypeOK /\ EvInv
  BY DEF AppInv, WakeInv
<1>1. LeavesBut(EvOp) /\ Spares /\ Aside
  BY <1>0, EvLeaves
<1>2. CallInv' /\ ClearedNow
  BY <1>1 DEF LeavesBut
<1>3. EvInv' /\ EvTypeOK'
  BY <1>0, EvMoves, EvTypes DEF EvStep
<1>4. MqNoLostWakeUp' /\ MbNoLostWakeUp' /\ MpNoLostWakeUp' /\ MpCount'
  BY <1>1, OpsApart, MqStays, MbStays, MpStays
<1>5. HpSemInv' /\ StTypeOK' /\ StPlaced' /\ TimInv'
  BY <1>1, HpStays, StStays
<1> QED
  BY <1>2, <1>3, <1>4, <1>5 DEF StepOK, WakeInv

LEMMA StOK ==
  ASSUME AppInv, WakeInv, TimersUsedBelow, OneWaker, StNext,
         UNCHANGED <<mqVars, mbVars, mpVars, evVars, hpVars>>
  PROVE  StepOK
<1>1. LeavesBut({}) /\ Spares
  BY StLeaves DEF AppInv, TimInv
<1>2. CallInv' /\ ClearedNow
  BY <1>1 DEF LeavesBut
<1>3. StTypeOK' /\ StPlaced' /\ TimInv'
  BY StTypes, StPlacedNext, StTimers DEF AppInv
<1>4. MqNoLostWakeUp' /\ MbNoLostWakeUp' /\ MpNoLostWakeUp' /\ MpCount'
  BY <1>1, MqStays, MbStays, MpStays
<1>5. EvInv' /\ EvTypeOK' /\ HpSemInv'
  BY <1>1, EvStays, HpStays
<1> QED
  BY <1>2, <1>3, <1>4, <1>5 DEF StepOK, WakeInv

LEMMA HpOK ==
  ASSUME AppInv, WakeInv, HpNext, UNCHANGED <<mqVars, mbVars, mpVars, evVars, stVars>>
  PROVE  StepOK
<1>0. CallInv /\ HpSemInv
  BY DEF AppInv, WakeInv
<1>1. LeavesBut({}) /\ Aside
  BY <1>0, HpLeaves
<1>2. CallInv' /\ ClearedNow
  BY <1>1 DEF LeavesBut
<1>3. HpSemInv'
  BY <1>0, HpMoves DEF HpStep
<1>4. MqNoLostWakeUp' /\ MbNoLostWakeUp' /\ MpNoLostWakeUp' /\ MpCount'
  BY <1>1, MqStays, MbStays, MpStays
<1>5. EvInv' /\ EvTypeOK' /\ StTypeOK' /\ StPlaced' /\ TimInv'
  BY <1>1, EvStays, StStays
<1> QED
  BY <1>2, <1>3, <1>4, <1>5 DEF StepOK, WakeInv

LEMMA ProduceOK ==
  ASSUME AppInv, WakeInv, [Next]_vars, IsrProduce, UNCHANGED <<mqVars, evVars, stVars, hpVars>>
  PROVE  StepOK
<1>0. CallInv /\ mb_entry \in 0 .. MbSize /\ mb_entry' \in 0 .. MbSize
      /\ block_free_count \in Nat /\ block_free_count' \in Nat
      /\ MbNoLostWakeUp /\ MpNoLostWakeUp /\ MpCount
  BY Counts, NextCounts, ObjectInvNext DEF AppInv, WakeInv, ItemInv, MbTypeOK
<1>1. LeavesBut({}) /\ Spares /\ Aside
  BY <1>0, ProduceLeaves
<1>2. CallInv' /\ ClearedNow
  BY <1>1 DEF LeavesBut
<1>3. PICK W : Moves(Isr, W, {})
  BY <1>0, ProduceStep
<1>4. Effect(Isr, W) /\ MbProvides(Isr) /\ Isr \notin Thread
  BY <1>0, <1>3, ProduceStep, SystemAssumption DEF Moves
<1>5. MbNoLostWakeUp'
  BY <1>0, <1>4, MbSupplied
<1>6. block_free_count' + 1 <= block_free_count /\ suspend_thread_count' = suspend_thread_count
  BY <1>0 DEF IsrProduce, TakeBlock
<1>7. Provides(Isr, "mp_alloc", block_free_count, block_free_count')
  BY <1>4, <1>6 DEF Provides, Supplies
<1>8. MpNoLostWakeUp'
  BY <1>0, <1>4, <1>7, MpSupplied
<1>9. On(k', MpWaiters) \subseteq On(k, MpWaiters)
  BY <1>1, MpQueue, LeavesWaiters DEF LeavesBut
<1>10. MpCount'
  BY <1>0, <1>6, <1>9, MpCountLeft
<1>11. MqNoLostWakeUp' /\ EvInv' /\ EvTypeOK' /\ HpSemInv' /\ StTypeOK' /\ StPlaced' /\ TimInv'
  BY <1>1, MqStays, EvStays, HpStays, StStays
<1> QED
  BY <1>2, <1>5, <1>8, <1>10, <1>11 DEF StepOK, WakeInv

LEMMA NextOK ==
  ASSUME AppInv, WakeInv, TimersUsedBelow, OneWaker, [Next]_vars
  PROVE  AppInv' /\ WakeInv' /\ ClearedNow
<1> SUFFICES StepOK
  BY ObjectInvNext DEF StepOK, AppInv
<1>0. CallInv
  BY DEF AppInv
<1>1. CASE SysNext /\ UNCHANGED <<mqVars, mbVars, mpVars, evVars, stVars, hpVars>>
  BY <1>0, <1>1, SysLeaves, AsideOK
<1>2. CASE UNCHANGED vars
  <2>1. UNCHANGED <<mqVars, mbVars, mpVars, evVars, stVars, hpVars>>
    BY <1>2 DEF vars
  <2> QED
    BY <1>0, <1>2, <2>1, StutterLeaves, AsideOK
<1>3. CASE MqNext /\ UNCHANGED <<mbVars, mpVars, evVars, stVars, hpVars>>
  BY <1>3, MqOK
<1>4. CASE MbNext /\ UNCHANGED <<mqVars, mpVars, evVars, stVars, hpVars>>
  BY <1>4, MbOK
<1>5. CASE MpNext /\ UNCHANGED <<mqVars, mbVars, evVars, stVars, hpVars>>
  BY <1>5, MpOK
<1>6. CASE EvNext /\ UNCHANGED <<mqVars, mbVars, mpVars, stVars, hpVars>>
  BY <1>6, EvOK
<1>7. CASE StNext /\ UNCHANGED <<mqVars, mbVars, mpVars, evVars, hpVars>>
  BY <1>7, StOK
<1>8. CASE HpNext /\ UNCHANGED <<mqVars, mbVars, mpVars, evVars, stVars>>
  BY <1>8, HpOK
<1>9. CASE IsrProduce /\ UNCHANGED <<mqVars, evVars, stVars, hpVars>>
  BY <1>9, ProduceOK
<1> QED
  BY <1>1, <1>2, <1>3, <1>4, <1>5, <1>6, <1>7, <1>8, <1>9 DEF Next

(* The state in which the scheduler starts *)
LEMMA InitSettled == Init => CallInv
<1> SUFFICES ASSUME Init PROVE CallInv
  OBVIOUS
<1>1. /\ k = StartedKernel(First, BasePrio, ReadyOrder)
      /\ prog \in Programs /\ alive = Object
      /\ op = [t \in Thread |-> "none"] /\ pc = [t \in Thread |-> "user"]
      /\ timed = [t \in Thread |-> FALSE]
  BY DEF Init, SysInit
<1>2. /\ KernelOK(k) /\ \A q \in Queue : On(k, q) = {}
      /\ \A t \in Thread : k.stat[t] \in {"READY", "RUNNING"}
      /\ k.lock = 0
  BY <1>1, StartedOK, SystemAssumption
<1>3. k.prio = BasePrio /\ k.armed = {}
  BY <1>1 DEF StartedKernel
<1>4. k.current \in Thread
  BY <1>2 DEF KernelOK, KernelState
<1>5. /\ op \in [Thread -> Op \cup {"none"}] /\ pc \in [Thread -> PC]
      /\ timed \in [Thread -> BOOLEAN]
      /\ \A t \in Thread : op[t] = "none" /\ pc[t] = "user"
  BY <1>1 DEF PC
<1>6. Settled(k, op, pc)
  BY <1>2, <1>3, <1>4, <1>5, Kinds DEF Settled, Living
<1> QED
  BY <1>1, <1>5, <1>6 DEF CallInv, Used

LEMMA InitEmpty ==
  ASSUME Init
  PROVE  /\ \A q \in Queue : k.list[q] = <<>> /\ On(k, q) = {}
         /\ \A t \in Thread : op[t] = "none" /\ pc[t] = "user"
<1>1. k = StartedKernel(First, BasePrio, ReadyOrder)
  BY DEF Init, SysInit
<1>2. \A q \in Queue : On(k, q) = {}
  BY <1>1, StartedOK, SystemAssumption
<1>3. \A q \in Queue : k.list[q] = <<>>
  BY <1>2, InitSettled, ListsOf
<1> QED
  BY <1>2, <1>3 DEF Init, SysInit

LEMMA InitInv == Init => AppInv /\ WakeInv
<1> SUFFICES ASSUME Init PROVE AppInv /\ WakeInv
  OBVIOUS
<1>1. CallInv /\ MqInv /\ ItemInv /\ HpInv
  BY InitSettled, MqInvInit, ItemInvInit, HpInvInit
<1>2. EvTypeOK
  BY EventAssumption DEF Init, EvInit, EvTypeOK, NoInfo, Info
<1>3. StTypeOK
  BY SoftTimerAssumption, EmptySeq DEF Init, StInit, StTypeOK
<1>4. StPlaced
  BY InitEmpty DEF StPlaced, PlacedAt, EntryPlaces
<1>9. TimInv
  <2>1. /\ \A t \in Thread : pc[t] = "user" /\ op[t] = "none"
        /\ TimerThread \in Thread /\ soft_list = <<>>
    BY InitEmpty, Kinds DEF Init, StInit
  <2>2. Yields /\ WakerInv /\ NapTimed
    BY <2>1 DEF Yields, WakerInv, NapTimed, EntryPlaces
  <2>3. ForgetsNone
    BY <2>1 DEF ForgetsNone, SuspendsOnEmpty, NoTimerForgottenOnceSeen, NoTimerForgotten
  <2> QED
    BY <2>2, <2>3 DEF TimInv
<1>5. MqNoLostWakeUp /\ MbNoLostWakeUp /\ MpNoLostWakeUp
  BY InitEmpty, SixLists DEF MqNoLostWakeUp, MbNoLostWakeUp, MpNoLostWakeUp
<1>6. MpCount
  <2>1. On(k, MpWaiters) = {} /\ suspend_thread_count = 0 /\ MaxSuspended \in Nat
    BY InitEmpty, SixLists, MemPoolAssumption DEF Init, MpInit
  <2>2. Cardinality(On(k, MpWaiters)) = 0
    BY <2>1, FS_EmptySet
  <2> QED
    BY <2>1, <2>2 DEF MpCount
<1>7. HpSemInv
  <2>1. heap_sem = 1 /\ On(k, HeapWaiters) = {}
    BY InitEmpty, SixLists DEF Init, HpInit
  <2>2. \A t \in Thread : ~Holds(t) /\ pc[t] \notin HeapPlaces
    BY InitEmpty DEF Holds, HeapOp, HeapPlaces
  <2> QED
    BY <2>1, <2>2 DEF HpSemInv, HpSem, HeapAt
<1>8. EvInv
  BY InitEmpty, SixLists DEF EvInv, EvWants, NoSatisfiedWaiter
<1> QED
  BY <1>1, <1>2, <1>3, <1>4, <1>5, <1>6, <1>7, <1>8, <1>9
  DEF AppInv, WakeInv

LEMMA InvNext ==
  ASSUME TimersUsedBelow, OneWaker
  PROVE  (AppInv /\ WakeInv) /\ [Next]_vars => (AppInv /\ WakeInv)'
BY NextOK

-----------------------------------------------------------------------------
LEMMA AppTypes == AppInv /\ WakeInv => TypeOK
<1> SUFFICES ASSUME AppInv, WakeInv PROVE TypeOK
  OBVIOUS
<1>1. SysTypeOK
  <2>1. /\ k \in KernelState /\ op \in [Thread -> Op \cup {"none"}] /\ pc \in [Thread -> PC]
        /\ prog \in Programs /\ alive \subseteq Object /\ timed \in [Thread -> BOOLEAN]
    BY DEF AppInv, CallInv, Settled, KernelOK
  <2>2. held \in [Thread -> Item \cup {None}]
    BY DEF AppInv, ItemInv
  <2> QED
    BY <2>1, <2>2 DEF SysTypeOK
<1>2. MqTypeOK /\ MbTypeOK /\ EvTypeOK /\ StTypeOK
  BY DEF AppInv, MqInv, ItemInv
<1>3. MpTypeOK
  <2>1. block_list \in Seq(Item) /\ IsInjective(block_list) /\ block_free_count = Len(block_list)
    BY DEF AppInv, ItemInv, ItemsConserved
  <2>2. ToSet(block_list) \subseteq Item
    BY <2>1 DEF ToSet
  <2>3. IsFiniteSet(Item)
    BY MemPoolAssumption, ListCounts
  <2>4. Cardinality(ToSet(block_list)) = Len(block_list)
    BY <2>1, ListCounts
  <2>5. Len(block_list) <= Cardinality(Item) /\ Cardinality(Item) \in Nat
    BY <2>2, <2>3, <2>4, FS_Subset, FS_CardinalityType
  <2>6. Len(block_list) \in Nat
    BY <2>1, LenProperties
  <2>7. suspend_thread_count \in 0 .. MaxSuspended
    BY DEF WakeInv, MpCount
  <2> QED
    BY <2>1, <2>5, <2>6, <2>7 DEF MpTypeOK
<1>4. HpTypeOK
  <2>1. heap_sem \in {0, 1}
    BY DEF WakeInv, HpSemInv, HpSem
  <2>2. IsHeap(heap) /\ CallTypes
    BY DEF AppInv, HpInv
  <2>3. /\ DOMAIN heap = {"mem", "lfree"} /\ DOMAIN heap.mem \subseteq Offset
        /\ heap.mem \in [DOMAIN heap.mem -> HeaderRecord] /\ heap.lfree \in Offset
    BY <2>2 DEF IsHeap, Chained, LfreeOK
  <2>4. HeaderRecord = [used : BOOLEAN, next : Offset, prev : Offset]
    BY DEF HeaderRecord
  <2> HIDE DEF HeaderRecord
  <2> QED
    BY <2>1, <2>2, <2>3, <2>4 DEF HpTypeOK, CallTypes
<1> QED
  BY <1>1, <1>2, <1>3, <1>4 DEF TypeOK

LEMMA AppConsistent == AppInv => Consistent
<1> SUFFICES ASSUME AppInv PROVE Consistent
  OBVIOUS
<1>1. KernelConsistent(k)
  BY DEF AppInv, CallInv, Settled, KernelOK
<1>2. ASSUME NEW t \in Thread, k.stat[t] = "SUSPEND" PROVE WaitsFor(k, op, pc, t)
  BY <1>2 DEF AppInv, CallInv, Settled
<1>3. ASSUME NEW t \in Thread, k.stat[t] = "SUSPEND", op[t] = "timer_entry",
             pc[t] \in {"nap", "napped"}
      PROVE  t \in k.armed \/ \E u \in Thread : Readies(u)
  <2>1. t = TimerThread
    BY <1>2, <1>3 DEF WaitsFor, WaitOp, HeapOp
  <2> QED
    BY <1>3, <2>1 DEF AppInv, TimInv, NapTimed
<1> QED
  BY <1>1, <1>2, <1>3 DEF Consistent, WaitsFor

LEMMA AppWakes == AppInv /\ WakeInv => NoLostWakeUp
<1> SUFFICES ASSUME AppInv, WakeInv PROVE NoLostWakeUp
  OBVIOUS
<1>1. HpNoLostWakeUp
  BY HpSupplied DEF AppInv, WakeInv
<1> QED
  BY <1>1 DEF WakeInv, EvInv, NoLostWakeUp

(* The theorems of the application assume of its programs what the soft       *)
(* timers rely on: that threads which use them are less urgent than the      *)
(* timer thread, and that one thread only, or one interrupt handler, starts  *)
(* them (TimersUsedBelow and OneWaker).                                      *)

(* The kernel, the message queue, the mailbox, the memory pool, the event    *)
(* set, the soft timers and the heap keep their types, for any threads,      *)
(* objects and such programs: no count of theirs leaves its range, and no    *)
(* thread gets into a state or to a place that the code does not have.       *)
THEOREM ApplicationTyped ==
  ASSUME TimersUsedBelow, OneWaker
  PROVE  Spec => []TypeOK
<1> QED
  BY InitInv, InvNext, AppTypes, PTL DEF Spec

(* The lists, the bitmap and the thread states of the kernel agree, and every*)
(* suspended thread is on the wait list of the call it is inside, where a    *)
(* send, a free, a reset or a detach looks for it (rt_ipc_list_resume,       *)
(* ipc.c:133), or it has a running timer, or it is the timer thread, which   *)
(* has one in rt_thread_delay: no thread sleeps where nobody can find it.    *)
THEOREM ApplicationConsistent ==
  ASSUME TimersUsedBelow, OneWaker
  PROVE  Spec => []Consistent
<1>1. AppInv /\ WakeInv => Consistent
  BY AppConsistent
<1> QED
  BY <1>1, InitInv, InvNext, PTL DEF Spec

(* Nobody waits for what is there (rt_mq_send, rt_mb_send, rt_mb_recv,       *)
(* rt_mp_free, rt_event_send and the rt_sem_release of the heap each resume  *)
(* a waiter for what they supply, ipc.c and mempool.c): what is left while a *)
(* thread waits is meant for threads that have been woken and have not run.  *)
THEOREM ApplicationLosesNoWakeUp ==
  ASSUME TimersUsedBelow, OneWaker
  PROVE  Spec => []NoLostWakeUp
<1> QED
  BY InitInv, InvNext, AppWakes, PTL DEF Spec

(* rt_event_send (ipc.c:1028-1110) gives a waiter some of the events it wants,*)
(* all of them with RT_EVENT_FLAG_AND, and with RT_EVENT_FLAG_CLEAR nobody   *)
(* else gets those: no waiter behind it in the same send, and nobody later.  *)
THEOREM EventsAreCleared ==
  ASSUME TimersUsedBelow, OneWaker
  PROVE  Spec => ClearedForOthers
<1>1. AppInv /\ WakeInv /\ [Next]_vars =>
        [\A t \in Thread : Received(t) =>
           /\ event_set'[t] # {} /\ event_set'[t] \subseteq event_set[t]
           /\ event_info[t].all => event_set'[t] = event_set[t]
           /\ event_info[t].clear =>
                /\ event_set'[t] \cap set' = {}
                /\ \A u \in Behind(t) : Received(u) => event_set'[t] \cap event_set'[u] = {}
        ]_<<k, event_set, set>>
  BY NextOK DEF ClearedNow
<1> QED
  BY <1>1, InitInv, InvNext, PTL DEF Spec, ClearedForOthers

(* The timer thread is not suspended for ever beside a running timer         *)
(* (timer.c:645-655), but for the two ways in which the code lets it be: the *)
(* first timer was due at the tick RT_TICK_MAX, or a handler started one     *)
(* while the thread was about to suspend itself.  That holds although the    *)
(* starter tests its state, resumes it, makes it ready and calls rt_schedule *)
(* in steps of their own (timer.c:398-408), with interrupt handlers,         *)
(* time-outs and time slices between them.                                   *)
THEOREM TimersNotForgotten ==
  ASSUME TimersUsedBelow, OneWaker
  PROVE  Spec => []NoTimerForgottenOnceSeen
<1>1. AppInv /\ WakeInv => NoTimerForgottenOnceSeen
  BY DEF AppInv, TimInv, ForgetsNone
<1> QED
  BY <1>1, InitInv, InvNext, PTL DEF Spec

=============================================================================
