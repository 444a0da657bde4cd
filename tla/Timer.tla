-------------------------------- MODULE Timer --------------------------------
(***************************************************************************)
(* The hard timers of timer.c: the sorted list, the tick that wraps around *)
(* and the tick interrupt that calls expired timers.                       *)
(*                                                                         *)
(* Clients are threads that are preempted anywhere outside the parts that  *)
(* run with interrupts masked: rt_timer_start and rt_timer_stop are        *)
(* several steps.  The tick interrupt excludes them all until it is done;  *)
(* rt_timer_check takes one step for each timer it calls.  With            *)
(* RT_TIMER_SKIP_LIST_LEVEL = 1 (rtdef.h) the skip list is a plain list.   *)
(***************************************************************************)
EXTENDS Integers, Sequences, SequencesExt, FiniteSetsExt, Functions

CONSTANTS
  Timer,       \* timer control blocks
  Client,      \* threads that use timers
  TickRange,   \* 2^32, the number of values of a rt_tick_t
  Times,       \* the values of timer->init_tick
  MaxLag,      \* longest preemption inside rt_timer_start, in ticks
  Setups,      \* programs: the timers each client uses, what callbacks do
  Periodic,    \* the timers made with RT_TIMER_FLAG_PERIODIC
  Nothing      \* no timer

TickMax == TickRange - 1
Half == TickMax \div 2      \* RT_TICK_MAX / 2
Tick == 0 .. TickMax

(* A time-out function does nothing or one operation on one timer. *)
Operation == {"none", "start", "stop", "detach"}

ASSUME TimerAssumption ==
  /\ TickRange \in Nat /\ TickRange > 3
  /\ Times \subseteq 0 .. Half - 1      \* RT_ASSERT in rt_timer_start
  /\ MaxLag \in Nat
  /\ Setups \subseteq [uses : [Client -> SUBSET Timer],
                       callback : [Timer -> SUBSET (Operation \X Timer)]]
  /\ Periodic \subseteq Timer
  /\ Nothing \notin Timer

VARIABLES
  setup,     \* the program that runs
  tick,      \* rt_tick
  list,      \* rt_timer_list
  timeout,   \* timer->timeout_tick
  init,      \* timer->init_tick
  active,    \* the timers with RT_TIMER_FLAG_ACTIVATED
  detached,  \* the timers that rt_timer_detach has taken out of management
  pc,        \* where each client is, and with which timer
  isr,       \* "idle", or "check" while the tick interrupt runs
  due        \* history: ticks until the time-out of each timer, unwrapped

vars == <<setup, tick, list, timeout, init, active, detached, pc, isr, due>>

Ready == [at |-> "user", on |-> Nothing]

Init ==
  /\ setup \in Setups
  /\ tick \in Tick
  /\ list = <<>>
  /\ timeout = [t \in Timer |-> 0]
  /\ init \in [Timer -> Times]
  /\ active = {} /\ detached = {}
  /\ pc = [c \in Client |-> Ready]
  /\ isr = "idle"
  /\ due = [t \in Timer |-> 0]

-----------------------------------------------------------------------------
(* Unsigned subtraction of ticks *)
Minus(x, y) == (x - y) % TickRange

(* Mutations: before timers of the same tick; plain comparison, which knows *)
(* nothing of the wrap-around.                                              *)
InsertPosition_NotStrict(l, to, t) ==
  LET later == SelectInSeq(l, LAMBDA u : Minus(to[u], to[t]) < Half)
  IN  IF later # 0 THEN later ELSE Len(l) + 1
InsertPosition_Plain(l, to, t) ==
  LET later == SelectInSeq(l, LAMBDA u : to[u] > to[t])
  IN  IF later # 0 THEN later ELSE Len(l) + 1

(* Where the search of rt_timer_start stops in the list l: before the first *)
(* timer that expires strictly later, by less than half the range.          *)
InsertPosition(l, to, t) ==
  LET later == SelectInSeq(l, LAMBDA u : /\ Minus(to[u], to[t]) # 0
                                         /\ Minus(to[u], to[t]) < Half)
  IN  IF later # 0 THEN later ELSE Len(l) + 1

Inserted(l, to, t) == InsertAt(l, InsertPosition(l, to, t), t)

(* Mutations: one tick late; plain comparison. *)
Expired_Late(t) == Minus(tick, timeout[t]) \in 1 .. Half - 1
Expired_Plain(t) == tick >= timeout[t]

(* Already expired, by less than half the range *)
Expired(t) == Minus(tick, timeout[t]) < Half

-----------------------------------------------------------------------------
(* The client c may call an operation on t, or takes the step at a. *)
MayCall(c, t) ==
  isr = "idle" /\ pc[c] = Ready /\ t \in setup.uses[c] \ detached

At(c, a) == isr = "idle" /\ pc[c].at = a

Goto(c, a, t) == pc' = [pc EXCEPT ![c] = [at |-> a, on |-> t]]
Return(c) == pc' = [pc EXCEPT ![c] = Ready]

(* rt_timer_start: first the timer is stopped, ... *)
Start(c, t) ==
  /\ MayCall(c, t)
  /\ list' = RemoveFirst(list, t)
  /\ active' = active \ {t}
  /\ Goto(c, "start_time", t)
  /\ UNCHANGED <<setup, tick, timeout, init, detached, isr, due>>

(* Mutation: the sum is kept in a wider type. *)
StartTime_Wide(c) ==
  LET t == pc[c].on IN
  /\ At(c, "start_time")
  /\ timeout' = [timeout EXCEPT ![t] = tick + init[t]]
  /\ due' = [due EXCEPT ![t] = init[t]]
  /\ Goto(c, "start_insert", t)
  /\ UNCHANGED <<setup, tick, list, init, active, detached, isr>>

(* ... then its time is computed with interrupts enabled, ... *)
StartTime(c) ==
  LET t == pc[c].on IN
  /\ At(c, "start_time")
  /\ timeout' = [timeout EXCEPT ![t] = (tick + init[t]) % TickRange]
  /\ due' = [due EXCEPT ![t] = init[t]]
  /\ Goto(c, "start_insert", t)
  /\ UNCHANGED <<setup, tick, list, init, active, detached, isr>>

(* ... and then it is put on the list. *)
StartInsert(c) ==
  LET t == pc[c].on IN
  /\ At(c, "start_insert")
  /\ list' = Inserted(list, timeout, t)
  /\ active' = active \cup {t}
  /\ Return(c)
  /\ UNCHANGED <<setup, tick, timeout, init, detached, isr, due>>

-----------------------------------------------------------------------------
(* rt_timer_stop of an activated timer; otherwise it returns -RT_ERROR. *)
Stop(c, t) ==
  /\ MayCall(c, t)
  /\ t \in active
  /\ Goto(c, "stop_remove", t)
  /\ UNCHANGED <<setup, tick, list, timeout, init, active, detached, isr, due>>

StopRemove(c) ==
  LET t == pc[c].on IN
  /\ At(c, "stop_remove")
  /\ list' = RemoveFirst(list, t)
  /\ Goto(c, "stop_flag", t)
  /\ UNCHANGED <<setup, tick, timeout, init, active, detached, isr, due>>

StopFlag(c) ==
  /\ At(c, "stop_flag")
  /\ active' = active \ {pc[c].on}
  /\ Return(c)
  /\ UNCHANGED <<setup, tick, list, timeout, init, detached, isr, due>>

(* rt_timer_control, RT_TIMER_CTRL_SET_TIME *)
SetTime(c, t) ==
  /\ MayCall(c, t)
  /\ \E x \in Times : init' = [init EXCEPT ![t] = x]
  /\ UNCHANGED <<setup, tick, list, timeout, active, detached, pc, isr, due>>

(* Mutation: the timer stays on the list. *)
Detach_Listed(c, t) ==
  /\ MayCall(c, t)
  /\ detached' = detached \cup {t}
  /\ UNCHANGED <<setup, tick, list, timeout, init, active, pc, isr, due>>

(* rt_timer_detach and rt_timer_delete; the flag is left as it is. *)
Detach(c, t) ==
  /\ MayCall(c, t)
  /\ list' = RemoveFirst(list, t)
  /\ detached' = detached \cup {t}
  /\ UNCHANGED <<setup, tick, timeout, init, active, pc, isr, due>>

-----------------------------------------------------------------------------
(* The timers whose due counts: those on the list, and those that a client *)
(* is about to insert, where it is preempted for at most MaxLag ticks.      *)
Inserting == {pc[c].on : c \in {d \in Client : pc[d].at = "start_insert"}}

(* rt_tick_increase, up to rt_timer_check *)
TickIsr ==
  /\ isr = "idle"
  /\ \A t \in Inserting : init[t] - due[t] < MaxLag
  /\ tick' = (tick + 1) % TickRange
  /\ due' = [t \in Timer |-> IF t \in Inserting \cup ToSet(list) THEN due[t] - 1 ELSE 0]
  /\ isr' = "check"
  /\ UNCHANGED <<setup, list, timeout, init, active, detached, pc>>

(* rt_timer_start on u, in one go, as the interrupt handler sees it *)
Started(x, u) ==
  LET to == [x.to EXCEPT ![u] = (tick + init[u]) % TickRange] IN
  [list |-> Inserted(RemoveFirst(x.list, u), to, u), to |-> to,
   active |-> x.active \cup {u}, due |-> [x.due EXCEPT ![u] = init[u]]]

(* What a time-out function does to the timers when it does op on u *)
Called(x, op, u) ==
  CASE op = "none"   -> x
    [] op = "start"  -> Started(x, u)
    [] op = "stop"   -> IF u \in x.active
                        THEN [x EXCEPT !.list = RemoveFirst(@, u), !.active = @ \ {u}]
                        ELSE x
    [] op = "detach" -> [x EXCEPT !.list = RemoveFirst(@, u)]

(* Mutation: a timer that is not started again keeps its flag. *)
AfterCall_StaysActive(x, t) ==
  IF t \in Periodic /\ t \in x.active THEN Started(x, t) ELSE x

(* What rt_timer_check does after the time-out function: a periodic timer  *)
(* that is still activated starts again, any other one is marked stopped.  *)
AfterCall(x, t) ==
  IF t \in Periodic /\ t \in x.active
  THEN Started(x, t) ELSE [x EXCEPT !.active = @ \ {t}]

(* Mutation: the timer is not taken off the list before it is called. *)
CheckCall_Listed ==
  /\ isr = "check"
  /\ list # <<>> /\ Expired(Head(list))
  /\ \E call \in setup.callback[Head(list)] :
       LET t == Head(list)
           x == [list |-> list, to |-> timeout, active |-> active, due |-> due]
           y == AfterCall(Called(x, call[1], call[2]), t) IN
       /\ call[1] # "none" => call[2] \notin detached
       /\ list' = y.list /\ timeout' = y.to /\ active' = y.active /\ due' = y.due
       /\ detached' = IF call[1] = "detach" THEN detached \cup {call[2]} ELSE detached
  /\ UNCHANGED <<setup, tick, init, pc, isr>>

(* One round of rt_timer_check.  The time-out function does one operation  *)
(* of those its program gives it, on a timer that is still under management.  *)
CheckCall ==
  /\ isr = "check"
  /\ list # <<>> /\ Expired(Head(list))
  /\ \E call \in setup.callback[Head(list)] :
       LET t == Head(list)
           x == [list |-> Tail(list), to |-> timeout, active |-> active, due |-> due]
           y == AfterCall(Called(x, call[1], call[2]), t) IN
       /\ call[1] # "none" => call[2] \notin detached
       /\ list' = y.list /\ timeout' = y.to /\ active' = y.active /\ due' = y.due
       /\ detached' = IF call[1] = "detach" THEN detached \cup {call[2]} ELSE detached
  /\ UNCHANGED <<setup, tick, init, pc, isr>>

CheckDone ==
  /\ isr = "check"
  /\ list # <<>> => ~Expired(Head(list))
  /\ isr' = "idle"
  /\ UNCHANGED <<setup, tick, list, timeout, init, active, detached, pc, due>>

-----------------------------------------------------------------------------
ClientStep(c) ==
  \/ \E t \in Timer : Start(c, t) \/ Stop(c, t) \/ SetTime(c, t) \/ Detach(c, t)
  \/ StartTime(c) \/ StartInsert(c) \/ StopRemove(c) \/ StopFlag(c)

Next == TickIsr \/ CheckCall \/ CheckDone \/ \E c \in Client : ClientStep(c)

Spec == Init /\ [][Next]_vars

(* The interrupt handler runs to its end, and ticks keep coming. *)
FairSpec == Spec /\ WF_vars(TickIsr) /\ WF_vars(CheckCall \/ CheckDone)

-----------------------------------------------------------------------------
(* The timer structures stay within their types. *)
TypeOK ==
  /\ setup \in Setups
  /\ tick \in Tick
  /\ list \in Seq(Timer)
  /\ timeout \in [Timer -> Tick]
  /\ init \in [Timer -> Times]
  /\ active \in SUBSET Timer /\ detached \in SUBSET Timer
  /\ pc \in [Client -> [at : {"user", "start_time", "start_insert", "stop_remove", "stop_flag"},
                       on : Timer \cup {Nothing}]]
  /\ isr \in {"idle", "check"}
  /\ due \in [Timer -> Int]

(* What keeps two operations on one timer apart: no two clients share one,  *)
(* and a time-out function starts or detaches no timer that a client uses,  *)
(* except its own.                                                          *)
Separate(s) ==
  /\ \A c, d \in Client : c # d => s.uses[c] \cap s.uses[d] = {}
  /\ \A t \in Timer : \A call \in s.callback[t] : call[1] \in {"start", "detach"} =>
       call[2] = t \/ \A c \in Client : call[2] \notin s.uses[c]

(* What rt_timer_check does to the called timer afterwards goes with what   *)
(* the time-out function did to it: no one-shot timer starts itself, since  *)
(* its flag would be cleared, and no periodic timer detaches itself, since  *)
(* it would be started again.                                               *)
SelfCallsFit(s) ==
  \A t \in Timer : /\ <<"start", t>> \in s.callback[t] => t \in Periodic
                   /\ <<"detach", t>> \in s.callback[t] => t \notin Periodic

(* A preemption inside rt_timer_start leaves the new time-out within half   *)
(* the range of those on the list, which rt_timer_check supposes            *)
(* (timer.c:512, "It supposes that the new tick shall less than the half    *)
(* duration of tick max"): with MaxLag = 0 the assertion of rt_timer_start  *)
(* is enough.                                                               *)
TimesFit == \A x \in Times \cup {1}, y \in Times : x - y + MaxLag < Half

Listed == ToSet(list)

(* No timer is on the list twice (its node would be linked at two places),  *)
(* and the list is sorted by time-out, also while the tick wraps around, so *)
(* that rt_timer_check may stop at the first timer that has not expired.    *)
Sorted ==
  /\ IsInjective(list)
  /\ \A i, j \in DOMAIN list : i < j => due[list[i]] <= due[list[j]]

(* RT_TIMER_FLAG_ACTIVATED says whether a timer is on the list, except      *)
(* while a client is inside rt_timer_stop: the test that rt_timer_stop      *)
(* makes on the flag finds every timer that runs.                           *)
FlagAgrees ==
  isr = "idle" =>
    \A t \in Timer \ detached :
      (\A c \in Client : pc[c].on # t \/ pc[c].at \notin {"stop_remove", "stop_flag"})
        => (t \in active <=> t \in Listed)

(* rt_timer_check calls no timer before its time, *)
NotEarly ==
  [][isr = "check" /\ isr' = "check" => due[Head(list)] <= 0]_vars

(* and when it returns it leaves none on the list whose time has come. *)
NotLate ==
  [][isr = "check" /\ isr' = "idle" => \A t \in Listed : due[t] > 0]_vars

(* Timers that expire at the same tick are called in the order in which     *)
(* they were started (the comment at timer.c:354).  A timer that is being   *)
(* called is started last, when its time-out function has returned.         *)
SameTickFifo ==
  [][\A t, v \in Timer :
       LET pos(l, x) == CHOOSE i \in DOMAIN l : l[i] = x IN
       t \in Listed /\ v \notin Listed /\ {t, v} \subseteq ToSet(list')
         /\ timeout[t] = timeout'[t] /\ timeout'[t] = timeout'[v]
         /\ (isr = "check" => t # Head(list))
         => pos(list', t) < pos(list', v)]_vars

(* A timer that is out of management is not called any more. *)
DetachedStaysOut == detached \cap Listed = {}

(* The loop of rt_timer_check ends. *)
CheckEnds == isr = "check" ~> isr = "idle"
=============================================================================
