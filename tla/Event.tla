-------------------------------- MODULE Event --------------------------------
(***************************************************************************)
(* Event sets (rt_event_* of ipc.c).  A send resumes every waiter whose     *)
(* condition holds, in the order of the list, and a waiter that asked for   *)
(* RT_EVENT_FLAG_CLEAR takes its events away from those behind it.          *)
(***************************************************************************)
EXTENDS System

CONSTANTS
  EvWaiters,   \* event->parent.suspend_thread
  Bit,         \* the events
  Request      \* what threads ask for: events, and the option flags

(* RT_EVENT_FLAG_AND or RT_EVENT_FLAG_OR, and RT_EVENT_FLAG_CLEAR *)
Info == [all : BOOLEAN, clear : BOOLEAN]

ASSUME EventAssumption ==
  /\ EvWaiters \in Queue /\ "event" \in Object
  /\ Request \subseteq ((SUBSET Bit) \ {{}}) \X Info

VARIABLES
  set,          \* event->set
  event_set,    \* thread->event_set: what a waiter wants, then what it got
  event_info    \* thread->event_info

evVars == <<set, event_set, event_info>>

NoInfo == [all |-> FALSE, clear |-> FALSE]

EvInit ==
  /\ set = {}
  /\ event_set = [t \in Thread |-> {}]
  /\ event_info = [t \in Thread |-> NoInfo]

(* The condition of a thread that wants w when the events e are set *)
Satisfied(w, all, e) == IF all THEN w \subseteq e ELSE w \cap e # {}

-----------------------------------------------------------------------------
(* rt_event_recv whose condition holds already *)
EvRecvAtOnce(t) ==
  /\ Calls(t, "event_recv", "event")
  /\ \E r \in Request :
       /\ Satisfied(r[1], r[2].all, set)
       /\ set' = IF r[2].clear THEN set \ r[1] ELSE set
  /\ k' = [k EXCEPT !.err[t] = "EOK"]
  /\ UNCHANGED <<prog, alive, op, pc, timed, held, event_set, event_info>>

(* rt_event_recv that does not wait *)
EvRecvFails(t) ==
  /\ Calls(t, "event_recv", "event")
  /\ \E r \in Request : ~Satisfied(r[1], r[2].all, set)
  /\ k' = [k EXCEPT !.err[t] = "ETIMEOUT"]
  /\ UNCHANGED <<prog, alive, op, pc, timed, held, evVars>>

EvRecvWait(t) ==
  /\ Calls(t, "event_recv", "event")
  /\ \E r \in Request :
       /\ ~Satisfied(r[1], r[2].all, set)
       /\ event_set' = [event_set EXCEPT ![t] = r[1]]
       /\ event_info' = [event_info EXCEPT ![t] = r[2]]
  /\ WaitOn(t, "event_recv", EvWaiters)
  /\ UNCHANGED <<prog, alive, held, set>>

(* Awake again it returns thread->error; without one, what it received is   *)
(* thread->event_set.  The two fields are not used again.                   *)
EvRecvReturn(t) ==
  /\ At(t, "event_recv", "woken")
  /\ event_set' = [event_set EXCEPT ![t] = {}]
  /\ event_info' = [event_info EXCEPT ![t] = NoInfo]
  /\ Return(t)
  /\ UNCHANGED <<k, prog, alive, held, set>>

-----------------------------------------------------------------------------
(* Mutation: the events are cleared for a waiter that asked for all of them *)
(* only.                                                                    *)
Deliver_KeepsAny(s, t) ==
  LET i   == event_info[t]
      got == IF i.all THEN event_set[t] ELSE event_set[t] \cap s.set
  IN  IF Satisfied(event_set[t], i.all, s.set)
      THEN [kernel |-> Resume(s.kernel, t),
            set    |-> IF i.clear /\ i.all THEN s.set \ got ELSE s.set,
            got    |-> [s.got EXCEPT ![t] = got]]
      ELSE s

(* One round of the loop of rt_event_send, for the waiter t *)
Deliver(s, t) ==
  LET i   == event_info[t]
      got == IF i.all THEN event_set[t] ELSE event_set[t] \cap s.set
  IN  IF Satisfied(event_set[t], i.all, s.set)
      THEN [kernel |-> Resume(s.kernel, t),
            set    |-> IF i.clear THEN s.set \ got ELSE s.set,
            got    |-> [s.got EXCEPT ![t] = got]]
      ELSE s

(* The loop, after the events e have been set *)
DeliverAll(e) ==
  LET waiters == k.list[EvWaiters]
      round[n \in 0 .. Len(waiters)] ==
        IF n = 0 THEN [kernel |-> k, set |-> set \cup e, got |-> event_set]
        ELSE Deliver(round[n - 1], waiters[n])
  IN  round[Len(waiters)]

EvSend(t) ==
  /\ Calls(t, "event_send", "event")
  /\ \E e \in (SUBSET Bit) \ {{}} :
       LET s == DeliverAll(e) IN
       /\ k' = s.kernel /\ set' = s.set /\ event_set' = s.got
       /\ IF s.kernel # k
          THEN Goto(t, "event_send", "sched") /\ UNCHANGED timed
          ELSE Return(t)
  /\ UNCHANGED <<prog, alive, held, event_info>>

EvIsrSend ==
  /\ IsrCalls("event_send", "event")
  /\ \E e \in (SUBSET Bit) \ {{}} :
       LET s == DeliverAll(e) IN
       /\ k' = IF s.kernel # k THEN Schedule(s.kernel) ELSE k
       /\ set' = s.set /\ event_set' = s.got
  /\ UNCHANGED <<prog, alive, op, pc, timed, held, event_info>>

-----------------------------------------------------------------------------
(* rt_event_control(RT_IPC_CMD_RESET) *)
EvReset(t) ==
  /\ Calls(t, "event_reset", "event")
  /\ k' = ResumeAll(k, EvWaiters)
  /\ set' = {}
  /\ Goto(t, "event_reset", "sched")
  /\ UNCHANGED <<prog, alive, timed, held, event_set, event_info>>

(* rt_event_detach and rt_event_delete *)
EvDetach(t) ==
  /\ \/ Detach(t, "event_detach", "event")
     \/ DrainTest(t, "event_detach", EvWaiters, "test", "resume", "user")
     \/ DrainResume(t, "event_detach", EvWaiters, "test", "resume")
  /\ UNCHANGED evVars

EvNext ==
  \/ EvIsrSend
  \/ \E t \in Thread :
       \/ EvRecvAtOnce(t) \/ EvRecvFails(t) \/ EvRecvWait(t) \/ EvRecvReturn(t)
       \/ EvSend(t) \/ EvReset(t) \/ EvDetach(t)

-----------------------------------------------------------------------------
EvTypeOK ==
  /\ set \in SUBSET Bit
  /\ event_set \in [Thread -> SUBSET Bit]
  /\ event_info \in [Thread -> Info]

(* No thread waits for events that are set. *)
NoSatisfiedWaiter ==
  \A t \in On(k, EvWaiters) : ~Satisfied(event_set[t], event_info[t].all, set)

(* A waiter that leaves the list without an error has received events, and  *)
(* with RT_EVENT_FLAG_CLEAR nobody else gets them: no waiter behind it that *)
(* leaves in the same step, and nobody later, for they are not set any more.*)
Received(t) == /\ t \in On(k, EvWaiters) /\ t \notin ToSet(k'.list[EvWaiters])
               /\ k'.err[t] = "EOK"
Behind(t) == {u \in Thread : \E i, j \in DOMAIN k.list[EvWaiters] :
                i < j /\ k.list[EvWaiters][i] = t /\ k.list[EvWaiters][j] = u}
ClearedForOthers ==
  [][\A t \in Thread : Received(t) =>
       /\ event_set'[t] # {} /\ event_set'[t] \subseteq event_set[t]
       /\ event_info[t].all => event_set'[t] = event_set[t]
       /\ event_info[t].clear =>
            /\ event_set'[t] \cap set' = {}
            /\ \A u \in Behind(t) : Received(u) => event_set'[t] \cap event_set'[u] = {}
    ]_<<k, event_set, set>>
=============================================================================
