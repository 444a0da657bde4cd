---------------------------- MODULE MCApplication ----------------------------
(* Three worker threads, two of them of equal priority, the idle thread and *)
(* interrupt handlers.                                                      *)
EXTENDS Application

CONSTANTS a, b, c, idle, x, y, z, tp, ts, m1, m2, mu

MCBasePrio == a :> 0 @@ b :> 1 @@ c :> 1 @@ idle :> 2
MCReadyOrder == 0 :> <<>> @@ 1 :> <<b, c>> @@ 2 :> <<idle>>
MCFreeOrder == <<1, 2>>
MCListOrder == <<x, y, z>>

Program(flag, ua, ub, uc, ui) ==
  [flag |-> flag,
   uses |-> a :> ua @@ b :> ub @@ c :> uc @@ idle :> {} @@ Isr :> ui]

(* The message queue alone, deleted or reset *)
MqProgram ==
  Program("PRIO", {"mq_recv"}, {"mq_recv", "mq_send"}, {"mq_urgent", "mq_detach"}, {"mq_send"})
MqResetProgram ==
  Program("PRIO", {"delay", "mq_recv"}, {"mq_send"}, {"mq_urgent", "mq_reset"}, {"mq_send"})

(* Blocks are allocated, posted, received and freed, by a handler too, until *)
(* the pool or the mailbox is deleted; or a mailbox with blocks in it is     *)
(* reset; or three receivers compete for the mails of a handler.             *)
PipeProgram ==
  Program("FIFO", {"delay", "mb_recv", "mp_free"}, {"mp_alloc", "mb_send"},
          {"mp_detach"}, {})
ResetProgram ==
  Program("FIFO", {"delay", "mb_recv"}, {"mp_alloc", "mb_send"}, {"mb_reset"}, {})
DriverProgram ==
  Program("PRIO", {"delay", "mb_recv", "mp_free"}, {"mp_alloc", "mb_send"},
          {}, {"mp_alloc", "mb_send"})
DetachProgram ==
  Program("PRIO", {"delay", "mb_recv"}, {"mp_alloc", "mb_send"},
          {"mb_detach"}, {"mp_alloc", "mb_send"})
ReceiversProgram ==
  Program("PRIO", {"mb_recv"}, {"delay", "mb_recv"}, {"mb_recv"}, {"mp_alloc", "mb_send"})

(* Two receivers, with a thread or a handler that sends *)
EventProgram ==
  Program("PRIO", {"event_recv", "event_reset"}, {"event_recv"},
          {"event_send", "event_detach"}, {})
EventIsrProgram ==
  Program("PRIO", {"event_recv"}, {"event_recv"}, {}, {"event_send"})

(* Two waiters that want the same event compete for it. *)
MCRequest ==
  {<<{0, 1}, [all |-> TRUE, clear |-> TRUE]>>, <<{0, 1}, [all |-> FALSE, clear |-> TRUE]>>,
   <<{0}, [all |-> TRUE, clear |-> FALSE]>>}

(* The blocks of the memory pool are interchangeable, and so are the        *)
(* messages that are not urgent.                                            *)
MCSymmetry == Permutations({x, y, z}) \cup Permutations({m1, m2})

(* The timer thread is the most urgent one; tp is periodic and stops itself, *)
(* ts starts tp and delays itself.  One thread or an interrupt handler       *)
(* starts ts, and another thread stops tp.                                   *)
TimerProgram ==
  Program("PRIO", {"timer_entry"}, {"timer_start"}, {"timer_stop"}, {})
TimerIsrProgram ==
  Program("PRIO", {"timer_entry"}, {}, {"timer_stop"}, {"timer_start"})
MCSoftUses == a :> {} @@ b :> {ts} @@ c :> {tp} @@ idle :> {} @@ Isr :> {ts}
MCSoftCallback == tp :> {<<"timer_stop", tp>>} @@ ts :> {<<"timer_start", tp>>}
MCTimerStopped == {TimerProgram}

(* One block and two threads that wait for it *)
MCOneBlock == <<x>>
PoolProgram == Program("FIFO", {"delay"}, {"mp_alloc", "mp_free"}, {"mp_alloc", "mp_free"}, {})
MCPoolTimeout == {PoolProgram}

(* Memory is allocated, resized and freed by one thread; or it is allocated  *)
(* by one thread while another one, which preempts it, allocates and resizes.*)
HeapProgram ==
  Program("PRIO", {"timer_entry"}, {"malloc", "free", "realloc"}, {}, {})
SharedHeapProgram ==
  Program("PRIO", {"delay", "malloc", "realloc"}, {"malloc"}, {}, {})
MCLostBlock == {HeapProgram}

MCPrograms ==
  {MqProgram, MqResetProgram, PipeProgram, ResetProgram, DriverProgram, DetachProgram,
   ReceiversProgram, EventProgram, EventIsrProgram, TimerProgram, TimerIsrProgram,
   HeapProgram, SharedHeapProgram}

(* The programs keep the rules under which soft timers work. *)
ASSUME MCTimersWellUsed == TimersWellUsed
=============================================================================
