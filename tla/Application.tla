----------------------------- MODULE Application -----------------------------
(***************************************************************************)
(* A message queue, a mailbox, a memory pool, an event set, soft timers and *)
(* the heap, used by the same threads on the same kernel.  Blocks of the    *)
(* memory pool travel as mails: who posts a mail gives the block away, who  *)
(* receives it owns the block and may free it.                              *)
(***************************************************************************)
EXTENDS MessageQueue, Mailbox, MemPool, Event, SoftTimer, Heap

ASSUME ApplicationAssumption ==
  IsInjective(<<MqWaiters, MbReceivers, MbSenders, MpWaiters, EvWaiters, HeapWaiters>>)

vars == <<sysVars, mqVars, mbVars, mpVars, evVars, stVars, hpVars>>

Init == SysInit /\ MqInit /\ MbInit /\ MpInit /\ EvInit /\ StInit /\ HpInit

(* An interrupt handler that passes a block on, when there is one and the   *)
(* mailbox is not full: rt_mp_alloc with time = 0 and rt_mb_send.           *)
IsrProduce ==
  /\ IsrCalls("mp_alloc", "mp") /\ IsrCalls("mb_send", "mb")
  /\ TakeBlock
  /\ PutMail(Head(block_list))
  /\ IsrWakeOne(MbReceivers)
  /\ UNCHANGED <<prog, alive, held, suspend_thread_count>>

Next ==
  \/ SysNext    /\ UNCHANGED <<mqVars, mbVars, mpVars, evVars, stVars, hpVars>>
  \/ MqNext     /\ UNCHANGED <<mbVars, mpVars, evVars, stVars, hpVars>>
  \/ MbNext     /\ UNCHANGED <<mqVars, mpVars, evVars, stVars, hpVars>>
  \/ MpNext     /\ UNCHANGED <<mqVars, mbVars, evVars, stVars, hpVars>>
  \/ EvNext     /\ UNCHANGED <<mqVars, mbVars, mpVars, stVars, hpVars>>
  \/ StNext     /\ UNCHANGED <<mqVars, mbVars, mpVars, evVars, hpVars>>
  \/ HpNext     /\ UNCHANGED <<mqVars, mbVars, mpVars, evVars, stVars>>
  \/ IsrProduce /\ UNCHANGED <<mqVars, evVars, stVars, hpVars>>

Spec == Init /\ [][Next]_vars

-----------------------------------------------------------------------------
(* The kernel and the objects stay within their types. *)
TypeOK ==
  SysTypeOK /\ MqTypeOK /\ MbTypeOK /\ MpTypeOK /\ EvTypeOK /\ StTypeOK /\ HpTypeOK

WaitList(o) ==
  CASE o = "mq_recv"    -> MqWaiters
    [] o = "mb_recv"    -> MbReceivers
    [] o = "mb_send"    -> MbSenders
    [] o = "mp_alloc"   -> MpWaiters
    [] o = "event_recv" -> EvWaiters
    [] o \in HeapOp     -> HeapWaiters

(* The kernel's lists, bitmap and thread states agree, and every suspended  *)
(* thread is on the wait list of the call it is inside, where a send, a     *)
(* free, a reset or a deletion looks for it, with no error set yet, or it   *)
(* has a timer running to wake it, or it is the timer thread, which has one *)
(* when it delays itself in a time-out function, unless it is being woken.  *)
Consistent ==
  /\ KernelConsistent(k)
  /\ \A t \in Thread : k.stat[t] = "SUSPEND" =>
       \/ /\ op[t] = "timer_entry"
          /\ pc[t] \in {"nap", "napped"} => t \in k.armed \/ \E u \in Thread : Readies(u)
       \/ op[t] = "delay" /\ t \in k.armed
       \/ pc[t] \in {"wait", "woken"} /\ k.err[t] = "EOK" /\ t \in On(k, WaitList(op[t]))

HeldItems == {held[t] : t \in Thread} \ {None}

(* Every block of the memory pool is in one place only: on the free list,   *)
(* in the hands of one thread, in one mail, or lost with a mail that a      *)
(* reset has discarded; and rt_mp_alloc's count is that of the free list.   *)
ItemsConserved ==
  /\ block_free_count = Len(block_list)
  /\ IsInjective(block_list) /\ IsInjective(Mails)
  /\ \A t, u \in Thread : t # u /\ held[t] = held[u] => held[t] = None
  /\ ToSet(block_list) \cap (ToSet(Mails) \cup HeldItems \cup dropped) = {}
  /\ ToSet(Mails) \cap (HeldItems \cup dropped) = {}
  /\ HeldItems \cap dropped = {}
  /\ ToSet(block_list) \cup ToSet(Mails) \cup HeldItems \cup dropped = Item

(* No block is lost, used by two at once or handed out twice, neither one   *)
(* of the message queue nor one of the memory pool.                         *)
BlocksConserved == MqBlocksConserved /\ ItemsConserved

(* Nobody waits for what is there: a message, a mail, a free slot or a free *)
(* block with a thread still waiting is meant for one that has been woken   *)
(* and has not run yet; no thread waits for events that are set, nor for    *)
(* the heap when nobody has it.                                             *)
NoLostWakeUp ==
  MqNoLostWakeUp /\ MbNoLostWakeUp /\ MpNoLostWakeUp /\ NoSatisfiedWaiter /\ HpNoLostWakeUp

(* rt_mp_free resumes only threads (mempool.c:412, "get the suspended       *)
(* thread"), never the head of an empty list.                               *)
NoWildResume == \A t \in Thread : pc[t] # "wild"

(* The messages in the queue, and those that threads copy out of it *)
Contents == [i \in DOMAIN queue |-> content[queue[i]]]
CopiedOut == [t \in Thread |-> IF pc[t] = "copy_out" THEN content[hand[t]] ELSE None]

(* The message queue and the mailbox implement bounded queues. *)
Messages == INSTANCE AbstractFifo WITH
  Client <- Thread, Value <- Msg, Capacity <- Cardinality(Block), NoValue <- None,
  Urgent <- UrgentMsg,
  items <- Contents, taken <- CopiedOut
Posted == INSTANCE AbstractFifo WITH
  Client <- Thread, Value <- Item, Capacity <- MbSize, NoValue <- None, Urgent <- {},
  items <- Mails,
  taken <- [t \in Thread |-> None]
ImplementFifo == Messages!MessageSpec /\ Posted!MailSpec
=============================================================================
