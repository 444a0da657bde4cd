---------------------------- MODULE MessageQueue ----------------------------
(***************************************************************************)
(* Message queues (rt_mq_* of ipc.c).  A message lives in a block of the   *)
(* queue's own pool, which is on the free list, in the queue, or in the    *)
(* hand of a thread that copies its message in or out with interrupts      *)
(* enabled.  The copy and the masked stretch after it are one step: the    *)
(* copy touches only the block in hand, and BlocksConserved says that      *)
(* nobody else has that block.                                             *)
(***************************************************************************)
EXTENDS System

CONSTANTS
  MqWaiters,   \* mq->parent.suspend_thread
  Block,       \* the blocks of mq->msg_pool; mq->max_msgs of them
  Msg,         \* contents of messages
  UrgentMsg,   \* those that are sent with rt_mq_urgent, which marks them
  FreeOrder    \* the free list as rt_mq_init links it

ASSUME MessageQueueAssumption ==
  /\ MqWaiters \in Queue /\ "mq" \in Object
  /\ None \notin Block /\ None \notin Msg /\ Isr \notin Block
  /\ Msg # {} /\ UrgentMsg \subseteq Msg
  /\ FreeOrder \in Seq(Block) /\ IsInjective(FreeOrder) /\ ToSet(FreeOrder) = Block

VARIABLES
  queue,      \* the blocks from mq->msg_queue_head to mq->msg_queue_tail
  free,       \* the blocks on mq->msg_queue_free
  entry,      \* mq->entry
  hand,       \* the block that each thread copies into or out of
  content     \* the message in each block

mqVars == <<queue, free, entry, hand, content>>

MqInit ==
  /\ queue = <<>>
  /\ free = FreeOrder
  /\ entry = 0
  /\ hand = [t \in Thread |-> None]
  /\ content \in [Block -> Msg]
  /\ \A b, c \in Block : content[b] = content[c]

-----------------------------------------------------------------------------
(* Mutation: the free list pointer is not moved. *)
MqTakeFree_NotMoved(t, o) ==
  /\ Calls(t, o, "mq")
  /\ free # <<>>
  /\ hand' = [hand EXCEPT ![t] = Head(free)]
  /\ Goto(t, o, "link")
  /\ UNCHANGED <<k, prog, alive, timed, held, queue, free, entry, content>>

(* rt_mq_send or rt_mq_urgent takes a block off the free list.  With none   *)
(* free it returns -RT_EFULL, a stuttering step.                            *)
MqTakeFree(t, o) ==
  /\ Calls(t, o, "mq")
  /\ free # <<>>
  /\ hand' = [hand EXCEPT ![t] = Head(free)]
  /\ free' = Tail(free)
  /\ Goto(t, o, "link")
  /\ UNCHANGED <<k, prog, alive, timed, held, queue, entry, content>>

(* The messages that the application sends by o *)
Sent(o) == IF o = "mq_urgent" THEN UrgentMsg ELSE Msg \ UrgentMsg

(* Mutation: an urgent message is linked behind the first one. *)
Enqueue_Second(o, b, m) ==
  /\ content' = [content EXCEPT ![b] = m]
  /\ queue' = IF o = "mq_urgent" THEN InsertAt(queue, IF queue = <<>> THEN 1 ELSE 2, b)
              ELSE Append(queue, b)
  /\ entry' = entry + 1

(* The block b, filled with m, joins the queue: an urgent one at its head.  *)
Enqueue(o, b, m) ==
  /\ content' = [content EXCEPT ![b] = m]
  /\ queue' = IF o = "mq_urgent" THEN <<b>> \o queue ELSE Append(queue, b)
  /\ entry' = entry + 1

MqLink(t, o) ==
  /\ At(t, o, "link")
  /\ \E m \in Sent(o) : Enqueue(o, hand[t], m)
  /\ hand' = [hand EXCEPT ![t] = None]
  /\ WakeOneAndReturn(t, MqWaiters)
  /\ UNCHANGED <<prog, alive, held, free>>

(* An interrupt handler does all of it at once. *)
MqIsrSend(o) ==
  /\ IsrCalls(o, "mq")
  /\ free # <<>>
  /\ \E m \in Sent(o) : Enqueue(o, Head(free), m)
  /\ free' = Tail(free)
  /\ IsrWakeOne(MqWaiters)
  /\ UNCHANGED <<prog, alive, held, hand>>

-----------------------------------------------------------------------------
(* rt_mq_recv on an empty queue.  Called with time = 0 it changes nothing;  *)
(* with no time left after a wake-up it returns -RT_ETIMEOUT.               *)
MqRecvWait(t) ==
  /\ InLoop(t, "mq_recv", "mq")
  /\ entry = 0
  /\ WaitOn(t, "mq_recv", MqWaiters)
  /\ UNCHANGED <<prog, alive, held, mqVars>>

MqRecvTimeIsUp(t) ==
  /\ entry = 0
  /\ TimeIsUp(t, "mq_recv", "ETIMEOUT")
  /\ UNCHANGED <<prog, alive, held, mqVars>>

MqRecvTake(t) ==
  /\ InLoop(t, "mq_recv", "mq")
  /\ entry > 0
  /\ hand' = [hand EXCEPT ![t] = Head(queue)]
  /\ queue' = Tail(queue)
  /\ entry' = entry - 1
  /\ Goto(t, "mq_recv", "copy_out")
  /\ UNCHANGED <<k, prog, alive, timed, held, free, content>>

(* The message is copied out and its block put back. *)
MqRecvFree(t) ==
  /\ At(t, "mq_recv", "copy_out")
  /\ free' = <<hand[t]>> \o free
  /\ hand' = [hand EXCEPT ![t] = None]
  /\ Return(t)
  /\ UNCHANGED <<k, prog, alive, held, queue, entry, content>>

-----------------------------------------------------------------------------
(* rt_mq_control(RT_IPC_CMD_RESET): the blocks of the queue go to the free  *)
(* list one by one, from its head.                                          *)
MqReset(t) ==
  /\ Calls(t, "mq_reset", "mq")
  /\ k' = ResumeAll(k, MqWaiters)
  /\ free' = Reverse(queue) \o free
  /\ queue' = <<>>
  /\ entry' = 0
  /\ Goto(t, "mq_reset", "sched")
  /\ UNCHANGED <<prog, alive, timed, held, hand, content>>

(* rt_mq_detach and rt_mq_delete *)
MqDetach(t) ==
  /\ \/ Detach(t, "mq_detach", "mq")
     \/ DrainTest(t, "mq_detach", MqWaiters, "test", "resume", "user")
     \/ DrainResume(t, "mq_detach", MqWaiters, "test", "resume")
  /\ UNCHANGED mqVars

MqNext ==
  \/ \E o \in {"mq_send", "mq_urgent"} :
       \/ MqIsrSend(o)
       \/ \E t \in Thread : MqTakeFree(t, o) \/ MqLink(t, o)
  \/ \E t \in Thread :
       \/ MqRecvWait(t) \/ MqRecvTimeIsUp(t) \/ MqRecvTake(t) \/ MqRecvFree(t)
       \/ GiveUp(t, "mq_recv") /\ UNCHANGED mqVars
       \/ MqReset(t) \/ MqDetach(t)

-----------------------------------------------------------------------------
MqTypeOK ==
  /\ queue \in Seq(Block) /\ free \in Seq(Block)
  /\ entry \in Nat
  /\ hand \in [Thread -> Block \cup {None}]
  /\ content \in [Block -> Msg]

Hands == {hand[t] : t \in Thread} \ {None}

(* Every block is on the free list, in the queue or in one hand, and only   *)
(* there; mq->entry counts the queue.                                       *)
MqBlocksConserved ==
  /\ entry = Len(queue)
  /\ IsInjective(queue) /\ IsInjective(free)
  /\ \A t, u \in Thread : t # u /\ hand[t] = hand[u] => hand[t] = None
  /\ ToSet(queue) \cap ToSet(free) = {}
  /\ Hands \cap (ToSet(queue) \cup ToSet(free)) = {}
  /\ ToSet(queue) \cup ToSet(free) \cup Hands = Block

(* While a receiver waits there are no more messages than receivers that    *)
(* have been woken for them.                                                *)
MqNoLostWakeUp ==
  k.list[MqWaiters] # <<>> => entry <= Cardinality(Woken("mq_recv"))
=============================================================================
