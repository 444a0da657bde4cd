------------------------------- MODULE Mailbox -------------------------------
(***************************************************************************)
(* Mailboxes (rt_mb_* of ipc.c): a ring of mails with a wait list for      *)
(* receivers and one for senders.  A mail is a word; here it is the        *)
(* address of a memory block, which the sender gives away with the mail.   *)
(***************************************************************************)
EXTENDS System

CONSTANTS
  MbReceivers,   \* mb->parent.suspend_thread
  MbSenders,     \* mb->suspend_sender_thread
  MbSize         \* mb->size

ASSUME MailboxAssumption ==
  /\ MbReceivers \in Queue /\ MbSenders \in Queue /\ MbReceivers # MbSenders
  /\ MbSize \in Nat \ {0} /\ "mb" \in Object

VARIABLES
  msg_pool,      \* mb->msg_pool: the ring; a slot keeps its mail when read
  mb_entry,      \* mb->entry
  in_offset, out_offset,
  dropped        \* history: the blocks in mails that a reset has discarded

mbVars == <<msg_pool, mb_entry, in_offset, out_offset, dropped>>

Slot == 0 .. MbSize - 1

MbInit ==
  /\ msg_pool = [i \in Slot |-> None]
  /\ mb_entry = 0 /\ in_offset = 0 /\ out_offset = 0
  /\ dropped = {}

(* Mutation: the offset does not wrap. *)
NextSlot_NoWrap(i) == i + 1

(* ++offset; if (offset >= size) offset = 0 *)
NextSlot(i) == IF i + 1 >= MbSize THEN 0 ELSE i + 1

(* The mails that have not been received, oldest first *)
Wrap(i) == IF i >= MbSize THEN i - MbSize ELSE i
Mails == [i \in 1 .. mb_entry |-> msg_pool[Wrap(out_offset + i - 1)]]

-----------------------------------------------------------------------------
(* rt_mb_send and rt_mb_send_wait on a full mailbox.  Called with           *)
(* timeout = 0 it changes nothing.                                          *)
MbSendWait(t) ==
  /\ InLoop(t, "mb_send", "mb")
  /\ held[t] # None
  /\ mb_entry = MbSize
  /\ WaitOn(t, "mb_send", MbSenders)
  /\ UNCHANGED <<prog, alive, held, mbVars>>

(* -RT_EFULL, which is not stored in thread->error *)
MbSendTimeIsUp(t) ==
  /\ mb_entry = MbSize
  /\ TimeIsUp(t, "mb_send", "EOK")
  /\ UNCHANGED <<prog, alive, held, mbVars>>

(* The mail v goes into the ring. *)
PutMail(v) ==
  /\ mb_entry # MbSize
  /\ msg_pool' = [msg_pool EXCEPT ![in_offset] = v]
  /\ in_offset' = NextSlot(in_offset)
  /\ mb_entry' = mb_entry + 1
  /\ UNCHANGED <<out_offset, dropped>>

MbSend(t) ==
  /\ InLoop(t, "mb_send", "mb")
  /\ held[t] # None
  /\ PutMail(held[t])
  /\ held' = [held EXCEPT ![t] = None]
  /\ EnterWakeOne(t, "mb_send", MbReceivers)
  /\ UNCHANGED <<prog, alive>>

-----------------------------------------------------------------------------
(* rt_mb_recv on an empty mailbox *)
MbRecvWait(t) ==
  /\ InLoop(t, "mb_recv", "mb")
  /\ held[t] = None
  /\ mb_entry = 0
  /\ WaitOn(t, "mb_recv", MbReceivers)
  /\ UNCHANGED <<prog, alive, held, mbVars>>

MbRecvTimeIsUp(t) ==
  /\ mb_entry = 0
  /\ TimeIsUp(t, "mb_recv", "ETIMEOUT")
  /\ UNCHANGED <<prog, alive, held, mbVars>>

(* Mutation: no sender is resumed. *)
MbRecv_NoWake(t) ==
  /\ InLoop(t, "mb_recv", "mb")
  /\ held[t] = None
  /\ mb_entry # 0
  /\ held' = [held EXCEPT ![t] = msg_pool[out_offset]]
  /\ out_offset' = NextSlot(out_offset)
  /\ mb_entry' = mb_entry - 1
  /\ Return(t)
  /\ UNCHANGED <<k, prog, alive, msg_pool, in_offset, dropped>>

MbRecv(t) ==
  /\ InLoop(t, "mb_recv", "mb")
  /\ held[t] = None
  /\ mb_entry # 0
  /\ held' = [held EXCEPT ![t] = msg_pool[out_offset]]
  /\ out_offset' = NextSlot(out_offset)
  /\ mb_entry' = mb_entry - 1
  /\ EnterWakeOne(t, "mb_recv", MbSenders)
  /\ UNCHANGED <<prog, alive, msg_pool, in_offset, dropped>>

-----------------------------------------------------------------------------
(* rt_mb_control(RT_IPC_CMD_RESET) *)
MbReset(t) ==
  /\ Calls(t, "mb_reset", "mb")
  /\ k' = ResumeAll(ResumeAll(k, MbReceivers), MbSenders)
  /\ mb_entry' = 0 /\ in_offset' = 0 /\ out_offset' = 0
  /\ dropped' = dropped \cup ToSet(Mails)
  /\ Goto(t, "mb_reset", "sched")
  /\ UNCHANGED <<prog, alive, timed, held, msg_pool>>

(* rt_mb_detach and rt_mb_delete *)
MbDetach(t) ==
  /\ \/ Detach(t, "mb_detach", "mb")
     \/ DrainTest(t, "mb_detach", MbReceivers, "test", "resume", "test2")
     \/ DrainResume(t, "mb_detach", MbReceivers, "test", "resume")
     \/ DrainTest(t, "mb_detach", MbSenders, "test2", "resume2", "user")
     \/ DrainResume(t, "mb_detach", MbSenders, "test2", "resume2")
  /\ UNCHANGED mbVars

MbNext ==
  \E t \in Thread :
    \/ MbSendWait(t) \/ MbSendTimeIsUp(t) \/ MbSend(t)
    \/ MbRecvWait(t) \/ MbRecvTimeIsUp(t) \/ MbRecv(t)
    \/ (GiveUp(t, "mb_send") \/ GiveUp(t, "mb_recv")) /\ UNCHANGED mbVars
    \/ MbReset(t) \/ MbDetach(t)

-----------------------------------------------------------------------------
MbTypeOK ==
  /\ msg_pool \in [Slot -> Item \cup {None}]
  /\ mb_entry \in 0 .. MbSize
  /\ in_offset \in Slot /\ out_offset \in Slot
  /\ dropped \in SUBSET Item

(* While a receiver waits there are no more mails than receivers that have  *)
(* been woken for them, and while a sender waits no more free slots than    *)
(* senders that have been woken for those.                                  *)
MbNoLostWakeUp ==
  /\ k.list[MbReceivers] # <<>> => mb_entry <= Cardinality(Woken("mb_recv"))
  /\ k.list[MbSenders] # <<>> => MbSize - mb_entry <= Cardinality(Woken("mb_send"))
=============================================================================
