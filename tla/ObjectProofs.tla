----------------------------- MODULE ObjectProofs -----------------------------
(***************************************************************************)
(* What the data of the objects need not ask the kernel for: the blocks of  *)
(* a message queue and of the memory pool, the queues as bounded FIFOs, and *)
(* the list of the heap, for any threads, blocks, sizes and programs.       *)
(*                                                                         *)
(* What keeps a block of a queue or a pool from being used twice is that    *)
(* list operations are masked, and that a thread that holds one is at one   *)
(* of two places of its program.  A call changes the list of the heap in    *)
(* one step, and between two steps of a call its block is nobody else's.    *)
(* (That these stretches are alone in the heap is HpNoLostWakeUp.)          *)
(***************************************************************************)
EXTENDS Application, ListProofs, FiniteSetTheorems

(* The two places where a thread has a block of the queue in hand *)
AtCopy(t) == pc[t] \in {"link", "copy_out"}

PcOK == pc \in [Thread -> PC]

(* The step neither enters nor leaves one of them. *)
Quiet ==
  /\ PcOK'
  /\ \A t \in Thread : /\ pc'[t] = "link" <=> pc[t] = "link"
                       /\ pc'[t] = "copy_out" <=> pc[t] = "copy_out"

LEMMA SamePc == ASSUME PcOK, UNCHANGED pc PROVE Quiet
BY DEF PcOK, Quiet

-----------------------------------------------------------------------------
(* The other parts of the application leave the copying threads alone. *)
LEMMA SysQuiet == ASSUME PcOK, SysNext PROVE Quiet /\ UNCHANGED held
<1>1. CASE SliceIsr
  BY <1>1, SamePc DEF SliceIsr
<1>2. ASSUME NEW t \in Thread, Delay(t) PROVE Quiet /\ UNCHANGED held
  BY <1>2 DEF Delay, Goto, AtCopy, PcOK, PC, Quiet
<1>3. ASSUME NEW t \in Thread, WaitSchedule(t) PROVE Quiet /\ UNCHANGED held
  BY <1>3 DEF WaitSchedule, Proceed, AtCopy, PcOK, PC, Quiet
<1>4. ASSUME NEW t \in Thread, DelayReturn(t) PROVE Quiet /\ UNCHANGED held
  BY <1>4 DEF DelayReturn, At, Return, Goto, AtCopy, PcOK, PC, Quiet
<1>5. ASSUME NEW t \in Thread, ScheduleAndReturn(t) PROVE Quiet /\ UNCHANGED held
  BY <1>5 DEF ScheduleAndReturn, Return, Goto, AtCopy, PcOK, PC, Quiet
<1>6. ASSUME NEW t \in Thread, TimerIsr(t) PROVE Quiet /\ UNCHANGED held
  BY <1>6, SamePc DEF TimerIsr
<1> QED
  BY <1>1, <1>2, <1>3, <1>4, <1>5, <1>6 DEF SysNext

(* The steps that the objects share *)
LEMMA WaitQuiet ==
  ASSUME PcOK, NEW t \in Thread, NEW o, NEW x, NEW q, InLoop(t, o, x), WaitOn(t, o, q)
  PROVE  Quiet
BY DEF InLoop, Calls, At, WaitOn, Goto, AtCopy, PcOK, PC, Quiet

LEMMA TimeIsUpQuiet ==
  ASSUME PcOK, NEW t \in Thread, NEW o, NEW e, TimeIsUp(t, o, e)
  PROVE  Quiet
BY DEF TimeIsUp, At, Return, Goto, AtCopy, PcOK, PC, Quiet

LEMMA GiveUpQuiet ==
  ASSUME PcOK, NEW t \in Thread, NEW o, GiveUp(t, o)
  PROVE  Quiet /\ UNCHANGED held
BY DEF GiveUp, At, Return, Goto, AtCopy, PcOK, PC, Quiet

LEMMA EnterWakeOneQuiet ==
  ASSUME PcOK, NEW t \in Thread, ~AtCopy(t), NEW o, NEW q, EnterWakeOne(t, o, q)
  PROVE  Quiet
BY DEF EnterWakeOne, Return, Goto, AtCopy, PcOK, PC, Quiet

LEMMA DetachQuiet ==
  ASSUME PcOK, NEW t \in Thread, NEW o, NEW x, Detach(t, o, x)
  PROVE  Quiet /\ UNCHANGED held
BY DEF Detach, Calls, Goto, AtCopy, PcOK, PC, Quiet

LEMMA DrainTestQuiet ==
  ASSUME PcOK, NEW t \in Thread, NEW o, NEW q, NEW next \in {"user", "test2"},
         \/ DrainTest(t, o, q, "test", "resume", next)
         \/ DrainTest(t, o, q, "test2", "resume2", next)
  PROVE  Quiet /\ UNCHANGED held
BY DEF DrainTest, At, Proceed, Return, Goto, AtCopy, PcOK, PC, Quiet

LEMMA DrainResumeQuiet ==
  ASSUME PcOK, NEW t \in Thread, NEW o, NEW q,
         \/ DrainResume(t, o, q, "test", "resume")
         \/ DrainResume(t, o, q, "test2", "resume2")
  PROVE  Quiet /\ UNCHANGED held
<1>1. pc[t] \in {"resume", "resume2"} /\ UNCHANGED held
  BY DEF DrainResume, At
<1>2. \E a \in {"test", "test2", "wild"} : pc' = [pc EXCEPT ![t] = a]
  BY DEF DrainResume, Proceed
<1> QED
  BY <1>1, <1>2 DEF AtCopy, PcOK, PC, Quiet

LEMMA MbQuiet == ASSUME PcOK, MbNext PROVE Quiet
<1>1. ASSUME NEW t \in Thread, MbSendWait(t) PROVE Quiet
  BY <1>1, WaitQuiet DEF MbSendWait
<1>2. ASSUME NEW t \in Thread, MbSendTimeIsUp(t) PROVE Quiet
  BY <1>2, TimeIsUpQuiet DEF MbSendTimeIsUp
<1>3. ASSUME NEW t \in Thread, MbSend(t) PROVE Quiet
  BY <1>3, EnterWakeOneQuiet DEF MbSend, InLoop, Calls, At, AtCopy
<1>4. ASSUME NEW t \in Thread, MbRecvWait(t) PROVE Quiet
  BY <1>4, WaitQuiet DEF MbRecvWait
<1>5. ASSUME NEW t \in Thread, MbRecvTimeIsUp(t) PROVE Quiet
  BY <1>5, TimeIsUpQuiet DEF MbRecvTimeIsUp
<1>6. ASSUME NEW t \in Thread, MbRecv(t) PROVE Quiet
  BY <1>6, EnterWakeOneQuiet DEF MbRecv, InLoop, Calls, At, AtCopy
<1>7. ASSUME NEW t \in Thread, GiveUp(t, "mb_send") \/ GiveUp(t, "mb_recv") PROVE Quiet
  BY <1>7, GiveUpQuiet
<1>8. ASSUME NEW t \in Thread, MbReset(t) PROVE Quiet
  BY <1>8 DEF MbReset, Calls, Goto, AtCopy, PcOK, PC, Quiet
<1>9. ASSUME NEW t \in Thread, MbDetach(t) PROVE Quiet
  BY <1>9, DetachQuiet, DrainTestQuiet, DrainResumeQuiet DEF MbDetach
<1> QED
  BY <1>1, <1>2, <1>3, <1>4, <1>5, <1>6, <1>7, <1>8, <1>9 DEF MbNext

LEMMA MpQuiet == ASSUME PcOK, MpNext PROVE Quiet
<1>1. ASSUME NEW t \in Thread, MpAllocWait(t) PROVE Quiet
  BY <1>1 DEF MpAllocWait, InLoop, Calls, At, Goto, AtCopy, PcOK, PC, Quiet
<1>2. ASSUME NEW t \in Thread, MpAllocFails(t) PROVE Quiet
  BY <1>2, TimeIsUpQuiet, SamePc DEF MpAllocFails
<1>3. ASSUME NEW t \in Thread, MpAlloc(t) PROVE Quiet
  BY <1>3 DEF MpAlloc, InLoop, Calls, At, Return, Goto, AtCopy, PcOK, PC, Quiet
<1>4. ASSUME NEW t \in Thread, MpFree(t) PROVE Quiet
  BY <1>4 DEF MpFree, Calls, Return, Goto, AtCopy, PcOK, PC, Quiet
<1>5. ASSUME NEW t \in Thread, MpDetach(t) PROVE Quiet
  BY <1>5, DetachQuiet, DrainTestQuiet, DrainResumeQuiet DEF MpDetach
<1>6. ASSUME NEW t \in Thread, GiveUp(t, "mp_alloc") PROVE Quiet
  BY <1>6, GiveUpQuiet
<1> QED
  BY <1>1, <1>2, <1>3, <1>4, <1>5, <1>6 DEF MpNext

LEMMA EvQuiet == ASSUME PcOK, EvNext PROVE Quiet /\ UNCHANGED held
<1>1. ASSUME EvIsrSend PROVE Quiet /\ UNCHANGED held
  BY <1>1, SamePc DEF EvIsrSend
<1>2. ASSUME NEW t \in Thread, EvRecvAtOnce(t) PROVE Quiet /\ UNCHANGED held
  BY <1>2, SamePc DEF EvRecvAtOnce
<1>3. ASSUME NEW t \in Thread, EvRecvFails(t) PROVE Quiet /\ UNCHANGED held
  BY <1>3, SamePc DEF EvRecvFails
<1>4. ASSUME NEW t \in Thread, EvRecvWait(t) PROVE Quiet /\ UNCHANGED held
  BY <1>4, WaitQuiet DEF EvRecvWait, InLoop
<1>5. ASSUME NEW t \in Thread, EvRecvReturn(t) PROVE Quiet /\ UNCHANGED held
  BY <1>5 DEF EvRecvReturn, At, Return, Goto, AtCopy, PcOK, PC, Quiet
<1>6. ASSUME NEW t \in Thread, EvSend(t) PROVE Quiet /\ UNCHANGED held
  BY <1>6 DEF EvSend, Calls, Return, Goto, AtCopy, PcOK, PC, Quiet
<1>7. ASSUME NEW t \in Thread, EvReset(t) PROVE Quiet /\ UNCHANGED held
  BY <1>7 DEF EvReset, Calls, Goto, AtCopy, PcOK, PC, Quiet
<1>8. ASSUME NEW t \in Thread, EvDetach(t) PROVE Quiet /\ UNCHANGED held
  BY <1>8, DetachQuiet, DrainTestQuiet, DrainResumeQuiet DEF EvDetach
<1> QED
  BY <1>1, <1>2, <1>3, <1>4, <1>5, <1>6, <1>7, <1>8 DEF EvNext

LEMMA ProceedQuiet ==
  ASSUME PcOK, NEW t \in Thread, ~AtCopy(t), NEW a \in PC \ {"link", "copy_out"},
         Proceed(t, a)
  PROVE  Quiet
BY DEF Proceed, AtCopy, PcOK, PC, Quiet

LEMMA GotoQuiet ==
  ASSUME PcOK, NEW t \in Thread, ~AtCopy(t), NEW o, NEW a \in PC \ {"link", "copy_out"},
         Goto(t, o, a) \/ Return(t)
  PROVE  Quiet
BY DEF Goto, Return, AtCopy, PcOK, PC, Quiet

LEMMA StIsrStartQuiet ==
  ASSUME PcOK, NEW s \in SoftTimers, StIsrStart(s) PROVE Quiet /\ UNCHANGED held
<1>1. UNCHANGED held
  BY DEF StIsrStart
<1>2. \/ UNCHANGED pc
      \/ pc[TimerThread] = "expired" /\ pc' = [pc EXCEPT ![TimerThread] = "torn"]
  BY DEF StIsrStart, Proceed
<1>3. CASE UNCHANGED pc
  BY <1>1, <1>3, SamePc
<1>4. CASE pc[TimerThread] = "expired" /\ pc' = [pc EXCEPT ![TimerThread] = "torn"]
  BY <1>1, <1>4 DEF PcOK, PC, Quiet
<1> QED
  BY <1>2, <1>3, <1>4

(* A thread that starts or stops a timer *)
LEMMA StThreadQuiet ==
  ASSUME PcOK, NEW t \in Thread,
         \/ \E s \in SoftTimers : StStart(t, s) \/ StStop(t, s)
         \/ StInsert(t) \/ StWake(t) \/ StResumeTest(t) \/ StUnlink(t) \/ StReady(t)
         \/ StRemove(t) \/ StFlag(t)
  PROVE  Quiet /\ UNCHANGED held
<1>1. CASE \E s \in SoftTimers : StStart(t, s) \/ StStop(t, s)
  BY <1>1, GotoQuiet DEF StStart, StStop, Calls, AtCopy, PC
<1>2. CASE StInsert(t) \/ StRemove(t)
  BY <1>2, ProceedQuiet DEF StInsert, StRemove, At, AtCopy, PC
<1>3. CASE StUnlink(t) \/ StReady(t)
  BY <1>3, ProceedQuiet DEF StUnlink, StReady, At, AtCopy, PC
<1>4. CASE StResumeTest(t)
  BY <1>4, ProceedQuiet DEF StResumeTest, At, AtCopy, PC
<1>5. CASE StWake(t)
  BY <1>5, ProceedQuiet, GotoQuiet DEF StWake, At, AtCopy, PC
<1>6. CASE StFlag(t)
  BY <1>6, GotoQuiet DEF StFlag, At, AtCopy, PC
<1> QED
  BY <1>1, <1>2, <1>3, <1>4, <1>5, <1>6

(* The timer thread *)
LEMMA StEntryQuiet ==
  ASSUME PcOK,
         \/ NextTimeout \/ FallAsleep \/ SleepSchedule \/ Check \/ Expire
         \/ CallFunction \/ CheckEnd \/ FuncInsert \/ FuncRemove \/ FuncFlag
         \/ Nap \/ NapSchedule \/ NapReturn
         \/ FuncReturn \/ Restart \/ RestartInsert \/ Expired \/ Mark
         \/ \E s \in SoftTimers : FuncStart(s) \/ FuncStop(s)
  PROVE  Quiet /\ UNCHANGED held
<1>1. ASSUME NEW a \in PC \ {"link", "copy_out"}, NEW b \in PC \ {"link", "copy_out"},
             Entry(a), EntryGoes(b)
      PROVE  Quiet
  BY <1>1, ProceedQuiet, SoftTimerAssumption DEF Entry, EntryGoes, At, AtCopy
<1>2. CASE NextTimeout \/ FallAsleep \/ SleepSchedule \/ Check \/ Expire
  BY <1>1, <1>2 DEF NextTimeout, FallAsleep, SleepSchedule, Check, Expire, PC
<1>3. CASE CallFunction \/ CheckEnd \/ FuncInsert \/ FuncRemove \/ FuncFlag
  BY <1>1, <1>3 DEF CallFunction, CheckEnd, FuncInsert, FuncRemove, FuncFlag, PC
<1>4. CASE Nap \/ NapSchedule \/ NapReturn \/ FuncReturn
  BY <1>1, <1>4 DEF Nap, NapSchedule, NapReturn, FuncReturn, PC
<1>5. CASE Restart \/ RestartInsert \/ Expired \/ Mark
  BY <1>1, <1>5 DEF Restart, RestartInsert, Expired, Mark, PC
<1>6. CASE \E s \in SoftTimers : FuncStart(s) \/ FuncStop(s)
  BY <1>1, <1>6 DEF FuncStart, FuncStop, PC
<1> QED
  BY <1>2, <1>3, <1>4, <1>5, <1>6

LEMMA StQuiet == ASSUME PcOK, StNext PROVE Quiet /\ UNCHANGED held
<1>1. CASE Enter
  BY <1>1, GotoQuiet, SoftTimerAssumption DEF Enter, Calls, AtCopy, PC
<1> QED
  BY <1>1, StIsrStartQuiet, StThreadQuiet, StEntryQuiet DEF StNext

LEMMA HpQuiet == ASSUME PcOK, HpNext PROVE Quiet /\ UNCHANGED held
<1>1. ASSUME NEW t \in Thread, NEW o, SemTake(t, o), pc[t] \in {"user", "again"} PROVE Quiet
  BY <1>1 DEF SemTake, Goto, AtCopy, PcOK, PC, Quiet
<1>2. ASSUME NEW t \in Thread, NEW o, GiveBack(t, o), NEW p, HasHeap(t, p)
      PROVE  Quiet /\ UNCHANGED held
  BY <1>2 DEF GiveBack, HasHeap, At, Goto, AtCopy, PcOK, PC, Quiet
<1>3. ASSUME NEW t \in Thread, Malloc(t) PROVE Quiet /\ UNCHANGED held
  BY <1>1, <1>3 DEF Malloc, Calls
<1>4. ASSUME NEW t \in Thread, NEW o, NEW sizes, Give(t, o, sizes)
      PROVE  Quiet /\ UNCHANGED held
  BY <1>1, <1>4 DEF Give, Calls
<1>5. ASSUME NEW t \in Thread, NEW o, MallocFound(t, o) \/ MallocFailed(t, o) \/ Free(t, o)
      PROVE  Quiet /\ UNCHANGED held
  BY <1>2, <1>5 DEF MallocFound, MallocFailed, Free
<1>6. ASSUME NEW t \in Thread, ReallocSame(t) \/ ReallocCut(t) \/ ReallocMove(t)
      PROVE  Quiet /\ UNCHANGED held
  BY <1>2, <1>6 DEF ReallocSame, ReallocCut, ReallocMove
<1>7. ASSUME NEW t \in Thread, ReleaseHeap(t) PROVE Quiet /\ UNCHANGED held
  BY <1>7 DEF ReleaseHeap, Proceed, Return, Goto, AtCopy, PcOK, PC, Quiet
<1>8. ASSUME NEW t \in Thread, ReleaseSchedule(t) PROVE Quiet /\ UNCHANGED held
  BY <1>8 DEF ReleaseSchedule, Proceed, AtCopy, PcOK, PC, Quiet
<1>9. ASSUME NEW t \in Thread, ReallocGoesOn(t) PROVE Quiet /\ UNCHANGED held
  BY <1>1, <1>9 DEF ReallocGoesOn
<1> QED
  BY <1>3, <1>4, <1>5, <1>6, <1>7, <1>8, <1>9 DEF HpNext

-----------------------------------------------------------------------------
(* A thread has a block in hand exactly while it copies. *)
HandAtCopy == \A t \in Thread : hand[t] # None <=> AtCopy(t)

(* No two threads have the same block in hand. *)
HandsApart == \A t, u \in Thread : t # u /\ hand[t] = hand[u] => hand[t] = None

MqInv == PcOK /\ MqTypeOK /\ MqBlocksConserved /\ HandAtCopy

LEMMA HandTakes ==
  ASSUME MqTypeOK, HandsApart, NEW t \in Thread, hand[t] = None,
         NEW b \in Block, b \notin Hands, hand' = [hand EXCEPT ![t] = b]
  PROVE  /\ hand' \in [Thread -> Block \cup {None}]
         /\ HandsApart' /\ Hands' = Hands \cup {b}
<1>1. hand \in [Thread -> Block \cup {None}] /\ b # None
  BY MessageQueueAssumption DEF MqTypeOK
<1>2. \A u \in Thread : hand[u] # b
  BY <1>1 DEF Hands
<1> QED
  BY <1>1, <1>2 DEF HandsApart, Hands

LEMMA HandPuts ==
  ASSUME MqTypeOK, HandsApart, NEW t \in Thread, hand[t] # None,
         hand' = [hand EXCEPT ![t] = None]
  PROVE  /\ hand' \in [Thread -> Block \cup {None}]
         /\ hand[t] \in Block /\ hand[t] \in Hands
         /\ HandsApart' /\ Hands' = Hands \ {hand[t]}
<1>1. hand \in [Thread -> Block \cup {None}]
  BY DEF MqTypeOK
<1> QED
  BY <1>1 DEF HandsApart, Hands

LEMMA MqInvInit == Init => MqInv
<1> SUFFICES ASSUME Init PROVE MqInv
  OBVIOUS
<1> USE DEF Init, SysInit, MqInit
<1>1. PcOK
  BY DEF PcOK, PC
<1>2. MqTypeOK
  BY MessageQueueAssumption DEF MqTypeOK
<1>3. HandAtCopy
  BY DEF HandAtCopy, AtCopy
<1>4. MqBlocksConserved
  <2>1. Hands = {}
    BY DEF Hands
  <2>2. ToSet(<<>>) = {} /\ IsInjective(<<>>) /\ Len(<<>>) = 0
    BY DEF ToSet, IsInjective
  <2> QED
    BY <2>1, <2>2, MessageQueueAssumption DEF MqBlocksConserved
<1> QED
  BY <1>1, <1>2, <1>3, <1>4 DEF MqInv

(* Whatever does not touch the queue and is quiet keeps the invariant. *)
LEMMA QuietKeeps == ASSUME MqInv, Quiet, UNCHANGED mqVars PROVE MqInv'
BY DEF MqInv, Quiet, HandAtCopy, AtCopy, mqVars, MqTypeOK, MqBlocksConserved, Hands

LEMMA TakeFreeKeeps ==
  ASSUME MqInv, NEW t \in Thread, NEW o, MqTakeFree(t, o)
  PROVE  MqInv'
<1> DEFINE b == Head(free)
<1>1. /\ pc[t] = "user" /\ free # <<>> /\ pc' = [pc EXCEPT ![t] = "link"]
      /\ hand' = [hand EXCEPT ![t] = b] /\ free' = Tail(free)
      /\ UNCHANGED <<queue, entry, content>>
  BY DEF MqTakeFree, Calls, Goto
<1>2. /\ b \in Block /\ free' \in Seq(Block) /\ ToSet(free) = {b} \cup ToSet(free')
      /\ IsInjective(free') /\ b \notin ToSet(free') /\ b \in ToSet(free)
  BY <1>1, TailOfList, HeadOfList DEF MqInv, MqTypeOK, MqBlocksConserved
<1>3. hand[t] = None /\ HandsApart /\ b \notin Hands
  BY <1>1, <1>2 DEF MqInv, HandAtCopy, AtCopy, MqBlocksConserved, HandsApart
<1>4. /\ hand' \in [Thread -> Block \cup {None}]
      /\ HandsApart' /\ Hands' = Hands \cup {b}
  BY <1>1, <1>2, <1>3, HandTakes DEF MqInv
<1>5. PcOK' /\ HandAtCopy'
  BY <1>1, <1>2, MessageQueueAssumption
     DEF MqInv, MqTypeOK, PcOK, PC, HandAtCopy, AtCopy
<1>6. MqTypeOK' /\ MqBlocksConserved'
  BY <1>1, <1>2, <1>3, <1>4 DEF MqInv, MqTypeOK, MqBlocksConserved, HandsApart
<1> QED
  BY <1>5, <1>6 DEF MqInv

(* The block b, on no list any more, joins the queue with the message m. *)
LEMMA EnqueueMembers ==
  ASSUME MqInv, NEW o, NEW b \in Block, b \notin ToSet(queue), NEW m \in Msg,
         Enqueue(o, b, m)
  PROVE  /\ queue' \in Seq(Block) /\ IsInjective(queue')
         /\ ToSet(queue') = ToSet(queue) \cup {b}
         /\ entry' = Len(queue') /\ entry' \in Nat
         /\ content' \in [Block -> Msg]
         /\ queue' \in {Append(queue, b), <<b>> \o queue}
<1>1. queue \in Seq(Block) /\ IsInjective(queue) /\ entry = Len(queue) /\ entry \in Nat
  BY DEF MqInv, MqTypeOK, MqBlocksConserved
<1>2. /\ content' \in [Block -> Msg] /\ entry' = entry + 1
      /\ queue' \in {Append(queue, b), <<b>> \o queue}
  BY DEF Enqueue, MqInv, MqTypeOK
<1>3. /\ Append(queue, b) \in Seq(Block) /\ IsInjective(Append(queue, b))
      /\ ToSet(Append(queue, b)) = ToSet(queue) \cup {b}
      /\ Len(Append(queue, b)) = Len(queue) + 1
  BY <1>1, AppendToList, AppendProperties
<1>4. /\ <<b>> \o queue \in Seq(Block) /\ IsInjective(<<b>> \o queue)
      /\ ToSet(<<b>> \o queue) = ToSet(queue) \cup {b}
      /\ Len(<<b>> \o queue) = Len(queue) + 1
  BY <1>1, PushToList
<1>5. CASE queue' = Append(queue, b)
  BY <1>1, <1>2, <1>3, <1>5
<1>6. CASE queue' = <<b>> \o queue
  BY <1>1, <1>2, <1>4, <1>6
<1> QED
  BY <1>2, <1>5, <1>6

LEMMA SentIsMsg == ASSUME NEW o PROVE Sent(o) \subseteq Msg
BY MessageQueueAssumption DEF Sent

LEMMA LinkKeeps ==
  ASSUME MqInv, NEW t \in Thread, NEW o, MqLink(t, o)
  PROVE  MqInv'
<1> DEFINE b == hand[t]
<1>1. /\ pc[t] = "link" /\ hand' = [hand EXCEPT ![t] = None] /\ UNCHANGED free
      /\ \E a \in {"sched", "user"} : pc' = [pc EXCEPT ![t] = a]
  BY DEF MqLink, At, WakeOneAndReturn, Proceed, Return, Goto
<1>2. PICK m \in Msg : Enqueue(o, b, m)
  BY SentIsMsg DEF MqLink
<1>3. hand[t] # None /\ HandsApart
  BY <1>1 DEF MqInv, HandAtCopy, AtCopy, MqBlocksConserved, HandsApart
<1>4. /\ hand' \in [Thread -> Block \cup {None}]
      /\ b \in Block /\ b \in Hands /\ HandsApart' /\ Hands' = Hands \ {b}
  BY <1>1, <1>3, HandPuts DEF MqInv
<1>5. b \notin ToSet(queue)
  BY <1>4 DEF MqInv, MqBlocksConserved
<1>6. /\ queue' \in Seq(Block) /\ IsInjective(queue')
      /\ ToSet(queue') = ToSet(queue) \cup {b}
      /\ entry' = Len(queue') /\ entry' \in Nat /\ content' \in [Block -> Msg]
  BY <1>2, <1>4, <1>5, EnqueueMembers
<1>7. PcOK' /\ HandAtCopy'
  BY <1>1 DEF MqInv, MqTypeOK, PcOK, PC, HandAtCopy, AtCopy
<1>8. MqTypeOK' /\ MqBlocksConserved'
  BY <1>1, <1>4, <1>6 DEF MqInv, MqTypeOK, MqBlocksConserved, HandsApart
<1> QED
  BY <1>7, <1>8 DEF MqInv

LEMMA IsrSendKeeps ==
  ASSUME MqInv, NEW o, MqIsrSend(o)
  PROVE  MqInv'
<1> DEFINE b == Head(free)
<1>1. /\ free # <<>> /\ free' = Tail(free)
      /\ UNCHANGED <<hand, pc>>
  BY DEF MqIsrSend, IsrWakeOne
<1>2. PICK m \in Msg : Enqueue(o, b, m)
  BY SentIsMsg DEF MqIsrSend
<1>3. /\ b \in Block /\ free' \in Seq(Block) /\ ToSet(free) = {b} \cup ToSet(free')
      /\ IsInjective(free') /\ b \notin ToSet(free') /\ b \in ToSet(free)
  BY <1>1, TailOfList, HeadOfList DEF MqInv, MqTypeOK, MqBlocksConserved
<1>4. b \notin ToSet(queue)
  BY <1>3 DEF MqInv, MqBlocksConserved
<1>5. /\ queue' \in Seq(Block) /\ IsInjective(queue')
      /\ ToSet(queue') = ToSet(queue) \cup {b}
      /\ entry' = Len(queue') /\ entry' \in Nat /\ content' \in [Block -> Msg]
  BY <1>2, <1>3, <1>4, EnqueueMembers
<1>6. PcOK' /\ HandAtCopy' /\ Hands' = Hands
  BY <1>1 DEF MqInv, PcOK, HandAtCopy, AtCopy, Hands
<1>7. MqTypeOK' /\ MqBlocksConserved'
  BY <1>1, <1>3, <1>4, <1>5, <1>6 DEF MqInv, MqTypeOK, MqBlocksConserved
<1> QED
  BY <1>6, <1>7 DEF MqInv

LEMMA RecvTakeKeeps ==
  ASSUME MqInv, NEW t \in Thread, MqRecvTake(t)
  PROVE  MqInv'
<1> DEFINE b == Head(queue)
<1>1. /\ pc[t] \in {"user", "woken"} /\ entry > 0
      /\ pc' = [pc EXCEPT ![t] = "copy_out"]
      /\ hand' = [hand EXCEPT ![t] = b] /\ queue' = Tail(queue) /\ entry' = entry - 1
      /\ UNCHANGED <<free, content>>
  BY DEF MqRecvTake, InLoop, Calls, At, Goto
<1>2. queue # <<>> /\ queue \in Seq(Block) /\ IsInjective(queue) /\ entry = Len(queue)
  BY <1>1 DEF MqInv, MqTypeOK, MqBlocksConserved
<1>3. /\ b \in Block /\ queue' \in Seq(Block) /\ ToSet(queue) = {b} \cup ToSet(queue')
      /\ IsInjective(queue') /\ b \notin ToSet(queue') /\ b \in ToSet(queue)
      /\ Len(queue') = Len(queue) - 1
  BY <1>1, <1>2, TailOfList, HeadOfList
<1>4. hand[t] = None /\ HandsApart /\ b \notin Hands
  BY <1>1, <1>3 DEF MqInv, HandAtCopy, AtCopy, MqBlocksConserved, HandsApart
<1>5. /\ hand' \in [Thread -> Block \cup {None}]
      /\ HandsApart' /\ Hands' = Hands \cup {b}
  BY <1>1, <1>3, <1>4, HandTakes DEF MqInv
<1>6. PcOK' /\ HandAtCopy'
  BY <1>1, <1>3, MessageQueueAssumption
     DEF MqInv, MqTypeOK, PcOK, PC, HandAtCopy, AtCopy
<1>7. entry' = Len(queue') /\ entry' \in Nat
  BY <1>1, <1>2, <1>3 DEF MqInv, MqTypeOK
<1>8. MqTypeOK' /\ MqBlocksConserved'
  BY <1>1, <1>3, <1>4, <1>5, <1>7 DEF MqInv, MqTypeOK, MqBlocksConserved, HandsApart
<1> QED
  BY <1>6, <1>8 DEF MqInv

LEMMA RecvFreeKeeps ==
  ASSUME MqInv, NEW t \in Thread, MqRecvFree(t)
  PROVE  MqInv'
<1> DEFINE b == hand[t]
<1>1. /\ pc[t] = "copy_out" /\ hand' = [hand EXCEPT ![t] = None]
      /\ free' = <<b>> \o free /\ pc' = [pc EXCEPT ![t] = "user"]
      /\ UNCHANGED <<queue, entry, content>>
  BY DEF MqRecvFree, At, Return, Goto
<1>2. hand[t] # None /\ HandsApart
  BY <1>1 DEF MqInv, HandAtCopy, AtCopy, MqBlocksConserved, HandsApart
<1>3. /\ hand' \in [Thread -> Block \cup {None}]
      /\ b \in Block /\ b \in Hands /\ HandsApart' /\ Hands' = Hands \ {b}
  BY <1>1, <1>2, HandPuts DEF MqInv
<1>4. /\ free' \in Seq(Block) /\ IsInjective(free')
      /\ ToSet(free') = ToSet(free) \cup {b}
  BY <1>1, <1>3, PushToList DEF MqInv, MqTypeOK, MqBlocksConserved
<1>5. PcOK' /\ HandAtCopy'
  BY <1>1 DEF MqInv, MqTypeOK, PcOK, PC, HandAtCopy, AtCopy
<1>6. MqTypeOK' /\ MqBlocksConserved'
  BY <1>1, <1>3, <1>4 DEF MqInv, MqTypeOK, MqBlocksConserved, HandsApart
<1> QED
  BY <1>5, <1>6 DEF MqInv

LEMMA ResetKeeps ==
  ASSUME MqInv, NEW t \in Thread, MqReset(t)
  PROVE  MqInv'
<1>1. /\ pc[t] = "user" /\ pc' = [pc EXCEPT ![t] = "sched"]
      /\ free' = Reverse(queue) \o free /\ queue' = <<>> /\ entry' = 0
      /\ UNCHANGED <<hand, content>>
  BY DEF MqReset, Calls, Goto
<1>2. /\ Reverse(queue) \in Seq(Block) /\ ToSet(Reverse(queue)) = ToSet(queue)
      /\ IsInjective(Reverse(queue))
  BY ReverseMembers DEF MqInv, MqTypeOK, MqBlocksConserved
<1>3. /\ free' \in Seq(Block) /\ IsInjective(free')
      /\ ToSet(free') = ToSet(queue) \cup ToSet(free)
  BY <1>1, <1>2, ConcatMembers DEF MqInv, MqTypeOK, MqBlocksConserved
<1>4. /\ queue' \in Seq(Block) /\ IsInjective(queue') /\ ToSet(queue') = {}
      /\ entry' = Len(queue') /\ entry' \in Nat
  BY <1>1 DEF IsInjective, ToSet
<1>5. PcOK' /\ HandAtCopy' /\ Hands' = Hands
  BY <1>1 DEF MqInv, PcOK, PC, HandAtCopy, AtCopy, Hands
<1>6. MqTypeOK' /\ MqBlocksConserved'
  BY <1>1, <1>3, <1>4, <1>5 DEF MqInv, MqTypeOK, MqBlocksConserved
<1> QED
  BY <1>5, <1>6 DEF MqInv

LEMMA MqKeeps == ASSUME MqInv, MqNext PROVE MqInv'
<1>0. PcOK
  BY DEF MqInv
<1>1. ASSUME NEW t \in Thread, MqRecvWait(t) PROVE MqInv'
  BY <1>0, <1>1, WaitQuiet, QuietKeeps DEF MqRecvWait, mqVars
<1>2. ASSUME NEW t \in Thread, MqRecvTimeIsUp(t) PROVE MqInv'
  BY <1>0, <1>2, TimeIsUpQuiet, QuietKeeps DEF MqRecvTimeIsUp, mqVars
<1>3. ASSUME NEW t \in Thread, GiveUp(t, "mq_recv"), UNCHANGED mqVars PROVE MqInv'
  BY <1>0, <1>3, GiveUpQuiet, QuietKeeps
<1>4. ASSUME NEW t \in Thread, MqDetach(t) PROVE MqInv'
  BY <1>0, <1>4, DetachQuiet, DrainTestQuiet, DrainResumeQuiet, QuietKeeps DEF MqDetach
<1> QED
  BY <1>1, <1>2, <1>3, <1>4, TakeFreeKeeps, LinkKeeps, IsrSendKeeps, RecvTakeKeeps,
     RecvFreeKeeps, ResetKeeps DEF MqNext

LEMMA MqInvNext == MqInv /\ [Next]_vars => MqInv'
<1> SUFFICES ASSUME MqInv, [Next]_vars PROVE MqInv'
  OBVIOUS
<1>0. PcOK
  BY DEF MqInv
<1>1. CASE SysNext /\ UNCHANGED mqVars
  BY <1>0, <1>1, SysQuiet, QuietKeeps
<1>2. CASE MbNext /\ UNCHANGED mqVars
  BY <1>0, <1>2, MbQuiet, QuietKeeps
<1>3. CASE MpNext /\ UNCHANGED mqVars
  BY <1>0, <1>3, MpQuiet, QuietKeeps
<1>4. CASE EvNext /\ UNCHANGED mqVars
  BY <1>0, <1>4, EvQuiet, QuietKeeps
<1>5. CASE StNext /\ UNCHANGED mqVars
  BY <1>0, <1>5, StQuiet, QuietKeeps
<1>6. CASE HpNext /\ UNCHANGED mqVars
  BY <1>0, <1>6, HpQuiet, QuietKeeps
<1>7. CASE IsrProduce /\ UNCHANGED mqVars
  BY <1>0, <1>7, SamePc, QuietKeeps DEF IsrProduce, IsrWakeOne
<1>8. CASE UNCHANGED vars
  BY <1>0, <1>8, SamePc, QuietKeeps DEF vars, sysVars
<1> QED
  BY <1>1, <1>2, <1>3, <1>4, <1>5, <1>6, <1>7, <1>8, MqKeeps DEF Next

(* A block of a message queue is on its free list, in the queue or in the   *)
(* hand of one thread, and mq->entry counts the queue, for any threads,     *)
(* blocks and programs: rt_mq_send, rt_mq_urgent and rt_mq_recv lose none   *)
(* and never give one to two.                                               *)
THEOREM MessageBlocksConserved == Spec => []MqBlocksConserved
<1>1. MqInv => MqBlocksConserved
  BY DEF MqInv
<1> QED
  BY <1>1, MqInvInit, MqInvNext, PTL DEF Spec

-----------------------------------------------------------------------------
ContentsAre ==
  /\ Contents \in Seq(Msg) /\ Len(Contents) = Len(queue)
  /\ Len(queue) \in Nat /\ DOMAIN queue = 1 .. Len(queue)
  /\ \A i \in 1 .. Len(queue) : Contents[i] = content[queue[i]]

LEMMA ContentsOf == MqInv => ContentsAre
<1> SUFFICES ASSUME MqInv PROVE ContentsAre
  OBVIOUS
<1>1. queue \in Seq(Block) /\ content \in [Block -> Msg]
  BY DEF MqInv, MqTypeOK
<1>2. /\ Len(queue) \in Nat /\ DOMAIN queue = 1 .. Len(queue)
      /\ \A i \in 1 .. Len(queue) : queue[i] \in Block
  BY <1>1, LenProperties
<1>3. Contents = [i \in 1 .. Len(queue) |-> content[queue[i]]]
  BY <1>2 DEF Contents
<1>4. Contents \in [1 .. Len(queue) -> Msg]
  BY <1>1, <1>2, <1>3
<1>5. Contents \in Seq(Msg)
  BY <1>2, <1>4, SeqDef
<1>6. Len(Contents) = Len(queue)
  BY <1>2, <1>4, <1>5
<1> QED
  BY <1>2, <1>3, <1>5, <1>6 DEF ContentsAre

(* With a block that is not in it, the queue has fewer messages than there  *)
(* are blocks.                                                              *)
LEMMA QueueHasRoom ==
  ASSUME MqInv, NEW b \in Block, b \notin ToSet(queue)
  PROVE  Len(Contents) < Cardinality(Block)
<1> DEFINE n == Len(queue)
<1>1. /\ n \in Nat /\ queue \in [1 .. n -> Block] /\ IsInjective(queue)
      /\ DOMAIN queue = 1 .. n
  BY LenProperties DEF MqInv, MqTypeOK, MqBlocksConserved
<1>2. IsFiniteSet(Block)
  <2> DEFINE N == Len(FreeOrder)
  <2>1. N \in Nat /\ FreeOrder \in [1 .. N -> Block] /\ DOMAIN FreeOrder = 1 .. N
    BY MessageQueueAssumption, LenProperties
  <2>2. \A x \in Block : \E i \in 1 .. N : FreeOrder[i] = x
    BY <2>1, MessageQueueAssumption DEF ToSet
  <2>3. FreeOrder \in Surjection(1 .. N, Block)
    BY <2>1, <2>2 DEF Surjection
  <2>4. IsFiniteSet(1 .. N)
    BY <2>1, FS_Interval
  <2> QED
    BY <2>3, <2>4, FS_Surjection
<1>3. queue \in Injection(1 .. n, Block)
  BY <1>1 DEF Injection, IsInjective
<1>4. queue \notin Surjection(1 .. n, Block)
  BY <1>1 DEF Surjection, ToSet
<1>5. Cardinality(1 .. n) = n
  BY <1>1, FS_Interval
<1>6. /\ Cardinality(1 .. n) <= Cardinality(Block)
      /\ Cardinality(1 .. n) = Cardinality(Block) <=> queue \in Surjection(1 .. n, Block)
  BY <1>2, <1>3, FS_Injection
<1>7. Cardinality(Block) \in Nat
  BY <1>2, FS_CardinalityType
<1> QED
  BY <1>1, <1>4, <1>5, <1>6, <1>7, ContentsOf DEF ContentsAre

LEMMA QuietStutters ==
  ASSUME MqInv, Quiet, UNCHANGED mqVars
  PROVE  UNCHANGED <<Contents, CopiedOut>>
<1>1. Contents' = Contents
  BY DEF mqVars, Contents
<1>2. CopiedOut' = CopiedOut
  BY DEF mqVars, CopiedOut, Quiet
<1> QED
  BY <1>1, <1>2

LEMMA TakeFreeStutters ==
  ASSUME MqInv, NEW t \in Thread, NEW o, MqTakeFree(t, o)
  PROVE  UNCHANGED <<Contents, CopiedOut>>
<1>1. /\ pc[t] = "user" /\ pc' = [pc EXCEPT ![t] = "link"]
      /\ hand' = [hand EXCEPT ![t] = Head(free)] /\ UNCHANGED <<queue, content>>
  BY DEF MqTakeFree, Calls, Goto
<1>2. Contents' = Contents
  BY <1>1 DEF Contents
<1>3. CopiedOut' = CopiedOut
  BY <1>1 DEF MqInv, MqTypeOK, PcOK, CopiedOut
<1> QED
  BY <1>2, <1>3

LEMMA EnqueuePuts ==
  ASSUME MqInv, MqInv', NEW o, NEW b \in Block, b \notin ToSet(queue), NEW m \in Msg,
         Enqueue(o, b, m)
  PROVE  /\ Len(Contents) < Cardinality(Block)
         /\ Contents' = IF o = "mq_urgent" THEN <<m>> \o Contents ELSE Append(Contents, m)
<1> DEFINE n == Len(queue)
<1>0. ContentsAre'
  BY ContentsOf, PTL
<1>1. /\ Contents \in Seq(Msg) /\ Len(Contents) = n /\ n \in Nat
      /\ \A i \in 1 .. n : Contents[i] = content[queue[i]]
      /\ DOMAIN queue = 1 .. n
  BY ContentsOf DEF ContentsAre
<1>2. /\ Contents' \in Seq(Msg) /\ Len(Contents') = Len(queue')
      /\ \A i \in 1 .. Len(queue') : Contents'[i] = content'[queue'[i]]
  BY <1>0 DEF ContentsAre
<1>3. queue \in Seq(Block) /\ \A i \in 1 .. n : queue[i] \in Block /\ queue[i] # b
  <2>1. queue \in Seq(Block)
    BY DEF MqInv, MqTypeOK
  <2>2. \A i \in 1 .. n : queue[i] \in Block
    BY <2>1, ElementOfSeq
  <2> QED
    BY <1>1, <2>1, <2>2 DEF ToSet
<1>4. content'[b] = m /\ \A i \in 1 .. n : content'[queue[i]] = Contents[i]
  BY <1>1, <1>3 DEF Enqueue, MqInv, MqTypeOK
<1>5. CASE o # "mq_urgent"
  <2>0. queue' = Append(queue, b)
    BY <1>5 DEF Enqueue
  <2>1. /\ Len(queue') = n + 1 /\ queue'[n + 1] = b
        /\ \A i \in 1 .. n : queue'[i] = queue[i]
    BY <1>1, <1>3, <2>0, AppendProperties
  <2>2. /\ Append(Contents, m) \in Seq(Msg) /\ Len(Append(Contents, m)) = n + 1
        /\ Append(Contents, m)[n + 1] = m
        /\ \A i \in 1 .. n : Append(Contents, m)[i] = Contents[i]
    BY <1>1, AppendProperties
  <2>3. \A i \in 1 .. n + 1 : Contents'[i] = Append(Contents, m)[i]
    BY <1>1, <1>2, <1>4, <2>1, <2>2
  <2> QED
    BY <1>2, <1>5, <2>1, <2>2, <2>3, SeqEqual, QueueHasRoom
<1>6. CASE o = "mq_urgent"
  <2>0. /\ queue' = <<b>> \o queue
        /\ <<b>> \in Seq(Block) /\ <<m>> \in Seq(Msg) /\ Len(<<b>>) = 1 /\ Len(<<m>>) = 1
    BY <1>6 DEF Enqueue
  <2>1. /\ Len(queue') = n + 1
        /\ \A i \in 1 .. n + 1 : queue'[i] = IF i <= 1 THEN <<b>>[i] ELSE queue[i - 1]
    BY <1>1, <1>3, <2>0, ConcatProperties
  <2>2. /\ <<m>> \o Contents \in Seq(Msg) /\ Len(<<m>> \o Contents) = n + 1
        /\ \A i \in 1 .. n + 1 :
             (<<m>> \o Contents)[i] = IF i <= 1 THEN <<m>>[i] ELSE Contents[i - 1]
    BY <1>1, <2>0, ConcatProperties
  <2>3. ASSUME NEW i \in 1 .. n + 1 PROVE Contents'[i] = (<<m>> \o Contents)[i]
    <3>1. CASE i = 1
      BY <1>2, <1>4, <2>1, <2>2, <3>1
    <3>2. CASE i # 1
      <4>1. i - 1 \in 1 .. n /\ ~(i <= 1)
        BY <1>1, <3>2
      <4> QED
        BY <1>2, <1>4, <2>1, <2>2, <4>1
    <3> QED
      BY <3>1, <3>2
  <2> QED
    BY <1>2, <1>6, <2>1, <2>2, <2>3, SeqEqual, QueueHasRoom
<1> QED
  BY <1>5, <1>6

(* A sent message goes to the end of the queue, an urgent one to its head. *)
LEMMA SentPuts ==
  ASSUME NEW o, NEW m \in Sent(o), Len(Contents) < Cardinality(Block),
         Contents' = IF o = "mq_urgent" THEN <<m>> \o Contents ELSE Append(Contents, m),
         UNCHANGED CopiedOut
  PROVE  Messages!NextMessage
<1>1. CASE o = "mq_urgent"
  BY <1>1 DEF Sent, Messages!NextMessage, Messages!PutFirst
<1>2. CASE o # "mq_urgent"
  BY <1>2 DEF Sent, Messages!NextMessage, Messages!PutLast
<1> QED
  BY <1>1, <1>2

LEMMA LinkPuts ==
  ASSUME MqInv, MqInv', NEW t \in Thread, NEW o, MqLink(t, o)
  PROVE  Messages!NextMessage
<1> DEFINE b == hand[t]
<1>1. /\ pc[t] = "link" /\ \E a \in {"sched", "user"} : pc' = [pc EXCEPT ![t] = a]
      /\ hand' = [hand EXCEPT ![t] = None]
  BY DEF MqLink, At, WakeOneAndReturn, Proceed, Return, Goto
<1>2. PICK m \in Sent(o) : Enqueue(o, b, m)
  BY DEF MqLink
<1>3. b \in Block /\ b \in Hands /\ HandsApart /\ b # None
  BY <1>1, HandPuts DEF MqInv, HandAtCopy, AtCopy, MqBlocksConserved, HandsApart
<1>4. /\ Len(Contents) < Cardinality(Block)
      /\ Contents' = IF o = "mq_urgent" THEN <<m>> \o Contents ELSE Append(Contents, m)
  BY <1>2, <1>3, SentIsMsg, EnqueuePuts DEF MqInv, MqBlocksConserved
<1>5. \A u \in Thread : /\ pc'[u] = "copy_out" <=> pc[u] = "copy_out"
                        /\ pc[u] = "copy_out" => u # t /\ hand'[u] = hand[u]
  BY <1>1 DEF MqInv, PcOK, MqTypeOK
<1>6. \A u \in Thread : pc[u] = "copy_out" => hand[u] \in Block /\ hand[u] # b
  BY <1>3, <1>5 DEF MqInv, MqTypeOK, HandAtCopy, AtCopy, HandsApart
<1>7. \A u \in Thread : pc[u] = "copy_out" => content'[hand[u]] = content[hand[u]]
  BY <1>2, <1>6 DEF Enqueue, MqInv, MqTypeOK
<1>8. CopiedOut' = CopiedOut
  BY <1>5, <1>7 DEF CopiedOut
<1> QED
  BY <1>2, <1>4, <1>8, SentPuts

LEMMA IsrSendPuts ==
  ASSUME MqInv, MqInv', NEW o, MqIsrSend(o)
  PROVE  Messages!NextMessage
<1> DEFINE b == Head(free)
<1>1. free # <<>> /\ UNCHANGED <<hand, pc>>
  BY DEF MqIsrSend, IsrWakeOne
<1>2. PICK m \in Sent(o) : Enqueue(o, b, m)
  BY DEF MqIsrSend
<1>3. b \in Block /\ b \in ToSet(free)
  BY <1>1, HeadOfList DEF MqInv, MqTypeOK
<1>4. b \notin ToSet(queue) /\ b \notin Hands
  BY <1>3 DEF MqInv, MqBlocksConserved
<1>5. /\ Len(Contents) < Cardinality(Block)
      /\ Contents' = IF o = "mq_urgent" THEN <<m>> \o Contents ELSE Append(Contents, m)
  BY <1>2, <1>3, <1>4, SentIsMsg, EnqueuePuts
<1>6. \A u \in Thread : pc[u] = "copy_out" => hand[u] \in Block /\ hand[u] # b
  BY <1>4 DEF MqInv, MqTypeOK, HandAtCopy, AtCopy, Hands
<1>7. \A u \in Thread : pc[u] = "copy_out" => content'[hand[u]] = content[hand[u]]
  BY <1>2, <1>6 DEF Enqueue, MqInv, MqTypeOK
<1>8. CopiedOut' = CopiedOut
  BY <1>1, <1>7 DEF CopiedOut
<1> QED
  BY <1>2, <1>5, <1>8, SentPuts

LEMMA RecvTakeGets ==
  ASSUME MqInv, MqInv', NEW t \in Thread, MqRecvTake(t)
  PROVE  Messages!NextMessage
<1> DEFINE b == Head(queue)
           n == Len(queue)
<1>0. ContentsAre'
  BY ContentsOf, PTL
<1>1. /\ pc[t] \in {"user", "woken"} /\ pc' = [pc EXCEPT ![t] = "copy_out"]
      /\ hand' = [hand EXCEPT ![t] = b] /\ queue' = Tail(queue) /\ entry > 0
      /\ content' = content
  BY DEF MqRecvTake, InLoop, Calls, At, Goto
<1>2. queue \in Seq(Block) /\ queue # <<>> /\ b = queue[1]
  BY <1>1 DEF MqInv, MqTypeOK, MqBlocksConserved
<1>3. /\ Contents \in Seq(Msg) /\ Len(Contents) = n /\ n \in Nat \ {0}
      /\ Contents # <<>> /\ Head(Contents) = content[b]
      /\ \A i \in 1 .. n : Contents[i] = content[queue[i]]
  BY <1>2, ContentsOf, EmptySeq DEF ContentsAre
<1>4. Contents' = Tail(Contents)
  <2>1. /\ Len(queue') = n - 1 /\ \A i \in 1 .. n - 1 : queue'[i] = queue[i + 1]
    BY <1>1, <1>2, HeadTailProperties
  <2>2. /\ Tail(Contents) \in Seq(Msg) /\ Len(Tail(Contents)) = n - 1
        /\ \A i \in 1 .. n - 1 : Tail(Contents)[i] = Contents[i + 1]
    BY <1>3, HeadTailProperties
  <2>3. /\ Contents' \in Seq(Msg) /\ Len(Contents') = n - 1
        /\ \A i \in 1 .. n - 1 : Contents'[i] = content[queue'[i]]
    BY <1>0, <1>1, <2>1 DEF ContentsAre
  <2>4. ASSUME NEW i \in 1 .. n - 1 PROVE Contents'[i] = Tail(Contents)[i]
    <3>1. i + 1 \in 1 .. n
      BY <1>3
    <3> QED
      BY <1>3, <2>1, <2>2, <2>3, <3>1
  <2> QED
    BY <2>2, <2>3, <2>4, SeqEqual
<1>5. CopiedOut[t] = None
  BY <1>1 DEF CopiedOut
<1>6. CopiedOut' = [CopiedOut EXCEPT ![t] = content[b]]
  BY <1>1 DEF CopiedOut, MqInv, MqTypeOK, PcOK
<1> QED
  BY <1>3, <1>4, <1>5, <1>6 DEF Messages!NextMessage, Messages!Get

LEMMA RecvFreeReceives ==
  ASSUME MqInv, NEW t \in Thread, MqRecvFree(t)
  PROVE  Messages!NextMessage
<1>1. /\ pc[t] = "copy_out" /\ pc' = [pc EXCEPT ![t] = "user"]
      /\ hand' = [hand EXCEPT ![t] = None]
      /\ UNCHANGED <<queue, content>>
  BY DEF MqRecvFree, At, Return, Goto
<1>2. Contents' = Contents
  BY <1>1 DEF Contents
<1>3. content[hand[t]] \in Msg
  BY <1>1 DEF MqInv, MqTypeOK, HandAtCopy, AtCopy
<1>4. CopiedOut[t] # None
  BY <1>1, <1>3, MessageQueueAssumption DEF CopiedOut
<1>5. CopiedOut' = [CopiedOut EXCEPT ![t] = None]
  BY <1>1 DEF CopiedOut, MqInv, MqTypeOK, PcOK
<1> QED
  BY <1>2, <1>4, <1>5 DEF Messages!NextMessage, Messages!Received

LEMMA ResetClears ==
  ASSUME MqInv, MqInv', NEW t \in Thread, MqReset(t)
  PROVE  Messages!NextMessage
<1>0. ContentsAre'
  BY ContentsOf, PTL
<1>1. /\ pc[t] = "user" /\ pc' = [pc EXCEPT ![t] = "sched"]
      /\ queue' = <<>> /\ UNCHANGED <<hand, content>>
  BY DEF MqReset, Calls, Goto
<1>2. Contents' \in Seq(Msg) /\ Len(Contents') = 0
  BY <1>0, <1>1 DEF ContentsAre
<1>3. Contents' = <<>>
  BY <1>2, EmptySeq
<1>4. CopiedOut' = CopiedOut
  BY <1>1 DEF CopiedOut, MqInv, PcOK
<1> QED
  BY <1>3, <1>4 DEF Messages!NextMessage, Messages!Clear

LEMMA MqImplements ==
  ASSUME MqInv, MqInv', MqNext
  PROVE  Messages!NextMessage \/ UNCHANGED <<Contents, CopiedOut>>
<1>0. PcOK
  BY DEF MqInv
<1> DEFINE Stutter == UNCHANGED <<Contents, CopiedOut>>
<1>1. ASSUME NEW t \in Thread, MqRecvWait(t) PROVE Stutter
  BY <1>0, <1>1, WaitQuiet, QuietStutters DEF MqRecvWait, mqVars
<1>2. ASSUME NEW t \in Thread, MqRecvTimeIsUp(t) PROVE Stutter
  BY <1>0, <1>2, TimeIsUpQuiet, QuietStutters DEF MqRecvTimeIsUp, mqVars
<1>3. ASSUME NEW t \in Thread, GiveUp(t, "mq_recv"), UNCHANGED mqVars PROVE Stutter
  BY <1>0, <1>3, GiveUpQuiet, QuietStutters
<1>4. ASSUME NEW t \in Thread, MqDetach(t) PROVE Stutter
  BY <1>0, <1>4, DetachQuiet, DrainTestQuiet, DrainResumeQuiet, QuietStutters DEF MqDetach
<1> HIDE DEF Stutter
<1>5. ASSUME NEW t \in Thread, NEW o, MqTakeFree(t, o) PROVE Stutter
  BY <1>5, TakeFreeStutters DEF Stutter
<1>6. Stutter \/ Messages!NextMessage
  BY <1>1, <1>2, <1>3, <1>4, <1>5, LinkPuts, IsrSendPuts, RecvTakeGets,
     RecvFreeReceives, ResetClears DEF MqNext
<1> QED
  BY <1>6 DEF Stutter

-----------------------------------------------------------------------------
(* The blocks of a memory pool that threads and interrupt handlers          *)
(* allocate, post in a mailbox, receive and free: each one is in one place, *)
(* and the mailbox is a bounded queue.                                      *)

(* The ring of the mailbox ends mb_entry slots after it begins. *)
RingOK == in_offset = Wrap(out_offset + mb_entry)

(* No two threads have the same block. *)
HeldApart == \A t, u \in Thread : t # u /\ held[t] = held[u] => held[t] = None

ItemInv ==
  /\ held \in [Thread -> Item \cup {None}]
  /\ block_list \in Seq(Item)
  /\ MbTypeOK
  /\ RingOK
  /\ ItemsConserved

Mail == Item \cup {None}

LEMMA HeldTakes ==
  ASSUME ItemInv, NEW t \in Thread, held[t] = None,
         NEW b \in Item, b \notin HeldItems, held' = [held EXCEPT ![t] = b]
  PROVE  /\ held' \in [Thread -> Item \cup {None}]
         /\ HeldApart' /\ HeldItems' = HeldItems \cup {b}
<1>1. held \in [Thread -> Item \cup {None}] /\ b # None /\ HeldApart
  BY SystemAssumption DEF ItemInv, ItemsConserved, HeldApart
<1>2. \A u \in Thread : held[u] # b
  BY <1>1 DEF HeldItems
<1> QED
  BY <1>1, <1>2 DEF HeldApart, HeldItems

LEMMA HeldPuts ==
  ASSUME ItemInv, NEW t \in Thread, held[t] # None, held' = [held EXCEPT ![t] = None]
  PROVE  /\ held' \in [Thread -> Item \cup {None}]
         /\ held[t] \in Item /\ held[t] \in HeldItems
         /\ HeldApart' /\ HeldItems' = HeldItems \ {held[t]}
<1>1. held \in [Thread -> Item \cup {None}] /\ HeldApart
  BY DEF ItemInv, ItemsConserved, HeldApart
<1> QED
  BY <1>1 DEF HeldApart, HeldItems

-----------------------------------------------------------------------------
(* The mails in the ring *)
MailsAre ==
  /\ Mails \in Seq(Mail) /\ Len(Mails) = mb_entry
  /\ \A i \in 1 .. mb_entry : Mails[i] = msg_pool[Wrap(out_offset + i - 1)]

LEMMA MailsOf == MbTypeOK => MailsAre
<1> SUFFICES ASSUME MbTypeOK PROVE MailsAre
  OBVIOUS
<1>1. /\ MbSize \in Nat \ {0} /\ mb_entry \in Nat /\ mb_entry <= MbSize
      /\ out_offset \in 0 .. MbSize - 1 /\ msg_pool \in [0 .. MbSize - 1 -> Mail]
  BY MailboxAssumption DEF MbTypeOK, Slot, Mail
<1>2. \A i \in 1 .. mb_entry : Wrap(out_offset + i - 1) \in 0 .. MbSize - 1
  BY <1>1 DEF Wrap
<1>3. Mails \in [1 .. mb_entry -> Mail]
  BY <1>1, <1>2 DEF Mails
<1>4. Mails \in Seq(Mail)
  BY <1>1, <1>3, SeqDef
<1> QED
  BY <1>1, <1>3, <1>4 DEF MailsAre, Mails

LEMMA PutMailAppends ==
  ASSUME ItemInv, NEW v \in Item, PutMail(v)
  PROVE  MbTypeOK' /\ RingOK' /\ Mails' = Append(Mails, v) /\ Len(Mails) < MbSize
<1>1. /\ MbSize \in Nat \ {0} /\ mb_entry \in Nat /\ mb_entry <= MbSize
      /\ out_offset \in 0 .. MbSize - 1 /\ in_offset \in 0 .. MbSize - 1
      /\ msg_pool \in [0 .. MbSize - 1 -> Mail]
      /\ in_offset = Wrap(out_offset + mb_entry)
  BY MailboxAssumption DEF ItemInv, MbTypeOK, RingOK, Slot, Mail
<1>2. /\ mb_entry < MbSize /\ mb_entry' = mb_entry + 1 /\ out_offset' = out_offset
      /\ msg_pool' = [msg_pool EXCEPT ![in_offset] = v]
      /\ in_offset' = NextSlot(in_offset) /\ dropped' = dropped
  BY <1>1 DEF PutMail
<1>3. in_offset' \in 0 .. MbSize - 1 /\ msg_pool' \in [0 .. MbSize - 1 -> Mail]
  BY <1>1, <1>2 DEF NextSlot, Mail
<1>4. MbTypeOK'
  BY <1>1, <1>2, <1>3 DEF ItemInv, MbTypeOK, Slot, Mail
<1>5. RingOK'
  BY <1>1, <1>2 DEF RingOK, NextSlot, Wrap
<1>6. \A i \in 1 .. mb_entry : /\ Wrap(out_offset + i - 1) \in 0 .. MbSize - 1
                               /\ Wrap(out_offset + i - 1) # in_offset
  BY <1>1, <1>2 DEF Wrap
<1>7. MailsAre /\ MailsAre'
  <2>1. MbTypeOK
    BY DEF ItemInv
  <2> QED
    BY <1>4, <2>1, MailsOf, PTL
<1>8. \A i \in 1 .. mb_entry : Mails'[i] = Mails[i]
  BY <1>1, <1>2, <1>6, <1>7 DEF MailsAre
<1>9. Mails'[mb_entry + 1] = v
  <2>1. out_offset + (mb_entry + 1) - 1 = out_offset + mb_entry
    BY <1>1
  <2> QED
    BY <1>1, <1>2, <1>7, <2>1 DEF MailsAre
<1>10. /\ Append(Mails, v) \in Seq(Mail) /\ Len(Append(Mails, v)) = mb_entry + 1
       /\ Append(Mails, v)[mb_entry + 1] = v
       /\ \A i \in 1 .. mb_entry : Append(Mails, v)[i] = Mails[i]
  <2>1. v \in Mail /\ Mails \in Seq(Mail) /\ Len(Mails) = mb_entry
    BY <1>7 DEF Mail, MailsAre
  <2> QED
    BY <1>1, <2>1, AppendProperties
<1>11. \A i \in 1 .. mb_entry + 1 : Mails'[i] = Append(Mails, v)[i]
  BY <1>1, <1>8, <1>9, <1>10
<1>12. Mails' = Append(Mails, v)
  BY <1>2, <1>7, <1>10, <1>11, SeqEqual DEF MailsAre
<1> QED
  BY <1>2, <1>4, <1>5, <1>7, <1>12 DEF MailsAre

(* The first mail leaves the ring. *)
GetMail ==
  /\ mb_entry # 0
  /\ out_offset' = NextSlot(out_offset)
  /\ mb_entry' = mb_entry - 1
  /\ UNCHANGED <<msg_pool, in_offset, dropped>>

LEMMA GetMailTail ==
  ASSUME ItemInv, GetMail
  PROVE  /\ MbTypeOK' /\ RingOK'
         /\ Mails # <<>> /\ Mails' = Tail(Mails) /\ msg_pool[out_offset] = Head(Mails)
<1>1. /\ MbSize \in Nat \ {0} /\ mb_entry \in Nat \ {0} /\ mb_entry <= MbSize
      /\ out_offset \in 0 .. MbSize - 1 /\ in_offset \in 0 .. MbSize - 1
      /\ in_offset = Wrap(out_offset + mb_entry)
  BY MailboxAssumption DEF ItemInv, MbTypeOK, RingOK, Slot, Mail, GetMail
<1>2. /\ mb_entry' = mb_entry - 1 /\ out_offset' = NextSlot(out_offset)
      /\ msg_pool' = msg_pool /\ in_offset' = in_offset /\ dropped' = dropped
  BY DEF GetMail
<1>3. MbTypeOK'
  BY <1>1, <1>2 DEF ItemInv, MbTypeOK, Slot, NextSlot
<1>4. RingOK'
  BY <1>1, <1>2 DEF RingOK, NextSlot, Wrap
<1>5. MailsAre /\ MailsAre'
  <2>1. MbTypeOK
    BY DEF ItemInv
  <2> QED
    BY <1>3, <2>1, MailsOf, PTL
<1>6. Mails # <<>> /\ Head(Mails) = Mails[1]
  BY <1>1, <1>5, EmptySeq DEF MailsAre
<1>7. Wrap(out_offset + 1 - 1) = out_offset
  BY <1>1 DEF Wrap
<1>8. msg_pool[out_offset] = Head(Mails)
  BY <1>1, <1>5, <1>6, <1>7 DEF MailsAre
<1>9. \A i \in 1 .. mb_entry - 1 : /\ i + 1 \in 1 .. mb_entry
                                   /\ Wrap(out_offset' + i - 1) = Wrap(out_offset + (i + 1) - 1)
  BY <1>1, <1>2 DEF NextSlot, Wrap
<1>10. /\ Tail(Mails) \in Seq(Mail) /\ Len(Tail(Mails)) = mb_entry - 1
       /\ \A i \in 1 .. mb_entry - 1 : Tail(Mails)[i] = Mails[i + 1]
  BY <1>5, <1>6, HeadTailProperties DEF MailsAre
<1>11. \A i \in 1 .. mb_entry - 1 : Mails'[i] = Tail(Mails)[i]
  BY <1>2, <1>5, <1>9, <1>10 DEF MailsAre
<1>12. Mails' = Tail(Mails)
  BY <1>2, <1>5, <1>10, <1>11, SeqEqual DEF MailsAre
<1> QED
  BY <1>3, <1>4, <1>6, <1>8, <1>12

-----------------------------------------------------------------------------
LEMMA ItemInvInit == Init => ItemInv
<1> SUFFICES ASSUME Init PROVE ItemInv
  OBVIOUS
<1> USE DEF Init, SysInit, MbInit, MpInit
<1>1. held \in [Thread -> Item \cup {None}] /\ block_list \in Seq(Item) /\ HeldItems = {}
  BY MemPoolAssumption DEF HeldItems
<1>2. MbTypeOK
  BY MailboxAssumption DEF MbTypeOK, Slot
<1>3. RingOK
  BY MailboxAssumption DEF RingOK, Wrap
<1>4. Mails = <<>>
  BY <1>2, MailsOf, EmptySeq DEF MailsAre
<1>5. ToSet(Mails) = {} /\ IsInjective(Mails)
  BY <1>4 DEF ToSet, IsInjective
<1>6. ItemsConserved
  BY <1>1, <1>5, MemPoolAssumption DEF ItemsConserved
<1> QED
  BY <1>1, <1>2, <1>3, <1>6 DEF ItemInv

LEMMA UnchangedKeeps ==
  ASSUME ItemInv, UNCHANGED <<held, mbVars, block_list, block_free_count>>
  PROVE  ItemInv' /\ Mails' = Mails
<1>1. Mails' = Mails
  BY DEF Mails, Wrap, mbVars
<1>2. HeldItems' = HeldItems
  BY DEF HeldItems
<1>3. MbTypeOK' /\ RingOK'
  BY DEF ItemInv, MbTypeOK, RingOK, Wrap, mbVars, Slot
<1>4. ItemsConserved'
  BY <1>1, <1>2 DEF ItemInv, ItemsConserved, mbVars
<1> QED
  BY <1>1, <1>3, <1>4 DEF ItemInv

(* Mails are blocks. *)
LEMMA MailsAreItems ==
  ASSUME ItemInv
  PROVE  Mails \in Seq(Mail) /\ ToSet(Mails) \subseteq Item /\ None \notin ToSet(Mails)
BY MailsOf, SystemAssumption DEF ItemInv, ItemsConserved, MailsAre

(* A mail that is sent, received or discarded is one step of the bounded     *)
(* queue, and its block has only changed its place.                         *)
LEMMA MbSendKeeps ==
  ASSUME ItemInv, NEW t \in Thread, MbSend(t), UNCHANGED mpVars
  PROVE  ItemInv' /\ Posted!NextMail
<1> DEFINE v == held[t]
<1>1. /\ v # None /\ held' = [held EXCEPT ![t] = None] /\ PutMail(v)
      /\ dropped' = dropped /\ UNCHANGED <<block_list, block_free_count>>
  BY DEF MbSend, PutMail, mpVars
<1>2. /\ held' \in [Thread -> Item \cup {None}] /\ v \in Item /\ v \in HeldItems
      /\ HeldApart' /\ HeldItems' = HeldItems \ {v}
  BY <1>1, HeldPuts
<1>3. MbTypeOK' /\ RingOK' /\ Mails' = Append(Mails, v) /\ Len(Mails) < MbSize
  BY <1>1, <1>2, PutMailAppends
<1>4. v \notin ToSet(Mails) /\ IsInjective(Mails)
  BY <1>2 DEF ItemInv, ItemsConserved
<1>5. ToSet(Mails') = ToSet(Mails) \cup {v} /\ IsInjective(Mails')
  BY <1>2, <1>3, <1>4, MailsAreItems, AppendToList DEF Mail
<1>6. ItemsConserved'
  BY <1>1, <1>2, <1>5 DEF ItemInv, ItemsConserved, HeldApart
<1>7. ItemInv'
  BY <1>1, <1>2, <1>3, <1>6 DEF ItemInv
<1> QED
  BY <1>2, <1>3, <1>7 DEF Posted!NextMail, Posted!PutLast

LEMMA MbRecvKeeps ==
  ASSUME ItemInv, NEW t \in Thread, MbRecv(t), UNCHANGED mpVars
  PROVE  ItemInv' /\ Posted!NextMail
<1> DEFINE v == msg_pool[out_offset]
<1>1. /\ held[t] = None /\ held' = [held EXCEPT ![t] = v] /\ GetMail
      /\ dropped' = dropped /\ UNCHANGED <<block_list, block_free_count>>
  BY DEF MbRecv, GetMail, mpVars
<1>2. /\ MbTypeOK' /\ RingOK'
      /\ Mails # <<>> /\ Mails' = Tail(Mails) /\ v = Head(Mails)
  BY <1>1, GetMailTail
<1>3. /\ v \in ToSet(Mails) /\ ToSet(Mails) = {v} \cup ToSet(Mails')
      /\ IsInjective(Mails') /\ v \notin ToSet(Mails')
  BY <1>2, MailsAreItems, HeadOfList, TailOfList DEF ItemInv, ItemsConserved
<1>4. v \in Item /\ v \notin HeldItems
  BY <1>3, MailsAreItems DEF ItemInv, ItemsConserved
<1>5. /\ held' \in [Thread -> Item \cup {None}]
      /\ HeldApart' /\ HeldItems' = HeldItems \cup {v}
  BY <1>1, <1>4, HeldTakes
<1>6. ItemsConserved'
  BY <1>1, <1>3, <1>4, <1>5 DEF ItemInv, ItemsConserved, HeldApart
<1>7. ItemInv'
  BY <1>1, <1>2, <1>5, <1>6 DEF ItemInv
<1> QED
  BY <1>2, <1>7 DEF Posted!NextMail, Posted!GetAtOnce

LEMMA MbResetKeeps ==
  ASSUME ItemInv, NEW t \in Thread, MbReset(t), UNCHANGED mpVars
  PROVE  ItemInv' /\ Posted!NextMail
<1>1. /\ mb_entry' = 0 /\ in_offset' = 0 /\ out_offset' = 0 /\ msg_pool' = msg_pool
      /\ dropped' = dropped \cup ToSet(Mails)
      /\ UNCHANGED <<held, block_list, block_free_count>>
  BY DEF MbReset, mpVars
<1>2. MbTypeOK'
  BY <1>1, MailboxAssumption, MailsAreItems DEF ItemInv, MbTypeOK, Slot
<1>3. RingOK'
  BY <1>1, MailboxAssumption DEF RingOK, Wrap
<1>4. MailsAre'
  BY <1>2, MailsOf, PTL
<1>5. Mails' = <<>>
  BY <1>1, <1>4, EmptySeq DEF MailsAre
<1>6. ToSet(Mails') = {} /\ IsInjective(Mails')
  BY <1>5 DEF ToSet, IsInjective
<1>7. HeldItems' = HeldItems
  BY <1>1 DEF HeldItems
<1>8. ItemsConserved'
  BY <1>1, <1>6, <1>7 DEF ItemInv, ItemsConserved
<1>9. ItemInv'
  BY <1>1, <1>2, <1>3, <1>8 DEF ItemInv
<1> QED
  BY <1>5, <1>9 DEF Posted!NextMail, Posted!Clear

(* The first block leaves the pool. *)
LEMMA TakeBlockMembers ==
  ASSUME ItemInv, TakeBlock
  PROVE  LET b == Head(block_list) IN
         /\ b \in Item /\ block_list' \in Seq(Item) /\ block_free_count' = Len(block_list')
         /\ b \in ToSet(block_list) /\ ToSet(block_list) = {b} \cup ToSet(block_list')
         /\ IsInjective(block_list') /\ b \notin ToSet(block_list')
<1>1. /\ block_list \in Seq(Item) /\ block_free_count = Len(block_list)
      /\ IsInjective(block_list)
  BY DEF ItemInv, ItemsConserved
<1>2. block_list # <<>> /\ block_list' = Tail(block_list)
  BY <1>1 DEF TakeBlock
<1> QED
  BY <1>1, <1>2, HeadOfList, TailOfList DEF TakeBlock

LEMMA MpAllocKeeps ==
  ASSUME ItemInv, NEW t \in Thread, MpAlloc(t), UNCHANGED mbVars
  PROVE  ItemInv' /\ Mails' = Mails
<1> DEFINE b == Head(block_list)
<1>1. TakeBlock /\ held[t] = None /\ held' = [held EXCEPT ![t] = b]
  BY DEF MpAlloc
<1>2. /\ b \in Item /\ block_list' \in Seq(Item) /\ block_free_count' = Len(block_list')
      /\ b \in ToSet(block_list) /\ ToSet(block_list) = {b} \cup ToSet(block_list')
      /\ IsInjective(block_list') /\ b \notin ToSet(block_list')
  BY <1>1, TakeBlockMembers
<1>3. b \notin HeldItems
  BY <1>2 DEF ItemInv, ItemsConserved
<1>4. /\ held' \in [Thread -> Item \cup {None}]
      /\ HeldApart' /\ HeldItems' = HeldItems \cup {b}
  BY <1>1, <1>2, <1>3, HeldTakes
<1>5. Mails' = Mails /\ dropped' = dropped
  BY DEF Mails, Wrap, mbVars
<1>6. MbTypeOK' /\ RingOK'
  BY DEF ItemInv, MbTypeOK, RingOK, Wrap, mbVars, Slot
<1>7. ItemsConserved'
  BY <1>2, <1>4, <1>5 DEF ItemInv, ItemsConserved, HeldApart
<1> QED
  BY <1>2, <1>4, <1>5, <1>6, <1>7 DEF ItemInv

LEMMA MpFreeKeeps ==
  ASSUME ItemInv, NEW t \in Thread, MpFree(t), UNCHANGED mbVars
  PROVE  ItemInv' /\ Mails' = Mails
<1> DEFINE b == held[t]
<1>1. /\ b # None /\ held' = [held EXCEPT ![t] = None]
      /\ block_list' = <<b>> \o block_list /\ block_free_count' = block_free_count + 1
  BY DEF MpFree
<1>2. /\ held' \in [Thread -> Item \cup {None}] /\ b \in Item /\ b \in HeldItems
      /\ HeldApart' /\ HeldItems' = HeldItems \ {b}
  BY <1>1, HeldPuts
<1>3. /\ block_list \in Seq(Item) /\ IsInjective(block_list) /\ b \notin ToSet(block_list)
      /\ block_free_count = Len(block_list)
  BY <1>2 DEF ItemInv, ItemsConserved
<1>4. /\ block_list' \in Seq(Item) /\ Len(block_list') = block_free_count'
      /\ ToSet(block_list') = ToSet(block_list) \cup {b} /\ IsInjective(block_list')
  BY <1>1, <1>2, <1>3, PushToList
<1>5. Mails' = Mails /\ dropped' = dropped
  BY DEF Mails, Wrap, mbVars
<1>6. MbTypeOK' /\ RingOK'
  BY DEF ItemInv, MbTypeOK, RingOK, Wrap, mbVars, Slot
<1>7. ItemsConserved'
  BY <1>2, <1>4, <1>5 DEF ItemInv, ItemsConserved, HeldApart
<1> QED
  BY <1>2, <1>4, <1>5, <1>6, <1>7 DEF ItemInv

LEMMA IsrProduceKeeps ==
  ASSUME ItemInv, IsrProduce
  PROVE  ItemInv' /\ Posted!NextMail
<1> DEFINE b == Head(block_list)
<1>1. TakeBlock /\ PutMail(b) /\ held' = held /\ dropped' = dropped
  BY DEF IsrProduce, PutMail
<1>2. /\ b \in Item /\ block_list' \in Seq(Item) /\ block_free_count' = Len(block_list')
      /\ b \in ToSet(block_list) /\ ToSet(block_list) = {b} \cup ToSet(block_list')
      /\ IsInjective(block_list') /\ b \notin ToSet(block_list')
  BY <1>1, TakeBlockMembers
<1>3. MbTypeOK' /\ RingOK' /\ Mails' = Append(Mails, b) /\ Len(Mails) < MbSize
  BY <1>1, <1>2, PutMailAppends
<1>4. b \notin ToSet(Mails) /\ IsInjective(Mails)
  BY <1>2 DEF ItemInv, ItemsConserved
<1>5. ToSet(Mails') = ToSet(Mails) \cup {b} /\ IsInjective(Mails')
  BY <1>2, <1>3, <1>4, MailsAreItems, AppendToList DEF Mail
<1>6. HeldItems' = HeldItems
  BY <1>1 DEF HeldItems
<1>7. ItemsConserved'
  BY <1>1, <1>2, <1>5, <1>6 DEF ItemInv, ItemsConserved
<1>8. ItemInv'
  BY <1>1, <1>2, <1>3, <1>7 DEF ItemInv
<1> QED
  BY <1>2, <1>3, <1>8 DEF Posted!NextMail, Posted!PutLast

-----------------------------------------------------------------------------
(* Every other step leaves the blocks and the mails where they are. *)
LEMMA MqKeepsHeld == ASSUME MqNext PROVE UNCHANGED held
<1>1. ASSUME NEW t \in Thread, MqDetach(t) PROVE UNCHANGED held
  BY <1>1 DEF MqDetach, Detach, DrainTest, DrainResume
<1>2. ASSUME NEW o, MqIsrSend(o) PROVE UNCHANGED held
  BY <1>2 DEF MqIsrSend
<1>3. ASSUME NEW t \in Thread, NEW o, MqTakeFree(t, o) \/ MqLink(t, o) PROVE UNCHANGED held
  BY <1>3 DEF MqTakeFree, MqLink
<1>4. ASSUME NEW t \in Thread, \/ MqRecvWait(t) \/ MqRecvTimeIsUp(t) \/ MqRecvTake(t)
                              \/ MqRecvFree(t) \/ MqReset(t) \/ GiveUp(t, "mq_recv")
      PROVE  UNCHANGED held
  BY <1>4 DEF MqRecvWait, MqRecvTimeIsUp, MqRecvTake, MqRecvFree, MqReset, GiveUp
<1> QED
  BY <1>1, <1>2, <1>3, <1>4 DEF MqNext

Stays == UNCHANGED <<held, mbVars, block_list, block_free_count>>

LEMMA MbOtherStays ==
  ASSUME MbNext, UNCHANGED mpVars
  PROVE  Stays \/ \E t \in Thread : MbSend(t) \/ MbRecv(t) \/ MbReset(t)
<1> USE DEF Stays, mpVars
<1>1. ASSUME NEW t \in Thread, MbDetach(t) PROVE Stays
  BY <1>1 DEF MbDetach, Detach, DrainTest, DrainResume
<1>2. ASSUME NEW t \in Thread, UNCHANGED mbVars, GiveUp(t, "mb_send") \/ GiveUp(t, "mb_recv")
      PROVE  Stays
  BY <1>2 DEF GiveUp
<1>3. ASSUME NEW t \in Thread, \/ MbSendWait(t) \/ MbSendTimeIsUp(t)
                              \/ MbRecvWait(t) \/ MbRecvTimeIsUp(t)
      PROVE  Stays
  BY <1>3 DEF MbSendWait, MbSendTimeIsUp, MbRecvWait, MbRecvTimeIsUp
<1> HIDE DEF Stays
<1> QED
  BY <1>1, <1>2, <1>3 DEF MbNext

LEMMA MpOtherStays ==
  ASSUME MpNext, UNCHANGED mbVars
  PROVE  Stays \/ \E t \in Thread : MpAlloc(t) \/ MpFree(t)
<1> USE DEF Stays, mpVars
<1>1. ASSUME NEW t \in Thread, MpDetach(t) PROVE Stays
  BY <1>1 DEF MpDetach, Detach, DrainTest, DrainResume
<1>2. ASSUME NEW t \in Thread, UNCHANGED mpVars, GiveUp(t, "mp_alloc") PROVE Stays
  BY <1>2 DEF GiveUp
<1>3. ASSUME NEW t \in Thread, MpAllocWait(t) \/ MpAllocFails(t) PROVE Stays
  BY <1>3 DEF MpAllocWait, MpAllocFails
<1> HIDE DEF Stays
<1> QED
  BY <1>1, <1>2, <1>3 DEF MpNext

LEMMA ItemStep ==
  PcOK /\ ItemInv /\ [Next]_vars
    => ItemInv' /\ (Mails' = Mails \/ Posted!NextMail)
<1> DEFINE Goal == ItemInv' /\ (Mails' = Mails \/ Posted!NextMail)
<1> SUFFICES ASSUME PcOK, ItemInv, [Next]_vars PROVE Goal
  OBVIOUS
<1>1. Stays => Goal
  BY UnchangedKeeps DEF Stays
<1>2. CASE MbNext /\ UNCHANGED mpVars
  BY <1>1, <1>2, MbOtherStays, MbSendKeeps, MbRecvKeeps, MbResetKeeps
<1>3. CASE MpNext /\ UNCHANGED mbVars
  BY <1>1, <1>3, MpOtherStays, MpAllocKeeps, MpFreeKeeps
<1>4. CASE IsrProduce
  BY <1>4, IsrProduceKeeps
<1>5. CASE (SysNext \/ MqNext \/ EvNext \/ StNext \/ HpNext) /\ UNCHANGED <<mbVars, mpVars>>
  BY <1>1, <1>5, SysQuiet, MqKeepsHeld, EvQuiet, StQuiet, HpQuiet DEF Stays, mpVars
<1>6. CASE UNCHANGED vars
  BY <1>1, <1>6 DEF Stays, vars, sysVars, mpVars
<1> HIDE DEF Goal
<1> QED
  BY <1>2, <1>3, <1>4, <1>5, <1>6 DEF Next

(* Every block of the memory pool, and every block of the message queue, is *)
(* in one place: rt_mp_alloc, rt_mp_free, rt_mb_send, rt_mb_recv, the reset *)
(* of a mailbox and the rt_mq functions lose none and never give one to     *)
(* two, in any interleaving of any threads and interrupt handlers.          *)
THEOREM ApplicationConservesBlocks == Spec => []BlocksConserved
<1>1. Init => MqInv /\ ItemInv
  BY MqInvInit, ItemInvInit
<1>2. (MqInv /\ ItemInv) /\ [Next]_vars => (MqInv /\ ItemInv)'
  BY MqInvNext, ItemStep DEF MqInv
<1>3. MqInv /\ ItemInv => BlocksConserved
  BY DEF MqInv, ItemInv, BlocksConserved
<1> QED
  BY <1>1, <1>2, <1>3, PTL DEF Spec

-----------------------------------------------------------------------------
LEMMA InitImplementsFifo == Init => Messages!Init /\ Posted!Init
<1> SUFFICES ASSUME Init PROVE Messages!Init /\ Posted!Init
  OBVIOUS
<1>1. Contents = <<>>
  BY MqInvInit, ContentsOf, EmptySeq DEF Init, MqInit, ContentsAre
<1>2. Mails = <<>>
  BY ItemInvInit, MailsOf, EmptySeq DEF Init, MbInit, ItemInv, MailsAre
<1>3. CopiedOut = [t \in Thread |-> None]
  BY DEF Init, SysInit, CopiedOut
<1> QED
  BY <1>1, <1>2, <1>3 DEF Messages!Init, Posted!Init

LEMMA MessageStep ==
  MqInv /\ MqInv' /\ [Next]_vars => [Messages!NextMessage]_<<Contents, CopiedOut>>
<1> DEFINE Goal == Messages!NextMessage \/ UNCHANGED <<Contents, CopiedOut>>
<1> SUFFICES ASSUME MqInv, MqInv', [Next]_vars PROVE Goal
  OBVIOUS
<1>0. PcOK
  BY DEF MqInv
<1>1. Quiet /\ UNCHANGED mqVars => Goal
  BY QuietStutters
<1>2. CASE MqNext
  BY <1>2, MqImplements
<1>3. CASE (SysNext \/ MbNext \/ MpNext \/ EvNext \/ StNext \/ HpNext) /\ UNCHANGED mqVars
  BY <1>0, <1>1, <1>3, SysQuiet, MbQuiet, MpQuiet, EvQuiet, StQuiet, HpQuiet
<1>4. CASE IsrProduce /\ UNCHANGED mqVars
  BY <1>0, <1>1, <1>4, SamePc DEF IsrProduce, IsrWakeOne
<1>5. CASE UNCHANGED vars
  BY <1>0, <1>1, <1>5, SamePc DEF vars, sysVars
<1> HIDE DEF Goal
<1> QED
  BY <1>2, <1>3, <1>4, <1>5 DEF Next

(* The message queue is a bounded queue of messages in which urgent ones    *)
(* overtake, and the mailbox a bounded queue of words: what is received was *)
(* sent, once, in order, and does not change while it is copied out.        *)
THEOREM ApplicationImplementsFifo == Spec => ImplementFifo
<1>1. MqInv /\ ItemInv /\ (MqInv /\ ItemInv)' /\ [Next]_vars
        => /\ [Messages!NextMessage]_<<Contents, CopiedOut>>
           /\ [Posted!NextMail]_<<Mails, [t \in Thread |-> None]>>
  BY MessageStep, ItemStep DEF MqInv
<1>2. Init => MqInv /\ ItemInv
  BY MqInvInit, ItemInvInit
<1>3. (MqInv /\ ItemInv) /\ [Next]_vars => (MqInv /\ ItemInv)'
  BY MqInvNext, ItemStep DEF MqInv
<1> QED
  BY <1>1, <1>2, <1>3, InitImplementsFifo, PTL
  DEF Spec, ImplementFifo, Messages!MessageSpec, Posted!MailSpec

-----------------------------------------------------------------------------
(* The heap *)
HeaderRecord == [used : BOOLEAN, next : Offset, prev : Offset]
Inner(m) == DOMAIN m \ {End}       \* the headers before the end

(* The list of headers m: HeapLinked without what it says of free blocks,   *)
(* and with the predecessor of each header named.                           *)
Chained(m) ==
  /\ DOMAIN m \subseteq Offset /\ m \in [DOMAIN m -> HeaderRecord]
  /\ {0, End} \subseteq DOMAIN m /\ 0 # End
  /\ m[End].used /\ m[0].prev = 0
  /\ \A p \in Inner(m) : /\ m[p].next \in DOMAIN m /\ p + Header < m[p].next
                         /\ \A r \in DOMAIN m : r <= p \/ m[p].next <= r
  /\ \A p \in Inner(m) : m[p].next # End => m[m[p].next].prev = p
  /\ \A p \in Inner(m) \ {0} : /\ m[p].prev \in Inner(m) /\ m[p].prev < p
                               /\ m[m[p].prev].next = p

(* No two free blocks in a row, except at p *)
ApartBut(m, p) ==
  \A r \in Inner(m) : ~m[r].used /\ ~m[m[r].next].used => r = p \/ m[r].next = p
Apart(m) == \A r \in Inner(m) : ~m[r].used => m[m[r].next].used

LfreeOK(h) == h.lfree \in DOMAIN h.mem /\ (h.lfree = End \/ ~h.mem[h.lfree].used)

IsHeap(h) == DOMAIN h = {"mem", "lfree"} /\ Chained(h.mem) /\ LfreeOK(h)

(* The same blocks are in use, and have the same room. *)
Uses(m, p) == p \in Inner(m) /\ m[p].used
SameUse(m, m2) == \A p : /\ Uses(m, p) <=> Uses(m2, p)
                         /\ Uses(m, p) => m2[p].next = m[p].next

LEMMA HeapNumbers ==
  /\ Header \in Nat \ {0} /\ MinSize \in Nat \ {0} /\ MemSize \in Nat
  /\ End = MemSize + Header /\ End \in Nat /\ Offset = 0 .. End
  /\ MinSize <= MemSize /\ Sizes \subseteq 1 .. MemSize /\ Sizes \subseteq Nat \ {0}
BY HeapAssumption DEF End, Offset

-----------------------------------------------------------------------------
(* A split puts a free header into the chain and changes no other block.    *)
SplitAt(m, m2, p, q) ==
  /\ q \in Offset \ DOMAIN m /\ p < q /\ q < m[p].next
  /\ DOMAIN m2 = DOMAIN m \cup {q}
  /\ \A r \in DOMAIN m2 :
       /\ m2[r].used = (IF r = q THEN FALSE ELSE m[r].used)
       /\ m2[r].next = (IF r = q THEN m[p].next ELSE IF r = p THEN q ELSE m[r].next)
       /\ m2[r].prev = (IF r = q THEN p
                        ELSE IF r = m[p].next /\ r # End THEN q ELSE m[r].prev)

(* The same, header by header *)
HeaderOK(m, r) ==
  /\ r # End => /\ m[r].next \in DOMAIN m /\ r + Header < m[r].next
                /\ \A s \in DOMAIN m : s <= r \/ m[r].next <= s
                /\ m[r].next # End => m[m[r].next].prev = r
  /\ r # End /\ r # 0 => /\ m[r].prev \in DOMAIN m /\ m[r].prev # End
                         /\ m[r].prev < r /\ m[m[r].prev].next = r

LEMMA ChainedParts ==
  ASSUME NEW m, Chained(m)
  PROVE  /\ \A r \in DOMAIN m : r \in Nat /\ r <= End /\ m[r] \in HeaderRecord
         /\ 0 \in DOMAIN m /\ End \in DOMAIN m /\ End # 0
         /\ m[End].used /\ m[0].prev = 0
         /\ \A r \in DOMAIN m : HeaderOK(m, r)
<1>1. \A r \in DOMAIN m : r \in Nat /\ r <= End /\ m[r] \in HeaderRecord
  BY HeapNumbers DEF Chained
<1> QED
  BY <1>1, HeapNumbers DEF Chained, Inner, HeaderOK

LEMMA PartsChained ==
  ASSUME NEW m, m \in [DOMAIN m -> HeaderRecord], \A r \in DOMAIN m : r \in Offset,
         0 \in DOMAIN m, End \in DOMAIN m, End # 0,
         m[End].used, m[0].prev = 0, \A r \in DOMAIN m : HeaderOK(m, r)
  PROVE  Chained(m)
BY DEF Chained, Inner, HeaderOK

LEMMA SplitChained ==
  ASSUME NEW m, Chained(m), NEW p \in Inner(m), NEW n \in Nat \ {0},
         Remainder(p, n) + Header < m[p].next
  PROVE  /\ Chained(Split(m, p, n))
         /\ SplitAt(m, Split(m, p, n), p, Remainder(p, n))
<1> DEFINE q == Remainder(p, n)
           after == m[p].next
           m2 == Split(m, p, n)
<1>0. /\ \A r \in DOMAIN m : r \in Nat /\ r <= End /\ m[r] \in HeaderRecord
      /\ 0 \in DOMAIN m /\ End \in DOMAIN m /\ End # 0
      /\ m[End].used /\ m[0].prev = 0
      /\ \A r \in DOMAIN m : HeaderOK(m, r)
  BY ChainedParts
<1>1. /\ p \in DOMAIN m /\ p # End /\ p \in Nat /\ after \in DOMAIN m /\ after \in Nat
      /\ after <= End /\ after # p
  BY <1>0, HeapNumbers DEF Inner, HeaderOK
<1>2. /\ q = p + Header + n /\ q \in Nat /\ p < q /\ p + Header < q
      /\ q < after /\ q + Header < after /\ q \in 0 .. End /\ q # End
  BY <1>1, HeapNumbers DEF Remainder
<1> HIDE DEF q
<1>3. q \notin DOMAIN m
  BY <1>0, <1>1, <1>2 DEF HeaderOK
<1>4. m2 = [r \in DOMAIN m \cup {q} |->
         IF r = q THEN [used |-> FALSE, next |-> after, prev |-> p]
         ELSE IF r = p THEN [m[p] EXCEPT !.next = q]
         ELSE IF r = after /\ r # End THEN [m[r] EXCEPT !.prev = q]
         ELSE m[r]]
  BY DEF Split, q
<1>5. DOMAIN m2 = DOMAIN m \cup {q}
  BY <1>4
<1>6. m2[q] = [used |-> FALSE, next |-> after, prev |-> p]
  BY <1>4
<1>7. ASSUME NEW r \in DOMAIN m
      PROVE  m2[r] = [used |-> m[r].used, next |-> IF r = p THEN q ELSE m[r].next,
                      prev |-> IF r = after /\ r # End THEN q ELSE m[r].prev]
  <2>1. m[r] = [used |-> m[r].used, next |-> m[r].next, prev |-> m[r].prev]
    BY <1>0 DEF HeaderRecord
  <2>2. r # q
    BY <1>3
  <2>3. m2[r] = IF r = p THEN [m[p] EXCEPT !.next = q]
                ELSE IF r = after /\ r # End THEN [m[r] EXCEPT !.prev = q] ELSE m[r]
    BY <1>4, <2>2
  <2> QED
    BY <1>1, <2>1, <2>3
<1> HIDE DEF m2
<1>8. /\ m2[q].used = FALSE /\ m2[q].next = after /\ m2[q].prev = p
      /\ \A r \in DOMAIN m : /\ m2[r].used = m[r].used
                             /\ m2[r].next = IF r = p THEN q ELSE m[r].next
                             /\ m2[r].prev = IF r = after /\ r # End THEN q ELSE m[r].prev
  <2>1. m2[q].used = FALSE /\ m2[q].next = after /\ m2[q].prev = p
    BY <1>6
  <2>2. ASSUME NEW r \in DOMAIN m
        PROVE  /\ m2[r].used = m[r].used
               /\ m2[r].next = IF r = p THEN q ELSE m[r].next
               /\ m2[r].prev = IF r = after /\ r # End THEN q ELSE m[r].prev
    <3> DEFINE n2 == IF r = p THEN q ELSE m[r].next
               p2 == IF r = after /\ r # End THEN q ELSE m[r].prev
    <3>1. m2[r] = [used |-> m[r].used, next |-> n2, prev |-> p2]
      BY <1>7
    <3> HIDE DEF n2, p2
    <3>2. m2[r].used = m[r].used /\ m2[r].next = n2 /\ m2[r].prev = p2
      BY <3>1
    <3> QED
      BY <3>2 DEF n2, p2
  <2> QED
    BY <2>1, <2>2
<1>9. SplitAt(m, m2, p, q)
  <2>1. q \in Offset \ DOMAIN m /\ p < q /\ q < after /\ DOMAIN m2 = DOMAIN m \cup {q}
    BY <1>2, <1>3, <1>5, HeapNumbers
  <2>2. ASSUME NEW r \in DOMAIN m2
        PROVE  /\ m2[r].used = (IF r = q THEN FALSE ELSE m[r].used)
               /\ m2[r].next = (IF r = q THEN after ELSE IF r = p THEN q ELSE m[r].next)
               /\ m2[r].prev = (IF r = q THEN p
                                ELSE IF r = after /\ r # End THEN q ELSE m[r].prev)
    <3>1. CASE r = q
      BY <1>8, <3>1
    <3>2. CASE r # q
      <4>1. r \in DOMAIN m
        BY <1>5, <3>2
      <4> QED
        BY <1>8, <3>2, <4>1
    <3> QED
      BY <3>1, <3>2
  <2> QED
    BY <2>1, <2>2 DEF SplitAt
<1>10. m2 \in [DOMAIN m2 -> HeaderRecord] /\ \A r \in DOMAIN m2 : r \in Offset
  <2>1. \A r \in DOMAIN m : m[r].next \in Offset /\ m[r].prev \in Offset /\ m[r].used \in BOOLEAN
    BY <1>0 DEF HeaderRecord
  <2>2. q \in Offset /\ p \in Offset /\ after \in Offset
    BY <1>1, <1>2, HeapNumbers
  <2>3. m2[q] \in HeaderRecord
    BY <1>6, <2>2 DEF HeaderRecord
  <2>4. ASSUME NEW r \in DOMAIN m PROVE m2[r] \in HeaderRecord
    <3> DEFINE n2 == IF r = p THEN q ELSE m[r].next
               p2 == IF r = after /\ r # End THEN q ELSE m[r].prev
    <3>1. m2[r] = [used |-> m[r].used, next |-> n2, prev |-> p2]
      BY <1>7
    <3>2. n2 \in Offset /\ p2 \in Offset
      BY <2>1, <2>2
    <3> HIDE DEF n2, p2
    <3> QED
      BY <2>1, <3>1, <3>2 DEF HeaderRecord
  <2>5. \A r \in DOMAIN m2 : m2[r] \in HeaderRecord /\ r \in Offset
    BY <1>0, <1>5, <2>2, <2>3, <2>4, HeapNumbers
  <2> QED
    BY <1>4, <2>5 DEF m2
<1>11. ASSUME NEW r \in DOMAIN m2 PROVE HeaderOK(m2, r)
  <2>1. CASE r = q
    BY <1>0, <1>1, <1>2, <1>3, <1>5, <1>8, <2>1 DEF HeaderOK
  <2>2. CASE r = p
    BY <1>0, <1>1, <1>2, <1>3, <1>5, <1>8, <2>2 DEF HeaderOK
  <2>3. CASE r = after
    BY <1>0, <1>1, <1>2, <1>3, <1>5, <1>8, <2>3 DEF HeaderOK
  <2>4. CASE r # q /\ r # p /\ r # after
    <3>1. r \in DOMAIN m /\ r \in Nat /\ HeaderOK(m, r)
      BY <1>0, <1>5, <2>4
    <3>2. m2[r].next = m[r].next /\ m2[r].prev = m[r].prev
      BY <1>8, <2>4, <3>1
    <3>3. r # End => m[r].next # after
      BY <1>0, <1>1, <2>4, <3>1 DEF HeaderOK
    <3>4. r # End /\ r # 0 => m[r].prev # p
      BY <1>0, <1>1, <2>4, <3>1 DEF HeaderOK
    <3> QED
      BY SMTT(30), <1>0, <1>1, <1>2, <1>3, <1>5, <1>8, <2>4, <3>1, <3>2, <3>3, <3>4 DEF HeaderOK
  <2> QED
    BY <2>1, <2>2, <2>3, <2>4
<1>12. 0 \in DOMAIN m2 /\ End \in DOMAIN m2 /\ m2[End].used /\ m2[0].prev = 0
  BY <1>0, <1>1, <1>2, <1>5, <1>8 DEF HeaderOK
<1>13. Chained(m2)
  BY <1>0, <1>10, <1>11, <1>12, PartsChained
<1> QED
  BY <1>9, <1>13 DEF m2, q

(* A merge takes the header behind p out of the chain. *)
JoinedAt(m, m2, p) ==
  /\ DOMAIN m2 = DOMAIN m \ {m[p].next}
  /\ \A r \in DOMAIN m2 :
       /\ m2[r].used = m[r].used
       /\ m2[r].next = (IF r = p THEN m[m[p].next].next ELSE m[r].next)
       /\ m2[r].prev = (IF r # p /\ r = m[m[p].next].next THEN p ELSE m[r].prev)

LEMMA JoinChained ==
  ASSUME NEW m, Chained(m), NEW p \in Inner(m), m[p].next # End
  PROVE  Chained(Join(m, p)) /\ JoinedAt(m, Join(m, p), p)
<1> DEFINE gone == m[p].next
           far == m[gone].next
           m2 == Join(m, p)
<1>0. /\ \A r \in DOMAIN m : r \in Nat /\ r <= End /\ m[r] \in HeaderRecord
      /\ 0 \in DOMAIN m /\ End \in DOMAIN m /\ End # 0
      /\ m[End].used /\ m[0].prev = 0
      /\ \A r \in DOMAIN m : HeaderOK(m, r)
  BY ChainedParts
<1>1. /\ p \in DOMAIN m /\ p # End /\ p \in Nat
      /\ gone \in DOMAIN m /\ gone \in Nat /\ gone # End /\ p < gone /\ p + Header < gone
      /\ far \in DOMAIN m /\ far \in Nat /\ gone < far /\ gone + Header < far
      /\ p + Header < far /\ p # far
  BY <1>0, HeapNumbers DEF Inner, HeaderOK
<1>2. m2 = [r \in DOMAIN m \ {gone} |->
              IF r = p THEN [m[p] EXCEPT !.next = far]
              ELSE IF r = far THEN [m[r] EXCEPT !.prev = p]
              ELSE m[r]]
  BY DEF Join
<1>3. DOMAIN m2 = DOMAIN m \ {gone}
  BY <1>2
<1>4. ASSUME NEW r \in DOMAIN m2
      PROVE  m2[r] = [used |-> m[r].used, next |-> IF r = p THEN far ELSE m[r].next,
                      prev |-> IF r = far THEN p ELSE m[r].prev]
  <2>1. m[r] = [used |-> m[r].used, next |-> m[r].next, prev |-> m[r].prev]
    BY <1>0, <1>3 DEF HeaderRecord
  <2>2. m2[r] = IF r = p THEN [m[p] EXCEPT !.next = far]
                ELSE IF r = far THEN [m[r] EXCEPT !.prev = p] ELSE m[r]
    BY <1>2
  <2> QED
    BY <1>1, <2>1, <2>2
<1> HIDE DEF m2
<1>5. ASSUME NEW r \in DOMAIN m2
      PROVE  /\ m2[r].used = m[r].used
             /\ m2[r].next = IF r = p THEN far ELSE m[r].next
             /\ m2[r].prev = IF r = far THEN p ELSE m[r].prev
             /\ m2[r] \in HeaderRecord /\ r \in Offset
  <2> DEFINE n2 == IF r = p THEN far ELSE m[r].next
             p2 == IF r = far THEN p ELSE m[r].prev
  <2>1. m2[r] = [used |-> m[r].used, next |-> n2, prev |-> p2]
    BY <1>4
  <2>2. r \in Offset /\ p \in Offset /\ far \in Offset
    BY <1>0, <1>1, <1>3, HeapNumbers
  <2>3. n2 \in Offset /\ p2 \in Offset /\ m[r].used \in BOOLEAN
    BY <1>0, <1>3, <2>2 DEF HeaderRecord
  <2> HIDE DEF n2, p2
  <2>4. m2[r].used = m[r].used /\ m2[r].next = n2 /\ m2[r].prev = p2
    BY <2>1
  <2>5. m2[r] \in HeaderRecord
    BY <2>1, <2>3 DEF HeaderRecord
  <2> QED
    BY <2>2, <2>4, <2>5 DEF n2, p2
<1>6. JoinedAt(m, m2, p)
  <2>1. \A r \in DOMAIN m2 : r = far => r # p
    BY <1>1
  <2> QED
    BY <1>3, <1>5, <2>1 DEF JoinedAt
<1>7. m2 \in [DOMAIN m2 -> HeaderRecord]
  BY <1>2, <1>5 DEF m2
<1>8. ASSUME NEW r \in DOMAIN m2 PROVE HeaderOK(m2, r)
  <2>1. CASE r = p
    BY <1>0, <1>1, <1>3, <1>5, <2>1 DEF HeaderOK
  <2>2. CASE r = far
    BY <1>0, <1>1, <1>3, <1>5, <2>2 DEF HeaderOK
  <2>3. CASE r # p /\ r # far
    <3>1. r \in DOMAIN m /\ r \in Nat /\ HeaderOK(m, r) /\ r # gone
      BY <1>0, <1>3
    <3>2. m2[r].next = m[r].next /\ m2[r].prev = m[r].prev
      BY <1>5, <2>3
    <3>3. r # End => m[r].next # gone /\ m[r].next # far
      BY <1>0, <1>1, <2>3, <3>1 DEF HeaderOK
    <3>4. r # End /\ r # 0 => m[r].prev # p /\ m[r].prev # gone
      BY <1>0, <1>1, <2>3, <3>1 DEF HeaderOK
    <3> QED
      BY <1>0, <1>1, <1>3, <1>5, <2>3, <3>1, <3>2, <3>3, <3>4 DEF HeaderOK
  <2> QED
    BY <2>1, <2>2, <2>3
<1>9. 0 \in DOMAIN m2 /\ End \in DOMAIN m2 /\ m2[End].used /\ m2[0].prev = 0
  BY <1>0, <1>1, <1>3, <1>5
<1>10. Chained(m2)
  BY <1>0, <1>5, <1>7, <1>8, <1>9, PartsChained
<1> QED
  BY <1>6, <1>10 DEF m2

LEMMA MarkChained ==
  ASSUME NEW m, Chained(m), NEW p \in Inner(m), NEW b \in BOOLEAN
  PROVE  LET m2 == [m EXCEPT ![p].used = b] IN
         /\ Chained(m2)
         /\ DOMAIN m2 = DOMAIN m
         /\ \A r \in DOMAIN m : /\ m2[r].next = m[r].next
                                /\ m2[r].used = (IF r = p THEN b ELSE m[r].used)
<1> DEFINE m2 == [m EXCEPT ![p].used = b]
<1>0. /\ \A r \in DOMAIN m : r \in Nat /\ r <= End /\ m[r] \in HeaderRecord
      /\ 0 \in DOMAIN m /\ End \in DOMAIN m /\ End # 0
      /\ m[End].used /\ m[0].prev = 0
      /\ \A r \in DOMAIN m : HeaderOK(m, r)
  BY ChainedParts
<1>1. DOMAIN m2 = DOMAIN m /\ p \in DOMAIN m /\ p # End
  BY DEF Inner
<1>2. ASSUME NEW r \in DOMAIN m
      PROVE  m2[r] = [used |-> IF r = p THEN b ELSE m[r].used,
                      next |-> m[r].next, prev |-> m[r].prev]
  <2>1. m[r] = [used |-> m[r].used, next |-> m[r].next, prev |-> m[r].prev]
    BY <1>0 DEF HeaderRecord
  <2> QED
    BY <1>1, <2>1
<1>3. ASSUME NEW r \in DOMAIN m
      PROVE  /\ m2[r].next = m[r].next /\ m2[r].prev = m[r].prev
             /\ m2[r].used = (IF r = p THEN b ELSE m[r].used)
             /\ m2[r] \in HeaderRecord /\ r \in Offset
  <2> DEFINE u2 == IF r = p THEN b ELSE m[r].used
  <2>1. m2[r] = [used |-> u2, next |-> m[r].next, prev |-> m[r].prev]
    BY <1>2
  <2>2. u2 \in BOOLEAN /\ m[r].next \in Offset /\ m[r].prev \in Offset /\ r \in Offset
    BY <1>0, HeapNumbers DEF HeaderRecord
  <2> HIDE DEF u2, m2
  <2>3. m2[r].next = m[r].next /\ m2[r].prev = m[r].prev /\ m2[r].used = u2
    BY <2>1
  <2>4. m2[r] \in HeaderRecord
    BY <2>1, <2>2 DEF HeaderRecord
  <2> QED
    BY <2>2, <2>3, <2>4 DEF u2
<1>4. m2 \in [DOMAIN m2 -> HeaderRecord]
  BY <1>1, <1>3
<1> HIDE DEF m2
<1>5. \A r \in DOMAIN m2 : HeaderOK(m2, r)
  BY <1>0, <1>1, <1>3 DEF HeaderOK
<1>6. Chained(m2)
  BY <1>0, <1>1, <1>3, <1>4, <1>5, PartsChained
<1> QED
  BY <1>1, <1>3, <1>6 DEF m2

-----------------------------------------------------------------------------
(* plug_holes: when the free block p is the only one that may have a free   *)
(* neighbour, no free block has one afterwards.                             *)
LEMMA JoinUse ==
  ASSUME NEW m, Chained(m), NEW p \in Inner(m), ~m[p].used,
         m[p].next # End, ~m[m[p].next].used
  PROVE  SameUse(m, Join(m, p))
<1>1. JoinedAt(m, Join(m, p), p)
  BY JoinChained
<1> QED
  BY <1>1 DEF JoinedAt, SameUse, Uses, Inner

LEMMA ForwardOK ==
  ASSUME NEW h, IsHeap(h), NEW p \in Inner(h.mem), ~h.mem[p].used, ApartBut(h.mem, p)
  PROVE  LET h2 == PlugForward(h, p) IN
         /\ IsHeap(h2) /\ SameUse(h.mem, h2.mem)
         /\ p \in Inner(h2.mem) /\ ~h2.mem[p].used
         /\ \A r \in Inner(h2.mem) :
              ~h2.mem[r].used /\ ~h2.mem[h2.mem[r].next].used => h2.mem[r].next = p
<1> DEFINE m == h.mem
           n == m[p].next
           h2 == PlugForward(h, p)
<1>0. /\ \A r \in DOMAIN m : HeaderOK(m, r) /\ r \in Nat
      /\ m[End].used
  BY ChainedParts DEF IsHeap
<1>1. CASE ~(n # p /\ ~m[n].used /\ n # End)
  <2>1. h2 = h
    BY <1>1 DEF PlugForward
  <2>2. n # p /\ m[n].used
    BY <1>0, <1>1, HeapNumbers DEF HeaderOK, Inner
  <2> QED
    BY <2>1, <2>2 DEF SameUse, Uses, ApartBut
<1>2. CASE n # p /\ ~m[n].used /\ n # End
  <2> DEFINE m2 == Join(m, p)
  <2>1. h2 = [mem |-> m2, lfree |-> IF h.lfree = n THEN p ELSE h.lfree]
    BY <1>2 DEF PlugForward
  <2>2. Chained(m2) /\ JoinedAt(m, m2, p) /\ SameUse(m, m2)
    BY <1>2, JoinChained, JoinUse DEF IsHeap
  <2>3. h2.mem = m2 /\ h2.lfree = (IF h.lfree = n THEN p ELSE h.lfree) /\ DOMAIN h2 = {"mem", "lfree"}
    BY <2>1
  <2>4. /\ p \in DOMAIN m /\ p # End /\ p \in Nat
        /\ n \in Inner(m) /\ n \in Nat /\ p < n /\ m[n].next \in DOMAIN m /\ m[n].next # n
        /\ m[n].next \in Nat /\ n < m[n].next
    BY <1>0, <1>2, HeapNumbers DEF HeaderOK, Inner
  <2> HIDE DEF m2, h2
  <2>5. p \in Inner(m2) /\ ~m2[p].used /\ Inner(m2) = Inner(m) \ {n} /\ n # p
    BY <1>2, <2>2, <2>4 DEF JoinedAt, Inner
  <2>6. LfreeOK(h2)
    BY <1>2, <2>2, <2>3, <2>4, <2>5 DEF IsHeap, LfreeOK, JoinedAt, Inner
  <2>7. m[m[n].next].used
    BY <1>2, <2>4 DEF ApartBut
  <2>8. ASSUME NEW r \in Inner(m2), ~m2[r].used, ~m2[m2[r].next].used
        PROVE  m2[r].next = p
    <3>1. r \in Inner(m) /\ r # n /\ r \in DOMAIN m2
      BY <2>5 DEF Inner
    <3>2. CASE r = p
      <4>1. m2[r].next = m[n].next /\ m[n].next \in DOMAIN m2
        BY <2>2, <2>4, <3>1, <3>2 DEF JoinedAt
      <4> QED
        BY <2>2, <2>7, <2>8, <4>1 DEF JoinedAt
    <3>3. CASE r # p
      <4>1. m2[r].next = m[r].next /\ m[r].next \in DOMAIN m2 /\ ~m[r].used
        BY <1>0, <2>2, <2>4, <2>8, <3>1, <3>3, ChainedParts DEF JoinedAt, HeaderOK, Inner
      <4> QED
        BY <2>2, <2>8, <3>1, <3>3, <4>1 DEF JoinedAt, ApartBut
    <3> QED
      BY <3>2, <3>3
  <2> QED
    BY <2>2, <2>3, <2>5, <2>6, <2>8 DEF IsHeap, h2
<1> QED
  BY <1>1, <1>2

LEMMA BackwardOK ==
  ASSUME NEW h, IsHeap(h), NEW p \in Inner(h.mem), ~h.mem[p].used,
         \A r \in Inner(h.mem) :
           ~h.mem[r].used /\ ~h.mem[h.mem[r].next].used => h.mem[r].next = p
  PROVE  LET h2 == PlugBackward(h, p) IN
         IsHeap(h2) /\ SameUse(h.mem, h2.mem) /\ Apart(h2.mem)
<1> DEFINE m == h.mem
           q == m[p].prev
           h2 == PlugBackward(h, p)
<1>0. \A r \in DOMAIN m : HeaderOK(m, r) /\ r \in Nat
  BY ChainedParts DEF IsHeap
<1>1. \A r \in Inner(m) : m[r].next = p => r = q /\ r # p
  BY <1>0, HeapNumbers DEF HeaderOK, Inner
<1>2. CASE ~(q # p /\ ~m[q].used)
  <2>1. h2 = h
    BY <1>2 DEF PlugBackward
  <2> QED
    BY <1>1, <1>2, <2>1 DEF SameUse, Apart
<1>3. CASE q # p /\ ~m[q].used
  <2> DEFINE m2 == Join(m, q)
  <2>1. h2 = [mem |-> m2, lfree |-> IF h.lfree = p THEN q ELSE h.lfree]
    BY <1>3 DEF PlugBackward
  <2>2. p # 0
    BY <1>3 DEF IsHeap, Chained
  <2>3. /\ q \in Inner(m) /\ m[q].next = p /\ p # End
        /\ p \in Nat /\ m[p].next \in DOMAIN m /\ m[p].next \in Nat /\ p < m[p].next
    BY <1>0, <2>2, HeapNumbers DEF HeaderOK, Inner
  <2>4. Chained(m2) /\ JoinedAt(m, m2, q) /\ SameUse(m, m2)
    BY <1>3, <2>3, JoinChained, JoinUse DEF IsHeap
  <2>5. h2.mem = m2 /\ h2.lfree = (IF h.lfree = p THEN q ELSE h.lfree) /\ DOMAIN h2 = {"mem", "lfree"}
    BY <2>1
  <2> HIDE DEF m2, h2
  <2>6. q \in Inner(m2) /\ ~m2[q].used /\ Inner(m2) = Inner(m) \ {p} /\ q # p
    BY <1>3, <2>3, <2>4 DEF JoinedAt, Inner
  <2>7. LfreeOK(h2)
    BY <1>3, <2>3, <2>4, <2>5, <2>6 DEF IsHeap, LfreeOK, JoinedAt, Inner
  <2>8. m[m[p].next].used
    BY <2>3
  <2>9. ASSUME NEW r \in Inner(m2), ~m2[r].used PROVE m2[m2[r].next].used
    <3>1. r \in Inner(m) /\ r # p /\ r \in DOMAIN m2
      BY <2>6 DEF Inner
    <3>2. CASE r = q
      <4>1. m2[r].next = m[p].next /\ m[p].next \in DOMAIN m2
        BY <2>3, <2>4, <3>1, <3>2 DEF JoinedAt
      <4> QED
        BY <2>4, <2>8, <4>1 DEF JoinedAt
    <3>3. CASE r # q
      <4>1. m2[r].next = m[r].next /\ m[r].next # p /\ ~m[r].used
        BY <1>1, <2>4, <2>9, <3>1, <3>3 DEF JoinedAt
      <4>2. m[r].next \in DOMAIN m2
        BY <1>0, <2>3, <2>4, <3>1, <4>1 DEF JoinedAt, HeaderOK, Inner
      <4> QED
        BY <2>4, <3>1, <4>1, <4>2 DEF JoinedAt
    <3> QED
      BY <3>2, <3>3
  <2>10. IsHeap(h2) /\ h2.mem = m2
    BY <2>4, <2>5, <2>7 DEF IsHeap
  <2>11. Apart(h2.mem)
    BY <2>9, <2>10 DEF Apart
  <2> QED
    BY <2>4, <2>10, <2>11 DEF h2
<1> QED
  BY <1>2, <1>3

LEMMA PlugHolesOK ==
  ASSUME NEW h, IsHeap(h), NEW p \in Inner(h.mem), ~h.mem[p].used, ApartBut(h.mem, p)
  PROVE  LET h2 == PlugHoles(h, p) IN
         IsHeap(h2) /\ SameUse(h.mem, h2.mem) /\ Apart(h2.mem)
<1> DEFINE h1 == PlugForward(h, p)
           h2 == PlugBackward(h1, p)
<1>1. /\ IsHeap(h1) /\ SameUse(h.mem, h1.mem)
      /\ p \in Inner(h1.mem) /\ ~h1.mem[p].used
      /\ \A r \in Inner(h1.mem) :
           ~h1.mem[r].used /\ ~h1.mem[h1.mem[r].next].used => h1.mem[r].next = p
  BY ForwardOK
<1> HIDE DEF h1
<1>2. IsHeap(h2) /\ SameUse(h1.mem, h2.mem) /\ Apart(h2.mem)
  BY <1>1, BackwardOK
<1>3. SameUse(h.mem, h2.mem)
  BY <1>1, <1>2 DEF SameUse
<1> QED
  BY <1>2, <1>3 DEF PlugHoles, h1

-----------------------------------------------------------------------------
(* The three functions that change the heap.  Uses says which blocks are in *)
(* use, and the offset behind a block which room it has.                    *)
LEMMA ReleaseOK ==
  ASSUME NEW h, IsHeap(h), Apart(h.mem), NEW p, Uses(h.mem, p)
  PROVE  LET h2 == Release(h, p) IN
         /\ IsHeap(h2) /\ Apart(h2.mem)
         /\ \A r : Uses(h2.mem, r) <=> Uses(h.mem, r) /\ r # p
         /\ \A r : Uses(h2.mem, r) => h2.mem[r].next = h.mem[r].next
<1> DEFINE m1 == [h.mem EXCEPT ![p].used = FALSE]
           h1 == [mem |-> m1, lfree |-> IF p < h.lfree THEN p ELSE h.lfree]
           h2 == PlugHoles(h1, p)
<1>1. p \in Inner(h.mem) /\ h.mem[p].used /\ p # End
  BY DEF Uses, Inner
<1>2. /\ Chained(m1) /\ DOMAIN m1 = DOMAIN h.mem
      /\ \A r \in DOMAIN h.mem : /\ m1[r].next = h.mem[r].next
                                 /\ m1[r].used = (IF r = p THEN FALSE ELSE h.mem[r].used)
  BY ZenonT(40), <1>1, MarkChained DEF IsHeap
<1>3. h1.mem = m1 /\ h1.lfree = (IF p < h.lfree THEN p ELSE h.lfree) /\ DOMAIN h1 = {"mem", "lfree"}
  OBVIOUS
<1> HIDE DEF m1, h1
<1>4. IsHeap(h1)
  BY <1>1, <1>2, <1>3 DEF IsHeap, LfreeOK, Inner
<1>5. p \in Inner(h1.mem) /\ ~h1.mem[p].used
  BY <1>1, <1>2, <1>3 DEF Inner
<1>6. ApartBut(h1.mem, p)
  <2>1. \A r \in Inner(h.mem) : h.mem[r].next \in DOMAIN h.mem
    BY DEF IsHeap, Chained
  <2> QED
    BY <1>1, <1>2, <1>3, <2>1 DEF ApartBut, Apart, Inner
<1>7. IsHeap(h2) /\ SameUse(h1.mem, h2.mem) /\ Apart(h2.mem)
  BY <1>4, <1>5, <1>6, PlugHolesOK
<1>8. \A r : Uses(h1.mem, r) <=> Uses(h.mem, r) /\ r # p
  BY <1>2, <1>3 DEF Uses, Inner
<1>9. \A r : Uses(h1.mem, r) => h1.mem[r].next = h.mem[r].next
  BY <1>2, <1>3 DEF Uses, Inner
<1>10. h2 = Release(h, p)
  BY DEF Release, h1, m1
<1> HIDE DEF h2
<1> QED
  BY <1>7, <1>8, <1>9, <1>10 DEF SameUse

LEMMA ShrinkOK ==
  ASSUME NEW h, IsHeap(h), Apart(h.mem), NEW p, Uses(h.mem, p),
         NEW n \in Nat \ {0}, n + Header + MinSize < Room(h.mem, p)
  PROVE  LET h2 == Shrink(h, p, n) IN
         /\ IsHeap(h2) /\ Apart(h2.mem)
         /\ \A r : Uses(h2.mem, r) <=> Uses(h.mem, r)
         /\ \A r : Uses(h2.mem, r) => h2.mem[r].next = (IF r = p THEN p + Header + n
                                                        ELSE h.mem[r].next)
<1> DEFINE q == Remainder(p, n)
           m1 == Split(h.mem, p, n)
           h1 == [h EXCEPT !.mem = m1]
           h2 == PlugHoles(h1, q)
<1>1. /\ p \in Inner(h.mem) /\ h.mem[p].used /\ p \in DOMAIN h.mem /\ p # End
      /\ p \in Nat /\ h.mem[p].next \in DOMAIN h.mem /\ h.mem[p].next \in Nat
  <2>1. p \in Inner(h.mem) /\ h.mem[p].used /\ p \in DOMAIN h.mem /\ p # End
    BY DEF Uses, Inner
  <2> QED
    BY <2>1, ChainedParts DEF IsHeap, HeaderOK
<1>2. q = p + Header + n /\ q + Header < h.mem[p].next
  BY <1>1, HeapNumbers DEF Remainder, Room
<1>3. Chained(m1) /\ SplitAt(h.mem, m1, p, q)
  BY <1>1, <1>2, SplitChained DEF IsHeap
<1>4. h1.mem = m1 /\ h1.lfree = h.lfree /\ DOMAIN h1 = {"mem", "lfree"}
  BY DEF IsHeap
<1> HIDE DEF m1, h1, q
<1>5. q \in Inner(m1) /\ ~m1[q].used /\ Inner(m1) = Inner(h.mem) \cup {q} /\ q \notin DOMAIN h.mem
  <2>1. q # End
    BY <1>3 DEF SplitAt, IsHeap, Chained
  <2> QED
    BY <1>3, <2>1 DEF SplitAt, Inner
<1>6. IsHeap(h1)
  <2>1. LfreeOK(h)
    BY DEF IsHeap
  <2>2. h.lfree # q
    BY <1>5, <2>1 DEF LfreeOK
  <2> QED
    BY <1>3, <1>4, <2>1, <2>2 DEF IsHeap, LfreeOK, SplitAt
<1>7. \A r \in Inner(h.mem) : /\ m1[r].used = h.mem[r].used
                              /\ m1[r].next = IF r = p THEN q ELSE h.mem[r].next
                              /\ h.mem[r].next \in DOMAIN h.mem /\ h.mem[r].next # q
                              /\ m1[h.mem[r].next].used = h.mem[h.mem[r].next].used
  <2>1. \A r \in Inner(h.mem) : h.mem[r].next \in DOMAIN h.mem
    BY DEF IsHeap, Chained
  <2> QED
    BY ZenonT(40), <1>3, <1>5, <2>1 DEF SplitAt, Inner
<1>8. ApartBut(h1.mem, q)
  BY <1>1, <1>4, <1>5, <1>7 DEF ApartBut, Apart
<1>9. IsHeap(h2) /\ SameUse(h1.mem, h2.mem) /\ Apart(h2.mem)
  BY <1>4, <1>5, <1>6, <1>8, PlugHolesOK
<1>10. \A r : Uses(m1, r) <=> Uses(h.mem, r)
  BY <1>5, <1>7 DEF Uses, Inner
<1>11. \A r : Uses(m1, r) => m1[r].next = IF r = p THEN q ELSE h.mem[r].next
  BY <1>5, <1>7 DEF Uses
<1>12. h2 = Shrink(h, p, n)
  BY DEF Shrink, h1, m1, q
<1> HIDE DEF h2
<1>13. \A r : Uses(h2.mem, r) <=> Uses(h.mem, r)
  BY <1>4, <1>9, <1>10 DEF SameUse
<1>14. \A r : Uses(h2.mem, r) => h2.mem[r].next = IF r = p THEN q ELSE h.mem[r].next
  BY <1>4, <1>9, <1>11 DEF SameUse
<1> QED
  BY <1>2, <1>9, <1>12, <1>13, <1>14

LEMMA AllocateOK ==
  ASSUME NEW h, IsHeap(h), Apart(h.mem), NEW n \in Nat \ {0}, NEW p \in Fit(h, n)
  PROVE  LET h2 == Allocate(h, p, n) IN
         /\ IsHeap(h2) /\ Apart(h2.mem)
         /\ p \in Inner(h.mem) /\ ~h.mem[p].used
         /\ \A r : Uses(h2.mem, r) <=> Uses(h.mem, r) \/ r = p
         /\ \A r : Uses(h.mem, r) => h2.mem[r].next = h.mem[r].next
         /\ n <= Room(h2.mem, p)
<1> DEFINE m == h.mem
           q == Remainder(p, n)
           splits == Room(m, p) >= n + Header + MinSize
           m1 == IF splits THEN Split(m, p, n) ELSE m
           u == [m1 EXCEPT ![p].used = TRUE]
           free2 == {r \in DOMAIN u : p <= r /\ (~u[r].used \/ r = End)}
           h2 == Allocate(h, p, n)
<1>1. /\ p \in DOMAIN m /\ ~m[p].used /\ n <= Room(m, p)
      /\ p # End /\ p \in Inner(m) /\ p \in Nat /\ p <= End
      /\ m[p].next \in DOMAIN m /\ m[p].next \in Nat
  <2>1. p \in DOMAIN m /\ ~m[p].used /\ n <= Room(m, p)
    BY DEF Fit
  <2>2. m[End].used /\ \A r \in DOMAIN m : r \in Nat /\ r <= End /\ HeaderOK(m, r)
    BY ChainedParts DEF IsHeap
  <2> QED
    BY <2>1, <2>2 DEF HeaderOK, Inner
<1>2. /\ Chained(m1) /\ p \in Inner(m1) /\ DOMAIN m \subseteq DOMAIN m1
      /\ \A r \in DOMAIN m : m1[r].used = m[r].used /\ (r # p => m1[r].next = m[r].next)
      /\ \A r \in Inner(m1) \ Inner(m) : ~m1[r].used /\ m1[r].next = m[p].next
      /\ n <= Room(m1, p)
  <2>1. CASE ~splits
    BY <1>1, <2>1 DEF IsHeap
  <2>2. CASE splits
    <3>1. q = p + Header + n /\ q + Header < m[p].next
      BY <1>1, <2>2, HeapNumbers DEF Remainder, Room
    <3>2. m1 = Split(m, p, n)
      BY <2>2
    <3> HIDE DEF q, m1
    <3>3. Chained(m1) /\ SplitAt(m, m1, p, q)
      BY <1>1, <3>1, <3>2, SplitChained DEF IsHeap, q
    <3>4. m1[p].next = q /\ p # q
      BY <1>1, <3>3 DEF SplitAt
    <3>5. n <= Room(m1, p)
      BY <1>1, <3>1, <3>4, HeapNumbers DEF Room
    <3> QED
      BY <1>1, <3>3, <3>5 DEF SplitAt, Inner
  <2> QED
    BY <2>1, <2>2
<1> HIDE DEF m1
<1>3. /\ Chained(u) /\ DOMAIN u = DOMAIN m1
      /\ \A r \in DOMAIN m1 : /\ u[r].next = m1[r].next
                             /\ u[r].used = (IF r = p THEN TRUE ELSE m1[r].used)
  BY <1>2, MarkChained
<1> HIDE DEF u
<1>4. h2 = [mem |-> u, lfree |-> IF p = h.lfree THEN Min(free2) ELSE h.lfree]
  BY DEF Allocate, u, m1
<1>5. h2.mem = u /\ DOMAIN h2 = {"mem", "lfree"}
      /\ h2.lfree = IF p = h.lfree THEN Min(free2) ELSE h.lfree
  BY <1>4
<1> HIDE DEF h2
<1>6. Min(free2) \in free2
  <2>1. End \in free2 /\ free2 \in SUBSET Nat
    BY <1>1, <1>3, ChainedParts
  <2> QED
    BY <2>1, MinOfNat
<1>7. LfreeOK(h2)
  <2>1. CASE p = h.lfree
    BY <1>5, <1>6, <2>1 DEF LfreeOK
  <2>2. CASE p # h.lfree
    BY ZenonT(40), <1>2, <1>3, <1>5, <2>2 DEF IsHeap, LfreeOK
  <2> QED
    BY <2>1, <2>2
<1>8. Apart(u)
  <2>1. \A r \in Inner(m) : m[r].next \in DOMAIN m /\ (~m[r].used => m[m[r].next].used)
    BY DEF Apart, IsHeap, Chained
  <2>0. ASSUME NEW x \in DOMAIN m, m[x].used PROVE u[x].used
    <3>1. x \in DOMAIN m1 /\ m1[x].used
      BY <1>2, <2>0
    <3>2. u[x].used = (IF x = p THEN TRUE ELSE m1[x].used)
      BY <1>3, <3>1
    <3> QED
      BY <3>1, <3>2
  <2>2. ASSUME NEW r \in Inner(u), ~u[r].used PROVE u[u[r].next].used
    <3>1. r # p /\ ~m1[r].used /\ u[r].next = m1[r].next /\ r \in Inner(m1)
      BY <1>3, <2>2 DEF Inner
    <3>2. CASE r \in Inner(m)
      <4>1. m1[r].next = m[r].next /\ ~m[r].used /\ r \in DOMAIN m
        BY <1>2, <3>1, <3>2 DEF Inner
      <4> QED
        BY <2>0, <2>1, <3>1, <3>2, <4>1
    <3>3. CASE r \notin Inner(m)
      BY <1>1, <1>2, <2>0, <2>1, <3>1, <3>3
    <3> QED
      BY <3>2, <3>3
  <2> QED
    BY <2>2 DEF Apart
<1>9. \A r : Uses(u, r) <=> Uses(m, r) \/ r = p
  BY <1>1, <1>2, <1>3 DEF Uses, Inner
<1>10. \A r : Uses(m, r) => u[r].next = m[r].next
  BY <1>1, <1>2, <1>3 DEF Uses, Inner
<1>11. n <= Room(u, p)
  BY <1>2, <1>3 DEF Room, Inner
<1>12. IsHeap(h2) /\ Apart(h2.mem)
  BY <1>3, <1>5, <1>7, <1>8 DEF IsHeap
<1> QED
  BY <1>1, <1>5, <1>9, <1>10, <1>11, <1>12 DEF h2

-----------------------------------------------------------------------------
(* The thread t is in no call of the heap, or only in its last rt_schedule. *)
Outside(t) == op[t] \notin HeapOp \/ pc[t] \in {"user", "sched"}

(* A call has the block that it is about, and nobody uses it meanwhile; a   *)
(* call of rt_malloc has one only when it was part of an rt_realloc that    *)
(* failed, when it has given it back.                                       *)
CallOK(t) ==
  /\ Outside(t) => arg[t].block = None
  /\ op[t] = "malloc" /\ pc[t] # "release" => arg[t].block = None
  /\ op[t] \in {"free", "realloc", "realloc_malloc", "realloc_free"} /\ ~Outside(t)
       => arg[t].block # None
  /\ op[t] \in {"realloc", "realloc_malloc"} /\ ~Outside(t) => arg[t].size \in Sizes
  /\ arg[t].block # None /\ ~Freed(t) /\ ~Kept(t) => arg[t].block \notin own[t]

CallTypes ==
  /\ DOMAIN op = Thread /\ DOMAIN pc = Thread
  /\ own \in [Thread -> SUBSET Grant]
  /\ arg \in [Thread -> [block : Grant \cup {None}, size : 0 .. MemSize]]

HpInv ==
  /\ CallTypes
  /\ IsHeap(heap) /\ Apart(heap.mem)
  /\ HeapOwned
  /\ \A t \in Thread : CallOK(t)

LEMMA HpInvSound == HpInv => HeapSound
<1> SUFFICES ASSUME HpInv PROVE HeapLinked /\ HeapOwned
  BY DEF HeapSound
<1> QED
  BY DEF HpInv, IsHeap, Chained, Apart, LfreeOK, HeapLinked, Inner

LEMMA HpInvInit == Init => HpInv
<1> SUFFICES ASSUME Init PROVE HpInv
  OBVIOUS
<1> DEFINE m == heap.mem
<1>1. /\ m = [p \in {0, End} |-> [used |-> p = End, next |-> End, prev |-> p]]
      /\ heap.lfree = 0 /\ DOMAIN heap = {"mem", "lfree"}
      /\ own = [t \in Thread |-> {}] /\ arg = [t \in Thread |-> NoArg]
      /\ op = [t \in Thread |-> "none"] /\ pc = [t \in Thread |-> "user"]
  BY DEF Init, HpInit, SysInit
<1>2. 0 < End /\ Header < End /\ 0 \in Offset /\ End \in Offset
  BY HeapNumbers
<1>3. /\ DOMAIN m = {0, End} /\ Inner(m) = {0}
      /\ m[0] = [used |-> FALSE, next |-> End, prev |-> 0]
      /\ m[End] = [used |-> TRUE, next |-> End, prev |-> End]
  <2>1. 0 # End
    BY <1>2, HeapNumbers
  <2> HIDE DEF m
  <2>2. DOMAIN m = {0, End}
    BY <1>1
  <2>3. m[0] = [used |-> 0 = End, next |-> End, prev |-> 0] /\ m[End] = [used |-> End = End, next |-> End, prev |-> End]
    BY <1>1, Zenon
  <2>4. (0 = End) = FALSE /\ (End = End) = TRUE
    BY <2>1
  <2> QED
    BY <2>1, <2>2, <2>3, <2>4 DEF Inner
<1>4. m \in [DOMAIN m -> HeaderRecord]
  BY <1>1, <1>2 DEF HeaderRecord
<1> HIDE DEF m
<1>5. Chained(m)
  BY <1>2, <1>3, <1>4, HeapNumbers DEF Chained
<1>6. IsHeap(heap) /\ Apart(heap.mem)
  BY <1>1, <1>3, <1>5 DEF IsHeap, LfreeOK, Apart, m
<1>7. CallTypes
  BY <1>1, HeapNumbers DEF CallTypes, NoArg
<1>8. \A t \in Thread : Blocks(t) = {} /\ CallOK(t)
  BY <1>1 DEF Blocks, CallOK, NoArg, Outside, HeapOp
<1>9. HeapOwned
  BY <1>3, <1>8 DEF HeapOwned, Inner, m
<1> QED
  BY <1>6, <1>7, <1>8, <1>9 DEF HpInv

-----------------------------------------------------------------------------
(* What a step does to the blocks that everybody has *)
Others(t) == \A u \in Thread \ {t} : Blocks(u)' = Blocks(u)

LEMMA OwnedSame ==
  ASSUME HeapOwned, heap' = heap, \A u \in Thread : Blocks(u)' = Blocks(u)
  PROVE  HeapOwned'
BY DEF HeapOwned

LEMMA OwnedGains ==
  ASSUME HeapOwned, NEW t \in Thread, Others(t), NEW p, NEW s \in Nat, NEW n \in Nat, s <= n,
         Blocks(t)' = Blocks(t) \cup {<<p, s>>},
         IsHeap(heap), IsHeap(heap'), ~Uses(heap.mem, p),
         \A r : Uses(heap'.mem, r) <=> Uses(heap.mem, r) \/ r = p,
         \A r : Uses(heap.mem, r) => heap'.mem[r].next = heap.mem[r].next,
         n <= Room(heap'.mem, p)
  PROVE  HeapOwned'
<1>1. \A u \in Thread : \A b \in Blocks(u) :
        Uses(heap.mem, b[1]) /\ b[2] <= Room(heap.mem, b[1]) /\ b[1] # p
  BY DEF HeapOwned, Uses, Inner
<1>2. \A r : Uses(heap.mem, r) => Room(heap'.mem, r) = Room(heap.mem, r)
  BY DEF Room
<1>3. Uses(heap'.mem, p) /\ s <= Room(heap'.mem, p)
  <2>1. Uses(heap'.mem, p) /\ Room(heap'.mem, p) \in Int
    BY ChainedParts, HeapNumbers DEF Uses, Inner, IsHeap, Room, HeaderOK
  <2> QED
    BY <2>1
<1>4. ASSUME NEW u \in Thread, NEW b \in Blocks(u)'
      PROVE  /\ Uses(heap'.mem, b[1]) /\ b[2] <= Room(heap'.mem, b[1])
             /\ b \in Blocks(u) \/ (u = t /\ b = <<p, s>>)
  <2>1. b \in Blocks(u) \/ (u = t /\ b = <<p, s>>)
    BY <1>4 DEF Others
  <2> QED
    BY <1>1, <1>2, <1>3, <2>1
<1>5. \A q : Uses(heap'.mem, q) => \E u \in Thread : \E b \in Blocks(u)' : b[1] = q
  <2> SUFFICES ASSUME NEW q, Uses(heap'.mem, q)
               PROVE  \E u \in Thread : \E b \in Blocks(u)' : b[1] = q
    OBVIOUS
  <2>1. CASE q = p
    <3>1. <<p, s>> \in Blocks(t)' /\ <<p, s>>[1] = q
      BY <2>1
    <3> QED
      BY <3>1
  <2>2. CASE q # p
    <3>1. PICK u \in Thread : \E b \in Blocks(u) : b[1] = q
      BY <2>2 DEF HeapOwned, Uses, Inner
    <3> QED
      BY <3>1 DEF Others
  <2> QED
    BY <2>1, <2>2
<1>6. \A u, v \in Thread : \A b \in Blocks(u)', c \in Blocks(v)' : b[1] = c[1] => u = v /\ b = c
  BY <1>1, <1>4 DEF HeapOwned
<1> QED
  BY <1>4, <1>5, <1>6 DEF HeapOwned, Uses, Inner

LEMMA OwnedLoses ==
  ASSUME HeapOwned, NEW t \in Thread, Others(t), NEW b \in Blocks(t),
         Blocks(t)' = Blocks(t) \ {b},
         \A r : Uses(heap'.mem, r) <=> Uses(heap.mem, r) /\ r # b[1],
         \A r : Uses(heap'.mem, r) => heap'.mem[r].next = heap.mem[r].next
  PROVE  HeapOwned'
<1>1. \A u, v \in Thread : \A c \in Blocks(u), d \in Blocks(v) : c[1] = d[1] => u = v /\ c = d
  BY DEF HeapOwned
<1>2. ASSUME NEW u \in Thread, NEW c \in Blocks(u)' PROVE c \in Blocks(u) /\ c[1] # b[1]
  <2>1. c \in Blocks(u) /\ (u = t => c # b)
    BY <1>2 DEF Others
  <2> QED
    BY <1>1, <2>1
<1>3. \A r : Uses(heap'.mem, r) => Room(heap'.mem, r) = Room(heap.mem, r)
  BY DEF Room
<1>4. ASSUME NEW u \in Thread, NEW c \in Blocks(u)'
      PROVE  Uses(heap'.mem, c[1]) /\ c[2] <= Room(heap'.mem, c[1])
  BY <1>2, <1>3 DEF HeapOwned, Uses, Inner
<1>5. ASSUME NEW q, Uses(heap'.mem, q)
      PROVE  \E u \in Thread : \E c \in Blocks(u)' : c[1] = q
  <2>1. PICK u \in Thread : \E c \in Blocks(u) : c[1] = q
    BY <1>5 DEF HeapOwned, Uses, Inner
  <2>2. PICK c \in Blocks(u) : c[1] = q
    BY <2>1
  <2>3. c # b
    BY <1>5, <2>2
  <2> QED
    BY <2>2, <2>3 DEF Others
<1>6. \A u, v \in Thread : \A c \in Blocks(u)', d \in Blocks(v)' : c[1] = d[1] => u = v /\ c = d
  BY <1>1, <1>2
<1> QED
  BY <1>4, <1>5, <1>6 DEF HeapOwned, Uses, Inner

LEMMA OwnedChanges ==
  ASSUME HeapOwned, NEW t \in Thread, Others(t), NEW b \in Blocks(t), NEW s,
         Blocks(t)' = (Blocks(t) \ {b}) \cup {<<b[1], s>>},
         \A r : Uses(heap'.mem, r) <=> Uses(heap.mem, r),
         \A r : Uses(heap'.mem, r) /\ r # b[1] => heap'.mem[r].next = heap.mem[r].next,
         s <= Room(heap'.mem, b[1])
  PROVE  HeapOwned'
<1>1. \A u, v \in Thread : \A c \in Blocks(u), d \in Blocks(v) : c[1] = d[1] => u = v /\ c = d
  BY DEF HeapOwned
<1>2. ASSUME NEW u \in Thread, NEW c \in Blocks(u)'
      PROVE  \/ c \in Blocks(u) /\ c[1] # b[1]
             \/ u = t /\ c = <<b[1], s>>
  <2>1. \/ c \in Blocks(u) /\ (u = t => c # b)
        \/ u = t /\ c = <<b[1], s>>
    BY <1>2 DEF Others
  <2> QED
    BY <1>1, <2>1
<1>3. \A r : Uses(heap'.mem, r) /\ r # b[1] => Room(heap'.mem, r) = Room(heap.mem, r)
  BY DEF Room
<1>4. Uses(heap'.mem, b[1])
  BY DEF HeapOwned, Uses, Inner
<1>5. ASSUME NEW u \in Thread, NEW c \in Blocks(u)'
      PROVE  Uses(heap'.mem, c[1]) /\ c[2] <= Room(heap'.mem, c[1])
  <2>1. CASE c \in Blocks(u) /\ c[1] # b[1]
    <3>1. Uses(heap.mem, c[1]) /\ c[2] <= Room(heap.mem, c[1])
      BY <2>1 DEF HeapOwned, Uses, Inner
    <3> QED
      BY <1>3, <2>1, <3>1
  <2>2. CASE c = <<b[1], s>>
    BY <1>4, <2>2
  <2> QED
    BY <1>2, <1>5, <2>1, <2>2
<1>6. ASSUME NEW q, Uses(heap'.mem, q)
      PROVE  \E u \in Thread : \E c \in Blocks(u)' : c[1] = q
  <2>0. PICK u \in Thread : \E c \in Blocks(u) : c[1] = q
    BY <1>6 DEF HeapOwned, Uses, Inner
  <2>1. PICK c \in Blocks(u) : c[1] = q
    BY <2>0
  <2>2. CASE c = b
    <3>1. <<b[1], s>> \in Blocks(t)' /\ <<b[1], s>>[1] = q
      BY <2>1, <2>2
    <3> QED
      BY <3>1
  <2>3. CASE c # b
    BY <2>1, <2>3 DEF Others
  <2> QED
    BY <2>2, <2>3
<1>7. \A u, v \in Thread : \A c \in Blocks(u)', d \in Blocks(v)' : c[1] = d[1] => u = v /\ c = d
  <2> SUFFICES ASSUME NEW u \in Thread, NEW v \in Thread, NEW c \in Blocks(u)', NEW d \in Blocks(v)',
                      c[1] = d[1]
               PROVE  u = v /\ c = d
    OBVIOUS
  <2>1. <<b[1], s>>[1] = b[1]
    OBVIOUS
  <2> QED
    BY <1>1, <1>2, <2>1
<1> QED
  BY <1>5, <1>6, <1>7 DEF HeapOwned, Uses, Inner

-----------------------------------------------------------------------------
(* The other parts of the application: they change nothing of the heap, and *)
(* a thread inside it stays where it is or returns from its rt_schedule.    *)
Elsewhere ==
  /\ DOMAIN op' = Thread /\ DOMAIN pc' = Thread
  /\ \A t \in Thread : \/ op'[t] = op[t] /\ pc'[t] = pc[t]
                       \/ op'[t] = op[t] /\ pc[t] = "wait" /\ pc'[t] = "woken"
                       \/ Outside(t) /\ Outside(t)'

LEMMA ElsewhereKeeps ==
  ASSUME HpInv, Elsewhere, UNCHANGED hpVars
  PROVE  HpInv'
<1>1. heap' = heap /\ own' = own /\ arg' = arg
  BY DEF hpVars
<1>2. ASSUME NEW t \in Thread PROVE Blocks(t)' = Blocks(t) /\ CallOK(t)'
  <2>1. CallOK(t)
    BY DEF HpInv
  <2>2. CASE op'[t] = op[t] /\ pc'[t] = pc[t]
    BY <1>1, <2>1, <2>2 DEF Blocks, Freed, Kept, CallOK, Outside
  <2>3. CASE op'[t] = op[t] /\ pc[t] = "wait" /\ pc'[t] = "woken"
    BY <1>1, <2>1, <2>3 DEF Blocks, Freed, Kept, CallOK, Outside
  <2>4. CASE Outside(t) /\ Outside(t)'
    <3>1. arg[t].block = None /\ arg'[t].block = None
      BY <1>1, <2>1, <2>4 DEF CallOK
    <3>2. Blocks(t)' = Blocks(t)
      BY <1>1, <3>1 DEF Blocks
    <3>3. CallOK(t)'
      BY <2>4, <3>1 DEF CallOK, Outside, HeapOp
    <3> QED
      BY <3>2, <3>3
  <2> QED
    BY <2>2, <2>3, <2>4 DEF Elsewhere
<1>3. CallTypes'
  BY <1>1 DEF HpInv, CallTypes, Elsewhere
<1>4. HeapOwned'
  BY <1>1, <1>2, OwnedSame DEF HpInv
<1> QED
  BY <1>1, <1>2, <1>3, <1>4 DEF HpInv

-----------------------------------------------------------------------------
(* A step of one thread t: what has to be shown is what it does to t and to *)
(* the heap.                                                                *)
StepOf(t, o, a, block, size, mine) ==
  /\ op' = [op EXCEPT ![t] = o] \/ (op' = op /\ o = op[t])
  /\ pc' = [pc EXCEPT ![t] = a]
  /\ arg' = [arg EXCEPT ![t] = [block |-> block, size |-> size]]
  /\ own' = [own EXCEPT ![t] = mine]
  /\ block \in Grant \cup {None} /\ size \in 0 .. MemSize
  /\ mine \in SUBSET Grant

LEMMA StepOfOne ==
  ASSUME HpInv, NEW t \in Thread, NEW o, NEW a, NEW block, NEW size, NEW mine,
         StepOf(t, o, a, block, size, mine)
  PROVE  /\ CallTypes' /\ Others(t)
         /\ \A u \in Thread \ {t} : CallOK(u)'
         /\ op'[t] = o /\ pc'[t] = a /\ arg'[t].block = block /\ arg'[t].size = size
         /\ own'[t] = mine
<1>1. CallTypes /\ \A u \in Thread : CallOK(u)
  BY DEF HpInv
<1>2. arg'[t] = [block |-> block, size |-> size] /\ own'[t] = mine
      /\ op'[t] = o /\ pc'[t] = a
  BY <1>1 DEF StepOf, CallTypes
<1>3. arg'[t].block = block /\ arg'[t].size = size
  BY <1>2
<1>4. \A u \in Thread \ {t} : /\ op'[u] = op[u] /\ pc'[u] = pc[u]
                              /\ own'[u] = own[u] /\ arg'[u] = arg[u]
  BY <1>1 DEF StepOf, CallTypes
<1>5. \A u \in Thread \ {t} : Blocks(u)' = Blocks(u) /\ CallOK(u)'
  BY <1>1, <1>4 DEF Blocks, Freed, Kept, CallOK, Outside
<1>6. CallTypes'
  <2>1. DOMAIN op' = Thread /\ DOMAIN pc' = Thread
    BY <1>1 DEF StepOf, CallTypes
  <2>2. own' \in [Thread -> SUBSET Grant]
    BY <1>1 DEF StepOf, CallTypes
  <2>3. [block |-> block, size |-> size] \in [block : Grant \cup {None}, size : 0 .. MemSize]
    BY DEF StepOf
  <2>4. arg' \in [Thread -> [block : Grant \cup {None}, size : 0 .. MemSize]]
    BY <1>1, <2>3 DEF StepOf, CallTypes
  <2> QED
    BY <2>1, <2>2, <2>4 DEF CallTypes
<1> QED
  BY <1>2, <1>3, <1>5, <1>6 DEF Others

LEMMA ArgOf ==
  ASSUME HpInv, NEW t \in Thread
  PROVE  /\ arg[t] = [block |-> arg[t].block, size |-> arg[t].size]
         /\ arg[t].block \in Grant \cup {None} /\ arg[t].size \in 0 .. MemSize
         /\ own[t] \in SUBSET Grant /\ None \notin Grant
         /\ CallOK(t)
BY HeapAssumption DEF HpInv, CallTypes, Grant, Offset, End

(* Nothing happens to the heap and to the blocks of t. *)
LEMMA QuietStep ==
  ASSUME HpInv, heap' = heap, NEW t \in Thread,
         NEW o, NEW a, NEW block, NEW size, NEW mine, StepOf(t, o, a, block, size, mine),
         Blocks(t)' = Blocks(t), CallOK(t)'
  PROVE  HpInv'
<1>1. /\ CallTypes' /\ Others(t)
      /\ \A u \in Thread \ {t} : CallOK(u)'
  BY StepOfOne
<1>2. HeapOwned'
  BY <1>1, OwnedSame DEF HpInv, Others
<1> QED
  BY <1>1, <1>2 DEF HpInv

LEMMA SemTakeGoes ==
  ASSUME NEW t \in Thread, NEW o, SemTake(t, o)
  PROVE  \E a \in {"critical", "wait"} : Goto(t, o, a)
BY DEF SemTake

LEMMA MallocKeeps == ASSUME HpInv, NEW t \in Thread, Malloc(t) PROVE HpInv'
<1>1. PICK n \in Sizes : arg' = [arg EXCEPT ![t] = [block |-> None, size |-> n]]
  BY DEF Malloc
<1>2. PICK a \in {"critical", "wait"} : Goto(t, "malloc", a)
  BY SemTakeGoes DEF Malloc
<1>3. own' = [own EXCEPT ![t] = own[t]] /\ heap' = heap /\ pc[t] = "user"
  BY DEF Malloc, Calls, HpInv, CallTypes
<1>4. StepOf(t, "malloc", a, None, n, own[t])
  <2>1. n \in 0 .. MemSize
    BY HeapNumbers
  <2>2. own[t] \in SUBSET Grant
    BY ArgOf
  <2> QED
    BY <1>1, <1>2, <1>3, <2>1, <2>2 DEF StepOf, Goto
<1>5. arg[t].block = None
  BY <1>3, ArgOf DEF CallOK, Outside
<1>6. /\ op'[t] = "malloc" /\ pc'[t] = a /\ arg'[t].block = None /\ own'[t] = own[t]
  BY <1>4, StepOfOne
<1>7. Blocks(t)' = Blocks(t)
  BY <1>5, <1>6 DEF Blocks
<1>8. CallOK(t)'
  BY <1>2, <1>6 DEF CallOK, Outside, HeapOp
<1> QED
  BY <1>3, <1>4, <1>7, <1>8, QuietStep

LEMMA GiveKeeps ==
  ASSUME HpInv, NEW t \in Thread, NEW o, NEW sizes, Give(t, o, sizes),
         o \in {"free", "realloc"}, sizes \in SUBSET (0 .. MemSize),
         o = "realloc" => sizes = Sizes
  PROVE  HpInv'
<1>1. PICK b \in own[t], n \in sizes :
        /\ arg' = [arg EXCEPT ![t] = [block |-> b, size |-> n]]
        /\ own' = [own EXCEPT ![t] = @ \ {b}]
  BY DEF Give
<1>2. PICK a \in {"critical", "wait"} : Goto(t, o, a)
  BY SemTakeGoes DEF Give
<1>3. own' = [own EXCEPT ![t] = own[t] \ {b}] /\ heap' = heap /\ pc[t] = "user"
  BY <1>1 DEF Give, Calls
<1>4. StepOf(t, o, a, b, n, own[t] \ {b})
  <2>1. n \in 0 .. MemSize
    OBVIOUS
  <2>2. own[t] \ {b} \in SUBSET Grant /\ b \in Grant
    BY <1>1, ArgOf
  <2> QED
    BY <1>1, <1>2, <1>3, <2>1, <2>2 DEF StepOf, Goto
<1>5. arg[t].block = None /\ b # None
  BY <1>1, <1>3, ArgOf DEF CallOK, Outside
<1>6. /\ op'[t] = o /\ pc'[t] = a /\ arg'[t].block = b /\ own'[t] = own[t] \ {b}
      /\ arg'[t].size = n
  BY <1>4, StepOfOne
<1>7. Blocks(t)' = Blocks(t)
  BY <1>1, <1>2, <1>5, <1>6 DEF Blocks, Freed, Kept
<1>8. CallOK(t)'
  BY <1>1, <1>2, <1>5, <1>6 DEF CallOK, Outside, HeapOp
<1> QED
  BY <1>3, <1>4, <1>7, <1>8, QuietStep

(* A call that has the unit, and how it gives it back *)
LEMMA InHeap ==
  ASSUME HpInv, NEW t \in Thread, NEW o, HasHeap(t, o), o \in HeapOp
  PROVE  /\ op[t] = o /\ pc[t] \in {"critical", "woken"} /\ ~Outside(t)
         /\ o = "malloc" => arg[t].block = None /\ Blocks(t) = own[t]
         /\ o # "malloc" => /\ arg[t].block # None /\ arg[t].block \in Grant
                           /\ arg[t].block \notin own[t]
                           /\ Blocks(t) = own[t] \cup {arg[t].block}
         /\ o \in {"realloc", "realloc_malloc"} => arg[t].size \in Sizes
<1>1. op[t] = o /\ pc[t] \in {"critical", "woken"}
  BY DEF HasHeap, At
<1> QED
  BY <1>1, ArgOf DEF CallOK, Outside, Blocks, Freed, Kept, HeapOp

(* The step to the release, with mine the blocks that t may use then *)
LEMMA GiveBackStep ==
  ASSUME HpInv, NEW t \in Thread, NEW o, GiveBack(t, o), UNCHANGED arg,
         NEW mine \in SUBSET Grant, own' = [own EXCEPT ![t] = mine]
  PROVE  /\ StepOf(t, o, "release", arg[t].block, arg[t].size, mine)
         /\ op'[t] = o /\ pc'[t] = "release" /\ arg'[t] = arg[t] /\ own'[t] = mine
         /\ Others(t) /\ CallTypes' /\ \A u \in Thread \ {t} : CallOK(u)'
<1>1. arg' = [arg EXCEPT ![t] = [block |-> arg[t].block, size |-> arg[t].size]]
  BY ArgOf DEF HpInv, CallTypes
<1>2. StepOf(t, o, "release", arg[t].block, arg[t].size, mine)
  BY <1>1, ArgOf DEF StepOf, GiveBack, Goto
<1> QED
  BY <1>2, StepOfOne

LEMMA MallocFoundKeeps ==
  ASSUME HpInv, NEW t \in Thread, NEW o, MallocFound(t, o)
  PROVE  HpInv'
<1> DEFINE n == Wanted(t)
           p == Min(Fit(heap, n))
           s == arg[t].size
           o2 == IF o = "malloc" THEN "malloc" ELSE "realloc_free"
           mine == own[t] \cup {<<p, s>>}
<1>1. /\ HasHeap(t, o) /\ o \in {"malloc", "realloc_malloc"} /\ o \in HeapOp
      /\ Fit(heap, n) # {} /\ heap' = Allocate(heap, p, n)
      /\ own' = [own EXCEPT ![t] = mine] /\ GiveBack(t, o2) /\ arg' = arg
  BY DEF MallocFound, Gets, HeapOp
<1>2. s \in 0 .. MemSize /\ n \in Nat \ {0} /\ s <= n
  <2>1. s \in 0 .. MemSize
    BY ArgOf
  <2>2. n = IF s < MinSize THEN MinSize ELSE s
    BY DEF Wanted
  <2> HIDE DEF n, s
  <2> QED
    BY <2>1, <2>2, HeapNumbers
<1> HIDE DEF n, s
<1>3. p \in Fit(heap, n)
  <2>1. Fit(heap, n) \in SUBSET Nat
    BY ChainedParts DEF HpInv, IsHeap, Fit
  <2> QED
    BY <1>1, <2>1, MinOfNat
<1> HIDE DEF p
<1>4. /\ IsHeap(heap') /\ Apart(heap'.mem)
      /\ p \in Inner(heap.mem) /\ ~heap.mem[p].used
      /\ \A r : Uses(heap'.mem, r) <=> Uses(heap.mem, r) \/ r = p
      /\ \A r : Uses(heap.mem, r) => heap'.mem[r].next = heap.mem[r].next
      /\ n <= Room(heap'.mem, p)
  <2>1. IsHeap(heap) /\ Apart(heap.mem)
    BY DEF HpInv
  <2> DEFINE h2 == Allocate(heap, p, n)
  <2>2. /\ IsHeap(h2) /\ Apart(h2.mem)
        /\ p \in Inner(heap.mem) /\ ~heap.mem[p].used
        /\ \A r : Uses(h2.mem, r) <=> Uses(heap.mem, r) \/ r = p
        /\ \A r : Uses(heap.mem, r) => h2.mem[r].next = heap.mem[r].next
        /\ n <= Room(h2.mem, p)
    BY <1>2, <1>3, <2>1, AllocateOK
  <2>3. heap' = h2
    BY <1>1
  <2> HIDE DEF h2
  <2> QED
    BY <2>2, <2>3
<1>5. mine \in SUBSET Grant
  <2>1. p \in Offset
    BY <1>4 DEF Inner, HpInv, IsHeap, Chained
  <2>2. <<p, s>> \in Grant
    BY <1>2, <2>1 DEF Grant
  <2> QED
    BY <2>2, ArgOf
<1> HIDE DEF mine
<1>6. /\ op'[t] = o2 /\ pc'[t] = "release" /\ arg'[t] = arg[t] /\ own'[t] = mine
      /\ Others(t) /\ CallTypes' /\ \A u \in Thread \ {t} : CallOK(u)'
  <2> HIDE DEF o2
  <2> QED
    BY <1>1, <1>5, GiveBackStep
<1>7. ~Uses(heap.mem, p)
  BY <1>4 DEF Uses
<1>8. Blocks(t)' = Blocks(t) \cup {<<p, s>>} /\ CallOK(t)'
  <2>1. CASE o = "malloc"
    BY <1>1, <1>6, <2>1, InHeap DEF mine, Blocks, Freed, Kept, CallOK, Outside, HeapOp
  <2>2. CASE o = "realloc_malloc"
    <3>1. /\ arg[t].block # None /\ arg[t].block \notin own[t] /\ arg[t].block \in Blocks(t)
          /\ Blocks(t) = own[t] \cup {arg[t].block}
      BY <1>1, <2>2, InHeap
    <3>2. arg[t].block # <<p, s>>
      <4>1. Uses(heap.mem, arg[t].block[1])
        BY <3>1 DEF HpInv, HeapOwned, Uses, Inner
      <4> QED
        BY <1>7, <4>1
    <3>3. op'[t] = "realloc_free"
      BY <1>6, <2>2
    <3> QED
      BY <1>6, <3>1, <3>2, <3>3 DEF mine, Blocks, Freed, Kept, CallOK, Outside, HeapOp
  <2> QED
    BY <1>1, <2>1, <2>2
<1>9. HeapOwned'
  BY <1>2, <1>4, <1>6, <1>7, <1>8, OwnedGains DEF HpInv
<1> QED
  BY <1>4, <1>6, <1>8, <1>9 DEF HpInv

LEMMA MallocFailedKeeps ==
  ASSUME HpInv, NEW t \in Thread, NEW o, MallocFailed(t, o)
  PROVE  HpInv'
<1> DEFINE mine == IF o = "malloc" THEN own[t] ELSE own[t] \cup {arg[t].block}
<1>1. /\ HasHeap(t, o) /\ o \in {"malloc", "realloc_malloc"} /\ o \in HeapOp
      /\ GiveBack(t, "malloc") /\ arg' = arg /\ heap' = heap
  BY DEF MallocFailed, HeapOp
<1>2. own' = [own EXCEPT ![t] = mine]
  BY DEF MallocFailed, HpInv, CallTypes
<1>3. /\ o = "malloc" => arg[t].block = None /\ Blocks(t) = own[t]
      /\ o # "malloc" => /\ arg[t].block \in Grant
                        /\ Blocks(t) = own[t] \cup {arg[t].block}
  BY <1>1, InHeap
<1>4. mine \in SUBSET Grant /\ mine = Blocks(t)
  BY <1>1, <1>3, ArgOf
<1> HIDE DEF mine
<1>5. /\ StepOf(t, "malloc", "release", arg[t].block, arg[t].size, mine)
      /\ op'[t] = "malloc" /\ pc'[t] = "release" /\ arg'[t] = arg[t] /\ own'[t] = mine
  BY <1>1, <1>2, <1>4, GiveBackStep
<1>6. Blocks(t)' = Blocks(t) /\ CallOK(t)'
  BY <1>4, <1>5 DEF Blocks, Freed, Kept, CallOK, Outside, HeapOp
<1> QED
  BY <1>1, <1>5, <1>6, QuietStep

LEMMA FreeKeeps ==
  ASSUME HpInv, NEW t \in Thread, NEW o, Free(t, o)
  PROVE  HpInv'
<1> DEFINE b == arg[t].block
           h2 == Release(heap, b[1])
<1>1. /\ HasHeap(t, o) /\ o \in {"free", "realloc_free"} /\ o \in HeapOp
      /\ GiveBack(t, "free") /\ arg' = arg /\ heap' = h2
      /\ own' = [own EXCEPT ![t] = own[t]]
  BY DEF Free, HeapOp, HpInv, CallTypes
<1>2. b # None /\ b \notin own[t] /\ Blocks(t) = own[t] \cup {b} /\ own[t] \in SUBSET Grant
  BY <1>1, InHeap, ArgOf
<1>3. Uses(heap.mem, b[1])
  BY <1>2 DEF HpInv, HeapOwned, Uses, Inner
<1>4. /\ IsHeap(h2) /\ Apart(h2.mem)
      /\ \A r : Uses(h2.mem, r) <=> Uses(heap.mem, r) /\ r # b[1]
      /\ \A r : Uses(h2.mem, r) => h2.mem[r].next = heap.mem[r].next
  <2>1. IsHeap(heap) /\ Apart(heap.mem)
    BY DEF HpInv
  <2> HIDE DEF b
  <2> QED
    BY <1>3, <2>1, ReleaseOK
<1> HIDE DEF h2
<1>5. /\ op'[t] = "free" /\ pc'[t] = "release" /\ arg'[t] = arg[t] /\ own'[t] = own[t]
      /\ Others(t) /\ CallTypes' /\ \A u \in Thread \ {t} : CallOK(u)'
  BY <1>1, <1>2, GiveBackStep
<1>6. Blocks(t)' = Blocks(t) \ {b}
  BY <1>2, <1>5 DEF Blocks, Freed
<1>7. CallOK(t)'
  BY <1>2, <1>5 DEF CallOK, Outside, HeapOp, Freed
<1>8. HeapOwned'
  BY <1>1, <1>2, <1>4, <1>5, <1>6, OwnedLoses DEF HpInv
<1> QED
  BY <1>1, <1>4, <1>5, <1>7, <1>8 DEF HpInv

(* rt_realloc in place: the block gets the size that was asked for. *)
LEMMA ResizeKeeps ==
  ASSUME HpInv, NEW t \in Thread, HasHeap(t, "realloc"), GiveBack(t, "realloc"), UNCHANGED arg,
         Gets(t, arg[t].block[1], arg[t].size),
         IsHeap(heap'), Apart(heap'.mem),
         \A r : Uses(heap'.mem, r) <=> Uses(heap.mem, r),
         \A r : Uses(heap'.mem, r) /\ r # arg[t].block[1] => heap'.mem[r].next = heap.mem[r].next,
         Room(heap'.mem, arg[t].block[1]) = arg[t].size
  PROVE  HpInv'
<1> DEFINE b == arg[t].block
           s == arg[t].size
           mine == own[t] \cup {<<b[1], s>>}
<1>1. /\ b # None /\ b \in Grant /\ b \notin own[t] /\ Blocks(t) = own[t] \cup {b}
      /\ own[t] \in SUBSET Grant /\ s \in 0 .. MemSize /\ s \in Sizes
  BY InHeap, ArgOf DEF HeapOp
<1>2. b[1] \in Offset /\ <<b[1], s>> \in Grant
  BY <1>1 DEF Grant
<1>3. mine \in SUBSET Grant
  BY <1>1, <1>2
<1>4. own' = [own EXCEPT ![t] = mine]
  BY DEF Gets
<1> HIDE DEF mine
<1>5. /\ op'[t] = "realloc" /\ pc'[t] = "release" /\ arg'[t] = arg[t] /\ own'[t] = mine
      /\ Others(t) /\ CallTypes' /\ \A u \in Thread \ {t} : CallOK(u)'
  BY <1>3, <1>4, GiveBackStep
<1>6. Blocks(t)' = mine /\ mine = (Blocks(t) \ {b}) \cup {<<b[1], s>>}
  BY <1>1, <1>5 DEF Blocks, Kept, mine
<1>7. CallOK(t)'
  BY <1>1, <1>5 DEF CallOK, Outside, HeapOp, Kept
<1>8. s <= Room(heap'.mem, b[1])
  BY <1>1
<1>9. HeapOwned'
  BY <1>1, <1>5, <1>6, <1>8, OwnedChanges DEF HpInv
<1> QED
  BY <1>5, <1>7, <1>9 DEF HpInv

LEMMA ReallocKeeps ==
  ASSUME HpInv, NEW t \in Thread, ReallocSame(t) \/ ReallocCut(t) \/ ReallocMove(t)
  PROVE  HpInv'
<1> DEFINE b == arg[t].block
<1>0. IsHeap(heap) /\ Apart(heap.mem)
  BY DEF HpInv
<1>1. CASE ReallocSame(t)
  BY <1>0, <1>1, ResizeKeeps DEF ReallocSame
<1>2. CASE ReallocCut(t)
  <2>1. /\ HasHeap(t, "realloc") /\ Cuts(t) /\ heap' = Shrink(heap, b[1], arg[t].size)
        /\ Gets(t, b[1], arg[t].size) /\ GiveBack(t, "realloc") /\ arg' = arg
    BY <1>2 DEF ReallocCut
  <2>2. b \in Blocks(t) /\ arg[t].size \in Nat \ {0}
    <3>1. b \in Blocks(t) /\ arg[t].size \in Sizes
      BY <2>1, InHeap DEF HeapOp
    <3> QED
      BY <3>1, HeapNumbers
  <2>3. Uses(heap.mem, b[1])
    BY <2>2 DEF HpInv, HeapOwned, Uses, Inner
  <2> DEFINE h2 == Shrink(heap, b[1], arg[t].size)
             p == b[1]
             n == arg[t].size
  <2>4. n + Header + MinSize < Room(heap.mem, p)
    BY <2>1 DEF Cuts
  <2>5. /\ IsHeap(h2) /\ Apart(h2.mem)
        /\ \A r : Uses(h2.mem, r) <=> Uses(heap.mem, r)
        /\ \A r : Uses(h2.mem, r) => h2.mem[r].next = (IF r = p THEN p + Header + n
                                                       ELSE heap.mem[r].next)
    <3>1. n \in Nat \ {0} /\ Uses(heap.mem, p) /\ h2 = Shrink(heap, p, n)
      BY <2>2, <2>3
    <3> HIDE DEF h2, p, n
    <3> QED
      BY <1>0, <2>4, <3>1, ShrinkOK
  <2>6. p \in Nat
    BY <1>0, <2>3, ChainedParts DEF IsHeap, Uses, Inner
  <2>7. Room(h2.mem, p) = n
    <3>1. h2.mem[p].next = p + Header + n
      BY <2>3, <2>5
    <3> HIDE DEF h2, p, n
    <3> QED
      BY <2>2, <2>6, <3>1, HeapNumbers DEF Room, n
  <2> HIDE DEF h2
  <2>8. heap' = h2
    BY <2>1 DEF h2
  <2> QED
    BY <2>1, <2>5, <2>7, <2>8, ResizeKeeps
<1>3. CASE ReallocMove(t)
  <2>1. /\ HasHeap(t, "realloc") /\ GiveBack(t, "realloc_malloc") /\ arg' = arg /\ heap' = heap
        /\ own' = [own EXCEPT ![t] = own[t]]
    BY <1>3 DEF ReallocMove, HpInv, CallTypes
  <2>2. /\ b # None /\ b \notin own[t] /\ Blocks(t) = own[t] \cup {b} /\ arg[t].size \in Sizes
        /\ own[t] \in SUBSET Grant
    <3>1. own[t] \in SUBSET Grant
      BY ArgOf
    <3> QED
      BY <2>1, <3>1, InHeap DEF HeapOp
  <2>3. /\ StepOf(t, "realloc_malloc", "release", b, arg[t].size, own[t])
        /\ op'[t] = "realloc_malloc" /\ pc'[t] = "release" /\ arg'[t] = arg[t]
        /\ own'[t] = own[t]
    BY <2>1, <2>2, GiveBackStep
  <2>4. Blocks(t)' = Blocks(t)
    BY <2>2, <2>3 DEF Blocks, Freed, Kept
  <2>5. CallOK(t)'
    BY <2>2, <2>3 DEF CallOK, Outside, HeapOp
  <2> QED
    BY <2>1, <2>3, <2>4, <2>5, QuietStep
<1> QED
  BY <1>1, <1>2, <1>3

LEMMA ReleaseHeapKeeps ==
  ASSUME HpInv, NEW t \in Thread, ReleaseHeap(t)
  PROVE  HpInv'
<1> DEFINE next == IF GoesOn(t) THEN arg[t] ELSE NoArg
<1>1. /\ pc[t] = "release" /\ heap' = heap
      /\ own' = [own EXCEPT ![t] = own[t]]
      /\ arg' = [arg EXCEPT ![t] = next]
  BY DEF ReleaseHeap, HpInv, CallTypes
<1>2. next = [block |-> next.block, size |-> next.size]
      /\ next.block \in Grant \cup {None} /\ next.size \in 0 .. MemSize
  BY ArgOf, HeapNumbers DEF NoArg
<1>3. PICK o, a : /\ op' = [op EXCEPT ![t] = o] \/ (op' = op /\ o = op[t])
                  /\ pc' = [pc EXCEPT ![t] = a]
                  /\ GoesOn(t) => o = op[t] /\ a \in {"resched", "again"}
                  /\ ~GoesOn(t) => a \in {"sched", "user"}
  <2>1. CASE GoesOn(t)
    <3>1. PICK a \in {"resched", "again"} : Proceed(t, a)
      BY <2>1 DEF ReleaseHeap
    <3>2. op' = op /\ pc' = [pc EXCEPT ![t] = a]
      BY <3>1 DEF Proceed
    <3> QED
      BY <2>1, <3>2
  <2>2. CASE ~GoesOn(t) /\ k.list[HeapWaiters] # <<>>
    <3>1. Proceed(t, "sched")
      BY <2>2 DEF ReleaseHeap
    <3>2. op' = op /\ pc' = [pc EXCEPT ![t] = "sched"]
      BY <3>1 DEF Proceed
    <3> QED
      BY <2>2, <3>2
  <2>3. CASE ~GoesOn(t) /\ k.list[HeapWaiters] = <<>>
    <3>1. Goto(t, "none", "user")
      BY <2>3 DEF ReleaseHeap, Return
    <3> QED
      BY <2>3, <3>1 DEF Goto
  <2> QED
    BY <2>1, <2>2, <2>3
<1>4. own[t] \in SUBSET Grant /\ CallOK(t)
  BY ArgOf
<1> HIDE DEF next
<1>5. StepOf(t, o, a, next.block, next.size, own[t])
  BY <1>1, <1>2, <1>3, <1>4 DEF StepOf
<1>6. /\ op'[t] = o /\ pc'[t] = a /\ arg'[t].block = next.block /\ arg'[t].size = next.size
      /\ own'[t] = own[t]
  BY <1>5, StepOfOne
<1>7. CASE GoesOn(t)
  <2>1. next = arg[t] /\ op'[t] = op[t] /\ pc'[t] \in {"resched", "again"}
    BY <1>3, <1>6, <1>7 DEF next
  <2>2. Blocks(t)' = Blocks(t)
    BY <1>1, <1>6, <1>7, <2>1 DEF GoesOn, Blocks, Freed, Kept
  <2>3. CallOK(t)'
    BY <1>1, <1>4, <1>6, <1>7, <2>1 DEF GoesOn, CallOK, Outside, Freed, Kept
  <2> QED
    BY <1>1, <1>5, <2>2, <2>3, QuietStep
<1>8. CASE ~GoesOn(t)
  <2>1. arg'[t].block = None /\ pc'[t] \in {"sched", "user"}
    BY <1>3, <1>6, <1>8 DEF next, NoArg
  <2>2. arg[t].block = None \/ Freed(t) \/ Kept(t)
    BY <1>1, <1>4, <1>8 DEF CallOK, Outside, HeapOp, GoesOn, Freed, Kept
  <2>3. Blocks(t)' = Blocks(t)
    BY <1>6, <2>1, <2>2 DEF Blocks
  <2>4. CallOK(t)'
    BY <2>1 DEF CallOK, Outside
  <2> QED
    BY <1>1, <1>5, <2>3, <2>4, QuietStep
<1> QED
  BY <1>7, <1>8

LEMMA AgainKeeps ==
  ASSUME HpInv, NEW t \in Thread, ReleaseSchedule(t) \/ ReallocGoesOn(t)
  PROVE  HpInv'
<1>1. /\ heap' = heap /\ arg' = arg /\ own' = own /\ pc[t] \in {"resched", "again"}
  BY DEF ReleaseSchedule, ReallocGoesOn, hpVars
<1>2. PICK a \in {"again", "critical", "wait"} :
        /\ op' = [op EXCEPT ![t] = op[t]] \/ op' = op
        /\ pc' = [pc EXCEPT ![t] = a]
  <2>1. CASE ReleaseSchedule(t)
    BY <2>1 DEF ReleaseSchedule, Proceed
  <2>2. CASE ReallocGoesOn(t)
    BY <2>2, SemTakeGoes DEF ReallocGoesOn, Goto
  <2> QED
    BY <2>1, <2>2
<1>3. /\ arg[t] = [block |-> arg[t].block, size |-> arg[t].size]
      /\ arg[t].block \in Grant \cup {None} /\ arg[t].size \in 0 .. MemSize
      /\ own[t] \in SUBSET Grant /\ CallOK(t)
  BY ArgOf
<1>4. /\ arg' = [arg EXCEPT ![t] = [block |-> arg[t].block, size |-> arg[t].size]]
      /\ own' = [own EXCEPT ![t] = own[t]]
  BY <1>1, <1>3 DEF HpInv, CallTypes
<1>5. StepOf(t, op[t], a, arg[t].block, arg[t].size, own[t])
  BY <1>2, <1>3, <1>4 DEF StepOf
<1>6. op'[t] = op[t] /\ pc'[t] = a
  BY <1>5, StepOfOne
<1>7. Blocks(t)' = Blocks(t)
  BY <1>1, <1>6 DEF Blocks, Freed, Kept
<1>8. CallOK(t)'
  BY <1>1, <1>3, <1>6 DEF CallOK, Outside, Freed, Kept
<1> QED
  BY <1>1, <1>5, <1>7, <1>8, QuietStep

LEMMA HpNextKeeps == HpInv /\ HpNext => HpInv'
<1> SUFFICES ASSUME HpInv, HpNext PROVE HpInv'
  OBVIOUS
<1>1. PICK t \in Thread :
        \/ Malloc(t) \/ Give(t, "free", {0}) \/ Give(t, "realloc", Sizes)
        \/ \E o \in HeapOp : MallocFound(t, o) \/ MallocFailed(t, o) \/ Free(t, o)
        \/ ReallocSame(t) \/ ReallocCut(t) \/ ReallocMove(t)
        \/ ReleaseHeap(t) \/ ReleaseSchedule(t) \/ ReallocGoesOn(t)
  BY DEF HpNext
<1>2. CASE Malloc(t)
  BY <1>2, MallocKeeps
<1>3. CASE Give(t, "free", {0})
  <2>1. {0} \in SUBSET (0 .. MemSize)
    BY HeapNumbers
  <2> QED
    BY <1>3, <2>1, GiveKeeps
<1>4. CASE Give(t, "realloc", Sizes)
  <2>1. Sizes \in SUBSET (0 .. MemSize)
    BY HeapNumbers
  <2> QED
    BY <1>4, <2>1, GiveKeeps
<1>5. CASE \E o \in HeapOp : MallocFound(t, o) \/ MallocFailed(t, o) \/ Free(t, o)
  BY <1>5, MallocFoundKeeps, MallocFailedKeeps, FreeKeeps
<1>6. CASE ReallocSame(t) \/ ReallocCut(t) \/ ReallocMove(t)
  BY <1>6, ReallocKeeps
<1>7. CASE ReleaseHeap(t)
  BY <1>7, ReleaseHeapKeeps
<1>8. CASE ReleaseSchedule(t) \/ ReallocGoesOn(t)
  BY <1>8, AgainKeeps
<1> QED
  BY <1>1, <1>2, <1>3, <1>4, <1>5, <1>6, <1>7, <1>8

-----------------------------------------------------------------------------
(* Each of the other modules is elsewhere.  A step of theirs begins in user *)
(* code, at the end of a call, or in a call of the module's own.            *)
DomOK == DOMAIN op = Thread /\ DOMAIN pc = Thread

LEMMA SamePcElsewhere == ASSUME DomOK, UNCHANGED <<op, pc>> PROVE Elsewhere
BY DEF DomOK, Elsewhere

LEMMA GotoElsewhere ==
  ASSUME DomOK, NEW t \in Thread, Outside(t), NEW o, NEW a, Goto(t, o, a),
         o \notin HeapOp \/ a \in {"user", "sched"}
  PROVE  Elsewhere
BY DEF DomOK, Goto, Elsewhere, Outside

LEMMA ReturnElsewhere ==
  ASSUME DomOK, NEW t \in Thread, Outside(t), Return(t)
  PROVE  Elsewhere
BY GotoElsewhere DEF Return

LEMMA ProceedElsewhere ==
  ASSUME DomOK, NEW t \in Thread, op[t] \notin HeapOp, NEW a, Proceed(t, a)
  PROVE  Elsewhere
BY DEF DomOK, Proceed, Elsewhere, Outside

LEMMA CallsOutside == ASSUME NEW t, NEW o, NEW x, Calls(t, o, x) PROVE Outside(t)
BY DEF Calls, Outside

LEMMA AtOutside == ASSUME NEW t, NEW o, NEW a, At(t, o, a), o \notin HeapOp
                   PROVE Outside(t) /\ op[t] \notin HeapOp
BY DEF At, Outside

LEMMA SysElsewhere == ASSUME DomOK, SysNext PROVE Elsewhere
<1>1. CASE SliceIsr
  BY <1>1, SamePcElsewhere DEF SliceIsr
<1>2. ASSUME NEW t \in Thread, Delay(t) PROVE Elsewhere
  BY <1>2, GotoElsewhere DEF Delay, Outside, HeapOp
<1>3. ASSUME NEW t \in Thread, WaitSchedule(t) PROVE Elsewhere
  BY <1>3 DEF WaitSchedule, Proceed, DomOK, Elsewhere
<1>4. ASSUME NEW t \in Thread, DelayReturn(t) PROVE Elsewhere
  BY <1>4, AtOutside, ReturnElsewhere DEF DelayReturn, HeapOp
<1>5. ASSUME NEW t \in Thread, ScheduleAndReturn(t) PROVE Elsewhere
  BY <1>5, ReturnElsewhere DEF ScheduleAndReturn, Outside
<1>6. ASSUME NEW t \in Thread, TimerIsr(t) PROVE Elsewhere
  BY <1>6, SamePcElsewhere DEF TimerIsr
<1> QED
  BY <1>1, <1>2, <1>3, <1>4, <1>5, <1>6 DEF SysNext

(* The steps that the objects share *)
LEMMA WaitElsewhere ==
  ASSUME DomOK, NEW t \in Thread, NEW o, NEW x, NEW q, o \notin HeapOp,
         InLoop(t, o, x), WaitOn(t, o, q)
  PROVE  Elsewhere
<1>1. Outside(t)
  BY CallsOutside, AtOutside DEF InLoop
<1> QED
  BY <1>1, GotoElsewhere DEF WaitOn

LEMMA TimeIsUpElsewhere ==
  ASSUME DomOK, NEW t \in Thread, NEW o, NEW e, o \notin HeapOp, TimeIsUp(t, o, e)
  PROVE  Elsewhere
BY AtOutside, ReturnElsewhere DEF TimeIsUp

LEMMA GiveUpElsewhere ==
  ASSUME DomOK, NEW t \in Thread, NEW o, o \notin HeapOp, GiveUp(t, o)
  PROVE  Elsewhere
BY AtOutside, ReturnElsewhere DEF GiveUp

LEMMA EnterWakeOneElsewhere ==
  ASSUME DomOK, NEW t \in Thread, NEW o, NEW q, Outside(t), EnterWakeOne(t, o, q)
  PROVE  Elsewhere
BY GotoElsewhere, ReturnElsewhere DEF EnterWakeOne

LEMMA InLoopOutside ==
  ASSUME NEW t, NEW o, NEW x, o \notin HeapOp, InLoop(t, o, x)
  PROVE  Outside(t)
BY CallsOutside, AtOutside DEF InLoop

LEMMA DetachElsewhere ==
  ASSUME DomOK, NEW t \in Thread, NEW o, NEW x, o \notin HeapOp, Detach(t, o, x)
  PROVE  Elsewhere
BY CallsOutside, GotoElsewhere DEF Detach

LEMMA DrainElsewhere ==
  ASSUME DomOK, NEW t \in Thread, NEW o, NEW q, NEW a, NEW b, NEW next, o \notin HeapOp,
         DrainTest(t, o, q, a, b, next) \/ DrainResume(t, o, q, a, b)
  PROVE  Elsewhere
<1>1. Outside(t) /\ op[t] \notin HeapOp
  BY AtOutside DEF DrainTest, DrainResume
<1>2. Return(t) \/ \E p : Proceed(t, p)
  BY DEF DrainTest, DrainResume
<1> QED
  BY <1>1, <1>2, ReturnElsewhere, ProceedElsewhere

(* The other objects, one by one *)
LEMMA MqElsewhere == ASSUME DomOK, MqNext PROVE Elsewhere
<1>1. ASSUME NEW o \in {"mq_send", "mq_urgent"}, MqIsrSend(o) PROVE Elsewhere
  BY <1>1, SamePcElsewhere DEF MqIsrSend, IsrWakeOne
<1>2. ASSUME NEW o \in {"mq_send", "mq_urgent"}, NEW t \in Thread, MqTakeFree(t, o)
      PROVE  Elsewhere
  BY <1>2, CallsOutside, GotoElsewhere DEF MqTakeFree, HeapOp
<1>3. ASSUME NEW o \in {"mq_send", "mq_urgent"}, NEW t \in Thread, MqLink(t, o)
      PROVE  Elsewhere
  BY <1>3, AtOutside, ProceedElsewhere, ReturnElsewhere DEF MqLink, WakeOneAndReturn, HeapOp
<1>4. ASSUME NEW t \in Thread, MqRecvWait(t) PROVE Elsewhere
  BY <1>4, WaitElsewhere DEF MqRecvWait, HeapOp
<1>5. ASSUME NEW t \in Thread, MqRecvTimeIsUp(t) PROVE Elsewhere
  BY <1>5, TimeIsUpElsewhere DEF MqRecvTimeIsUp, HeapOp
<1>6. ASSUME NEW t \in Thread, MqRecvTake(t) PROVE Elsewhere
  BY <1>6, InLoopOutside, GotoElsewhere DEF MqRecvTake, HeapOp
<1>7. ASSUME NEW t \in Thread, MqRecvFree(t) PROVE Elsewhere
  BY <1>7, AtOutside, ReturnElsewhere DEF MqRecvFree, HeapOp
<1>8. ASSUME NEW t \in Thread, GiveUp(t, "mq_recv") PROVE Elsewhere
  BY <1>8, GiveUpElsewhere DEF HeapOp
<1>9. ASSUME NEW t \in Thread, MqReset(t) PROVE Elsewhere
  BY <1>9, CallsOutside, GotoElsewhere DEF MqReset, HeapOp
<1>10. ASSUME NEW t \in Thread, MqDetach(t) PROVE Elsewhere
  BY <1>10, DetachElsewhere, DrainElsewhere DEF MqDetach, HeapOp
<1> QED
  BY <1>1, <1>2, <1>3, <1>4, <1>5, <1>6, <1>7, <1>8, <1>9, <1>10 DEF MqNext

LEMMA MbElsewhere == ASSUME DomOK, MbNext PROVE Elsewhere
<1>1. ASSUME NEW t \in Thread, MbSendWait(t) \/ MbRecvWait(t) PROVE Elsewhere
  BY <1>1, WaitElsewhere DEF MbSendWait, MbRecvWait, HeapOp
<1>2. ASSUME NEW t \in Thread, MbSendTimeIsUp(t) \/ MbRecvTimeIsUp(t) PROVE Elsewhere
  BY <1>2, TimeIsUpElsewhere DEF MbSendTimeIsUp, MbRecvTimeIsUp, HeapOp
<1>3. ASSUME NEW t \in Thread, MbSend(t) \/ MbRecv(t) PROVE Elsewhere
  BY <1>3, InLoopOutside, EnterWakeOneElsewhere DEF MbSend, MbRecv, HeapOp
<1>4. ASSUME NEW t \in Thread, GiveUp(t, "mb_send") \/ GiveUp(t, "mb_recv") PROVE Elsewhere
  BY <1>4, GiveUpElsewhere DEF HeapOp
<1>5. ASSUME NEW t \in Thread, MbReset(t) PROVE Elsewhere
  BY <1>5, CallsOutside, GotoElsewhere DEF MbReset, HeapOp
<1>6. ASSUME NEW t \in Thread, MbDetach(t) PROVE Elsewhere
  BY <1>6, DetachElsewhere, DrainElsewhere DEF MbDetach, HeapOp
<1> QED
  BY <1>1, <1>2, <1>3, <1>4, <1>5, <1>6 DEF MbNext

LEMMA MpElsewhere == ASSUME DomOK, MpNext PROVE Elsewhere
<1>1. ASSUME NEW t \in Thread, MpAllocWait(t) PROVE Elsewhere
  BY <1>1, InLoopOutside, GotoElsewhere DEF MpAllocWait, HeapOp
<1>2. ASSUME NEW t \in Thread, MpAllocFails(t) PROVE Elsewhere
  BY <1>2, TimeIsUpElsewhere, SamePcElsewhere DEF MpAllocFails, HeapOp
<1>3. ASSUME NEW t \in Thread, MpAlloc(t) PROVE Elsewhere
  BY <1>3, InLoopOutside, ReturnElsewhere DEF MpAlloc, HeapOp
<1>4. ASSUME NEW t \in Thread, MpFree(t) PROVE Elsewhere
  <2>1. Outside(t) /\ (Return(t) \/ \E a : Goto(t, "mp_free", a))
    BY <1>4, CallsOutside DEF MpFree
  <2> QED
    BY <2>1, ReturnElsewhere, GotoElsewhere DEF HeapOp
<1>5. ASSUME NEW t \in Thread, MpDetach(t) PROVE Elsewhere
  <2>1. "mp_detach" \notin HeapOp
    BY DEF HeapOp
  <2>2. \/ Detach(t, "mp_detach", "mp")
        \/ DrainTest(t, "mp_detach", MpWaiters, "test", "resume", "user")
        \/ DrainResume(t, "mp_detach", MpWaiters, "test", "resume")
    BY <1>5 DEF MpDetach
  <2> QED
    BY <2>1, <2>2, DetachElsewhere, DrainElsewhere
<1>6. ASSUME NEW t \in Thread, GiveUp(t, "mp_alloc") PROVE Elsewhere
  BY <1>6, GiveUpElsewhere DEF HeapOp
<1> QED
  BY <1>1, <1>2, <1>3, <1>4, <1>5, <1>6 DEF MpNext

LEMMA EvElsewhere == ASSUME DomOK, EvNext PROVE Elsewhere
<1>1. ASSUME EvIsrSend PROVE Elsewhere
  BY <1>1, SamePcElsewhere DEF EvIsrSend
<1>2. ASSUME NEW t \in Thread, EvRecvAtOnce(t) \/ EvRecvFails(t) PROVE Elsewhere
  BY <1>2, SamePcElsewhere DEF EvRecvAtOnce, EvRecvFails
<1>3. ASSUME NEW t \in Thread, EvRecvWait(t) PROVE Elsewhere
  BY <1>3, WaitElsewhere DEF EvRecvWait, InLoop, HeapOp
<1>4. ASSUME NEW t \in Thread, EvRecvReturn(t) PROVE Elsewhere
  BY <1>4, AtOutside, ReturnElsewhere DEF EvRecvReturn, HeapOp
<1>5. ASSUME NEW t \in Thread, EvSend(t) PROVE Elsewhere
  <2>1. Outside(t) /\ (Return(t) \/ Goto(t, "event_send", "sched"))
    BY <1>5, CallsOutside DEF EvSend
  <2> QED
    BY <2>1, ReturnElsewhere, GotoElsewhere
<1>6. ASSUME NEW t \in Thread, EvReset(t) PROVE Elsewhere
  BY <1>6, CallsOutside, GotoElsewhere DEF EvReset
<1>7. ASSUME NEW t \in Thread, EvDetach(t) PROVE Elsewhere
  BY <1>7, DetachElsewhere, DrainElsewhere DEF EvDetach, HeapOp
<1> QED
  BY <1>1, <1>2, <1>3, <1>4, <1>5, <1>6, <1>7 DEF EvNext

LEMMA StElsewhere == ASSUME DomOK, StNext PROVE Elsewhere
<1>1. ASSUME NEW s \in SoftTimers, StIsrStart(s) PROVE Elsewhere
  <2>1. CASE UNCHANGED <<op, pc>>
    BY <2>1, SamePcElsewhere
  <2>2. CASE op[TimerThread] = "timer_entry" /\ Proceed(TimerThread, "torn")
    BY <2>2, ProceedElsewhere, SoftTimerAssumption DEF HeapOp
  <2> QED
    BY <1>1, <2>1, <2>2 DEF StIsrStart
<1>2. ASSUME NEW t \in Thread, NEW s \in SoftTimers, StStart(t, s) \/ StStop(t, s)
      PROVE  Elsewhere
  BY <1>2, CallsOutside, GotoElsewhere DEF StStart, StStop, HeapOp
<1>3. ASSUME NEW t \in Thread, StInsert(t) \/ StRemove(t) PROVE Elsewhere
  BY <1>3, AtOutside, ProceedElsewhere DEF StInsert, StRemove, HeapOp
<1>4. ASSUME NEW t \in Thread, StResumeTest(t) \/ StUnlink(t) \/ StReady(t)
      PROVE  Elsewhere
  BY <1>4, AtOutside, ProceedElsewhere DEF StResumeTest, StUnlink, StReady, HeapOp
<1>5. ASSUME NEW t \in Thread, StWake(t) \/ StFlag(t) PROVE Elsewhere
  BY <1>5, AtOutside, ProceedElsewhere, ReturnElsewhere DEF StWake, StFlag, HeapOp
<1>6. CASE Enter
  BY <1>6, CallsOutside, GotoElsewhere, SoftTimerAssumption DEF Enter, HeapOp
<1>7. ASSUME NEW a, NEW b, Entry(a), EntryGoes(b) PROVE Elsewhere
  <2>1. op[TimerThread] \notin HeapOp
    BY <1>7 DEF Entry, At, HeapOp
  <2> QED
    BY <1>7, <2>1, ProceedElsewhere, SoftTimerAssumption DEF EntryGoes
<1>8. CASE NextTimeout \/ FallAsleep \/ SleepSchedule \/ Check \/ Expire
           \/ CallFunction \/ CheckEnd \/ FuncInsert \/ FuncRemove \/ FuncFlag
  BY <1>7, <1>8 DEF NextTimeout, FallAsleep, SleepSchedule, Check, Expire,
     CallFunction, CheckEnd, FuncInsert, FuncRemove, FuncFlag
<1>9. CASE Nap \/ NapSchedule \/ NapReturn \/ FuncReturn \/ Restart \/ RestartInsert
           \/ Expired \/ Mark \/ \E s \in SoftTimers : FuncStart(s) \/ FuncStop(s)
  BY <1>7, <1>9 DEF Nap, NapSchedule, NapReturn, FuncReturn, Restart, RestartInsert,
     Expired, Mark, FuncStart, FuncStop
<1> QED
  BY <1>1, <1>2, <1>3, <1>4, <1>5, <1>6, <1>8, <1>9 DEF StNext

-----------------------------------------------------------------------------
LEMMA HpInvNext == HpInv /\ [Next]_vars => HpInv'
<1> SUFFICES ASSUME HpInv, [Next]_vars PROVE HpInv'
  OBVIOUS
<1>1. DomOK
  BY DEF HpInv, CallTypes, DomOK
<1>2. CASE HpNext
  BY <1>2, HpNextKeeps
<1>3. CASE (SysNext \/ MqNext \/ MbNext \/ MpNext \/ EvNext \/ StNext) /\ UNCHANGED hpVars
  BY <1>1, <1>3, SysElsewhere, MqElsewhere, MbElsewhere, MpElsewhere, EvElsewhere,
     StElsewhere, ElsewhereKeeps
<1>4. CASE IsrProduce /\ UNCHANGED hpVars
  BY <1>1, <1>4, SamePcElsewhere, ElsewhereKeeps DEF IsrProduce, IsrWakeOne
<1>5. CASE UNCHANGED vars
  BY <1>1, <1>5, SamePcElsewhere, ElsewhereKeeps DEF vars, sysVars
<1> QED
  BY <1>2, <1>3, <1>4, <1>5 DEF Next

(* Whatever the threads ask for, in whatever order, the headers of the heap *)
(* stay one list that tiles the memory, linked both ways and with no two    *)
(* free blocks in a row, and every block in use has one owner and is as     *)
(* long as its owner wanted (rt_malloc, rt_free, rt_realloc, plug_holes).   *)
THEOREM ApplicationKeepsHeap == Spec => []HeapSound
<1>1. Init => HpInv
  BY HpInvInit
<1>2. HpInv /\ [Next]_vars => HpInv'
  BY HpInvNext
<1>3. HpInv => HeapSound
  BY HpInvSound
<1> QED
  BY <1>1, <1>2, <1>3, PTL DEF Spec
=============================================================================
