------------------------------- MODULE MemPool -------------------------------
(***************************************************************************)
(* Memory pools of fixed-size blocks (rt_mp_* of mempool.c).  The pool      *)
(* counts its waiting threads in suspend_thread_count and looks at the      *)
(* count, not at the list, to decide whether a free has one to resume.      *)
(***************************************************************************)
EXTENDS System

CONSTANTS
  MpWaiters,    \* mp->suspend_thread
  ListOrder,    \* the free blocks as rt_mp_init links them
  MaxSuspended  \* most threads counted as waiting; bounds the model

ASSUME MemPoolAssumption ==
  /\ MpWaiters \in Queue /\ "mp" \in Object
  /\ ListOrder \in Seq(Item) /\ IsInjective(ListOrder) /\ ToSet(ListOrder) = Item
  /\ MaxSuspended \in Nat

VARIABLES
  block_list,             \* mp->block_list
  block_free_count,       \* mp->block_free_count
  suspend_thread_count    \* mp->suspend_thread_count

mpVars == <<block_list, block_free_count, suspend_thread_count>>

MpInit ==
  /\ block_list = ListOrder
  /\ block_free_count = Len(ListOrder)
  /\ suspend_thread_count = 0

-----------------------------------------------------------------------------
(* Mutation: the error of an earlier call is not reset. *)
MpAllocWait_StaleError(t) ==
  /\ InLoop(t, "mp_alloc", "mp")
  /\ held[t] = None
  /\ block_free_count = 0
  /\ suspend_thread_count < MaxSuspended
  /\ \E limit \in Limit(t) :
       LET s == Suspend(k, t) IN
       /\ k' = [s EXCEPT !.list[MpWaiters] = <<t>> \o @,
                         !.armed = IF limit THEN @ \cup {t} ELSE @]
       /\ timed' = [timed EXCEPT ![t] = limit]
  /\ Goto(t, "mp_alloc", "wait")
  /\ suspend_thread_count' = suspend_thread_count + 1
  /\ UNCHANGED <<prog, alive, held, block_list, block_free_count>>

(* rt_mp_alloc with no block free: unlike in ipc.c the thread goes to the   *)
(* head of the wait list, whatever its priority.                            *)
MpAllocWait(t) ==
  /\ InLoop(t, "mp_alloc", "mp")
  /\ held[t] = None
  /\ block_free_count = 0
  /\ suspend_thread_count < MaxSuspended
  /\ \E limit \in Limit(t) :
       LET s == Suspend([k EXCEPT !.err[t] = "EOK"], t) IN
       /\ k' = [s EXCEPT !.list[MpWaiters] = <<t>> \o @,
                         !.armed = IF limit THEN @ \cup {t} ELSE @]
       /\ timed' = [timed EXCEPT ![t] = limit]
  /\ Goto(t, "mp_alloc", "wait")
  /\ suspend_thread_count' = suspend_thread_count + 1
  /\ UNCHANGED <<prog, alive, held, block_list, block_free_count>>

(* With time = 0, or no time left: rt_set_errno sets thread->error. *)
MpAllocFails(t) ==
  /\ block_free_count = 0
  /\ \/ TimeIsUp(t, "mp_alloc", "ETIMEOUT")
     \/ /\ Calls(t, "mp_alloc", "mp")
        /\ held[t] = None
        /\ k' = [k EXCEPT !.err[t] = "ETIMEOUT"]
        /\ UNCHANGED <<op, pc, timed>>
  /\ UNCHANGED <<prog, alive, held, mpVars>>

(* The first free block leaves the pool. *)
TakeBlock ==
  /\ block_free_count > 0
  /\ block_free_count' = block_free_count - 1
  /\ block_list' = Tail(block_list)

MpAlloc(t) ==
  /\ InLoop(t, "mp_alloc", "mp")
  /\ held[t] = None
  /\ TakeBlock
  /\ held' = [held EXCEPT ![t] = Head(block_list)]
  /\ Return(t)
  /\ UNCHANGED <<k, prog, alive, suspend_thread_count>>

-----------------------------------------------------------------------------
(* rt_mp_free of the block that t holds.  If the count is not 0 and the     *)
(* list is empty, the list head itself is taken for a thread: undefined.    *)
MpFree(t) ==
  /\ Calls(t, "mp_free", "mp")
  /\ held[t] # None
  /\ block_free_count' = block_free_count + 1
  /\ block_list' = <<held[t]>> \o block_list
  /\ held' = [held EXCEPT ![t] = None]
  /\ IF suspend_thread_count = 0
     THEN /\ Return(t)
          /\ UNCHANGED <<k, suspend_thread_count>>
     ELSE LET q == k.list[MpWaiters] IN
          /\ k' = IF q # <<>> THEN Resume([k EXCEPT !.err[Head(q)] = "EOK"], Head(q)) ELSE k
          /\ Goto(t, "mp_free", IF q # <<>> THEN "sched" ELSE "wild")
          /\ suspend_thread_count' = suspend_thread_count - 1
          /\ UNCHANGED timed
  /\ UNCHANGED <<prog, alive>>

(* rt_mp_detach and rt_mp_delete: their loop does what that of              *)
(* rt_ipc_list_resume_all does, and counts.                                 *)
MpDetach(t) ==
  \/ /\ \/ Detach(t, "mp_detach", "mp")
        \/ DrainTest(t, "mp_detach", MpWaiters, "test", "resume", "user")
     /\ UNCHANGED mpVars
  \/ /\ DrainResume(t, "mp_detach", MpWaiters, "test", "resume")
     /\ suspend_thread_count' = IF k.list[MpWaiters] # <<>> THEN suspend_thread_count - 1
                                ELSE suspend_thread_count
     /\ UNCHANGED <<block_list, block_free_count>>

MpNext ==
  \E t \in Thread :
    \/ MpAllocWait(t) \/ MpAllocFails(t) \/ MpAlloc(t) \/ MpFree(t) \/ MpDetach(t)
    \/ GiveUp(t, "mp_alloc") /\ UNCHANGED mpVars

-----------------------------------------------------------------------------
MpTypeOK ==
  /\ block_list \in Seq(Item)
  /\ block_free_count \in 0 .. Cardinality(Item)
  /\ suspend_thread_count \in 0 .. MaxSuspended

(* While a thread waits for a block there are no more free blocks than      *)
(* threads that have been woken for them.                                   *)
MpNoLostWakeUp ==
  k.list[MpWaiters] # <<>> => block_free_count <= Cardinality(Woken("mp_alloc"))
=============================================================================
