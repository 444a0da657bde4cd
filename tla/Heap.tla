-------------------------------- MODULE Heap --------------------------------
(***************************************************************************)
(* The heap (mem.c): first fit in a list of blocks that tile the memory,   *)
(* each behind a header.  The semaphore heap_sem keeps callers out of each *)
(* other's way, with interrupts enabled; what a caller does while it has   *)
(* the unit is one step, and HpNoLostWakeUp says that nobody else does     *)
(* anything then.  Offsets and sizes are in units of RT_ALIGN_SIZE.        *)
(***************************************************************************)
EXTENDS System

CONSTANTS
  HeapWaiters,   \* heap_sem.parent.suspend_thread
  MemSize,       \* mem_size_aligned
  Header,        \* SIZEOF_STRUCT_MEM
  MinSize,       \* MIN_SIZE_ALIGNED
  Sizes          \* sizes that the application asks for

ASSUME HeapAssumption ==
  /\ HeapWaiters \in Queue /\ "heap" \in Object
  /\ Header \in Nat \ {0} /\ MinSize \in Nat \ {0}
  /\ MemSize \in Nat /\ MinSize <= MemSize
  /\ Sizes \subseteq 1 .. MemSize
  /\ None \notin (0 .. MemSize + Header) \X (0 .. MemSize)

VARIABLES
  heap,       \* the headers in use by their offsets, mem, and lfree
  heap_sem,   \* heap_sem.value
  own,        \* the blocks that each thread may use, with the sizes it wanted
  arg         \* the block and the size that its call is about

hpVars == <<heap, heap_sem, own, arg>>

HeapOp == {"malloc", "free", "realloc", "realloc_malloc", "realloc_free"}

End == MemSize + Header    \* heap_end
Offset == 0 .. End

NoArg == [block |-> None, size |-> 0]

HpInit ==
  /\ heap = [mem |-> [p \in {0, End} |-> [used |-> p = End, next |-> End, prev |-> p]],
             lfree |-> 0]
  /\ heap_sem = 1
  /\ own = [t \in Thread |-> {}]
  /\ arg = [t \in Thread |-> NoArg]

-----------------------------------------------------------------------------
(* The user data of the block at p *)
Room(m, p) == m[p].next - (p + Header)

(* The block at p keeps n units; the rest becomes a free block. *)
Remainder(p, n) == p + Header + n
Split(m, p, n) ==
  LET q == Remainder(p, n)
      after == m[p].next
  IN  [r \in DOMAIN m \cup {q} |->
         IF r = q THEN [used |-> FALSE, next |-> after, prev |-> p]
         ELSE IF r = p THEN [m[p] EXCEPT !.next = q]
         ELSE IF r = after /\ r # End THEN [m[r] EXCEPT !.prev = q]
         ELSE m[r]]

(* The block at p takes in the one behind it, whose header is forgotten. *)
Join(m, p) ==
  LET gone == m[p].next IN
  [r \in DOMAIN m \ {gone} |->
     IF r = p THEN [m[p] EXCEPT !.next = m[gone].next]
     ELSE IF r = m[gone].next THEN [m[r] EXCEPT !.prev = p]
     ELSE m[r]]

(* Mutation: lfree is not moved when its block is taken in. *)
PlugForward_LfreeStays(h, p) ==
  LET n == h.mem[p].next IN
  IF n # p /\ ~h.mem[n].used /\ n # End
  THEN [mem |-> Join(h.mem, p), lfree |-> h.lfree]
  ELSE h

(* plug_holes: a free block joins the one behind it and the one before it. *)
PlugForward(h, p) ==
  LET n == h.mem[p].next IN
  IF n # p /\ ~h.mem[n].used /\ n # End
  THEN [mem |-> Join(h.mem, p), lfree |-> IF h.lfree = n THEN p ELSE h.lfree]
  ELSE h

PlugBackward(h, p) ==
  LET q == h.mem[p].prev IN
  IF q # p /\ ~h.mem[q].used
  THEN [mem |-> Join(h.mem, q), lfree |-> IF h.lfree = p THEN q ELSE h.lfree]
  ELSE h

PlugHoles(h, p) == PlugBackward(PlugForward(h, p), p)

(* The free blocks that the loop of rt_malloc finds big enough.  It goes    *)
(* from header to header, which HeapLinked says are in order.               *)
Fit(h, n) ==
  {p \in DOMAIN h.mem : h.lfree <= p /\ p < MemSize - n /\ ~h.mem[p].used /\ n <= Room(h.mem, p)}

(* The first of them, p, is allocated, and split if what is left can hold   *)
(* another block; lfree moves on if it was p.                               *)
Allocate(h, p, n) ==
  LET m == IF Room(h.mem, p) >= n + Header + MinSize THEN Split(h.mem, p, n) ELSE h.mem
      u == [m EXCEPT ![p].used = TRUE]
  IN  [mem |-> u,
       lfree |-> IF p = h.lfree
                 THEN Min({r \in DOMAIN u : p <= r /\ (~u[r].used \/ r = End)})
                 ELSE h.lfree]

(* rt_free: the lowest free block may be a new one. *)
Release(h, p) ==
  PlugHoles([mem |-> [h.mem EXCEPT ![p].used = FALSE],
             lfree |-> IF p < h.lfree THEN p ELSE h.lfree], p)

(* rt_realloc in place: what p does not need any more becomes free. *)
Shrink(h, p, n) == PlugHoles([h EXCEPT !.mem = Split(h.mem, p, n)], Remainder(p, n))

-----------------------------------------------------------------------------
(* rt_sem_take(&heap_sem, RT_WAITING_FOREVER) *)
SemTake(t, o) ==
  IF heap_sem > 0
  THEN heap_sem' = heap_sem - 1 /\ Goto(t, o, "critical") /\ UNCHANGED k
  ELSE /\ k' = IpcSuspend([k EXCEPT !.err[t] = "EOK"], HeapWaiters, t, "FIFO", FALSE)
       /\ Goto(t, o, "wait")
       /\ UNCHANGED heap_sem

(* The current thread t has the unit and is inside o. *)
HasHeap(t, o) == At(t, o, "critical") \/ At(t, o, "woken")

(* rt_malloc *)
Malloc(t) ==
  /\ Calls(t, "malloc", "heap")
  /\ \E n \in Sizes : arg' = [arg EXCEPT ![t] = [block |-> None, size |-> n]]
  /\ SemTake(t, "malloc")
  /\ UNCHANGED <<prog, alive, timed, held, heap, own>>

(* rt_free and rt_realloc: a thread gives away only what it owns. *)
Give(t, o, sizes) ==
  /\ Calls(t, o, "heap")
  /\ \E b \in own[t], n \in sizes :
       /\ arg' = [arg EXCEPT ![t] = [block |-> b, size |-> n]]
       /\ own' = [own EXCEPT ![t] = @ \ {b}]
  /\ SemTake(t, o)
  /\ UNCHANGED <<prog, alive, timed, held, heap>>

(* The call of t is done with the heap and gives the unit back; if o is     *)
(* realloc_malloc or realloc_free it goes on with that, else it returns.    *)
GiveBack(t, o) == Goto(t, o, "release") /\ UNCHANGED <<k, prog, alive, timed, held, heap_sem>>

Gets(t, p, n) == own' = [own EXCEPT ![t] = @ \cup {<<p, n>>}]

(* rt_malloc, which rt_realloc calls as well, allocates at least MinSize.   *)
Wanted(t) == IF arg[t].size < MinSize THEN MinSize ELSE arg[t].size

MallocFound(t, o) ==
  LET fit == Fit(heap, Wanted(t)) IN
  /\ HasHeap(t, o) /\ o \in {"malloc", "realloc_malloc"}
  /\ fit # {}
  /\ heap' = Allocate(heap, Min(fit), Wanted(t))
  /\ Gets(t, Min(fit), arg[t].size)
  /\ GiveBack(t, IF o = "malloc" THEN "malloc" ELSE "realloc_free")
  /\ UNCHANGED arg

(* RT_NULL is returned, and rt_realloc leaves the block as it was. *)
MallocFailed(t, o) ==
  /\ HasHeap(t, o) /\ o \in {"malloc", "realloc_malloc"}
  /\ Fit(heap, Wanted(t)) = {}
  /\ IF o = "malloc" THEN UNCHANGED own ELSE own' = [own EXCEPT ![t] = @ \cup {arg[t].block}]
  /\ GiveBack(t, "malloc")
  /\ UNCHANGED <<heap, arg>>

Free(t, o) ==
  /\ HasHeap(t, o) /\ o \in {"free", "realloc_free"}
  /\ heap' = Release(heap, arg[t].block[1])
  /\ GiveBack(t, "free")
  /\ UNCHANGED <<own, arg>>

(* rt_realloc keeps the block as it is, ... *)
ReallocSame(t) ==
  /\ HasHeap(t, "realloc")
  /\ Room(heap.mem, arg[t].block[1]) = arg[t].size
  /\ Gets(t, arg[t].block[1], arg[t].size)
  /\ GiveBack(t, "realloc")
  /\ UNCHANGED <<heap, arg>>

(* ... or cuts it, ... *)
Cuts(t) == arg[t].size + Header + MinSize < Room(heap.mem, arg[t].block[1])
ReallocCut(t) ==
  /\ HasHeap(t, "realloc")
  /\ Cuts(t)
  /\ heap' = Shrink(heap, arg[t].block[1], arg[t].size)
  /\ Gets(t, arg[t].block[1], arg[t].size)
  /\ GiveBack(t, "realloc")
  /\ UNCHANGED arg

(* ... or gets another one, copies the contents and frees the old one.      *)
ReallocMove(t) ==
  /\ HasHeap(t, "realloc")
  /\ Room(heap.mem, arg[t].block[1]) # arg[t].size /\ ~Cuts(t)
  /\ GiveBack(t, "realloc_malloc")
  /\ UNCHANGED <<heap, own, arg>>

(* rt_sem_release(&heap_sem): the first waiter gets the unit.               *)
GoesOn(t) == op[t] \in {"realloc_malloc", "realloc_free"}
ReleaseHeap(t) ==
  /\ t = k.current /\ pc[t] = "release"
  /\ \/ /\ k.list[HeapWaiters] # <<>>
        /\ k' = IpcResume(k, HeapWaiters)
        /\ Proceed(t, IF GoesOn(t) THEN "resched" ELSE "sched")
        /\ UNCHANGED <<heap_sem, timed>>
     \/ /\ k.list[HeapWaiters] = <<>>
        /\ heap_sem' = heap_sem + 1
        /\ IF GoesOn(t) THEN Proceed(t, "again") /\ UNCHANGED timed ELSE Return(t)
        /\ UNCHANGED k
  /\ arg' = IF GoesOn(t) THEN arg ELSE [arg EXCEPT ![t] = NoArg]
  /\ UNCHANGED <<prog, alive, held, heap, own>>

ReleaseSchedule(t) ==
  /\ t = k.current /\ pc[t] = "resched"
  /\ k' = Schedule(k)
  /\ Proceed(t, "again")
  /\ UNCHANGED <<prog, alive, timed, held, hpVars>>

ReallocGoesOn(t) ==
  /\ t = k.current /\ pc[t] = "again"
  /\ SemTake(t, op[t])
  /\ UNCHANGED <<prog, alive, timed, held, heap, own, arg>>

HpNext ==
  \E t \in Thread :
    \/ Malloc(t) \/ Give(t, "free", {0}) \/ Give(t, "realloc", Sizes)
    \/ \E o \in HeapOp : MallocFound(t, o) \/ MallocFailed(t, o) \/ Free(t, o)
    \/ ReallocSame(t) \/ ReallocCut(t) \/ ReallocMove(t)
    \/ ReleaseHeap(t) \/ ReleaseSchedule(t) \/ ReallocGoesOn(t)

-----------------------------------------------------------------------------
Grant == Offset \X (0 .. MemSize)     \* a block that was asked for, with the size

HpTypeOK ==
  /\ DOMAIN heap = {"mem", "lfree"}
  /\ DOMAIN heap.mem \subseteq Offset
  /\ heap.mem \in [DOMAIN heap.mem -> [used : BOOLEAN, next : Offset, prev : Offset]]
  /\ heap.lfree \in Offset
  /\ heap_sem \in {0, 1}
  /\ own \in [Thread -> SUBSET Grant]
  /\ arg \in [Thread -> [block : Grant \cup {None}, size : 0 .. MemSize]]

(* The headers form one list, in the order of their offsets and linked both *)
(* ways, without two free blocks in a row; lfree is a free block or the end *)
(* (mem.c:386, RT_ASSERT(((lfree == heap_end) || (!lfree->used)))).         *)
HeapLinked ==
  LET m == heap.mem IN
  /\ {0, End} \subseteq DOMAIN m
  /\ m[End].used /\ m[0].prev = 0
  /\ \A p \in DOMAIN m \ {End} :
       LET n == m[p].next IN
       /\ n \in DOMAIN m /\ p + Header < n
       /\ \A r \in DOMAIN m : r <= p \/ n <= r
       /\ n # End => m[n].prev = p
       /\ ~m[p].used => m[n].used
  /\ heap.lfree \in DOMAIN m
  /\ heap.lfree = End \/ ~m[heap.lfree].used

(* The blocks that t may use, and the one that its call is about *)
Freed(t) == op[t] = "free" /\ pc[t] = "release"
Kept(t) == op[t] \in {"malloc", "realloc"} /\ pc[t] = "release"
Blocks(t) ==
  own[t] \cup (IF arg[t].block = None \/ Freed(t) \/ Kept(t) THEN {} ELSE {arg[t].block})

(* Every block in use belongs to one call or one thread, as long as it      *)
(* wanted, and every block that somebody has is in use.                     *)
HeapOwned ==
  /\ \A t \in Thread : \A b \in Blocks(t) :
       /\ b[1] \in DOMAIN heap.mem \ {End}
       /\ heap.mem[b[1]].used /\ b[2] <= Room(heap.mem, b[1])
  /\ \A p \in DOMAIN heap.mem \ {End} : heap.mem[p].used =>
       \E t \in Thread : \E b \in Blocks(t) : b[1] = p
  /\ \A t, u \in Thread : \A b \in Blocks(t), c \in Blocks(u) : b[1] = c[1] => t = u /\ b = c

(* Whatever interleaving of the calls, the heap stays a list of blocks that *)
(* tile the memory, and no two owners share a unit of it.                   *)
HeapSound == HeapLinked /\ HeapOwned

(* rt_malloc returns RT_NULL only "if no free memory was found" (mem.c:270): *)
(* no free block has more room than it wants.                                *)
MallocFindsBlock ==
  \A t \in Thread :
    /\ HasHeap(t, "malloc") \/ HasHeap(t, "realloc_malloc")
    /\ Fit(heap, Wanted(t)) = {}
    => \A p \in DOMAIN heap.mem \ {End} : ~heap.mem[p].used => Room(heap.mem, p) <= Wanted(t)

(* The thread t holds the unit of heap_sem. *)
Holds(t) ==
  /\ op[t] \in HeapOp
  /\ pc[t] \in {"critical", "release"} \/ (pc[t] \in {"wait", "woken"} /\ k.stat[t] # "SUSPEND")

(* At most one thread is inside the heap, and when nobody is, nobody waits. *)
HpNoLostWakeUp ==
  /\ heap_sem + Cardinality({t \in Thread : Holds(t)}) = 1
  /\ k.list[HeapWaiters] # <<>> => heap_sem = 0
=============================================================================
