----------------------------- MODULE KernelProofs -----------------------------
(***************************************************************************)
(* The functions of the kernel preserve its consistency: the lists, the    *)
(* bitmap, the timers and the thread states agree after each of them.      *)
(*                                                                         *)
(* rt_schedule changes rt_current_thread before it puts the outgoing       *)
(* thread back, so RunningIsCurrent does not hold half-way; the other      *)
(* parts (ListsAgree) do, and the lemmas treat them apart.                 *)
(***************************************************************************)
EXTENDS Kernel, ListProofs

ListsAgree(k) ==
  /\ k \in KernelState
  /\ OneList(k)
  /\ ReadyListed(k)
  /\ WaitersSuspended(k)
  /\ BitmapExact(k)
  /\ TimersForSuspended(k)

(* The thread is on no list. *)
Off(k, t) == \A l \in ListId : t \notin On(k, l)

KernelOK(k) == k \in KernelState /\ KernelConsistent(k)

(* The states of a thread that has been started and has not ended *)
Living == {"READY", "RUNNING", "SUSPEND"}

(* The suspend lists of the objects, and who is suspended, change only by   *)
(* the thread t, which is suspended no more.                                *)
OnlyWakes(k, r, t) ==
  /\ \A q \in Queue : On(r, q) = On(k, q) \ {t}
  /\ \A u \in Thread : r.stat[u] = "SUSPEND" <=> k.stat[u] = "SUSPEND" /\ u # t
  /\ \A u \in Thread : k.stat[u] \in Living => r.stat[u] \in Living
  /\ r.armed = k.armed \ {t} /\ r.prio = k.prio /\ r.lock = k.lock

WakesNobody(k, r) ==
  /\ \A q \in Queue : On(r, q) = On(k, q)
  /\ \A u \in Thread : r.stat[u] = "SUSPEND" <=> k.stat[u] = "SUSPEND"
  /\ \A u \in Thread : k.stat[u] \in Living => r.stat[u] \in Living
  /\ \A u \in Thread : r.stat[u] = "READY" => k.stat[u] \in {"READY", "RUNNING"}
  /\ r.prio = k.prio /\ r.err = k.err /\ r.armed = k.armed /\ r.lock = k.lock

(* The two halves of KernelConsistent. *)
LEMMA KernelOKParts ==
  ASSUME NEW k
  PROVE  KernelOK(k) <=> ListsAgree(k) /\ RunningIsCurrent(k)
BY DEF KernelOK, KernelConsistent, ListsAgree

(* The three kinds of list are apart. *)
LEMMA ListKinds ==
  /\ Prio \subseteq ListId /\ Queue \subseteq ListId /\ Defunct \in ListId
  /\ \A l \in ListId : l \in Prio \/ l \in Queue \/ l = Defunct
  /\ Prio \cap Queue = {} /\ Defunct \notin Prio /\ Defunct \notin Queue
BY KernelAssumption DEF ListId

(* Every list of the kernel is a sequence of threads. *)
LEMMA ListType ==
  ASSUME NEW k \in KernelState, NEW l \in ListId
  PROVE  k.list[l] \in Seq(Thread) /\ On(k, l) \subseteq Thread
<1>1. k.list[l] \in Seq(Thread)
  BY DEF KernelState
<1> QED
  BY <1>1, InToSet DEF On

(* A list is empty when nothing is on it. *)
LEMMA EmptyOn ==
  ASSUME NEW k \in KernelState, NEW l \in ListId
  PROVE  k.list[l] = <<>> <=> On(k, l) = {}
BY ListType, EmptyToSet DEF On

(* rt_list_remove takes the thread off every list and changes nothing else. *)
LEMMA UnlinkLists ==
  ASSUME NEW k \in KernelState, OneList(k), NEW t \in Thread
  PROVE  /\ Unlink(k, t) \in KernelState
         /\ OneList(Unlink(k, t))
         /\ \A l \in ListId : On(Unlink(k, t), l) = On(k, l) \ {t}
         /\ Unlink(k, t).stat = k.stat /\ Unlink(k, t).prio = k.prio
         /\ Unlink(k, t).err = k.err /\ Unlink(k, t).armed = k.armed
         /\ Unlink(k, t).group = k.group /\ Unlink(k, t).current = k.current
         /\ Unlink(k, t).lock = k.lock
<1> DEFINE u == Unlink(k, t)
           f == [l \in ListId |-> RemoveFirst(k.list[l], t)]
<1>1. u = [k EXCEPT !.list = f]
  BY DEF Unlink
<1>2. ASSUME NEW l \in ListId
      PROVE  /\ f[l] \in Seq(Thread) /\ IsInjective(f[l])
             /\ ToSet(f[l]) = On(k, l) \ {t}
  <2>1. k.list[l] \in Seq(Thread) /\ IsInjective(k.list[l])
    BY ListType DEF OneList
  <2>2. /\ RemoveFirst(k.list[l], t) \in Seq(Thread)
        /\ IsInjective(RemoveFirst(k.list[l], t))
        /\ ToSet(RemoveFirst(k.list[l], t)) = ToSet(k.list[l]) \ {t}
    BY <2>1, RemoveMembers
  <2> QED
    BY <2>2 DEF On
<1>3. f \in [ListId -> Seq(Thread)]
  BY <1>2
<1> HIDE DEF f
<1>4. /\ u \in KernelState /\ u.list = f
      /\ u.stat = k.stat /\ u.prio = k.prio /\ u.err = k.err /\ u.armed = k.armed
      /\ u.group = k.group /\ u.current = k.current /\ u.lock = k.lock
  BY <1>1, <1>3 DEF KernelState
<1> HIDE DEF u
<1>5. \A l \in ListId : On(u, l) = On(k, l) \ {t}
  BY <1>2, <1>4 DEF On
<1>6. OneList(u)
  <2>1. \A l \in ListId : IsInjective(u.list[l])
    BY <1>2, <1>4
  <2>2. \A l1, l2 \in ListId : l1 # l2 => On(u, l1) \cap On(u, l2) = {}
    BY <1>5 DEF OneList
  <2> QED
    BY <2>1, <2>2 DEF OneList
<1> QED
  BY <1>4, <1>5, <1>6 DEF u

(* A running thread is on no list. *)
LEMMA RunningOff ==
  ASSUME NEW k, ListsAgree(k), NEW t \in Thread, k.stat[t] = "RUNNING"
  PROVE  Off(k, t) /\ t \notin k.armed
<1>1. ASSUME NEW l \in ListId, t \in On(k, l) PROVE FALSE
  <2>1. l \notin Prio
    BY <1>1 DEF ListsAgree, ReadyListed
  <2>2. l \notin Queue
    BY <1>1 DEF ListsAgree, WaitersSuspended
  <2>3. l # Defunct
    BY <1>1 DEF ListsAgree, WaitersSuspended
  <2> QED
    BY <2>1, <2>2, <2>3, ListKinds
<1> QED
  BY <1>1 DEF Off, ListsAgree, TimersForSuspended

(* A suspended thread taken off its suspend list leaves the rest in order. *)
LEMMA UnlinkWaiter ==
  ASSUME NEW k, ListsAgree(k), NEW t \in Thread, k.stat[t] = "SUSPEND"
  PROVE  ListsAgree(Unlink(k, t)) /\ Off(Unlink(k, t), t)
<1> DEFINE u == Unlink(k, t)
<1>1. k \in KernelState /\ OneList(k)
  BY DEF ListsAgree
<1>2. /\ u \in KernelState /\ OneList(u)
      /\ \A l \in ListId : On(u, l) = On(k, l) \ {t}
      /\ u.stat = k.stat /\ u.prio = k.prio /\ u.armed = k.armed /\ u.group = k.group
  BY <1>1, UnlinkLists
<1> HIDE DEF u
<1>3. \A p \in Prio : On(u, p) = On(k, p)
  BY <1>2, ListKinds DEF ListsAgree, ReadyListed
<1>4. ReadyListed(u)
  BY <1>2, <1>3 DEF ListsAgree, ReadyListed
<1>5. WaitersSuspended(u)
  BY <1>2, ListKinds DEF ListsAgree, WaitersSuspended
<1>6. BitmapExact(u)
  <2>1. \A p \in Prio : u.list[p] = <<>> <=> k.list[p] = <<>>
    BY <1>1, <1>2, <1>3, ListKinds, EmptyOn
  <2> QED
    BY <1>2, <2>1 DEF ListsAgree, BitmapExact
<1>7. TimersForSuspended(u)
  BY <1>2 DEF ListsAgree, TimersForSuspended
<1> QED
  BY <1>2, <1>4, <1>5, <1>6, <1>7 DEF ListsAgree, Off, u

(* rt_schedule_insert_thread of a thread that is on no list *)
LEMMA InsertLists ==
  ASSUME NEW k, ListsAgree(k), NEW t \in Thread, Off(k, t), t \notin k.armed
  PROVE  /\ ListsAgree(InsertThread(k, t))
         /\ InsertThread(k, t).stat =
              [k.stat EXCEPT ![t] = IF t = k.current THEN "RUNNING" ELSE "READY"]
         /\ InsertThread(k, t).prio = k.prio
         /\ InsertThread(k, t).current = k.current
         /\ InsertThread(k, t).err = k.err /\ InsertThread(k, t).lock = k.lock
         /\ InsertThread(k, t).armed = k.armed
         /\ \A q \in Queue : On(InsertThread(k, t), q) = On(k, q)
<1> DEFINE r == InsertThread(k, t)
           p == k.prio[t]
<1>1. k \in KernelState /\ p \in Prio /\ p \in ListId
  BY ListKinds DEF ListsAgree, KernelState
<1>2. CASE t = k.current
  <2> DEFINE st == [k.stat EXCEPT ![t] = "RUNNING"]
  <2>1. r = [k EXCEPT !.stat = st]
    BY <1>2 DEF InsertThread
  <2>a. st \in [Thread -> Stat]
    BY <1>1 DEF KernelState, Stat
  <2> HIDE DEF r, st
  <2>b. /\ r \in KernelState /\ r.list = k.list /\ r.group = k.group
        /\ r.stat = st /\ r.prio = k.prio
        /\ r.armed = k.armed /\ r.current = k.current
        /\ r.err = k.err /\ r.lock = k.lock
    BY <1>1, <2>1, <2>a DEF KernelState
  <2>2. /\ r \in KernelState /\ r.list = k.list /\ r.group = k.group
        /\ r.stat = [k.stat EXCEPT ![t] = "RUNNING"] /\ r.prio = k.prio
        /\ r.armed = k.armed /\ r.current = k.current
        /\ r.err = k.err /\ r.lock = k.lock
    BY <2>b DEF st
  <2>3. \A l \in ListId : On(r, l) = On(k, l)
    BY <2>2 DEF On
  <2>4. \A v \in Thread : r.stat[v] = IF v = t THEN "RUNNING" ELSE k.stat[v]
    BY <1>1, <2>2 DEF KernelState
  <2>5. OneList(r) /\ BitmapExact(r)
    BY <2>2, <2>3 DEF ListsAgree, OneList, BitmapExact
  <2>6. ReadyListed(r)
    BY <2>2, <2>3, <2>4, ListKinds DEF ListsAgree, ReadyListed, Off
  <2>7. WaitersSuspended(r)
    <3>1. ASSUME NEW l \in Queue, NEW v \in On(r, l) PROVE r.stat[v] = "SUSPEND"
      <4>1. l \in ListId /\ v \in On(k, l) /\ v # t /\ v \in Thread
        BY <1>1, <2>3, <3>1, ListKinds, ListType DEF Off
      <4> QED
        BY <2>4, <4>1 DEF ListsAgree, WaitersSuspended
    <3>2. ASSUME NEW v \in On(r, Defunct) PROVE r.stat[v] = "CLOSE"
      <4>1. v \in On(k, Defunct) /\ v # t /\ v \in Thread
        BY <1>1, <2>3, <3>2, ListKinds, ListType DEF Off
      <4> QED
        BY <2>4, <4>1 DEF ListsAgree, WaitersSuspended
    <3> QED
      BY <3>1, <3>2 DEF WaitersSuspended
  <2>8. TimersForSuspended(r)
    BY <1>1, <2>2, <2>4 DEF ListsAgree, TimersForSuspended, KernelState
  <2> QED
    BY <1>2, <2>2, <2>3, <2>5, <2>6, <2>7, <2>8, ListKinds DEF ListsAgree, r
<1>3. CASE t # k.current
  <2> DEFINE st == [k.stat EXCEPT ![t] = "READY"]
             li == [k.list EXCEPT ![p] = Append(k.list[p], t)]
             gr == k.group \cup {p}
  <2>1. r = [k EXCEPT !.stat = st, !.list = li, !.group = gr]
    BY <1>1, <1>3 DEF InsertThread, KernelState
  <2>2. /\ Append(k.list[p], t) \in Seq(Thread)
        /\ ToSet(Append(k.list[p], t)) = On(k, p) \cup {t}
        /\ IsInjective(Append(k.list[p], t))
    BY <1>1, ListType, AppendToList DEF On, Off, ListsAgree, OneList
  <2> HIDE DEF p
  <2>a. st \in [Thread -> Stat] /\ li \in [ListId -> Seq(Thread)] /\ gr \in SUBSET Prio
    BY <1>1, <2>2 DEF KernelState, Stat
  <2> HIDE DEF r, st, li, gr
  <2>b. /\ r \in KernelState /\ r.list = li /\ r.group = gr
        /\ r.stat = st /\ r.prio = k.prio
        /\ r.armed = k.armed /\ r.current = k.current
        /\ r.err = k.err /\ r.lock = k.lock
    BY <1>1, <2>1, <2>a DEF KernelState
  <2>3. /\ r \in KernelState /\ r.list = [k.list EXCEPT ![p] = Append(k.list[p], t)]
        /\ r.group = k.group \cup {p}
        /\ r.stat = [k.stat EXCEPT ![t] = "READY"] /\ r.prio = k.prio
        /\ r.armed = k.armed /\ r.current = k.current
        /\ r.err = k.err /\ r.lock = k.lock
    BY <2>b DEF st, li, gr
  <2>4. /\ \A l \in ListId \ {p} : r.list[l] = k.list[l] /\ On(r, l) = On(k, l)
        /\ r.list[p] = Append(k.list[p], t) /\ On(r, p) = On(k, p) \cup {t}
    BY <1>1, <2>2, <2>3 DEF On, KernelState
  <2>5. \A v \in Thread : r.stat[v] = IF v = t THEN "READY" ELSE k.stat[v]
    BY <1>1, <2>3 DEF KernelState
  <2>6. OneList(r)
    <3>1. \A l \in ListId : IsInjective(r.list[l])
      BY <2>2, <2>4 DEF ListsAgree, OneList
    <3>2. \A l1, l2 \in ListId : l1 # l2 => On(r, l1) \cap On(r, l2) = {}
      BY <1>1, <2>4 DEF ListsAgree, OneList, Off
    <3> QED
      BY <3>1, <3>2 DEF OneList
  <2>7. ReadyListed(r)
    BY <2>3, <2>4, <2>5, ListKinds DEF ListsAgree, ReadyListed, Off, p
  <2>8. WaitersSuspended(r)
    <3>1. ASSUME NEW l \in Queue, NEW v \in On(r, l) PROVE r.stat[v] = "SUSPEND"
      <4>1. l \in ListId /\ v \in On(k, l) /\ v # t /\ v \in Thread
        BY <1>1, <2>4, <3>1, ListKinds, ListType DEF Off
      <4> QED
        BY <2>5, <4>1 DEF ListsAgree, WaitersSuspended
    <3>2. ASSUME NEW v \in On(r, Defunct) PROVE r.stat[v] = "CLOSE"
      <4>1. v \in On(k, Defunct) /\ v # t /\ v \in Thread
        BY <1>1, <2>4, <3>2, ListKinds, ListType DEF Off
      <4> QED
        BY <2>5, <4>1 DEF ListsAgree, WaitersSuspended
    <3> QED
      BY <3>1, <3>2 DEF WaitersSuspended
  <2>9. BitmapExact(r)
    <3>1. r.list[p] # <<>>
      BY <1>1, <2>3, <2>4, EmptyOn
    <3> QED
      BY <1>1, <2>3, <2>4, <3>1, ListKinds DEF ListsAgree, BitmapExact
  <2>10. TimersForSuspended(r)
    BY <1>1, <2>3, <2>5 DEF ListsAgree, TimersForSuspended, KernelState
  <2>11. \A q \in Queue : On(r, q) = On(k, q)
    BY <1>1, <2>4, ListKinds
  <2> QED
    BY <1>3, <2>3, <2>6, <2>7, <2>8, <2>9, <2>10, <2>11 DEF ListsAgree, r
<1> QED
  BY <1>2, <1>3

(* rt_schedule_remove_thread of a ready or running thread, which then gets  *)
(* the processor or is suspended                                            *)
LEMMA TakeOffLists ==
  ASSUME NEW k, ListsAgree(k), NEW t \in Thread, k.stat[t] \in {"READY", "RUNNING"},
         NEW s \in {"RUNNING", "SUSPEND"}
  PROVE  LET r == [RemoveThread(k, t) EXCEPT !.stat[t] = s]
         IN  /\ ListsAgree(r)
             /\ Off(r, t)
             /\ r.stat = [k.stat EXCEPT ![t] = s]
             /\ r.prio = k.prio /\ r.current = k.current /\ r.armed = k.armed
             /\ r.err = k.err /\ r.lock = k.lock
             /\ \A q \in Queue : On(r, q) = On(k, q)
<1> DEFINE u == Unlink(k, t)
           p == k.prio[t]
           g == IF u.list[p] = <<>> THEN k.group \ {p} ELSE k.group
           st == [k.stat EXCEPT ![t] = s]
           r == [RemoveThread(k, t) EXCEPT !.stat[t] = s]
<1>1. k \in KernelState /\ OneList(k) /\ p \in Prio /\ p \in ListId
  BY ListKinds DEF ListsAgree, KernelState
<1>2. /\ u \in KernelState /\ OneList(u)
      /\ \A l \in ListId : On(u, l) = On(k, l) \ {t}
      /\ u.stat = k.stat /\ u.prio = k.prio /\ u.armed = k.armed
      /\ u.group = k.group /\ u.current = k.current
      /\ u.err = k.err /\ u.lock = k.lock
  BY <1>1, UnlinkLists
<1>3. r = [u EXCEPT !.group = g, !.stat = st]
  <2>1. RemoveThread(k, t) = [u EXCEPT !.group = g]
    BY <1>2 DEF RemoveThread
  <2> HIDE DEF u, g
  <2>2. [u EXCEPT !.group = g].stat = k.stat
    BY <1>2 DEF KernelState
  <2> QED
    BY <2>1, <2>2
<1>4. g \in SUBSET Prio /\ st \in [Thread -> Stat]
  BY <1>1 DEF KernelState, Stat
<1> HIDE DEF u, g, p, st, r
<1>a. /\ r \in KernelState /\ r.list = u.list /\ r.group = g
      /\ r.stat = st /\ r.prio = k.prio
      /\ r.armed = k.armed /\ r.current = k.current
      /\ r.err = k.err /\ r.lock = k.lock
  BY <1>2, <1>3, <1>4 DEF KernelState
<1>5. /\ r \in KernelState /\ r.list = u.list /\ r.group = g
      /\ r.stat = [k.stat EXCEPT ![t] = s] /\ r.prio = k.prio
      /\ r.armed = k.armed /\ r.current = k.current
      /\ r.err = k.err /\ r.lock = k.lock
  BY <1>a DEF st
<1>6. \A l \in ListId : On(r, l) = On(k, l) \ {t}
  BY <1>2, <1>5 DEF On
<1>7. \A v \in Thread : r.stat[v] = IF v = t THEN s ELSE k.stat[v]
  BY <1>1, <1>5 DEF KernelState
<1>8. OneList(r)
  BY <1>2, <1>5 DEF OneList, On
<1>9. ReadyListed(r)
  BY <1>5, <1>6, <1>7, ListKinds DEF ListsAgree, ReadyListed
<1>10. WaitersSuspended(r)
  <2>1. ASSUME NEW l \in Queue, NEW v \in On(r, l) PROVE r.stat[v] = "SUSPEND"
    <3>1. l \in ListId /\ v \in On(k, l) /\ v # t /\ v \in Thread
      BY <1>1, <1>6, <2>1, ListKinds, ListType
    <3> QED
      BY <1>7, <3>1 DEF ListsAgree, WaitersSuspended
  <2>2. ASSUME NEW v \in On(r, Defunct) PROVE r.stat[v] = "CLOSE"
    <3>1. v \in On(k, Defunct) /\ v # t /\ v \in Thread
      BY <1>1, <1>6, <2>2, ListKinds, ListType
    <3> QED
      BY <1>7, <3>1 DEF ListsAgree, WaitersSuspended
  <2> QED
    BY <2>1, <2>2 DEF WaitersSuspended
<1>11. BitmapExact(r)
  <2>1. ASSUME NEW j \in Prio, j # p PROVE j \in r.group <=> r.list[j] # <<>>
    <3>1. j \in ListId /\ t \notin On(k, j)
      BY <2>1, ListKinds DEF ListsAgree, ReadyListed, p
    <3>2. r.list[j] = <<>> <=> k.list[j] = <<>>
      BY <1>1, <1>5, <1>6, <3>1, EmptyOn
    <3> QED
      BY <1>5, <2>1, <3>2 DEF ListsAgree, BitmapExact, g
  <2>2. p \in r.group <=> r.list[p] # <<>>
    <3>1. CASE u.list[p] = <<>>
      BY <1>5, <3>1 DEF g
    <3>2. CASE u.list[p] # <<>>
      <4>1. k.list[p] # <<>>
        BY <1>1, <1>2, <3>2, EmptyOn
      <4> QED
        BY <1>1, <1>5, <3>2, <4>1 DEF ListsAgree, BitmapExact, g
    <3> QED
      BY <3>1, <3>2
  <2> QED
    BY <2>1, <2>2 DEF BitmapExact
<1>12. TimersForSuspended(r)
  BY <1>1, <1>5, <1>7 DEF ListsAgree, TimersForSuspended, KernelState
<1>13. \A q \in Queue : On(r, q) = On(k, q)
  BY <1>6, ListKinds DEF ListsAgree, WaitersSuspended
<1>14. Off(r, t)
  BY <1>6 DEF Off
<1> QED
  BY <1>5, <1>8, <1>9, <1>10, <1>11, <1>12, <1>13, <1>14 DEF ListsAgree, r

(* Unlinking a thread keeps the types of the kernel                         *)
LEMMA RemoveType ==
  ASSUME NEW k, ListsAgree(k), NEW t \in Thread
  PROVE  LET u == RemoveThread(k, t)
         IN  /\ u \in KernelState /\ u.stat = k.stat /\ u.prio = k.prio
             /\ u.current = k.current
<1> DEFINE u == Unlink(k, t)
           g == IF u.list[k.prio[t]] = <<>> THEN u.group \ {k.prio[t]} ELSE u.group
<1>1. u \in KernelState /\ u.stat = k.stat /\ u.prio = k.prio /\ u.current = k.current
  BY UnlinkLists DEF ListsAgree
<1>2. RemoveThread(k, t) = [u EXCEPT !.group = g]
  BY DEF RemoveThread
<1> HIDE DEF u
<1>3. g \in SUBSET Prio
  BY <1>1 DEF KernelState
<1> HIDE DEF g
<1> QED
  BY <1>1, <1>2, <1>3 DEF KernelState

(* Changing thread->error, rt_current_thread or the timers of suspended     *)
(* threads leaves the lists in order.                                       *)
LEMMA FrameLists ==
  ASSUME NEW k, ListsAgree(k), NEW r \in KernelState,
         r.list = k.list, r.stat = k.stat, r.prio = k.prio, r.group = k.group,
         \A t \in r.armed : k.stat[t] = "SUSPEND"
  PROVE  ListsAgree(r) /\ \A l \in ListId : On(r, l) = On(k, l)
<1>1. \A l \in ListId : On(r, l) = On(k, l)
  BY DEF On
<1>2. OneList(r) /\ BitmapExact(r) /\ TimersForSuspended(r)
  BY <1>1 DEF ListsAgree, OneList, BitmapExact, TimersForSuspended
<1>3. ReadyListed(r) /\ WaitersSuspended(r)
  BY <1>1, ListKinds DEF ListsAgree, ReadyListed, WaitersSuspended
<1> QED
  BY <1>1, <1>2, <1>3 DEF ListsAgree

(* So does changing the priority of a thread that is not ready. *)
LEMMA NotReadyPriority ==
  ASSUME NEW k, ListsAgree(k), NEW t \in Thread, k.stat[t] # "READY",
         NEW r \in KernelState,
         r.list = k.list, r.stat = k.stat, r.group = k.group, r.armed = k.armed,
         \A w \in Thread : w # t => r.prio[w] = k.prio[w]
  PROVE  ListsAgree(r) /\ \A l \in ListId : On(r, l) = On(k, l)
<1>1. \A l \in ListId : On(r, l) = On(k, l)
  BY DEF On
<1>2. OneList(r) /\ BitmapExact(r) /\ TimersForSuspended(r)
  BY <1>1 DEF ListsAgree, OneList, BitmapExact, TimersForSuspended
<1>3. ReadyListed(r) /\ WaitersSuspended(r)
  BY <1>1, ListKinds DEF ListsAgree, ReadyListed, WaitersSuspended
<1> QED
  BY <1>1, <1>2, <1>3 DEF ListsAgree

(* An assignment to thread->error *)
LEMMA ErrorOK ==
  ASSUME NEW k, KernelOK(k), NEW t \in Thread, NEW e \in Err
  PROVE  LET r == [k EXCEPT !.err[t] = e]
         IN  /\ KernelOK(r)
             /\ r.stat = k.stat /\ r.current = k.current /\ r.list = k.list
             /\ r.lock = k.lock /\ r.err = [k.err EXCEPT ![t] = e]
             /\ r.armed = k.armed /\ r.prio = k.prio
             /\ \A l \in ListId : On(r, l) = On(k, l)
<1> DEFINE er == [k.err EXCEPT ![t] = e]
           r == [k EXCEPT !.err = er]
<1>1. k \in KernelState /\ ListsAgree(k) /\ RunningIsCurrent(k)
  BY KernelOKParts DEF KernelOK
<1>2. er \in [Thread -> Err]
  BY <1>1 DEF KernelState
<1> HIDE DEF er
<1>3. /\ r \in KernelState /\ r.list = k.list /\ r.stat = k.stat /\ r.prio = k.prio
      /\ r.group = k.group /\ r.armed = k.armed /\ r.current = k.current
      /\ r.lock = k.lock /\ r.err = er
  BY <1>1, <1>2 DEF KernelState
<1> HIDE DEF r
<1>4. ListsAgree(r) /\ \A l \in ListId : On(r, l) = On(k, l)
  BY <1>1, <1>3, FrameLists DEF ListsAgree, TimersForSuspended
<1>5. RunningIsCurrent(r)
  BY <1>1, <1>3 DEF RunningIsCurrent
<1> QED
  BY <1>3, <1>4, <1>5, KernelOKParts DEF r, er

(* A suspended thread that is unlinked, its timer stopped, and inserted *)
LEMMA WakeOK ==
  ASSUME NEW k, KernelOK(k), NEW t \in Thread, k.stat[t] = "SUSPEND",
         NEW v \in KernelState,
         v.list = Unlink(k, t).list, v.stat = k.stat, v.prio = k.prio,
         v.group = k.group, v.current = k.current, v.armed = k.armed \ {t},
         v.lock = k.lock
  PROVE  /\ KernelOK(InsertThread(v, t))
         /\ OnlyWakes(k, InsertThread(v, t), t)
         /\ InsertThread(v, t).current = k.current
         /\ InsertThread(v, t).err = v.err
<1> DEFINE u == Unlink(k, t)
           r == InsertThread(v, t)
<1>1. k \in KernelState /\ OneList(k) /\ ListsAgree(k) /\ RunningIsCurrent(k)
  BY KernelOKParts DEF KernelOK, ListsAgree
<1>2. ListsAgree(u) /\ Off(u, t)
  BY <1>1, UnlinkWaiter
<1>3. /\ \A l \in ListId : On(u, l) = On(k, l) \ {t}
      /\ u.stat = k.stat /\ u.prio = k.prio /\ u.group = k.group /\ u.armed = k.armed
  BY <1>1, UnlinkLists
<1> HIDE DEF u
<1>4. ListsAgree(v) /\ \A l \in ListId : On(v, l) = On(u, l)
  BY <1>2, <1>3, FrameLists DEF ListsAgree, TimersForSuspended, u
<1>5. /\ ListsAgree(r)
      /\ r.stat = [k.stat EXCEPT ![t] = IF t = k.current THEN "RUNNING" ELSE "READY"]
      /\ r.current = k.current /\ r.err = v.err /\ r.lock = k.lock
      /\ r.armed = k.armed \ {t} /\ r.prio = k.prio
      /\ \A q \in Queue : On(r, q) = On(v, q)
  BY <1>2, <1>4, InsertLists DEF Off
<1> HIDE DEF r
<1>6. \A w \in Thread : r.stat[w] = IF w # t THEN k.stat[w]
                                   ELSE IF t = k.current THEN "RUNNING" ELSE "READY"
  BY <1>1, <1>5 DEF KernelState
<1>7. RunningIsCurrent(r)
  BY <1>1, <1>5, <1>6 DEF RunningIsCurrent, KernelState
<1>8. OnlyWakes(k, r, t)
  <2>1. \A q \in Queue : On(r, q) = On(k, q) \ {t}
    BY <1>3, <1>4, <1>5, ListKinds
  <2>2. \A w \in Thread : r.stat[w] = "SUSPEND" <=> k.stat[w] = "SUSPEND" /\ w # t
    BY <1>6
  <2>3. \A w \in Thread : k.stat[w] \in Living => r.stat[w] \in Living
    BY <1>6 DEF Living
  <2> QED
    BY <1>5, <2>1, <2>2, <2>3 DEF OnlyWakes
<1> QED
  BY <1>5, <1>7, <1>8, KernelOKParts DEF r

(* rt_thread_resume of a suspended thread *)
LEMMA ResumeOK ==
  ASSUME NEW k, KernelOK(k), NEW t \in Thread, k.stat[t] = "SUSPEND"
  PROVE  /\ KernelOK(Resume(k, t)) /\ OnlyWakes(k, Resume(k, t), t)
         /\ Resume(k, t).err = k.err /\ Resume(k, t).current = k.current
<1> DEFINE u == Unlink(k, t)
           v == [u EXCEPT !.armed = k.armed \ {t}]
<1>1. k \in KernelState /\ OneList(k)
  BY DEF KernelOK, KernelConsistent
<1>2. /\ u \in KernelState /\ u.stat = k.stat /\ u.prio = k.prio
      /\ u.group = k.group /\ u.armed = k.armed /\ u.current = k.current
      /\ u.err = k.err /\ u.lock = k.lock
  BY <1>1, UnlinkLists
<1>3. Resume(k, t) = InsertThread(v, t)
  BY <1>2 DEF Resume
<1> HIDE DEF u
<1>4. /\ v \in KernelState /\ v.list = u.list /\ v.stat = k.stat /\ v.prio = k.prio
      /\ v.group = k.group /\ v.current = k.current /\ v.armed = k.armed \ {t}
      /\ v.err = k.err /\ v.lock = k.lock
  BY <1>1, <1>2 DEF KernelState
<1> HIDE DEF v
<1> QED
  BY <1>3, <1>4, WakeOK DEF u

(* A member of a suspend list is suspended. *)
LEMMA FirstWaiter ==
  ASSUME NEW k, KernelOK(k), NEW q \in Queue, k.list[q] # <<>>
  PROVE  Head(k.list[q]) \in Thread /\ k.stat[Head(k.list[q])] = "SUSPEND"
<1>1. q \in ListId /\ k.list[q] \in Seq(Thread)
  BY ListKinds, ListType DEF KernelOK
<1>2. Head(k.list[q]) \in Thread /\ Head(k.list[q]) \in On(k, q)
  BY <1>1, HeadOfList DEF On
<1> QED
  BY <1>2 DEF KernelOK, KernelConsistent, WaitersSuspended

(* rt_thread_suspend of the running thread *)
LEMMA SuspendOK ==
  ASSUME NEW k, KernelOK(k), NEW t \in Thread, k.stat[t] = "RUNNING"
  PROVE  /\ KernelOK(Suspend(k, t))
         /\ Off(Suspend(k, t), t)
         /\ Suspend(k, t).stat = [k.stat EXCEPT ![t] = "SUSPEND"]
         /\ Suspend(k, t).err = k.err /\ Suspend(k, t).lock = k.lock
         /\ Suspend(k, t).current = k.current /\ Suspend(k, t).prio = k.prio
         /\ Suspend(k, t).armed = k.armed /\ t \notin k.armed
         /\ \A q \in Queue : On(Suspend(k, t), q) = On(k, q)
<1> DEFINE m == [RemoveThread(k, t) EXCEPT !.stat[t] = "SUSPEND"]
           r == [m EXCEPT !.armed = k.armed \ {t}]
<1>1. k \in KernelState /\ ListsAgree(k) /\ RunningIsCurrent(k)
  BY KernelOKParts DEF KernelOK
<1>2. /\ ListsAgree(m) /\ Off(m, t)
      /\ m.stat = [k.stat EXCEPT ![t] = "SUSPEND"]
      /\ m.prio = k.prio /\ m.current = k.current /\ m.armed = k.armed
      /\ m.err = k.err /\ m.lock = k.lock
      /\ \A q \in Queue : On(m, q) = On(k, q)
  BY <1>1, TakeOffLists
<1>3. Suspend(k, t) = r
  <2>1. Suspend(k, t) = [RemoveThread(k, t) EXCEPT !.stat[t] = "SUSPEND",
                                                   !.armed = @ \ {t}]
    BY DEF Suspend
  <2> QED
    BY <1>2, <2>1, Zenon
<1> HIDE DEF m
<1>4. /\ r \in KernelState /\ r.list = m.list /\ r.stat = m.stat /\ r.prio = m.prio
      /\ r.group = m.group /\ r.current = k.current /\ r.armed = k.armed \ {t}
      /\ r.err = k.err /\ r.lock = k.lock
  BY <1>1, <1>2 DEF ListsAgree, KernelState
<1> HIDE DEF r
<1>5. \A w \in Thread : r.stat[w] = IF w = t THEN "SUSPEND" ELSE k.stat[w]
  BY <1>1, <1>2, <1>4 DEF KernelState
<1>6. \A w \in r.armed : m.stat[w] = "SUSPEND"
  BY <1>1, <1>4, <1>5 DEF ListsAgree, TimersForSuspended, KernelState
<1>7. ListsAgree(r) /\ \A l \in ListId : On(r, l) = On(m, l)
  BY <1>2, <1>4, <1>6, FrameLists
<1>8. RunningIsCurrent(r)
  BY <1>1, <1>4, <1>5 DEF RunningIsCurrent, KernelState
<1>9. t \notin k.armed
  BY <1>1, RunningOff
<1> QED
  BY <1>2, <1>3, <1>4, <1>7, <1>8, <1>9, ListKinds, KernelOKParts DEF Off

(* The place of a new waiter is inside the list or just behind it. *)
LEMMA WaitPositionType ==
  ASSUME NEW k \in KernelState, NEW q \in Queue, NEW t, NEW flag
  PROVE  WaitPosition(k, q, t, flag) \in 1 .. Len(k.list[q]) + 1
<1> DEFINE s == k.list[q]
           I == {i \in 1 .. Len(s) : k.prio[t] < k.prio[s[i]]}
           later == SelectInSeq(s, LAMBDA u : k.prio[t] < k.prio[u])
<1>1. Len(s) \in Nat
  BY ListKinds, ListType, LenProperties
<1>2. later = IF I # {} THEN Min(I) ELSE 0
  BY Zenon DEF SelectInSeq
<1>3. WaitPosition(k, q, t, flag) = IF flag = "PRIO" /\ later # 0 THEN later ELSE Len(s) + 1
  BY Zenon DEF WaitPosition
<1>4. I \in SUBSET Nat /\ I \subseteq 1 .. Len(s)
  BY <1>1
<1> HIDE DEF I, later
<1>5. later # 0 => later \in 1 .. Len(s)
  BY <1>2, <1>4, MinOfNat
<1> HIDE DEF s
<1>6. WaitPosition(k, q, t, flag) \in 1 .. Len(s) + 1
  BY <1>1, <1>3, <1>5
<1> QED
  BY <1>6 DEF s

(* rt_ipc_list_suspend of the running thread keeps a consistent kernel      *)
(* consistent and puts this thread, and no other, on the wait list, for     *)
(* either flag and with or without a time-out.                              *)
THEOREM IpcSuspendOK ==
  ASSUME NEW k, KernelOK(k), NEW t \in Thread, k.stat[t] = "RUNNING",
         NEW q \in Queue, NEW flag, NEW timed \in BOOLEAN
  PROVE  LET r == IpcSuspend(k, q, t, flag, timed)
         IN  /\ KernelOK(r)
             /\ On(r, q) = On(k, q) \cup {t}
             /\ \A o \in Queue \ {q} : On(r, o) = On(k, o)
             /\ \A w \in Thread : r.stat[w] = "SUSPEND" <=> k.stat[w] = "SUSPEND" \/ w = t
             /\ \A w \in Thread : k.stat[w] \in Living => r.stat[w] \in Living
             /\ r.err = k.err /\ r.lock = k.lock /\ r.current = k.current
             /\ r.prio = k.prio /\ k.armed \subseteq r.armed
<1> DEFINE s == Suspend(k, t)
           new == InsertAt(s.list[q], WaitPosition(s, q, t, flag), t)
           li == [s.list EXCEPT ![q] = new]
           ar == IF timed THEN s.armed \cup {t} ELSE s.armed
           r == IpcSuspend(k, q, t, flag, timed)
<1>1. /\ KernelOK(s) /\ Off(s, t) /\ s.stat = [k.stat EXCEPT ![t] = "SUSPEND"]
      /\ s.err = k.err /\ s.lock = k.lock /\ s.current = k.current
      /\ s.prio = k.prio /\ s.armed = k.armed
      /\ \A o \in Queue : On(s, o) = On(k, o)
  BY SuspendOK
<1>2. s \in KernelState /\ ListsAgree(s) /\ RunningIsCurrent(s) /\ k \in KernelState
  BY <1>1, KernelOKParts DEF KernelOK
<1> HIDE DEF s
<1>3. q \in ListId /\ s.list[q] \in Seq(Thread) /\ IsInjective(s.list[q]) /\ t \notin On(s, q)
  BY <1>1, <1>2, ListKinds, ListType DEF ListsAgree, OneList, Off
<1>4. WaitPosition(s, q, t, flag) \in 1 .. Len(s.list[q]) + 1
  BY <1>2, WaitPositionType
<1>5. new \in Seq(Thread) /\ ToSet(new) = On(s, q) \cup {t} /\ IsInjective(new)
  BY <1>3, <1>4, InsertMembers DEF On
<1>6. r = [s EXCEPT !.list = li, !.armed = ar]
  BY <1>2 DEF IpcSuspend, KernelState, s
<1> HIDE DEF new
<1>7. li \in [ListId -> Seq(Thread)] /\ ar \in SUBSET Thread
  BY <1>2, <1>3, <1>5 DEF KernelState
<1> HIDE DEF li, ar, r
<1>8. /\ r \in KernelState /\ r.list = li /\ r.stat = s.stat /\ r.prio = s.prio
      /\ r.group = s.group /\ r.current = s.current /\ r.armed = ar
      /\ r.err = s.err /\ r.lock = s.lock
  BY <1>2, <1>6, <1>7 DEF KernelState
<1>9. /\ \A l \in ListId \ {q} : r.list[l] = s.list[l] /\ On(r, l) = On(s, l)
      /\ r.list[q] = new /\ On(r, q) = On(s, q) \cup {t}
  BY <1>2, <1>3, <1>5, <1>8 DEF li, On, KernelState
<1>10. \A w \in Thread : r.stat[w] = IF w = t THEN "SUSPEND" ELSE k.stat[w]
  BY <1>1, <1>2, <1>8 DEF KernelState
<1>11. OneList(r)
  <2>1. \A l \in ListId : IsInjective(r.list[l])
    BY <1>2, <1>5, <1>9 DEF ListsAgree, OneList
  <2>2. \A l1, l2 \in ListId : l1 # l2 => On(r, l1) \cap On(r, l2) = {}
    BY <1>1, <1>2, <1>3, <1>9 DEF ListsAgree, OneList, Off
  <2> QED
    BY <2>1, <2>2 DEF OneList
<1>12. ReadyListed(r) /\ BitmapExact(r)
  BY <1>2, <1>8, <1>9, ListKinds DEF ListsAgree, ReadyListed, BitmapExact
<1>13. WaitersSuspended(r)
  BY <1>2, <1>8, <1>9, <1>10, ListKinds DEF ListsAgree, WaitersSuspended
<1>14. TimersForSuspended(r)
  BY <1>2, <1>8, <1>10 DEF ListsAgree, TimersForSuspended, ar
<1>15. RunningIsCurrent(r)
  BY <1>2, <1>8 DEF RunningIsCurrent
<1>16. KernelOK(r)
  BY <1>8, <1>11, <1>12, <1>13, <1>14, <1>15 DEF KernelOK, KernelConsistent
<1>17. On(r, q) = On(k, q) \cup {t} /\ \A o \in Queue \ {q} : On(r, o) = On(k, o)
  BY <1>1, <1>9, ListKinds
<1>18. k.armed \subseteq r.armed
  BY <1>1, <1>8 DEF ar
<1> QED
  BY <1>1, <1>8, <1>10, <1>16, <1>17, <1>18 DEF r, Living

(* rt_schedule finds a ready thread at the lowest bit of the bitmap. *)
LEMMA HighestReady ==
  ASSUME NEW k, ListsAgree(k), k.group # {}
  PROVE  LET h == Head(k.list[HighestPrio(k)])
         IN  /\ h \in Thread /\ k.stat[h] = "READY" /\ k.prio[h] = HighestPrio(k)
             /\ HighestPrio(k) \in k.group
             /\ \A p \in k.group : HighestPrio(k) <= p
<1> DEFINE hp == HighestPrio(k)
<1>1. k \in KernelState /\ k.group \subseteq Prio /\ Prio \subseteq Nat
  BY KernelAssumption DEF ListsAgree, KernelState, Prio
<1>2. hp \in k.group /\ \A p \in k.group : hp <= p
  BY <1>1, MinOfNat DEF HighestPrio
<1> HIDE DEF hp
<1>3. hp \in Prio /\ hp \in ListId /\ k.list[hp] \in Seq(Thread) /\ k.list[hp] # <<>>
  BY <1>1, <1>2, ListKinds, ListType DEF ListsAgree, BitmapExact
<1>4. Head(k.list[hp]) \in Thread /\ Head(k.list[hp]) \in On(k, hp)
  BY <1>3, HeadOfList DEF On
<1>5. k.stat[Head(k.list[hp])] = "READY" /\ k.prio[Head(k.list[hp])] = hp
  BY <1>3, <1>4 DEF ListsAgree, ReadyListed
<1> QED
  BY <1>2, <1>4, <1>5 DEF hp

(* rt_schedule switching to a ready thread *)
LEMMA SwitchOK ==
  ASSUME NEW k, KernelOK(k), NEW to \in Thread, k.stat[to] = "READY"
  PROVE  /\ KernelOK(SwitchTo(k, to)) /\ WakesNobody(k, SwitchTo(k, to))
         /\ SwitchTo(k, to).current = to /\ SwitchTo(k, to).stat[to] = "RUNNING"
<1> DEFINE from == k.current
           k1 == [k EXCEPT !.current = to]
           k2 == IF k.stat[from] = "RUNNING" THEN InsertThread(k1, from) ELSE k1
           r == [RemoveThread(k2, to) EXCEPT !.stat[to] = "RUNNING"]
<1>1. k \in KernelState /\ ListsAgree(k) /\ RunningIsCurrent(k) /\ from \in Thread
  BY KernelOKParts DEF KernelOK, KernelState
<1>2. from # to
  BY <1>1 DEF RunningIsCurrent
<1>3. /\ k1 \in KernelState /\ k1.list = k.list /\ k1.stat = k.stat /\ k1.prio = k.prio
      /\ k1.group = k.group /\ k1.armed = k.armed /\ k1.current = to
      /\ k1.err = k.err /\ k1.lock = k.lock
  BY <1>1 DEF KernelState
<1>4. SwitchTo(k, to) = r
  BY DEF SwitchTo
<1> HIDE DEF k1, from
<1>5. ListsAgree(k1) /\ \A l \in ListId : On(k1, l) = On(k, l)
  BY <1>1, <1>3, FrameLists DEF ListsAgree, TimersForSuspended
<1>6. /\ ListsAgree(k2) /\ k2.current = to /\ k2.err = k.err /\ k2.lock = k.lock
      /\ k2.prio = k.prio /\ k2.armed = k.armed
      /\ k2.stat = IF k.stat[from] = "RUNNING" THEN [k.stat EXCEPT ![from] = "READY"] ELSE k.stat
      /\ \A q \in Queue : On(k2, q) = On(k, q)
  <2>1. CASE k.stat[from] = "RUNNING"
    <3>1. Off(k1, from) /\ from \notin k1.armed
      BY <1>1, <1>3, <1>5, <2>1, RunningOff
    <3>2. /\ ListsAgree(InsertThread(k1, from))
          /\ InsertThread(k1, from).stat =
               [k1.stat EXCEPT ![from] = IF from = k1.current THEN "RUNNING" ELSE "READY"]
          /\ InsertThread(k1, from).current = k1.current
          /\ InsertThread(k1, from).err = k1.err /\ InsertThread(k1, from).lock = k1.lock
          /\ InsertThread(k1, from).prio = k1.prio
          /\ InsertThread(k1, from).armed = k1.armed
          /\ \A q \in Queue : On(InsertThread(k1, from), q) = On(k1, q)
      BY <1>1, <1>5, <3>1, InsertLists
    <3> QED
      BY <1>2, <1>3, <1>5, <2>1, <3>2, ListKinds
  <2>2. CASE k.stat[from] # "RUNNING"
    BY <1>3, <1>5, <2>2, ListKinds
  <2> QED
    BY <2>1, <2>2
<1> HIDE DEF k2
<1>7. \A w \in Thread : k2.stat[w] = IF w = from /\ k.stat[w] = "RUNNING" THEN "READY" ELSE k.stat[w]
  BY <1>1, <1>6 DEF KernelState
<1>8. k2.stat[to] = "READY"
  BY <1>2, <1>7
<1>9. /\ ListsAgree(r) /\ r.stat = [k2.stat EXCEPT ![to] = "RUNNING"] /\ r.current = to
      /\ r.err = k2.err /\ r.lock = k2.lock /\ r.prio = k2.prio /\ r.armed = k2.armed
      /\ \A q \in Queue : On(r, q) = On(k2, q)
  BY ZenonT(40), <1>6, <1>8, TakeOffLists
<1> HIDE DEF r
<1>10. \A w \in Thread : r.stat[w] = IF w = to THEN "RUNNING" ELSE k2.stat[w]
  BY <1>6, <1>9 DEF ListsAgree, KernelState
<1>11. RunningIsCurrent(r)
  BY <1>1, <1>7, <1>9, <1>10 DEF RunningIsCurrent, from
<1>12. WakesNobody(k, r)
  BY <1>6, <1>7, <1>9, <1>10 DEF WakesNobody, Living
<1> QED
  BY <1>4, <1>9, <1>10, <1>11, <1>12, KernelOKParts

(* rt_schedule, whatever thread it picks, keeps a consistent kernel         *)
(* consistent; it wakes no thread and suspends none.                        *)
THEOREM ScheduleOK ==
  ASSUME NEW k, KernelOK(k)
  PROVE  KernelOK(Schedule(k)) /\ WakesNobody(k, Schedule(k))
<1> DEFINE h == Head(k.list[HighestPrio(k)])
           stays == k.stat[k.current] = "RUNNING" /\ k.prio[k.current] < HighestPrio(k)
           to == IF stays THEN k.current ELSE h
<1>1. k \in KernelState /\ ListsAgree(k) /\ RunningIsCurrent(k) /\ k.current \in Thread
  BY KernelOKParts DEF KernelOK, KernelState
<1>2. CASE k.lock # 0 \/ k.group = {}
  BY <1>2 DEF Schedule, WakesNobody
<1>3. CASE ~(k.lock # 0 \/ k.group = {})
  <2>1. h \in Thread /\ k.stat[h] = "READY"
    BY <1>1, <1>3, HighestReady
  <2>2. h # k.current
    BY <1>1, <2>1 DEF RunningIsCurrent
  <2>3. Schedule(k) = IF to = k.current
                      THEN [RemoveThread(k, to) EXCEPT !.stat[to] = "RUNNING"]
                      ELSE SwitchTo(k, to)
    BY <1>3 DEF Schedule
  <2> HIDE DEF h
  <2>4. CASE stays
    <3> DEFINE c == k.current
               r == [RemoveThread(k, c) EXCEPT !.stat[c] = "RUNNING"]
    <3>1. Schedule(k) = r
      BY <2>3, <2>4
    <3>2. c \in Thread /\ k.stat[c] = "RUNNING"
      BY <1>1, <2>4
    <3> HIDE DEF c
    <3>3. /\ ListsAgree(r) /\ r.stat = [k.stat EXCEPT ![c] = "RUNNING"]
          /\ r.current = k.current /\ r.err = k.err /\ r.lock = k.lock /\ r.prio = k.prio
          /\ r.armed = k.armed
          /\ \A q \in Queue : On(r, q) = On(k, q)
      BY <1>1, <3>2, TakeOffLists
    <3> HIDE DEF r
    <3>4. \A w \in Thread : r.stat[w] = k.stat[w]
      BY <1>1, <3>2, <3>3 DEF KernelState
    <3>5. RunningIsCurrent(r)
      BY <1>1, <3>3, <3>4 DEF RunningIsCurrent
    <3>6. WakesNobody(k, r)
      BY <3>3, <3>4 DEF WakesNobody
    <3> QED
      BY <3>1, <3>3, <3>5, <3>6, KernelOKParts
  <2>5. CASE ~stays
    <3>1. Schedule(k) = SwitchTo(k, h)
      BY <2>2, <2>3, <2>5
    <3> QED
      BY <2>1, <3>1, SwitchOK
  <2> QED
    BY <2>4, <2>5
<1> QED
  BY <1>2, <1>3

(* RT_THREAD_CTRL_CHANGE_PRIORITY: a ready thread leaves the list of its     *)
(* old priority before it joins that of the new one; another one has only   *)
(* its field changed.                                                       *)
LEMMA ChangePriorityOK ==
  ASSUME NEW k, KernelOK(k), NEW t \in Thread, NEW p \in Prio
  PROVE  LET r == ChangePriority(k, t, p)
         IN  /\ KernelOK(r)
             /\ r.stat = k.stat /\ r.err = k.err /\ r.armed = k.armed
             /\ r.current = k.current /\ r.lock = k.lock
             /\ r.prio = [k.prio EXCEPT ![t] = p]
             /\ \A q \in Queue : On(r, q) = On(k, q)
<1> DEFINE pr == [k.prio EXCEPT ![t] = p]
           r == ChangePriority(k, t, p)
<1>1. k \in KernelState /\ ListsAgree(k) /\ RunningIsCurrent(k)
  BY KernelOKParts DEF KernelOK
<1>2. pr \in [Thread -> Prio] /\ \A w \in Thread : pr[w] = IF w = t THEN p ELSE k.prio[w]
  BY <1>1 DEF KernelState
<1>3. CASE k.stat[t] = "READY"
  <2> DEFINE m == [RemoveThread(k, t) EXCEPT !.stat[t] = "SUSPEND"]
             v == [m EXCEPT !.prio = pr]
  <2>1. /\ ListsAgree(m) /\ Off(m, t)
        /\ m.stat = [k.stat EXCEPT ![t] = "SUSPEND"]
        /\ m.prio = k.prio /\ m.current = k.current /\ m.armed = k.armed
        /\ m.err = k.err /\ m.lock = k.lock
        /\ \A q \in Queue : On(m, q) = On(k, q)
    BY <1>1, <1>3, TakeOffLists
  <2>2. t # k.current /\ t \notin k.armed
    BY <1>1, <1>3 DEF RunningIsCurrent, ListsAgree, TimersForSuspended
  <2>3. r = InsertThread(v, t)
    <3> DEFINE u == RemoveThread(k, t)
               w == [u EXCEPT !.prio[t] = p]
    <3>1. u \in KernelState /\ u.prio = k.prio /\ u.stat = k.stat /\ u.current = k.current
      BY <1>1, RemoveType
    <3>2. r = InsertThread(w, t)
      BY <1>3 DEF ChangePriority
    <3>3. m = [u EXCEPT !.stat = [k.stat EXCEPT ![t] = "SUSPEND"]]
      BY <3>1 DEF KernelState
    <3> HIDE DEF u, m
    <3>4. w = [u EXCEPT !.prio = pr]
      BY <3>1
    <3>5. v = [w EXCEPT !.stat = [w.stat EXCEPT ![t] = "SUSPEND"]]
      BY <3>1, <3>3, <3>4 DEF KernelState
    <3>6. w \in KernelState /\ w.current = k.current
      BY <1>2, <3>1, <3>4 DEF KernelState
    <3> HIDE DEF v, w
    <3>7. v.current = w.current /\ v.prio = w.prio /\ v.list = w.list /\ v.group = w.group
      BY <3>5, <3>6 DEF KernelState
    <3>8. InsertThread(v, t) = [v EXCEPT !.stat = [v.stat EXCEPT ![t] = "READY"],
                                         !.list = [v.list EXCEPT ![v.prio[t]] = Append(@, t)],
                                         !.group = @ \cup {v.prio[t]}]
      BY <2>2, <3>6, <3>7 DEF InsertThread
    <3>9. InsertThread(w, t) = [w EXCEPT !.stat = [w.stat EXCEPT ![t] = "READY"],
                                         !.list = [w.list EXCEPT ![w.prio[t]] = Append(@, t)],
                                         !.group = @ \cup {w.prio[t]}]
      BY <2>2, <3>6, <3>7 DEF InsertThread
    <3>10. [v.stat EXCEPT ![t] = "READY"] = [w.stat EXCEPT ![t] = "READY"]
      BY <3>5, <3>6 DEF KernelState
    <3> QED
      BY <3>2, <3>5, <3>6, <3>7, <3>8, <3>9, <3>10 DEF KernelState
  <2> HIDE DEF m, pr
  <2>4. /\ v \in KernelState /\ v.list = m.list /\ v.stat = m.stat /\ v.prio = pr
        /\ v.group = m.group /\ v.armed = m.armed /\ v.current = m.current
        /\ v.err = m.err /\ v.lock = m.lock
    BY <1>2, <2>1 DEF ListsAgree, KernelState
  <2> HIDE DEF v
  <2>5. ListsAgree(v) /\ \A l \in ListId : On(v, l) = On(m, l)
    <3>1. m \in KernelState /\ k.stat \in [Thread -> Stat]
      BY <1>1, <2>1 DEF ListsAgree, KernelState
    <3>2. m.stat[t] = "SUSPEND"
      BY <2>1, <3>1
    <3>3. \A w \in Thread : w # t => v.prio[w] = m.prio[w]
      BY <1>2, <2>1, <2>4
    <3> QED
      BY <2>1, <2>4, <3>2, <3>3, NotReadyPriority
  <2>6. /\ ListsAgree(r)
        /\ r.stat = [v.stat EXCEPT ![t] = IF t = v.current THEN "RUNNING" ELSE "READY"]
        /\ r.prio = v.prio /\ r.current = v.current /\ r.err = v.err /\ r.lock = v.lock
        /\ r.armed = v.armed
        /\ \A q \in Queue : On(r, q) = On(v, q)
    <3>1. Off(v, t) /\ t \notin v.armed
      BY <2>1, <2>2, <2>4, <2>5 DEF Off
    <3> QED
      BY <2>3, <2>4, <2>5, <3>1, InsertLists
  <2> HIDE DEF r
  <2>7. r.stat = k.stat
    BY <1>1, <1>3, <2>1, <2>2, <2>4, <2>6 DEF KernelState
  <2>8. RunningIsCurrent(r)
    BY <1>1, <2>1, <2>4, <2>6, <2>7 DEF RunningIsCurrent
  <2> QED
    BY <2>1, <2>4, <2>5, <2>6, <2>7, <2>8, ListKinds, KernelOKParts DEF r, pr
<1>4. CASE k.stat[t] # "READY"
  <2>1. r = [k EXCEPT !.prio = pr]
    BY <1>4 DEF ChangePriority
  <2> HIDE DEF r, pr
  <2>2. /\ r \in KernelState /\ r.list = k.list /\ r.stat = k.stat /\ r.prio = pr
        /\ r.group = k.group /\ r.armed = k.armed /\ r.current = k.current
        /\ r.err = k.err /\ r.lock = k.lock
    BY <1>1, <1>2, <2>1 DEF KernelState
  <2>3. ListsAgree(r) /\ \A l \in ListId : On(r, l) = On(k, l)
    BY <1>1, <1>2, <1>4, <2>2, NotReadyPriority
  <2>4. RunningIsCurrent(r)
    BY <1>1, <2>2 DEF RunningIsCurrent
  <2> QED
    BY <2>2, <2>3, <2>4, ListKinds, KernelOKParts DEF r, pr
<1> QED
  BY <1>3, <1>4

(* What rt_system_scheduler_start leaves behind is consistent. *)
LEMMA StartedOK ==
  ASSUME NEW first, NEW base, NEW order, StartOrder(first, base, order)
  PROVE  LET k == StartedKernel(first, base, order)
         IN  /\ KernelOK(k)
             /\ \A q \in Queue : On(k, q) = {}
             /\ \A t \in Thread : k.stat[t] \in {"READY", "RUNNING"}
             /\ k.lock = 0 /\ Preempted(k)
<1> DEFINE k == StartedKernel(first, base, order)
           li == [l \in ListId |-> IF l \in Prio THEN order[l] ELSE <<>>]
           gr == {p \in Prio : order[p] # <<>>}
           st == [t \in Thread |-> IF t = first THEN "RUNNING" ELSE "READY"]
<1>1. /\ first \in Thread /\ base \in [Thread -> Prio] /\ order \in [Prio -> Seq(Thread)]
      /\ \A p \in Prio : /\ IsInjective(order[p])
                         /\ ToSet(order[p]) = {t \in Thread \ {first} : base[t] = p}
  BY DEF StartOrder
<1>2. li \in [ListId -> Seq(Thread)]
  BY <1>1
<1>3. st \in [Thread -> Stat] /\ gr \in SUBSET Prio
  BY DEF Stat
<1>4. [t \in Thread |-> "EOK"] \in [Thread -> Err]
  BY DEF Err
<1>5. /\ k.stat = st /\ k.prio = base /\ k.armed = {} /\ k.list = li /\ k.group = gr
      /\ k.current = first /\ k.lock = 0
  BY DEF StartedKernel
<1>6. k \in KernelState
  BY <1>1, <1>2, <1>3, <1>4 DEF StartedKernel, KernelState
<1> HIDE DEF k
<1>7. \A t \in Thread : k.stat[t] = IF t = first THEN "RUNNING" ELSE "READY"
  BY <1>5
<1>8. \A l \in ListId : k.list[l] = IF l \in Prio THEN order[l] ELSE <<>>
  BY <1>5
<1> HIDE DEF li, st
<1>9. /\ \A p \in Prio : On(k, p) = {t \in Thread \ {first} : base[t] = p}
      /\ \A q \in Queue : On(k, q) = {}
      /\ On(k, Defunct) = {}
  <2>1. ToSet(<<>>) = {}
    BY DEF ToSet
  <2> QED
    BY <1>1, <1>8, <2>1, ListKinds DEF On
<1>10. OneList(k)
  <2>1. IsInjective(<<>>)
    BY DEF IsInjective
  <2>2. \A l \in ListId : IsInjective(k.list[l])
    BY <1>1, <1>8, <2>1
  <2>3. \A l1, l2 \in ListId : l1 # l2 => On(k, l1) \cap On(k, l2) = {}
    BY <1>9, ListKinds
  <2> QED
    BY <2>2, <2>3 DEF OneList
<1>11. ReadyListed(k)
  BY <1>5, <1>7, <1>9 DEF ReadyListed
<1>12. WaitersSuspended(k) /\ TimersForSuspended(k) /\ RunningIsCurrent(k)
  BY <1>1, <1>5, <1>7, <1>9 DEF WaitersSuspended, TimersForSuspended, RunningIsCurrent
<1>13. BitmapExact(k)
  BY <1>5, <1>8, ListKinds DEF BitmapExact
<1>14. Preempted(k)
  <2>1. ASSUME NEW p \in k.group PROVE base[first] <= p
    <3>1. p \in Prio /\ On(k, p) # {}
      BY <1>6, <1>13, <2>1, ListKinds, EmptyOn DEF BitmapExact, KernelState
    <3> QED
      BY <1>9, <3>1 DEF StartOrder
  <2> QED
    BY <1>5, <2>1 DEF Preempted
<1> QED
  BY <1>5, <1>6, <1>7, <1>9, <1>10, <1>11, <1>12, <1>13, <1>14
  DEF KernelOK, KernelConsistent, k

(* Which thread rt_schedule leaves current: the one that runs, when it is   *)
(* strictly more urgent than every ready one, or the first ready one.       *)
LEMMA SchedulePicks ==
  ASSUME NEW k, KernelOK(k), k.lock = 0, k.group # {}
  PROVE  LET c == Schedule(k).current IN
         /\ c \in Thread /\ Schedule(k).stat[c] = "RUNNING"
         /\ \A p \in k.group : k.prio[c] <= p
         /\ k.stat[k.current] = "RUNNING" => k.prio[c] <= k.prio[k.current]
<1> DEFINE hp == HighestPrio(k)
           h == Head(k.list[hp])
           c == k.current
           stays == k.stat[c] = "RUNNING" /\ k.prio[c] < hp
<1>1. k \in KernelState /\ ListsAgree(k) /\ RunningIsCurrent(k) /\ c \in Thread
  BY KernelOKParts DEF KernelOK, KernelState
<1>2. /\ h \in Thread /\ k.stat[h] = "READY" /\ k.prio[h] = hp
      /\ hp \in k.group /\ \A p \in k.group : hp <= p
  BY <1>1, HighestReady
<1>3. h # c
  BY <1>1, <1>2 DEF RunningIsCurrent
<1>4. hp \in Nat /\ k.group \subseteq Nat /\ k.prio[c] \in Nat
  BY <1>1, <1>2, KernelAssumption DEF KernelState, Prio
<1>5. CASE stays
  <2> DEFINE r == [RemoveThread(k, c) EXCEPT !.stat[c] = "RUNNING"]
  <2>1. Schedule(k) = r
    BY <1>5 DEF Schedule
  <2> HIDE DEF c, h, hp
  <2>2. r.stat = [k.stat EXCEPT ![c] = "RUNNING"] /\ r.current = k.current
    BY <1>1, <1>5, TakeOffLists
  <2> HIDE DEF r
  <2>3. r.current = c /\ r.stat[c] = "RUNNING"
    BY <1>1, <2>2 DEF c, KernelState
  <2>4. k.prio[c] <= k.prio[c] /\ \A p \in k.group : k.prio[c] <= p
    BY <1>2, <1>4, <1>5
  <2> QED
    BY <1>1, <2>1, <2>3, <2>4 DEF c
<1>6. CASE ~stays
  <2>1. Schedule(k) = SwitchTo(k, h)
    BY <1>3, <1>6 DEF Schedule
  <2> HIDE DEF c, h, hp
  <2>2. SwitchTo(k, h).current = h /\ SwitchTo(k, h).stat[h] = "RUNNING"
    BY <1>2, SwitchOK
  <2>3. k.stat[c] = "RUNNING" => hp <= k.prio[c]
    BY <1>4, <1>6
  <2> QED
    BY <1>2, <2>1, <2>2, <2>3 DEF c
<1> QED
  BY <1>5, <1>6

(* With the scheduler unlocked and some thread ready or running,            *)
(* rt_schedule leaves a running thread current: a thread that has suspended *)
(* itself does not get past its call to rt_schedule before it is woken.     *)
THEOREM ScheduleRuns ==
  ASSUME NEW k, KernelOK(k), k.lock = 0,
         NEW t \in Thread, k.stat[t] \in {"READY", "RUNNING"}
  PROVE  Schedule(k).stat[Schedule(k).current] = "RUNNING"
<1>1. k \in KernelState /\ ListsAgree(k) /\ RunningIsCurrent(k)
  BY KernelOKParts DEF KernelOK
<1>2. CASE k.group = {}
  <2>1. ASSUME k.stat[t] = "READY" PROVE FALSE
    <3>1. k.prio[t] \in Prio /\ k.prio[t] \in ListId
      BY <1>1, ListKinds DEF KernelState
    <3>2. t \in On(k, k.prio[t])
      BY <1>1, <2>1, <3>1 DEF ListsAgree, ReadyListed
    <3>3. k.list[k.prio[t]] # <<>>
      BY <1>1, <3>1, <3>2, EmptyOn
    <3> QED
      BY <1>1, <1>2, <3>1, <3>3 DEF ListsAgree, BitmapExact
  <2>2. t = k.current /\ k.stat[t] = "RUNNING"
    BY <1>1, <2>1 DEF RunningIsCurrent
  <2> QED
    BY <1>2, <2>2 DEF Schedule
<1>3. CASE k.group # {}
  BY <1>3, SchedulePicks
<1> QED
  BY <1>2, <1>3

(* After rt_schedule with the scheduler unlocked, no ready thread is more   *)
(* urgent than the current one.                                             *)
THEOREM SchedulePreempts ==
  ASSUME NEW k, KernelOK(k), k.lock = 0
  PROVE  Preempted(Schedule(k))
<1> DEFINE r == Schedule(k)
<1>1. /\ k \in KernelState /\ ListsAgree(k) /\ RunningIsCurrent(k)
      /\ r \in KernelState /\ ListsAgree(r) /\ WakesNobody(k, r)
  BY ScheduleOK, KernelOKParts DEF KernelOK
<1>2. CASE k.group = {}
  BY <1>2 DEF Schedule, Preempted
<1>3. CASE k.group # {}
  <2> DEFINE c == r.current
  <2>1. /\ c \in Thread /\ \A p \in k.group : k.prio[c] <= p
        /\ k.stat[k.current] = "RUNNING" => k.prio[c] <= k.prio[k.current]
    BY <1>3, SchedulePicks
  <2> HIDE DEF r
  <2>2. ASSUME NEW p \in r.group PROVE k.prio[c] <= p
    <3>1. p \in Prio /\ p \in ListId /\ On(r, p) # {}
      BY <1>1, <2>2, ListKinds, EmptyOn DEF ListsAgree, BitmapExact, KernelState
    <3>2. PICK u \in Thread : r.stat[u] = "READY" /\ r.prio[u] = p
      BY <1>1, <3>1, ListType DEF ListsAgree, ReadyListed
    <3>3. k.stat[u] \in {"READY", "RUNNING"} /\ k.prio[u] = p
      BY <1>1, <3>2 DEF WakesNobody
    <3>4. CASE k.stat[u] = "READY"
      <4>1. On(k, p) # {}
        BY <1>1, <3>1, <3>3, <3>4 DEF ListsAgree, ReadyListed
      <4>2. p \in k.group
        BY <1>1, <3>1, <4>1, EmptyOn DEF ListsAgree, BitmapExact
      <4> QED
        BY <2>1, <4>2
    <3>5. CASE k.stat[u] = "RUNNING"
      BY <1>1, <2>1, <3>3, <3>5 DEF RunningIsCurrent
    <3> QED
      BY <3>3, <3>4, <3>5
  <2> QED
    BY <1>1, <2>2 DEF Preempted, WakesNobody, r
<1> QED
  BY <1>2, <1>3

(* rt_thread_timeout of a thread whose timer runs keeps a consistent kernel *)
(* consistent, takes the thread off the list it waits on, and wakes no      *)
(* other; a running thread is current, and none more urgent is ready.       *)
THEOREM TimeoutOK ==
  ASSUME NEW k, KernelOK(k), NEW t \in k.armed
  PROVE  /\ KernelOK(Timeout(k, t)) /\ OnlyWakes(k, Timeout(k, t), t)
         /\ Timeout(k, t).err = [k.err EXCEPT ![t] = "ETIMEOUT"]
         /\ k.lock = 0 => /\ Timeout(k, t).stat[Timeout(k, t).current] = "RUNNING"
                          /\ Preempted(Timeout(k, t))
<1> DEFINE u == Unlink(k, t)
           er == [k.err EXCEPT ![t] = "ETIMEOUT"]
           v == [u EXCEPT !.err = er, !.armed = k.armed \ {t}]
           i == InsertThread(v, t)
<1>1. k \in KernelState /\ OneList(k) /\ t \in Thread /\ k.stat[t] = "SUSPEND"
  BY DEF KernelOK, KernelConsistent, TimersForSuspended, KernelState
<1>2. /\ u \in KernelState /\ u.stat = k.stat /\ u.prio = k.prio
      /\ u.group = k.group /\ u.armed = k.armed /\ u.current = k.current
      /\ u.err = k.err /\ u.lock = k.lock
  BY <1>1, UnlinkLists
<1>3. Timeout(k, t) = Schedule(i)
  <2>1. [u EXCEPT !.err[t] = "ETIMEOUT", !.armed = @ \ {t}] = v
    <3> HIDE DEF u
    <3> QED
      BY <1>2 DEF KernelState
  <2> QED
    BY <2>1 DEF Timeout
<1>4. er \in [Thread -> Err]
  BY <1>1 DEF KernelState, Err
<1> HIDE DEF u, er
<1>5. /\ v \in KernelState /\ v.list = u.list /\ v.stat = k.stat /\ v.prio = k.prio
      /\ v.group = k.group /\ v.current = k.current /\ v.armed = k.armed \ {t}
      /\ v.err = er /\ v.lock = k.lock
  BY <1>1, <1>2, <1>4 DEF KernelState
<1> HIDE DEF v
<1>6. KernelOK(i) /\ OnlyWakes(k, i, t) /\ i.err = er
  BY <1>1, <1>5, WakeOK DEF u
<1> HIDE DEF i
<1>7. KernelOK(Schedule(i)) /\ WakesNobody(i, Schedule(i))
  BY <1>6, ScheduleOK
<1>8. ASSUME k.lock = 0
      PROVE  Schedule(i).stat[Schedule(i).current] = "RUNNING" /\ Preempted(Schedule(i))
  <2>1. i.lock = 0 /\ i.stat[t] \in {"READY", "RUNNING"}
    BY <1>1, <1>6, <1>8 DEF OnlyWakes, Living
  <2> QED
    BY <1>1, <1>6, <2>1, ScheduleRuns, SchedulePreempts
<1> QED
  BY <1>3, <1>6, <1>7, <1>8 DEF OnlyWakes, WakesNobody, er

-----------------------------------------------------------------------------
(* The order in which threads wait: no function but rt_ipc_list_suspend     *)
(* changes it, threads only leave.                                          *)
Thins(k, r) ==
  \A q \in Queue : \A x, y \in Thread : Precedes(r.list[q], x, y) => Precedes(k.list[q], x, y)

(* Unlinking a thread from a list reorders no list                          *)
LEMMA UnlinkThins ==
  ASSUME NEW k \in KernelState, NEW t
  PROVE  LET r == Unlink(k, t)
         IN  /\ r \in KernelState /\ Thins(k, r)
             /\ r.stat = k.stat /\ r.prio = k.prio /\ r.current = k.current
<1> DEFINE f == [l \in ListId |-> RemoveFirst(k.list[l], t)]
           r == Unlink(k, t)
<1>1. r = [k EXCEPT !.list = f]
  BY DEF Unlink
<1>2. \A l \in ListId : f[l] \in Seq(Thread) /\
        \A x, y \in Thread : Precedes(f[l], x, y) => Precedes(k.list[l], x, y)
  BY ListType, RemoveKeepsOrder
<1>3. f \in [ListId -> Seq(Thread)]
  BY <1>2
<1> HIDE DEF f, r
<1>4. /\ r \in KernelState /\ r.list = f
      /\ r.stat = k.stat /\ r.prio = k.prio /\ r.current = k.current
  BY <1>1, <1>3 DEF KernelState
<1> QED
  BY <1>2, <1>4, ListKinds DEF Thins, r

(* Taking a thread off whatever list it is on reorders no list              *)
LEMMA RemoveThins ==
  ASSUME NEW k \in KernelState, NEW t \in Thread
  PROVE  LET r == RemoveThread(k, t)
         IN  /\ r \in KernelState /\ Thins(k, r)
             /\ r.stat = k.stat /\ r.prio = k.prio /\ r.current = k.current
<1> DEFINE u == Unlink(k, t)
           g == IF u.list[k.prio[t]] = <<>> THEN u.group \ {k.prio[t]} ELSE u.group
           r == RemoveThread(k, t)
<1>1. /\ u \in KernelState /\ Thins(k, u)
      /\ u.stat = k.stat /\ u.prio = k.prio /\ u.current = k.current
  BY UnlinkThins
<1>2. r = [u EXCEPT !.group = g]
  BY DEF RemoveThread
<1> HIDE DEF u, r
<1>3. g \in SUBSET Prio
  BY <1>1 DEF KernelState
<1> HIDE DEF g
<1>4. /\ r \in KernelState /\ r.list = u.list
      /\ r.stat = u.stat /\ r.prio = u.prio /\ r.current = u.current
  BY <1>1, <1>2, <1>3 DEF KernelState
<1> QED
  BY <1>1, <1>4 DEF Thins, r

(* A thread becomes ready at the tail of a ready queue. *)
LEMMA InsertThins ==
  ASSUME NEW k \in KernelState, NEW t \in Thread
  PROVE  LET r == InsertThread(k, t)
         IN  r \in KernelState /\ Thins(k, r) /\ r.current = k.current
<1> DEFINE p == k.prio[t]
           li == [k.list EXCEPT ![p] = Append(k.list[p], t)]
           st(x) == [k.stat EXCEPT ![t] = x]
           r == InsertThread(k, t)
<1>1. /\ p \in Prio /\ p \in ListId /\ p \notin Queue /\ Queue \subseteq ListId
      /\ k.list \in [ListId -> Seq(Thread)]
  BY ListKinds DEF KernelState
<1>2. st("RUNNING") \in [Thread -> Stat] /\ st("READY") \in [Thread -> Stat]
  BY DEF KernelState, Stat
<1>3. Append(k.list[p], t) \in Seq(Thread)
  BY <1>1, AppendProperties
<1>4. li \in [ListId -> Seq(Thread)] /\ \A q \in Queue : li[q] = k.list[q]
  BY <1>1, <1>3
<1>5. CASE t = k.current
  <2>1. r = [k EXCEPT !.stat = st("RUNNING")]
    BY <1>5 DEF InsertThread
  <2> HIDE DEF r, st
  <2>2. r \in KernelState /\ r.list = k.list /\ r.current = k.current
    BY <1>2, <2>1 DEF KernelState
  <2> QED
    BY <2>2 DEF Thins, r
<1>6. CASE t # k.current
  <2> DEFINE gr == k.group \cup {p}
  <2>1. r = [k EXCEPT !.stat = st("READY"), !.list = li, !.group = gr]
    BY <1>6 DEF InsertThread
  <2>2. gr \in SUBSET Prio
    BY <1>1 DEF KernelState
  <2> HIDE DEF r, st, li, gr, p
  <2>3. r \in KernelState /\ r.list = li /\ r.current = k.current
    BY <1>2, <1>4, <2>1, <2>2 DEF KernelState
  <2> QED
    BY <1>4, <2>3 DEF Thins, r
<1> QED
  BY <1>5, <1>6

(* rt_schedule reorders no wait list                                        *)
LEMMA ScheduleThins ==
  ASSUME NEW k, KernelOK(k)
  PROVE  Thins(k, Schedule(k))
<1> DEFINE from == k.current
           h == Head(k.list[HighestPrio(k)])
           to == IF k.stat[from] = "RUNNING" /\ k.prio[from] < HighestPrio(k) THEN from ELSE h
<1>1. k \in KernelState /\ ListsAgree(k) /\ from \in Thread
  BY KernelOKParts DEF KernelOK, KernelState
<1>2. CASE k.lock # 0 \/ k.group = {}
  BY <1>2 DEF Schedule, Thins
<1>3. CASE ~(k.lock # 0 \/ k.group = {})
  <2>1. to \in Thread
    BY <1>1, <1>3, HighestReady
  <2>2. Schedule(k) = IF to = from THEN [RemoveThread(k, to) EXCEPT !.stat[to] = "RUNNING"]
                                   ELSE SwitchTo(k, to)
    BY <1>3 DEF Schedule
  <2> HIDE DEF to, h
  <2>3. ASSUME NEW i \in KernelState
        PROVE  [RemoveThread(i, to) EXCEPT !.stat[to] = "RUNNING"].list = RemoveThread(i, to).list
    BY <2>1, <2>3, RemoveThins DEF KernelState
  <2>4. CASE to = from
    BY <1>1, <2>1, <2>2, <2>3, <2>4, RemoveThins DEF Thins
  <2>5. CASE to # from
    <3> DEFINE k1 == [k EXCEPT !.current = to]
               k2 == IF k.stat[from] = "RUNNING" THEN InsertThread(k1, from) ELSE k1
    <3>1. k1 \in KernelState /\ k1.list = k.list
      BY <1>1, <2>1 DEF KernelState
    <3>2. Schedule(k) = [RemoveThread(k2, to) EXCEPT !.stat[to] = "RUNNING"]
      BY <2>2, <2>5 DEF SwitchTo
    <3> HIDE DEF k1
    <3>3. k2 \in KernelState /\ Thins(k1, k2)
      BY <1>1, <3>1, InsertThins DEF Thins
    <3> HIDE DEF k2
    <3>4. Thins(k2, RemoveThread(k2, to)) /\ Schedule(k).list = RemoveThread(k2, to).list
      BY <2>1, <2>3, <3>2, <3>3, RemoveThins
    <3> QED
      BY <3>1, <3>3, <3>4 DEF Thins
  <2> QED
    BY <2>4, <2>5
<1> QED
  BY <1>2, <1>3

(* Resuming a thread reorders no wait list                                  *)
LEMMA ResumeThins ==
  ASSUME NEW k \in KernelState, NEW t \in Thread
  PROVE  Thins(k, Resume(k, t))
<1> DEFINE u == Unlink(k, t)
           v == [u EXCEPT !.armed = @ \ {t}]
<1>1. u \in KernelState /\ Thins(k, u)
  BY UnlinkThins
<1>2. CASE k.stat[t] # "SUSPEND"
  BY <1>2 DEF Resume, Thins
<1>3. CASE k.stat[t] = "SUSPEND"
  <2>1. Resume(k, t) = InsertThread(v, t)
    BY <1>3 DEF Resume
  <2> HIDE DEF u
  <2>2. v \in KernelState /\ v.list = u.list
    BY <1>1 DEF KernelState
  <2> HIDE DEF v
  <2>3. Thins(v, InsertThread(v, t))
    BY <2>2, InsertThins
  <2> QED
    BY <1>1, <2>1, <2>2, <2>3 DEF Thins
<1> QED
  BY <1>2, <1>3

(* A thread timer that expires reorders no wait list                        *)
LEMMA TimeoutThins ==
  ASSUME NEW k, KernelOK(k), NEW t \in k.armed
  PROVE  Thins(k, Timeout(k, t))
<1> DEFINE u == Unlink(k, t)
           er == [k.err EXCEPT ![t] = "ETIMEOUT"]
           v == [u EXCEPT !.err = er, !.armed = k.armed \ {t}]
           i == InsertThread(v, t)
<1>1. k \in KernelState /\ OneList(k) /\ t \in Thread /\ k.stat[t] = "SUSPEND"
  BY DEF KernelOK, KernelConsistent, TimersForSuspended, KernelState
<1>2. /\ u \in KernelState /\ u.stat = k.stat /\ u.prio = k.prio
      /\ u.group = k.group /\ u.armed = k.armed /\ u.current = k.current
      /\ u.err = k.err /\ u.lock = k.lock
  BY <1>1, UnlinkLists
<1>3. Thins(k, u)
  BY <1>1, UnlinkThins
<1>4. Timeout(k, t) = Schedule(i)
  <2>1. [u EXCEPT !.err[t] = "ETIMEOUT", !.armed = @ \ {t}] = v
    <3> HIDE DEF u
    <3> QED
      BY <1>2 DEF KernelState
  <2> QED
    BY <2>1 DEF Timeout
<1>5. er \in [Thread -> Err]
  BY <1>1 DEF KernelState, Err
<1> HIDE DEF u, er
<1>6. /\ v \in KernelState /\ v.list = u.list /\ v.stat = k.stat /\ v.prio = k.prio
      /\ v.group = k.group /\ v.current = k.current /\ v.armed = k.armed \ {t}
      /\ v.lock = k.lock
  BY <1>1, <1>2, <1>5 DEF KernelState
<1> HIDE DEF v
<1>7. KernelOK(i) /\ Thins(v, i)
  BY <1>1, <1>6, WakeOK, InsertThins DEF u
<1> HIDE DEF i
<1>8. Thins(i, Schedule(i))
  BY <1>7, ScheduleThins
<1> QED
  BY <1>3, <1>4, <1>6, <1>7, <1>8 DEF Thins

(* A priority change moves ready threads only                               *)
LEMMA ChangePriorityThins ==
  ASSUME NEW k \in KernelState, NEW t \in Thread, NEW p \in Prio
  PROVE  Thins(k, ChangePriority(k, t, p))
<1> DEFINE u == RemoveThread(k, t)
           v == [u EXCEPT !.prio = [k.prio EXCEPT ![t] = p]]
<1>1. u \in KernelState /\ Thins(k, u) /\ u.prio = k.prio
  BY RemoveThins
<1>2. CASE k.stat[t] = "READY"
  <2>1. ChangePriority(k, t, p) = InsertThread(v, t)
    BY <1>1, <1>2 DEF ChangePriority
  <2> HIDE DEF u
  <2>2. v \in KernelState /\ v.list = u.list
    BY <1>1 DEF KernelState
  <2> HIDE DEF v
  <2>3. Thins(v, InsertThread(v, t))
    BY <2>2, InsertThins
  <2> QED
    BY <1>1, <2>1, <2>2, <2>3 DEF Thins
<1>3. CASE k.stat[t] # "READY"
  <2>1. ChangePriority(k, t, p).list = k.list
    BY <1>3 DEF ChangePriority, KernelState
  <2> QED
    BY <2>1 DEF Thins
<1> QED
  BY <1>2, <1>3

(* Suspending the running thread reorders no wait list                      *)
LEMMA SuspendThins ==
  ASSUME NEW k \in KernelState, NEW t \in Thread
  PROVE  Thins(k, Suspend(k, t))
<1> DEFINE u == RemoveThread(k, t)
           s == Suspend(k, t)
<1>1. u \in KernelState /\ Thins(k, u)
  BY RemoveThins
<1>2. CASE k.stat[t] \notin {"READY", "RUNNING"}
  BY <1>2 DEF Suspend, Thins
<1>3. CASE k.stat[t] \in {"READY", "RUNNING"}
  <2>1. s = [u EXCEPT !.stat[t] = "SUSPEND", !.armed = @ \ {t}]
    BY <1>3 DEF Suspend
  <2> HIDE DEF u, s
  <2>2. s.list = u.list
    BY <1>1, <2>1 DEF KernelState
  <2> QED
    BY <1>1, <2>2 DEF Thins, s
<1> QED
  BY <1>2, <1>3

-----------------------------------------------------------------------------
(* With RT_IPC_FLAG_PRIO, rt_ipc_list_suspend puts a thread behind those    *)
(* that are not less urgent, and before the first that is.                  *)
LEMMA WaitPositionOrder ==
  ASSUME NEW k \in KernelState, NEW q \in Queue, NEW t \in Thread
  PROVE  LET s == k.list[q]
             n == WaitPosition(k, q, t, "PRIO")
         IN  /\ n \in 1 .. Len(s) + 1
             /\ \A i \in 1 .. n - 1 : k.prio[s[i]] <= k.prio[t]
             /\ n <= Len(s) => k.prio[t] < k.prio[s[n]]
<1> DEFINE s == k.list[q]
           I == {i \in 1 .. Len(s) : k.prio[t] < k.prio[s[i]]}
           later == SelectInSeq(s, LAMBDA u : k.prio[t] < k.prio[u])
           n == WaitPosition(k, q, t, "PRIO")
<1>1. Len(s) \in Nat /\ \A i \in 1 .. Len(s) : s[i] \in Thread
  BY ListKinds, ListType, LenProperties
<1>2. later = IF I # {} THEN Min(I) ELSE 0
  BY Zenon DEF SelectInSeq
<1>3. n = IF later # 0 THEN later ELSE Len(s) + 1
  BY Zenon DEF WaitPosition
<1>4. I \in SUBSET Nat /\ I \subseteq 1 .. Len(s)
  BY <1>1
<1>5. I # {} => Min(I) \in I /\ \A j \in I : Min(I) <= j
  BY <1>4, MinOfNat
<1>6. \A i \in 1 .. Len(s) : k.prio[t] \in Nat /\ k.prio[s[i]] \in Nat
  BY <1>1, KernelAssumption DEF KernelState, Prio
<1>7. \A i \in 1 .. Len(s) : i \in I <=> k.prio[t] < k.prio[s[i]]
  OBVIOUS
<1> HIDE DEF I, later, n, s
<1>8. CASE I = {}
  <2>1. n = Len(s) + 1
    BY <1>2, <1>3, <1>8
  <2> QED
    BY <1>1, <1>6, <1>7, <1>8, <2>1 DEF n, s
<1>9. CASE I # {}
  <2>1. n \in I /\ \A j \in I : n <= j
    BY <1>2, <1>3, <1>4, <1>5, <1>9
  <2>2. n \in 1 .. Len(s) /\ k.prio[t] < k.prio[s[n]]
    BY <1>4, <1>7, <2>1
  <2>3. \A i \in 1 .. n - 1 : i \in 1 .. Len(s) /\ i \notin I
    BY <1>1, <2>1, <2>2
  <2>4. \A i \in 1 .. n - 1 : k.prio[s[i]] <= k.prio[t]
    BY <1>6, <1>7, <2>3
  <2> QED
    BY <1>1, <2>2, <2>4 DEF n, s
<1> QED
  BY <1>8, <1>9

(* The threads on a list stand in the order of f. *)
SortedBy(s, f) == \A x, y \in Thread : Precedes(s, x, y) => f[x] <= f[y]

(* rt_ipc_list_suspend changes the order of its own list only, where the    *)
(* thread comes behind those that are not less urgent and before the others *)
(* (RT_IPC_FLAG_PRIO), or last (RT_IPC_FLAG_FIFO).                          *)
LEMMA IpcSuspendOrder ==
  ASSUME NEW k, KernelOK(k), NEW t \in Thread, k.stat[t] = "RUNNING",
         NEW q \in Queue, NEW flag, NEW timed \in BOOLEAN,
         flag = "PRIO" => SortedBy(k.list[q], k.prio)
  PROVE  LET r == IpcSuspend(k, q, t, flag, timed)
         IN  /\ \A o \in Queue \ {q} : \A x, y \in Thread :
                  Precedes(r.list[o], x, y) => Precedes(k.list[o], x, y)
             /\ \A x, y \in Thread : Precedes(r.list[q], x, y) =>
                  \/ Precedes(k.list[q], x, y)
                  \/ x = t /\ flag = "PRIO" /\ k.prio[t] < k.prio[y]
                  \/ y = t /\ (flag = "PRIO" => k.prio[x] <= k.prio[t])
<1> DEFINE s == Suspend(k, t)
           l == s.list[q]
           n == WaitPosition(s, q, t, flag)
           r == IpcSuspend(k, q, t, flag, timed)
<1>1. /\ s \in KernelState /\ s.prio = k.prio /\ k \in KernelState
      /\ Thins(k, s) /\ q \in ListId /\ l \in Seq(Thread)
  BY SuspendOK, SuspendThins, ListKinds, ListType DEF KernelOK
<1>2. r.list = [s.list EXCEPT ![q] = InsertAt(l, n, t)]
  <2> HIDE DEF s, n
  <2> QED
    BY <1>1 DEF IpcSuspend, KernelState, s, n
<1> HIDE DEF s, r
<1>3. r.list[q] = InsertAt(l, n, t) /\ \A o \in Queue \ {q} : r.list[o] = s.list[o]
  BY <1>1, <1>2, ListKinds DEF KernelState
<1>4. Len(l) \in Nat /\ \A i \in 1 .. Len(l) : l[i] \in Thread
  BY <1>1, LenProperties
<1>5. n \in 1 .. Len(l) + 1
  BY <1>1, WaitPositionType
<1>6. flag # "PRIO" => n = Len(l) + 1
  BY Zenon DEF WaitPosition
<1>7. flag = "PRIO" => /\ \A i \in 1 .. n - 1 : k.prio[l[i]] <= k.prio[t]
                       /\ n <= Len(l) => k.prio[t] < k.prio[l[n]]
  BY <1>1, WaitPositionOrder
<1>8. \A x \in Thread : k.prio[x] \in Nat
  BY <1>1, KernelAssumption DEF KernelState, Prio
<1>9. flag = "PRIO" => \A x, y \in Thread : Precedes(l, x, y) => k.prio[x] <= k.prio[y]
  BY <1>1 DEF Thins, SortedBy
<1> HIDE DEF n, l
<1>10. ASSUME NEW j \in n .. Len(l) PROVE flag = "PRIO" /\ k.prio[t] < k.prio[l[j]]
  <2>1. n \in 1 .. Len(l) /\ j \in 1 .. Len(l) /\ flag = "PRIO"
    BY <1>4, <1>5, <1>6, <1>10
  <2>2. k.prio[t] < k.prio[l[n]] /\ l[n] \in Thread /\ l[j] \in Thread
    BY <1>4, <1>7, <2>1
  <2>3. CASE j = n
    BY <2>1, <2>2, <2>3
  <2>4. CASE j # n
    <3>1. Precedes(l, l[n], l[j])
      BY <1>4, <1>10, <2>1, <2>4 DEF Precedes
    <3>2. k.prio[l[n]] <= k.prio[l[j]]
      BY <1>9, <2>1, <2>2, <3>1
    <3> QED
      BY <1>8, <2>1, <2>2, <3>2
  <2> QED
    BY <2>3, <2>4
<1>11. ASSUME NEW x \in Thread, NEW y \in Thread, Precedes(r.list[q], x, y)
       PROVE  \/ Precedes(k.list[q], x, y)
              \/ x = t /\ flag = "PRIO" /\ k.prio[t] < k.prio[y]
              \/ y = t /\ (flag = "PRIO" => k.prio[x] <= k.prio[t])
  <2>1. \/ Precedes(l, x, y)
        \/ x = t /\ \E j \in n .. Len(l) : y = l[j]
        \/ y = t /\ \E i \in 1 .. n - 1 : x = l[i]
    BY <1>1, <1>3, <1>5, <1>11, InsertOrder
  <2>2. Precedes(l, x, y) => Precedes(k.list[q], x, y)
    BY <1>1 DEF Thins, l
  <2> QED
    BY <1>7, <1>10, <2>1, <2>2
<1>12. \A o \in Queue \ {q} : \A x, y \in Thread :
         Precedes(r.list[o], x, y) => Precedes(k.list[o], x, y)
  BY <1>1, <1>3 DEF Thins
<1> QED
  BY <1>11, <1>12 DEF r
=============================================================================
