----------------------------- MODULE ThreadProofs -----------------------------
(***************************************************************************)
(* The theorems on threads.  A thread that rt_thread_delete has taken off   *)
(* its list keeps its old state for two more steps, and the kernel is       *)
(* consistent only when such threads count as closed.  So the lemmas of     *)
(* KernelProofs are applied to the kernel as it is seen with those threads  *)
(* hidden, and each kernel function is shown not to look at them.           *)
(***************************************************************************)
EXTENDS Thread, KernelProofs

(* The kernel as it is seen when the threads D count as closed *)
Hide(kk, D) ==
  [kk EXCEPT !.stat = [t \in Thread |-> IF t \in D THEN "CLOSE" ELSE kk.stat[t]]]

(* The kernel is consistent, its current thread is not being deleted, and   *)
(* nothing waits on an object: these threads use none.                      *)
Sane(kk, D) ==
  /\ kk \in KernelState /\ D \subseteq Thread
  /\ KernelOK(Hide(kk, D))
  /\ kk.current \notin D
  /\ \A q \in Queue : On(kk, q) = {}

(* What a manager has in hand is what it has tested. *)
Resuming(c) ==
  pc[c].at \in {"resume_unlink", "resume_insert"} =>
    pc[c].on \in Controls[c] \ free /\ k.stat[pc[c].on] = "SUSPEND"

Starting(c) ==
  pc[c].at \in {"start_unlink", "start_insert"} =>
    /\ pc[c].on \in Creates[c] \ free /\ k.stat[pc[c].on] = "SUSPEND"
    /\ pc[pc[c].on] = User /\ pc[c].on \notin k.armed /\ pc[c].on # Idle

Suspending(c) ==
  pc[c].at = "suspend_mask" =>
    /\ pc[c].on \in Controls[c] \ free /\ pc[c].on # c
    /\ k.stat[pc[c].on] \in Living

Deletion == {"delete_timer", "delete_close", "delete_insert"}

Removing(c) ==
  pc[c].at \in Deletion =>
    /\ pc[c].on \in Deletes[c] \ free /\ pc[c].on \notin On(k, Defunct)
    /\ k.stat[pc[c].on] = "CLOSE" <=> pc[c].at = "delete_insert"
    /\ k.stat[c] \in Living

Sleeping(c) ==
  pc[c].at \in {"sleep_sched", "sleep_return"} =>
    c \in Sleepers /\ (k.stat[c] = "SUSPEND" => c \in k.armed)

Reaping ==
  /\ k.stat[Idle] \in Living
  /\ \A c \in Thread : pc[c].at = "reap_free" =>
       /\ c = Idle /\ pc[c].on \in Thread \ free /\ pc[c].on # k.current
       /\ k.stat[pc[c].on] = "CLOSE" /\ pc[c].on \notin On(k, Defunct)
       /\ \A d \in Thread : pc[d].at \in Deletion => pc[d].on # pc[c].on
  /\ pc[Idle] = User \/ pc[Idle].at = "reap_free"

CallsOK == \A c \in Thread : Resuming(c) /\ Starting(c) /\ Suspending(c) /\ Removing(c) /\ Sleeping(c)

ThreadsOK ==
  /\ k.armed \subseteq Sleepers
  /\ \A t \in Thread : k.stat[t] = "INIT" => pc[t] = User
  /\ \A t \in free : k.stat[t] = "CLOSE" /\ t \notin On(k, Defunct) /\ (t = k.current => t \in Static)

ThreadInv == TypeOK /\ Sane(k, Deleting) /\ CallsOK /\ Reaping /\ ThreadsOK

-----------------------------------------------------------------------------
(* Hiding changes the states of the hidden threads and nothing else. *)
LEMMA HideFields ==
  ASSUME NEW kk \in KernelState, NEW D
  PROVE  LET h == Hide(kk, D) IN
         /\ h \in KernelState
         /\ h.stat = [t \in Thread |-> IF t \in D THEN "CLOSE" ELSE kk.stat[t]]
         /\ h.prio = kk.prio /\ h.err = kk.err /\ h.armed = kk.armed /\ h.list = kk.list
         /\ h.group = kk.group /\ h.current = kk.current /\ h.lock = kk.lock
         /\ \A l \in ListId : On(h, l) = On(kk, l)
<1> DEFINE st == [t \in Thread |-> IF t \in D THEN "CLOSE" ELSE kk.stat[t]]
           h == Hide(kk, D)
<1>1. st \in [Thread -> Stat]
  BY DEF KernelState, Stat
<1>2. h = [kk EXCEPT !.stat = st]
  BY DEF Hide
<1> HIDE DEF st, h
<1>3. /\ h \in KernelState /\ h.stat = st
      /\ h.prio = kk.prio /\ h.err = kk.err /\ h.armed = kk.armed /\ h.list = kk.list
      /\ h.group = kk.group /\ h.current = kk.current /\ h.lock = kk.lock
  BY <1>1, <1>2 DEF KernelState
<1>4. \A l \in ListId : On(h, l) = On(kk, l)
  BY <1>3 DEF On
<1> QED
  BY <1>3, <1>4 DEF st, h

LEMMA HideKeeps ==
  ASSUME NEW kk \in KernelState, NEW D
  PROVE  /\ Hide(kk, D) \in KernelState /\ Hide(kk, D).list = kk.list
         /\ Hide(kk, D).prio = kk.prio /\ Hide(kk, D).group = kk.group
         /\ Hide(kk, D).current = kk.current /\ Hide(kk, D).armed = kk.armed
         /\ \A l \in ListId : On(Hide(kk, D), l) = On(kk, l)
BY HideFields

(* Two kernel states with the same fields are the same. *)
LEMMA SameKernel ==
  ASSUME NEW r \in KernelState, NEW s \in KernelState,
         r.stat = s.stat, r.prio = s.prio, r.err = s.err, r.armed = s.armed,
         r.list = s.list, r.group = s.group, r.current = s.current, r.lock = s.lock
  PROVE  r = s
BY DEF KernelState

(* Retagging a thread that is not hidden, before and after hiding *)
LEMMA HideRetag ==
  ASSUME NEW kk \in KernelState, NEW r \in KernelState, NEW D, NEW t \in Thread, t \notin D, NEW s,
         r.stat = [kk.stat EXCEPT ![t] = s]
  PROVE  Hide(r, D).stat = [Hide(kk, D).stat EXCEPT ![t] = s]
<1>1. Hide(r, D).stat = [u \in Thread |-> IF u \in D THEN "CLOSE" ELSE r.stat[u]]
  BY HideFields
<1>2. Hide(kk, D).stat = [u \in Thread |-> IF u \in D THEN "CLOSE" ELSE kk.stat[u]]
  BY HideFields
<1>3. kk.stat \in [Thread -> Stat]
  BY DEF KernelState
<1> DEFINE a == Hide(r, D).stat
           b == Hide(kk, D).stat
<1> HIDE DEF a, b
<1>4. a = [u \in Thread |-> IF u \in D THEN "CLOSE" ELSE r.stat[u]]
  BY <1>1 DEF a
<1>5. b = [u \in Thread |-> IF u \in D THEN "CLOSE" ELSE kk.stat[u]]
  BY <1>2 DEF b
<1>6. a = [b EXCEPT ![t] = s]
  BY <1>3, <1>4, <1>5
<1> QED
  BY <1>6 DEF a, b

(* Nothing is hidden: the kernel is as it is. *)
LEMMA HideNothing ==
  ASSUME NEW kk \in KernelState
  PROVE  Hide(kk, {}) = kk
<1> DEFINE h == Hide(kk, {})
<1>1. /\ h \in KernelState /\ h.stat = [t \in Thread |-> IF t \in {} THEN "CLOSE" ELSE kk.stat[t]]
      /\ h.prio = kk.prio /\ h.err = kk.err /\ h.armed = kk.armed /\ h.list = kk.list
      /\ h.group = kk.group /\ h.current = kk.current /\ h.lock = kk.lock
  BY HideFields
<1>2. kk.stat \in [Thread -> Stat]
  BY DEF KernelState
<1> HIDE DEF h
<1>3. h.stat = kk.stat
  BY <1>1, <1>2
<1>4. h = kk
  BY <1>1, <1>3, SameKernel
<1> QED
  BY <1>4 DEF h

(* The fields after rt_schedule_insert_thread *)
LEMMA InsertFields ==
  ASSUME NEW kk \in KernelState, NEW t \in Thread
  PROVE  LET r == InsertThread(kk, t)
             p == kk.prio[t] IN
         /\ r \in KernelState
         /\ r.prio = kk.prio /\ r.err = kk.err /\ r.armed = kk.armed
         /\ r.current = kk.current /\ r.lock = kk.lock
         /\ t = kk.current => /\ r.stat = [kk.stat EXCEPT ![t] = "RUNNING"]
                              /\ r.list = kk.list /\ r.group = kk.group
         /\ t # kk.current => /\ r.stat = [kk.stat EXCEPT ![t] = "READY"]
                              /\ r.list = [kk.list EXCEPT ![p] = Append(kk.list[p], t)]
                              /\ r.group = kk.group \cup {p}
<1> DEFINE p == kk.prio[t]
           li == [kk.list EXCEPT ![p] = Append(kk.list[p], t)]
           gr == kk.group \cup {p}
           st(x) == [kk.stat EXCEPT ![t] = x]
           r == InsertThread(kk, t)
<1>1. p \in Prio /\ p \in ListId /\ kk.list \in [ListId -> Seq(Thread)]
  BY ListKinds DEF KernelState
<1>2. st("RUNNING") \in [Thread -> Stat] /\ st("READY") \in [Thread -> Stat]
  BY DEF KernelState, Stat
<1>3. li \in [ListId -> Seq(Thread)] /\ gr \in SUBSET Prio
  <2>1. Append(kk.list[p], t) \in Seq(Thread)
    BY <1>1, AppendProperties
  <2> QED
    BY <1>1, <2>1 DEF KernelState
<1>4. r \in KernelState
  BY InsertThins
<1>5. CASE t = kk.current
  <2>1. r = [kk EXCEPT !.stat = st("RUNNING")]
    BY <1>5 DEF InsertThread
  <2> HIDE DEF r, st
  <2>2. /\ r.prio = kk.prio /\ r.err = kk.err /\ r.armed = kk.armed
        /\ r.current = kk.current /\ r.lock = kk.lock
        /\ r.stat = st("RUNNING") /\ r.list = kk.list /\ r.group = kk.group
    BY <1>2, <2>1 DEF KernelState
  <2> QED
    BY <1>4, <1>5, <2>2 DEF r, st
<1>6. CASE t # kk.current
  <2>1. r = [kk EXCEPT !.stat = st("READY"), !.list = li, !.group = gr]
    BY <1>6 DEF InsertThread
  <2> HIDE DEF r, st, li, gr
  <2>2. /\ r.prio = kk.prio /\ r.err = kk.err /\ r.armed = kk.armed
        /\ r.current = kk.current /\ r.lock = kk.lock
        /\ r.stat = st("READY") /\ r.list = li /\ r.group = gr
    BY <1>2, <1>3, <2>1 DEF KernelState
  <2> QED
    BY <1>4, <1>6, <2>2 DEF r, st, li, gr
<1> QED
  BY <1>5, <1>6

(* The fields after rt_schedule_remove_thread *)
LEMMA RemoveFields ==
  ASSUME NEW kk \in KernelState, NEW t \in Thread
  PROVE  LET r == RemoveThread(kk, t) IN
         /\ r \in KernelState
         /\ r.stat = kk.stat /\ r.prio = kk.prio /\ r.err = kk.err /\ r.armed = kk.armed
         /\ r.current = kk.current /\ r.lock = kk.lock
         /\ r.list = Unlink(kk, t).list
         /\ r.group = IF Unlink(kk, t).list[kk.prio[t]] = <<>>
                      THEN kk.group \ {kk.prio[t]} ELSE kk.group
<1> DEFINE f == [l \in ListId |-> RemoveFirst(kk.list[l], t)]
           u == Unlink(kk, t)
           g == IF u.list[kk.prio[t]] = <<>> THEN u.group \ {kk.prio[t]} ELSE u.group
           r == RemoveThread(kk, t)
<1>1. u = [kk EXCEPT !.list = f] /\ u \in KernelState
  BY UnlinkThins DEF Unlink
<1> HIDE DEF f, u
<1>2. /\ u.stat = kk.stat /\ u.prio = kk.prio /\ u.err = kk.err /\ u.armed = kk.armed
      /\ u.current = kk.current /\ u.lock = kk.lock /\ u.group = kk.group
  BY <1>1 DEF KernelState
<1>3. r = [u EXCEPT !.group = g] /\ g \in SUBSET Prio
  BY <1>1, <1>2 DEF RemoveThread, u, KernelState
<1> HIDE DEF g, r
<1>4. /\ r \in KernelState /\ r.list = u.list /\ r.group = g
      /\ r.stat = u.stat /\ r.prio = u.prio /\ r.err = u.err /\ r.armed = u.armed
      /\ r.current = u.current /\ r.lock = u.lock
  BY <1>1, <1>3 DEF KernelState
<1> QED
  BY <1>2, <1>4 DEF r, g, u

(* rt_schedule_insert_thread does not look at the threads that are hidden, *)
LEMMA HideInsert ==
  ASSUME NEW kk \in KernelState, NEW D, NEW t \in Thread \ D
  PROVE  InsertThread(Hide(kk, D), t) = Hide(InsertThread(kk, t), D)
<1> DEFINE h == Hide(kk, D)
           i == InsertThread(kk, t)
           a == InsertThread(h, t)
           b == Hide(i, D)
<1>1. h \in KernelState /\ i \in KernelState /\ a \in KernelState /\ b \in KernelState
  BY HideFields, InsertFields
<1>2. /\ h.stat = [u \in Thread |-> IF u \in D THEN "CLOSE" ELSE kk.stat[u]]
      /\ h.prio = kk.prio /\ h.err = kk.err /\ h.armed = kk.armed /\ h.list = kk.list
      /\ h.group = kk.group /\ h.current = kk.current /\ h.lock = kk.lock
  BY HideFields
<1>3. /\ b.stat = [u \in Thread |-> IF u \in D THEN "CLOSE" ELSE i.stat[u]]
      /\ b.prio = i.prio /\ b.err = i.err /\ b.armed = i.armed /\ b.list = i.list
      /\ b.group = i.group /\ b.current = i.current /\ b.lock = i.lock
  BY <1>1, HideFields
<1>4. ASSUME NEW x \in KernelState
      PROVE  /\ InsertThread(x, t).stat = [x.stat EXCEPT ![t] = IF t = x.current THEN "RUNNING" ELSE "READY"]
             /\ InsertThread(x, t).list = IF t = x.current THEN x.list
                  ELSE [x.list EXCEPT ![x.prio[t]] = Append(x.list[x.prio[t]], t)]
             /\ InsertThread(x, t).group = IF t = x.current THEN x.group ELSE x.group \cup {x.prio[t]}
             /\ InsertThread(x, t).prio = x.prio /\ InsertThread(x, t).err = x.err
             /\ InsertThread(x, t).armed = x.armed /\ InsertThread(x, t).current = x.current
             /\ InsertThread(x, t).lock = x.lock
  BY InsertFields
<1>5. /\ i.stat = [kk.stat EXCEPT ![t] = IF t = kk.current THEN "RUNNING" ELSE "READY"]
      /\ i.list = IF t = kk.current THEN kk.list
           ELSE [kk.list EXCEPT ![kk.prio[t]] = Append(kk.list[kk.prio[t]], t)]
      /\ i.group = IF t = kk.current THEN kk.group ELSE kk.group \cup {kk.prio[t]}
      /\ i.prio = kk.prio /\ i.err = kk.err /\ i.armed = kk.armed
      /\ i.current = kk.current /\ i.lock = kk.lock
  BY <1>4
<1> HIDE DEF h
<1>6. /\ a.stat = [h.stat EXCEPT ![t] = IF t = h.current THEN "RUNNING" ELSE "READY"]
      /\ a.list = IF t = h.current THEN h.list
           ELSE [h.list EXCEPT ![h.prio[t]] = Append(h.list[h.prio[t]], t)]
      /\ a.group = IF t = h.current THEN h.group ELSE h.group \cup {h.prio[t]}
      /\ a.prio = h.prio /\ a.err = h.err /\ a.armed = h.armed
      /\ a.current = h.current /\ a.lock = h.lock
  BY <1>1, <1>4
<1> HIDE DEF a, b, i
<1>7. kk.stat \in [Thread -> Stat]
  BY DEF KernelState
<1>8. a.stat = b.stat
  BY <1>2, <1>3, <1>5, <1>6, <1>7
<1>9. a.list = b.list /\ a.group = b.group
  BY <1>2, <1>3, <1>5, <1>6
<1>10. a = b
  BY <1>1, <1>2, <1>3, <1>5, <1>6, <1>8, <1>9, SameKernel
<1> QED
  BY <1>10 DEF a, b, i, h

(* and neither does rt_schedule_remove_thread before the thread runs. *)
Run(kk, t) == [RemoveThread(kk, t) EXCEPT !.stat[t] = "RUNNING"]

LEMMA HideRun ==
  ASSUME NEW kk \in KernelState, NEW D, NEW t \in Thread \ D
  PROVE  LET r == Run(kk, t) IN
         /\ Run(Hide(kk, D), t) = Hide(r, D)
         /\ r \in KernelState
         /\ r.stat = [kk.stat EXCEPT ![t] = "RUNNING"] /\ r.prio = kk.prio /\ r.err = kk.err
         /\ r.armed = kk.armed /\ r.current = kk.current /\ r.lock = kk.lock
         /\ r.list = Unlink(kk, t).list
<1> DEFINE h == Hide(kk, D)
           r == Run(kk, t)
           a == Run(h, t)
           b == Hide(r, D)
<1>1. ASSUME NEW x \in KernelState
      PROVE  /\ Run(x, t) \in KernelState
             /\ Run(x, t).stat = [x.stat EXCEPT ![t] = "RUNNING"]
             /\ Run(x, t).prio = x.prio /\ Run(x, t).err = x.err /\ Run(x, t).armed = x.armed
             /\ Run(x, t).current = x.current /\ Run(x, t).lock = x.lock
             /\ Run(x, t).list = Unlink(x, t).list
             /\ Run(x, t).group = RemoveThread(x, t).group
  <2> DEFINE y == RemoveThread(x, t)
             st == [y.stat EXCEPT ![t] = "RUNNING"]
             z == Run(x, t)
  <2>1. /\ y \in KernelState
        /\ y.stat = x.stat /\ y.prio = x.prio /\ y.err = x.err /\ y.armed = x.armed
        /\ y.current = x.current /\ y.lock = x.lock /\ y.list = Unlink(x, t).list
    BY RemoveFields
  <2>2. z = [y EXCEPT !.stat = st] /\ st \in [Thread -> Stat]
    <3> HIDE DEF y
    <3> QED
      BY <2>1 DEF KernelState, Stat, y, Run
  <2> HIDE DEF y, st, z
  <2>3. /\ z \in KernelState /\ z.stat = st /\ z.prio = y.prio /\ z.err = y.err
        /\ z.armed = y.armed /\ z.current = y.current /\ z.lock = y.lock
        /\ z.list = y.list /\ z.group = y.group
    BY <2>1, <2>2 DEF KernelState
  <2> QED
    BY <2>1, <2>3 DEF y, st, z
<1>2. h \in KernelState /\ r \in KernelState /\ a \in KernelState /\ b \in KernelState
  BY <1>1, HideFields
<1>3. /\ h.stat = [u \in Thread |-> IF u \in D THEN "CLOSE" ELSE kk.stat[u]]
      /\ h.prio = kk.prio /\ h.err = kk.err /\ h.armed = kk.armed /\ h.list = kk.list
      /\ h.group = kk.group /\ h.current = kk.current /\ h.lock = kk.lock
  BY HideFields
<1>4. /\ b.stat = [u \in Thread |-> IF u \in D THEN "CLOSE" ELSE r.stat[u]]
      /\ b.prio = r.prio /\ b.err = r.err /\ b.armed = r.armed /\ b.list = r.list
      /\ b.group = r.group /\ b.current = r.current /\ b.lock = r.lock
  BY <1>2, HideFields
<1>5. Unlink(h, t).list = Unlink(kk, t).list
  <2>1. ASSUME NEW x \in KernelState
        PROVE  Unlink(x, t).list = [l \in ListId |-> RemoveFirst(x.list[l], t)]
    BY DEF Unlink, KernelState
  <2>2. Unlink(h, t).list = [l \in ListId |-> RemoveFirst(h.list[l], t)]
    <3> HIDE DEF h
    <3> QED
      BY <1>2, <2>1
  <2>3. Unlink(kk, t).list = [l \in ListId |-> RemoveFirst(kk.list[l], t)]
    BY <2>1
  <2> QED
    BY <1>3, <2>2, <2>3
<1>6. a.list = b.list
  BY <1>1, <1>2, <1>4, <1>5
<1>7. a.group = b.group
  <2>1. RemoveThread(kk, t).group = IF Unlink(kk, t).list[kk.prio[t]] = <<>>
                                    THEN kk.group \ {kk.prio[t]} ELSE kk.group
    BY RemoveFields
  <2>2. RemoveThread(h, t).group = IF Unlink(h, t).list[h.prio[t]] = <<>>
                                   THEN h.group \ {h.prio[t]} ELSE h.group
    <3> HIDE DEF h
    <3> QED
      BY <1>2, RemoveFields
  <2>3. r.group = RemoveThread(kk, t).group
    BY <1>1
  <2>4. a.group = RemoveThread(h, t).group
    <3> HIDE DEF h
    <3> QED
      BY <1>1, <1>2
  <2> HIDE DEF a, b, r, h
  <2> QED
    BY <1>3, <1>4, <1>5, <2>1, <2>2, <2>3, <2>4
<1>8. a.stat = b.stat
  <2>1. /\ r.stat = [kk.stat EXCEPT ![t] = "RUNNING"]
        /\ a.stat = [h.stat EXCEPT ![t] = "RUNNING"]
    BY <1>1, <1>2
  <2>2. kk.stat \in [Thread -> Stat]
    BY DEF KernelState
  <2> HIDE DEF a, b, r, h
  <2> QED
    BY <1>3, <1>4, <2>1, <2>2
<1>9. /\ r.prio = kk.prio /\ r.err = kk.err /\ r.armed = kk.armed
      /\ r.current = kk.current /\ r.lock = kk.lock
      /\ a.prio = h.prio /\ a.err = h.err /\ a.armed = h.armed
      /\ a.current = h.current /\ a.lock = h.lock
  BY <1>1, <1>2
<1>10. a = b
  <2> HIDE DEF a, b, r, h
  <2> QED
    BY <1>2, <1>3, <1>4, <1>6, <1>7, <1>8, <1>9, SameKernel
<1> QED
  BY <1>1, <1>10

(* Unlinking a thread takes it off the list of defunct threads, if it is there, and *)
(* puts no other on it.                                                     *)
LEMMA UnlinkDefunct ==
  ASSUME NEW kk \in KernelState, IsInjective(kk.list[Defunct]), NEW t
  PROVE  /\ \A l \in ListId : Unlink(kk, t).list[l] = RemoveFirst(kk.list[l], t)
         /\ ToSet(Unlink(kk, t).list[Defunct]) = On(kk, Defunct) \ {t}
<1>1. \A l \in ListId : Unlink(kk, t).list[l] = RemoveFirst(kk.list[l], t)
  BY DEF Unlink, KernelState
<1>2. kk.list[Defunct] \in Seq(Thread) /\ Defunct \in ListId
  BY ListType, ListKinds
<1>3. ToSet(RemoveFirst(kk.list[Defunct], t)) = ToSet(kk.list[Defunct]) \ {t}
  BY <1>2, RemoveMembers
<1> QED
  BY <1>1, <1>2, <1>3 DEF On

(* What rt_schedule changes: two threads that run or are ready, and nothing *)
(* of the others.                                                           *)
Switches(kk, r) ==
  /\ r.prio = kk.prio /\ r.err = kk.err /\ r.armed = kk.armed /\ r.lock = kk.lock
  /\ \A u \in Thread : \/ r.stat[u] = kk.stat[u]
                       \/ {r.stat[u], kk.stat[u]} \subseteq {"READY", "RUNNING"}
  /\ On(r, Defunct) \subseteq On(kk, Defunct)
  /\ \/ r.current = kk.current
     \/ kk.stat[r.current] = "READY" /\ kk.lock = 0

(* rt_schedule does not look at hidden threads. *)
LEMMA HideSchedule ==
  ASSUME NEW kk \in KernelState, NEW D, KernelOK(Hide(kk, D)), kk.current \notin D
  PROVE  LET r == Schedule(kk) IN
         /\ r \in KernelState /\ Schedule(Hide(kk, D)) = Hide(r, D)
         /\ r.current \notin D /\ Switches(kk, r)
<1> DEFINE h == Hide(kk, D)
           from == kk.current
           hp == HighestPrio(kk)
           hd == Head(kk.list[hp])
           to == IF kk.stat[from] = "RUNNING" /\ kk.prio[from] < hp THEN from ELSE hd
<1>1. /\ h \in KernelState
      /\ h.stat = [u \in Thread |-> IF u \in D THEN "CLOSE" ELSE kk.stat[u]]
      /\ h.prio = kk.prio /\ h.err = kk.err /\ h.armed = kk.armed /\ h.list = kk.list
      /\ h.group = kk.group /\ h.current = kk.current /\ h.lock = kk.lock
  BY HideFields
<1>2. ListsAgree(h) /\ RunningIsCurrent(h) /\ from \in Thread
  BY KernelOKParts DEF KernelState
<1>3. h.stat[from] = kk.stat[from]
  BY <1>1, <1>2
<1>4. CASE kk.lock # 0 \/ kk.group = {}
  <2>1. Schedule(kk) = kk
    BY <1>4 DEF Schedule
  <2>2. Schedule(h) = h
    <3> HIDE DEF h
    <3> QED
      BY <1>1, <1>4 DEF Schedule
  <2> QED
    BY <2>1, <2>2 DEF Switches
<1>5. CASE ~(kk.lock # 0 \/ kk.group = {})
  <2>1. hd \in Thread /\ h.stat[hd] = "READY"
    <3>1. LET x == Head(h.list[HighestPrio(h)]) IN x \in Thread /\ h.stat[x] = "READY"
      <4> HIDE DEF h
      <4> QED
        BY <1>1, <1>2, <1>5, HighestReady
    <3>2. HighestPrio(h) = hp
      <4> HIDE DEF h
      <4> QED
        BY <1>1 DEF HighestPrio
    <3> HIDE DEF h, hp
    <3> QED
      BY <1>1, <3>1, <3>2
  <2>2. hd \notin D /\ kk.stat[hd] = "READY"
    BY <1>1, <2>1
  <2>3. to \in Thread \ D /\ (to # from => kk.stat[to] = "READY")
        /\ kk.stat[to] \in {"READY", "RUNNING"}
    <3> HIDE DEF hd, hp
    <3> QED
      BY <1>2, <2>1, <2>2
  <2>4. Schedule(kk) = IF to = from THEN Run(kk, to) ELSE SwitchTo(kk, to)
    BY <1>5 DEF Schedule, Run
  <2>5. Schedule(h) = IF to = from THEN Run(h, to) ELSE SwitchTo(h, to)
    <3>1. Schedule(h) =
            LET hp2 == HighestPrio(h)
                to2 == IF h.stat[h.current] = "RUNNING" /\ h.prio[h.current] < hp2
                       THEN h.current ELSE Head(h.list[hp2])
            IN  IF to2 = h.current
                THEN [RemoveThread(h, to2) EXCEPT !.stat[to2] = "RUNNING"]
                ELSE SwitchTo(h, to2)
      <4> HIDE DEF h
      <4> QED
        BY <1>1, <1>5, Zenon DEF Schedule
    <3>2. HighestPrio(h) = hp
      <4> HIDE DEF h
      <4> QED
        BY <1>1 DEF HighestPrio
    <3> HIDE DEF h
    <3> QED
      BY <1>1, <1>3, <3>1, <3>2 DEF Run
  <2> HIDE DEF to, hd, hp
  <2>6. IsInjective(kk.list[Defunct])
    BY <1>1, <1>2, ListKinds DEF ListsAgree, OneList
  <2>7. ASSUME NEW x \in KernelState, x.list[Defunct] = kk.list[Defunct]
        PROVE  /\ Run(Hide(x, D), to) = Hide(Run(x, to), D) /\ Run(x, to) \in KernelState
               /\ Run(x, to).stat = [x.stat EXCEPT ![to] = "RUNNING"] /\ Run(x, to).prio = x.prio
               /\ Run(x, to).err = x.err /\ Run(x, to).armed = x.armed
               /\ Run(x, to).current = x.current /\ Run(x, to).lock = x.lock
               /\ On(Run(x, to), Defunct) \subseteq On(kk, Defunct)
    <3>1. /\ Run(Hide(x, D), to) = Hide(Run(x, to), D) /\ Run(x, to) \in KernelState
          /\ Run(x, to).stat = [x.stat EXCEPT ![to] = "RUNNING"] /\ Run(x, to).prio = x.prio
          /\ Run(x, to).err = x.err /\ Run(x, to).armed = x.armed
          /\ Run(x, to).current = x.current /\ Run(x, to).lock = x.lock
          /\ Run(x, to).list = Unlink(x, to).list
      BY <2>3, <2>7, HideRun
    <3>2. ToSet(Unlink(x, to).list[Defunct]) = On(x, Defunct) \ {to}
      BY <2>6, <2>7, UnlinkDefunct
    <3> QED
      BY <2>7, <3>1, <3>2 DEF On
  <2>8. CASE to = from
    <3>1. Schedule(kk) = Run(kk, to) /\ Schedule(h) = Run(h, to)
      BY <2>4, <2>5, <2>8
    <3>2. /\ Run(h, to) = Hide(Run(kk, to), D) /\ Run(kk, to) \in KernelState
          /\ Run(kk, to).stat = [kk.stat EXCEPT ![to] = "RUNNING"] /\ Run(kk, to).prio = kk.prio
          /\ Run(kk, to).err = kk.err /\ Run(kk, to).armed = kk.armed
          /\ Run(kk, to).current = kk.current /\ Run(kk, to).lock = kk.lock
          /\ On(Run(kk, to), Defunct) \subseteq On(kk, Defunct)
      BY <2>7
    <3> HIDE DEF h
    <3>3. \A u \in Thread : \/ Run(kk, to).stat[u] = kk.stat[u]
                            \/ {Run(kk, to).stat[u], kk.stat[u]} \subseteq {"READY", "RUNNING"}
      BY <2>3, <3>2 DEF KernelState
    <3> QED
      BY <3>1, <3>2, <3>3 DEF Switches, h
  <2>9. CASE to # from
    <3> DEFINE k1 == [kk EXCEPT !.current = to]
               h1 == [h EXCEPT !.current = to]
               k2 == IF kk.stat[from] = "RUNNING" THEN InsertThread(k1, from) ELSE k1
               h2 == IF h.stat[from] = "RUNNING" THEN InsertThread(h1, from) ELSE h1
    <3>1. Schedule(kk) = Run(k2, to)
      BY <2>4, <2>9 DEF SwitchTo, Run
    <3>2. Schedule(h) = Run(h2, to)
      BY <1>1, <2>5, <2>9 DEF SwitchTo, Run
    <3>3. /\ k1 \in KernelState /\ k1.stat = kk.stat /\ k1.prio = kk.prio /\ k1.err = kk.err
          /\ k1.armed = kk.armed /\ k1.list = kk.list /\ k1.group = kk.group
          /\ k1.current = to /\ k1.lock = kk.lock
      BY <2>3 DEF KernelState
    <3>4. /\ h1 \in KernelState /\ h1.stat = h.stat /\ h1.prio = h.prio /\ h1.err = h.err
          /\ h1.armed = h.armed /\ h1.list = h.list /\ h1.group = h.group
          /\ h1.current = to /\ h1.lock = h.lock
      <4> HIDE DEF h
      <4> QED
        BY <1>1, <2>3 DEF KernelState
    <3> HIDE DEF k1, h1
    <3>5. h1 = Hide(k1, D)
      <4> DEFINE g == Hide(k1, D)
      <4>1. /\ g \in KernelState
            /\ g.stat = [u \in Thread |-> IF u \in D THEN "CLOSE" ELSE k1.stat[u]]
            /\ g.prio = k1.prio /\ g.err = k1.err /\ g.armed = k1.armed /\ g.list = k1.list
            /\ g.group = k1.group /\ g.current = k1.current /\ g.lock = k1.lock
        BY <3>3, HideFields
      <4> HIDE DEF g, h
      <4>2. h1 = g
        BY <1>1, <3>3, <3>4, <4>1, SameKernel
      <4> QED
        BY <4>2 DEF g
    <3>6. /\ k2 \in KernelState /\ h2 = Hide(k2, D)
          /\ k2.prio = kk.prio /\ k2.err = kk.err /\ k2.armed = kk.armed
          /\ k2.current = to /\ k2.lock = kk.lock /\ k2.list[Defunct] = kk.list[Defunct]
          /\ k2.stat = IF kk.stat[from] = "RUNNING" THEN [kk.stat EXCEPT ![from] = "READY"]
                       ELSE kk.stat
      <4>1. CASE kk.stat[from] = "RUNNING"
        <5> DEFINE i == InsertThread(k1, from)
        <5>1. k2 = i /\ h2 = InsertThread(h1, from)
          BY <1>3, <4>1
        <5>2. InsertThread(Hide(k1, D), from) = Hide(i, D)
          BY <1>2, <3>3, HideInsert
        <5>3. /\ i \in KernelState
              /\ i.prio = k1.prio /\ i.err = k1.err /\ i.armed = k1.armed
              /\ i.current = k1.current /\ i.lock = k1.lock
              /\ i.stat = [k1.stat EXCEPT ![from] = "READY"]
              /\ i.list = [k1.list EXCEPT ![k1.prio[from]] = Append(k1.list[k1.prio[from]], from)]
          BY <1>2, <2>9, <3>3, InsertFields
        <5> HIDE DEF i, k2, h2
        <5>4. k1.prio[from] # Defunct /\ k1.list \in [ListId -> Seq(Thread)]
          BY <1>2, <3>3, ListKinds DEF KernelState
        <5>5. i.list[Defunct] = kk.list[Defunct]
          BY <3>3, <5>3, <5>4, ListKinds
        <5>6. h2 = Hide(k2, D)
          BY <3>5, <5>1, <5>2
        <5> QED
          BY <3>3, <4>1, <5>1, <5>3, <5>5, <5>6
      <4>2. CASE kk.stat[from] # "RUNNING"
        <5>1. k2 = k1 /\ h2 = h1
          BY <1>3, <4>2
        <5> HIDE DEF k2, h2
        <5> QED
          BY <3>3, <3>5, <4>2, <5>1
      <4> QED
        BY <4>1, <4>2
    <3> HIDE DEF k2, h2
    <3>7. /\ Run(Hide(k2, D), to) = Hide(Run(k2, to), D) /\ Run(k2, to) \in KernelState
          /\ Run(k2, to).stat = [k2.stat EXCEPT ![to] = "RUNNING"] /\ Run(k2, to).prio = k2.prio
          /\ Run(k2, to).err = k2.err /\ Run(k2, to).armed = k2.armed
          /\ Run(k2, to).current = k2.current /\ Run(k2, to).lock = k2.lock
          /\ On(Run(k2, to), Defunct) \subseteq On(kk, Defunct)
      BY <2>7, <3>6
    <3> HIDE DEF h
    <3>8. \A u \in Thread : \/ Run(k2, to).stat[u] = kk.stat[u]
                            \/ {Run(k2, to).stat[u], kk.stat[u]} \subseteq {"READY", "RUNNING"}
      BY <1>2, <2>3, <3>6, <3>7 DEF KernelState
    <3> QED
      BY <1>5, <2>3, <2>9, <3>1, <3>2, <3>6, <3>7, <3>8 DEF Switches, h
  <2> QED
    BY <2>8, <2>9
<1> QED
  BY <1>4, <1>5

-----------------------------------------------------------------------------
(* Steps on a consistent kernel state, described by the fields they change *)

(* thread->error, the lock and timers that are stopped do not matter. *)
LEMMA FrameOK ==
  ASSUME NEW h, KernelOK(h), NEW x \in KernelState,
         x.list = h.list, x.stat = h.stat, x.prio = h.prio, x.group = h.group,
         x.current = h.current, x.armed \subseteq h.armed
  PROVE  KernelOK(x) /\ \A l \in ListId : On(x, l) = On(h, l)
<1>1. ListsAgree(h) /\ RunningIsCurrent(h)
  BY KernelOKParts
<1>2. ListsAgree(x) /\ \A l \in ListId : On(x, l) = On(h, l)
  BY <1>1, FrameLists DEF ListsAgree, TimersForSuspended
<1>3. RunningIsCurrent(x)
  BY <1>1 DEF RunningIsCurrent
<1> QED
  BY <1>2, <1>3, KernelOKParts

(* rt_list_remove of a thread that is not ready *)
LEMMA UnlinkOK ==
  ASSUME NEW h, KernelOK(h), NEW t \in Thread, h.stat[t] # "READY", NEW x \in KernelState,
         x.list = Unlink(h, t).list, x.stat = h.stat, x.prio = h.prio, x.group = h.group,
         x.current = h.current, x.armed \subseteq h.armed
  PROVE  KernelOK(x) /\ \A l \in ListId : On(x, l) = On(h, l) \ {t}
<1> DEFINE u == Unlink(h, t)
<1>1. h \in KernelState /\ ListsAgree(h) /\ RunningIsCurrent(h) /\ OneList(h)
  BY KernelOKParts DEF KernelOK, ListsAgree
<1>2. OneList(u) /\ \A l \in ListId : On(u, l) = On(h, l) \ {t}
  BY <1>1, UnlinkLists
<1> HIDE DEF u
<1>3. OneList(x) /\ \A l \in ListId : On(x, l) = On(h, l) \ {t}
  BY <1>2 DEF OneList, On, u
<1>4. \A p \in Prio : On(x, p) = On(h, p)
  <2>1. \A p \in Prio : t \notin On(h, p)
    BY <1>1 DEF ListsAgree, ReadyListed
  <2> QED
    BY <1>3, <2>1, ListKinds
<1>5. ReadyListed(x)
  BY <1>1, <1>4 DEF ListsAgree, ReadyListed
<1>6. WaitersSuspended(x)
  BY <1>1, <1>3, ListKinds DEF ListsAgree, WaitersSuspended
<1>7. BitmapExact(x)
  <2>1. \A p \in Prio : x.list[p] = <<>> <=> h.list[p] = <<>>
    BY <1>1, <1>4, ListKinds, EmptyOn
  <2> QED
    BY <1>1, <2>1 DEF ListsAgree, BitmapExact
<1>8. RunningIsCurrent(x) /\ TimersForSuspended(x)
  BY <1>1 DEF RunningIsCurrent, ListsAgree, TimersForSuspended
<1> QED
  BY <1>3, <1>5, <1>6, <1>7, <1>8 DEF KernelOK, KernelConsistent

(* The states of a thread that is not to run *)
Stopped == {"SUSPEND", "CLOSE"}

(* rt_schedule_remove_thread of a thread that is then suspended or closed,  *)
(* whatever its state was                                                   *)
LEMMA TakeOffOK ==
  ASSUME NEW h, KernelOK(h), NEW t \in Thread, NEW s \in Stopped,
         NEW x \in KernelState,
         x.list = Unlink(h, t).list, x.stat = [h.stat EXCEPT ![t] = s],
         x.prio = h.prio, x.group = RemoveThread(h, t).group, x.current = h.current,
         x.armed \subseteq h.armed \cup {t}, s = "CLOSE" => t \notin x.armed
  PROVE  KernelOK(x) /\ \A l \in ListId : On(x, l) = On(h, l) \ {t}
<1> DEFINE u == Unlink(h, t)
<1>1. h \in KernelState /\ ListsAgree(h) /\ RunningIsCurrent(h) /\ OneList(h)
  BY KernelOKParts DEF KernelOK, ListsAgree
<1>2. OneList(u) /\ \A l \in ListId : On(u, l) = On(h, l) \ {t}
  BY <1>1, UnlinkLists
<1>3. x.group = IF x.list[h.prio[t]] = <<>> THEN h.group \ {h.prio[t]} ELSE h.group
  <2>1. RemoveThread(h, t).group =
          IF Unlink(h, t).list[h.prio[t]] = <<>> THEN h.group \ {h.prio[t]} ELSE h.group
    BY <1>1, RemoveFields
  <2> QED
    BY <2>1
<1> HIDE DEF u
<1>4. OneList(x) /\ \A l \in ListId : On(x, l) = On(h, l) \ {t}
  BY <1>2 DEF OneList, On, u
<1>5. \A v \in Thread : x.stat[v] = IF v = t THEN s ELSE h.stat[v]
  BY <1>1 DEF KernelState
<1>6. ReadyListed(x)
  BY <1>1, <1>4, <1>5, ListKinds DEF ListsAgree, ReadyListed, Stopped
<1>7. WaitersSuspended(x)
  <2>1. ASSUME NEW q \in Queue, NEW v \in On(x, q) PROVE x.stat[v] = "SUSPEND"
    <3>1. v \in On(h, q) /\ v # t /\ v \in Thread
      BY <1>1, <1>4, <2>1, ListKinds, ListType
    <3> QED
      BY <1>1, <1>5, <3>1 DEF ListsAgree, WaitersSuspended
  <2>2. ASSUME NEW v \in On(x, Defunct) PROVE x.stat[v] = "CLOSE"
    <3>1. v \in On(h, Defunct) /\ v # t /\ v \in Thread
      BY <1>1, <1>4, <2>2, ListKinds, ListType
    <3> QED
      BY <1>1, <1>5, <3>1 DEF ListsAgree, WaitersSuspended
  <2> QED
    BY <2>1, <2>2 DEF WaitersSuspended
<1>8. BitmapExact(x)
  <2>1. ASSUME NEW p \in Prio, p # h.prio[t] PROVE p \in x.group <=> x.list[p] # <<>>
    <3>1. t \notin On(h, p)
      BY <1>1, <2>1 DEF ListsAgree, ReadyListed
    <3>2. x.list[p] = <<>> <=> h.list[p] = <<>>
      BY <1>1, <1>4, <3>1, ListKinds, EmptyOn
    <3>3. p \in x.group <=> p \in h.group
      BY <1>3, <2>1
    <3> QED
      BY <1>1, <3>2, <3>3 DEF ListsAgree, BitmapExact
  <2>2. h.prio[t] \in Prio /\ h.prio[t] \in ListId
    BY <1>1, ListKinds DEF KernelState
  <2>3. h.prio[t] \in x.group <=> x.list[h.prio[t]] # <<>>
    <3>1. CASE x.list[h.prio[t]] = <<>>
      BY <1>3, <3>1
    <3>2. CASE x.list[h.prio[t]] # <<>>
      <4>1. h.list[h.prio[t]] # <<>>
        BY <1>1, <1>4, <2>2, <3>2, EmptyOn
      <4> QED
        BY <1>1, <1>3, <2>2, <3>2, <4>1 DEF ListsAgree, BitmapExact
    <3> QED
      BY <3>1, <3>2
  <2> QED
    BY <2>1, <2>3 DEF BitmapExact
<1>9. RunningIsCurrent(x)
  BY <1>1, <1>5 DEF RunningIsCurrent, KernelState, Stopped
<1>10. TimersForSuspended(x)
  <2>1. ASSUME NEW v \in x.armed PROVE x.stat[v] = "SUSPEND"
    <3>1. v \in Thread
      BY DEF KernelState
    <3>2. CASE v = t
      BY <1>5, <2>1, <3>1, <3>2 DEF Stopped
    <3>3. CASE v # t
      BY <1>1, <1>5, <2>1, <3>1, <3>3 DEF ListsAgree, TimersForSuspended
    <3> QED
      BY <3>2, <3>3
  <2> QED
    BY <2>1 DEF TimersForSuspended
<1> QED
  BY <1>4, <1>6, <1>7, <1>8, <1>9, <1>10 DEF KernelOK, KernelConsistent

(* The states of a thread that is on no list *)
Dormant == {"INIT", "CLOSE"}
Parked == {"INIT", "SUSPEND", "CLOSE"}

(* A thread on no list that is created, started up or closed *)
LEMMA RetagOK ==
  ASSUME NEW h, KernelOK(h), NEW t \in Thread, t # h.current,
         h.stat[t] \in Dormant, t \notin On(h, Defunct),
         NEW s \in Parked, NEW x \in KernelState,
         x.list = h.list, x.stat = [h.stat EXCEPT ![t] = s], x.group = h.group,
         \A u \in Thread \ {t} : x.prio[u] = h.prio[u],
         x.current = h.current, x.armed = h.armed
  PROVE  KernelOK(x) /\ \A l \in ListId : On(x, l) = On(h, l)
<1>1. h \in KernelState /\ ListsAgree(h) /\ RunningIsCurrent(h)
  BY KernelOKParts DEF KernelOK
<1>2. \A l \in ListId : On(x, l) = On(h, l)
  BY DEF On
<1>3. \A v \in Thread : x.stat[v] = IF v = t THEN s ELSE h.stat[v]
  BY <1>1 DEF KernelState
<1>4. OneList(x) /\ BitmapExact(x)
  BY <1>1, <1>2 DEF ListsAgree, OneList, BitmapExact
<1>5. ReadyListed(x)
  <2>1. ASSUME NEW p \in Prio, NEW v \in Thread, v # t
        PROVE  v \in On(x, p) <=> x.stat[v] = "READY" /\ x.prio[v] = p
    BY <1>1, <1>2, <1>3, <2>1, ListKinds DEF ListsAgree, ReadyListed, Dormant, Parked
  <2>2. ASSUME NEW p \in Prio
        PROVE  t \in On(x, p) <=> x.stat[t] = "READY" /\ x.prio[t] = p
    BY <1>1, <1>2, <1>3, <2>2, ListKinds DEF ListsAgree, ReadyListed, Dormant, Parked
  <2> QED
    BY <2>1, <2>2 DEF ReadyListed
<1>6. WaitersSuspended(x)
  <2>1. ASSUME NEW q \in Queue, NEW v \in On(x, q) PROVE x.stat[v] = "SUSPEND"
    <3>1. v \in On(h, q) /\ v \in Thread
      BY <1>1, <1>2, <2>1, ListKinds, ListType
    <3>2. h.stat[v] = "SUSPEND"
      BY <1>1, <3>1 DEF ListsAgree, WaitersSuspended
    <3> QED
      BY <1>3, <3>1, <3>2 DEF Dormant
  <2>2. ASSUME NEW v \in On(x, Defunct) PROVE x.stat[v] = "CLOSE"
    <3>1. v \in On(h, Defunct) /\ v # t /\ v \in Thread
      BY <1>1, <1>2, <2>2, ListKinds, ListType
    <3> QED
      BY <1>1, <1>3, <3>1 DEF ListsAgree, WaitersSuspended, Dormant
  <2> QED
    BY <2>1, <2>2 DEF WaitersSuspended
<1>7. RunningIsCurrent(x)
  BY <1>1, <1>3 DEF RunningIsCurrent, KernelState, Parked
<1>8. TimersForSuspended(x)
  BY <1>1, <1>3 DEF ListsAgree, TimersForSuspended, KernelState, Dormant
<1> QED
  BY <1>2, <1>4, <1>5, <1>6, <1>7, <1>8 DEF KernelOK, KernelConsistent

-----------------------------------------------------------------------------
(* The same steps with hidden threads *)

(* What is sane is so for the kernel as it is seen. *)
LEMMA SaneSeen ==
  ASSUME NEW kk, NEW D, Sane(kk, D)
  PROVE  LET h == Hide(kk, D) IN
         /\ kk \in KernelState /\ h \in KernelState /\ KernelOK(h)
         /\ h.prio = kk.prio /\ h.err = kk.err /\ h.armed = kk.armed /\ h.list = kk.list
         /\ h.group = kk.group /\ h.current = kk.current /\ h.lock = kk.lock
         /\ \A l \in ListId : On(h, l) = On(kk, l)
         /\ \A t \in Thread : h.stat[t] = IF t \in D THEN "CLOSE" ELSE kk.stat[t]
         /\ kk.current \in Thread \ D
         /\ \A t \in Thread : Unlink(h, t).list = Unlink(kk, t).list
         /\ \A t \in Thread : RemoveThread(h, t).group = RemoveThread(kk, t).group
<1> DEFINE h == Hide(kk, D)
<1>1. kk \in KernelState /\ KernelOK(h) /\ kk.current \in Thread \ D
  BY DEF Sane, KernelState
<1>2. /\ h \in KernelState
      /\ h.prio = kk.prio /\ h.err = kk.err /\ h.armed = kk.armed /\ h.list = kk.list
      /\ h.group = kk.group /\ h.current = kk.current /\ h.lock = kk.lock
      /\ \A l \in ListId : On(h, l) = On(kk, l)
      /\ \A t \in Thread : h.stat[t] = IF t \in D THEN "CLOSE" ELSE kk.stat[t]
  <2>1. /\ h \in KernelState
        /\ h.prio = kk.prio /\ h.err = kk.err /\ h.armed = kk.armed /\ h.list = kk.list
        /\ h.group = kk.group /\ h.current = kk.current /\ h.lock = kk.lock
        /\ \A l \in ListId : On(h, l) = On(kk, l)
        /\ h.stat = [t \in Thread |-> IF t \in D THEN "CLOSE" ELSE kk.stat[t]]
    BY <1>1, HideFields
  <2> HIDE DEF h
  <2> QED
    BY <2>1
<1>3. ASSUME NEW t \in Thread
      PROVE  /\ Unlink(h, t).list = Unlink(kk, t).list
             /\ RemoveThread(h, t).group = RemoveThread(kk, t).group
  <2>1. ASSUME NEW x \in KernelState
        PROVE  Unlink(x, t).list = [l \in ListId |-> RemoveFirst(x.list[l], t)]
    BY <2>1 DEF Unlink, KernelState
  <2>2. Unlink(kk, t).list = [l \in ListId |-> RemoveFirst(kk.list[l], t)]
    BY <1>1, <2>1
  <2> HIDE DEF h
  <2>3. Unlink(h, t).list = [l \in ListId |-> RemoveFirst(h.list[l], t)]
    BY <1>2, <2>1
  <2>4. Unlink(h, t).list = Unlink(kk, t).list
    BY <1>2, <2>2, <2>3
  <2>5. RemoveThread(h, t).group = IF Unlink(h, t).list[h.prio[t]] = <<>>
                                   THEN h.group \ {h.prio[t]} ELSE h.group
    BY <1>2, <1>3, RemoveFields
  <2>6. RemoveThread(kk, t).group = IF Unlink(kk, t).list[kk.prio[t]] = <<>>
                                    THEN kk.group \ {kk.prio[t]} ELSE kk.group
    BY <1>1, <1>3, RemoveFields
  <2> QED
    BY <1>2, <2>4, <2>5, <2>6
<1> HIDE DEF h
<1>4. \A t \in Thread : /\ Unlink(h, t).list = Unlink(kk, t).list
                        /\ RemoveThread(h, t).group = RemoveThread(kk, t).group
  BY <1>3
<1> QED
  BY <1>1, <1>2, <1>4 DEF h

(* A suspended thread is on no list when no object has waiters. *)
LEMMA SuspendedOff ==
  ASSUME NEW h, KernelOK(h), \A q \in Queue : On(h, q) = {},
         NEW t \in Thread, h.stat[t] \notin {"READY", "CLOSE"}
  PROVE  Off(h, t)
<1>1. ASSUME NEW l \in ListId, t \in On(h, l) PROVE FALSE
  <2>1. l \notin Prio
    BY <1>1 DEF KernelOK, KernelConsistent, ReadyListed
  <2>2. l # Defunct
    BY <1>1 DEF KernelOK, KernelConsistent, WaitersSuspended
  <2> QED
    BY <1>1, <2>1, <2>2, ListKinds
<1> QED
  BY <1>1 DEF Off

(* rt_schedule *)
LEMMA SaneSchedule ==
  ASSUME NEW kk, NEW D, Sane(kk, D)
  PROVE  Sane(Schedule(kk), D) /\ Switches(kk, Schedule(kk))
<1> DEFINE h == Hide(kk, D)
           r == Schedule(kk)
           g == Schedule(h)
<1>1. kk \in KernelState /\ KernelOK(h) /\ kk.current \notin D /\ D \subseteq Thread
  BY DEF Sane
<1>2. r \in KernelState /\ g = Hide(r, D) /\ r.current \notin D /\ Switches(kk, r)
  BY <1>1, HideSchedule
<1>3. KernelOK(g) /\ WakesNobody(h, g)
  BY <1>1, ScheduleOK
<1>4. \A l \in ListId : On(h, l) = On(kk, l) /\ On(Hide(r, D), l) = On(r, l)
  BY <1>1, <1>2, HideKeeps
<1> HIDE DEF g, h, r
<1>5. \A q \in Queue : On(r, q) = {}
  BY <1>2, <1>3, <1>4, ListKinds DEF WakesNobody, Sane
<1> QED
  BY <1>1, <1>2, <1>3, <1>5 DEF Sane, r

(* rt_schedule_insert_thread of a suspended thread whose timer is stopped *)
LEMMA SanePut ==
  ASSUME NEW kk, NEW D, Sane(kk, D), NEW t \in Thread \ D,
         kk.stat[t] = "SUSPEND", t \notin kk.armed
  PROVE  LET r == InsertThread(kk, t) IN
         /\ Sane(r, D)
         /\ r.stat = [kk.stat EXCEPT ![t] = IF t = kk.current THEN "RUNNING" ELSE "READY"]
         /\ r.prio = kk.prio /\ r.err = kk.err /\ r.armed = kk.armed
         /\ r.current = kk.current /\ r.lock = kk.lock
         /\ On(r, Defunct) = On(kk, Defunct)
<1> DEFINE h == Hide(kk, D)
           r == InsertThread(kk, t)
           g == InsertThread(h, t)
<1>1. /\ kk \in KernelState /\ h \in KernelState /\ KernelOK(h)
      /\ h.armed = kk.armed /\ h.current = kk.current
      /\ \A l \in ListId : On(h, l) = On(kk, l)
      /\ \A u \in Thread : h.stat[u] = IF u \in D THEN "CLOSE" ELSE kk.stat[u]
      /\ kk.current \in Thread \ D
  BY SaneSeen
<1>2. /\ r \in KernelState /\ r.prio = kk.prio /\ r.err = kk.err /\ r.armed = kk.armed
      /\ r.current = kk.current /\ r.lock = kk.lock
      /\ r.stat = [kk.stat EXCEPT ![t] = IF t = kk.current THEN "RUNNING" ELSE "READY"]
      /\ r.list = IF t = kk.current THEN kk.list
                  ELSE [kk.list EXCEPT ![kk.prio[t]] = Append(kk.list[kk.prio[t]], t)]
  BY <1>1, InsertFields
<1>3. g = Hide(r, D)
  BY <1>1, HideInsert
<1>4. \A l \in ListId : On(Hide(r, D), l) = On(r, l)
  BY <1>2, HideKeeps
<1>5. \A q \in Queue : On(h, q) = {}
  BY <1>1, ListKinds DEF Sane
<1> HIDE DEF h, r
<1>6. ListsAgree(h) /\ RunningIsCurrent(h) /\ Off(h, t) /\ t \notin h.armed
  BY <1>1, <1>5, SuspendedOff, KernelOKParts
<1>7. /\ ListsAgree(g)
      /\ g.stat = [h.stat EXCEPT ![t] = IF t = h.current THEN "RUNNING" ELSE "READY"]
      /\ g.current = h.current /\ \A q \in Queue : On(g, q) = On(h, q)
  BY <1>6, InsertLists
<1> HIDE DEF g
<1>8. \A u \in Thread : g.stat[u] = IF u # t THEN h.stat[u]
                                    ELSE IF t = h.current THEN "RUNNING" ELSE "READY"
  BY <1>1, <1>7 DEF KernelState
<1>9. KernelOK(g)
  <2>1. RunningIsCurrent(g)
    BY <1>1, <1>6, <1>7, <1>8 DEF RunningIsCurrent
  <2> QED
    BY <1>7, <2>1, KernelOKParts
<1>10. \A q \in Queue : On(r, q) = {}
  BY <1>3, <1>4, <1>5, <1>7, ListKinds
<1>11. On(r, Defunct) = On(kk, Defunct)
  <2>1. kk.prio[t] # Defunct /\ kk.list \in [ListId -> Seq(Thread)]
    BY <1>1, ListKinds DEF KernelState
  <2>2. r.list[Defunct] = kk.list[Defunct]
    BY <1>2, <2>1, ListKinds
  <2> QED
    BY <2>2 DEF On
<1> QED
  BY <1>1, <1>2, <1>3, <1>9, <1>10, <1>11 DEF Sane, r

(* rt_list_remove of a thread that is not ready, with changes of            *)
(* thread->error and timers that are stopped                                *)
Detach(kk, t, e, A) == [Unlink(kk, t) EXCEPT !.err = e, !.armed = A]

LEMMA SaneUnlink ==
  ASSUME NEW kk, NEW D, Sane(kk, D), NEW t \in Thread, kk.stat[t] # "READY",
         NEW e \in [Thread -> Err], NEW A \in SUBSET kk.armed
  PROVE  LET x == Detach(kk, t, e, A) IN
         /\ Sane(x, D)
         /\ x.stat = kk.stat /\ x.prio = kk.prio /\ x.err = e /\ x.armed = A
         /\ x.current = kk.current /\ x.lock = kk.lock
         /\ On(x, Defunct) = On(kk, Defunct) \ {t}
<1> DEFINE h == Hide(kk, D)
           u == Unlink(kk, t)
           x == Detach(kk, t, e, A)
           g == Hide(x, D)
<1>1. /\ kk \in KernelState /\ h \in KernelState /\ KernelOK(h)
      /\ h.prio = kk.prio /\ h.group = kk.group /\ h.armed = kk.armed
      /\ h.current = kk.current
      /\ \A l \in ListId : On(h, l) = On(kk, l)
      /\ \A v \in Thread : h.stat[v] = IF v \in D THEN "CLOSE" ELSE kk.stat[v]
      /\ kk.current \in Thread \ D /\ D \subseteq Thread
      /\ Unlink(h, t).list = Unlink(kk, t).list
      /\ \A q \in Queue : On(kk, q) = {}
  BY SaneSeen DEF Sane
<1>2. /\ u \in KernelState /\ u.stat = kk.stat /\ u.prio = kk.prio /\ u.err = kk.err
      /\ u.armed = kk.armed /\ u.group = kk.group /\ u.current = kk.current
      /\ u.lock = kk.lock
  <2>1. u = [kk EXCEPT !.list = [l \in ListId |-> RemoveFirst(kk.list[l], t)]] /\ u \in KernelState
    BY <1>1, UnlinkThins DEF Unlink
  <2> HIDE DEF u
  <2> QED
    BY <1>1, <2>1 DEF KernelState
<1>3. A \in SUBSET Thread
  BY <1>1 DEF KernelState
<1> HIDE DEF u, h
<1>4. /\ x \in KernelState /\ x.list = u.list /\ x.stat = kk.stat /\ x.prio = kk.prio
      /\ x.group = kk.group /\ x.current = kk.current /\ x.lock = kk.lock
      /\ x.err = e /\ x.armed = A
  <2>1. x = [u EXCEPT !.err = e, !.armed = A]
    BY DEF Detach, u
  <2> HIDE DEF x
  <2> QED
    BY <1>2, <1>3, <2>1 DEF KernelState
<1> HIDE DEF x
<1>5. /\ g \in KernelState /\ g.list = x.list /\ g.prio = x.prio /\ g.group = x.group
      /\ g.current = x.current /\ g.armed = x.armed
      /\ g.stat = [v \in Thread |-> IF v \in D THEN "CLOSE" ELSE x.stat[v]]
      /\ \A l \in ListId : On(g, l) = On(x, l)
  BY <1>4, HideFields
<1> HIDE DEF g
<1>6. g.stat = h.stat
  BY <1>1, <1>4, <1>5 DEF KernelState
<1>7. h.stat[t] # "READY"
  BY <1>1
<1>8. KernelOK(g) /\ \A l \in ListId : On(g, l) = On(h, l) \ {t}
  BY <1>1, <1>4, <1>5, <1>6, <1>7, UnlinkOK DEF u
<1>9. On(x, Defunct) = On(kk, Defunct) \ {t} /\ \A q \in Queue : On(x, q) = {}
  BY <1>1, <1>5, <1>8, ListKinds
<1>10. Sane(x, D)
  BY <1>1, <1>4, <1>8, <1>9 DEF Sane, g
<1> QED
  BY <1>4, <1>9, <1>10 DEF x, u

(* rt_schedule_remove_thread of a thread that is then suspended or closed,  *)
(* or is on its way to be                                                   *)
LEMMA SaneTakeOff ==
  ASSUME NEW kk, NEW D, Sane(kk, D), NEW t \in Thread, NEW s \in Stopped,
         NEW E \in SUBSET Thread, NEW x \in KernelState,
         x.list = Unlink(kk, t).list, x.prio = kk.prio,
         x.group = RemoveThread(kk, t).group, x.current = kk.current,
         x.armed \subseteq kk.armed \cup {t}, s = "CLOSE" => t \notin x.armed,
         Hide(x, E).stat = [Hide(kk, D).stat EXCEPT ![t] = s], kk.current \notin E
  PROVE  Sane(x, E) /\ On(x, Defunct) = On(kk, Defunct) \ {t}
<1> DEFINE h == Hide(kk, D)
           g == Hide(x, E)
<1>1. /\ kk \in KernelState /\ h \in KernelState /\ KernelOK(h)
      /\ h.prio = kk.prio /\ h.armed = kk.armed /\ h.current = kk.current
      /\ \A l \in ListId : On(h, l) = On(kk, l)
      /\ Unlink(h, t).list = Unlink(kk, t).list
      /\ RemoveThread(h, t).group = RemoveThread(kk, t).group
      /\ \A q \in Queue : On(kk, q) = {}
  BY SaneSeen DEF Sane
<1>2. /\ g \in KernelState /\ g.list = x.list /\ g.prio = x.prio /\ g.group = x.group
      /\ g.current = x.current /\ g.armed = x.armed
      /\ \A l \in ListId : On(g, l) = On(x, l)
  BY HideKeeps
<1>3. g.stat = [h.stat EXCEPT ![t] = s]
  OBVIOUS
<1> HIDE DEF g, h
<1>4. KernelOK(g) /\ \A l \in ListId : On(g, l) = On(h, l) \ {t}
  <2>1. /\ g.list = Unlink(h, t).list /\ g.prio = h.prio /\ g.current = h.current
        /\ g.group = RemoveThread(h, t).group
        /\ g.armed \subseteq h.armed \cup {t} /\ (s = "CLOSE" => t \notin g.armed)
    BY <1>1, <1>2
  <2>2. KernelOK(h) /\ g \in KernelState /\ g.stat = [h.stat EXCEPT ![t] = s]
    BY <1>1, <1>2, <1>3
  <2> QED
    BY <2>1, <2>2, TakeOffOK
<1>5. On(x, Defunct) = On(kk, Defunct) \ {t} /\ \A q \in Queue : On(x, q) = {}
  BY <1>1, <1>2, <1>4, ListKinds
<1> QED
  BY <1>4, <1>5 DEF Sane, g

(* rt_thread_suspend, rt_thread_sleep and rt_thread_exit: a thread is taken *)
(* off its list, and its timer runs or not.                                 *)
Halt(kk, t, s, A) == [RemoveThread(kk, t) EXCEPT !.stat[t] = s, !.armed = A]

LEMMA SaneStop ==
  ASSUME NEW kk, NEW D, Sane(kk, D), NEW t \in Thread \ D, NEW s \in Stopped,
         NEW A \in SUBSET Thread, A \subseteq kk.armed \cup {t}, s = "CLOSE" => t \notin A
  PROVE  LET x == Halt(kk, t, s, A) IN
         /\ Sane(x, D)
         /\ x.stat = [kk.stat EXCEPT ![t] = s] /\ x.prio = kk.prio /\ x.err = kk.err
         /\ x.armed = A /\ x.current = kk.current /\ x.lock = kk.lock
         /\ On(x, Defunct) = On(kk, Defunct) \ {t}
<1> DEFINE y == RemoveThread(kk, t)
           st == [kk.stat EXCEPT ![t] = s]
           x == Halt(kk, t, s, A)
<1>1. kk \in KernelState /\ kk.current \in Thread \ D /\ D \subseteq Thread
  BY SaneSeen DEF Sane
<1>2. /\ y \in KernelState
      /\ y.stat = kk.stat /\ y.prio = kk.prio /\ y.err = kk.err /\ y.armed = kk.armed
      /\ y.current = kk.current /\ y.lock = kk.lock /\ y.list = Unlink(kk, t).list
  BY <1>1, RemoveFields
<1>3. st \in [Thread -> Stat]
  BY <1>1 DEF KernelState, Stopped, Stat
<1>4. x = [y EXCEPT !.stat = st, !.armed = A]
  BY <1>2 DEF KernelState, Halt
<1> HIDE DEF st, x, y
<1>5. /\ x \in KernelState /\ x.list = y.list /\ x.stat = st /\ x.prio = y.prio
      /\ x.err = y.err /\ x.armed = A /\ x.group = y.group /\ x.current = y.current
      /\ x.lock = y.lock
  BY <1>2, <1>3, <1>4 DEF KernelState
<1>6. Hide(x, D).stat = [Hide(kk, D).stat EXCEPT ![t] = s]
  <2>1. Hide(x, D).stat = [u \in Thread |-> IF u \in D THEN "CLOSE" ELSE x.stat[u]]
    BY <1>5, HideFields
  <2>2. Hide(kk, D).stat = [u \in Thread |-> IF u \in D THEN "CLOSE" ELSE kk.stat[u]]
    BY <1>1, HideFields
  <2>3. kk.stat \in [Thread -> Stat]
    BY <1>1 DEF KernelState
  <2> QED
    BY <1>5, <2>1, <2>2, <2>3 DEF st
<1>7. Sane(x, D) /\ On(x, Defunct) = On(kk, Defunct) \ {t}
  <2>1. x.list = Unlink(kk, t).list /\ x.prio = kk.prio /\ x.current = kk.current
    BY <1>2, <1>5
  <2>2. x.group = RemoveThread(kk, t).group
    BY <1>5 DEF y
  <2>3. x.armed \subseteq kk.armed \cup {t} /\ (s = "CLOSE" => t \notin x.armed)
    BY <1>5
  <2> QED
    BY <1>1, <1>5, <1>6, <2>1, <2>2, <2>3, SaneTakeOff
<1> QED
  BY <1>2, <1>5, <1>7 DEF x, st

(* The first step of rt_thread_delete: the thread counts as closed. *)
LEMMA SaneDelete ==
  ASSUME NEW kk, NEW D, Sane(kk, D), NEW t \in Thread \ D, t # kk.current, t \notin kk.armed
  PROVE  LET x == RemoveThread(kk, t) IN
         /\ Sane(x, D \cup {t})
         /\ x.stat = kk.stat /\ x.prio = kk.prio /\ x.err = kk.err
         /\ x.armed = kk.armed /\ x.current = kk.current /\ x.lock = kk.lock
         /\ On(x, Defunct) = On(kk, Defunct) \ {t}
<1> DEFINE x == RemoveThread(kk, t)
           E == D \cup {t}
<1>1. kk \in KernelState /\ kk.current \in Thread \ D /\ D \subseteq Thread
  BY SaneSeen DEF Sane
<1>2. /\ x \in KernelState
      /\ x.stat = kk.stat /\ x.prio = kk.prio /\ x.err = kk.err /\ x.armed = kk.armed
      /\ x.current = kk.current /\ x.lock = kk.lock /\ x.list = Unlink(kk, t).list
  BY <1>1, RemoveFields
<1>3. x.group = RemoveThread(kk, t).group
  OBVIOUS
<1> HIDE DEF x
<1>4. Hide(x, E).stat = [Hide(kk, D).stat EXCEPT ![t] = "CLOSE"]
  <2>1. Hide(x, E).stat = [u \in Thread |-> IF u \in E THEN "CLOSE" ELSE x.stat[u]]
    BY <1>2, HideFields
  <2>2. Hide(kk, D).stat = [u \in Thread |-> IF u \in D THEN "CLOSE" ELSE kk.stat[u]]
    BY <1>1, HideFields
  <2> QED
    BY <1>2, <2>1, <2>2
<1>5. "CLOSE" \in Stopped
  BY DEF Stopped
<1>6. E \in SUBSET Thread /\ kk.current \notin E
  BY <1>1
<1> HIDE DEF E
<1>7. x.armed \subseteq kk.armed \cup {t} /\ t \notin x.armed
  BY <1>2
<1>8. Sane(x, E) /\ On(x, Defunct) = On(kk, Defunct) \ {t}
  BY <1>2, <1>3, <1>4, <1>5, <1>6, <1>7, SaneTakeOff
<1> QED
  BY <1>2, <1>8 DEF x, E

(* A closed thread joins the list of defunct threads. *)
LEMMA SaneDefunct ==
  ASSUME NEW kk, NEW D, Sane(kk, D), NEW t \in Thread,
         kk.stat[t] = "CLOSE", t \notin On(kk, Defunct)
  PROVE  LET x == ToDefunct(kk, t) IN
         /\ Sane(x, D)
         /\ x.stat = kk.stat /\ x.prio = kk.prio /\ x.err = kk.err
         /\ x.armed = kk.armed /\ x.current = kk.current /\ x.lock = kk.lock
         /\ On(x, Defunct) = On(kk, Defunct) \cup {t}
<1> DEFINE h == Hide(kk, D)
           new == <<t>> \o kk.list[Defunct]
           li == [kk.list EXCEPT ![Defunct] = new]
           x == ToDefunct(kk, t)
           g == Hide(x, D)
<1>1. /\ kk \in KernelState /\ h \in KernelState /\ KernelOK(h)
      /\ h.list = kk.list /\ h.prio = kk.prio /\ h.group = kk.group /\ h.armed = kk.armed
      /\ h.current = kk.current
      /\ \A l \in ListId : On(h, l) = On(kk, l)
      /\ \A u \in Thread : h.stat[u] = IF u \in D THEN "CLOSE" ELSE kk.stat[u]
      /\ kk.current \in Thread \ D /\ D \subseteq Thread
      /\ \A q \in Queue : On(kk, q) = {}
  BY SaneSeen DEF Sane
<1>2. kk.list[Defunct] \in Seq(Thread) /\ IsInjective(kk.list[Defunct])
      /\ Defunct \in ListId /\ t \notin ToSet(kk.list[Defunct])
  BY <1>1, ListKinds, ListType DEF KernelOK, KernelConsistent, OneList, On
<1>3. new \in Seq(Thread) /\ ToSet(new) = ToSet(kk.list[Defunct]) \cup {t} /\ IsInjective(new)
  BY <1>2, PushToList
<1>4. x = [kk EXCEPT !.list = li]
  BY <1>1 DEF ToDefunct, KernelState
<1> HIDE DEF new
<1>5. li \in [ListId -> Seq(Thread)]
  BY <1>1, <1>3 DEF KernelState
<1> HIDE DEF li, x, h
<1>6. /\ x \in KernelState /\ x.list = li /\ x.stat = kk.stat /\ x.prio = kk.prio
      /\ x.err = kk.err /\ x.armed = kk.armed /\ x.group = kk.group
      /\ x.current = kk.current /\ x.lock = kk.lock
  BY <1>1, <1>4, <1>5 DEF KernelState
<1>7. x.list[Defunct] = new /\ \A l \in ListId \ {Defunct} : x.list[l] = kk.list[l]
  BY <1>1, <1>2, <1>6 DEF li, KernelState
<1>8. /\ On(x, Defunct) = On(kk, Defunct) \cup {t}
      /\ \A l \in ListId \ {Defunct} : On(x, l) = On(kk, l)
  BY <1>3, <1>7 DEF On
<1>9. /\ g \in KernelState /\ g.list = x.list /\ g.prio = x.prio /\ g.group = x.group
      /\ g.current = x.current /\ g.armed = x.armed
      /\ g.stat = [v \in Thread |-> IF v \in D THEN "CLOSE" ELSE x.stat[v]]
      /\ \A l \in ListId : On(g, l) = On(x, l)
  BY <1>6, HideFields
<1> HIDE DEF g
<1>10. \A u \in Thread : g.stat[u] = h.stat[u]
  BY <1>1, <1>6, <1>9
<1>11. h.stat[t] = "CLOSE"
  BY <1>1
<1>12. \A l \in ListId : t \notin On(h, l)
  <2>1. ASSUME NEW l \in ListId, t \in On(h, l) PROVE FALSE
    <3>1. l \notin Prio
      BY <1>1, <1>11, <2>1 DEF KernelOK, KernelConsistent, ReadyListed
    <3>2. l \notin Queue
      BY <1>1, <2>1, ListKinds
    <3> QED
      BY <1>1, <2>1, <3>1, <3>2, ListKinds
  <2> QED
    BY <2>1
<1>13. OneList(g)
  <2>1. \A l \in ListId : IsInjective(g.list[l])
    BY <1>1, <1>3, <1>7, <1>9 DEF KernelOK, KernelConsistent, OneList
  <2>2. \A l1, l2 \in ListId : l1 # l2 => On(h, l1) \cap On(h, l2) = {}
    BY <1>1 DEF KernelOK, KernelConsistent, OneList
  <2>3. \A l \in ListId : On(g, l) = IF l = Defunct THEN On(h, l) \cup {t} ELSE On(h, l)
    BY <1>1, <1>8, <1>9, ListKinds
  <2>4. \A l1, l2 \in ListId : l1 # l2 => On(g, l1) \cap On(g, l2) = {}
    BY <1>12, <2>2, <2>3
  <2> QED
    BY <2>1, <2>4 DEF OneList
<1>14. ReadyListed(g) /\ BitmapExact(g)
  <2>1. \A p \in Prio : p \in ListId \ {Defunct}
    BY ListKinds
  <2>2. ReadyListed(g)
    BY <1>1, <1>8, <1>9, <1>10, <1>6, <2>1 DEF KernelOK, KernelConsistent, ReadyListed
  <2>3. BitmapExact(g)
    BY <1>1, <1>7, <1>9, <1>6, <2>1 DEF KernelOK, KernelConsistent, BitmapExact
  <2> QED
    BY <2>2, <2>3
<1>15. WaitersSuspended(g)
  <2>1. \A q \in Queue : On(g, q) = {}
    BY <1>1, <1>8, <1>9, ListKinds
  <2>2. ASSUME NEW v \in On(g, Defunct) PROVE g.stat[v] = "CLOSE"
    <3>1. v \in Thread /\ (v = t \/ v \in On(h, Defunct))
      BY <1>1, <1>2, <1>8, <1>9, <2>2, ListType
    <3> QED
      BY <1>1, <1>10, <1>11, <3>1 DEF KernelOK, KernelConsistent, WaitersSuspended
  <2> QED
    BY <2>1, <2>2 DEF WaitersSuspended
<1>16. RunningIsCurrent(g) /\ TimersForSuspended(g)
  BY <1>1, <1>6, <1>9, <1>10
  DEF KernelOK, KernelConsistent, RunningIsCurrent, TimersForSuspended, KernelState
<1>17. \A q \in Queue : On(x, q) = {}
  BY <1>1, <1>8, ListKinds
<1>18. Sane(x, D)
  BY <1>1, <1>6, <1>9, <1>13, <1>14, <1>15, <1>16, <1>17
  DEF Sane, KernelOK, KernelConsistent, g
<1> QED
  BY <1>6, <1>8, <1>18 DEF x

(* A thread on no list that is created, started up or begins to be deleted *)
LEMMA SaneRetag ==
  ASSUME NEW kk, NEW D, Sane(kk, D), NEW t \in Thread \ D, t # kk.current,
         kk.stat[t] \in Dormant, t \notin On(kk, Defunct),
         NEW s \in Parked, NEW E \in SUBSET Thread, kk.current \notin E,
         NEW x \in KernelState, x.list = kk.list, x.group = kk.group,
         \A u \in Thread \ {t} : x.prio[u] = kk.prio[u],
         x.current = kk.current, x.armed = kk.armed,
         Hide(x, E).stat = [Hide(kk, D).stat EXCEPT ![t] = s]
  PROVE  Sane(x, E) /\ On(x, Defunct) = On(kk, Defunct)
<1> DEFINE h == Hide(kk, D)
           g == Hide(x, E)
<1>1. /\ kk \in KernelState /\ h \in KernelState /\ KernelOK(h)
      /\ h.list = kk.list /\ h.prio = kk.prio /\ h.group = kk.group /\ h.armed = kk.armed
      /\ h.current = kk.current
      /\ \A l \in ListId : On(h, l) = On(kk, l)
      /\ \A u \in Thread : h.stat[u] = IF u \in D THEN "CLOSE" ELSE kk.stat[u]
      /\ \A q \in Queue : On(kk, q) = {}
  BY SaneSeen DEF Sane
<1>2. /\ g \in KernelState /\ g.list = x.list /\ g.prio = x.prio /\ g.group = x.group
      /\ g.current = x.current /\ g.armed = x.armed
      /\ \A l \in ListId : On(g, l) = On(x, l)
  BY HideKeeps
<1>3. g.stat = [h.stat EXCEPT ![t] = s]
  OBVIOUS
<1> HIDE DEF g, h
<1>4. /\ h.stat[t] \in Dormant /\ t \notin On(h, Defunct) /\ t # h.current
      /\ g.list = h.list /\ g.group = h.group /\ g.current = h.current /\ g.armed = h.armed
      /\ \A u \in Thread \ {t} : g.prio[u] = h.prio[u]
  BY <1>1, <1>2, ListKinds
<1>5. KernelOK(g) /\ \A l \in ListId : On(g, l) = On(h, l)
  BY <1>1, <1>2, <1>3, <1>4, RetagOK
<1>6. On(x, Defunct) = On(kk, Defunct) /\ \A q \in Queue : On(x, q) = {}
  BY <1>1, <1>2, <1>5, ListKinds
<1> QED
  BY <1>5, <1>6 DEF Sane, g

(* thread->error, the lock and timers that are stopped do not matter, and   *)
(* neither does who counts as closed because it is, or because it will be.  *)
LEMMA SaneFrame ==
  ASSUME NEW kk, NEW D, Sane(kk, D), NEW E \in SUBSET Thread, kk.current \notin E,
         NEW x \in KernelState, x.list = kk.list, x.group = kk.group, x.prio = kk.prio,
         x.current = kk.current, x.armed \subseteq kk.armed,
         Hide(x, E).stat = Hide(kk, D).stat
  PROVE  Sane(x, E) /\ On(x, Defunct) = On(kk, Defunct)
<1> DEFINE h == Hide(kk, D)
           g == Hide(x, E)
<1>1. /\ kk \in KernelState /\ h \in KernelState /\ KernelOK(h)
      /\ h.list = kk.list /\ h.prio = kk.prio /\ h.group = kk.group /\ h.armed = kk.armed
      /\ h.current = kk.current
      /\ \A l \in ListId : On(h, l) = On(kk, l)
      /\ \A q \in Queue : On(kk, q) = {}
  BY SaneSeen DEF Sane
<1>2. /\ g \in KernelState /\ g.list = x.list /\ g.prio = x.prio /\ g.group = x.group
      /\ g.current = x.current /\ g.armed = x.armed
      /\ \A l \in ListId : On(g, l) = On(x, l)
  BY HideKeeps
<1>3. g.stat = h.stat
  OBVIOUS
<1> HIDE DEF g, h
<1>4. KernelOK(g) /\ \A l \in ListId : On(g, l) = On(h, l)
  BY <1>1, <1>2, <1>3, FrameOK
<1>5. On(x, Defunct) = On(kk, Defunct) /\ \A q \in Queue : On(x, q) = {}
  BY <1>1, <1>2, <1>4, ListKinds
<1> QED
  BY <1>4, <1>5 DEF Sane, g

(* RT_THREAD_CTRL_CHANGE_PRIORITY does not look at hidden threads. *)
LEMMA HideChange ==
  ASSUME NEW kk \in KernelState, NEW D, NEW t \in Thread \ D, NEW p \in Prio
  PROVE  LET r == ChangePriority(kk, t, p) IN
         /\ r \in KernelState /\ Hide(r, D) = ChangePriority(Hide(kk, D), t, p)
         /\ ToSet(r.list[Defunct]) \subseteq ToSet(RemoveFirst(kk.list[Defunct], t))
              \/ r.list = kk.list
<1> DEFINE h == Hide(kk, D)
           pr(x) == [x.prio EXCEPT ![t] = p]
           rm(x) == [RemoveThread(x, t) EXCEPT !.prio = pr(x)]
           np(x) == [x EXCEPT !.prio = pr(x)]
           r == ChangePriority(kk, t, p)
<1>1. /\ h \in KernelState
      /\ h.stat = [u \in Thread |-> IF u \in D THEN "CLOSE" ELSE kk.stat[u]]
      /\ h.prio = kk.prio /\ h.err = kk.err /\ h.armed = kk.armed /\ h.list = kk.list
      /\ h.group = kk.group /\ h.current = kk.current /\ h.lock = kk.lock
  BY HideFields
<1>2. ASSUME NEW x \in KernelState
      PROVE  /\ ChangePriority(x, t, p) =
                  IF x.stat[t] = "READY" THEN InsertThread(rm(x), t) ELSE np(x)
             /\ rm(x) \in KernelState
             /\ rm(x).prio = pr(x) /\ rm(x).stat = x.stat /\ rm(x).err = x.err
             /\ rm(x).armed = x.armed /\ rm(x).current = x.current /\ rm(x).lock = x.lock
             /\ rm(x).list = Unlink(x, t).list
             /\ rm(x).group = IF Unlink(x, t).list[x.prio[t]] = <<>>
                              THEN x.group \ {x.prio[t]} ELSE x.group
             /\ np(x) \in KernelState
             /\ np(x).prio = pr(x) /\ np(x).stat = x.stat /\ np(x).err = x.err
             /\ np(x).armed = x.armed /\ np(x).current = x.current /\ np(x).lock = x.lock
             /\ np(x).list = x.list /\ np(x).group = x.group
  <2> DEFINE y == RemoveThread(x, t)
             q == pr(x)
             z == rm(x)
             w == np(x)
  <2>1. /\ y \in KernelState
        /\ y.stat = x.stat /\ y.prio = x.prio /\ y.err = x.err /\ y.armed = x.armed
        /\ y.current = x.current /\ y.lock = x.lock /\ y.list = Unlink(x, t).list
        /\ y.group = IF Unlink(x, t).list[x.prio[t]] = <<>>
                     THEN x.group \ {x.prio[t]} ELSE x.group
    BY RemoveFields
  <2>2. q \in [Thread -> Prio]
    BY DEF KernelState
  <2>3. ChangePriority(x, t, p) = IF x.stat[t] = "READY" THEN InsertThread(z, t) ELSE w
    <3>1. z = [y EXCEPT !.prio[t] = p]
      <4>1. z = [y EXCEPT !.prio = [x.prio EXCEPT ![t] = p]]
        OBVIOUS
      <4> HIDE DEF y, z
      <4> QED
        BY <2>1, <4>1 DEF KernelState
    <3>2. w = [x EXCEPT !.prio[t] = p]
      BY DEF KernelState
    <3> HIDE DEF z, w
    <3> QED
      BY <3>1, <3>2 DEF ChangePriority, y
  <2>4. z = [y EXCEPT !.prio = q] /\ w = [x EXCEPT !.prio = q]
    OBVIOUS
  <2> HIDE DEF y, q, z, w
  <2>5. /\ z \in KernelState /\ z.prio = q /\ z.stat = y.stat /\ z.err = y.err
        /\ z.armed = y.armed /\ z.current = y.current /\ z.lock = y.lock
        /\ z.list = y.list /\ z.group = y.group
        /\ w \in KernelState /\ w.prio = q /\ w.stat = x.stat /\ w.err = x.err
        /\ w.armed = x.armed /\ w.current = x.current /\ w.lock = x.lock
        /\ w.list = x.list /\ w.group = x.group
    BY <2>1, <2>2, <2>4 DEF KernelState
  <2> QED
    BY <2>1, <2>3, <2>5 DEF q, z, w
<1>3. Unlink(h, t).list = Unlink(kk, t).list
  <2>1. ASSUME NEW x \in KernelState
        PROVE  Unlink(x, t).list = [l \in ListId |-> RemoveFirst(x.list[l], t)]
    BY DEF Unlink, KernelState
  <2>2. Unlink(kk, t).list = [l \in ListId |-> RemoveFirst(kk.list[l], t)]
    BY <2>1
  <2> HIDE DEF h
  <2>3. Unlink(h, t).list = [l \in ListId |-> RemoveFirst(h.list[l], t)]
    BY <1>1, <2>1
  <2> QED
    BY <1>1, <2>2, <2>3
<1> HIDE DEF pr, rm, np, h, r
<1>4. /\ r = IF kk.stat[t] = "READY" THEN InsertThread(rm(kk), t) ELSE np(kk)
      /\ ChangePriority(h, t, p) = IF h.stat[t] = "READY" THEN InsertThread(rm(h), t) ELSE np(h)
      /\ rm(kk) \in KernelState /\ rm(h) \in KernelState
      /\ np(kk) \in KernelState /\ np(h) \in KernelState
  BY <1>1, <1>2 DEF r
<1>5. Hide(rm(kk), D) = rm(h) /\ Hide(np(kk), D) = np(h)
  <2>1. pr(h) = pr(kk)
    BY <1>1 DEF pr
  <2>2. ASSUME NEW x \in KernelState
        PROVE  /\ Hide(x, D) \in KernelState
               /\ Hide(x, D).stat = [u \in Thread |-> IF u \in D THEN "CLOSE" ELSE x.stat[u]]
               /\ Hide(x, D).prio = x.prio /\ Hide(x, D).err = x.err
               /\ Hide(x, D).armed = x.armed /\ Hide(x, D).list = x.list
               /\ Hide(x, D).group = x.group /\ Hide(x, D).current = x.current
               /\ Hide(x, D).lock = x.lock
    BY HideFields
  <2>3. Hide(rm(kk), D) = rm(h)
    <3>1. /\ rm(kk).prio = pr(kk) /\ rm(kk).stat = kk.stat /\ rm(kk).err = kk.err
          /\ rm(kk).armed = kk.armed /\ rm(kk).current = kk.current /\ rm(kk).lock = kk.lock
          /\ rm(kk).list = Unlink(kk, t).list
          /\ rm(kk).group = IF Unlink(kk, t).list[kk.prio[t]] = <<>>
                            THEN kk.group \ {kk.prio[t]} ELSE kk.group
      BY <1>2
    <3>2. /\ rm(h).prio = pr(h) /\ rm(h).stat = h.stat /\ rm(h).err = h.err
          /\ rm(h).armed = h.armed /\ rm(h).current = h.current /\ rm(h).lock = h.lock
          /\ rm(h).list = Unlink(h, t).list
          /\ rm(h).group = IF Unlink(h, t).list[h.prio[t]] = <<>>
                           THEN h.group \ {h.prio[t]} ELSE h.group
      BY <1>1, <1>2
    <3>3. /\ Hide(rm(kk), D) \in KernelState
          /\ Hide(rm(kk), D).stat = [u \in Thread |-> IF u \in D THEN "CLOSE" ELSE rm(kk).stat[u]]
          /\ Hide(rm(kk), D).prio = rm(kk).prio /\ Hide(rm(kk), D).err = rm(kk).err
          /\ Hide(rm(kk), D).armed = rm(kk).armed /\ Hide(rm(kk), D).list = rm(kk).list
          /\ Hide(rm(kk), D).group = rm(kk).group /\ Hide(rm(kk), D).current = rm(kk).current
          /\ Hide(rm(kk), D).lock = rm(kk).lock
      BY <1>4, <2>2
    <3> QED
      BY <1>1, <1>3, <1>4, <2>1, <3>1, <3>2, <3>3, SameKernel
  <2>4. Hide(np(kk), D) = np(h)
    <3>1. /\ np(kk).prio = pr(kk) /\ np(kk).stat = kk.stat /\ np(kk).err = kk.err
          /\ np(kk).armed = kk.armed /\ np(kk).current = kk.current /\ np(kk).lock = kk.lock
          /\ np(kk).list = kk.list /\ np(kk).group = kk.group
      BY <1>2
    <3>2. /\ np(h).prio = pr(h) /\ np(h).stat = h.stat /\ np(h).err = h.err
          /\ np(h).armed = h.armed /\ np(h).current = h.current /\ np(h).lock = h.lock
          /\ np(h).list = h.list /\ np(h).group = h.group
      BY <1>1, <1>2
    <3>3. /\ Hide(np(kk), D) \in KernelState
          /\ Hide(np(kk), D).stat = [u \in Thread |-> IF u \in D THEN "CLOSE" ELSE np(kk).stat[u]]
          /\ Hide(np(kk), D).prio = np(kk).prio /\ Hide(np(kk), D).err = np(kk).err
          /\ Hide(np(kk), D).armed = np(kk).armed /\ Hide(np(kk), D).list = np(kk).list
          /\ Hide(np(kk), D).group = np(kk).group /\ Hide(np(kk), D).current = np(kk).current
          /\ Hide(np(kk), D).lock = np(kk).lock
      BY <1>4, <2>2
    <3> QED
      BY <1>1, <1>4, <2>1, <3>1, <3>2, <3>3, SameKernel
  <2> QED
    BY <2>3, <2>4
<1>6. InsertThread(Hide(rm(kk), D), t) = Hide(InsertThread(rm(kk), t), D)
      /\ InsertThread(rm(kk), t) \in KernelState
  <2> DEFINE v == rm(kk)
  <2> HIDE DEF v
  <2>1. v \in KernelState
    BY <1>4 DEF v
  <2>2. InsertThread(Hide(v, D), t) = Hide(InsertThread(v, t), D)
    BY <2>1, HideInsert
  <2>3. InsertThread(v, t) \in KernelState
    BY <2>1, InsertThins
  <2> QED
    BY <2>2, <2>3 DEF v
<1>7. h.stat[t] = kk.stat[t]
  BY <1>1
<1>8. r \in KernelState /\ Hide(r, D) = ChangePriority(h, t, p)
  BY <1>4, <1>5, <1>6, <1>7
<1>9. ToSet(r.list[Defunct]) \subseteq ToSet(RemoveFirst(kk.list[Defunct], t)) \/ r.list = kk.list
  <2>1. CASE kk.stat[t] = "READY"
    <3> DEFINE i == InsertThread(rm(kk), t)
    <3>1. r = i
      BY <1>4, <2>1
    <3>2. /\ t = rm(kk).current => i.list = rm(kk).list
          /\ t # rm(kk).current =>
               i.list = [rm(kk).list EXCEPT ![rm(kk).prio[t]] =
                           Append(rm(kk).list[rm(kk).prio[t]], t)]
      BY <1>4, InsertFields
    <3>3. rm(kk).prio[t] \in Prio /\ rm(kk).list = Unlink(kk, t).list
      BY <1>2, <1>4 DEF KernelState
    <3>4. i.list[Defunct] = Unlink(kk, t).list[Defunct]
      <4> HIDE DEF i
      <4> QED
        BY ZenonT(40), <3>2, <3>3, ListKinds, <1>4 DEF KernelState
    <3>5. Unlink(kk, t).list[Defunct] = RemoveFirst(kk.list[Defunct], t)
      BY ListKinds DEF Unlink, KernelState
    <3> QED
      BY <3>1, <3>4, <3>5
  <2>2. CASE kk.stat[t] # "READY"
    BY <1>2, <1>4, <2>2
  <2> QED
    BY <2>1, <2>2
<1> QED
  BY <1>8, <1>9 DEF r, h

LEMMA SaneChange ==
  ASSUME NEW kk, NEW D, Sane(kk, D), NEW t \in Thread \ D, NEW p \in Prio
  PROVE  LET r == ChangePriority(kk, t, p) IN
         /\ Sane(r, D)
         /\ r.stat = kk.stat /\ r.armed = kk.armed /\ r.current = kk.current /\ r.lock = kk.lock
         /\ On(r, Defunct) \subseteq On(kk, Defunct)
<1> DEFINE h == Hide(kk, D)
           r == ChangePriority(kk, t, p)
           g == ChangePriority(h, t, p)
<1>1. /\ kk \in KernelState /\ h \in KernelState /\ KernelOK(h) /\ kk.current \notin D
      /\ D \subseteq Thread
      /\ h.stat = [u \in Thread |-> IF u \in D THEN "CLOSE" ELSE kk.stat[u]]
      /\ h.prio = kk.prio /\ h.err = kk.err /\ h.armed = kk.armed /\ h.list = kk.list
      /\ h.group = kk.group /\ h.current = kk.current /\ h.lock = kk.lock
      /\ \A q \in Queue : On(h, q) = {}
  BY HideFields, ListKinds DEF Sane
<1>2. /\ r \in KernelState /\ Hide(r, D) = g
      /\ ToSet(r.list[Defunct]) \subseteq ToSet(RemoveFirst(kk.list[Defunct], t))
           \/ r.list = kk.list
  <2>1. kk \in KernelState
    BY <1>1
  <2> QED
    BY <2>1, HideChange
<1>3. /\ KernelOK(g) /\ g.stat = h.stat /\ g.armed = h.armed /\ g.current = h.current
      /\ g.lock = h.lock /\ \A q \in Queue : On(g, q) = On(h, q)
  <2> HIDE DEF h
  <2> QED
    BY ZenonT(40), <1>1, ChangePriorityOK
<1> HIDE DEF r, g, h
<1>4. /\ g.armed = r.armed /\ g.current = r.current /\ g.lock = r.lock
      /\ g.stat = [u \in Thread |-> IF u \in D THEN "CLOSE" ELSE r.stat[u]]
      /\ \A l \in ListId : On(g, l) = On(r, l)
  BY <1>2, HideFields
<1>5. Sane(r, D)
  BY <1>1, <1>2, <1>3, <1>4, ListKinds DEF Sane
<1>6. On(r, Defunct) \subseteq On(kk, Defunct)
  <2>1. IsInjective(kk.list[Defunct]) /\ kk.list[Defunct] \in Seq(Thread)
    BY <1>1, ListKinds, ListType, KernelOKParts DEF ListsAgree, OneList
  <2>2. ToSet(RemoveFirst(kk.list[Defunct], t)) = ToSet(kk.list[Defunct]) \ {t}
    BY <2>1, RemoveMembers
  <2> QED
    BY <1>2, <2>2 DEF On
<1>7. r.stat = kk.stat
  <2>1. ASSUME NEW x \in KernelState
        PROVE  /\ ChangePriority(x, t, p).stat =
                    IF x.stat[t] = "READY"
                    THEN [x.stat EXCEPT ![t] = IF t = x.current THEN "RUNNING" ELSE "READY"]
                    ELSE x.stat
    <3> DEFINE y == [RemoveThread(x, t) EXCEPT !.prio[t] = p]
    <3>1. /\ RemoveThread(x, t) \in KernelState /\ RemoveThread(x, t).stat = x.stat
          /\ RemoveThread(x, t).current = x.current
      BY RemoveFields
    <3>2. y \in KernelState /\ y.stat = x.stat /\ y.current = x.current
      <4> DEFINE z == RemoveThread(x, t)
      <4>1. z \in KernelState /\ z.stat = x.stat /\ z.current = x.current
        BY <3>1
      <4> HIDE DEF z
      <4>2. [z EXCEPT !.prio[t] = p] \in KernelState
            /\ [z EXCEPT !.prio[t] = p].stat = z.stat
            /\ [z EXCEPT !.prio[t] = p].current = z.current
        BY <4>1 DEF KernelState
      <4> QED
        BY <4>1, <4>2 DEF z
    <3>3. ChangePriority(x, t, p) =
            IF x.stat[t] = "READY" THEN InsertThread(y, t) ELSE [x EXCEPT !.prio[t] = p]
      BY DEF ChangePriority
    <3> HIDE DEF y
    <3>4. InsertThread(y, t).stat = [y.stat EXCEPT ![t] = IF t = y.current THEN "RUNNING" ELSE "READY"]
      BY <3>2, InsertFields
    <3>5. [x EXCEPT !.prio[t] = p].stat = x.stat
      BY DEF KernelState
    <3> QED
      BY <3>2, <3>3, <3>4, <3>5
  <2>2. r.stat = IF kk.stat[t] = "READY"
                 THEN [kk.stat EXCEPT ![t] = IF t = kk.current THEN "RUNNING" ELSE "READY"]
                 ELSE kk.stat
    BY <1>1, <2>1 DEF r
  <2>3. kk.stat[t] = "READY" => t # kk.current
    <3>1. h.stat[h.current] # "READY"
      BY <1>1, KernelOKParts DEF RunningIsCurrent
    <3> QED
      BY <1>1, <3>1
  <2> QED
    BY <1>1, <2>2, <2>3 DEF KernelState
<1> QED
  BY <1>1, <1>3, <1>4, <1>5, <1>6, <1>7 DEF r

-----------------------------------------------------------------------------
(* What a step does not do *)

Awake == {"READY", "RUNNING"}

(* From kk to r, the threads outside W may run or be preempted, nothing else. *)
Near(kk, r, W) ==
  \A u \in Thread \ W :
    /\ r.stat[u] = kk.stat[u] \/ (r.stat[u] \in Awake /\ kk.stat[u] \in Awake)
    /\ u \in r.armed <=> u \in kk.armed
    /\ u \in On(r, Defunct) => u \in On(kk, Defunct)
    /\ u = r.current => u = kk.current \/ kk.stat[u] = "READY"

(* A step touches the threads W and moves the calls of the threads A. *)
Frame(W, A) ==
  /\ Near(k, k', W)
  /\ \A u \in Thread \ W : u \in free' <=> u \in free
  /\ \A c \in Thread \ A : pc'[c] = pc[c]

Waking == {"resume_unlink", "resume_insert"}
Started == {"start_unlink", "start_insert"}
Asleep == {"sleep_sched", "sleep_return"}

(* It spares the threads that the other calls have in hand. *)
Spares(W, A) ==
  \A c \in Thread \ A :
    /\ pc[c].at \in Waking \cup Started \cup Deletion => pc[c].on \notin W
    /\ pc[c].at \in Started => pc[c].on \notin A
    /\ pc[c].at = "suspend_mask" =>
         pc[c].on \notin W \/ (pc[c].on \notin free' /\ k'.stat[pc[c].on] \in Living)
    /\ pc[c].at \in Deletion => c \notin W \/ k'.stat[c] \in Living
    /\ pc[c].at \in Asleep => c \notin W \/ k'.stat[c] # "SUSPEND"

CallOK(c) == Resuming(c) /\ Starting(c) /\ Suspending(c) /\ Removing(c) /\ Sleeping(c)

(* What a call that moves must see to *)
Own(c) ==
  /\ CallOK(c)'
  /\ pc'[c].at # "reap_free"
  /\ pc'[c].at \in Deletion /\ pc[Idle].at = "reap_free" => pc'[c].on # pc[Idle].on
  /\ k'.stat[c] = "INIT" => pc'[c] = User

(* What must be so of a thread that is touched *)
Touched(w) ==
  /\ w = Idle => k'.stat[w] \in Living
  /\ pc[Idle].at = "reap_free" => w # pc[Idle].on
  /\ k'.stat[w] = "INIT" => pc'[w] = User
  /\ w \in free' => k'.stat[w] = "CLOSE" /\ w \notin On(k', Defunct) /\ (w = k'.current => w \in Static)
  /\ k.stat[w] = "CLOSE" =>
       /\ k'.stat[w] = "CLOSE" \/ (w \in free /\ k'.stat[w] = "INIT")
       /\ w = k'.current => w = k.current

(* The steps that the two action properties allow *)
ClosedStep ==
  \A t \in Thread : k.stat[t] = "CLOSE" =>
    /\ k'.stat[t] = "CLOSE" \/ (t \in free /\ k'.stat[t] = "INIT")
    /\ t = k'.current => t = k.current
CriticalStep == k.lock > 0 => k'.current = k.current

Safe == ThreadInv' /\ ClosedStep /\ CriticalStep

(* The calls that do not move keep what they rely on. *)
LEMMA CallsKept ==
  ASSUME ThreadInv, TypeOK', NEW W \in SUBSET Thread, NEW A \in SUBSET Thread,
         Frame(W, A), Spares(W, A), NEW c \in Thread \ A
  PROVE  CallOK(c)'
<1>1. /\ pc[c] \in [at : Where, on : Thread \cup {Nobody}] /\ pc'[c] = pc[c]
      /\ Resuming(c) /\ Starting(c) /\ Suspending(c) /\ Removing(c) /\ Sleeping(c)
  BY DEF ThreadInv, TypeOK, CallsOK, Frame
<1>2. ASSUME NEW u \in Thread \ W
      PROVE  /\ u \in free' <=> u \in free
             /\ k'.stat[u] = "SUSPEND" <=> k.stat[u] = "SUSPEND"
             /\ k'.stat[u] = "CLOSE" <=> k.stat[u] = "CLOSE"
             /\ k.stat[u] \in Living => k'.stat[u] \in Living
             /\ u \in k'.armed <=> u \in k.armed
             /\ u \in On(k', Defunct) => u \in On(k, Defunct)
  BY DEF Frame, Near, Awake, Living
<1>3. /\ \A d \in Thread : Controls[d] \subseteq Thread /\ Deletes[d] \subseteq Thread
                           /\ Creates[d] \subseteq Thread
  BY ThreadAssumption
<1>4. Resuming(c)'
  <2> SUFFICES ASSUME pc[c].at \in Waking
               PROVE  pc[c].on \in Controls[c] \ free' /\ k'.stat[pc[c].on] = "SUSPEND"
    BY <1>1 DEF Resuming, Waking
  <2>1. pc[c].on \in Controls[c] \ free /\ k.stat[pc[c].on] = "SUSPEND"
    BY <1>1 DEF Resuming, Waking
  <2>2. pc[c].on \in Thread \ W
    BY <1>3, <2>1 DEF Spares
  <2> QED
    BY <1>2, <2>1, <2>2
<1>5. Starting(c)'
  <2> SUFFICES ASSUME pc[c].at \in Started
               PROVE  /\ pc[c].on \in Creates[c] \ free' /\ k'.stat[pc[c].on] = "SUSPEND"
                      /\ pc'[pc[c].on] = User /\ pc[c].on \notin k'.armed /\ pc[c].on # Idle
    BY <1>1 DEF Starting, Started
  <2>1. /\ pc[c].on \in Creates[c] \ free /\ k.stat[pc[c].on] = "SUSPEND"
        /\ pc[pc[c].on] = User /\ pc[c].on \notin k.armed /\ pc[c].on # Idle
    BY <1>1 DEF Starting, Started
  <2>2. pc[c].on \in Thread \ W /\ pc[c].on \in Thread \ A
    BY <1>3, <2>1 DEF Spares
  <2>3. pc'[pc[c].on] = pc[pc[c].on]
    BY <2>2 DEF Frame
  <2> QED
    BY <1>2, <2>1, <2>2, <2>3
<1>6. Suspending(c)'
  <2> SUFFICES ASSUME pc[c].at = "suspend_mask"
               PROVE  pc[c].on \in Controls[c] \ free' /\ pc[c].on # c /\ k'.stat[pc[c].on] \in Living
    BY <1>1 DEF Suspending
  <2>1. pc[c].on \in Controls[c] \ free /\ pc[c].on # c /\ k.stat[pc[c].on] \in Living
    BY <1>1 DEF Suspending
  <2>2. CASE pc[c].on \notin W
    BY <1>2, <1>3, <2>1, <2>2
  <2>3. CASE pc[c].on \notin free' /\ k'.stat[pc[c].on] \in Living
    BY <2>1, <2>3
  <2> QED
    BY <2>2, <2>3 DEF Spares
<1>7. Removing(c)'
  <2> SUFFICES ASSUME pc[c].at \in Deletion
               PROVE  /\ pc[c].on \in Deletes[c] \ free' /\ pc[c].on \notin On(k', Defunct)
                      /\ k'.stat[pc[c].on] = "CLOSE" <=> pc[c].at = "delete_insert"
                      /\ k'.stat[c] \in Living
    BY <1>1 DEF Removing, Deletion, On
  <2>1. /\ pc[c].on \in Deletes[c] \ free /\ pc[c].on \notin On(k, Defunct)
        /\ k.stat[pc[c].on] = "CLOSE" <=> pc[c].at = "delete_insert"
        /\ k.stat[c] \in Living
    BY <1>1 DEF Removing
  <2>2. pc[c].on \in Thread \ W /\ (c \notin W \/ k'.stat[c] \in Living)
    BY <1>3, <2>1 DEF Spares
  <2> QED
    BY <1>2, <2>1, <2>2
<1>8. Sleeping(c)'
  <2> SUFFICES ASSUME pc[c].at \in Asleep
               PROVE  c \in Sleepers /\ (k'.stat[c] = "SUSPEND" => c \in k'.armed)
    BY <1>1 DEF Sleeping, Asleep
  <2>1. c \in Sleepers /\ (k.stat[c] = "SUSPEND" => c \in k.armed)
    BY <1>1 DEF Sleeping, Asleep
  <2> QED
    BY <1>2, <2>1 DEF Spares
<1> QED
  BY <1>4, <1>5, <1>6, <1>7, <1>8 DEF CallOK

(* A step that is not the idle thread's *)
LEMMA StepKept ==
  ASSUME ThreadInv, NEW W \in SUBSET Thread, NEW A \in SUBSET (Thread \ {Idle}),
         TypeOK', Sane(k', Deleting'), Frame(W, A), Spares(W, A),
         \A c \in A : Own(c), \A w \in W : Touched(w),
         k'.armed \subseteq Sleepers, CriticalStep
  PROVE  Safe
<1>1. Idle \in Thread
  BY ThreadAssumption
<1>2. ASSUME NEW u \in Thread \ W
      PROVE  /\ u \in free' <=> u \in free
             /\ k'.stat[u] = k.stat[u] \/ (k'.stat[u] \in Awake /\ k.stat[u] \in Awake)
             /\ u \in On(k', Defunct) => u \in On(k, Defunct)
             /\ u = k'.current => u = k.current \/ k.stat[u] = "READY"
  BY DEF Frame, Near
<1>3. CallsOK'
  <2>1. ASSUME NEW c \in Thread PROVE CallOK(c)'
    BY CallsKept DEF Own
  <2> QED
    BY <2>1 DEF CallsOK, CallOK
<1>4. \A c \in Thread \ A : pc'[c] = pc[c]
  BY DEF Frame
<1>5. Reaping'
  <2>1. k'.stat[Idle] \in Living
    BY <1>1, <1>2 DEF Touched, ThreadInv, Reaping, Awake, Living
  <2>2. pc'[Idle] = User \/ pc'[Idle].at = "reap_free"
    BY <1>1, <1>4 DEF ThreadInv, Reaping
  <2>3. ASSUME NEW c \in Thread, pc'[c].at = "reap_free"
        PROVE  /\ c = Idle /\ pc'[c].on \in Thread \ free' /\ pc'[c].on # k'.current
               /\ k'.stat[pc'[c].on] = "CLOSE" /\ pc'[c].on \notin On(k', Defunct)
               /\ \A d \in Thread : pc'[d].at \in Deletion => pc'[d].on # pc'[c].on
    <3>1. c \notin A /\ pc'[c] = pc[c]
      BY <1>4, <2>3 DEF Own
    <3>2. /\ c = Idle /\ pc[c].on \in Thread \ free /\ pc[c].on # k.current
          /\ k.stat[pc[c].on] = "CLOSE" /\ pc[c].on \notin On(k, Defunct)
          /\ \A d \in Thread : pc[d].at \in Deletion => pc[d].on # pc[c].on
      BY <2>3, <3>1 DEF ThreadInv, Reaping
    <3>3. pc[c].on \in Thread \ W
      BY <2>3, <3>1, <3>2 DEF Touched
    <3>4. /\ pc[c].on \notin free' /\ pc[c].on # k'.current
          /\ k'.stat[pc[c].on] = "CLOSE" /\ pc[c].on \notin On(k', Defunct)
      BY <1>2, <3>2, <3>3 DEF Awake
    <3>5. ASSUME NEW d \in Thread, pc'[d].at \in Deletion PROVE pc'[d].on # pc[c].on
      <4>1. CASE d \in A
        BY <2>3, <3>1, <3>2, <3>5, <4>1 DEF Own
      <4>2. CASE d \notin A
        BY <1>4, <3>2, <3>5, <4>2
      <4> QED
        BY <4>1, <4>2
    <3> QED
      BY <3>1, <3>2, <3>4, <3>5
  <2> QED
    BY <2>1, <2>2, <2>3 DEF Reaping, On
<1>6. ThreadsOK'
  <2>1. ASSUME NEW t \in Thread, k'.stat[t] = "INIT" PROVE pc'[t] = User
    <3>1. CASE t \in A
      BY <2>1, <3>1 DEF Own
    <3>2. CASE t \in W
      BY <2>1, <3>2 DEF Touched
    <3>3. CASE t \notin A /\ t \notin W
      BY <1>2, <1>4, <2>1, <3>3 DEF ThreadInv, ThreadsOK, Awake
    <3> QED
      BY <3>1, <3>2, <3>3
  <2>2. ASSUME NEW t \in free'
        PROVE  k'.stat[t] = "CLOSE" /\ t \notin On(k', Defunct) /\ (t = k'.current => t \in Static)
    <3>1. CASE t \in W
      BY <2>2, <3>1 DEF Touched
    <3>2. CASE t \notin W
      <4>1. t \in Thread \ W /\ t \in free
        BY <1>2, <2>2, <3>2 DEF TypeOK
      <4>2. k.stat[t] = "CLOSE" /\ t \notin On(k, Defunct) /\ (t = k.current => t \in Static)
        BY <4>1 DEF ThreadInv, ThreadsOK
      <4> QED
        BY <1>2, <4>1, <4>2 DEF Awake
    <3> QED
      BY <3>1, <3>2
  <2> QED
    BY <2>1, <2>2 DEF ThreadsOK, On
<1>7. ClosedStep
  BY <1>2 DEF ClosedStep, Touched, Awake
<1> QED
  BY <1>3, <1>5, <1>6, <1>7 DEF Safe, ThreadInv, Sane, Deleting

-----------------------------------------------------------------------------
(* What the invariant says of the threads that calls have in hand *)

Half == {"delete_timer", "delete_close"}

LEMMA Inv ==
  ASSUME ThreadInv
  PROVE  /\ k \in KernelState /\ k.lock <= MaxNest /\ free \subseteq Thread /\ Idle \in Thread
         /\ pc \in [Thread -> [at : Where, on : Thread \cup {Nobody}]]
         /\ Sane(k, Deleting) /\ Deleting \subseteq Thread /\ k.current \in Thread \ Deleting
         /\ k.armed \subseteq Sleepers
         /\ \A t \in k.armed \ Deleting : k.stat[t] = "SUSPEND"
         /\ \A t \in On(k, Defunct) \ Deleting : k.stat[t] = "CLOSE"
         /\ \A t \in Thread \ Deleting : k.stat[t] = "RUNNING" => t = k.current /\ t \notin k.armed
         /\ \A t \in Thread : t \in Deleting <=>
              \E d \in Thread : pc[d].at \in Half /\ pc[d].on = t
<1>1. TypeOK /\ Sane(k, Deleting) /\ ThreadsOK
  BY DEF ThreadInv
<1>2. KernelConsistent(Hide(k, Deleting)) /\ k \in KernelState /\ Deleting \subseteq Thread
  BY <1>1 DEF Sane, KernelOK
<1>3. \A t \in Thread : Hide(k, Deleting).stat[t] = IF t \in Deleting THEN "CLOSE" ELSE k.stat[t]
  BY <1>1, SaneSeen
<1>4. /\ Hide(k, Deleting).current = k.current /\ Hide(k, Deleting).armed = k.armed
      /\ On(Hide(k, Deleting), Defunct) = On(k, Defunct) /\ On(k, Defunct) \subseteq Thread
  BY <1>1, <1>2, SaneSeen, ListKinds, ListType
<1>5. k.current \in Thread /\ k.armed \subseteq Thread
  BY <1>2 DEF KernelState
<1>6. \A t \in k.armed \ Deleting : k.stat[t] = "SUSPEND"
  BY <1>2, <1>3, <1>4, <1>5 DEF KernelConsistent, TimersForSuspended
<1>7. \A t \in On(k, Defunct) \ Deleting : k.stat[t] = "CLOSE"
  BY <1>2, <1>3, <1>4 DEF KernelConsistent, WaitersSuspended
<1>8. \A t \in Thread \ Deleting : k.stat[t] = "RUNNING" => t = k.current
  BY <1>2, <1>3, <1>4 DEF KernelConsistent, RunningIsCurrent
<1>9. \A t \in Thread : t \in Deleting <=> \E d \in Thread : pc[d].at \in Half /\ pc[d].on = t
  BY DEF Deleting, Half
<1> QED
  BY <1>1, <1>2, <1>5, <1>6, <1>7, <1>8, <1>9, ThreadAssumption DEF TypeOK, Sane, ThreadsOK

(* A call only has threads in hand that its thread manages. *)
LEMMA InHand ==
  ASSUME Disciplined, ThreadInv, NEW d \in Thread,
         pc[d].at \in Waking \cup Started \cup Deletion \cup {"suspend_mask"}
  PROVE  /\ pc[d].on \in Thread \ free
         /\ \A c \in Thread \ {d} : pc[d].on \notin Manages(c)
         /\ pc[d].at \in Waking \cup Started => k.stat[pc[d].on] = "SUSPEND"
         /\ pc[d].at \in Waking \cup {"suspend_mask"} =>
              pc[d].on \notin Sleepers \cup Signalled \cup Exiting
         /\ pc[d].at \in Deletion => pc[d].on \notin Sleepers \cup Signalled \cup {Idle}
<1>1. Resuming(d) /\ Starting(d) /\ Suspending(d) /\ Removing(d)
  BY DEF ThreadInv, CallsOK
<1>2. /\ Controls[d] \subseteq Thread /\ Deletes[d] \subseteq Thread /\ Creates[d] \subseteq Thread
  BY ThreadAssumption
<1>3. /\ \A c \in Thread \ {d} : Manages(d) \cap Manages(c) = {}
      /\ Controls[d] \cap (Sleepers \cup Signalled \cup Exiting) = {}
      /\ Deletes[d] \cap (Sleepers \cup Signalled \cup {Idle}) = {}
  BY DEF Disciplined
<1>4. pc[d].on \in Manages(d) /\ pc[d].on \in Thread \ free
  BY <1>1, <1>2 DEF Resuming, Starting, Suspending, Removing, Waking, Started, Manages
<1>5. /\ pc[d].at \in Waking \cup Started => k.stat[pc[d].on] = "SUSPEND"
      /\ pc[d].at \in Waking \cup {"suspend_mask"} => pc[d].on \in Controls[d]
      /\ pc[d].at \in Deletion => pc[d].on \in Deletes[d]
  BY <1>1 DEF Resuming, Starting, Suspending, Removing, Waking, Started
<1> QED
  BY <1>3, <1>4, <1>5

(* A thread is being deleted only by its manager. *)
LEMMA NotDeleting ==
  ASSUME Disciplined, ThreadInv, NEW c \in Thread, NEW t \in Manages(c), pc[c].at \notin Half
  PROVE  t \notin Deleting
<1> SUFFICES ASSUME NEW d \in Thread, pc[d].at \in Half, pc[d].on = t
             PROVE  FALSE
  BY DEF Deleting, Half
<1>1. d # c /\ pc[d].at \in Deletion
  BY DEF Half, Deletion
<1> QED
  BY <1>1, InHand

(* Which threads are being deleted changes with a deletion only. *)
LEMMA SameDeleting ==
  ASSUME \A d \in Thread : \/ pc'[d] = pc[d]
                           \/ pc'[d].at \notin Half /\ pc[d].at \notin Half
                           \/ pc'[d].at \in Half /\ pc[d].at \in Half /\ pc'[d].on = pc[d].on
  PROVE  Deleting' = Deleting
BY DEF Deleting, Half

(* The thread that acts is in its own program or in a call. *)
Acts(c) == c \in Thread \ {Idle} /\ c = k.current /\ (k.stat[c] = "RUNNING" \/ pc[c] # User)

LEMMA CallActs ==
  ASSUME ThreadInv, NEW c \in Thread, NEW a, a \notin {"user", "reap_free"}, At(c, a)
  PROVE  Acts(c)
<1>1. pc[Idle] = User \/ pc[Idle].at = "reap_free"
  BY DEF ThreadInv, Reaping
<1>2. User.at = "user"
  BY DEF User
<1> QED
  BY <1>1, <1>2 DEF Acts, At

LEMMA UserActs ==
  ASSUME ThreadInv, NEW c \in Thread, Runs(c)
  PROVE  Acts(c) /\ pc[c].at = "user" /\ k.stat[c] = "RUNNING" /\ c \notin Deleting
BY Inv DEF Acts, Runs, User

(* A step in which the thread c goes on with its call and nothing is done   *)
(* to a thread.                                                             *)
LEMMA Quiet ==
  ASSUME ThreadInv, NEW c, Acts(c), TypeOK', Sane(k', Deleting'), Frame({}, {c}), CriticalStep,
         CallOK(c)', pc'[c].at # "reap_free",
         pc'[c].at \in Deletion =>
           \/ pc[c].at \in Deletion /\ pc'[c].on = pc[c].on
           \/ k.stat[pc'[c].on] # "CLOSE"
  PROVE  Safe
<1>1. c \in Thread /\ c # Idle
  BY DEF Acts
<1>2. k.stat[c] # "INIT"
  BY DEF Acts, ThreadInv, ThreadsOK
<1>3. k'.stat[c] # "INIT"
  BY <1>1, <1>2 DEF Frame, Near, Awake
<1>4. k'.armed \subseteq Sleepers
  <2>1. k'.armed \subseteq Thread
    BY DEF TypeOK, KernelState
  <2> QED
    BY <2>1, Inv DEF Frame, Near
<1>5. Spares({}, {c})
  <2>1. ASSUME NEW d \in Thread, pc[d].at \in Started PROVE pc[d].on # c
    BY <2>1 DEF ThreadInv, CallsOK, Starting, Started, Acts
  <2> QED
    BY <2>1 DEF Spares
<1>6. Own(c)
  <2>1. ASSUME pc'[c].at \in Deletion, pc[Idle].at = "reap_free" PROVE pc'[c].on # pc[Idle].on
    <3>1. k.stat[pc[Idle].on] = "CLOSE" /\ \A d \in Thread : pc[d].at \in Deletion => pc[d].on # pc[Idle].on
      BY <2>1, Inv DEF ThreadInv, Reaping
    <3> QED
      BY <1>1, <2>1, <3>1
  <2> QED
    BY <1>3, <2>1 DEF Own
<1> QED
  BY <1>1, <1>4, <1>5, <1>6, StepKept

(* A step of no thread *)
LEMMA QuietIsr ==
  ASSUME ThreadInv, TypeOK', Sane(k', Deleting'), Frame({}, {}), CriticalStep
  PROVE  Safe
<1>1. k'.armed \subseteq Sleepers
  <2>1. k'.armed \subseteq Thread
    BY DEF TypeOK, KernelState
  <2> QED
    BY <2>1, Inv DEF Frame, Near
<1>2. Spares({}, {})
  BY DEF Spares
<1> QED
  BY <1>1, <1>2, StepKept

LEMMA NearSame ==
  ASSUME NEW kk, NEW r, r.stat = kk.stat, r.armed = kk.armed, r.current = kk.current,
         On(r, Defunct) \subseteq On(kk, Defunct), NEW W
  PROVE  Near(kk, r, W)
BY DEF Near

LEMMA NearSwitch ==
  ASSUME NEW kk, NEW r, Switches(kk, r), NEW W
  PROVE  Near(kk, r, W)
BY DEF Near, Switches, Awake

(* rt_schedule *)
LEMMA ScheduleNear ==
  ASSUME ThreadInv, k' = Schedule(k)
  PROVE  /\ Sane(k', Deleting) /\ k' \in KernelState /\ k'.lock = k.lock
         /\ \A W : Near(k, k', W)
         /\ CriticalStep
<1>1. Sane(k', Deleting) /\ Switches(k, k')
  BY Inv, SaneSchedule
<1>2. \A W : Near(k, k', W)
  BY <1>1, NearSwitch
<1>3. k' \in KernelState /\ k'.lock = k.lock
  BY <1>1 DEF Sane, Switches
<1>4. CriticalStep
  BY <1>1, Inv DEF Switches, CriticalStep, KernelState
<1> QED
  BY <1>1, <1>2, <1>3, <1>4

LEMMA Goes ==
  ASSUME ThreadInv, NEW c \in Thread, NEW a \in Where, NEW t \in Thread \cup {Nobody}, Goto(c, a, t)
  PROVE  /\ pc' \in [Thread -> [at : Where, on : Thread \cup {Nobody}]]
         /\ pc'[c].at = a /\ pc'[c].on = t
         /\ \A d \in Thread \ {c} : pc'[d] = pc[d]
<1> DEFINE v == [at |-> a, on |-> t]
<1>1. v \in [at : Where, on : Thread \cup {Nobody}] /\ v.at = a /\ v.on = t
  OBVIOUS
<1>2. pc' = [pc EXCEPT ![c] = v]
  BY DEF Goto
<1> HIDE DEF v
<1> QED
  BY <1>1, <1>2, Inv

LEMMA Returns ==
  ASSUME ThreadInv, NEW c \in Thread, Return(c)
  PROVE  /\ pc' \in [Thread -> [at : Where, on : Thread \cup {Nobody}]]
         /\ pc'[c] = User /\ pc'[c].at = "user"
         /\ \A d \in Thread \ {c} : pc'[d] = pc[d]
<1>1. User \in [at : Where, on : Thread \cup {Nobody}] /\ User.at = "user"
  BY DEF User, Where
<1>2. pc' = [pc EXCEPT ![c] = User]
  BY DEF Return
<1> QED
  BY <1>1, <1>2, Inv

(* In its own program or in rt_schedule a thread has nothing in hand. *)
Idling == {"user", "schedule", "suspend_sched", "exit_sched"}

LEMMA NothingInHand ==
  ASSUME NEW c, pc'[c].at \in Idling
  PROVE  CallOK(c)'
BY DEF CallOK, Resuming, Starting, Suspending, Removing, Sleeping, Idling, Deletion

LEMMA QuietGoto ==
  ASSUME ThreadInv, NEW c \in Thread, Acts(c), pc[c].at \notin Half,
         NEW a \in Where, a \notin Deletion, a # "reap_free",
         NEW t \in Thread \cup {Nobody}, Goto(c, a, t),
         free' = free, k' \in KernelState, k'.lock <= MaxNest,
         Near(k, k', {}), Sane(k', Deleting), CriticalStep, CallOK(c)'
  PROVE  Safe
<1>1. /\ pc' \in [Thread -> [at : Where, on : Thread \cup {Nobody}]]
      /\ pc'[c].at = a /\ \A d \in Thread \ {c} : pc'[d] = pc[d]
  BY Goes
<1>2. TypeOK'
  BY <1>1, Inv DEF TypeOK
<1>3. Deleting' = Deleting
  <2>1. a \notin Half
    BY DEF Half, Deletion
  <2> QED
    BY <1>1, <2>1, SameDeleting
<1>4. Frame({}, {c})
  BY <1>1 DEF Frame
<1> QED
  BY <1>1, <1>2, <1>3, <1>4, Quiet

LEMMA QuietReturn ==
  ASSUME ThreadInv, NEW c \in Thread, Acts(c), pc[c].at \notin Half, Return(c),
         free' = free, k' \in KernelState, k'.lock <= MaxNest,
         Near(k, k', {}), Sane(k', Deleting), CriticalStep
  PROVE  Safe
<1>1. Goto(c, "user", Nobody) /\ "user" \in Where
  BY DEF Return, Goto, User, Where
<1>2. pc'[c].at = "user"
  BY Returns
<1>3. CallOK(c)'
  BY <1>2, NothingInHand DEF Idling
<1>4. "user" \notin Deletion
  BY DEF Deletion
<1> QED
  BY <1>1, <1>3, <1>4, QuietGoto

LEMMA QuietStay ==
  ASSUME ThreadInv, pc' = pc, free' = free, k' \in KernelState, k'.lock <= MaxNest,
         Near(k, k', {}), Sane(k', Deleting), CriticalStep
  PROVE  Safe
<1>1. Deleting' = Deleting
  BY SameDeleting
<1>2. TypeOK'
  BY Inv DEF TypeOK
<1>3. Frame({}, {})
  BY DEF Frame
<1> QED
  BY <1>1, <1>2, <1>3, QuietIsr

-----------------------------------------------------------------------------
(* The steps that do nothing to a thread *)

LEMMA RescheduleSafe ==
  ASSUME ThreadInv, k' = Schedule(k), UNCHANGED <<pc, free>>
  PROVE  Safe
BY ScheduleNear, Inv, QuietStay

LEMMA CallScheduleSafe ==
  ASSUME ThreadInv, NEW c \in Thread, CallSchedule(c)
  PROVE  Safe
<1>1. Acts(c) /\ pc[c].at \notin Half
  BY CallActs DEF CallSchedule, At, Half
<1>2. k' = Schedule(k) /\ Return(c) /\ free' = free
  BY DEF CallSchedule
<1> QED
  BY <1>1, <1>2, ScheduleNear, Inv, QuietReturn

LEMMA SleepScheduleSafe ==
  ASSUME ThreadInv, NEW c \in Thread, SleepSchedule(c)
  PROVE  Safe
<1>1. Acts(c) /\ pc[c].at = "sleep_sched"
  BY CallActs DEF SleepSchedule, At
<1>2. k' = Schedule(k) /\ Goto(c, "sleep_return", Nobody) /\ free' = free
  BY DEF SleepSchedule
<1>3. "sleep_return" \in Where /\ "sleep_return" \notin Deletion /\ pc[c].at \notin Half
  BY <1>1 DEF Where, Deletion, Half
<1>4. pc'[c].at = "sleep_return"
  BY <1>2, <1>3, Goes
<1>5. /\ Sane(k', Deleting) /\ k' \in KernelState /\ k'.lock = k.lock
      /\ Near(k, k', {}) /\ CriticalStep
  BY <1>2, ScheduleNear
<1>6. c \in Sleepers /\ (k'.stat[c] = "SUSPEND" => c \in k'.armed)
  BY <1>1, <1>5 DEF ThreadInv, CallsOK, Sleeping, Near, Awake
<1>7. CallOK(c)'
  BY <1>4, <1>6 DEF CallOK, Resuming, Starting, Suspending, Removing, Sleeping, Deletion
<1> QED
  BY <1>1, <1>2, <1>3, <1>5, <1>7, Inv, QuietGoto

LEMMA ExitScheduleSafe ==
  ASSUME ThreadInv, NEW c \in Thread, ExitSchedule(c)
  PROVE  Safe
BY RescheduleSafe DEF ExitSchedule

(* A kernel in which only what no list, timer or state depends on has changed *)
LEMMA FieldsNear ==
  ASSUME ThreadInv, k' \in KernelState, k'.list = k.list, k'.group = k.group, k'.prio = k.prio,
         k'.current = k.current, k'.armed = k.armed, k'.stat = k.stat
  PROVE  Sane(k', Deleting) /\ Near(k, k', {}) /\ CriticalStep
<1>1. /\ Hide(k', Deleting).stat = [t \in Thread |-> IF t \in Deleting THEN "CLOSE" ELSE k'.stat[t]]
      /\ Hide(k, Deleting).stat = [t \in Thread |-> IF t \in Deleting THEN "CLOSE" ELSE k.stat[t]]
  BY Inv, HideFields
<1>2. Hide(k', Deleting).stat = Hide(k, Deleting).stat
  BY <1>1
<1>3. Sane(k', Deleting) /\ On(k', Defunct) = On(k, Defunct)
  BY <1>2, Inv, SaneFrame
<1>4. Near(k, k', {})
  BY <1>3, NearSame
<1> QED
  BY <1>3, <1>4 DEF CriticalStep

LEMMA SleepEndSafe ==
  ASSUME ThreadInv, NEW c \in Thread, SleepEnd(c)
  PROVE  Safe
<1>1. Acts(c) /\ pc[c].at \notin Half
  BY CallActs DEF SleepEnd, At, Half
<1>2. k' = SleepReturn(k, c) /\ Return(c) /\ free' = free
  BY DEF SleepEnd
<1>3. /\ k' \in KernelState /\ k'.list = k.list /\ k'.group = k.group /\ k'.prio = k.prio
      /\ k'.current = k.current /\ k'.armed = k.armed /\ k'.stat = k.stat /\ k'.lock = k.lock
  <2> DEFINE e == [k.err EXCEPT ![c] = "EOK"]
  <2>1. k' = k \/ k' = [k EXCEPT !.err = e]
    BY <1>2 DEF SleepReturn
  <2>2. k \in KernelState
    BY Inv
  <2>3. e \in [Thread -> Err]
    BY <2>2 DEF KernelState, Err
  <2> HIDE DEF e
  <2> QED
    BY <2>1, <2>2, <2>3 DEF KernelState
<1> QED
  BY <1>1, <1>2, <1>3, FieldsNear, Inv, QuietReturn

LEMMA EnterCriticalSafe ==
  ASSUME ThreadInv, NEW c \in Thread, EnterCritical(c)
  PROVE  Safe
<1>1. k' = [k EXCEPT !.lock = @ + 1] /\ k.lock < MaxNest /\ pc' = pc /\ free' = free
  BY DEF EnterCritical
<1>2. /\ k' \in KernelState /\ k'.list = k.list /\ k'.group = k.group /\ k'.prio = k.prio
      /\ k'.current = k.current /\ k'.armed = k.armed /\ k'.stat = k.stat /\ k'.lock = k.lock + 1
  <2> DEFINE n == k.lock + 1
  <2>1. k \in KernelState
    BY Inv
  <2>2. k' = [k EXCEPT !.lock = n]
    BY <1>1
  <2>3. n \in Nat
    BY <2>1 DEF KernelState
  <2> HIDE DEF n
  <2>4. /\ k' \in KernelState /\ k'.list = k.list /\ k'.group = k.group /\ k'.prio = k.prio
        /\ k'.current = k.current /\ k'.armed = k.armed /\ k'.stat = k.stat /\ k'.lock = n
    BY <2>1, <2>2, <2>3 DEF KernelState
  <2> QED
    BY <2>4 DEF n
<1>3. k'.lock <= MaxNest
  BY <1>1, <1>2, Inv, ThreadAssumption DEF KernelState
<1> QED
  BY <1>1, <1>2, <1>3, FieldsNear, QuietStay

LEMMA ExitCriticalSafe ==
  ASSUME ThreadInv, NEW c \in Thread, ExitCritical(c)
  PROVE  Safe
<1>1. /\ k' = [k EXCEPT !.lock = IF @ <= 1 THEN 0 ELSE @ - 1] /\ free' = free
      /\ IF k.lock <= 1 THEN Goto(c, "schedule", Nobody) ELSE UNCHANGED pc
      /\ Acts(c) /\ pc[c].at = "user"
  BY UserActs DEF ExitCritical
<1>2. /\ k' \in KernelState /\ k'.list = k.list /\ k'.group = k.group /\ k'.prio = k.prio
      /\ k'.current = k.current /\ k'.armed = k.armed /\ k'.stat = k.stat
      /\ k'.lock = IF k.lock <= 1 THEN 0 ELSE k.lock - 1
  BY <1>1, Inv DEF KernelState
<1>3. k'.lock <= MaxNest
  BY <1>2, Inv, ThreadAssumption DEF KernelState
<1>4. CASE k.lock <= 1
  <2>1. Goto(c, "schedule", Nobody) /\ "schedule" \in Where /\ "schedule" \notin Deletion
        /\ pc[c].at \notin Half
    BY <1>1, <1>4 DEF Where, Deletion, Half
  <2>2. pc'[c].at = "schedule"
    BY <2>1, Goes
  <2>3. CallOK(c)'
    BY <2>2, NothingInHand DEF Idling
  <2> QED
    BY <1>1, <1>2, <1>3, <2>1, <2>3, FieldsNear, QuietGoto
<1>5. CASE ~(k.lock <= 1)
  BY <1>1, <1>2, <1>3, <1>5, FieldsNear, QuietStay
<1> QED
  BY <1>4, <1>5

LEMMA ResumeTestSafe ==
  ASSUME ThreadInv, NEW c \in Thread, NEW t \in Thread, ResumeTest(c, t)
  PROVE  Safe
<1>1. /\ Acts(c) /\ pc[c].at = "user" /\ k' = k /\ free' = free
      /\ Goto(c, "resume_unlink", t) /\ t \in Controls[c] \ free /\ k.stat[t] = "SUSPEND"
  BY UserActs DEF ResumeTest
<1>2. "resume_unlink" \in Where /\ "resume_unlink" \notin Deletion /\ pc[c].at \notin Half
  BY <1>1 DEF Where, Deletion, Half
<1>3. pc'[c].at = "resume_unlink" /\ pc'[c].on = t
  BY <1>1, <1>2, Goes
<1>4. CallOK(c)'
  BY <1>1, <1>3 DEF CallOK, Resuming, Starting, Suspending, Removing, Sleeping, Deletion
<1>5. k' \in KernelState /\ k'.lock <= MaxNest
  BY <1>1, Inv
<1>6. Sane(k', Deleting) /\ Near(k, k', {}) /\ CriticalStep
  BY <1>1, <1>5, FieldsNear
<1> QED
  BY <1>1, <1>2, <1>4, <1>5, <1>6, QuietGoto

LEMMA SuspendTestSafe ==
  ASSUME ThreadInv, NEW c \in Thread, NEW t \in Thread, SuspendTest(c, t)
  PROVE  Safe
<1>1. /\ Acts(c) /\ pc[c].at = "user" /\ k' = k /\ free' = free /\ k.stat[c] = "RUNNING"
      /\ Goto(c, "suspend_mask", t) /\ t \in Controls[c] \ free /\ k.stat[t] = "READY"
  BY UserActs DEF SuspendTest
<1>2. "suspend_mask" \in Where /\ "suspend_mask" \notin Deletion /\ pc[c].at \notin Half
  BY <1>1 DEF Where, Deletion, Half
<1>3. pc'[c].at = "suspend_mask" /\ pc'[c].on = t
  BY <1>1, <1>2, Goes
<1>4. CallOK(c)'
  BY <1>1, <1>3 DEF CallOK, Resuming, Starting, Suspending, Removing, Sleeping, Deletion, Living
<1>5. k' \in KernelState /\ k'.lock <= MaxNest
  BY <1>1, Inv
<1>6. Sane(k', Deleting) /\ Near(k, k', {}) /\ CriticalStep
  BY <1>1, <1>5, FieldsNear
<1> QED
  BY <1>1, <1>2, <1>4, <1>5, <1>6, QuietGoto

LEMMA SetPrioritySafe ==
  ASSUME Disciplined, ThreadInv, NEW c \in Thread, NEW t \in Thread, SetPriority(c, t)
  PROVE  Safe
<1>1. /\ pc[c].at = "user" /\ t \in Controls[c] /\ pc' = pc /\ free' = free
      /\ \E p \in Prio : k' = ChangePriority(k, t, p)
  BY UserActs DEF SetPriority
<1>2. t \in Thread \ Deleting
  BY <1>1, NotDeleting DEF Manages, Half
<1>3. PICK p \in Prio : k' = ChangePriority(k, t, p)
  BY <1>1
<1>4. Sane(k, Deleting)
  BY Inv
<1>5. /\ Sane(k', Deleting) /\ k'.stat = k.stat /\ k'.armed = k.armed /\ k'.current = k.current
      /\ k'.lock = k.lock /\ On(k', Defunct) \subseteq On(k, Defunct)
  BY <1>2, <1>3, <1>4, SaneChange
<1>6. Near(k, k', {}) /\ CriticalStep
  BY <1>5, NearSame DEF CriticalStep
<1>7. k' \in KernelState /\ k'.lock <= MaxNest
  BY <1>5, Inv DEF Sane
<1> QED
  BY <1>1, <1>5, <1>6, <1>7, QuietStay

(* The masked part of rt_thread_resume with the timer stopped, and          *)
(* rt_list_remove alone                                                     *)
LEMMA UnlinkIs ==
  ASSUME NEW kk \in KernelState, NEW t
  PROVE  /\ [Unlink(kk, t) EXCEPT !.armed = @ \ {t}] = Detach(kk, t, kk.err, kk.armed \ {t})
         /\ Unlink(kk, t) = Detach(kk, t, kk.err, kk.armed)
<1> DEFINE u == Unlink(kk, t)
<1>1. u \in KernelState
  BY UnlinkThins
<1>2. u.err = kk.err /\ u.armed = kk.armed
  BY DEF Unlink, KernelState
<1> HIDE DEF u
<1>3. /\ [u EXCEPT !.armed = @ \ {t}] = [u EXCEPT !.err = kk.err, !.armed = kk.armed \ {t}]
      /\ u = [u EXCEPT !.err = kk.err, !.armed = kk.armed]
  BY <1>1, <1>2 DEF KernelState
<1> QED
  BY <1>3 DEF u, Detach

LEMMA ResumeUnlinkSafe ==
  ASSUME Disciplined, ThreadInv, NEW c \in Thread, NEW from, NEW to,
         <<from, to>> = <<"resume_unlink", "resume_insert">> \/ <<from, to>> = <<"start_unlink", "start_insert">>,
         ResumeUnlink(c, from, to)
  PROVE  Safe
<1> DEFINE t == pc[c].on
<1>1. /\ c = k.current /\ pc[c].at = from /\ free' = free
      /\ k' = [Unlink(k, t) EXCEPT !.armed = @ \ {t}] /\ Goto(c, to, t)
  BY DEF ResumeUnlink, At
<1>2. Acts(c)
  BY CallActs DEF ResumeUnlink
<1>3. /\ pc[c].at \in Waking \cup Started /\ pc[c].at \notin Half
      /\ to \in Where /\ to \notin Deletion /\ to # "reap_free"
  BY <1>1 DEF Waking, Started, Half, Where, Deletion
<1>4. t \in Thread \ free /\ k.stat[t] = "SUSPEND"
  BY <1>3, InHand
<1>5. t \notin k.armed
  <2>1. CASE pc[c].at \in Waking
    BY <2>1, <1>3, InHand, Inv
  <2>2. CASE pc[c].at \in Started
    BY <2>2 DEF ThreadInv, CallsOK, Starting, Started
  <2> QED
    BY <1>3, <2>1, <2>2
<1>6. k \in KernelState /\ k.err \in [Thread -> Err] /\ Sane(k, Deleting)
  <2>1. k \in KernelState /\ Sane(k, Deleting)
    BY Inv
  <2> QED
    BY <2>1 DEF KernelState
<1>7. k' = Detach(k, t, k.err, k.armed \ {t})
  BY <1>1, <1>6, UnlinkIs
<1>8. /\ Sane(k', Deleting) /\ k'.stat = k.stat /\ k'.armed = k.armed \ {t}
      /\ k'.current = k.current /\ k'.lock = k.lock /\ On(k', Defunct) = On(k, Defunct) \ {t}
  <2>1. k.armed \ {t} \in SUBSET k.armed /\ k.stat[t] # "READY"
    BY <1>4
  <2> QED
    BY <1>4, <1>6, <1>7, <2>1, SaneUnlink
<1>9. Near(k, k', {}) /\ CriticalStep /\ k' \in KernelState /\ k'.lock <= MaxNest
  <2>1. k'.armed = k.armed /\ On(k', Defunct) \subseteq On(k, Defunct)
    BY <1>5, <1>8
  <2>2. Near(k, k', {})
    BY <1>8, <2>1, NearSame
  <2> QED
    BY <1>8, <2>2, Inv DEF CriticalStep, Sane
<1>10. pc'[c].at = to /\ pc'[c].on = t /\ \A d \in Thread \ {c} : pc'[d] = pc[d]
  BY <1>1, <1>3, <1>4, Goes
<1>11. CallOK(c)'
  <2>1. CASE to = "resume_insert"
    <3>1. t \in Controls[c] \ free
      BY <1>1, <2>1 DEF ThreadInv, CallsOK, Resuming
    <3> QED
      BY <1>1, <1>4, <1>8, <1>10, <2>1, <3>1
      DEF CallOK, Resuming, Starting, Suspending, Removing, Sleeping, Deletion
  <2>2. CASE to = "start_insert"
    <3>1. t \in Creates[c] \ free /\ pc[t] = User /\ t # Idle
      BY <1>1, <2>2 DEF ThreadInv, CallsOK, Starting
    <3>2. t # c
      BY <1>1, <2>2, <3>1 DEF User
    <3>3. pc'[t] = User /\ t \notin k'.armed /\ k'.stat[t] = "SUSPEND"
      BY <1>4, <1>5, <1>8, <1>10, <3>1, <3>2
    <3> HIDE DEF t
    <3> QED
      BY <1>1, <1>10, <2>2, <3>1, <3>3
      DEF CallOK, Resuming, Starting, Suspending, Removing, Sleeping, Deletion
  <2> QED
    BY <2>1, <2>2
<1> HIDE DEF t
<1> QED
  BY <1>1, <1>2, <1>3, <1>4, <1>8, <1>9, <1>11, QuietGoto

(* The steps of a deletion do nothing to the thread until it is closed. *)
LEMMA DeleteSafe ==
  ASSUME Disciplined, ThreadInv, NEW c \in Thread, NEW t \in Thread, Delete(c, t)
  PROVE  Safe
<1> DEFINE D == Deleting
<1>1. /\ Acts(c) /\ pc[c].at = "user" /\ free' = free /\ k.stat[c] = "RUNNING" /\ c = k.current
      /\ Goto(c, "delete_timer", t) /\ t \in Deletes[c] \ free /\ k.stat[t] # "CLOSE"
      /\ k' = IF k.stat[t] # "INIT" THEN RemoveThread(k, t) ELSE k
  BY UserActs DEF Delete, Acts
<1>2. /\ k \in KernelState /\ Sane(k, D) /\ D \subseteq Thread /\ k.armed \subseteq Sleepers
      /\ \A u \in On(k, Defunct) \ D : k.stat[u] = "CLOSE"
      /\ \A u \in Thread : u \in D <=> \E d \in Thread : pc[d].at \in Half /\ pc[d].on = u
  BY Inv
<1>3. t \notin D /\ t # c /\ t \notin k.armed
  <2>1. t \notin D
    BY <1>1, NotDeleting DEF Manages, Half
  <2>2. t # c
    BY <1>1 DEF Disciplined
  <2>3. t \notin Sleepers
    BY <1>1 DEF Disciplined
  <2> QED
    BY <1>2, <2>1, <2>2, <2>3
<1> HIDE DEF D
<1>4. /\ Sane(k', D \cup {t}) /\ k'.stat = k.stat /\ k'.armed = k.armed
      /\ k'.current = k.current /\ k'.lock = k.lock /\ On(k', Defunct) = On(k, Defunct) \ {t}
  <2>1. CASE k.stat[t] = "INIT"
    <3>1. k' = k /\ t \notin On(k, Defunct)
      BY <1>1, <1>2, <1>3, <2>1
    <3>2. Hide(k, D \cup {t}).stat = [Hide(k, D).stat EXCEPT ![t] = "CLOSE"]
      <4>1. /\ Hide(k, D \cup {t}).stat = [u \in Thread |-> IF u \in D \cup {t} THEN "CLOSE" ELSE k.stat[u]]
            /\ Hide(k, D).stat = [u \in Thread |-> IF u \in D THEN "CLOSE" ELSE k.stat[u]]
        BY <1>2, HideFields
      <4> QED
        BY <4>1
    <3>3. k.stat[t] \in Dormant /\ "CLOSE" \in Parked /\ D \cup {t} \in SUBSET Thread
          /\ k.current \notin D \cup {t} /\ t \in Thread \ D
      BY <1>1, <1>2, <1>3, <2>1 DEF Dormant, Parked, Sane
    <3>4. Sane(k, D \cup {t})
      <4> DEFINE E == D \cup {t}
                 s == "CLOSE"
      <4>1. /\ E \in SUBSET Thread /\ k.current \notin E /\ s \in Parked /\ t # k.current
            /\ Hide(k, E).stat = [Hide(k, D).stat EXCEPT ![t] = s]
        BY <1>1, <1>3, <3>2, <3>3
      <4> HIDE DEF E, s
      <4>2. Sane(k, E)
        BY <1>2, <3>1, <3>3, <4>1, SaneRetag
      <4> QED
        BY <4>2 DEF E
    <3> QED
      BY <3>1, <3>4
  <2>2. CASE k.stat[t] # "INIT"
    <3>1. k' = RemoveThread(k, t)
      BY <1>1, <2>2
    <3> QED
      BY <1>1, <1>2, <1>3, <3>1, SaneDelete
  <2> QED
    BY <2>1, <2>2
<1>5. Near(k, k', {}) /\ CriticalStep /\ k' \in KernelState /\ k'.lock <= MaxNest
  <2>1. On(k', Defunct) \subseteq On(k, Defunct)
    BY <1>4
  <2>2. Near(k, k', {})
    BY <1>4, <2>1, NearSame
  <2> QED
    BY <1>4, <2>2, Inv DEF CriticalStep, Sane
<1>6. /\ pc' \in [Thread -> [at : Where, on : Thread \cup {Nobody}]]
      /\ pc'[c].at = "delete_timer" /\ pc'[c].on = t
      /\ \A d \in Thread \ {c} : pc'[d] = pc[d]
  <2>1. "delete_timer" \in Where
    BY DEF Where
  <2> QED
    BY <1>1, <2>1, Goes
<1>7. Deleting' = D \cup {t}
  <2>1. Deleting' = {pc'[d].on : d \in {e \in Thread : pc'[e].at \in Half}}
    BY DEF Deleting, Half
  <2>2. "delete_timer" \in Half /\ pc[c].at \notin Half
    BY <1>1 DEF Half
  <2>3. ASSUME NEW u PROVE u \in Deleting' <=> u \in D \cup {t}
    <3>1. u \in D <=> \E d \in Thread : pc[d].at \in Half /\ pc[d].on = u
      BY DEF D, Deleting, Half
    <3>2. u \in Deleting' <=> \E d \in Thread : pc'[d].at \in Half /\ pc'[d].on = u
      BY <2>1
    <3> QED
      BY <1>6, <2>2, <3>1, <3>2
  <2> QED
    BY <2>3
<1>8. TypeOK'
  BY <1>1, <1>5, <1>6, Inv DEF TypeOK
<1>9. CallOK(c)'
  BY <1>1, <1>3, <1>4, <1>6
  DEF CallOK, Resuming, Starting, Suspending, Removing, Sleeping, Deletion, Living, On
<1>10. Frame({}, {c})
  BY <1>1, <1>5, <1>6 DEF Frame
<1> QED
  BY <1>1, <1>4, <1>5, <1>6, <1>7, <1>8, <1>9, <1>10, Quiet

LEMMA DeleteTimerSafe ==
  ASSUME Disciplined, ThreadInv, NEW c \in Thread, DeleteTimer(c)
  PROVE  Safe
<1> DEFINE t == pc[c].on
<1>1. /\ pc[c].at = "delete_timer" /\ free' = free
      /\ k' = [k EXCEPT !.armed = @ \ {t}] /\ Goto(c, "delete_close", t)
  BY DEF DeleteTimer, At
<1>2. Acts(c)
  BY CallActs DEF DeleteTimer
<1>3. t \in Thread \ free /\ t \notin k.armed
  BY <1>1, InHand, Inv DEF Deletion
<1>4. k' = k
  <2>1. k \in KernelState
    BY Inv
  <2>2. k.armed \ {t} = k.armed
    BY <1>3
  <2> HIDE DEF t
  <2> QED
    BY <1>1, <2>1, <2>2 DEF KernelState
<1>5. "delete_close" \in Where /\ "delete_close" \in Half /\ "delete_timer" \in Half
      /\ pc[c].at \in Deletion
  BY <1>1 DEF Where, Half, Deletion
<1>6. /\ pc' \in [Thread -> [at : Where, on : Thread \cup {Nobody}]]
      /\ pc'[c].at = "delete_close" /\ pc'[c].on = t
      /\ \A d \in Thread \ {c} : pc'[d] = pc[d]
  <2> HIDE DEF t
  <2> QED
    BY <1>1, <1>3, <1>5, Goes
<1>7. Deleting' = Deleting
  BY <1>1, <1>5, <1>6, SameDeleting
<1>8. Sane(k', Deleting') /\ Near(k, k', {}) /\ CriticalStep /\ TypeOK'
  BY <1>1, <1>4, <1>6, <1>7, Inv, NearSame DEF TypeOK, CriticalStep
<1>9. CallOK(c)'
  <2>1. /\ t \in Deletes[c] \ free /\ t \notin On(k, Defunct) /\ k.stat[t] # "CLOSE"
        /\ k.stat[c] \in Living
    BY <1>1 DEF ThreadInv, CallsOK, Removing, Deletion
  <2> HIDE DEF t
  <2> QED
    BY <1>1, <1>4, <1>6, <2>1
    DEF CallOK, Resuming, Starting, Suspending, Removing, Sleeping, Deletion
<1>10. Frame({}, {c})
  BY <1>1, <1>6, <1>8 DEF Frame
<1> QED
  BY <1>2, <1>5, <1>6, <1>8, <1>9, <1>10, Quiet

-----------------------------------------------------------------------------
(* The idle thread frees what dead threads leave. *)

LEMMA ReapTakeSafe ==
  ASSUME Disciplined, ThreadInv, ReapTake
  PROVE  Safe
<1> DEFINE t == Head(k.list[Defunct])
           x == Unlink(k, t)
<1>1. /\ Idle = k.current /\ pc[Idle] = User /\ k.list[Defunct] # <<>> /\ free' = free
      /\ k' = Schedule(x) /\ Goto(Idle, "reap_free", t)
  BY DEF ReapTake
<1>2. /\ k \in KernelState /\ Sane(k, Deleting) /\ Idle \in Thread
      /\ \A u \in On(k, Defunct) \ Deleting : k.stat[u] = "CLOSE"
      /\ \A u \in Thread : u \in Deleting <=> \E d \in Thread : pc[d].at \in Half /\ pc[d].on = u
  BY Inv
<1>3. t \in On(k, Defunct) /\ t \in Thread
  <2>1. k.list[Defunct] \in Seq(Thread)
    BY <1>2, ListKinds, ListType
  <2>2. t \in Thread /\ 1 \in 1 .. Len(k.list[Defunct]) /\ t = k.list[Defunct][1]
    BY <1>1, <2>1
  <2>3. t \in On(k, Defunct)
    BY <2>2 DEF On, ToSet
  <2> QED
    BY <2>2, <2>3
<1> HIDE DEF t, x
<1>4. ASSUME NEW d \in Thread, pc[d].at \in Deletion PROVE pc[d].on # t
  BY <1>3, <1>4 DEF ThreadInv, CallsOK, Removing
<1>5. t \notin Deleting /\ k.stat[t] = "CLOSE" /\ t \notin free
  <2>1. t \notin Deleting
    BY <1>2, <1>3, <1>4 DEF Half, Deletion
  <2> QED
    BY <1>2, <1>3, <2>1 DEF ThreadInv, ThreadsOK
<1>6. /\ Sane(x, Deleting) /\ x.stat = k.stat /\ x.armed = k.armed
      /\ x.current = k.current /\ x.lock = k.lock /\ On(x, Defunct) = On(k, Defunct) \ {t}
  <2>1. x = Detach(k, t, k.err, k.armed)
    BY <1>2, UnlinkIs DEF x
  <2>2. k.err \in [Thread -> Err] /\ k.armed \in SUBSET k.armed /\ k.stat[t] # "READY"
    BY <1>2, <1>5 DEF KernelState
  <2> QED
    BY <1>2, <1>3, <2>1, <2>2, SaneUnlink
<1>7. Sane(k', Deleting) /\ Switches(x, k')
  BY <1>1, <1>6, SaneSchedule
<1>8. Near(k, k', {})
  BY <1>6, <1>7 DEF Switches, Near, Awake
<1>9. /\ CriticalStep /\ k' \in KernelState /\ k'.lock <= MaxNest
  BY <1>6, <1>7, Inv DEF CriticalStep, Sane, Switches, KernelState
<1>10. /\ pc' \in [Thread -> [at : Where, on : Thread \cup {Nobody}]]
       /\ pc'[Idle].at = "reap_free" /\ pc'[Idle].on = t
       /\ \A d \in Thread \ {Idle} : pc'[d] = pc[d]
  <2>1. "reap_free" \in Where
    BY DEF Where
  <2> QED
    BY <1>1, <1>2, <1>3, <2>1, Goes
<1>11. pc[Idle].at = "user"
  BY <1>1 DEF User
<1>12. Deleting' = Deleting
  <2>1. pc[Idle].at \notin Half /\ pc'[Idle].at \notin Half
    BY <1>10, <1>11 DEF Half
  <2> QED
    BY <1>10, <2>1, SameDeleting
<1>13. TypeOK'
  BY <1>1, <1>9, <1>10, Inv DEF TypeOK
<1>14. Frame({}, {Idle})
  BY <1>1, <1>8, <1>10 DEF Frame
<1>15. CallsOK'
  <2>1. Spares({}, {Idle})
    BY DEF Spares, ThreadInv, CallsOK, Starting, Started
  <2>2. CallOK(Idle)'
    BY <1>10 DEF CallOK, Resuming, Starting, Suspending, Removing, Sleeping, Deletion
  <2>3. ASSUME NEW d \in Thread PROVE CallOK(d)'
    BY <1>2, <1>13, <1>14, <2>1, <2>2, CallsKept
  <2> QED
    BY <2>3 DEF CallsOK, CallOK
<1>16. ASSUME NEW u \in Thread
       PROVE  /\ k'.stat[u] = k.stat[u] \/ (k'.stat[u] \in Awake /\ k.stat[u] \in Awake)
              /\ u \in k'.armed <=> u \in k.armed
              /\ u \in On(k', Defunct) => u \in On(k, Defunct) \ {t}
              /\ u = k'.current => u = k.current \/ k.stat[u] = "READY"
  BY <1>6, <1>7, <1>8 DEF Near, Switches
<1>17. k.stat[Idle] \in Living
  BY DEF ThreadInv, Reaping
<1>18. Reaping'
  <2>1. k'.stat[Idle] \in Living
    BY <1>2, <1>16, <1>17 DEF Awake, Living
  <2>2. t \notin free' /\ t # k'.current /\ k'.stat[t] = "CLOSE" /\ t \notin On(k', Defunct)
    BY <1>1, <1>3, <1>5, <1>16, <1>17 DEF Awake, Living
  <2>3. ASSUME NEW c \in Thread, pc'[c].at = "reap_free"
        PROVE  /\ c = Idle /\ pc'[c].on = t
               /\ \A d \in Thread : pc'[d].at \in Deletion => pc'[d].on # pc'[c].on
    <3>1. c = Idle
      BY <1>10, <2>3 DEF ThreadInv, Reaping
    <3>2. "reap_free" \notin Deletion
      BY DEF Deletion
    <3> QED
      BY <1>4, <1>10, <3>1, <3>2
  <2> QED
    BY <1>3, <1>10, <2>1, <2>2, <2>3 DEF Reaping, On
<1>19. ThreadsOK'
  <2>1. k'.armed \subseteq Sleepers
    BY <1>9, <1>16, Inv DEF KernelState
  <2>2. ASSUME NEW u \in Thread, k'.stat[u] = "INIT" PROVE pc'[u] = User
    <3>1. k.stat[u] = "INIT" /\ pc[u] = User
      BY <1>16, <2>2 DEF Awake, ThreadInv, ThreadsOK
    <3> QED
      BY <1>10, <1>17, <3>1 DEF Living
  <2>3. ASSUME NEW u \in free
        PROVE  k'.stat[u] = "CLOSE" /\ u \notin On(k', Defunct) /\ (u = k'.current => u \in Static)
    <3>1. u \in Thread /\ k.stat[u] = "CLOSE" /\ u \notin On(k, Defunct) /\ (u = k.current => u \in Static)
      BY Inv DEF ThreadInv, ThreadsOK
    <3> QED
      BY <1>16, <3>1 DEF Awake
  <2> QED
    BY <1>1, <2>1, <2>2, <2>3 DEF ThreadsOK, On
<1>20. ClosedStep
  BY <1>16 DEF ClosedStep, Awake
<1> QED
  BY <1>7, <1>9, <1>12, <1>13, <1>15, <1>18, <1>19, <1>20 DEF Safe, ThreadInv, Sane, Deleting

LEMMA ReapFreeSafe ==
  ASSUME Disciplined, ThreadInv, ReapFree
  PROVE  Safe
<1> DEFINE t == pc[Idle].on
<1>1. /\ Idle = k.current /\ pc[Idle].at = "reap_free" /\ k' = k /\ free' = free \cup {t}
      /\ Return(Idle) /\ Idle \in Thread
  BY ThreadAssumption DEF ReapFree, At
<1>2. /\ t \in Thread \ free /\ t # k.current /\ k.stat[t] = "CLOSE" /\ t \notin On(k, Defunct)
      /\ \A d \in Thread : pc[d].at \in Deletion => pc[d].on # t
      /\ k.stat[Idle] \in Living
  BY <1>1 DEF ThreadInv, Reaping
<1> HIDE DEF t
<1>3. /\ pc' \in [Thread -> [at : Where, on : Thread \cup {Nobody}]]
      /\ pc'[Idle] = User /\ pc'[Idle].at = "user"
      /\ \A d \in Thread \ {Idle} : pc'[d] = pc[d]
  BY <1>1, Returns
<1>4. TypeOK'
  BY <1>1, <1>2, <1>3, Inv DEF TypeOK
<1>5. Deleting' = Deleting
  <2>1. pc[Idle].at \notin Half /\ pc'[Idle].at \notin Half
    BY <1>1, <1>3 DEF Half
  <2> QED
    BY <1>3, <2>1, SameDeleting
<1>6. Frame({t}, {Idle})
  BY <1>1, <1>3 DEF Frame, Near
<1>7. Spares({t}, {Idle})
  <2>1. ASSUME NEW c \in Thread \ {Idle}
        PROVE  /\ pc[c].at \in Waking \cup Started \cup Deletion => pc[c].on # t
               /\ pc[c].at \in Started => pc[c].on # Idle
               /\ pc[c].at = "suspend_mask" => pc[c].on # t
               /\ pc[c].at \in Deletion => c # t
               /\ pc[c].at \in Asleep => c # t \/ k'.stat[c] # "SUSPEND"
    <3>1. Resuming(c) /\ Starting(c) /\ Suspending(c) /\ Removing(c)
      BY DEF ThreadInv, CallsOK
    <3> QED
      BY <1>1, <1>2, <3>1
      DEF Resuming, Starting, Suspending, Removing, Waking, Started, Living
  <2> QED
    BY <2>1 DEF Spares
<1>8. CallsOK'
  <2>1. CallOK(Idle)'
    BY <1>3, NothingInHand DEF Idling
  <2>2. ASSUME NEW d \in Thread PROVE CallOK(d)'
    BY <1>1, <1>2, <1>4, <1>6, <1>7, <2>1, CallsKept
  <2> QED
    BY <2>2 DEF CallsOK, CallOK
<1>9. Reaping'
  <2>1. ASSUME NEW c \in Thread PROVE pc'[c].at # "reap_free"
    BY <1>1, <1>3 DEF ThreadInv, Reaping
  <2> QED
    BY <1>1, <1>2, <1>3, <2>1 DEF Reaping
<1>10. ThreadsOK'
  <2>1. ASSUME NEW u \in Thread, k'.stat[u] = "INIT" PROVE pc'[u] = User
    BY <1>1, <1>2, <1>3, <2>1 DEF ThreadInv, ThreadsOK, Living
  <2> QED
    BY <1>1, <1>2, <2>1 DEF ThreadInv, ThreadsOK, On
<1>11. ClosedStep /\ CriticalStep
  BY <1>1 DEF ClosedStep, CriticalStep
<1> QED
  BY <1>1, <1>4, <1>5, <1>8, <1>9, <1>10, <1>11, Inv DEF Safe, ThreadInv

-----------------------------------------------------------------------------
(* The steps that do something to one thread *)

LEMMA NearOne ==
  ASSUME NEW kk, kk.stat \in [Thread -> Stat], NEW r, NEW w \in Thread, NEW s,
         r.stat = [kk.stat EXCEPT ![w] = s],
         r.armed \subseteq kk.armed \cup {w}, kk.armed \subseteq r.armed \cup {w},
         r.current = kk.current, On(r, Defunct) \subseteq On(kk, Defunct) \cup {w}
  PROVE  Near(kk, r, {w})
BY DEF Near

(* The current thread suspends itself, sleeps or ends. *)
LEMMA SparesSelf ==
  ASSUME Disciplined, ThreadInv, NEW c \in Thread, Runs(c),
         c \in Exiting \/ (c \notin free' /\ k'.stat[c] \in Living)
  PROVE  Spares({c}, {c})
<1>1. k.stat[c] = "RUNNING" /\ c \notin Deleting
  BY UserActs
<1>2. ASSUME NEW d \in Thread \ {c}
      PROVE  /\ pc[d].at \in Waking \cup Started \cup Deletion => pc[d].on # c
             /\ pc[d].at = "suspend_mask" => c \notin Exiting \/ pc[d].on # c
  <2>1. ASSUME pc[d].at \in Waking \cup Started PROVE pc[d].on # c
    BY <1>1, <2>1, InHand
  <2>2. ASSUME pc[d].at \in Deletion PROVE pc[d].on # c
    <3>1. CASE pc[d].at \in Half
      BY <1>1, <3>1 DEF Deleting, Half
    <3>2. CASE pc[d].at \notin Half
      BY <1>1, <2>2, <3>2 DEF ThreadInv, CallsOK, Removing, Half, Deletion
    <3> QED
      BY <3>1, <3>2
  <2>3. ASSUME pc[d].at = "suspend_mask" PROVE c \notin Exiting \/ pc[d].on # c
    BY <2>3, InHand
  <2> QED
    BY <2>1, <2>2, <2>3
<1> QED
  BY <1>2 DEF Spares

(* A thread does something to one that it manages. *)
LEMMA SparesManaged ==
  ASSUME Disciplined, ThreadInv, NEW c, Acts(c), NEW w \in Manages(c),
         pc[w].at \in Deletion => k'.stat[w] \in Living,
         pc[w].at \in Asleep => k'.stat[w] # "SUSPEND"
  PROVE  Spares({w}, {c})
<1>1. c \in Thread
  BY DEF Acts
<1>2. ASSUME NEW d \in Thread \ {c}
      PROVE  /\ pc[d].at \in Waking \cup Started \cup Deletion \cup {"suspend_mask"} => pc[d].on # w
             /\ pc[d].at \in Started => pc[d].on # c
  <2>1. pc[d].at \in Waking \cup Started \cup Deletion \cup {"suspend_mask"} => pc[d].on # w
    BY <1>1, InHand
  <2>2. pc[d].at \in Started => k.stat[pc[d].on] = "SUSPEND" /\ pc[pc[d].on] = User
    BY DEF ThreadInv, CallsOK, Starting, Started
  <2> QED
    BY <2>1, <2>2 DEF Acts
<1> QED
  BY <1>2 DEF Spares

(* An interrupt wakes a thread. *)
LEMMA SparesWoken ==
  ASSUME Disciplined, ThreadInv, NEW w \in Sleepers \cup Signalled,
         w \in k.armed \/ ~BeingStarted(w), k'.stat[w] \in Awake
  PROVE  Spares({w}, {})
<1>1. ASSUME NEW d \in Thread
      PROVE  pc[d].at \in Waking \cup Started \cup Deletion \cup {"suspend_mask"} => pc[d].on # w
  <2>1. pc[d].at \in Waking \cup Deletion \cup {"suspend_mask"} => pc[d].on # w
    BY InHand
  <2>2. pc[d].at \in Started => pc[d].on \notin k.armed
    BY DEF ThreadInv, CallsOK, Starting, Started
  <2> QED
    BY <2>1, <2>2 DEF BeingStarted, Started
<1>2. k'.stat[w] \in Living /\ k'.stat[w] # "SUSPEND"
  BY DEF Awake, Living
<1> QED
  BY <1>1, <1>2 DEF Spares

(* rt_thread_suspend of a thread that is not suspended, and rt_thread_sleep *)
LEMMA HaltIs ==
  ASSUME NEW kk \in KernelState, NEW t \in Thread, NEW s
  PROVE  /\ [RemoveThread(kk, t) EXCEPT !.stat[t] = s, !.armed = @ \ {t}] =
              Halt(kk, t, s, kk.armed \ {t})
         /\ kk.stat[t] = "RUNNING" => Suspend(kk, t) = Halt(kk, t, "SUSPEND", kk.armed \ {t})
         /\ kk.stat[t] = "RUNNING" => Sleep(kk, t) = Halt(kk, t, "SUSPEND", kk.armed \cup {t})
<1> DEFINE y == RemoveThread(kk, t)
<1>1. y \in KernelState /\ y.armed = kk.armed
  BY RemoveFields
<1> HIDE DEF y
<1>2. ASSUME NEW z
      PROVE  [y EXCEPT !.stat[t] = z, !.armed = @ \ {t}] = [y EXCEPT !.stat[t] = z, !.armed = kk.armed \ {t}]
  BY <1>1 DEF KernelState
<1>3. ASSUME NEW z
      PROVE  [RemoveThread(kk, t) EXCEPT !.stat[t] = z, !.armed = @ \ {t}] =
               Halt(kk, t, z, kk.armed \ {t})
  BY <1>2 DEF Halt, y
<1>4. kk.stat[t] = "RUNNING" => Suspend(kk, t) = Halt(kk, t, "SUSPEND", kk.armed \ {t})
  BY <1>3 DEF Suspend
<1>5. ASSUME kk.stat[t] = "RUNNING"
      PROVE  Sleep(kk, t) = Halt(kk, t, "SUSPEND", kk.armed \cup {t})
  <2>1. Sleep(kk, t) = [Halt(kk, t, "SUSPEND", kk.armed \ {t}) EXCEPT !.armed = @ \cup {t}]
    BY <1>4, <1>5 DEF Sleep
  <2>2. Halt(kk, t, "SUSPEND", kk.armed \ {t}) = [y EXCEPT !.stat[t] = "SUSPEND", !.armed = kk.armed \ {t}]
    BY DEF Halt, y
  <2>3. Halt(kk, t, "SUSPEND", kk.armed \cup {t}) = [y EXCEPT !.stat[t] = "SUSPEND", !.armed = kk.armed \cup {t}]
    BY DEF Halt, y
  <2>4. [[y EXCEPT !.stat[t] = "SUSPEND", !.armed = kk.armed \ {t}] EXCEPT !.armed = @ \cup {t}] =
        [y EXCEPT !.stat[t] = "SUSPEND", !.armed = (kk.armed \ {t}) \cup {t}]
    BY <1>1 DEF KernelState
  <2>5. (kk.armed \ {t}) \cup {t} = kk.armed \cup {t}
    OBVIOUS
  <2> QED
    BY <2>1, <2>2, <2>3, <2>4, <2>5
<1> QED
  BY <1>3, <1>4, <1>5

LEMMA SelfTouched ==
  ASSUME ThreadInv, NEW c \in Thread, Runs(c), k'.stat[c] # "INIT",
         c \in free' => k'.stat[c] = "CLOSE" /\ c \notin On(k', Defunct) /\ c \in Static
  PROVE  Touched(c)
<1>1. k.stat[c] = "RUNNING" /\ c # Idle
  BY DEF Runs
<1>2. pc[Idle].at = "reap_free" => pc[Idle].on # c
  BY <1>1, Inv DEF ThreadInv, Reaping
<1> QED
  BY <1>1, <1>2 DEF Touched

(* rt_thread_suspend of the current thread, or rt_thread_sleep *)
LEMMA BlockSafe ==
  ASSUME Disciplined, ThreadInv, NEW c \in Thread, Runs(c), k.lock = 0, free' = free,
         NEW A \in SUBSET Thread, A = k.armed \ {c} \/ (c \in Sleepers /\ A = k.armed \cup {c}),
         k' = Halt(k, c, "SUSPEND", A),
         NEW a \in {"suspend_sched", "sleep_sched"}, a = "sleep_sched" => c \in A,
         Goto(c, a, Nobody)
  PROVE  Safe
<1>1. /\ Acts(c) /\ pc[c].at = "user" /\ k.stat[c] = "RUNNING" /\ c \notin Deleting
      /\ Sane(k, Deleting) /\ k.armed \subseteq Sleepers /\ c # Idle
      /\ k.stat \in [Thread -> Stat] /\ k.armed \subseteq Thread
  <2>1. Acts(c) /\ pc[c].at = "user" /\ k.stat[c] = "RUNNING" /\ c \notin Deleting
    BY UserActs
  <2>2. Sane(k, Deleting) /\ k.armed \subseteq Sleepers /\ k \in KernelState
    BY Inv
  <2> QED
    BY <2>1, <2>2 DEF KernelState, Acts
<1>2. "SUSPEND" \in Stopped /\ A \subseteq k.armed \cup {c} /\ k.armed \subseteq A \cup {c}
  BY DEF Stopped
<1>3. /\ Sane(k', Deleting) /\ k'.stat = [k.stat EXCEPT ![c] = "SUSPEND"] /\ k'.armed = A
      /\ k'.current = k.current /\ k'.lock = k.lock /\ On(k', Defunct) = On(k, Defunct) \ {c}
  <2> DEFINE s == "SUSPEND"
  <2>1. s \in Stopped /\ s # "CLOSE" /\ k' = Halt(k, c, s, A)
    BY <1>2
  <2> HIDE DEF s
  <2>2. /\ Sane(k', Deleting) /\ k'.stat = [k.stat EXCEPT ![c] = s] /\ k'.armed = A
        /\ k'.current = k.current /\ k'.lock = k.lock /\ On(k', Defunct) = On(k, Defunct) \ {c}
    BY <1>1, <1>2, <2>1, SaneStop
  <2> QED
    BY <2>2 DEF s
<1>4. /\ pc' \in [Thread -> [at : Where, on : Thread \cup {Nobody}]]
      /\ pc'[c].at = a /\ \A d \in Thread \ {c} : pc'[d] = pc[d]
  <2>1. a \in Where
    BY DEF Where
  <2> QED
    BY <2>1, Goes
<1>5. Deleting' = Deleting
  <2>1. pc[c].at \notin Half /\ pc'[c].at \notin Half
    BY <1>1, <1>4 DEF Half
  <2> QED
    BY <1>4, <2>1, SameDeleting
<1>6. TypeOK'
  BY <1>3, <1>4, Inv DEF TypeOK, Sane
<1>7. k'.stat[c] = "SUSPEND" /\ k'.stat[c] \in Living
  BY <1>1, <1>3 DEF Living
<1>8. Frame({c}, {c})
  <2>1. On(k', Defunct) \subseteq On(k, Defunct) \cup {c}
    BY <1>3
  <2>2. Near(k, k', {c})
    BY <1>1, <1>2, <1>3, <2>1, NearOne
  <2> QED
    BY <1>4, <2>2 DEF Frame
<1>9. c \notin free
  BY <1>1 DEF ThreadInv, ThreadsOK
<1>10. Spares({c}, {c})
  BY <1>7, <1>9, SparesSelf
<1>11. Touched(c)
  BY <1>7, <1>9, SelfTouched
<1>12. Own(c)
  BY <1>2, <1>3, <1>4, <1>7
  DEF Own, CallOK, Resuming, Starting, Suspending, Removing, Sleeping, Deletion
<1>13. k'.armed \subseteq Sleepers /\ CriticalStep
  BY <1>1, <1>3 DEF CriticalStep
<1> QED
  BY <1>1, <1>3, <1>5, <1>6, <1>8, <1>10, <1>11, <1>12, <1>13, StepKept

LEMMA SuspendSelfSafe ==
  ASSUME Disciplined, ThreadInv, NEW c \in Thread, SuspendSelf(c)
  PROVE  Safe
<1> DEFINE A == k.armed \ {c}
           a == "suspend_sched"
<1>1. /\ Runs(c) /\ k.lock = 0 /\ free' = free /\ k' = Suspend(k, c) /\ k.stat[c] = "RUNNING"
      /\ Goto(c, a, Nobody)
  BY DEF SuspendSelf, MayBlock, Runs
<1>2. k \in KernelState /\ A \in SUBSET Thread
  <2>1. k \in KernelState
    BY Inv
  <2> QED
    BY <2>1 DEF KernelState
<1>3. k' = Halt(k, c, "SUSPEND", A)
  BY <1>1, <1>2, HaltIs
<1>4. A = k.armed \ {c} /\ a \in {"suspend_sched", "sleep_sched"} /\ a # "sleep_sched"
  OBVIOUS
<1> HIDE DEF A, a
<1> QED
  BY <1>1, <1>2, <1>3, <1>4, BlockSafe

LEMMA SleepCallSafe ==
  ASSUME Disciplined, ThreadInv, NEW c \in Thread, SleepCall(c)
  PROVE  Safe
<1> DEFINE A == k.armed \cup {c}
           a == "sleep_sched"
<1>1. /\ Runs(c) /\ k.lock = 0 /\ free' = free /\ k' = Sleep(k, c) /\ k.stat[c] = "RUNNING"
      /\ Goto(c, a, Nobody) /\ c \in Sleepers
  BY DEF SleepCall, MayBlock, Runs
<1>2. k \in KernelState /\ A \in SUBSET Thread
  <2>1. k \in KernelState
    BY Inv
  <2> QED
    BY <2>1 DEF KernelState
<1>3. k' = Halt(k, c, "SUSPEND", A)
  BY <1>1, <1>2, HaltIs
<1>4. A = k.armed \cup {c} /\ a \in {"suspend_sched", "sleep_sched"} /\ c \in A
  OBVIOUS
<1> HIDE DEF A, a
<1> QED
  BY <1>1, <1>2, <1>3, <1>4, BlockSafe

LEMMA ExitSafe ==
  ASSUME Disciplined, ThreadInv, NEW c \in Thread, Exit(c)
  PROVE  Safe
<1> DEFINE A == k.armed \ {c}
           closed == Halt(k, c, "CLOSE", A)
<1>1. /\ Runs(c) /\ k.lock = 0 /\ c \in Exiting /\ Goto(c, "exit_sched", Nobody)
      /\ free' = IF c \in Static THEN free \cup {c} ELSE free
  BY DEF Exit, MayBlock
<1>2. /\ Acts(c) /\ pc[c].at = "user" /\ k.stat[c] = "RUNNING" /\ c \notin Deleting /\ c # Idle
      /\ Sane(k, Deleting) /\ k.armed \subseteq Sleepers /\ k \in KernelState
      /\ k.stat \in [Thread -> Stat] /\ k.armed \subseteq Thread
  <2>1. Acts(c) /\ pc[c].at = "user" /\ k.stat[c] = "RUNNING" /\ c \notin Deleting
    BY <1>1, UserActs
  <2>2. Sane(k, Deleting) /\ k.armed \subseteq Sleepers /\ k \in KernelState
    BY Inv
  <2> QED
    BY <2>1, <2>2 DEF KernelState, Acts
<1>3. k' = IF c \in Static THEN closed ELSE ToDefunct(closed, c)
  <2>1. [RemoveThread(k, c) EXCEPT !.stat[c] = "CLOSE", !.armed = @ \ {c}] = closed
    BY <1>2, HaltIs
  <2> QED
    BY <2>1 DEF Exit
<1>4. /\ Sane(closed, Deleting) /\ closed.stat = [k.stat EXCEPT ![c] = "CLOSE"]
      /\ closed.armed = A /\ closed.current = k.current /\ closed.lock = k.lock
      /\ On(closed, Defunct) = On(k, Defunct) \ {c}
  <2> DEFINE s == "CLOSE"
  <2>1. s \in Stopped /\ A \in SUBSET Thread /\ c \notin A /\ A \subseteq k.armed \cup {c}
    BY <1>2 DEF Stopped
  <2>2. closed = Halt(k, c, s, A)
    OBVIOUS
  <2> HIDE DEF s, A, closed
  <2>3. /\ Sane(closed, Deleting) /\ closed.stat = [k.stat EXCEPT ![c] = s]
        /\ closed.armed = A /\ closed.current = k.current /\ closed.lock = k.lock
        /\ On(closed, Defunct) = On(k, Defunct) \ {c}
    BY <1>2, <2>1, <2>2, SaneStop
  <2> QED
    BY <2>3 DEF s
<1> HIDE DEF closed
<1>5. /\ Sane(k', Deleting) /\ k'.stat = [k.stat EXCEPT ![c] = "CLOSE"] /\ k'.armed = A
      /\ k'.current = k.current /\ k'.lock = k.lock
      /\ On(k', Defunct) = IF c \in Static THEN On(k, Defunct) \ {c} ELSE On(k, Defunct) \cup {c}
  <2>1. CASE c \in Static
    BY <1>3, <1>4, <2>1
  <2>2. CASE c \notin Static
    <3>1. closed.stat[c] = "CLOSE" /\ c \notin On(closed, Defunct)
      BY <1>2, <1>4
    <3>2. k' = ToDefunct(closed, c)
      BY <1>3, <2>2
    <3>3. /\ Sane(k', Deleting) /\ k'.stat = closed.stat /\ k'.armed = closed.armed
          /\ k'.current = closed.current /\ k'.lock = closed.lock
          /\ On(k', Defunct) = On(closed, Defunct) \cup {c}
      BY <1>4, <3>1, <3>2, SaneDefunct
    <3> QED
      BY <1>4, <2>2, <3>3
  <2> QED
    BY <2>1, <2>2
<1>6. /\ pc' \in [Thread -> [at : Where, on : Thread \cup {Nobody}]]
      /\ pc'[c].at = "exit_sched" /\ \A d \in Thread \ {c} : pc'[d] = pc[d]
  <2>1. "exit_sched" \in Where
    BY DEF Where
  <2> QED
    BY <1>1, <2>1, Goes
<1>7. Deleting' = Deleting
  <2>1. pc[c].at \notin Half /\ pc'[c].at \notin Half
    BY <1>2, <1>6 DEF Half
  <2> QED
    BY <1>6, <2>1, SameDeleting
<1>8. TypeOK'
  BY <1>1, <1>5, <1>6, Inv DEF TypeOK, Sane
<1>9. Frame({c}, {c})
  <2>1. On(k', Defunct) \subseteq On(k, Defunct) \cup {c}
    BY <1>5
  <2>2. Near(k, k', {c})
    BY <1>2, <1>5, <2>1, NearOne
  <2> QED
    BY <1>1, <1>6, <2>2 DEF Frame
<1>10. k'.stat[c] = "CLOSE" /\ c \notin free
  BY <1>2, <1>5 DEF ThreadInv, ThreadsOK
<1>11. Spares({c}, {c})
  BY <1>1, SparesSelf
<1>12. Touched(c)
  BY <1>1, <1>5, <1>10, SelfTouched
<1>13. Own(c)
  <2>1. CallOK(c)'
    BY <1>6, NothingInHand DEF Idling
  <2> QED
    BY <1>6, <1>10, <2>1 DEF Own, Deletion
<1>14. k'.armed \subseteq Sleepers /\ CriticalStep
  BY <1>2, <1>5 DEF CriticalStep
<1> QED
  BY <1>2, <1>5, <1>7, <1>8, <1>9, <1>11, <1>12, <1>13, <1>14, StepKept

(* An interrupt handler wakes a thread. *)
LEMMA WakeSafe ==
  ASSUME Disciplined, ThreadInv, NEW w \in Sleepers \cup Signalled,
         w \in k.armed \/ ~BeingStarted(w), k.stat[w] = "SUSPEND", w \in Thread,
         NEW e \in [Thread -> Err],
         k' = Schedule(InsertThread(Detach(k, w, e, k.armed \ {w}), w)),
         pc' = pc, free' = free
  PROVE  Safe
<1> DEFINE A == k.armed \ {w}
           x == Detach(k, w, e, A)
           y == InsertThread(x, w)
<1>1. /\ k \in KernelState /\ Sane(k, Deleting) /\ k.armed \subseteq Sleepers
      /\ \A u \in Thread : u \in Deleting <=> \E d \in Thread : pc[d].at \in Half /\ pc[d].on = u
  BY Inv
<1>2. A \in SUBSET k.armed /\ k.stat[w] # "READY"
  OBVIOUS
<1> HIDE DEF A, x, y
<1>3. /\ Sane(x, Deleting) /\ x.stat = k.stat /\ x.armed = A /\ x.current = k.current
      /\ x.lock = k.lock /\ On(x, Defunct) = On(k, Defunct) \ {w}
  BY <1>1, <1>2, SaneUnlink DEF x
<1>4. w \in Thread \ Deleting /\ x.stat[w] = "SUSPEND" /\ w \notin x.armed
  <2>1. ASSUME NEW d \in Thread, pc[d].at \in Half PROVE pc[d].on # w
    <3>1. pc[d].at \in Deletion
      BY <2>1 DEF Half, Deletion
    <3> QED
      BY <3>1, InHand
  <2> QED
    BY <1>1, <1>3, <2>1 DEF A
<1>5. /\ Sane(y, Deleting) /\ y.armed = A /\ y.current = k.current /\ y.lock = k.lock
      /\ y.stat = [k.stat EXCEPT ![w] = IF w = k.current THEN "RUNNING" ELSE "READY"]
      /\ On(y, Defunct) = On(k, Defunct) \ {w}
  BY <1>3, <1>4, SanePut DEF y
<1>6. k' = Schedule(y)
  BY DEF x, y, A
<1>7. Sane(k', Deleting) /\ Switches(y, k')
  BY <1>5, <1>6, SaneSchedule
<1>8. y.stat[w] \in Awake /\ \A u \in Thread \ {w} : y.stat[u] = k.stat[u]
  BY <1>1, <1>5 DEF Awake, KernelState
<1>9. Near(k, k', {w})
  BY <1>5, <1>7, <1>8 DEF Near, Switches, Awake, A
<1>10. k'.stat[w] \in Awake
  BY <1>7, <1>8 DEF Switches, Awake
<1>11. /\ CriticalStep /\ k' \in KernelState /\ k'.lock <= MaxNest /\ k'.armed \subseteq Sleepers
  <2>1. k.lock \in Nat
    BY <1>1 DEF KernelState
  <2>2. CriticalStep /\ k'.lock = k.lock
    BY <1>5, <1>7, <2>1 DEF CriticalStep, Switches
  <2>3. k'.armed \subseteq Sleepers
    BY <1>1, <1>5, <1>7 DEF Switches, A
  <2>4. k' \in KernelState
    BY <1>7 DEF Sane
  <2> QED
    BY <2>2, <2>3, <2>4, Inv
<1>12. Deleting' = Deleting
  BY SameDeleting
<1>13. TypeOK'
  BY <1>11, Inv DEF TypeOK
<1>14. Frame({w}, {})
  BY <1>9 DEF Frame
<1>15. Spares({w}, {})
  BY <1>10, SparesWoken
<1>16. Touched(w)
  <2>1. w \notin free /\ (pc[Idle].at = "reap_free" => pc[Idle].on # w)
    BY Inv DEF ThreadInv, ThreadsOK, Reaping
  <2> QED
    BY <1>10, <2>1 DEF Touched, Awake, Living
<1> QED
  BY <1>7, <1>11, <1>12, <1>13, <1>14, <1>15, <1>16, StepKept

LEMMA SignalIsrSafe ==
  ASSUME Disciplined, ThreadInv, NEW t \in Thread, SignalIsr(t)
  PROVE  Safe
<1>1. /\ t \in Signalled /\ ~BeingStarted(t) /\ k.stat[t] = "SUSPEND"
      /\ k' = Schedule(Resume(k, t)) /\ pc' = pc /\ free' = free
  BY DEF SignalIsr
<1>2. k \in KernelState /\ k.err \in [Thread -> Err]
  <2>1. k \in KernelState
    BY Inv
  <2> QED
    BY <2>1 DEF KernelState
<1>3. Resume(k, t) = InsertThread(Detach(k, t, k.err, k.armed \ {t}), t)
  BY <1>1, <1>2, UnlinkIs DEF Resume
<1> QED
  BY <1>1, <1>2, <1>3, WakeSafe

LEMMA TimerIsrSafe ==
  ASSUME Disciplined, ThreadInv, NEW t \in Thread, TimerIsr(t)
  PROVE  Safe
<1> DEFINE e == [k.err EXCEPT ![t] = "ETIMEOUT"]
           u == Unlink(k, t)
<1>1. /\ t \in k.armed /\ k' = Timeout(k, t) /\ pc' = pc /\ free' = free
  BY DEF TimerIsr
<1>2. /\ k \in KernelState /\ k.armed \subseteq Sleepers
      /\ \A v \in k.armed \ Deleting : k.stat[v] = "SUSPEND"
      /\ \A v \in Thread : v \in Deleting <=> \E d \in Thread : pc[d].at \in Half /\ pc[d].on = v
  BY Inv
<1>3. k.stat[t] = "SUSPEND"
  <2>1. ASSUME NEW d \in Thread, pc[d].at \in Half PROVE pc[d].on # t
    <3>1. pc[d].at \in Deletion
      BY <2>1 DEF Half, Deletion
    <3> QED
      BY <1>1, <1>2, <3>1, InHand
  <2> QED
    BY <1>1, <1>2, <2>1
<1>4. e \in [Thread -> Err]
  BY <1>2 DEF KernelState, Err
<1>5. u \in KernelState /\ u.err = k.err /\ u.armed = k.armed
  <2>1. u \in KernelState
    BY <1>2, UnlinkThins
  <2>2. u.err = k.err /\ u.armed = k.armed
    BY <1>2 DEF Unlink, KernelState
  <2> QED
    BY <2>1, <2>2
<1>6. [Unlink(k, t) EXCEPT !.err[t] = "ETIMEOUT", !.armed = @ \ {t}] =
        Detach(k, t, e, k.armed \ {t})
  <2>1. e = [u.err EXCEPT ![t] = "ETIMEOUT"]
    <3> HIDE DEF u
    <3> QED
      BY <1>5
  <2> HIDE DEF u, e
  <2>2. [u EXCEPT !.err[t] = "ETIMEOUT", !.armed = @ \ {t}] = [u EXCEPT !.err = e, !.armed = k.armed \ {t}]
    BY <1>5, <2>1 DEF KernelState
  <2> QED
    BY <2>2 DEF u, Detach
<1>7. k' = Schedule(InsertThread(Detach(k, t, e, k.armed \ {t}), t))
  <2> HIDE DEF e
  <2> QED
    BY <1>1, <1>6 DEF Timeout
<1> HIDE DEF e, u
<1> QED
  BY <1>1, <1>2, <1>3, <1>4, <1>7, WakeSafe

(* The effects of a step on a thread w that the acting thread manages *)
LEMMA ManagedSafe ==
  ASSUME Disciplined, ThreadInv, NEW c, Acts(c), NEW w \in Manages(c), w \in Thread,
         k'.lock <= MaxNest, free' \subseteq Thread,
         pc' \in [Thread -> [at : Where, on : Thread \cup {Nobody}]],
         Sane(k', Deleting'), Near(k, k', {w}), \A u \in Thread \ {w} : u \in free' <=> u \in free,
         \A d \in Thread \ {c} : pc'[d] = pc[d],
         pc[w].at \in Deletion => k'.stat[w] \in Living,
         pc[w].at \in Asleep => k'.stat[w] # "SUSPEND",
         k'.armed = k.armed, k'.current = k.current, Own(c), Touched(w)
  PROVE  Safe
<1>1. c \in Thread \ {Idle}
  BY DEF Acts
<1>2. TypeOK'
  BY DEF TypeOK, Sane
<1>3. Frame({w}, {c})
  BY DEF Frame
<1>4. Spares({w}, {c})
  BY SparesManaged
<1>5. k'.armed \subseteq Sleepers /\ CriticalStep
  BY Inv DEF CriticalStep
<1> QED
  BY <1>1, <1>2, <1>3, <1>4, <1>5, StepKept

(* What a thread that is not closed has nothing to fear from *)
LEMMA LivingTouched ==
  ASSUME ThreadInv, NEW w \in Thread, k.stat[w] # "CLOSE", free' = free, k'.stat[w] \in Living
  PROVE  Touched(w)
<1>1. w \notin free
  BY DEF ThreadInv, ThreadsOK
<1>2. pc[Idle].at = "reap_free" => pc[Idle].on # w
  BY Inv DEF ThreadInv, Reaping
<1> QED
  BY <1>1, <1>2 DEF Touched, Living

LEMMA MovedOwn ==
  ASSUME ThreadInv, NEW c, Acts(c), pc'[c].at \in Idling, k'.stat[c] # "INIT"
  PROVE  Own(c)
BY NothingInHand DEF Own, Idling, Deletion

LEMMA PutSafe ==
  ASSUME Disciplined, ThreadInv, NEW c, Acts(c), NEW a,
         <<pc[c].at, a>> = <<"resume_insert", "user">> \/ <<pc[c].at, a>> = <<"start_insert", "schedule">>,
         k' = InsertThread(k, pc[c].on), free' = free, Goto(c, a, Nobody)
  PROVE  Safe
<1> DEFINE t == pc[c].on
<1>1. c \in Thread /\ c = k.current /\ pc[c].at \in Waking \cup Started /\ pc[c].at \notin Half
  BY DEF Acts, Waking, Started, Half
<1>2. t \in Thread \ free /\ k.stat[t] = "SUSPEND"
  BY <1>1, InHand
<1>3. t \in Manages(c) /\ t \notin k.armed
  <2>1. CASE pc[c].at \in Waking
    <3>1. t \in Controls[c]
      BY <1>1, <2>1 DEF ThreadInv, CallsOK, Resuming, Waking
    <3>2. t \notin Sleepers
      BY <1>1, <2>1, InHand
    <3> QED
      BY <3>1, <3>2, Inv DEF Manages
  <2>2. CASE pc[c].at \in Started
    BY <1>1, <2>2 DEF ThreadInv, CallsOK, Starting, Started, Manages
  <2> QED
    BY <1>1, <2>1, <2>2
<1>4. t \notin Deleting
  BY <1>1, <1>3, NotDeleting
<1>5. /\ Sane(k, Deleting) /\ k \in KernelState /\ k.stat \in [Thread -> Stat]
  <2>1. Sane(k, Deleting) /\ k \in KernelState
    BY Inv
  <2> QED
    BY <2>1 DEF KernelState
<1> DEFINE s == IF t = k.current THEN "RUNNING" ELSE "READY"
<1>6. /\ Sane(k', Deleting) /\ k'.stat = [k.stat EXCEPT ![t] = s]
      /\ k'.armed = k.armed /\ k'.current = k.current /\ k'.lock = k.lock
      /\ On(k', Defunct) = On(k, Defunct)
  BY <1>2, <1>3, <1>4, <1>5, SanePut
<1>7. s \in Living /\ s # "SUSPEND" /\ s # "INIT"
  BY DEF Living
<1> HIDE DEF t, s
<1>8. Near(k, k', {t})
  <2>1. On(k', Defunct) \subseteq On(k, Defunct) \cup {t}
    BY <1>6
  <2>2. k'.armed \subseteq k.armed \cup {t} /\ k.armed \subseteq k'.armed \cup {t}
    BY <1>6
  <2> QED
    BY <1>2, <1>5, <1>6, <2>1, <2>2, NearOne
<1>9. k'.stat[t] \in Living /\ k'.stat[t] # "SUSPEND"
  BY <1>2, <1>5, <1>6, <1>7
<1>10. /\ pc' \in [Thread -> [at : Where, on : Thread \cup {Nobody}]]
       /\ pc'[c].at = a /\ \A d \in Thread \ {c} : pc'[d] = pc[d]
  <2>1. a \in Where
    BY DEF Where
  <2> QED
    BY <1>1, <2>1, Goes
<1>11. Deleting' = Deleting
  <2>1. pc'[c].at \notin Half
    BY <1>10 DEF Half
  <2> QED
    BY <1>1, <1>10, <2>1, SameDeleting
<1>12. Own(c)
  <2>1. pc'[c].at \in Idling
    BY <1>10 DEF Idling
  <2>2. k.stat[c] # "INIT"
    BY <1>1 DEF Waking, Started, ThreadInv, ThreadsOK, User
  <2>3. k'.stat[c] # "INIT"
    BY <1>1, <1>2, <1>5, <1>6, <1>7, <2>2
  <2> QED
    BY <2>1, <2>3, MovedOwn
<1>13. Touched(t)
  BY <1>2, <1>9, LivingTouched
<1>14. k'.lock <= MaxNest /\ free' \subseteq Thread
  BY <1>6, Inv
<1> QED
  BY <1>2, <1>3, <1>6, <1>8, <1>9, <1>10, <1>11, <1>12, <1>13, <1>14, ManagedSafe

LEMMA ResumeInsertSafe ==
  ASSUME Disciplined, ThreadInv, NEW c \in Thread, ResumeInsert(c)
  PROVE  Safe
<1>1. Acts(c)
  BY CallActs DEF ResumeInsert
<1>2. /\ pc[c].at = "resume_insert" /\ k' = InsertThread(k, pc[c].on) /\ free' = free
      /\ Goto(c, "user", Nobody)
  BY DEF ResumeInsert, At, Return, Goto, User
<1> QED
  BY <1>1, <1>2, PutSafe

LEMMA StartInsertSafe ==
  ASSUME Disciplined, ThreadInv, NEW c \in Thread, StartInsert(c)
  PROVE  Safe
<1>1. Acts(c)
  BY CallActs DEF StartInsert
<1>2. /\ pc[c].at = "start_insert" /\ k' = InsertThread(k, pc[c].on) /\ free' = free
      /\ Goto(c, "schedule", Nobody)
  BY DEF StartInsert, At
<1> QED
  BY <1>1, <1>2, PutSafe

LEMMA SuspendMaskSafe ==
  ASSUME Disciplined, ThreadInv, NEW c \in Thread, SuspendMask(c)
  PROVE  Safe
<1> DEFINE t == pc[c].on
           A == k.armed \ {t}
           s == "SUSPEND"
<1>1. /\ pc[c].at = "suspend_mask" /\ Return(c) /\ free' = free
      /\ k' = [RemoveThread(k, t) EXCEPT !.stat[t] = s, !.armed = @ \ {t}]
  BY DEF SuspendMask, At
<1>2. Acts(c)
  BY CallActs DEF SuspendMask
<1>3. /\ t \in Controls[c] /\ t # c /\ k.stat[t] \in Living /\ t \in Thread \ free
      /\ t \notin Sleepers /\ t \in Manages(c) /\ pc[c].at \notin Half
  BY <1>1, InHand DEF ThreadInv, CallsOK, Suspending, Manages, Half
<1>4. /\ Sane(k, Deleting) /\ k \in KernelState /\ k.armed \subseteq Sleepers
      /\ k.stat \in [Thread -> Stat] /\ k.armed \subseteq Thread
  <2>1. Sane(k, Deleting) /\ k \in KernelState /\ k.armed \subseteq Sleepers
    BY Inv
  <2> QED
    BY <2>1 DEF KernelState
<1>5. t \notin Deleting
  BY <1>3, NotDeleting
<1>6. s \in Stopped /\ s # "CLOSE" /\ A \in SUBSET Thread /\ A \subseteq k.armed \cup {t}
      /\ A = k.armed /\ s \in Living
  <2>1. A = k.armed
    BY <1>3, <1>4
  <2>2. s \in Stopped /\ s # "CLOSE" /\ s \in Living
    BY DEF Stopped, Living
  <2> HIDE DEF A, s
  <2> QED
    BY <1>4, <2>1, <2>2
<1>7. k' = Halt(k, t, s, A)
  <2> HIDE DEF t, s
  <2>1. [RemoveThread(k, t) EXCEPT !.stat[t] = s, !.armed = @ \ {t}] = Halt(k, t, s, k.armed \ {t})
    BY <1>3, <1>4, HaltIs
  <2> QED
    BY <1>1, <2>1
<1> HIDE DEF t, A, s
<1>8. /\ Sane(k', Deleting) /\ k'.stat = [k.stat EXCEPT ![t] = s] /\ k'.armed = k.armed
      /\ k'.current = k.current /\ k'.lock = k.lock /\ On(k', Defunct) = On(k, Defunct) \ {t}
  BY <1>3, <1>4, <1>5, <1>6, <1>7, SaneStop
<1>9. Near(k, k', {t})
  <2>1. On(k', Defunct) \subseteq On(k, Defunct) \cup {t}
    BY <1>8
  <2>2. k'.armed \subseteq k.armed \cup {t} /\ k.armed \subseteq k'.armed \cup {t}
    BY <1>8
  <2> QED
    BY <1>3, <1>4, <1>8, <2>1, <2>2, NearOne
<1>10. k'.stat[t] \in Living /\ \A u \in Thread \ {t} : k'.stat[u] = k.stat[u]
  BY <1>3, <1>4, <1>6, <1>8
<1>11. /\ pc' \in [Thread -> [at : Where, on : Thread \cup {Nobody}]]
       /\ pc'[c].at = "user" /\ \A d \in Thread \ {c} : pc'[d] = pc[d]
  BY <1>1, Returns
<1>12. Deleting' = Deleting
  <2>1. pc'[c].at \notin Half
    BY <1>11 DEF Half
  <2> QED
    BY <1>3, <1>11, <2>1, SameDeleting
<1>13. Own(c)
  <2>1. pc'[c].at \in Idling
    BY <1>11 DEF Idling
  <2>2. k.stat[c] # "INIT"
    BY <1>1 DEF ThreadInv, ThreadsOK, User
  <2>3. k'.stat[c] # "INIT"
    BY <1>3, <1>10, <2>2
  <2> QED
    BY <1>2, <2>1, <2>3, MovedOwn
<1>14. Touched(t)
  BY <1>1, <1>3, <1>10, LivingTouched DEF Living
<1>15. k'.lock <= MaxNest /\ free' \subseteq Thread
  BY <1>1, <1>8, Inv
<1>16. pc[t].at \notin Asleep
  BY <1>3 DEF ThreadInv, CallsOK, Sleeping, Asleep
<1> QED
  BY <1>1, <1>2, <1>3, <1>8, <1>9, <1>10, <1>11, <1>12, <1>13, <1>14, <1>15, <1>16, ManagedSafe

(* A thread that is being deleted deletes none, so it does not stop half-way. *)
LEMMA DeletedDeletesNone ==
  ASSUME Disciplined, ThreadInv, NEW c \in Thread, pc[c].at \in Deletion
  PROVE  LET t == pc[c].on IN
         /\ t \in Deletes[c] /\ t \in Manages(c) /\ t \in Thread \ free /\ t # Idle
         /\ t \notin On(k, Defunct)
         /\ k.stat[t] = "CLOSE" <=> pc[c].at = "delete_insert"
         /\ k.stat[c] \in Living /\ pc[t].at \notin Deletion
         /\ pc[Idle].at = "reap_free" => t # pc[Idle].on
<1> DEFINE t == pc[c].on
<1>1. /\ t \in Deletes[c] \ free /\ t \notin On(k, Defunct)
      /\ k.stat[t] = "CLOSE" <=> pc[c].at = "delete_insert"
      /\ k.stat[c] \in Living
  BY DEF ThreadInv, CallsOK, Removing
<1>2. t \in Thread /\ t # Idle
  BY InHand
<1>3. Deletes[t] = {}
  BY <1>1 DEF Disciplined
<1>4. pc[t].at \notin Deletion
  BY <1>2, <1>3 DEF ThreadInv, CallsOK, Removing
<1>5. pc[Idle].at = "reap_free" => t # pc[Idle].on
  BY Inv DEF ThreadInv, Reaping
<1> QED
  BY <1>1, <1>2, <1>4, <1>5 DEF Manages

LEMMA DeleteCloseSafe ==
  ASSUME Disciplined, ThreadInv, NEW c \in Thread, DeleteClose(c)
  PROVE  Safe
<1> DEFINE t == pc[c].on
           E == Deleting \ {t}
           st == [k.stat EXCEPT ![t] = "CLOSE"]
<1>1. /\ pc[c].at = "delete_close" /\ free' = free /\ Goto(c, "delete_insert", t)
      /\ k' = [k EXCEPT !.stat[t] = "CLOSE"]
  BY DEF DeleteClose, At
<1>2. Acts(c) /\ c = k.current
  BY CallActs DEF DeleteClose, At
<1>3. pc[c].at \in Half /\ pc[c].at \in Deletion /\ "delete_insert" \in Where
      /\ "delete_insert" \notin Half
  BY <1>1 DEF Half, Deletion, Where
<1>4. /\ t \in Deletes[c] /\ t \in Manages(c) /\ t \in Thread \ free /\ t # Idle
      /\ t \notin On(k, Defunct) /\ k.stat[t] # "CLOSE"
      /\ k.stat[c] \in Living /\ pc[t].at \notin Deletion
      /\ pc[Idle].at = "reap_free" => t # pc[Idle].on
  BY <1>1, <1>3, DeletedDeletesNone
<1>5. /\ Sane(k, Deleting) /\ k \in KernelState /\ Deleting \subseteq Thread
      /\ k.current \in Thread \ Deleting
      /\ \A u \in Thread : u \in Deleting <=> \E d \in Thread : pc[d].at \in Half /\ pc[d].on = u
  BY Inv
<1>6. t \in Deleting /\ t # c
  BY <1>2, <1>3, <1>4, <1>5
<1>7. st \in [Thread -> Stat] /\ k.stat \in [Thread -> Stat]
  BY <1>5 DEF KernelState, Stat
<1>8. /\ k' \in KernelState /\ k'.list = k.list /\ k'.group = k.group /\ k'.prio = k.prio
      /\ k'.current = k.current /\ k'.armed = k.armed /\ k'.lock = k.lock /\ k'.stat = st
  <2>1. k' = [k EXCEPT !.stat = st]
    BY <1>1
  <2> HIDE DEF st
  <2> QED
    BY <1>5, <1>7, <2>1 DEF KernelState
<1>9. /\ pc' \in [Thread -> [at : Where, on : Thread \cup {Nobody}]]
      /\ pc'[c].at = "delete_insert" /\ pc'[c].on = t
      /\ \A d \in Thread \ {c} : pc'[d] = pc[d]
  <2> HIDE DEF t
  <2> QED
    BY <1>1, <1>3, <1>4, Goes
<1>10. Deleting' = E
  <2>1. ASSUME NEW d \in Thread \ {c}, pc[d].at \in Half PROVE pc[d].on # t
    <3>1. pc[d].at \in Deletion
      BY <2>1 DEF Half, Deletion
    <3> QED
      BY <1>4, <3>1, InHand
  <2>2. Deleting' = {pc'[d].on : d \in {e \in Thread : pc'[e].at \in Half}}
    BY DEF Deleting, Half
  <2>3. ASSUME NEW u PROVE u \in Deleting' <=> u \in E
    <3>1. u \in Deleting <=> \E d \in Thread : pc[d].at \in Half /\ pc[d].on = u
      BY DEF Deleting, Half
    <3>2. u \in Deleting' <=> \E d \in Thread : pc'[d].at \in Half /\ pc'[d].on = u
      BY <2>2
    <3> QED
      BY <1>3, <1>9, <2>1, <3>1, <3>2
  <2> QED
    BY <2>3
<1>11. Sane(k', E) /\ On(k', Defunct) = On(k, Defunct)
  <2>1. Hide(k', E).stat = Hide(k, Deleting).stat
    <3>1. /\ Hide(k', E).stat = [u \in Thread |-> IF u \in E THEN "CLOSE" ELSE k'.stat[u]]
          /\ Hide(k, Deleting).stat = [u \in Thread |-> IF u \in Deleting THEN "CLOSE" ELSE k.stat[u]]
      <4> HIDE DEF E, st, t
      <4>1. Hide(k', E).stat = [u \in Thread |-> IF u \in E THEN "CLOSE" ELSE k'.stat[u]]
        BY <1>8, HideFields
      <4>2. Hide(k, Deleting).stat = [u \in Thread |-> IF u \in Deleting THEN "CLOSE" ELSE k.stat[u]]
        BY <1>5, HideFields
      <4> QED
        BY <4>1, <4>2
    <3> QED
      BY <1>4, <1>6, <1>7, <1>8, <3>1
  <2>2. E \in SUBSET Thread /\ k.current \notin E /\ k'.armed \subseteq k.armed
    BY <1>5, <1>8
  <2> HIDE DEF E
  <2> QED
    BY <1>5, <1>8, <2>1, <2>2, SaneFrame
<1> HIDE DEF t, E, st
<1>12. Near(k, k', {t})
  <2>1. /\ On(k', Defunct) \subseteq On(k, Defunct) \cup {t}
        /\ k'.armed \subseteq k.armed \cup {t} /\ k.armed \subseteq k'.armed \cup {t}
    BY <1>8, <1>11
  <2>2. k'.stat = [k.stat EXCEPT ![t] = "CLOSE"]
    BY <1>8 DEF st
  <2> QED
    BY <1>4, <1>7, <1>8, <2>1, <2>2, NearOne
<1>13. k'.stat[t] = "CLOSE" /\ k'.stat[c] = k.stat[c]
  BY <1>2, <1>4, <1>5, <1>6, <1>7, <1>8 DEF st
<1>14. Own(c)
  <2>1. CallOK(c)'
    BY <1>1, <1>4, <1>9, <1>11, <1>13
    DEF CallOK, Resuming, Starting, Suspending, Removing, Sleeping, On
  <2> QED
    BY <1>4, <1>9, <1>13, <2>1 DEF Own, Living
<1>15. Touched(t)
  BY <1>1, <1>4, <1>13 DEF Touched
<1>16. k'.lock <= MaxNest /\ free' \subseteq Thread
  BY <1>1, <1>8, Inv
<1> QED
  BY <1>1, <1>2, <1>4, <1>8, <1>9, <1>10, <1>11, <1>12, <1>13, <1>14, <1>15, <1>16, ManagedSafe

LEMMA DeleteInsertSafe ==
  ASSUME Disciplined, ThreadInv, NEW c \in Thread, DeleteInsert(c)
  PROVE  Safe
<1> DEFINE t == pc[c].on
<1>1. /\ pc[c].at = "delete_insert" /\ Return(c)
      /\ k' = IF t \in Static THEN k ELSE ToDefunct(k, t)
      /\ free' = IF t \in Static THEN free \cup {t} ELSE free
  BY DEF DeleteInsert, At
<1>2. Acts(c)
  BY CallActs DEF DeleteInsert
<1>3. pc[c].at \notin Half /\ pc[c].at \in Deletion
  BY <1>1 DEF Half, Deletion
<1>4. /\ t \in Manages(c) /\ t \in Thread \ free /\ t # Idle
      /\ t \notin On(k, Defunct) /\ k.stat[t] = "CLOSE"
      /\ k.stat[c] \in Living /\ pc[t].at \notin Deletion
      /\ pc[Idle].at = "reap_free" => t # pc[Idle].on
  BY <1>1, <1>3, DeletedDeletesNone
<1>5. Sane(k, Deleting) /\ free \subseteq Thread /\ k.lock <= MaxNest
  BY Inv
<1> HIDE DEF t
<1>6. /\ Sane(k', Deleting) /\ k'.stat = k.stat /\ k'.armed = k.armed
      /\ k'.current = k.current /\ k'.lock = k.lock
      /\ On(k', Defunct) = IF t \in Static THEN On(k, Defunct) ELSE On(k, Defunct) \cup {t}
  <2>1. CASE t \in Static
    BY <1>1, <1>5, <2>1
  <2>2. CASE t \notin Static
    <3>1. k' = ToDefunct(k, t)
      BY <1>1, <2>2
    <3> QED
      BY <1>4, <1>5, <2>2, <3>1, SaneDefunct
  <2> QED
    BY <2>1, <2>2
<1>7. /\ pc' \in [Thread -> [at : Where, on : Thread \cup {Nobody}]]
      /\ pc'[c].at = "user" /\ \A d \in Thread \ {c} : pc'[d] = pc[d]
  BY <1>1, Returns
<1>8. Deleting' = Deleting
  <2>1. pc'[c].at \notin Half
    BY <1>7 DEF Half
  <2> QED
    BY <1>3, <1>7, <2>1, SameDeleting
<1>9. Near(k, k', {t})
  BY <1>6 DEF Near
<1>10. Own(c)
  <2>1. pc'[c].at \in Idling /\ k'.stat[c] # "INIT"
    BY <1>4, <1>6, <1>7 DEF Idling, Living
  <2> QED
    BY <1>2, <2>1, MovedOwn
<1>11. Touched(t)
  BY <1>1, <1>4, <1>6 DEF Touched
<1>12. k'.lock <= MaxNest /\ free' \subseteq Thread /\ \A u \in Thread \ {t} : u \in free' <=> u \in free
  BY <1>1, <1>4, <1>5, <1>6
<1> QED
  BY <1>2, <1>4, <1>6, <1>7, <1>8, <1>9, <1>10, <1>11, <1>12, ManagedSafe

(* rt_thread_init and rt_thread_startup, as the kernel is seen *)
LEMMA RetagNear ==
  ASSUME ThreadInv, NEW t \in Thread \ Deleting, t # k.current,
         k.stat[t] \in Dormant, t \notin On(k, Defunct), NEW s \in Parked,
         k' \in KernelState, k'.list = k.list, k'.group = k.group,
         \A u \in Thread \ {t} : k'.prio[u] = k.prio[u],
         k'.current = k.current, k'.armed = k.armed, k'.stat = [k.stat EXCEPT ![t] = s]
  PROVE  Sane(k', Deleting) /\ On(k', Defunct) = On(k, Defunct) /\ Near(k, k', {t})
<1> DEFINE D == Deleting
<1>1. Sane(k, D) /\ k \in KernelState /\ D \subseteq Thread /\ k.current \notin D
  BY Inv
<1>2. k.stat \in [Thread -> Stat]
  BY <1>1 DEF KernelState
<1> HIDE DEF D
<1>3. Hide(k', D).stat = [Hide(k, D).stat EXCEPT ![t] = s]
  <2>1. t \notin D
    BY DEF D
  <2>2. \A kk, r \in KernelState, u \in Thread \ D, v \in Parked :
          r.stat = [kk.stat EXCEPT ![u] = v]
            => Hide(r, D).stat = [Hide(kk, D).stat EXCEPT ![u] = v]
    BY SMTT(30), HideRetag
  <2>3. t \in Thread \ D
    BY <2>1
  <2> QED
    BY SMTT(30), <1>1, <2>2, <2>3
<1>4. Sane(k', D) /\ On(k', Defunct) = On(k, Defunct)
  <2>1. D \in SUBSET Thread /\ t \in Thread \ D
    BY <1>1 DEF D
  <2> QED
    BY <1>1, <1>3, <2>1, SaneRetag
<1>5. Near(k, k', {t})
  <2>1. /\ On(k', Defunct) \subseteq On(k, Defunct) \cup {t}
        /\ k'.armed \subseteq k.armed \cup {t} /\ k.armed \subseteq k'.armed \cup {t}
    BY <1>4
  <2> QED
    BY <1>2, <2>1, NearOne
<1> QED
  BY <1>4, <1>5 DEF D

LEMMA CreateSafe ==
  ASSUME Disciplined, ThreadInv, NEW c \in Thread, NEW t \in Thread, Create(c, t)
  PROVE  Safe
<1> DEFINE st == [k.stat EXCEPT ![t] = "INIT"]
           pr == [k.prio EXCEPT ![t] = BasePrio[t]]
           er == [k.err EXCEPT ![t] = "EOK"]
<1>1. /\ k.stat[c] = "RUNNING" /\ c = k.current /\ t \in free /\ free' = free \ {t}
      /\ pc' = [pc EXCEPT ![t] = User]
      /\ k' = [k EXCEPT !.stat = st, !.prio = pr, !.err = er]
  BY UserActs DEF Create, Acts
<1>2. /\ k \in KernelState /\ k.armed \subseteq Sleepers /\ k.lock <= MaxNest /\ free \subseteq Thread
      /\ pc \in [Thread -> [at : Where, on : Thread \cup {Nobody}]]
      /\ \A u \in Thread : u \in Deleting <=> \E d \in Thread : pc[d].at \in Half /\ pc[d].on = u
  BY Inv
<1>3. k.stat[t] = "CLOSE" /\ t \notin On(k, Defunct) /\ t # c /\ t # Idle
  BY <1>1 DEF ThreadInv, ThreadsOK, Reaping, Living
<1>4. ASSUME NEW d \in Thread
      PROVE  pc[d].at \in Waking \cup Started \cup Deletion \cup {"suspend_mask"} => pc[d].on # t
  BY <1>1, InHand
<1>5. t \notin Deleting
  <2>1. Half \subseteq Deletion
    BY DEF Half, Deletion
  <2> QED
    BY <1>2, <1>4, <2>1
<1>6. BasePrio[t] \in Prio
  BY ThreadAssumption DEF StartOrder
<1>7. /\ k' \in KernelState /\ k'.list = k.list /\ k'.group = k.group /\ k'.prio = pr
      /\ k'.current = k.current /\ k'.armed = k.armed /\ k'.lock = k.lock /\ k'.stat = st
  <2>1. st \in [Thread -> Stat] /\ pr \in [Thread -> Prio] /\ er \in [Thread -> Err]
    BY <1>2, <1>6 DEF KernelState, Stat, Err
  <2> HIDE DEF st, pr, er
  <2> QED
    BY <1>1, <1>2, <2>1 DEF KernelState
<1>8. Sane(k', Deleting) /\ Near(k, k', {t})
  <2> DEFINE s == "INIT"
  <2>1. s \in Parked /\ k.stat[t] \in Dormant
    BY <1>3 DEF Parked, Dormant
  <2>2. \A u \in Thread \ {t} : k'.prio[u] = k.prio[u]
    BY <1>2, <1>7 DEF KernelState
  <2>3. k'.stat = [k.stat EXCEPT ![t] = s] /\ t # k.current /\ t \in Thread \ Deleting
    BY <1>1, <1>3, <1>5, <1>7
  <2> HIDE DEF s
  <2> QED
    BY <1>3, <1>7, <2>1, <2>2, <2>3, RetagNear
<1>9. k'.stat[t] = "INIT"
  BY <1>2, <1>7 DEF KernelState
<1>10. User \in [at : Where, on : Thread \cup {Nobody}] /\ User.at = "user"
  BY DEF User, Where
<1>11. /\ pc' \in [Thread -> [at : Where, on : Thread \cup {Nobody}]]
       /\ pc'[t] = User /\ \A d \in Thread \ {t} : pc'[d] = pc[d]
  <2> HIDE DEF User
  <2> QED
    BY <1>1, <1>2, <1>10
<1>12. Deleting' = Deleting
  <2>1. pc[t].at \notin Deletion
    BY <1>3 DEF ThreadInv, CallsOK, Removing, Living
  <2>2. pc[t].at \notin Half /\ pc'[t].at \notin Half
    BY <1>10, <1>11, <2>1 DEF Half, Deletion
  <2> QED
    BY <1>11, <2>2, SameDeleting
<1>13. TypeOK'
  BY <1>1, <1>2, <1>7, <1>11 DEF TypeOK
<1>14. Frame({t}, {t})
  BY <1>1, <1>8, <1>11 DEF Frame
<1>15. Spares({t}, {t})
  BY <1>4 DEF Spares
<1>16. Own(t)
  <2>1. pc'[t].at = "user"
    BY <1>10, <1>11
  <2>2. CallOK(t)'
    BY <2>1, NothingInHand DEF Idling
  <2> QED
    BY <1>11, <2>1, <2>2 DEF Own, Deletion
<1>17. Touched(t)
  <2>1. pc[Idle].at = "reap_free" => pc[Idle].on # t
    BY <1>1, Inv DEF ThreadInv, Reaping
  <2> QED
    BY <1>1, <1>3, <1>7, <1>9, <1>11, <2>1 DEF Touched
<1>18. k'.armed \subseteq Sleepers /\ CriticalStep
  BY <1>2, <1>7 DEF CriticalStep
<1> QED
  BY <1>3, <1>8, <1>12, <1>13, <1>14, <1>15, <1>16, <1>17, <1>18, StepKept

LEMMA StartupSafe ==
  ASSUME Disciplined, ThreadInv, NEW c \in Thread, NEW t \in Thread, Startup(c, t)
  PROVE  Safe
<1> DEFINE st == [k.stat EXCEPT ![t] = "SUSPEND"]
           pr == [k.prio EXCEPT ![t] = BasePrio[t]]
<1>1. /\ Acts(c) /\ pc[c].at = "user" /\ k.stat[c] = "RUNNING" /\ c = k.current
      /\ t \in Creates[c] \ free /\ free' = free /\ k.stat[t] = "INIT"
      /\ Goto(c, "start_unlink", t)
      /\ k' = [k EXCEPT !.stat = st, !.prio = pr]
  BY UserActs DEF Startup, Acts
<1>2. /\ k \in KernelState /\ k.lock <= MaxNest /\ free \subseteq Thread
      /\ \A u \in k.armed \ Deleting : k.stat[u] = "SUSPEND"
      /\ \A u \in On(k, Defunct) \ Deleting : k.stat[u] = "CLOSE"
  BY Inv
<1>3. t \in Manages(c) /\ t \notin Deleting
  BY <1>1, NotDeleting DEF Manages, Half
<1>4. t # c /\ t # Idle /\ t \notin k.armed /\ t \notin On(k, Defunct) /\ pc[t] = User
  BY <1>1, <1>2, <1>3 DEF ThreadInv, ThreadsOK, Reaping, Living
<1>5. BasePrio[t] \in Prio
  BY ThreadAssumption DEF StartOrder
<1>6. /\ k' \in KernelState /\ k'.list = k.list /\ k'.group = k.group /\ k'.prio = pr
      /\ k'.current = k.current /\ k'.armed = k.armed /\ k'.lock = k.lock /\ k'.stat = st
  <2>1. st \in [Thread -> Stat] /\ pr \in [Thread -> Prio]
    BY <1>2, <1>5 DEF KernelState, Stat
  <2> HIDE DEF st, pr
  <2> QED
    BY <1>1, <1>2, <2>1 DEF KernelState
<1>7. Sane(k', Deleting) /\ Near(k, k', {t})
  <2> DEFINE s == "SUSPEND"
  <2>1. s \in Parked /\ k.stat[t] \in Dormant
    BY <1>1 DEF Parked, Dormant
  <2>2. \A u \in Thread \ {t} : k'.prio[u] = k.prio[u]
    BY <1>2, <1>6 DEF KernelState
  <2>3. k'.stat = [k.stat EXCEPT ![t] = s] /\ t # k.current /\ t \in Thread \ Deleting
    BY <1>1, <1>3, <1>4, <1>6
  <2> HIDE DEF s
  <2> QED
    BY <1>4, <1>6, <2>1, <2>2, <2>3, RetagNear
<1>8. k'.stat[t] = "SUSPEND" /\ k'.stat[c] = "RUNNING" /\ k'.stat[t] \in Living
  BY <1>1, <1>2, <1>4, <1>6 DEF KernelState, Living
<1>9. /\ pc' \in [Thread -> [at : Where, on : Thread \cup {Nobody}]]
      /\ pc'[c].at = "start_unlink" /\ pc'[c].on = t
      /\ \A d \in Thread \ {c} : pc'[d] = pc[d]
  <2>1. "start_unlink" \in Where
    BY DEF Where
  <2> QED
    BY <1>1, <2>1, Goes
<1>10. Deleting' = Deleting
  <2>1. pc[c].at \notin Half /\ pc'[c].at \notin Half
    BY <1>1, <1>9 DEF Half
  <2> QED
    BY <1>9, <2>1, SameDeleting
<1>11. Own(c)
  <2>1. pc'[t] = User
    BY <1>4, <1>9
  <2>2. CallOK(c)'
    BY <1>1, <1>4, <1>6, <1>8, <1>9, <2>1
    DEF CallOK, Resuming, Starting, Suspending, Removing, Sleeping, Deletion
  <2> QED
    BY <1>8, <1>9, <2>2 DEF Own, Deletion
<1>12. Touched(t)
  BY <1>1, <1>8, LivingTouched
<1>13. pc[t].at \notin Deletion /\ pc[t].at \notin Asleep
  BY <1>4 DEF User, Deletion, Asleep
<1> QED
  BY <1>1, <1>2, <1>3, <1>6, <1>7, <1>9, <1>10, <1>11, <1>12, <1>13, ManagedSafe

-----------------------------------------------------------------------------
LEMMA ThreadInit ==
  ASSUME Init
  PROVE  ThreadInv
<1>1. StartOrder(First, BasePrio, ReadyOrder) /\ Idle \in Thread /\ MaxNest \in Nat
      /\ BasePrio[Idle] = MaxPrio - 1
  BY ThreadAssumption
<1>2. /\ KernelOK(k) /\ \A q \in Queue : On(k, q) = {}
      /\ \A t \in Thread : k.stat[t] \in {"READY", "RUNNING"}
      /\ k.lock = 0
  BY <1>1, StartedOK DEF Init
<1>3. k \in KernelState /\ k.armed = {}
  BY <1>2 DEF KernelOK, Init, StartedKernel
<1>4. User \in [at : Where, on : Thread \cup {Nobody}] /\ User.at = "user"
  BY DEF User, Where
<1>5. pc \in [Thread -> [at : Where, on : Thread \cup {Nobody}]] /\ \A t \in Thread : pc[t] = User
  <2> HIDE DEF User
  <2> QED
    BY <1>4 DEF Init
<1>6. free = {}
  BY DEF Init
<1>7. TypeOK
  BY <1>1, <1>2, <1>3, <1>5, <1>6 DEF TypeOK
<1>8. Deleting = {}
  BY <1>4, <1>5 DEF Deleting
<1>9. Sane(k, {})
  <2>1. Hide(k, {}) = k
    BY <1>3, HideNothing
  <2> QED
    BY <1>2, <1>3, <2>1 DEF Sane, KernelState
<1>10. CallsOK
  BY <1>4, <1>5 DEF CallsOK, Resuming, Starting, Suspending, Removing, Sleeping, Deletion
<1>11. Reaping
  BY <1>1, <1>2, <1>4, <1>5 DEF Reaping, Living
<1>12. ThreadsOK
  BY <1>3, <1>5, <1>6 DEF ThreadsOK
<1> QED
  BY <1>7, <1>8, <1>9, <1>10, <1>11, <1>12 DEF ThreadInv

LEMMA StutterSafe ==
  ASSUME ThreadInv, UNCHANGED vars
  PROVE  Safe
<1>1. k' = k /\ pc' = pc /\ free' = free
  BY DEF vars
<1>2. k' \in KernelState /\ k'.lock <= MaxNest
  BY <1>1, Inv
<1>3. Sane(k', Deleting) /\ Near(k, k', {}) /\ CriticalStep
  BY <1>1, <1>2, FieldsNear
<1> QED
  BY <1>1, <1>2, <1>3, QuietStay

LEMMA ThreadStep ==
  ASSUME Disciplined, ThreadInv, [Next]_vars
  PROVE  Safe
<1>1. CASE UNCHANGED vars
  BY <1>1, StutterSafe
<1>2. CASE Isr
  <2>1. CASE SliceIsr
    BY <2>1, RescheduleSafe DEF SliceIsr
  <2>2. CASE \E t \in Thread : SignalIsr(t) \/ TimerIsr(t)
    BY <2>2, SignalIsrSafe, TimerIsrSafe
  <2> QED
    BY <1>2, <2>1, <2>2 DEF Isr
<1>3. CASE ReapTake
  BY <1>3, ReapTakeSafe
<1>4. CASE ReapFree
  BY <1>4, ReapFreeSafe
<1>5. ASSUME NEW c \in Thread, Call(c) PROVE Safe
  <2>1. ASSUME NEW t \in Thread, Operate(c, t) PROVE Safe
    <3>1. CASE Create(c, t)
      BY <3>1, CreateSafe
    <3>2. CASE Startup(c, t)
      BY <3>2, StartupSafe
    <3>3. CASE ResumeTest(c, t)
      BY <3>3, ResumeTestSafe
    <3>4. CASE SuspendTest(c, t)
      BY <3>4, SuspendTestSafe
    <3>5. CASE SetPriority(c, t)
      BY <3>5, SetPrioritySafe
    <3>6. CASE Delete(c, t)
      BY <3>6, DeleteSafe
    <3> QED
      BY <2>1, <3>1, <3>2, <3>3, <3>4, <3>5, <3>6 DEF Operate
  <2>2. CASE Yield(c)
    BY <2>2, RescheduleSafe DEF Yield
  <2>3. CASE SuspendSelf(c)
    BY <2>3, SuspendSelfSafe
  <2>4. CASE SleepCall(c)
    BY <2>4, SleepCallSafe
  <2>5. CASE Exit(c)
    BY <2>5, ExitSafe
  <2>6. CASE EnterCritical(c)
    BY <2>6, EnterCriticalSafe
  <2>7. CASE ExitCritical(c)
    BY <2>7, ExitCriticalSafe
  <2> QED
    BY <1>5, <2>1, <2>2, <2>3, <2>4, <2>5, <2>6, <2>7 DEF Call
<1>6. ASSUME NEW c \in Thread, InCall(c) PROVE Safe
  <2>1. CASE CallSchedule(c)
    BY <2>1, CallScheduleSafe
  <2>2. CASE SuspendMask(c)
    BY <2>2, SuspendMaskSafe
  <2>3. CASE ResumeUnlink(c, "resume_unlink", "resume_insert")
    BY <2>3, ResumeUnlinkSafe
  <2>4. CASE ResumeInsert(c)
    BY <2>4, ResumeInsertSafe
  <2>5. CASE ResumeUnlink(c, "start_unlink", "start_insert")
    BY <2>5, ResumeUnlinkSafe
  <2>6. CASE StartInsert(c)
    BY <2>6, StartInsertSafe
  <2>7. CASE SleepSchedule(c)
    BY <2>7, SleepScheduleSafe
  <2>8. CASE SleepEnd(c)
    BY <2>8, SleepEndSafe
  <2>9. CASE ExitSchedule(c)
    BY <2>9, ExitScheduleSafe
  <2>10. CASE DeleteTimer(c)
    BY <2>10, DeleteTimerSafe
  <2>11. CASE DeleteClose(c)
    BY <2>11, DeleteCloseSafe
  <2>12. CASE DeleteInsert(c)
    BY <2>12, DeleteInsertSafe
  <2> QED
    BY <1>6, <2>1, <2>2, <2>3, <2>4, <2>5, <2>6, <2>7, <2>8, <2>9, <2>10, <2>11, <2>12
    DEF InCall
<1> QED
  BY <1>1, <1>2, <1>3, <1>4, <1>5, <1>6 DEF Next

-----------------------------------------------------------------------------
(* The kernel as it is seen agrees with itself, each call still finds what  *)
(* it has tested, and what is freed stays closed and on no list, whatever   *)
(* the interleaving of the multi-step calls of thread.c and idle.c with     *)
(* interrupts, when the threads are disciplined.                            *)
THEOREM ThreadInvariant ==
  ASSUME Disciplined
  PROVE  Spec => []ThreadInv
<1>1. Init => ThreadInv
  BY ThreadInit
<1>2. ThreadInv /\ [Next]_vars => ThreadInv'
  BY ThreadStep DEF Safe
<1> QED
  BY <1>1, <1>2, PTL DEF Spec

(* The variables of thread.c and scheduler.c keep their types, and the      *)
(* nesting of rt_enter_critical its bound.                                  *)
THEOREM ThreadTypes ==
  ASSUME Disciplined
  PROVE  Spec => []TypeOK
<1>1. ThreadInv => TypeOK
  BY DEF ThreadInv
<1> QED
  BY <1>1, ThreadInvariant, PTL

(* The lists, the bitmap, the timers and the states agree through           *)
(* rt_thread_startup, suspend, resume, control, delete and exit, and a      *)
(* thread asleep in rt_thread_sleep always has its timer running.           *)
THEOREM ThreadConsistent ==
  ASSUME Disciplined
  PROVE  Spec => []Consistent
<1>1. ASSUME ThreadInv PROVE Consistent
  <2>1. Seen = Hide(k, Deleting)
    BY DEF Seen, Hide
  <2>2. KernelConsistent(Hide(k, Deleting))
    BY <1>1 DEF ThreadInv, Sane, KernelOK
  <2>3. \A t \in Thread : pc[t].at \in {"sleep_sched", "sleep_return"} /\ k.stat[t] = "SUSPEND"
           => t \in k.armed
    BY <1>1 DEF ThreadInv, CallsOK, Sleeping
  <2> QED
    BY <2>1, <2>2, <2>3 DEF Consistent
<1> QED
  BY <1>1, ThreadInvariant, PTL

(* When rt_thread_idle_excute frees a stack, its thread is closed, on no    *)
(* list, without a timer, and not the one that runs, unless it is static.   *)
THEOREM ThreadFreedIsGone ==
  ASSUME Disciplined
  PROVE  Spec => []FreedIsGone
<1>1. ASSUME ThreadInv PROVE FreedIsGone
  <2>1. ASSUME NEW t \in Thread, k.stat[t] = "CLOSE", t \notin On(k, Defunct)
        PROVE  (\A l \in ListId : t \notin On(k, l)) /\ t \notin k.armed
    <3> DEFINE h == Hide(k, Deleting)
    <3>1. /\ KernelConsistent(h) /\ \A q \in Queue : On(k, q) = {}
      BY <1>1 DEF ThreadInv, Sane, KernelOK
    <3>2. /\ h.stat[t] = "CLOSE" /\ h.armed = k.armed /\ h.prio = k.prio
          /\ \A l \in ListId : On(h, l) = On(k, l)
      BY <1>1, <2>1, Inv, SaneSeen
    <3> HIDE DEF h
    <3>3. \A p \in Prio : t \notin On(k, p)
      BY <3>1, <3>2, ListKinds DEF KernelConsistent, ReadyListed
    <3>4. t \notin k.armed
      BY <3>1, <3>2 DEF KernelConsistent, TimersForSuspended
    <3> QED
      BY <2>1, <3>1, <3>3, <3>4, ListKinds
  <2>2. ASSUME NEW t \in free
        PROVE  t \in Thread /\ k.stat[t] = "CLOSE" /\ t \notin On(k, Defunct)
               /\ (t = k.current => t \in Static)
    BY <1>1, Inv DEF ThreadInv, ThreadsOK
  <2>3. ASSUME pc[Idle].on # Nobody
        PROVE  LET t == pc[Idle].on IN
               t \in Thread /\ k.stat[t] = "CLOSE" /\ t \notin On(k, Defunct) /\ t # k.current
    <3>1. pc[Idle].at = "reap_free" /\ Idle \in Thread
      BY <1>1, <2>3, Inv DEF ThreadInv, Reaping, User
    <3> QED
      BY <1>1, <3>1 DEF ThreadInv, Reaping
  <2> QED
    BY <2>1, <2>2, <2>3 DEF FreedIsGone
<1> QED
  BY <1>1, ThreadInvariant, PTL

(* A thread that rt_thread_exit or rt_thread_delete has closed does not run *)
(* again before it is created anew.                                         *)
THEOREM ThreadClosedIsFinal ==
  ASSUME Disciplined
  PROVE  Spec => ClosedIsFinal
<1>1. ThreadInv /\ [Next]_vars =>
        [\A t \in Thread : k.stat[t] = "CLOSE" =>
           /\ k'.stat[t] = "CLOSE" \/ (t \in free /\ k'.stat[t] = "INIT")
           /\ t = k'.current => t = k.current]_vars
  BY ThreadStep DEF Safe, ClosedStep
<1> QED
  BY <1>1, ThreadInvariant, PTL DEF Spec, ClosedIsFinal

(* Nothing takes the processor from a thread between rt_enter_critical and  *)
(* the matching rt_exit_critical.                                           *)
THEOREM ThreadCriticalKeepsProcessor ==
  ASSUME Disciplined
  PROVE  Spec => CriticalKeepsProcessor
<1>1. ThreadInv /\ [Next]_vars => [k.lock > 0 => k'.current = k.current]_vars
  BY ThreadStep DEF Safe, CriticalStep
<1> QED
  BY <1>1, ThreadInvariant, PTL DEF Spec, CriticalKeepsProcessor
=============================================================================
