----------------------------- MODULE TimerProofs -----------------------------
(***************************************************************************)
(* Proofs about the hard timers: the list stays sorted while the tick      *)
(* wraps around and operations are preempted, and the tick interrupt calls *)
(* each timer neither before its time nor after it.                        *)
(***************************************************************************)
EXTENDS Timer, ListProofs

-----------------------------------------------------------------------------
(* Ticks *)

LEMMA HalfRange ==
  /\ TickRange \in Nat /\ TickRange > 3 /\ MaxLag \in Nat
  /\ TickMax = TickRange - 1 /\ Tick = 0 .. TickRange - 1
  /\ Half \in Nat /\ Half > 0 /\ 2 * Half <= TickRange - 1 /\ Half + 1 <= TickRange - Half
  /\ \A x \in Times : x \in Nat /\ x < Half
<1>1. /\ TickRange \in Nat /\ TickRange > 3 /\ MaxLag \in Nat
      /\ Times \subseteq 0 .. Half - 1
  BY TimerAssumption
<1>2. /\ TickMax = TickRange - 1 /\ Tick = 0 .. TickRange - 1
      /\ Half = (TickRange - 1) \div 2
  BY DEF TickMax, Tick, Half
<1>3. /\ (TickRange - 1) \div 2 \in Nat /\ 2 * ((TickRange - 1) \div 2) <= TickRange - 1
      /\ (TickRange - 1) \div 2 > 0
  BY <1>1
<1>4. Half \in Nat /\ Half > 0 /\ 2 * Half <= TickRange - 1 /\ Half + 1 <= TickRange - Half
  BY <1>1, <1>2, <1>3
<1> HIDE DEF Half
<1>5. \A x \in Times : x \in Nat /\ x < Half
  BY <1>1, <1>4
<1> QED
  BY <1>1, <1>2, <1>4, <1>5

(* A number of ticks that is within half the range *)
Close(n) == n \in Int /\ -Half < n /\ n < Half

(* The unsigned difference of two time-outs that are due close to now *)
LEMMA MinusDue ==
  ASSUME NEW k \in Tick, NEW a, NEW b, Close(a), Close(b)
  PROVE  Minus((k + a) % TickRange, (k + b) % TickRange)
           = IF a >= b THEN a - b ELSE a - b + TickRange
<1> DEFINE r == TickRange
           h == Half
           x == (k + a) % r
           y == (k + b) % r
<1>1. /\ r \in Nat /\ r > 3 /\ k \in 0 .. r - 1 /\ h \in Nat /\ 2 * h <= r - 1
      /\ a \in Int /\ -h < a /\ a < h /\ b \in Int /\ -h < b /\ b < h
  BY HalfRange DEF Close
<1> HIDE DEF r, h
<1>2. k + a \in Int /\ -r <= k + a /\ k + a < 2 * r /\ k + b \in Int /\ -r <= k + b /\ k + b < 2 * r
  BY <1>1
<1>3. /\ x = (IF k + a < 0 THEN k + a + r ELSE IF k + a < r THEN k + a ELSE k + a - r)
      /\ x \in 0 .. r - 1
  BY <1>1, <1>2
<1>4. /\ y = (IF k + b < 0 THEN k + b + r ELSE IF k + b < r THEN k + b ELSE k + b - r)
      /\ y \in 0 .. r - 1
  BY <1>1, <1>2
<1> HIDE DEF x, y
<1>5. x - y \in Int /\ -r <= x - y /\ x - y < 2 * r /\ (x - y < r)
  BY <1>1, <1>3, <1>4
<1>6. (x - y) % r = IF x - y < 0 THEN x - y + r ELSE x - y
  BY <1>1, <1>5
<1>7. \/ x - y = a - b \/ x - y = a - b + r \/ x - y = a - b - r
  BY <1>1, <1>3, <1>4
<1>8. (x - y) % r = IF a >= b THEN a - b ELSE a - b + r
  BY <1>1, <1>3, <1>4, <1>5, <1>6, <1>7
<1> QED
  BY <1>8 DEF Minus, x, y, r

(* A time-out does not move when the tick advances. *)
LEMMA NextTick ==
  ASSUME NEW k \in Tick, NEW a, Close(a)
  PROVE  /\ (k + 1) % TickRange \in Tick
         /\ (k + a) % TickRange \in Tick
         /\ (k + a) % TickRange = (((k + 1) % TickRange) + (a - 1)) % TickRange
<1> DEFINE r == TickRange
           h == Half
           k1 == (k + 1) % r
<1>1. /\ r \in Nat /\ r > 3 /\ k \in 0 .. r - 1 /\ h \in Nat /\ 2 * h <= r - 1
      /\ a \in Int /\ -h < a /\ a < h /\ Tick = 0 .. r - 1
  BY HalfRange DEF Close
<1> HIDE DEF r, h
<1>2. /\ k + 1 \in Int /\ -r <= k + 1 /\ k + 1 < 2 * r
      /\ k + a \in Int /\ -r <= k + a /\ k + a < 2 * r
  BY <1>1
<1>3. k1 = (IF k + 1 < r THEN k + 1 ELSE k + 1 - r) /\ k1 \in 0 .. r - 1
  BY <1>1, <1>2
<1>4. /\ (k + a) % r = (IF k + a < 0 THEN k + a + r ELSE IF k + a < r THEN k + a ELSE k + a - r)
      /\ (k + a) % r \in 0 .. r - 1
  BY <1>1, <1>2
<1> DEFINE n == k1 + (a - 1)
<1>5. n \in Int /\ -r <= n /\ n < 2 * r
  BY <1>1, <1>3
<1> HIDE DEF k1
<1>6. n = k1 + (a - 1)
  OBVIOUS
<1> HIDE DEF n
<1>7. n % r = (IF n < 0 THEN n + r ELSE IF n < r THEN n ELSE n - r)
  BY <1>1, <1>5
<1>8. (k + a) % r = n % r
  BY <1>1, <1>4, <1>7, <1>3, <1>6
<1> QED
  BY <1>1, <1>4, <1>8, <1>3, <1>6 DEF r, k1

-----------------------------------------------------------------------------
(* Timers on the list *)

(* What is left of the time of a timer on the list: at most one of the      *)
(* times, at least one tick or what a preempted rt_timer_start left of one  *)
(* of the times, k ticks before.                                            *)
Near(n, k) ==
  /\ \E x \in Times : n <= x
  /\ n + k >= 1 \/ \E y \in Times : n + k >= y - MaxLag

(* What is left of the time of a timer that is inserted: in the interrupt   *)
(* handler (k = 1) all of it, in a thread (k = 0) perhaps MaxLag ticks less. *)
Fresh(n, k) ==
  IF k = 1 THEN n \in Times ELSE \E y \in Times : n \in y - MaxLag .. y

LEMMA NearClose ==
  ASSUME TimesFit, NEW n \in Int, NEW k \in {0, 1}, Near(n, k)
  PROVE  Close(n)
<1> DEFINE h == Half
           g == MaxLag
<1>1. h \in Nat /\ h > 0 /\ g \in Nat /\ \A x \in Times : x \in Nat /\ x < h
  BY HalfRange
<1>2. PICK x \in Times : n <= x
  BY DEF Near
<1>3. \A y \in Times : 1 - y + g < h
  BY DEF TimesFit
<1>4. n + k >= 1 \/ \E y \in Times : n + k >= y - g
  BY DEF Near
<1> HIDE DEF h, g
<1>5. n < h
  BY <1>1, <1>2
<1>6. ASSUME n + k >= 1 PROVE -h < n
  BY <1>1, <1>6
<1>7. ASSUME \E y \in Times : n + k >= y - g PROVE -h < n
  <2>1. PICK y \in Times : n + k >= y - g
    BY <1>7
  <2>2. y \in Nat /\ 1 - y + g < h
    BY <1>1, <1>3
  <2> QED
    BY <1>1, <2>1, <2>2
<1>8. -h < n
  BY <1>1, <1>4, <1>6, <1>7
<1> QED
  BY <1>5, <1>8 DEF Close, h

(* A timer that is inserted is close to those on the list. *)
LEMMA FreshNear ==
  ASSUME TimesFit, NEW k \in {0, 1}, NEW b, Fresh(b, k)
  PROVE  /\ b \in Int /\ Near(b, k) /\ Close(b)
         /\ \A a \in Int : Near(a, k) => a - b < Half /\ b - a <= TickRange - Half
<1> DEFINE h == Half
           g == MaxLag
           r == TickRange
<1>1. /\ h \in Nat /\ h > 0 /\ g \in Nat /\ \A x \in Times : x \in Nat /\ x < h
      /\ r \in Nat /\ h + 1 <= r - h
  BY HalfRange
<1>2. \A x, y \in Times : x - y + g < h
  BY DEF TimesFit
<1>3. \A y \in Times : y \in Int /\ y - g \in Int
  BY <1>1
<1>4. PICK y \in Times : b \in y - g .. y /\ (k = 1 => b = y)
  <2>1. CASE k = 1
    BY <1>1, <1>3, <2>1 DEF Fresh
  <2>2. CASE k = 0
    BY <2>2 DEF Fresh
  <2> QED
    BY <2>1, <2>2
<1>5. b \in Int /\ b <= y /\ b + k >= y - g
  BY <1>3, <1>4
<1>6. Near(b, k)
  BY <1>5 DEF Near
<1>7. ASSUME NEW a \in Int, Near(a, k) PROVE a - b < h /\ b - a <= r - h
  <2>1. PICK x \in Times : a <= x
    BY <1>7 DEF Near
  <2>2. a + k >= 1 \/ \E z \in Times : a + k >= z - g
    BY <1>7 DEF Near
  <2> HIDE DEF h, g, r
  <2>3. a - b < h
    <3>1. x - y + g < h /\ x \in Nat /\ y \in Nat
      BY <1>1, <1>2
    <3> QED
      BY <1>1, <1>4, <2>1, <3>1
  <2>4. CASE a + k >= 1
    <3>1. y \in Nat /\ y < h
      BY <1>1
    <3> QED
      BY <1>1, <1>5, <2>3, <2>4, <3>1
  <2>5. CASE \E z \in Times : a + k >= z - g
    <3>1. PICK z \in Times : a + k >= z - g
      BY <2>5
    <3>2. y - z + g < h /\ y \in Nat /\ z \in Nat
      BY <1>1, <1>2
    <3> QED
      BY <1>1, <1>5, <2>3, <3>1, <3>2
  <2> QED
    BY <2>2, <2>4, <2>5
<1> QED
  BY <1>5, <1>6, <1>7, NearClose DEF h, r

(* The test of rt_timer_start: u is due later than the new timer. *)
LEMMA LaterIs ==
  ASSUME TimesFit, NEW k \in {0, 1}, NEW n \in Tick, NEW a \in Int, Near(a, k), NEW b, Fresh(b, k)
  PROVE  LET m == Minus((n + a) % TickRange, (n + b) % TickRange)
         IN  m # 0 /\ m < Half <=> a > b
<1> DEFINE m == Minus((n + a) % TickRange, (n + b) % TickRange)
           h == Half
           r == TickRange
<1>1. Close(a) /\ Close(b) /\ b \in Int /\ a - b < h /\ b - a <= r - h
  BY NearClose, FreshNear
<1>2. m = IF a >= b THEN a - b ELSE a - b + r
  BY <1>1, MinusDue
<1>3. r \in Nat /\ h \in Nat
  BY HalfRange
<1> HIDE DEF m, h, r
<1>4. m # 0 /\ m < h <=> a > b
  BY <1>1, <1>2, <1>3
<1> QED
  BY <1>4 DEF m, h

(* The test of rt_timer_check: the time of the timer has come. *)
LEMMA ExpiredIs ==
  ASSUME NEW t, tick \in Tick, Close(due[t]), timeout[t] = (tick + due[t]) % TickRange
  PROVE  Expired(t) <=> due[t] <= 0
<1> DEFINE h == Half
           r == TickRange
           n == due[t]
           m == Minus(tick, timeout[t])
<1>1. r \in Nat /\ h \in Nat /\ h > 0 /\ h + 1 <= r - h /\ tick \in 0 .. r - 1
  BY HalfRange
<1>2. n \in Int /\ -h < n /\ n < h
  BY DEF Close
<1>3. Close(0)
  BY <1>1 DEF Close
<1>4. (tick + 0) % r = tick
  <2> HIDE DEF r
  <2> QED
    BY <1>1
<1>5. m = IF 0 >= n THEN 0 - n ELSE 0 - n + r
  BY <1>3, <1>4, MinusDue
<1> HIDE DEF h, r, n, m
<1>6. m < h <=> n <= 0
  BY <1>1, <1>2, <1>5
<1> QED
  BY <1>6 DEF Expired, h, n, m

(* The nodes of l are in the order of their times d. *)
InOrder(l, d) == \A x, y \in Timer : Precedes(l, x, y) => d[x] <= d[y]

(* A list that rt_timer_start keeps sorted: its timers stand there once, in *)
(* the order of what is left of their times, and their time-outs say so.    *)
Scheduled(l, to, d, k) ==
  /\ l \in Seq(Timer) /\ IsInjective(l) /\ InOrder(l, d)
  /\ \A u \in ToSet(l) : Near(d[u], k) /\ to[u] = (tick + d[u]) % TickRange

(* The search stops before the first timer that is due later than t. *)
LEMMA InsertPositionOrder ==
  ASSUME TimesFit, tick \in Tick, NEW k \in {0, 1}, NEW to, NEW d \in [Timer -> Int], NEW l,
         Scheduled(l, to, d, k), NEW t \in Timer, Fresh(d[t], k),
         to[t] = (tick + d[t]) % TickRange
  PROVE  LET n == InsertPosition(l, to, t)
         IN  /\ n \in 1 .. Len(l) + 1
             /\ \A i \in 1 .. n - 1 : d[l[i]] <= d[t]
             /\ \A i \in n .. Len(l) : d[l[i]] > d[t]
<1> DEFINE I == {i \in 1 .. Len(l) : Minus(to[l[i]], to[t]) # 0 /\ Minus(to[l[i]], to[t]) < Half}
           later == SelectInSeq(l, LAMBDA u : Minus(to[u], to[t]) # 0 /\ Minus(to[u], to[t]) < Half)
           n == InsertPosition(l, to, t)
<1>1. Len(l) \in Nat /\ \A i \in 1 .. Len(l) : l[i] \in Timer /\ l[i] \in ToSet(l)
  BY InToSet, LenProperties DEF Scheduled
<1>2. later = IF I # {} THEN Min(I) ELSE 0
  BY Zenon DEF SelectInSeq
<1>3. n = IF later # 0 THEN later ELSE Len(l) + 1
  BY Zenon DEF InsertPosition
<1>4. I \in SUBSET Nat /\ I \subseteq 1 .. Len(l)
  BY <1>1
<1>5. I # {} => Min(I) \in I /\ \A j \in I : Min(I) <= j
  BY <1>4, MinOfNat
<1>6. \A i \in 1 .. Len(l) : d[l[i]] \in Int /\ d[t] \in Int
  BY <1>1
<1>7. \A i \in 1 .. Len(l) : i \in I <=> d[l[i]] > d[t]
  <2> SUFFICES ASSUME NEW i \in 1 .. Len(l) PROVE i \in I <=> d[l[i]] > d[t]
    OBVIOUS
  <2>1. /\ d[l[i]] \in Int /\ Near(d[l[i]], k)
        /\ to[l[i]] = (tick + d[l[i]]) % TickRange
    BY <1>1, <1>6 DEF Scheduled
  <2>2. Minus(to[l[i]], to[t]) # 0 /\ Minus(to[l[i]], to[t]) < Half <=> d[l[i]] > d[t]
    BY <2>1, LaterIs
  <2> QED
    BY <2>2
<1>8. \A i, j \in 1 .. Len(l) : i < j => d[l[i]] <= d[l[j]]
  BY <1>1 DEF Scheduled, InOrder, Precedes
<1> HIDE DEF I, later, n
<1>9. CASE I = {}
  <2>1. n = Len(l) + 1
    BY <1>2, <1>3, <1>9
  <2> QED
    BY <1>1, <1>6, <1>7, <1>9, <2>1 DEF n
<1>10. CASE I # {}
  <2>1. n \in I /\ \A j \in I : n <= j
    BY <1>2, <1>3, <1>4, <1>5, <1>10
  <2>2. n \in 1 .. Len(l) /\ d[l[n]] > d[t]
    BY <1>4, <1>7, <2>1
  <2>3. \A i \in 1 .. n - 1 : i \in 1 .. Len(l) /\ i \notin I
    BY <1>1, <2>1, <2>2
  <2>4. \A i \in 1 .. n - 1 : d[l[i]] <= d[t]
    BY <1>6, <1>7, <2>3
  <2>5. \A i \in n .. Len(l) : d[l[i]] > d[t]
    <3> SUFFICES ASSUME NEW i \in n .. Len(l) PROVE d[l[i]] > d[t]
      OBVIOUS
    <3>1. i \in 1 .. Len(l) /\ (i = n \/ n < i)
      BY <1>1, <2>2
    <3> QED
      BY <1>6, <1>8, <2>2, <3>1
  <2> QED
    BY <1>1, <2>2, <2>4, <2>5 DEF n
<1> QED
  BY <1>9, <1>10

(* rt_timer_start puts a timer behind those that are due at the same tick.  *)
LEMMA InsertScheduled ==
  ASSUME TimesFit, tick \in Tick, NEW k \in {0, 1}, NEW to, NEW d \in [Timer -> Int], NEW l,
         Scheduled(l, to, d, k), NEW t \in Timer, t \notin ToSet(l), Fresh(d[t], k),
         to[t] = (tick + d[t]) % TickRange
  PROVE  LET r == Inserted(l, to, t)
         IN  /\ Scheduled(r, to, d, k)
             /\ ToSet(r) = ToSet(l) \cup {t}
             /\ \A u \in Timer : Precedes(r, t, u) => d[u] > d[t]
             /\ \A x, y \in Timer \ {t} : Precedes(r, x, y) => Precedes(l, x, y)
<1> DEFINE n == InsertPosition(l, to, t)
           r == InsertAt(l, n, t)
<1>1. /\ l \in Seq(Timer) /\ IsInjective(l) /\ InOrder(l, d)
      /\ \A u \in ToSet(l) : Near(d[u], k) /\ to[u] = (tick + d[u]) % TickRange
  BY DEF Scheduled
<1>2. /\ n \in 1 .. Len(l) + 1
      /\ \A i \in 1 .. n - 1 : d[l[i]] <= d[t]
      /\ \A i \in n .. Len(l) : d[l[i]] > d[t]
  BY InsertPositionOrder
<1> HIDE DEF n
<1>3. r \in Seq(Timer) /\ ToSet(r) = ToSet(l) \cup {t} /\ IsInjective(r)
  BY <1>1, <1>2, InsertMembers
<1>4. \A x, y \in Timer : Precedes(r, x, y) =>
        \/ Precedes(l, x, y)
        \/ x = t /\ \E j \in n .. Len(l) : y = l[j]
        \/ y = t /\ \E i \in 1 .. n - 1 : x = l[i]
  BY <1>1, <1>2, InsertOrder
<1> HIDE DEF r
<1>5. \A u \in Timer : ~Precedes(l, t, u)
  BY <1>1, InToSet DEF Precedes
<1>6. d[t] \in Int /\ \A u \in Timer : d[u] \in Int
  OBVIOUS
<1>7. \A u \in Timer : Precedes(r, t, u) => d[u] > d[t]
  <2> SUFFICES ASSUME NEW u \in Timer, Precedes(r, t, u) PROVE d[u] > d[t]
    OBVIOUS
  <2>1. (\E j \in n .. Len(l) : u = l[j]) \/ (u = t /\ \E i \in 1 .. n - 1 : t = l[i])
    BY <1>4, <1>5
  <2>2. \A i \in 1 .. n - 1 : t # l[i]
    <3>1. \A i \in 1 .. n - 1 : i \in 1 .. Len(l)
      BY <1>1, <1>2, LenProperties
    <3> QED
      BY <1>1, <3>1, InToSet
  <2> QED
    BY <1>2, <2>1, <2>2
<1>8. InOrder(r, d)
  <2> SUFFICES ASSUME NEW x \in Timer, NEW y \in Timer, Precedes(r, x, y) PROVE d[x] <= d[y]
    BY DEF InOrder
  <2>1. CASE Precedes(l, x, y)
    BY <1>1, <2>1 DEF InOrder
  <2>2. CASE x = t /\ \E j \in n .. Len(l) : y = l[j]
    BY <1>2, <1>6, <2>2
  <2>3. CASE y = t /\ \E i \in 1 .. n - 1 : x = l[i]
    BY <1>2, <1>6, <2>3
  <2> QED
    BY <1>4, <2>1, <2>2, <2>3
<1>9. Near(d[t], k)
  BY FreshNear
<1>10. Scheduled(r, to, d, k)
  BY <1>1, <1>3, <1>8, <1>9 DEF Scheduled
<1>11. \A x, y \in Timer \ {t} : Precedes(r, x, y) => Precedes(l, x, y)
  BY <1>4
<1> QED
  BY <1>3, <1>7, <1>10, <1>11 DEF Inserted, r, n

(* A timer that is taken off the list leaves the others as they were. *)
LEMMA RemoveScheduled ==
  ASSUME NEW k, NEW to, NEW d, NEW l, Scheduled(l, to, d, k), NEW t
  PROVE  LET r == RemoveFirst(l, t)
         IN  /\ Scheduled(r, to, d, k)
             /\ ToSet(r) = ToSet(l) \ {t}
             /\ \A x, y \in Timer : Precedes(r, x, y) => Precedes(l, x, y)
<1> DEFINE r == RemoveFirst(l, t)
<1>1. l \in Seq(Timer) /\ IsInjective(l)
  BY DEF Scheduled
<1>2. r \in Seq(Timer) /\ ToSet(r) = ToSet(l) \ {t} /\ IsInjective(r)
  BY <1>1, RemoveMembers
<1>3. \A x, y \in Timer : Precedes(r, x, y) => Precedes(l, x, y)
  BY <1>1, RemoveKeepsOrder
<1> HIDE DEF r
<1> QED
  BY <1>2, <1>3 DEF Scheduled, InOrder, r

(* The same for the first timer, which rt_timer_check takes off. *)
LEMMA TailScheduled ==
  ASSUME NEW k, NEW to, NEW d, NEW l, Scheduled(l, to, d, k), l # <<>>
  PROVE  /\ Head(l) \in Timer /\ Head(l) \in ToSet(l) /\ Head(l) \notin ToSet(Tail(l))
         /\ Scheduled(Tail(l), to, d, k)
         /\ ToSet(Tail(l)) = ToSet(l) \ {Head(l)}
         /\ \A x, y \in Timer : Precedes(Tail(l), x, y) => Precedes(l, x, y)
<1> DEFINE r == Tail(l)
<1>1. l \in Seq(Timer) /\ IsInjective(l)
  BY DEF Scheduled
<1>2. /\ r \in Seq(Timer) /\ ToSet(l) = {Head(l)} \cup ToSet(r)
      /\ Len(r) = Len(l) - 1 /\ IsInjective(r) /\ Head(l) \notin ToSet(r)
  BY <1>1, TailOfList
<1>3. Head(l) \in Timer
  BY <1>1, HeadOfList
<1>4. \A i \in 1 .. Len(r) : r[i] = l[i + 1]
  BY <1>1, HeadTailProperties
<1>5. Len(l) \in Nat /\ \A i \in 1 .. Len(r) : i + 1 \in 1 .. Len(l)
  BY <1>1, <1>2, LenProperties
<1> HIDE DEF r
<1>6. ASSUME NEW x, NEW y, Precedes(r, x, y) PROVE Precedes(l, x, y)
  <2>1. PICK i, j \in 1 .. Len(r) : i < j /\ r[i] = x /\ r[j] = y
    BY <1>6 DEF Precedes
  <2>2. i + 1 \in 1 .. Len(l) /\ j + 1 \in 1 .. Len(l) /\ i + 1 < j + 1
    BY <1>5, <2>1
  <2> QED
    BY <1>4, <2>1, <2>2 DEF Precedes
<1>7. Scheduled(r, to, d, k)
  BY <1>2, <1>6 DEF Scheduled, InOrder
<1> QED
  BY <1>2, <1>3, <1>6, <1>7 DEF r

(* Whether a list is scheduled depends on the timers on it only. *)
LEMMA ScheduledElsewhere ==
  ASSUME NEW k, NEW to, NEW d, NEW to2, NEW d2, NEW l, Scheduled(l, to, d, k),
         \A u \in ToSet(l) : to2[u] = to[u] /\ d2[u] = d[u]
  PROVE  Scheduled(l, to2, d2, k)
<1>1. \A x, y \in Timer : Precedes(l, x, y) => x \in ToSet(l) /\ y \in ToSet(l)
  BY InToSet DEF Precedes, Scheduled
<1> QED
  BY <1>1 DEF Scheduled, InOrder

-----------------------------------------------------------------------------
(* Types *)

(* What rt_timer_check works on *)
TimerQueue == [list : Seq(Timer), to : [Timer -> Tick], active : SUBSET Timer, due : [Timer -> Int]]

LEMMA InsertedType ==
  ASSUME NEW l \in Seq(Timer), NEW to, NEW t \in Timer
  PROVE  Inserted(l, to, t) \in Seq(Timer)
<1> DEFINE I == {i \in 1 .. Len(l) : Minus(to[l[i]], to[t]) # 0 /\ Minus(to[l[i]], to[t]) < Half}
           later == SelectInSeq(l, LAMBDA u : Minus(to[u], to[t]) # 0 /\ Minus(to[u], to[t]) < Half)
           n == InsertPosition(l, to, t)
<1>1. Len(l) \in Nat
  BY LenProperties
<1>2. later = IF I # {} THEN Min(I) ELSE 0
  BY Zenon DEF SelectInSeq
<1>3. n = IF later # 0 THEN later ELSE Len(l) + 1
  BY Zenon DEF InsertPosition
<1>4. I \in SUBSET Nat /\ I \subseteq 1 .. Len(l)
  BY <1>1
<1> HIDE DEF I, later
<1>5. later # 0 => later \in 1 .. Len(l)
  BY <1>2, <1>4, MinOfNat
<1>6. n \in 1 .. Len(l) + 1
  BY <1>1, <1>3, <1>5
<1> HIDE DEF n
<1>7. InsertAt(l, n, t) \in Seq(Timer)
  BY <1>6, InsertMembers
<1> QED
  BY <1>7 DEF Inserted, n

LEMMA RemovedType ==
  ASSUME NEW l \in Seq(Timer), NEW t
  PROVE  RemoveFirst(l, t) \in Seq(Timer)
BY RemoveKeepsOrder

(* The time-out that rt_timer_start computes is a tick. *)
LEMMA NewTimeOut ==
  ASSUME tick \in Tick, NEW x \in Times
  PROVE  (tick + x) % TickRange \in Tick /\ x \in Int
<1>1. Close(x) /\ x \in Int
  BY HalfRange DEF Close
<1>2. (tick + x) % TickRange \in Tick
  BY ONLY tick \in Tick, <1>1, NextTick
<1> QED
  BY <1>1, <1>2

LEMMA StartedType ==
  ASSUME tick \in Tick, init \in [Timer -> Times], NEW x \in TimerQueue, NEW u \in Timer
  PROVE  Started(x, u) \in TimerQueue
<1> DEFINE to == [x.to EXCEPT ![u] = (tick + init[u]) % TickRange]
           l == Inserted(RemoveFirst(x.list, u), to, u)
           d == [x.due EXCEPT ![u] = init[u]]
<1>1. /\ x.list \in Seq(Timer) /\ x.to \in [Timer -> Tick] /\ x.active \in SUBSET Timer
      /\ x.due \in [Timer -> Int]
  BY DEF TimerQueue
<1>2. (tick + init[u]) % TickRange \in Tick /\ init[u] \in Int
  BY NewTimeOut
<1>3. to \in [Timer -> Tick] /\ d \in [Timer -> Int]
  BY <1>1, <1>2
<1>4. l \in Seq(Timer)
  BY <1>1, RemovedType, InsertedType
<1>5. Started(x, u) = [list |-> l, to |-> to, active |-> x.active \cup {u}, due |-> d]
  BY DEF Started
<1> HIDE DEF l, to, d
<1> QED
  BY <1>1, <1>3, <1>4, <1>5 DEF TimerQueue

LEMMA CalledType ==
  ASSUME tick \in Tick, init \in [Timer -> Times], NEW x \in TimerQueue,
         NEW op \in Operation, NEW u \in Timer
  PROVE  Called(x, op, u) \in TimerQueue
<1>1. /\ x.list \in Seq(Timer) /\ x.to \in [Timer -> Tick] /\ x.active \in SUBSET Timer
      /\ x.due \in [Timer -> Int]
  BY DEF TimerQueue
<1>2. RemoveFirst(x.list, u) \in Seq(Timer)
  BY <1>1, RemovedType
<1>3. CASE op = "none"
  BY <1>3 DEF Called
<1>4. CASE op = "start"
  BY <1>4, StartedType DEF Called
<1>5. CASE op = "stop"
  <2>1. Called(x, op, u) = IF u \in x.active
                           THEN [x EXCEPT !.list = RemoveFirst(x.list, u), !.active = x.active \ {u}]
                           ELSE x
    BY <1>5 DEF Called
  <2>2. [x EXCEPT !.list = RemoveFirst(x.list, u), !.active = x.active \ {u}] \in TimerQueue
    BY <1>1, <1>2 DEF TimerQueue
  <2> QED
    BY <2>1, <2>2
<1>6. CASE op = "detach"
  BY <1>1, <1>2, <1>6 DEF Called, TimerQueue
<1> QED
  BY <1>3, <1>4, <1>5, <1>6 DEF Operation

LEMMA AfterCallType ==
  ASSUME tick \in Tick, init \in [Timer -> Times], NEW x \in TimerQueue, NEW t \in Timer
  PROVE  AfterCall(x, t) \in TimerQueue
<1>1. x.active \in SUBSET Timer /\ [x EXCEPT !.active = @ \ {t}] \in TimerQueue
  BY DEF TimerQueue
<1> QED
  BY <1>1, StartedType DEF AfterCall

(* A client that is inside an operation works on a timer of its own. *)
CallsOwn ==
  \A c \in Client : IF pc[c].at = "user" THEN pc[c].on = Nothing
                    ELSE pc[c].on \in setup.uses[c]

TypeInv == TypeOK /\ CallsOwn

LEMMA SetupType ==
  ASSUME setup \in Setups
  PROVE  /\ \A c \in Client : setup.uses[c] \in SUBSET Timer
         /\ \A t \in Timer : setup.callback[t] \in SUBSET (Operation \X Timer)
BY TimerAssumption

LEMMA TypeInit == Init => TypeInv
<1> SUFFICES ASSUME Init PROVE TypeInv
  OBVIOUS
<1>1. 0 \in Tick
  BY HalfRange
<1>2. pc \in [Client -> [at : {"user", "start_time", "start_insert", "stop_remove", "stop_flag"},
                        on : Timer \cup {Nothing}]]
  BY DEF Init, Ready
<1>3. TypeOK
  BY <1>1, <1>2, EmptySeq DEF Init, TypeOK
<1>4. CallsOwn
  BY DEF Init, CallsOwn, Ready
<1> QED
  BY <1>3, <1>4 DEF TypeInv

(* The client moves on inside its operation, or returns from it. *)
LEMMA PcMoves ==
  ASSUME TypeInv, NEW c \in Client, setup' = setup, NEW t \in setup.uses[c],
         \/ Return(c)
         \/ \E a \in {"start_time", "start_insert", "stop_remove", "stop_flag"} : Goto(c, a, t)
  PROVE  /\ pc' \in [Client -> [at : {"user", "start_time", "start_insert", "stop_remove",
                                     "stop_flag"}, on : Timer \cup {Nothing}]]
         /\ CallsOwn'
<1>1. t \in Timer
  BY SetupType DEF TypeInv, TypeOK
<1>2. CASE Return(c)
  BY <1>2 DEF Return, Ready, TypeInv, TypeOK, CallsOwn
<1>3. ASSUME NEW a \in {"start_time", "start_insert", "stop_remove", "stop_flag"}, Goto(c, a, t)
      PROVE  /\ pc' \in [Client -> [at : {"user", "start_time", "start_insert", "stop_remove",
                                         "stop_flag"}, on : Timer \cup {Nothing}]]
             /\ CallsOwn'
  BY <1>1, <1>3 DEF Goto, TypeInv, TypeOK, CallsOwn
<1> QED
  BY <1>2, <1>3

(* Each step keeps the types. *)
LEMMA TypeNext == TypeInv /\ [Next]_vars => TypeInv'
<1> SUFFICES ASSUME TypeInv, [Next]_vars PROVE TypeInv'
  OBVIOUS
<1>1. /\ setup \in Setups /\ tick \in Tick /\ list \in Seq(Timer)
      /\ timeout \in [Timer -> Tick] /\ init \in [Timer -> Times]
      /\ active \in SUBSET Timer /\ detached \in SUBSET Timer
      /\ due \in [Timer -> Int] /\ isr \in {"idle", "check"}
      /\ CallsOwn
  BY DEF TypeInv, TypeOK
<1>2. /\ \A c \in Client : setup.uses[c] \in SUBSET Timer
      /\ \A t \in Timer : setup.callback[t] \in SUBSET (Operation \X Timer)
  BY <1>1, SetupType
<1>3. pc \in [Client -> [at : {"user", "start_time", "start_insert", "stop_remove", "stop_flag"},
                        on : Timer \cup {Nothing}]]
  BY DEF TypeInv, TypeOK
<1>4. ASSUME pc' = pc, setup' = setup PROVE CallsOwn'
  BY <1>1, <1>4 DEF CallsOwn
<1>5. \A c \in Client : pc[c].at # "user" => pc[c].on \in setup.uses[c] /\ pc[c].on \in Timer
  BY <1>1, <1>2 DEF CallsOwn
<1>6. CASE TickIsr
  <2>1. (tick + 1) % TickRange \in Tick
    <3>1. Close(0)
      BY HalfRange DEF Close
    <3> QED
      BY <1>1, <3>1, NextTick
  <2>2. due' \in [Timer -> Int]
    BY <1>1, <1>6 DEF TickIsr
  <2> QED
    BY <1>1, <1>3, <1>4, <1>6, <2>1, <2>2 DEF TickIsr, TypeInv, TypeOK
<1>7. CASE CheckCall
  <2>1. list # <<>> /\ Head(list) \in Timer /\ Tail(list) \in Seq(Timer)
    BY <1>1, <1>7, HeadOfList, TailOfList DEF CheckCall
  <2> DEFINE t == Head(list)
             x == [list |-> Tail(list), to |-> timeout, active |-> active, due |-> due]
  <2>2. PICK call \in setup.callback[t] :
          LET y == AfterCall(Called(x, call[1], call[2]), t) IN
          /\ list' = y.list /\ timeout' = y.to /\ active' = y.active /\ due' = y.due
          /\ detached' = IF call[1] = "detach" THEN detached \cup {call[2]} ELSE detached
    BY <1>7 DEF CheckCall
  <2>3. call[1] \in Operation /\ call[2] \in Timer
    BY <1>2, <2>1
  <2> DEFINE y == AfterCall(Called(x, call[1], call[2]), t)
  <2>4. x \in TimerQueue
    BY <1>1, <2>1 DEF TimerQueue
  <2> HIDE DEF x
  <2>5. y \in TimerQueue
    BY <1>1, <2>1, <2>3, <2>4, CalledType, AfterCallType
  <2>6. list' = y.list /\ timeout' = y.to /\ active' = y.active /\ due' = y.due
    BY <2>2 DEF x
  <2> HIDE DEF y
  <2>7. /\ list' \in Seq(Timer) /\ timeout' \in [Timer -> Tick] /\ active' \in SUBSET Timer
        /\ due' \in [Timer -> Int]
    BY <2>5, <2>6 DEF TimerQueue
  <2>8. detached' \in SUBSET Timer
    BY <1>1, <2>2, <2>3
  <2> QED
    BY <1>1, <1>3, <1>4, <1>7, <2>7, <2>8 DEF CheckCall, TypeInv, TypeOK
<1>8. CASE CheckDone
  BY <1>1, <1>3, <1>4, <1>8 DEF CheckDone, TypeInv, TypeOK
<1>9. ASSUME NEW c \in Client, ClientStep(c) PROVE TypeInv'
  <2> DEFINE on == pc[c].on
  <2>1. ASSUME NEW t \in Timer, Start(c, t) PROVE TypeInv'
    <3>1. t \in setup.uses[c] /\ setup' = setup /\ list' \in Seq(Timer)
      BY <1>1, <2>1, RemovedType DEF Start, MayCall
    <3> QED
      BY <1>1, <2>1, <3>1, PcMoves DEF Start, TypeInv, TypeOK
  <2>2. ASSUME NEW t \in Timer, Stop(c, t) PROVE TypeInv'
    <3>1. t \in setup.uses[c] /\ setup' = setup
      BY <2>2 DEF Stop, MayCall
    <3> QED
      BY <1>1, <2>2, <3>1, PcMoves DEF Stop, TypeInv, TypeOK
  <2>3. ASSUME NEW t \in Timer, SetTime(c, t) PROVE TypeInv'
    <3>1. init' \in [Timer -> Times]
      BY <1>1, <2>3 DEF SetTime
    <3> QED
      BY <1>1, <1>3, <1>4, <2>3, <3>1 DEF SetTime, TypeInv, TypeOK
  <2>4. ASSUME NEW t \in Timer, Detach(c, t) PROVE TypeInv'
    <3>1. list' \in Seq(Timer)
      BY <1>1, <2>4, RemovedType DEF Detach
    <3> QED
      BY <1>1, <1>3, <1>4, <2>4, <3>1 DEF Detach, TypeInv, TypeOK
  <2>5. CASE StartTime(c)
    <3>1. on \in setup.uses[c] /\ on \in Timer /\ setup' = setup
      BY <1>5, <2>5 DEF StartTime, At
    <3>2. (tick + init[on]) % TickRange \in Tick /\ init[on] \in Int
      BY <1>1, <3>1, NewTimeOut
    <3>3. timeout' \in [Timer -> Tick] /\ due' \in [Timer -> Int]
      BY <1>1, <2>5, <3>2 DEF StartTime
    <3> QED
      BY <1>1, <2>5, <3>1, <3>3, PcMoves DEF StartTime, TypeInv, TypeOK
  <2>6. CASE StartInsert(c)
    <3>1. on \in setup.uses[c] /\ on \in Timer /\ setup' = setup
      BY <1>5, <2>6 DEF StartInsert, At
    <3>2. list' \in Seq(Timer) /\ active' \in SUBSET Timer
      BY <1>1, <2>6, <3>1, InsertedType DEF StartInsert
    <3> QED
      BY <1>1, <2>6, <3>1, <3>2, PcMoves DEF StartInsert, TypeInv, TypeOK
  <2>7. CASE StopRemove(c)
    <3>1. on \in setup.uses[c] /\ setup' = setup /\ list' \in Seq(Timer)
      BY <1>1, <1>5, <2>7, RemovedType DEF StopRemove, At
    <3> QED
      BY <1>1, <2>7, <3>1, PcMoves DEF StopRemove, TypeInv, TypeOK
  <2>8. CASE StopFlag(c)
    <3>1. on \in setup.uses[c] /\ setup' = setup
      BY <1>5, <2>8 DEF StopFlag, At
    <3> QED
      BY <1>1, <2>8, <3>1, PcMoves DEF StopFlag, TypeInv, TypeOK
  <2> QED
    BY <1>9, <2>1, <2>2, <2>3, <2>4, <2>5, <2>6, <2>7, <2>8 DEF ClientStep
<1>10. CASE UNCHANGED vars
  BY <1>10 DEF vars, TypeInv, TypeOK, CallsOwn
<1> QED
  BY <1>6, <1>7, <1>8, <1>9, <1>10 DEF Next

(* The structures of the timers stay within their types, whatever the       *)
(* clients and the time-out functions do: the list holds timers only, and a *)
(* time-out is a tick although it is a sum that wraps around.               *)
THEOREM TimerTypes == Spec => []TypeOK
<1>1. TypeInv => TypeOK
  BY DEF TypeInv
<1> QED
  BY <1>1, TypeInit, TypeNext, PTL DEF Spec

-----------------------------------------------------------------------------
(* The sorted list *)

(* What the theorems on the order of the list assume *)
Disciplined == TimesFit /\ \A s \in Setups : Separate(s)

(* While the tick interrupt runs, a tick has gone that the list has not     *)
(* seen yet.                                                                *)
Slack == IF isr = "check" THEN 1 ELSE 0

ListOK == Scheduled(list, timeout, due, Slack)

(* A timer that a client starts, or has just stopped, is not on the list. *)
OutOfList ==
  \A c \in Client : pc[c].at \in {"start_time", "start_insert", "stop_flag"} =>
     pc[c].on \notin Listed

(* A timer that a client is about to insert has a time-out of its own. *)
Pending ==
  \A c \in Client : pc[c].at = "start_insert" =>
     /\ timeout[pc[c].on] = (tick + due[pc[c].on]) % TickRange
     /\ due[pc[c].on] \in init[pc[c].on] - MaxLag .. init[pc[c].on]

TimerInv == TypeInv /\ ListOK /\ OutOfList /\ Pending

LEMMA TimerInit == Init => TimerInv
<1> SUFFICES ASSUME Init PROVE TimerInv
  OBVIOUS
<1>1. list = <<>> /\ list \in Seq(Timer) /\ ToSet(list) = {} /\ Len(list) = 0
  <2>1. list = <<>> /\ list \in Seq(Timer) /\ Len(list) = 0
    BY DEF Init
  <2> QED
    BY <2>1, EmptyToSet
<1>2. ListOK
  BY <1>1 DEF ListOK, Scheduled, InOrder, Precedes, IsInjective, Listed
<1>3. OutOfList /\ Pending
  BY DEF Init, Ready, OutOfList, Pending
<1> QED
  BY <1>2, <1>3, TypeInit DEF TimerInv

LEMMA StaysScheduled ==
  ASSUME tick' = tick, Scheduled(list', timeout', due', Slack')
  PROVE  ListOK'
BY DEF Scheduled, ListOK

(* Two clients work on different timers. *)
LEMMA OwnTimer ==
  ASSUME Disciplined, TypeInv, NEW c \in Client, NEW d \in Client, c # d,
         NEW t \in setup.uses[c], pc[d].at # "user"
  PROVE  pc[d].on # t /\ pc[d].on \in Timer
<1>1. pc[d].on \in setup.uses[d] /\ setup \in Setups
  BY DEF TypeInv, TypeOK, CallsOwn
<1>2. setup.uses[c] \cap setup.uses[d] = {} /\ setup.uses[d] \in SUBSET Timer
  BY <1>1, SetupType DEF Disciplined, Separate
<1> QED
  BY <1>1, <1>2

(* What rt_timer_start on u changes in the interrupt handler: u is put on   *)
(* the list with a new time-out, the other timers stay as they are.         *)
LEMMA StartedScheduled ==
  ASSUME TimesFit, tick \in Tick, init \in [Timer -> Times], NEW x \in TimerQueue,
         Scheduled(x.list, x.to, x.due, 1), NEW u \in Timer
  PROVE  LET y == Started(x, u)
         IN  /\ Scheduled(y.list, y.to, y.due, 1)
             /\ ToSet(y.list) = ToSet(x.list) \cup {u}
             /\ y.active = x.active \cup {u}
             /\ \A v \in Timer \ {u} : y.to[v] = x.to[v] /\ y.due[v] = x.due[v]
             /\ \A v \in Timer : Precedes(y.list, u, v) => y.due[v] > y.due[u]
             /\ \A v, w \in Timer \ {u} : Precedes(y.list, v, w) => Precedes(x.list, v, w)
<1> DEFINE to == [x.to EXCEPT ![u] = (tick + init[u]) % TickRange]
           d == [x.due EXCEPT ![u] = init[u]]
           l == RemoveFirst(x.list, u)
           y == Started(x, u)
<1>1. /\ y.list = Inserted(l, to, u) /\ y.to = to /\ y.due = d
      /\ y.active = x.active \cup {u}
  BY DEF Started
<1>2. x.to \in [Timer -> Tick] /\ x.due \in [Timer -> Int]
  BY DEF TimerQueue
<1>3. /\ Scheduled(l, x.to, x.due, 1) /\ ToSet(l) = ToSet(x.list) \ {u}
      /\ \A v, w \in Timer : Precedes(l, v, w) => Precedes(x.list, v, w)
  BY RemoveScheduled
<1>4. init[u] \in Times /\ init[u] \in Int
  BY NewTimeOut
<1>5. /\ \A v \in Timer \ {u} : to[v] = x.to[v] /\ d[v] = x.due[v]
      /\ to[u] = (tick + d[u]) % TickRange /\ d[u] = init[u] /\ d \in [Timer -> Int]
  BY <1>2, <1>4
<1> HIDE DEF to, d, l, y
<1>6. \A v \in ToSet(l) : v \in Timer \ {u}
  BY <1>3, InToSet DEF Scheduled
<1>7. Scheduled(l, to, d, 1)
  BY <1>3, <1>5, <1>6, ScheduledElsewhere
<1>8. Fresh(d[u], 1) /\ u \notin ToSet(l)
  BY <1>3, <1>4, <1>5 DEF Fresh
<1>9. 1 \in {0, 1}
  OBVIOUS
<1>10. /\ Scheduled(y.list, to, d, 1)
       /\ ToSet(y.list) = ToSet(l) \cup {u}
       /\ \A v \in Timer : Precedes(y.list, u, v) => d[v] > d[u]
       /\ \A v, w \in Timer \ {u} : Precedes(y.list, v, w) => Precedes(l, v, w)
  BY <1>1, <1>5, <1>7, <1>8, <1>9, InsertScheduled
<1> QED
  BY <1>1, <1>3, <1>5, <1>10 DEF y

(* What a time-out function changes *)
LEMMA CalledScheduled ==
  ASSUME TimesFit, tick \in Tick, init \in [Timer -> Times], NEW x \in TimerQueue,
         Scheduled(x.list, x.to, x.due, 1), NEW op \in Operation, NEW u \in Timer
  PROVE  LET y == Called(x, op, u)
             new == IF op = "start" THEN {u} ELSE {}
         IN  /\ Scheduled(y.list, y.to, y.due, 1)
             /\ ToSet(y.list) \subseteq ToSet(x.list) \cup new
             /\ \A v \in Timer \ new : y.to[v] = x.to[v] /\ y.due[v] = x.due[v]
<1>1. Scheduled(RemoveFirst(x.list, u), x.to, x.due, 1)
      /\ ToSet(RemoveFirst(x.list, u)) = ToSet(x.list) \ {u}
  BY RemoveScheduled
<1>2. CASE op = "none"
  BY <1>2 DEF Called
<1>3. CASE op = "start"
  BY ZenonT(40), <1>3, StartedScheduled DEF Called
<1>4. CASE op = "stop"
  <2> DEFINE y == Called(x, op, u)
  <2>1. (y.list = RemoveFirst(x.list, u) \/ y.list = x.list) /\ y.to = x.to /\ y.due = x.due
    BY <1>4 DEF Called, TimerQueue
  <2> QED
    BY <1>1, <1>4, <2>1
<1>5. CASE op = "detach"
  <2> DEFINE y == Called(x, op, u)
  <2>1. y.list = RemoveFirst(x.list, u) /\ y.to = x.to /\ y.due = x.due
    BY <1>5 DEF Called, TimerQueue
  <2> QED
    BY <1>1, <1>5, <2>1
<1> QED
  BY <1>2, <1>3, <1>4, <1>5 DEF Operation

(* What rt_timer_check does to the called timer afterwards *)
LEMMA AfterCallScheduled ==
  ASSUME TimesFit, tick \in Tick, init \in [Timer -> Times], NEW x \in TimerQueue,
         Scheduled(x.list, x.to, x.due, 1), NEW t \in Timer
  PROVE  LET y == AfterCall(x, t)
         IN  /\ Scheduled(y.list, y.to, y.due, 1)
             /\ ToSet(y.list) \subseteq ToSet(x.list) \cup {t}
             /\ \A v \in Timer \ {t} : y.to[v] = x.to[v] /\ y.due[v] = x.due[v]
<1>1. CASE t \in Periodic /\ t \in x.active
  BY <1>1, StartedScheduled DEF AfterCall
<1>2. CASE ~(t \in Periodic /\ t \in x.active)
  <2> DEFINE y == AfterCall(x, t)
  <2>1. y.list = x.list /\ y.to = x.to /\ y.due = x.due
    BY <1>2 DEF AfterCall, TimerQueue
  <2> QED
    BY <2>1
<1> QED
  BY <1>1, <1>2

-----------------------------------------------------------------------------
(* The steps of the clients *)

(* A step of the client c that takes a timer of its own off the list, or    *)
(* leaves the list alone, and leaves the times of the others.               *)
LEMMA ClientKeeps ==
  ASSUME Disciplined, TimerInv, TypeInv', NEW c \in Client, isr = "idle",
         UNCHANGED <<setup, tick, isr>>, NEW t \in setup.uses[c],
         \/ pc' = pc /\ pc[c].at = "user"
         \/ Return(c)
         \/ \E a \in {"start_time", "stop_remove", "stop_flag"} :
              Goto(c, a, t) /\ (a \in {"start_time", "stop_flag"} => t \notin ToSet(list')),
         list' \in {list, RemoveFirst(list, t)},
         \A u \in Timer \ {t} : init'[u] = init[u],
         timeout' = timeout, due' = due
  PROVE  TimerInv'
<1>1. Scheduled(list, timeout, due, Slack)
  BY DEF TimerInv, ListOK
<1>2. Scheduled(list', timeout', due', Slack') /\ ToSet(list') \subseteq ToSet(list)
  <2>1. Slack' = Slack
    BY DEF Slack
  <2>2. CASE list' = list
    BY <1>1, <2>1, <2>2
  <2>3. CASE list' = RemoveFirst(list, t)
    BY <1>1, <2>1, <2>3, RemoveScheduled
  <2> QED
    BY <2>2, <2>3
<1>3. ListOK'
  BY <1>2, StaysScheduled
<1>4. TypeInv /\ pc \in [Client -> [at : {"user", "start_time", "start_insert", "stop_remove",
                                         "stop_flag"}, on : Timer \cup {Nothing}]]
  BY DEF TimerInv, TypeInv, TypeOK
<1>5. \A d \in Client \ {c} : pc'[d] = pc[d]
  BY <1>4 DEF Return, Goto
<1>6. pc'[c].at # "start_insert"
  BY <1>4 DEF Return, Goto, Ready
<1>7. pc'[c].at \in {"start_time", "stop_flag"} => pc'[c].on = t /\ t \notin ToSet(list')
  BY <1>4 DEF Return, Goto, Ready
<1>8. OutOfList'
  <2> SUFFICES ASSUME NEW d \in Client, pc'[d].at \in {"start_time", "start_insert", "stop_flag"}
               PROVE  pc'[d].on \notin ToSet(list')
    BY DEF OutOfList, Listed
  <2>1. CASE d = c
    BY <1>6, <1>7, <2>1
  <2>2. CASE d # c
    BY <1>2, <1>5, <2>2 DEF TimerInv, OutOfList, Listed
  <2> QED
    BY <2>1, <2>2
<1>9. Pending'
  <2> SUFFICES ASSUME NEW d \in Client, pc'[d].at = "start_insert"
               PROVE  /\ timeout'[pc'[d].on] = (tick' + due'[pc'[d].on]) % TickRange
                      /\ due'[pc'[d].on] \in init'[pc'[d].on] - MaxLag .. init'[pc'[d].on]
    BY DEF Pending
  <2>1. d # c /\ pc'[d] = pc[d]
    BY <1>5, <1>6
  <2>2. pc[d].on # t /\ pc[d].on \in Timer
    BY <1>4, <2>1, OwnTimer
  <2>3. init'[pc[d].on] = init[pc[d].on]
    BY <2>2
  <2> QED
    BY <2>1, <2>3 DEF TimerInv, Pending
<1> QED
  BY <1>3, <1>8, <1>9 DEF TimerInv

(* rt_timer_start computes the time-out of a timer that is off the list. *)
LEMMA StartTimeKeeps ==
  ASSUME Disciplined, TimerInv, TypeInv', NEW c \in Client, StartTime(c)
  PROVE  TimerInv'
<1> DEFINE t == pc[c].on
<1>1. /\ isr = "idle" /\ pc[c].at = "start_time"
      /\ timeout' = [timeout EXCEPT ![t] = (tick + init[t]) % TickRange]
      /\ due' = [due EXCEPT ![t] = init[t]]
      /\ pc' = [pc EXCEPT ![c] = [at |-> "start_insert", on |-> t]]
      /\ UNCHANGED <<setup, tick, list, init, isr>>
  BY DEF StartTime, At, Goto
<1>2. /\ TypeInv /\ Scheduled(list, timeout, due, Slack) /\ OutOfList /\ Pending
      /\ pc \in [Client -> [at : {"user", "start_time", "start_insert", "stop_remove",
                                 "stop_flag"}, on : Timer \cup {Nothing}]]
      /\ timeout \in [Timer -> Tick] /\ due \in [Timer -> Int] /\ init \in [Timer -> Times]
      /\ tick \in Tick /\ setup \in Setups
  BY DEF TimerInv, ListOK, TypeInv, TypeOK
<1>3. t \in setup.uses[c] /\ t \in Timer /\ t \notin ToSet(list)
  BY <1>1, <1>2, SetupType DEF TypeInv, CallsOwn, OutOfList, Listed
<1>4. init[t] \in Times /\ init[t] \in Nat
  BY <1>2, <1>3, HalfRange
<1>5. /\ \A u \in Timer \ {t} : timeout'[u] = timeout[u] /\ due'[u] = due[u]
      /\ timeout'[t] = (tick + init[t]) % TickRange /\ due'[t] = init[t]
  BY <1>1, <1>2, <1>3
<1>6. \A u \in ToSet(list) : u \in Timer \ {t}
  BY <1>2, <1>3, InToSet DEF Scheduled
<1>7. ListOK'
  <2>1. Slack' = Slack
    BY <1>1 DEF Slack
  <2>2. Scheduled(list, timeout', due', Slack)
    BY <1>2, <1>5, <1>6, ScheduledElsewhere
  <2>3. Scheduled(list', timeout', due', Slack')
    BY <1>1, <2>1, <2>2
  <2> QED
    BY <1>1, <2>3, StaysScheduled
<1>8. /\ \A d \in Client \ {c} : pc'[d] = pc[d]
      /\ pc'[c].at = "start_insert" /\ pc'[c].on = t
  BY <1>1, <1>2
<1>9. OutOfList'
  BY <1>1, <1>2, <1>3, <1>8 DEF OutOfList, Listed
<1>10. Pending'
  <2> SUFFICES ASSUME NEW d \in Client, pc'[d].at = "start_insert"
               PROVE  /\ timeout'[pc'[d].on] = (tick' + due'[pc'[d].on]) % TickRange
                      /\ due'[pc'[d].on] \in init'[pc'[d].on] - MaxLag .. init'[pc'[d].on]
    BY DEF Pending
  <2>1. CASE d = c
    <3>1. init[t] \in init[t] - MaxLag .. init[t]
      BY <1>4, HalfRange
    <3> QED
      BY <1>1, <1>5, <1>8, <2>1, <3>1
  <2>2. CASE d # c
    <3>1. pc'[d] = pc[d] /\ pc[d].on # t /\ pc[d].on \in Timer
      BY <1>2, <1>3, <1>8, <2>2, OwnTimer
    <3> QED
      BY <1>1, <1>2, <1>5, <3>1 DEF Pending
  <2> QED
    BY <2>1, <2>2
<1> QED
  BY <1>7, <1>9, <1>10 DEF TimerInv

(* rt_timer_start puts the timer at its place on the list. *)
LEMMA StartInsertKeeps ==
  ASSUME Disciplined, TimerInv, TypeInv', NEW c \in Client, StartInsert(c)
  PROVE  /\ TimerInv'
         /\ pc[c].on \in Timer /\ ToSet(list') = Listed \cup {pc[c].on}
         /\ \A u \in Timer : Precedes(list', pc[c].on, u) => due[u] > due[pc[c].on]
<1> DEFINE t == pc[c].on
<1>1. /\ isr = "idle" /\ pc[c].at = "start_insert"
      /\ list' = Inserted(list, timeout, t)
      /\ pc' = [pc EXCEPT ![c] = Ready]
      /\ UNCHANGED <<setup, tick, timeout, init, isr, due>>
  BY DEF StartInsert, At, Return
<1>2. /\ TypeInv /\ Scheduled(list, timeout, due, Slack) /\ OutOfList /\ Pending
      /\ pc \in [Client -> [at : {"user", "start_time", "start_insert", "stop_remove",
                                 "stop_flag"}, on : Timer \cup {Nothing}]]
      /\ timeout \in [Timer -> Tick] /\ due \in [Timer -> Int] /\ init \in [Timer -> Times]
      /\ tick \in Tick /\ setup \in Setups
  BY DEF TimerInv, ListOK, TypeInv, TypeOK
<1>3. t \in setup.uses[c] /\ t \in Timer /\ t \notin ToSet(list)
  BY <1>1, <1>2, SetupType DEF TypeInv, CallsOwn, OutOfList, Listed
<1>4. Slack = 0 /\ Slack' = 0 /\ 0 \in {0, 1}
  BY <1>1 DEF Slack
<1>5. Fresh(due[t], 0) /\ timeout[t] = (tick + due[t]) % TickRange
  BY <1>1, <1>2, <1>3 DEF Pending, Fresh
<1>6. Scheduled(list, timeout, due, 0) /\ TimesFit
  BY <1>2, <1>4 DEF Disciplined
<1>7. /\ Scheduled(list', timeout, due, 0)
      /\ ToSet(list') = ToSet(list) \cup {t}
      /\ \A u \in Timer : Precedes(list', t, u) => due[u] > due[t]
  BY <1>1, <1>2, <1>3, <1>4, <1>5, <1>6, InsertScheduled
<1>8. ListOK'
  <2>1. Scheduled(list', timeout', due', Slack')
    BY <1>1, <1>4, <1>7
  <2> QED
    BY <1>1, <2>1, StaysScheduled
<1>9. /\ \A d \in Client \ {c} : pc'[d] = pc[d]
      /\ pc'[c].at = "user"
  BY <1>1, <1>2 DEF Ready
<1>10. \A d \in Client : pc'[d].at # "user" => pc'[d] = pc[d] /\ pc[d].on # t
  BY <1>2, <1>3, <1>9, OwnTimer
<1>11. OutOfList'
  BY <1>2, <1>7, <1>10 DEF OutOfList, Listed
<1>12. Pending'
  BY <1>1, <1>2, <1>10 DEF Pending
<1> QED
  BY <1>3, <1>7, <1>8, <1>11, <1>12 DEF TimerInv, Listed

-----------------------------------------------------------------------------
(* The steps of the tick interrupt *)

(* A tick brings every timer of the list one tick closer, and no nearer to  *)
(* the others.                                                              *)
LEMMA TickIsrKeeps ==
  ASSUME Disciplined, TimerInv, TypeInv', TickIsr
  PROVE  TimerInv'
<1>1. /\ isr = "idle" /\ isr' = "check"
      /\ tick' = (tick + 1) % TickRange
      /\ due' = [u \in Timer |-> IF u \in Inserting \cup ToSet(list) THEN due[u] - 1 ELSE 0]
      /\ \A u \in Inserting : init[u] - due[u] < MaxLag
      /\ UNCHANGED <<setup, list, timeout, init, pc>>
  BY DEF TickIsr
<1>2. /\ TypeInv /\ Scheduled(list, timeout, due, Slack) /\ OutOfList /\ Pending
      /\ due \in [Timer -> Int] /\ init \in [Timer -> Times]
      /\ tick \in Tick /\ setup \in Setups
  BY DEF TimerInv, ListOK, TypeInv, TypeOK
<1>3. /\ Slack = 0 /\ Slack' = 1 /\ 0 \in {0, 1} /\ 1 \in {0, 1} /\ TimesFit
      /\ MaxLag \in Nat /\ \A x \in Times : x \in Nat
  BY <1>1, HalfRange DEF Slack, Disciplined
<1>4. /\ list \in Seq(Timer) /\ IsInjective(list) /\ InOrder(list, due)
      /\ \A u \in ToSet(list) : Near(due[u], 0) /\ timeout[u] = (tick + due[u]) % TickRange
  BY <1>2, <1>3 DEF Scheduled
<1>5. \A u \in ToSet(list) : u \in Timer /\ due'[u] = due[u] - 1
  BY <1>1, <1>4, InToSet
<1>6. ASSUME NEW u \in ToSet(list)
      PROVE  Near(due'[u], 1) /\ timeout'[u] = (tick' + due'[u]) % TickRange
  <2>1. due[u] \in Int /\ Near(due[u], 0) /\ due'[u] = due[u] - 1
    BY <1>2, <1>4, <1>5
  <2>2. Close(due[u])
    BY <1>3, <2>1, NearClose
  <2>3. timeout'[u] = (tick' + due'[u]) % TickRange
    BY <1>1, <1>2, <1>4, <2>1, <2>2, NextTick
  <2>4. Near(due'[u], 1)
    <3>1. /\ \E x \in Times : due[u] <= x
          /\ due[u] >= 1 \/ \E y \in Times : due[u] >= y - MaxLag
      BY <2>1 DEF Near
    <3>2. due'[u] + 1 = due[u] /\ \A x \in Times : due[u] <= x => due'[u] <= x
      BY <1>3, <2>1
    <3> QED
      BY <3>1, <3>2 DEF Near
  <2> QED
    BY <2>3, <2>4
<1>7. InOrder(list, due')
  <2> SUFFICES ASSUME NEW x \in Timer, NEW y \in Timer, Precedes(list, x, y)
               PROVE  due'[x] <= due'[y]
    BY DEF InOrder
  <2>1. x \in ToSet(list) /\ y \in ToSet(list)
    BY <1>4, InToSet DEF Precedes
  <2>2. due[x] <= due[y] /\ due[x] \in Int /\ due[y] \in Int
    BY <1>2, <1>4 DEF InOrder
  <2> QED
    BY <1>5, <2>1, <2>2
<1>8. ListOK'
  BY <1>1, <1>3, <1>4, <1>6, <1>7 DEF ListOK, Scheduled
<1>9. OutOfList'
  BY <1>1, <1>2 DEF OutOfList, Listed
<1>10. Pending'
  <2> SUFFICES ASSUME NEW c \in Client, pc[c].at = "start_insert"
               PROVE  /\ timeout[pc[c].on] = (tick' + due'[pc[c].on]) % TickRange
                      /\ due'[pc[c].on] \in init[pc[c].on] - MaxLag .. init[pc[c].on]
    BY <1>1 DEF Pending
  <2> DEFINE u == pc[c].on
  <2>1. u \in Inserting
    BY DEF Inserting
  <2>2. u \in Timer /\ init[u] \in Times
    BY <1>2, SetupType DEF TypeInv, CallsOwn
  <2>3. /\ timeout[u] = (tick + due[u]) % TickRange /\ due[u] \in init[u] - MaxLag .. init[u]
        /\ init[u] - due[u] < MaxLag
    BY <1>1, <1>2, <2>1 DEF Pending
  <2>4. due[u] \in Int /\ due'[u] = due[u] - 1
    BY <1>1, <1>2, <2>1, <2>2
  <2>5. Fresh(due[u], 0)
    BY <2>2, <2>3 DEF Fresh
  <2>6. Close(due[u])
    BY <1>3, <2>5, FreshNear
  <2>7. timeout[u] = (tick' + due'[u]) % TickRange
    BY <1>1, <1>2, <2>3, <2>4, <2>6, NextTick
  <2> HIDE DEF u
  <2>8. due'[u] \in init[u] - MaxLag .. init[u]
    BY <1>3, <2>2, <2>3, <2>4
  <2> QED
    BY <2>7, <2>8 DEF u
<1> QED
  BY <1>8, <1>9, <1>10 DEF TimerInv

(* What one round of rt_timer_check works on *)
CheckQueue == [list |-> Tail(list), to |-> timeout, active |-> active, due |-> due]

(* One round of rt_timer_check takes the first timer off the list and may   *)
(* start it again; its time-out function may start one more timer.          *)
LEMMA CheckRound ==
  ASSUME TimesFit, TimerInv, CheckCall
  PROVE  LET t == Head(list) IN
         /\ list # <<>> /\ t \in Timer /\ t \in Listed
         /\ CheckQueue \in TimerQueue
         /\ Scheduled(CheckQueue.list, CheckQueue.to, CheckQueue.due, 1)
         /\ ToSet(CheckQueue.list) = Listed \ {t}
         /\ \E call \in setup.callback[t] :
              LET z == Called(CheckQueue, call[1], call[2])
                  y == AfterCall(z, t) IN
              /\ call[1] \in Operation /\ call[2] \in Timer
              /\ call[1] # "none" => call[2] \notin detached
              /\ list' = y.list /\ timeout' = y.to /\ active' = y.active /\ due' = y.due
              /\ detached' = IF call[1] = "detach" THEN detached \cup {call[2]} ELSE detached
              /\ z \in TimerQueue /\ Scheduled(z.list, z.to, z.due, 1)
              /\ y \in TimerQueue /\ Scheduled(y.list, y.to, y.due, 1)
<1> DEFINE t == Head(list)
           x == CheckQueue
<1>1. /\ isr = "check" /\ list # <<>>
      /\ tick \in Tick /\ init \in [Timer -> Times] /\ setup \in Setups
      /\ timeout \in [Timer -> Tick] /\ due \in [Timer -> Int] /\ active \in SUBSET Timer
      /\ Scheduled(list, timeout, due, 1)
  BY DEF CheckCall, TimerInv, TypeInv, TypeOK, ListOK, Slack
<1>2. /\ t \in Timer /\ t \in ToSet(list) /\ t \notin ToSet(Tail(list))
      /\ Scheduled(Tail(list), timeout, due, 1)
      /\ ToSet(Tail(list)) = ToSet(list) \ {t}
  BY <1>1, TailScheduled
<1>3. x \in TimerQueue /\ Scheduled(x.list, x.to, x.due, 1) /\ ToSet(x.list) = Listed \ {t}
  <2>1. Tail(list) \in Seq(Timer)
    BY <1>2 DEF Scheduled
  <2>2. /\ x.list = Tail(list) /\ x.to = timeout /\ x.due = due /\ x.active = active
        /\ x = [list |-> Tail(list), to |-> timeout, active |-> active, due |-> due]
    BY DEF CheckQueue
  <2>3. x \in TimerQueue
    BY <1>1, <2>1, <2>2 DEF TimerQueue
  <2> QED
    BY <1>2, <2>2, <2>3 DEF Listed
<1>4. PICK call \in setup.callback[t] :
        LET y == AfterCall(Called(x, call[1], call[2]), t) IN
        /\ call[1] # "none" => call[2] \notin detached
        /\ list' = y.list /\ timeout' = y.to /\ active' = y.active /\ due' = y.due
        /\ detached' = IF call[1] = "detach" THEN detached \cup {call[2]} ELSE detached
  BY DEF CheckCall, CheckQueue
<1>5. call[1] \in Operation /\ call[2] \in Timer
  BY <1>1, <1>2, SetupType
<1> DEFINE z == Called(x, call[1], call[2])
           y == AfterCall(z, t)
<1> HIDE DEF x, t
<1>6. z \in TimerQueue /\ Scheduled(z.list, z.to, z.due, 1)
  BY <1>1, <1>3, <1>5, CalledType, CalledScheduled
<1> HIDE DEF z
<1>7. y \in TimerQueue /\ Scheduled(y.list, y.to, y.due, 1)
  BY <1>1, <1>2, <1>6, AfterCallType, AfterCallScheduled
<1> QED
  BY <1>1, <1>2, <1>3, <1>4, <1>5, <1>6, <1>7 DEF Listed, x, t, z

LEMMA CheckCallKeeps ==
  ASSUME Disciplined, TimerInv, TypeInv', CheckCall
  PROVE  TimerInv'
<1> DEFINE t == Head(list)
           x == CheckQueue
<1>1. TimesFit
  BY DEF Disciplined
<1>2. /\ t \in Timer /\ t \in Listed /\ x \in TimerQueue
      /\ Scheduled(x.list, x.to, x.due, 1) /\ ToSet(x.list) = Listed \ {t}
      /\ x.to = timeout /\ x.due = due
  BY <1>1, CheckRound DEF CheckQueue
<1>3. PICK call \in setup.callback[t] :
        LET z == Called(x, call[1], call[2])
            y == AfterCall(z, t) IN
        /\ call[1] \in Operation /\ call[2] \in Timer
        /\ list' = y.list /\ timeout' = y.to /\ due' = y.due
        /\ z \in TimerQueue /\ Scheduled(z.list, z.to, z.due, 1)
        /\ y \in TimerQueue /\ Scheduled(y.list, y.to, y.due, 1)
  BY <1>1, CheckRound
<1> DEFINE z == Called(x, call[1], call[2])
           y == AfterCall(z, t)
           new == IF call[1] = "start" THEN {call[2]} ELSE {}
<1>4. /\ isr = "check" /\ UNCHANGED <<setup, tick, init, pc, isr>>
      /\ tick \in Tick /\ init \in [Timer -> Times] /\ setup \in Setups
      /\ TypeInv /\ OutOfList /\ Pending
  BY DEF CheckCall, TimerInv, TypeInv, TypeOK
<1> HIDE DEF x, t
<1>5. /\ ToSet(z.list) \subseteq ToSet(x.list) \cup new
      /\ \A v \in Timer \ new : z.to[v] = x.to[v] /\ z.due[v] = x.due[v]
  BY <1>1, <1>2, <1>3, <1>4, CalledScheduled
<1>6. list' = y.list /\ timeout' = y.to /\ due' = y.due /\ Scheduled(y.list, y.to, y.due, 1)
  BY <1>3
<1>7. z \in TimerQueue /\ Scheduled(z.list, z.to, z.due, 1)
  BY <1>3
<1> HIDE DEF z
<1>8. /\ ToSet(y.list) \subseteq ToSet(z.list) \cup {t}
      /\ \A v \in Timer \ {t} : y.to[v] = z.to[v] /\ y.due[v] = z.due[v]
  BY <1>1, <1>2, <1>4, <1>7, AfterCallScheduled
<1> HIDE DEF y
<1>9. ListOK'
  <2>1. Slack' = 1
    BY <1>4 DEF Slack
  <2> QED
    BY <1>4, <1>6, <2>1, StaysScheduled
<1>10. ASSUME NEW c \in Client, pc[c].at \in {"start_time", "start_insert", "stop_flag"}
       PROVE  /\ pc[c].on \in Timer /\ pc[c].on \notin Listed
              /\ pc[c].on # t /\ pc[c].on \notin new
  <2>1. pc[c].on \in setup.uses[c] /\ pc[c].on \in Timer /\ pc[c].on \notin Listed
    BY <1>4, <1>10, SetupType DEF TypeInv, CallsOwn, OutOfList
  <2>2. call[1] = "start" => call[2] = t \/ \A d \in Client : call[2] \notin setup.uses[d]
    BY <1>2, <1>3, <1>4 DEF Disciplined, Separate
  <2> QED
    BY <1>2, <2>1, <2>2
<1>11. OutOfList'
  BY <1>2, <1>4, <1>5, <1>6, <1>8, <1>10 DEF OutOfList, Listed
<1>12. Pending'
  <2> SUFFICES ASSUME NEW c \in Client, pc[c].at = "start_insert"
               PROVE  timeout'[pc[c].on] = timeout[pc[c].on] /\ due'[pc[c].on] = due[pc[c].on]
    BY <1>4 DEF Pending
  <2> QED
    BY <1>2, <1>5, <1>6, <1>8, <1>10
<1> QED
  BY <1>9, <1>11, <1>12 DEF TimerInv

(* When rt_timer_check stops, no timer of the list has expired. *)
LEMMA CheckLeavesNone ==
  ASSUME TimesFit, TimerInv, CheckDone
  PROVE  \A u \in Listed : due[u] > 0
<1> DEFINE t == Head(list)
<1> SUFFICES ASSUME NEW u \in Listed PROVE due[u] > 0
  OBVIOUS
<1>1. /\ isr = "check" /\ tick \in Tick /\ due \in [Timer -> Int]
      /\ Scheduled(list, timeout, due, 1) /\ u \in ToSet(list)
  BY DEF CheckDone, TimerInv, TypeInv, TypeOK, ListOK, Slack, Listed
<1>2. /\ list \in Seq(Timer) /\ InOrder(list, due)
      /\ \A v \in ToSet(list) : Near(due[v], 1) /\ timeout[v] = (tick + due[v]) % TickRange
  BY <1>1 DEF Scheduled
<1>3. list # <<>> /\ t \in ToSet(list) /\ t \in Timer /\ u \in Timer
  BY <1>1, <1>2, EmptyToSet, HeadOfList, InToSet
<1>4. due[t] \in Int /\ due[u] \in Int /\ 1 \in {0, 1}
  BY <1>1, <1>3
<1>5. Close(due[t])
  BY <1>2, <1>3, <1>4, NearClose
<1>6. ~(due[t] <= 0)
  <2>1. ~Expired(t)
    BY <1>3 DEF CheckDone
  <2> QED
    BY <1>1, <1>2, <1>3, <1>5, <2>1, ExpiredIs
<1>7. u # t => due[t] <= due[u]
  BY <1>1, <1>2, <1>3, HeadPrecedes DEF InOrder
<1> QED
  BY <1>4, <1>6, <1>7

LEMMA CheckDoneKeeps ==
  ASSUME Disciplined, TimerInv, TypeInv', CheckDone
  PROVE  TimerInv'
<1>1. \A u \in Listed : due[u] > 0
  BY CheckLeavesNone DEF Disciplined
<1>2. /\ isr = "check" /\ isr' = "idle" /\ UNCHANGED <<setup, tick, list, timeout, init, pc, due>>
      /\ Scheduled(list, timeout, due, 1) /\ due \in [Timer -> Int]
  BY DEF CheckDone, TimerInv, TypeInv, TypeOK, ListOK, Slack
<1>3. \A u \in ToSet(list) : Near(due[u], 0)
  <2> SUFFICES ASSUME NEW u \in ToSet(list) PROVE Near(due[u], 0)
    OBVIOUS
  <2>1. Near(due[u], 1) /\ due[u] > 0 /\ u \in Timer
    BY <1>1, <1>2, InToSet DEF Scheduled, Listed
  <2>2. due[u] \in Int /\ due[u] + 0 >= 1
    BY <1>2, <2>1
  <2> QED
    BY <2>1, <2>2 DEF Near
<1>4. ListOK'
  BY <1>2, <1>3 DEF ListOK, Scheduled, Slack
<1>5. OutOfList' /\ Pending'
  BY <1>2 DEF TimerInv, OutOfList, Pending, Listed
<1> QED
  BY <1>4, <1>5 DEF TimerInv

-----------------------------------------------------------------------------
LEMMA ClientStepKeeps ==
  ASSUME Disciplined, TimerInv, TypeInv', NEW c \in Client, ClientStep(c)
  PROVE  TimerInv'
<1>1. ASSUME NEW t \in Timer, Start(c, t) PROVE TimerInv'
  <2>1. t \notin ToSet(list')
    BY <1>1, RemoveScheduled DEF Start, TimerInv, ListOK
  <2>2. "start_time" \in {"start_time", "stop_remove", "stop_flag"}
    OBVIOUS
  <2> QED
    BY <1>1, <2>1, <2>2, ClientKeeps DEF Start, MayCall
<1>2. ASSUME NEW t \in Timer, Stop(c, t) PROVE TimerInv'
  <2>1. "stop_remove" \in {"start_time", "stop_remove", "stop_flag"}
    OBVIOUS
  <2> QED
    BY <1>2, <2>1, ClientKeeps DEF Stop, MayCall
<1>3. ASSUME NEW t \in Timer, SetTime(c, t) PROVE TimerInv'
  <2>1. \A u \in Timer \ {t} : init'[u] = init[u]
    BY <1>3 DEF SetTime, TimerInv, TypeInv, TypeOK
  <2>2. pc[c].at = "user"
    BY <1>3 DEF SetTime, MayCall, Ready
  <2> QED
    BY <1>3, <2>1, <2>2, ClientKeeps DEF SetTime, MayCall
<1>4. ASSUME NEW t \in Timer, Detach(c, t) PROVE TimerInv'
  <2>1. pc[c].at = "user"
    BY <1>4 DEF Detach, MayCall, Ready
  <2> QED
    BY <1>4, <2>1, ClientKeeps DEF Detach, MayCall
<1>5. CASE StartTime(c)
  BY <1>5, StartTimeKeeps
<1>6. CASE StartInsert(c)
  BY <1>6, StartInsertKeeps
<1>7. CASE StopRemove(c)
  <2> DEFINE t == pc[c].on
  <2>1. t \in setup.uses[c] /\ t \notin ToSet(list')
    BY <1>7, RemoveScheduled DEF StopRemove, At, TimerInv, ListOK, TypeInv, CallsOwn
  <2>2. "stop_flag" \in {"start_time", "stop_remove", "stop_flag"}
    OBVIOUS
  <2> QED
    BY <1>7, <2>1, <2>2, ClientKeeps DEF StopRemove, At
<1>8. CASE StopFlag(c)
  <2>1. pc[c].on \in setup.uses[c]
    BY <1>8 DEF StopFlag, At, TimerInv, TypeInv, CallsOwn
  <2> QED
    BY <1>8, <2>1, ClientKeeps DEF StopFlag, At
<1> QED
  BY <1>1, <1>2, <1>3, <1>4, <1>5, <1>6, <1>7, <1>8 DEF ClientStep

LEMMA TimerNext == Disciplined /\ TimerInv /\ [Next]_vars => TimerInv'
<1> SUFFICES ASSUME Disciplined, TimerInv, [Next]_vars PROVE TimerInv'
  OBVIOUS
<1>1. TypeInv'
  BY TypeNext DEF TimerInv
<1>2. CASE UNCHANGED vars
  <2>1. UNCHANGED <<setup, tick, list, timeout, init, pc, isr, due>>
    BY <1>2 DEF vars
  <2>2. ListOK'
    BY <2>1 DEF TimerInv, ListOK, Scheduled, Slack
  <2>3. OutOfList' /\ Pending'
    BY <2>1 DEF TimerInv, OutOfList, Pending, Listed
  <2> QED
    BY <1>1, <2>2, <2>3 DEF TimerInv
<1> QED
  BY <1>1, <1>2, TickIsrKeeps, CheckCallKeeps, CheckDoneKeeps, ClientStepKeeps DEF Next

(* With clients that keep to timers of their own, the list of a timer is    *)
(* sorted in every state, holds no timer that is being started or has been  *)
(* stopped, and says in its time-outs what is left of each timer's time.    *)
THEOREM TimerInvariant == ASSUME Disciplined PROVE Spec => []TimerInv
<1>1. TimerInv /\ [Next]_vars => TimerInv'
  BY TimerNext
<1> QED
  BY <1>1, TimerInit, PTL DEF Spec

(* The list stays sorted and no timer is on it twice, also when the tick    *)
(* wraps around and when rt_timer_start is preempted between its steps.     *)
THEOREM TimerSorted == ASSUME Disciplined PROVE Spec => []Sorted
<1>1. TimerInv => Sorted
  <2> SUFFICES ASSUME TimerInv PROVE Sorted
    OBVIOUS
  <2>1. list \in Seq(Timer) /\ IsInjective(list) /\ InOrder(list, due)
    BY DEF TimerInv, ListOK, Scheduled
  <2>2. DOMAIN list = 1 .. Len(list) /\ \A i \in 1 .. Len(list) : list[i] \in Timer
    BY <2>1, LenProperties
  <2> QED
    BY <2>1, <2>2 DEF Sorted, InOrder, Precedes
<1> QED
  BY <1>1, TimerInvariant, PTL

(* While the tick interrupt runs, only its own handler takes steps. *)
LEMMA OnlyHandler ==
  ASSUME isr = "check", [Next]_vars
  PROVE  CheckCall \/ CheckDone \/ UNCHANGED vars
BY DEF Next, TickIsr, ClientStep, Start, Stop, SetTime, Detach, StartTime, StartInsert,
       StopRemove, StopFlag, MayCall, At

(* rt_timer_check calls no timer before its time: the unsigned comparison   *)
(* of the tick with the time-out says what the full times would say.        *)
THEOREM TimerNotEarly == ASSUME Disciplined PROVE Spec => NotEarly
<1>1. TimerInv /\ [Next]_vars => [isr = "check" /\ isr' = "check" => due[Head(list)] <= 0]_vars
  <2> SUFFICES ASSUME TimerInv, [Next]_vars, isr = "check", isr' = "check", ~UNCHANGED vars
               PROVE  due[Head(list)] <= 0
    OBVIOUS
  <2>1. CheckCall
    BY OnlyHandler DEF CheckDone
  <2> DEFINE t == Head(list)
  <2>2. list # <<>> /\ Expired(t)
    BY <2>1 DEF CheckCall
  <2>3. /\ tick \in Tick /\ due \in [Timer -> Int] /\ Scheduled(list, timeout, due, 1)
    BY DEF TimerInv, TypeInv, TypeOK, ListOK, Slack
  <2>4. t \in Timer /\ t \in ToSet(list)
    BY <2>2, <2>3, TailScheduled
  <2>5. Near(due[t], 1) /\ timeout[t] = (tick + due[t]) % TickRange /\ due[t] \in Int
        /\ 1 \in {0, 1} /\ TimesFit
    BY <2>3, <2>4 DEF Scheduled, Disciplined
  <2>6. Close(due[t])
    BY <2>5, NearClose
  <2> QED
    BY <2>2, <2>3, <2>5, <2>6, ExpiredIs
<1> QED
  BY <1>1, TimerInvariant, PTL DEF Spec, NotEarly

(* rt_timer_check leaves no timer on the list whose time has come, although *)
(* it looks at the first one only.                                          *)
THEOREM TimerNotLate == ASSUME Disciplined PROVE Spec => NotLate
<1>1. TimerInv /\ [Next]_vars => [isr = "check" /\ isr' = "idle" => \A t \in Listed : due[t] > 0]_vars
  <2> SUFFICES ASSUME TimerInv, [Next]_vars, isr = "check", isr' = "idle", ~UNCHANGED vars
               PROVE  \A t \in Listed : due[t] > 0
    OBVIOUS
  <2>1. CheckDone
    BY OnlyHandler DEF CheckCall
  <2> QED
    BY <2>1, CheckLeavesNone DEF Disciplined
<1> QED
  BY <1>1, TimerInvariant, PTL DEF Spec, NotLate

-----------------------------------------------------------------------------
(* Timers of the same tick *)

(* Two timers with the same time-out are due at the same time. *)
LEMMA SameDue ==
  ASSUME NEW k \in Tick, NEW a, NEW b, Close(a), Close(b),
         (k + a) % TickRange = (k + b) % TickRange
  PROVE  a = b
<1> DEFINE r == TickRange
           x == (k + a) % r
<1>1. r \in Nat /\ r > 3 /\ k \in Int /\ a \in Int /\ b \in Int
      /\ Half \in Nat /\ 2 * Half <= r - 1 /\ a > b - r /\ b > a - r
  BY HalfRange DEF Close
<1>2. Minus(x, x) = IF a >= b THEN a - b ELSE a - b + r
  BY MinusDue
<1> HIDE DEF r
<1>3. x \in Int
  BY <1>1
<1> HIDE DEF x
<1>4. Minus(x, x) = 0
  <2>1. x - x = 0
    BY <1>3
  <2>2. 0 % TickRange = 0
    BY HalfRange
  <2> QED
    BY <2>1, <2>2 DEF Minus
<1> QED
  BY <1>1, <1>2, <1>4

(* The places of two nodes of a list *)
LEMMA PlacesInOrder ==
  ASSUME NEW l \in Seq(Timer), IsInjective(l), NEW x \in ToSet(l), NEW y \in ToSet(l),
         x # y, ~Precedes(l, y, x)
  PROVE  (CHOOSE i \in DOMAIN l : l[i] = x) < (CHOOSE i \in DOMAIN l : l[i] = y)
<1>1. DOMAIN l = 1 .. Len(l) /\ Len(l) \in Nat
  BY LenProperties
<1>2. PICK i \in 1 .. Len(l) : l[i] = x
  BY InToSet
<1>3. PICK j \in 1 .. Len(l) : l[j] = y
  BY InToSet
<1>4. i < j
  BY <1>1, <1>2, <1>3 DEF Precedes
<1>5. (CHOOSE n \in DOMAIN l : l[n] = x) = i /\ (CHOOSE n \in DOMAIN l : l[n] = y) = j
  BY <1>1, <1>2, <1>3 DEF IsInjective
<1> QED
  BY <1>4, <1>5

(* A timer that is put on the list comes behind the others of its tick. *)
LEMMA NewTimerLast ==
  ASSUME Disciplined, TimerInv, [Next]_vars,
         NEW t \in Timer, NEW v \in Timer,
         t \in Listed, v \notin Listed, t \in ToSet(list'), v \in ToSet(list'),
         timeout'[t] = timeout'[v], isr = "check" => t # Head(list)
  PROVE  ~Precedes(list', v, t)
<1>1. /\ TimesFit /\ tick \in Tick /\ init \in [Timer -> Times] /\ list \in Seq(Timer)
      /\ 0 \in {0, 1} /\ 1 \in {0, 1} /\ due \in [Timer -> Int]
  BY DEF TimerInv, TypeInv, TypeOK, Disciplined
<1>2. CASE CheckCall
  <2> DEFINE h == Head(list)
             x == CheckQueue
  <2>1. /\ h \in Timer /\ h \in Listed /\ x \in TimerQueue
        /\ Scheduled(x.list, x.to, x.due, 1) /\ ToSet(x.list) = Listed \ {h}
    BY <1>1, <1>2, CheckRound
  <2>2. PICK call \in setup.callback[h] :
          LET z == Called(x, call[1], call[2])
              y == AfterCall(z, h) IN
          /\ call[1] \in Operation /\ call[2] \in Timer
          /\ list' = y.list /\ timeout' = y.to
          /\ z \in TimerQueue /\ Scheduled(z.list, z.to, z.due, 1)
    BY <1>1, <1>2, CheckRound
  <2> DEFINE z == Called(x, call[1], call[2])
             y == AfterCall(z, h)
  <2>3. t # h /\ v # h
    BY <1>2, <2>1 DEF CheckCall
  <2> HIDE DEF x, h
  <2>4. ToSet(z.list) \subseteq ToSet(x.list) \cup (IF call[1] = "start" THEN {call[2]} ELSE {})
    BY <1>1, <2>1, <2>2, CalledScheduled
  <2>5. list' = y.list /\ timeout' = y.to /\ z \in TimerQueue /\ Scheduled(z.list, z.to, z.due, 1)
    BY <2>2
  <2> DEFINE again == h \in Periodic /\ h \in z.active
  <2>6. /\ ToSet(y.list) \subseteq ToSet(z.list) \cup {h}
        /\ \A w \in Timer \ {h} : y.to[w] = z.to[w]
        /\ Precedes(y.list, v, t) => Precedes(z.list, v, t)
    <3> HIDE DEF z
    <3>1. CASE again
      <4>1. y = Started(z, h)
        BY <3>1 DEF AfterCall
      <4> HIDE DEF y
      <4>2. /\ ToSet(y.list) = ToSet(z.list) \cup {h}
            /\ \A w \in Timer \ {h} : y.to[w] = z.to[w]
            /\ \A w, u \in Timer \ {h} : Precedes(y.list, w, u) => Precedes(z.list, w, u)
        BY ZenonT(40), <1>1, <2>1, <2>5, <4>1, StartedScheduled
      <4> QED
        BY <2>3, <4>2
    <3>2. CASE ~again
      <4>1. y.list = z.list /\ y.to = z.to
        BY <2>5, <3>2 DEF AfterCall, TimerQueue
      <4> QED
        BY <4>1
    <3> QED
      BY <3>1, <3>2
  <2>7. v \in ToSet(z.list) /\ t \in ToSet(z.list)
    BY <2>3, <2>5, <2>6
  <2>8. call[1] = "start" /\ v = call[2]
    BY <2>1, <2>4, <2>7
  <2>9. z = Started(x, v)
    BY <2>8 DEF Called
  <2>10. \A w \in Timer : Precedes(z.list, v, w) => z.due[w] > z.due[v]
    BY <1>1, <2>1, <2>9, StartedScheduled
  <2>11. z.to[t] = z.to[v]
    BY <2>3, <2>5, <2>6
  <2> HIDE DEF z, y
  <2>12. /\ z.due[t] \in Int /\ z.due[v] \in Int
         /\ Near(z.due[t], 1) /\ z.to[t] = (tick + z.due[t]) % TickRange
         /\ Near(z.due[v], 1) /\ z.to[v] = (tick + z.due[v]) % TickRange
    BY <2>5, <2>7 DEF Scheduled, TimerQueue
  <2>13. Close(z.due[t]) /\ Close(z.due[v])
    BY <1>1, <2>12, NearClose
  <2>14. z.due[t] = z.due[v]
    BY <1>1, <2>11, <2>12, <2>13, SameDue
  <2> QED
    BY <2>5, <2>6, <2>10, <2>12, <2>14
<1>3. ASSUME NEW c \in Client, StartInsert(c) PROVE ~Precedes(list', v, t)
  <2>1. TypeInv'
    BY TypeNext DEF TimerInv
  <2>2. /\ TimerInv' /\ pc[c].on \in Timer /\ ToSet(list') = Listed \cup {pc[c].on}
        /\ \A u \in Timer : Precedes(list', pc[c].on, u) => due[u] > due[pc[c].on]
    BY <1>3, <2>1, StartInsertKeeps
  <2>3. v = pc[c].on
    BY <2>2
  <2>4. /\ isr' = "idle" /\ tick' = tick /\ timeout' = timeout /\ due' = due
    BY <1>3 DEF StartInsert, At
  <2>5. \A u \in ToSet(list') : Near(due[u], 0) /\ timeout[u] = (tick + due[u]) % TickRange
    BY <2>2, <2>4 DEF TimerInv, ListOK, Scheduled, Slack
  <2>6. Near(due[t], 0) /\ Near(due[v], 0) /\ due[t] \in Int /\ due[v] \in Int
        /\ timeout[t] = (tick + due[t]) % TickRange /\ timeout[v] = (tick + due[v]) % TickRange
    BY <1>1, <2>5
  <2>7. Close(due[t]) /\ Close(due[v])
    BY <1>1, <2>6, NearClose
  <2>8. due[t] = due[v]
    BY <1>1, <2>4, <2>6, <2>7, SameDue
  <2> QED
    BY <2>2, <2>3, <2>6, <2>8
<1>4. CASE ~CheckCall /\ \A c \in Client : ~StartInsert(c)
  <2>1. list' = list \/ \E u : list' = RemoveFirst(list, u)
    BY <1>4 DEF Next, vars, TickIsr, CheckDone, ClientStep, Start, Stop, SetTime, Detach,
            StartTime, StopRemove, StopFlag
  <2>2. Scheduled(list, timeout, due, Slack)
    BY DEF TimerInv, ListOK
  <2>3. ToSet(list') \subseteq ToSet(list)
    BY <2>1, <2>2, RemoveScheduled
  <2> QED
    BY <2>3 DEF Listed
<1> QED
  BY <1>2, <1>3, <1>4

(* A timer that is started comes behind the timers of the same tick that    *)
(* are on the list already, so that "the timer inserted early get called    *)
(* early" (timer.c:355), whether a thread starts it or a time-out function. *)
THEOREM TimerSameTickFifo == ASSUME Disciplined PROVE Spec => SameTickFifo
<1> DEFINE Place(l, x) == CHOOSE i \in DOMAIN l : l[i] = x
           Fifo == \A t, v \in Timer :
                     t \in Listed /\ v \notin Listed /\ {t, v} \subseteq ToSet(list')
                       /\ timeout[t] = timeout'[t] /\ timeout'[t] = timeout'[v]
                       /\ (isr = "check" => t # Head(list))
                       => Place(list', t) < Place(list', v)
<1>1. TimerInv /\ TimerInv' /\ [Next]_vars => [Fifo]_vars
  <2> SUFFICES ASSUME TimerInv, TimerInv', [Next]_vars, NEW t \in Timer, NEW v \in Timer,
                      t \in Listed, v \notin Listed, {t, v} \subseteq ToSet(list'),
                      timeout[t] = timeout'[t], timeout'[t] = timeout'[v],
                      isr = "check" => t # Head(list)
               PROVE  Place(list', t) < Place(list', v)
    OBVIOUS
  <2>1. ~Precedes(list', v, t)
    BY NewTimerLast
  <2>2. list' \in Seq(Timer) /\ IsInjective(list') /\ t # v
    BY DEF TimerInv, ListOK, Scheduled
  <2> QED
    BY <2>1, <2>2, PlacesInOrder
<1>2. [][Fifo]_vars => SameTickFifo
  BY DEF SameTickFifo
<1> HIDE DEF Fifo
<1> QED
  BY <1>1, <1>2, TimerInvariant, PTL DEF Spec

-----------------------------------------------------------------------------
(* The flag of a timer *)

(* A client is inside rt_timer_stop on t. *)
Stopping(t) ==
  \E c \in Client : pc[c].on = t /\ pc[c].at \in {"stop_remove", "stop_flag"}

(* The flag of a timer that nobody is stopping says whether it is on the    *)
(* list, a timer that is being started has no flag and is not detached, and *)
(* no detached timer is on the list.                                        *)
FlagInv ==
  /\ \A t \in Timer \ detached : ~Stopping(t) => (t \in active <=> t \in Listed)
  /\ \A c \in Client : pc[c].at \in {"start_time", "start_insert"} =>
       pc[c].on \notin detached /\ pc[c].on \notin active
  /\ detached \cap Listed = {}

LEMMA FlagInit == Init => FlagInv
<1> SUFFICES ASSUME Init PROVE FlagInv
  OBVIOUS
<1>1. list \in Seq(Timer) /\ list = <<>>
  BY DEF Init
<1>2. ToSet(list) = {}
  BY <1>1, EmptyToSet
<1> QED
  BY <1>2 DEF Init, Ready, FlagInv, Listed

(* A step of a client on its own timer t leaves the other timers alone. *)
LEMMA OthersKeepFlag ==
  ASSUME Disciplined, TimerInv, FlagInv, NEW c \in Client, NEW t \in setup.uses[c], t \in Timer,
         pc[c].on \in {t, Nothing}, pc' \in {pc, [pc EXCEPT ![c] = pc'[c]]},
         pc'[c].on \in {t, Nothing},
         pc'[c].at \in {"start_time", "start_insert"} => t \notin detached' /\ t \notin active',
         pc'[c].at \in {"start_time", "start_insert"} => pc'[c].on = t,
         ToSet(list') \ {t} = Listed \ {t}, active' \ {t} = active \ {t},
         detached' \ {t} = detached \ {t},
         t \in detached' => t \notin ToSet(list'),
         t \notin detached' /\ ~(pc'[c].on = t /\ pc'[c].at \in {"stop_remove", "stop_flag"})
           => (t \in active' <=> t \in ToSet(list'))
  PROVE  FlagInv'
<1>1. TypeInv /\ pc \in [Client -> [at : {"user", "start_time", "start_insert", "stop_remove",
                                         "stop_flag"}, on : Timer \cup {Nothing}]]
  BY DEF TimerInv, TypeInv, TypeOK
<1>2. \A d \in Client \ {c} : pc'[d] = pc[d]
  BY <1>1
<1>3. t # Nothing
  BY TimerAssumption
<1>4. \A u \in Timer \ {t} : Stopping(u)' <=> Stopping(u)
  <2> SUFFICES ASSUME NEW u \in Timer \ {t} PROVE Stopping(u)' <=> Stopping(u)
    OBVIOUS
  <2>1. pc[c].on # u /\ pc'[c].on # u
    BY TimerAssumption
  <2> QED
    BY <1>2, <2>1 DEF Stopping
<1>5. \A u \in Timer \ detached' : ~Stopping(u)' => (u \in active' <=> u \in ToSet(list'))
  <2> SUFFICES ASSUME NEW u \in Timer \ detached', ~Stopping(u)'
               PROVE  u \in active' <=> u \in ToSet(list')
    OBVIOUS
  <2>1. CASE u = t
    BY <2>1 DEF Stopping
  <2>2. CASE u # t
    BY <1>4, <2>2 DEF FlagInv
  <2> QED
    BY <2>1, <2>2
<1>6. ASSUME NEW d \in Client, pc'[d].at \in {"start_time", "start_insert"}
      PROVE  pc'[d].on \notin detached' /\ pc'[d].on \notin active'
  <2>1. CASE d = c
    BY <1>6, <2>1
  <2>2. CASE d # c
    <3>1. pc'[d] = pc[d] /\ pc[d].on # t
      BY <1>1, <1>2, <1>6, <2>2, OwnTimer
    <3> QED
      BY <1>6, <3>1 DEF FlagInv
  <2> QED
    BY <2>1, <2>2
<1>7. detached' \cap ToSet(list') = {}
  BY DEF FlagInv
<1> QED
  BY <1>5, <1>6, <1>7 DEF FlagInv, Listed

LEMMA ClientKeepsFlags ==
  ASSUME Disciplined, TimerInv, FlagInv, NEW c \in Client, ClientStep(c)
  PROVE  FlagInv'
<1>1. /\ TypeInv /\ Scheduled(list, timeout, due, Slack) /\ OutOfList
      /\ pc \in [Client -> [at : {"user", "start_time", "start_insert", "stop_remove",
                                 "stop_flag"}, on : Timer \cup {Nothing}]]
      /\ setup \in Setups /\ Nothing \notin Timer
  BY TimerAssumption DEF TimerInv, ListOK, TypeInv, TypeOK
<1>2. \A u : ToSet(RemoveFirst(list, u)) = Listed \ {u}
  BY <1>1, RemoveScheduled DEF Listed
<1>3. pc[c].at # "user" => pc[c].on \in setup.uses[c] /\ pc[c].on \in Timer
  BY <1>1, SetupType DEF TypeInv, CallsOwn
<1>4. pc[c] = Ready => pc[c].at = "user" /\ pc[c].on = Nothing
  BY DEF Ready
<1>5. ASSUME NEW t \in Timer, Start(c, t) PROVE FlagInv'
  <2>1. /\ t \in setup.uses[c] /\ t \notin detached /\ pc[c].on = Nothing
        /\ ToSet(list') = Listed \ {t} /\ active' = active \ {t} /\ detached' = detached
        /\ pc' = [pc EXCEPT ![c] = [at |-> "start_time", on |-> t]]
    BY <1>2, <1>4, <1>5 DEF Start, MayCall, Goto
  <2>2. pc'[c].at = "start_time" /\ pc'[c].on = t
    BY <1>1, <2>1
  <2>3. pc' = [pc EXCEPT ![c] = pc'[c]]
    BY <1>1, <2>1
  <2> QED
    BY <2>1, <2>2, <2>3, OthersKeepFlag
<1>6. ASSUME NEW t \in Timer, Stop(c, t) PROVE FlagInv'
  <2>1. /\ t \in setup.uses[c] /\ t \notin detached /\ pc[c].on = Nothing
        /\ list' = list /\ active' = active /\ detached' = detached
        /\ pc' = [pc EXCEPT ![c] = [at |-> "stop_remove", on |-> t]]
    BY <1>4, <1>6 DEF Stop, MayCall, Goto
  <2>2. pc'[c].at = "stop_remove" /\ pc'[c].on = t
    BY <1>1, <2>1
  <2>3. pc' = [pc EXCEPT ![c] = pc'[c]]
    BY <1>1, <2>1
  <2> QED
    BY <2>1, <2>2, <2>3, OthersKeepFlag DEF Listed
<1>7. ASSUME NEW t \in Timer, SetTime(c, t) PROVE FlagInv'
  BY <1>7 DEF SetTime, FlagInv, Listed, Stopping
<1>8. ASSUME NEW t \in Timer, Detach(c, t) PROVE FlagInv'
  <2>1. /\ t \in setup.uses[c] /\ pc[c].on = Nothing /\ pc[c].at = "user"
        /\ ToSet(list') = Listed \ {t} /\ active' = active /\ detached' = detached \cup {t}
        /\ pc' = pc
    BY <1>2, <1>4, <1>8 DEF Detach, MayCall
  <2> QED
    BY <2>1, OthersKeepFlag
<1>9. CASE StartTime(c)
  <2> DEFINE t == pc[c].on
  <2>1. /\ t \in setup.uses[c] /\ t \in Timer /\ pc[c].at = "start_time"
        /\ list' = list /\ active' = active /\ detached' = detached
        /\ pc' = [pc EXCEPT ![c] = [at |-> "start_insert", on |-> t]]
    BY <1>3, <1>9 DEF StartTime, At, Goto
  <2>2. pc'[c].at = "start_insert" /\ pc'[c].on = t
    BY <1>1, <2>1
  <2>3. pc' = [pc EXCEPT ![c] = pc'[c]]
    BY <1>1, <2>1
  <2>4. t \notin detached /\ t \notin active /\ t \notin Listed
    BY <1>1, <2>1 DEF FlagInv, OutOfList
  <2> QED
    BY <2>1, <2>2, <2>3, <2>4, OthersKeepFlag DEF Listed
<1>10. CASE StartInsert(c)
  <2> DEFINE t == pc[c].on
  <2>1. /\ t \in setup.uses[c] /\ t \in Timer /\ pc[c].at = "start_insert"
        /\ active' = active \cup {t} /\ detached' = detached
        /\ pc' = [pc EXCEPT ![c] = Ready]
    BY <1>3, <1>10 DEF StartInsert, At, Return
  <2>2. ToSet(list') = Listed \cup {t}
    <3>1. TypeInv'
      BY <1>10, TypeNext DEF Next, ClientStep, TimerInv
    <3> QED
      BY <1>10, <3>1, StartInsertKeeps
  <2>3. pc'[c].at = "user" /\ pc'[c].on = Nothing
    BY <1>1, <2>1 DEF Ready
  <2>4. pc' = [pc EXCEPT ![c] = pc'[c]]
    BY <1>1, <2>1
  <2>5. t \notin detached
    BY <2>1 DEF FlagInv
  <2> QED
    BY <2>1, <2>2, <2>3, <2>4, <2>5, OthersKeepFlag
<1>11. CASE StopRemove(c)
  <2> DEFINE t == pc[c].on
  <2>1. /\ t \in setup.uses[c] /\ t \in Timer
        /\ ToSet(list') = Listed \ {t} /\ active' = active /\ detached' = detached
        /\ pc' = [pc EXCEPT ![c] = [at |-> "stop_flag", on |-> t]]
    BY <1>2, <1>3, <1>11 DEF StopRemove, At, Goto
  <2>2. pc'[c].at = "stop_flag" /\ pc'[c].on = t
    BY <1>1, <2>1
  <2>3. pc' = [pc EXCEPT ![c] = pc'[c]]
    BY <1>1, <2>1
  <2> QED
    BY <2>1, <2>2, <2>3, OthersKeepFlag
<1>12. CASE StopFlag(c)
  <2> DEFINE t == pc[c].on
  <2>1. /\ t \in setup.uses[c] /\ t \in Timer /\ pc[c].at = "stop_flag"
        /\ list' = list /\ active' = active \ {t} /\ detached' = detached
        /\ pc' = [pc EXCEPT ![c] = Ready]
    BY <1>3, <1>12 DEF StopFlag, At, Return
  <2>2. pc'[c].at = "user" /\ pc'[c].on = Nothing
    BY <1>1, <2>1 DEF Ready
  <2>3. pc' = [pc EXCEPT ![c] = pc'[c]]
    BY <1>1, <2>1
  <2>4. t \notin Listed
    BY <1>1, <2>1 DEF OutOfList
  <2> QED
    BY <2>1, <2>2, <2>3, <2>4, OthersKeepFlag DEF Listed
<1> QED
  BY <1>5, <1>6, <1>7, <1>8, <1>9, <1>10, <1>11, <1>12 DEF ClientStep

(* Who is on the list and who is activated after a time-out function *)
LEMMA CalledMembers ==
  ASSUME TimesFit, tick \in Tick, init \in [Timer -> Times], NEW x \in TimerQueue,
         Scheduled(x.list, x.to, x.due, 1), NEW op \in Operation, NEW u \in Timer
  PROVE  LET y == Called(x, op, u) IN
         /\ \A v \in Timer \ {u} : /\ v \in ToSet(y.list) <=> v \in ToSet(x.list)
                                   /\ v \in y.active <=> v \in x.active
         /\ op = "none" => ToSet(y.list) = ToSet(x.list) /\ y.active = x.active
         /\ op = "start" => u \in ToSet(y.list) /\ u \in y.active
         /\ op = "stop" /\ u \in x.active => u \notin ToSet(y.list) /\ u \notin y.active
         /\ op = "stop" /\ u \notin x.active => ToSet(y.list) = ToSet(x.list) /\ y.active = x.active
         /\ op = "detach" => u \notin ToSet(y.list) /\ y.active = x.active
<1> DEFINE y == Called(x, op, u)
<1>1. ToSet(RemoveFirst(x.list, u)) = ToSet(x.list) \ {u}
  BY RemoveScheduled
<1>2. CASE op = "none"
  <2>1. y = x
    BY <1>2 DEF Called
  <2> HIDE DEF y
  <2> QED
    BY <1>2, <2>1 DEF y
<1>3. CASE op = "start"
  <2>1. y = Started(x, u)
    BY <1>3 DEF Called
  <2> HIDE DEF y
  <2>2. ToSet(y.list) = ToSet(x.list) \cup {u} /\ y.active = x.active \cup {u}
    BY <2>1, StartedScheduled
  <2> QED
    BY <1>3, <2>2 DEF y
<1>4. CASE op = "stop"
  <2>1. IF u \in x.active THEN y.list = RemoveFirst(x.list, u) /\ y.active = x.active \ {u}
        ELSE y = x
    BY <1>4 DEF Called, TimerQueue
  <2> HIDE DEF y
  <2> QED
    BY <1>1, <1>4, <2>1 DEF y
<1>5. CASE op = "detach"
  <2>1. y.list = RemoveFirst(x.list, u) /\ y.active = x.active
    BY <1>5 DEF Called, TimerQueue
  <2> HIDE DEF y
  <2> QED
    BY <1>1, <1>5, <2>1 DEF y
<1> QED
  BY <1>2, <1>3, <1>4, <1>5 DEF Operation

LEMMA AfterCallMembers ==
  ASSUME TimesFit, tick \in Tick, init \in [Timer -> Times], NEW x \in TimerQueue,
         Scheduled(x.list, x.to, x.due, 1), NEW t \in Timer
  PROVE  LET y == AfterCall(x, t) IN
         /\ \A v \in Timer \ {t} : /\ v \in ToSet(y.list) <=> v \in ToSet(x.list)
                                   /\ v \in y.active <=> v \in x.active
         /\ IF t \in Periodic /\ t \in x.active THEN t \in ToSet(y.list) /\ t \in y.active
            ELSE t \notin y.active /\ ToSet(y.list) = ToSet(x.list)
<1> DEFINE y == AfterCall(x, t)
<1>1. CASE t \in Periodic /\ t \in x.active
  <2>1. y = Started(x, t)
    BY <1>1 DEF AfterCall
  <2> HIDE DEF y
  <2>2. ToSet(y.list) = ToSet(x.list) \cup {t} /\ y.active = x.active \cup {t}
    BY <2>1, StartedScheduled
  <2> QED
    BY <1>1, <2>2 DEF y
<1>2. CASE ~(t \in Periodic /\ t \in x.active)
  <2>1. y.list = x.list /\ y.active = x.active \ {t}
    BY <1>2 DEF AfterCall, TimerQueue
  <2> HIDE DEF y
  <2> QED
    BY <1>2, <2>1 DEF y
<1> QED
  BY <1>1, <1>2

(* A round of rt_timer_check sets the flag of the called timer right, also  *)
(* when its time-out function has stopped it, started it or detached it.    *)
LEMMA CheckKeepsFlags ==
  ASSUME Disciplined, \A s \in Setups : SelfCallsFit(s), TimerInv, FlagInv, CheckCall
  PROVE  FlagInv'
<1> DEFINE h == Head(list)
           x == CheckQueue
<1>1. /\ TimesFit /\ tick \in Tick /\ init \in [Timer -> Times] /\ setup \in Setups
      /\ TypeInv /\ OutOfList /\ pc' = pc /\ setup' = setup
      /\ detached \in SUBSET Timer /\ list \in Seq(Timer)
  BY DEF TimerInv, TypeInv, TypeOK, Disciplined, CheckCall
<1>2. /\ h \in Timer /\ h \in Listed /\ x \in TimerQueue
      /\ Scheduled(x.list, x.to, x.due, 1) /\ ToSet(x.list) = Listed \ {h}
      /\ x.active = active
  BY <1>1, CheckRound DEF CheckQueue
<1>3. PICK call \in setup.callback[h] :
        LET z == Called(x, call[1], call[2])
            y == AfterCall(z, h) IN
        /\ call[1] \in Operation /\ call[2] \in Timer
        /\ call[1] # "none" => call[2] \notin detached
        /\ list' = y.list /\ active' = y.active
        /\ detached' = IF call[1] = "detach" THEN detached \cup {call[2]} ELSE detached
        /\ z \in TimerQueue /\ Scheduled(z.list, z.to, z.due, 1)
        /\ y \in TimerQueue /\ Scheduled(y.list, y.to, y.due, 1)
  BY <1>1, CheckRound
<1> DEFINE op == call[1]
           u == call[2]
           z == Called(x, op, u)
           y == AfterCall(z, h)
<1>4. /\ op \in Operation /\ u \in Timer /\ (op # "none" => u \notin detached)
      /\ list' = y.list /\ active' = y.active
      /\ detached' = IF op = "detach" THEN detached \cup {u} ELSE detached
      /\ z \in TimerQueue /\ Scheduled(z.list, z.to, z.due, 1)
  BY <1>3
<1>5. /\ op = "start" /\ u = h => h \in Periodic
      /\ op = "detach" /\ u = h => h \notin Periodic
  <2>1. setup.callback[h] \in SUBSET (Operation \X Timer)
    BY <1>1, <1>2, SetupType
  <2>2. call = <<op, u>>
    BY <2>1
  <2> QED
    BY <1>1, <1>2, <2>2 DEF SelfCallsFit
<1>6. op \in {"start", "detach"} => u = h \/ \A d \in Client : u \notin setup.uses[d]
  BY <1>1, <1>2 DEF Disciplined, Separate
<1> HIDE DEF x, h, op, u
<1>7. /\ \A v \in Timer \ {u} : /\ v \in ToSet(z.list) <=> v \in ToSet(x.list)
                                /\ v \in z.active <=> v \in x.active
      /\ op = "none" => ToSet(z.list) = ToSet(x.list) /\ z.active = x.active
      /\ op = "start" => u \in ToSet(z.list) /\ u \in z.active
      /\ op = "stop" /\ u \in x.active => u \notin ToSet(z.list) /\ u \notin z.active
      /\ op = "stop" /\ u \notin x.active => ToSet(z.list) = ToSet(x.list) /\ z.active = x.active
      /\ op = "detach" => u \notin ToSet(z.list) /\ z.active = x.active
  BY <1>1, <1>2, <1>4, CalledMembers
<1> HIDE DEF z
<1>8. /\ \A v \in Timer \ {h} : /\ v \in ToSet(list') <=> v \in ToSet(z.list)
                                /\ v \in active' <=> v \in z.active
      /\ IF h \in Periodic /\ h \in z.active THEN h \in ToSet(list') /\ h \in active'
         ELSE h \notin active' /\ ToSet(list') = ToSet(z.list)
  BY <1>1, <1>2, <1>4, AfterCallMembers
<1> HIDE DEF y
<1>9. \A v : Stopping(v)' <=> Stopping(v)
  BY <1>1 DEF Stopping
<1>10. op \in {"none", "start", "stop", "detach"}
  BY <1>4 DEF Operation
<1>11. ASSUME NEW v \in Timer \ detached', ~Stopping(v)
       PROVE  v \in active' <=> v \in ToSet(list')
  <2>1. v \notin detached /\ (v \in active <=> v \in Listed)
    BY <1>4, <1>11 DEF FlagInv
  <2>2. CASE v = h
    BY <1>2, <1>4, <1>5, <1>7, <1>8, <1>10, <1>11, <2>2
  <2>3. CASE v # h /\ v # u
    BY <1>2, <1>7, <1>8, <2>1, <2>3
  <2>4. CASE v # h /\ v = u
    BY <1>2, <1>4, <1>7, <1>8, <1>10, <1>11, <2>1, <2>4
  <2> QED
    BY <2>2, <2>3, <2>4
<1>12. ASSUME NEW c \in Client, pc[c].at \in {"start_time", "start_insert"}
       PROVE  pc[c].on \notin detached' /\ pc[c].on \notin active'
  <2> DEFINE v == pc[c].on
  <2>1. /\ v \in setup.uses[c] /\ v \in Timer /\ v \notin Listed
        /\ v \notin detached /\ v \notin active
    BY <1>1, <1>12, SetupType DEF TypeInv, CallsOwn, OutOfList, FlagInv
  <2>2. v # h /\ (op \in {"start", "detach"} => v # u)
    BY <1>2, <1>6, <2>1
  <2> HIDE DEF v
  <2>3. v \notin detached'
    BY <1>4, <2>1, <2>2
  <2>4. v \notin active'
    BY <1>2, <1>7, <1>8, <1>10, <2>1, <2>2
  <2> QED
    BY <2>3, <2>4 DEF v
<1>13. ASSUME NEW v \in detached' PROVE v \notin ToSet(list')
  <2>1. CASE v \in detached
    <3>1. v \in Timer /\ v \notin Listed /\ v # h /\ (op # "none" => v # u)
      BY <1>1, <1>2, <1>4, <2>1 DEF FlagInv
    <3> QED
      BY <1>2, <1>7, <1>8, <3>1
  <2>2. CASE v \notin detached
    <3>1. op = "detach" /\ v = u /\ v \in Timer
      BY <1>4, <1>13, <2>2
    <3> QED
      BY <1>5, <1>7, <1>8, <3>1
  <2> QED
    BY <2>1, <2>2
<1> QED
  BY <1>1, <1>9, <1>11, <1>12, <1>13 DEF FlagInv, Listed

LEMMA FlagNext ==
  ASSUME Disciplined, \A s \in Setups : SelfCallsFit(s)
  PROVE  TimerInv /\ FlagInv /\ [Next]_vars => FlagInv'
<1> SUFFICES ASSUME TimerInv, FlagInv, [Next]_vars PROVE FlagInv'
  OBVIOUS
<1>1. CASE TickIsr \/ CheckDone \/ UNCHANGED vars
  <2>1. list' = list /\ active' = active /\ detached' = detached /\ pc' = pc
    BY <1>1 DEF TickIsr, CheckDone, vars
  <2> QED
    BY <2>1 DEF FlagInv, Listed, Stopping
<1> QED
  BY <1>1, CheckKeepsFlags, ClientKeepsFlags DEF Next

LEMMA FlagInvariant ==
  ASSUME Disciplined, \A s \in Setups : SelfCallsFit(s)
  PROVE  Spec => []FlagInv
<1>1. TimerInv /\ FlagInv /\ [Next]_vars => FlagInv'
  BY FlagNext
<1> QED
  BY <1>1, FlagInit, TimerInvariant, PTL DEF Spec

(* The flag RT_TIMER_FLAG_ACTIVATED, which rt_timer_stop tests and          *)
(* rt_timer_check decides on, says whether a timer is on the list, except   *)
(* while a client is stopping it; it does so between the rounds of          *)
(* rt_timer_check as well.                                                  *)
THEOREM TimerFlagAgrees ==
  ASSUME Disciplined, \A s \in Setups : SelfCallsFit(s)
  PROVE  Spec => []FlagAgrees
<1>1. FlagInv => FlagAgrees
  BY DEF FlagInv, FlagAgrees, Stopping
<1> QED
  BY <1>1, FlagInvariant, PTL

(* A timer that rt_timer_detach or rt_timer_delete has taken out of         *)
(* management never comes back on the list, whoever was starting or         *)
(* calling it.                                                              *)
THEOREM TimerDetachedStaysOut ==
  ASSUME Disciplined, \A s \in Setups : SelfCallsFit(s)
  PROVE  Spec => []DetachedStaysOut
<1>1. FlagInv => DetachedStaysOut
  BY DEF FlagInv, DetachedStaysOut
<1> QED
  BY <1>1, FlagInvariant, PTL
=============================================================================
