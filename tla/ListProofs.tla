------------------------------ MODULE ListProofs ------------------------------
(***************************************************************************)
(* What the list operators of the kernel model do to the elements of a     *)
(* list: removal, insertion at a place, at the tail and at the head.       *)
(***************************************************************************)
EXTENDS Naturals, Sequences, SequencesExt, FiniteSetsExt, SequenceTheorems,
        WellFoundedInduction, TLAPS

(* The order of the natural numbers as a relation *)
Less == OpToRel(<, Nat)

(* A nonempty set of natural numbers has a least element, and Min finds it. *)
LEMMA MinOfNat ==
  ASSUME NEW I \in SUBSET Nat, I # {}
  PROVE  Min(I) \in I /\ \A j \in I : Min(I) <= j
<1>1. IsWellFoundedOn(Less, Nat)
  BY Zenon, NatLessThanWellFounded DEF Less
<1>2. Less = {ss \in Nat \X Nat : ss[1] < ss[2]}
  BY DEF Less, OpToRel
<1>3. PICK m \in I : \A j \in I : <<j, m>> \notin Less
  BY <1>1, WFMin, Zenon
<1>4. ASSUME NEW j \in I, ~(m <= j) PROVE FALSE
  <2>1. <<j, m>> \in Nat \X Nat /\ <<j, m>>[1] < <<j, m>>[2]
    BY <1>4
  <2>2. <<j, m>> \in {ss \in Nat \X Nat : ss[1] < ss[2]}
    BY <2>1, Zenon
  <2> QED
    BY <1>2, <1>3, <2>2, Zenon
<1> QED
  BY <1>4 DEF Min

(* The members of a list, by their places. *)
LEMMA InToSet ==
  ASSUME NEW S, NEW s \in Seq(S), NEW x
  PROVE  /\ x \in ToSet(s) <=> \E i \in 1 .. Len(s) : s[i] = x
         /\ ToSet(s) \subseteq S
  BY DEF ToSet

(* A list is empty when it has no member. *)
LEMMA EmptyToSet ==
  ASSUME NEW S, NEW s \in Seq(S)
  PROVE  s = <<>> <=> ToSet(s) = {}
<1>1. s = <<>> => ToSet(s) = {}
  BY DEF ToSet
<1>2. ASSUME s # <<>> PROVE s[1] \in ToSet(s)
  BY <1>2, EmptySeq DEF ToSet
<1> QED
  BY <1>1, <1>2

(* The first node of a list that is not empty. *)
LEMMA HeadOfList ==
  ASSUME NEW S, NEW s \in Seq(S), s # <<>>
  PROVE  Head(s) \in ToSet(s) /\ Head(s) \in S
  BY EmptySeq DEF ToSet

(* A node appended to a list it is not on *)
LEMMA AppendToList ==
  ASSUME NEW S, NEW s \in Seq(S), NEW x \in S
  PROVE  /\ Append(s, x) \in Seq(S)
         /\ ToSet(Append(s, x)) = ToSet(s) \cup {x}
         /\ IsInjective(s) /\ x \notin ToSet(s) => IsInjective(Append(s, x))
<1> DEFINE r == Append(s, x)
<1>1. r \in Seq(S) /\ Len(r) = Len(s) + 1 /\ \A i \in 1 .. Len(s) : r[i] = s[i]
  BY AppendProperties
<1>2. r[Len(s) + 1] = x
  BY AppendProperties
<1>3. DOMAIN r = 1 .. Len(s) + 1 /\ DOMAIN s = 1 .. Len(s) /\ Len(s) \in Nat
  BY <1>1
<1> HIDE DEF r
<1>4. ToSet(r) = ToSet(s) \cup {x}
  BY <1>1, <1>2, <1>3 DEF ToSet
<1>5. ASSUME IsInjective(s), x \notin ToSet(s) PROVE IsInjective(r)
  BY <1>1, <1>2, <1>3, <1>5 DEF IsInjective, ToSet
<1> QED
  BY <1>1, <1>4, <1>5 DEF r

(* The members of two lists put together *)
LEMMA ConcatMembers ==
  ASSUME NEW S, NEW u \in Seq(S), NEW v \in Seq(S)
  PROVE  /\ u \o v \in Seq(S)
         /\ ToSet(u \o v) = ToSet(u) \cup ToSet(v)
         /\ IsInjective(u \o v) <=>
              IsInjective(u) /\ IsInjective(v) /\ ToSet(u) \cap ToSet(v) = {}
<1> DEFINE r == u \o v
           m == Len(u)
           n == Len(v)
<1>1. m \in Nat /\ n \in Nat /\ DOMAIN u = 1 .. m /\ DOMAIN v = 1 .. n
  BY LenProperties
<1>2. /\ r \in Seq(S) /\ Len(r) = m + n
      /\ \A i \in 1 .. m + n : r[i] = IF i <= m THEN u[i] ELSE v[i - m]
  BY ConcatProperties
<1> HIDE DEF r, m, n
<1>3. DOMAIN r = 1 .. m + n
  BY <1>1, <1>2, LenProperties
<1>4. \A i \in 1 .. m : i \in 1 .. m + n /\ r[i] = u[i]
  BY <1>1, <1>2
<1>5. \A j \in 1 .. n : m + j \in 1 .. m + n /\ r[m + j] = v[j]
  <2> SUFFICES ASSUME NEW j \in 1 .. n PROVE m + j \in 1 .. m + n /\ r[m + j] = v[j]
    OBVIOUS
  <2>1. m + j \in 1 .. m + n /\ ~(m + j <= m) /\ (m + j) - m = j
    BY <1>1
  <2> QED
    BY <1>2, <2>1
<1>6. \A i \in 1 .. m + n : i \in 1 .. m \/ \E j \in 1 .. n : i = m + j
  <2> SUFFICES ASSUME NEW i \in 1 .. m + n, i \notin 1 .. m PROVE i - m \in 1 .. n /\ i = m + (i - m)
    OBVIOUS
  <2> QED
    BY <1>1
<1>7. ToSet(r) = ToSet(u) \cup ToSet(v)
  <2>1. ASSUME NEW a \in 1 .. m + n PROVE r[a] \in ToSet(u) \cup ToSet(v)
    <3>1. CASE a \in 1 .. m
      BY <1>1, <1>4, <3>1 DEF ToSet
    <3>2. CASE \E j \in 1 .. n : a = m + j
      BY <1>1, <1>5, <3>2 DEF ToSet
    <3> QED
      BY <1>6, <3>1, <3>2
  <2>2. ToSet(u) \cup ToSet(v) \subseteq ToSet(r)
    BY <1>1, <1>3, <1>4, <1>5 DEF ToSet
  <2> QED
    BY <1>3, <2>1, <2>2 DEF ToSet
<1>8. ASSUME IsInjective(r)
      PROVE  IsInjective(u) /\ IsInjective(v) /\ ToSet(u) \cap ToSet(v) = {}
  <2>1. IsInjective(u)
    BY <1>1, <1>3, <1>4, <1>8, Zenon DEF IsInjective
  <2>2. ASSUME NEW i \in 1 .. n, NEW j \in 1 .. n, v[i] = v[j] PROVE i = j
    <3>1. m + i = m + j
      BY <1>3, <1>5, <1>8, <2>2, Zenon DEF IsInjective
    <3> QED
      BY <1>1, <3>1
  <2>3. ASSUME NEW i \in 1 .. m, NEW j \in 1 .. n, u[i] = v[j] PROVE FALSE
    <3>1. i = m + j
      BY <1>3, <1>4, <1>5, <1>8, <2>3, Zenon DEF IsInjective
    <3> QED
      BY <1>1, <3>1
  <2> QED
    BY <1>1, <2>1, <2>2, <2>3 DEF IsInjective, ToSet
<1>9. ASSUME IsInjective(u), IsInjective(v), ToSet(u) \cap ToSet(v) = {}
      PROVE  IsInjective(r)
  <2>1. \A i, j \in 1 .. m : u[i] = u[j] => i = j
    BY <1>1, <1>9 DEF IsInjective
  <2>2. \A i, j \in 1 .. n : v[i] = v[j] => i = j
    BY <1>1, <1>9 DEF IsInjective
  <2>3. \A i \in 1 .. m, j \in 1 .. n : u[i] # v[j]
    BY <1>1, <1>9 DEF ToSet
  <2>4. ASSUME NEW a \in 1 .. m + n, NEW b \in 1 .. m + n, r[a] = r[b] PROVE a = b
    <3>1. CASE a \in 1 .. m
      <4>1. ASSUME NEW j \in 1 .. n, b = m + j PROVE FALSE
        <5>1. u[a] = v[j]
          BY <1>4, <1>5, <2>4, <3>1, <4>1, Zenon
        <5> QED
          BY <2>3, <3>1, <5>1, Zenon
      <4>2. b \in 1 .. m
        BY <1>6, <4>1, Zenon
      <4>3. u[a] = u[b]
        BY <1>4, <2>4, <3>1, <4>2, Zenon
      <4> QED
        BY <2>1, <3>1, <4>2, <4>3, Zenon
    <3>2. CASE a \notin 1 .. m /\ b \in 1 .. m
      <4>1. PICK j \in 1 .. n : a = m + j
        BY <1>6, <3>2, Zenon
      <4>2. u[b] = v[j]
        BY <1>4, <1>5, <2>4, <3>2, <4>1, Zenon
      <4> QED
        BY <2>3, <3>2, <4>2, Zenon
    <3>3. CASE a \notin 1 .. m /\ b \notin 1 .. m
      <4>1. PICK i \in 1 .. n : a = m + i
        BY <1>6, <3>3, Zenon
      <4>2. PICK j \in 1 .. n : b = m + j
        BY <1>6, <3>3, Zenon
      <4>3. v[i] = v[j]
        BY <1>5, <2>4, <4>1, <4>2, Zenon
      <4> QED
        BY <2>2, <4>1, <4>2, <4>3, Zenon
    <3> QED
      BY <3>1, <3>2, <3>3
  <2> QED
    BY <1>3, <2>4 DEF IsInjective
<1> QED
  BY <1>2, <1>7, <1>8, <1>9 DEF r

(* A list of one node *)
LEMMA OneNode ==
  ASSUME NEW S, NEW x \in S
  PROVE  /\ <<x>> \in Seq(S)
         /\ ToSet(<<x>>) = {x}
         /\ IsInjective(<<x>>)
<1>1. <<x>> \in Seq(S) /\ DOMAIN <<x>> = {1} /\ <<x>>[1] = x
  OBVIOUS
<1> QED
  BY <1>1 DEF ToSet, IsInjective

(* A part of a list that starts and ends within it *)
LEMMA PartOfList ==
  ASSUME NEW S, NEW s \in Seq(S), NEW m \in Nat \ {0}, NEW n \in Nat, n <= Len(s)
  PROVE  /\ SubSeq(s, m, n) \in Seq(S)
         /\ Len(SubSeq(s, m, n)) = IF m <= n THEN n - m + 1 ELSE 0
         /\ \A i \in 1 .. n - m + 1 : SubSeq(s, m, n)[i] = s[m + i - 1]
<1>1. \A i \in m .. n : s[i] \in S
  BY LenProperties
<1> QED
  BY <1>1, SubSeqProperties

(* A list cut in two *)
LEMMA Halves ==
  ASSUME NEW S, NEW s \in Seq(S), NEW n \in 0 .. Len(s)
  PROVE  LET u == SubSeq(s, 1, n)
             v == SubSeq(s, n + 1, Len(s))
         IN  /\ u \in Seq(S) /\ Len(u) = n /\ \A i \in 1 .. n : u[i] = s[i]
             /\ v \in Seq(S) /\ Len(v) = Len(s) - n
             /\ \A i \in 1 .. Len(s) - n : v[i] = s[n + i]
<1> DEFINE u == SubSeq(s, 1, n)
           v == SubSeq(s, n + 1, Len(s))
           L == Len(s)
<1>1. L \in Nat /\ n \in Nat /\ n <= L
  BY LenProperties
<1>2. u \in Seq(S) /\ Len(u) = n /\ \A i \in 1 .. n : u[i] = s[i]
  <2>1. /\ u \in Seq(S) /\ Len(u) = IF 1 <= n THEN n - 1 + 1 ELSE 0
        /\ \A i \in 1 .. n - 1 + 1 : u[i] = s[1 + i - 1]
    BY <1>1, PartOfList
  <2> HIDE DEF u
  <2> QED
    BY <1>1, <2>1
<1>3. v \in Seq(S) /\ Len(v) = L - n /\ \A i \in 1 .. L - n : v[i] = s[n + i]
  <2>1. /\ v \in Seq(S) /\ Len(v) = IF n + 1 <= L THEN L - (n + 1) + 1 ELSE 0
        /\ \A i \in 1 .. L - (n + 1) + 1 : v[i] = s[(n + 1) + i - 1]
    BY <1>1, PartOfList
  <2> HIDE DEF v
  <2> QED
    BY <1>1, <2>1
<1> QED
  BY <1>2, <1>3

(* A list is its first n nodes followed by the others. *)
LEMMA SplitList ==
  ASSUME NEW S, NEW s \in Seq(S), NEW n \in 0 .. Len(s)
  PROVE  /\ SubSeq(s, 1, n) \in Seq(S)
         /\ SubSeq(s, n + 1, Len(s)) \in Seq(S)
         /\ s = SubSeq(s, 1, n) \o SubSeq(s, n + 1, Len(s))
<1> DEFINE u == SubSeq(s, 1, n)
           v == SubSeq(s, n + 1, Len(s))
           L == Len(s)
<1>1. L \in Nat /\ n \in Nat /\ n <= L
  BY LenProperties
<1>2. /\ u \in Seq(S) /\ Len(u) = n /\ \A i \in 1 .. n : u[i] = s[i]
      /\ v \in Seq(S) /\ Len(v) = L - n /\ \A i \in 1 .. L - n : v[i] = s[n + i]
  BY Halves
<1> HIDE DEF u, v
<1>4. /\ u \o v \in Seq(S) /\ Len(u \o v) = L
      /\ \A i \in 1 .. L : (u \o v)[i] = IF i <= n THEN u[i] ELSE v[i - n]
  <2>1. /\ u \o v \in Seq(S) /\ Len(u \o v) = Len(u) + Len(v)
        /\ \A i \in 1 .. Len(u) + Len(v) :
             (u \o v)[i] = IF i <= Len(u) THEN u[i] ELSE v[i - Len(u)]
    BY <1>2, ConcatProperties
  <2>2. Len(u) = n /\ Len(u) + Len(v) = L
    BY <1>1, <1>2
  <2> QED
    BY <2>1, <2>2
<1>5. ASSUME NEW i \in 1 .. L PROVE (u \o v)[i] = s[i]
  <2>1. CASE i <= n
    BY <1>1, <1>2, <1>4, <2>1
  <2>2. CASE ~(i <= n)
    <3>1. i - n \in 1 .. L - n /\ n + (i - n) = i
      BY <1>1, <2>2
    <3> QED
      BY <1>1, <1>2, <1>4, <2>2, <3>1
  <2> QED
    BY <2>1, <2>2
<1>7. s = u \o v
  BY <1>4, <1>5, SeqEqual
<1> QED
  BY <1>2, <1>7 DEF u, v

(* InsertAt puts a new node at a place of a list. *)
LEMMA InsertMembers ==
  ASSUME NEW S, NEW s \in Seq(S), NEW x \in S, NEW n \in 1 .. Len(s) + 1
  PROVE  /\ InsertAt(s, n, x) \in Seq(S)
         /\ ToSet(InsertAt(s, n, x)) = ToSet(s) \cup {x}
         /\ IsInjective(s) /\ x \notin ToSet(s) => IsInjective(InsertAt(s, n, x))
<1> DEFINE u == SubSeq(s, 1, n - 1)
           v == SubSeq(s, n, Len(s))
<1>1. n - 1 \in 0 .. Len(s) /\ (n - 1) + 1 = n
  BY LenProperties
<1>2. u \in Seq(S) /\ v \in Seq(S) /\ s = u \o v
  BY <1>1, SplitList
<1>3. InsertAt(s, n, x) = (u \o <<x>>) \o v
  BY DEF InsertAt
<1> HIDE DEF u, v
<1>4. /\ ToSet(s) = ToSet(u) \cup ToSet(v)
      /\ IsInjective(s) <=> IsInjective(u) /\ IsInjective(v) /\ ToSet(u) \cap ToSet(v) = {}
  BY <1>2, ConcatMembers
<1> DEFINE z == <<x>>
<1>z. z \in Seq(S) /\ ToSet(z) = {x} /\ IsInjective(z)
  BY OneNode
<1> HIDE DEF z
<1> DEFINE w == u \o z
<1>5. /\ w \in Seq(S)
      /\ ToSet(w) = ToSet(u) \cup {x}
      /\ IsInjective(w) <=> IsInjective(u) /\ ToSet(u) \cap {x} = {}
  BY <1>2, <1>z, ConcatMembers
<1> HIDE DEF w
<1>6. /\ w \o v \in Seq(S)
      /\ ToSet(w \o v) = ToSet(w) \cup ToSet(v)
      /\ IsInjective(w \o v) <=> IsInjective(w) /\ IsInjective(v) /\ ToSet(w) \cap ToSet(v) = {}
  BY <1>2, <1>5, ConcatMembers
<1> QED
  BY <1>3, <1>4, <1>5, <1>6 DEF w, z

(* A list without repetitions loses exactly the removed node. *)
LEMMA RemoveMembers ==
  ASSUME NEW S, NEW s \in Seq(S), NEW x, IsInjective(s)
  PROVE  /\ RemoveFirst(s, x) \in Seq(S)
         /\ ToSet(RemoveFirst(s, x)) = ToSet(s) \ {x}
         /\ IsInjective(RemoveFirst(s, x))
<1>0. Len(s) \in Nat /\ DOMAIN s = 1 .. Len(s)
  BY LenProperties
<1>1. CASE x \notin ToSet(s)
  BY <1>0, <1>1 DEF RemoveFirst, ToSet
<1>2. CASE x \in ToSet(s)
  <2> DEFINE I == {i \in 1 .. Len(s) : s[i] = x}
             p == Min(I)
             u == SubSeq(s, 1, p - 1)
             v == SubSeq(s, p + 1, Len(s))
  <2>1. I # {} /\ I \in SUBSET Nat
    BY <1>0, <1>2 DEF ToSet
  <2>2. RemoveFirst(s, x) = RemoveAt(s, p)
    BY <1>0, <2>1, Zenon DEF RemoveFirst, SelectInSeq
  <2>3. p \in I
    BY <2>1, MinOfNat
  <2>4. RemoveFirst(s, x) = u \o v
    BY <2>2 DEF RemoveAt
  <2> HIDE DEF p
  <2>5. p \in 1 .. Len(s) /\ s[p] = x
    BY <2>3
  <2> HIDE DEF I
  <2>6. x \in S
    BY <1>0, <2>5
  <2>7. p \in 0 .. Len(s) /\ p - 1 \in 0 .. Len(s) /\ (p - 1) + 1 = p
    BY <1>0, <2>5
  <2>8. /\ u \in Seq(S) /\ SubSeq(s, p, Len(s)) \in Seq(S)
        /\ s = u \o SubSeq(s, p, Len(s))
    BY <2>7, SplitList
  <2>9. v \in Seq(S)
    BY <2>7, SplitList
  <2>10. SubSeq(s, p, Len(s)) = <<x>> \o v
    <3>1. /\ Len(SubSeq(s, p, Len(s))) = IF p <= Len(s) THEN Len(s) - p + 1 ELSE 0
          /\ \A i \in 1 .. Len(s) - p + 1 : SubSeq(s, p, Len(s))[i] = s[p + i - 1]
      BY <1>0, <2>5, PartOfList
    <3>2. /\ Len(v) = IF p + 1 <= Len(s) THEN Len(s) - (p + 1) + 1 ELSE 0
          /\ \A i \in 1 .. Len(s) - (p + 1) + 1 : v[i] = s[(p + 1) + i - 1]
      BY <1>0, <2>5, PartOfList
    <3> DEFINE w == SubSeq(s, p, Len(s))
               z == <<x>> \o v
    <3>3. <<x>> \in Seq(S) /\ Len(<<x>>) = 1 /\ <<x>>[1] = x
      BY <2>6
    <3>4. /\ z \in Seq(S) /\ Len(z) = 1 + Len(v)
          /\ \A i \in 1 .. 1 + Len(v) : z[i] = IF i <= 1 THEN <<x>>[i] ELSE v[i - 1]
      <4> HIDE DEF v
      <4> QED
        BY <2>9, <3>3, ConcatProperties
    <3> HIDE DEF w, z, u, v
    <3>5. Len(w) = Len(s) - p + 1 /\ Len(v) = Len(s) - p /\ w \in Seq(S)
      <4> DEFINE L == Len(s)
      <4>0. L \in Nat /\ p \in 1 .. L
        BY <1>0, <2>5
      <4> HIDE DEF L
      <4>a. p \in Nat /\ p <= L /\ (~(p + 1 <= L) => p = L) /\ L - (p + 1) + 1 = L - p
        BY <4>0
      <4>b. p = L => L - p = 0
        BY <4>0
      <4>1. p <= Len(s) /\ p \in Nat /\ (IF p + 1 <= Len(s) THEN Len(s) - (p + 1) + 1 ELSE 0) = Len(s) - p
        BY <4>a, <4>b DEF L
      <4>2. Len(v) = Len(s) - p
        BY <3>2, <4>1
      <4> QED
        BY <2>8, <3>1, <4>1, <4>2 DEF w
    <3>6. ASSUME NEW i \in 1 .. Len(w) PROVE w[i] = z[i]
      <4>1. CASE i = 1
        BY <1>0, <2>5, <3>1, <3>3, <3>4, <3>5, <4>1 DEF w
      <4>2. CASE i > 1
        <5>1. /\ i - 1 \in 1 .. Len(s) - (p + 1) + 1
              /\ (p + 1) + (i - 1) - 1 = p + i - 1
              /\ i \in 1 .. Len(s) - p + 1 /\ i \in 1 .. 1 + Len(v) /\ ~(i <= 1)
          BY <1>0, <2>5, <3>5, <4>2
        <5>2. w[i] = s[p + i - 1]
          BY <3>1, <5>1 DEF w
        <5>3. v[i - 1] = s[p + i - 1]
          BY <3>2, <5>1
        <5> QED
          BY <3>4, <5>1, <5>2, <5>3
      <4> QED
        BY <1>0, <2>5, <3>5, <4>1, <4>2
    <3>7. Len(w) = Len(z)
      BY <1>0, <2>5, <3>4, <3>5
    <3>8. w = z
      BY <3>4, <3>5, <3>6, <3>7, SeqEqual
    <3> QED
      BY <3>8 DEF w, z, v
  <2> HIDE DEF u, v
  <2> DEFINE z == <<x>>
  <2>z. z \in Seq(S) /\ ToSet(z) = {x} /\ IsInjective(z)
    BY <2>6, OneNode
  <2>s. s = u \o (z \o v)
    BY <2>8, <2>10
  <2> HIDE DEF z
  <2> DEFINE w == z \o v
  <2>11. /\ w \in Seq(S)
         /\ ToSet(w) = {x} \cup ToSet(v)
         /\ IsInjective(w) => IsInjective(v) /\ {x} \cap ToSet(v) = {}
    BY <2>z, <2>9, ConcatMembers
  <2> HIDE DEF w
  <2>12. /\ ToSet(s) = ToSet(u) \cup ToSet(w)
         /\ IsInjective(u) /\ IsInjective(w)
         /\ ToSet(u) \cap ToSet(w) = {}
    <3>1. s = u \o w
      BY <2>s DEF w
    <3> QED
      BY <2>8, <2>11, <3>1, ConcatMembers
  <2>13. /\ u \o v \in Seq(S)
         /\ ToSet(u \o v) = ToSet(u) \cup ToSet(v)
         /\ IsInjective(u) /\ IsInjective(v) /\ ToSet(u) \cap ToSet(v) = {}
              => IsInjective(u \o v)
    BY <2>8, <2>9, ConcatMembers
  <2> QED
    BY <2>4, <2>11, <2>12, <2>13
<1> QED
  BY <1>1, <1>2

(* A list without its first node *)
LEMMA TailOfList ==
  ASSUME NEW S, NEW s \in Seq(S), s # <<>>
  PROVE  /\ Tail(s) \in Seq(S)
         /\ Len(Tail(s)) = Len(s) - 1
         /\ ToSet(s) = {Head(s)} \cup ToSet(Tail(s))
         /\ IsInjective(s) => IsInjective(Tail(s)) /\ Head(s) \notin ToSet(Tail(s))
<1> DEFINE r == Tail(s)
<1>1. /\ r \in Seq(S) /\ Len(r) = Len(s) - 1
      /\ \A i \in 1 .. Len(s) - 1 : r[i] = s[i + 1]
  BY HeadTailProperties
<1>2. /\ DOMAIN r = 1 .. Len(s) - 1 /\ DOMAIN s = 1 .. Len(s) /\ Len(s) \in Nat \ {0}
      /\ Head(s) = s[1]
  BY <1>1, EmptySeq
<1> HIDE DEF r
<1>3. ToSet(s) \subseteq {Head(s)} \cup ToSet(r)
  <2> SUFFICES ASSUME NEW i \in 1 .. Len(s), i # 1
               PROVE  s[i] \in ToSet(r)
    BY <1>2 DEF ToSet
  <2>1. i - 1 \in 1 .. Len(s) - 1 /\ r[i - 1] = s[i]
    BY <1>1, <1>2
  <2> QED
    BY <1>2, <2>1 DEF ToSet
<1>4. {Head(s)} \cup ToSet(r) \subseteq ToSet(s)
  BY <1>1, <1>2 DEF ToSet
<1>5. ASSUME IsInjective(s) PROVE IsInjective(r) /\ Head(s) \notin ToSet(r)
  <2>1. \A i, j \in 1 .. Len(s) - 1 : r[i] = r[j] => i = j
    <3> TAKE i, j \in 1 .. Len(s) - 1
    <3>1. i + 1 \in 1 .. Len(s) /\ j + 1 \in 1 .. Len(s)
      BY <1>2
    <3>2. s[i + 1] = s[j + 1] => i + 1 = j + 1
      BY <1>2, <1>5, <3>1 DEF IsInjective
    <3> QED
      BY <1>1, <3>2
  <2>2. \A i \in 1 .. Len(s) - 1 : r[i] # Head(s)
    <3> TAKE i \in 1 .. Len(s) - 1
    <3>1. i + 1 \in 1 .. Len(s) /\ 1 \in 1 .. Len(s) /\ i + 1 # 1
      BY <1>2
    <3>2. s[i + 1] # s[1]
      BY <1>2, <1>5, <3>1 DEF IsInjective
    <3> QED
      BY <1>1, <1>2, <3>2
  <2> QED
    BY <1>2, <2>1, <2>2 DEF IsInjective, ToSet
<1> QED
  BY <1>1, <1>3, <1>4, <1>5 DEF r

(* A node put before the first one of a list it is not on *)
LEMMA PushToList ==
  ASSUME NEW S, NEW s \in Seq(S), NEW x \in S
  PROVE  /\ <<x>> \o s \in Seq(S)
         /\ Len(<<x>> \o s) = Len(s) + 1
         /\ ToSet(<<x>> \o s) = ToSet(s) \cup {x}
         /\ IsInjective(s) /\ x \notin ToSet(s) => IsInjective(<<x>> \o s)
<1>1. <<x>> \in Seq(S) /\ ToSet(<<x>>) = {x} /\ IsInjective(<<x>>) /\ Len(<<x>>) = 1
  BY OneNode
<1>2. /\ <<x>> \o s \in Seq(S) /\ ToSet(<<x>> \o s) = ToSet(<<x>>) \cup ToSet(s)
      /\ IsInjective(<<x>> \o s) <=>
           IsInjective(<<x>>) /\ IsInjective(s) /\ ToSet(<<x>>) \cap ToSet(s) = {}
  BY <1>1, ConcatMembers
<1>3. Len(<<x>> \o s) = Len(s) + 1
  BY <1>1, ConcatProperties
<1> QED
  BY <1>1, <1>2, <1>3

(* A list turned round *)
LEMMA ReverseMembers ==
  ASSUME NEW S, NEW s \in Seq(S)
  PROVE  /\ Reverse(s) \in Seq(S)
         /\ ToSet(Reverse(s)) = ToSet(s)
         /\ IsInjective(s) => IsInjective(Reverse(s))
<1> DEFINE n == Len(s)
           r == Reverse(s)
<1>1. n \in Nat /\ DOMAIN s = 1 .. n /\ \A i \in 1 .. n : s[i] \in S
  BY LenProperties
<1>2. r = [i \in 1 .. n |-> s[(n - i) + 1]]
  BY DEF Reverse
<1>3. \A i \in 1 .. n : (n - i) + 1 \in 1 .. n /\ (n - ((n - i) + 1)) + 1 = i
  BY <1>1
<1>4. DOMAIN r = 1 .. n /\ \A i \in 1 .. n : r[i] = s[(n - i) + 1]
  BY <1>2
<1>5. r \in Seq(S)
  BY <1>1, <1>2, <1>3, SeqDef
<1> HIDE DEF n, r
<1>6. ToSet(r) = ToSet(s)
  BY <1>1, <1>3, <1>4 DEF ToSet
<1>7. IsInjective(s) => IsInjective(r)
  BY <1>1, <1>3, <1>4 DEF IsInjective
<1> QED
  BY <1>5, <1>6, <1>7 DEF r

-----------------------------------------------------------------------------
(* x stands before y on a list. *)
Precedes(s, x, y) == \E i, j \in 1 .. Len(s) : i < j /\ s[i] = x /\ s[j] = y

(* A list without one of its nodes *)
LEMMA RemovedNode ==
  ASSUME NEW S, NEW s \in Seq(S), NEW p \in 1 .. Len(s)
  PROVE  LET r == SubSeq(s, 1, p - 1) \o SubSeq(s, p + 1, Len(s))
         IN  /\ r \in Seq(S) /\ Len(r) = Len(s) - 1
             /\ \A i \in 1 .. Len(r) : r[i] = IF i < p THEN s[i] ELSE s[i + 1]
<1> DEFINE L == Len(s)
           u == SubSeq(s, 1, p - 1)
           v == SubSeq(s, p + 1, L)
           r == u \o v
<1>1. L \in Nat /\ p \in Nat /\ 1 <= p /\ p <= L
  BY LenProperties
<1>2. u \in Seq(S) /\ Len(u) = p - 1 /\ \A i \in 1 .. p - 1 : u[i] = s[i]
  <2>1. p - 1 \in 0 .. Len(s)
    BY <1>1
  <2> QED
    BY <2>1, Halves
<1>3. v \in Seq(S) /\ Len(v) = L - p /\ \A i \in 1 .. L - p : v[i] = s[p + i]
  <2>1. p \in 0 .. Len(s)
    BY <1>1
  <2> QED
    BY <2>1, Halves
<1> HIDE DEF u, v
<1>4. /\ r \in Seq(S) /\ Len(r) = Len(u) + Len(v)
      /\ \A i \in 1 .. Len(u) + Len(v) : r[i] = IF i <= Len(u) THEN u[i] ELSE v[i - Len(u)]
  BY <1>2, <1>3, ConcatProperties
<1> HIDE DEF r, L
<1>5. Len(r) = L - 1
  BY <1>1, <1>2, <1>3, <1>4
<1>6. ASSUME NEW i \in 1 .. Len(r) PROVE r[i] = IF i < p THEN s[i] ELSE s[i + 1]
  <2>1. i \in 1 .. Len(u) + Len(v)
    BY <1>4, <1>6
  <2>2. CASE i < p
    <3>1. i \in 1 .. p - 1 /\ i <= Len(u)
      BY <1>1, <1>2, <1>5, <2>2
    <3> QED
      BY <1>2, <1>4, <2>1, <2>2, <3>1
  <2>3. CASE ~(i < p)
    <3>1. i - (p - 1) \in 1 .. L - p /\ p + (i - (p - 1)) = i + 1 /\ ~(i <= Len(u))
      BY <1>1, <1>2, <1>5, <2>3
    <3> QED
      BY <1>2, <1>3, <1>4, <2>1, <2>3, <3>1
  <2> QED
    BY <2>2, <2>3
<1> QED
  BY <1>4, <1>5, <1>6 DEF r, u, v, L

(* Removing a node leaves the others in their order. *)
LEMMA RemoveKeepsOrder ==
  ASSUME NEW S, NEW s \in Seq(S), NEW x
  PROVE  /\ RemoveFirst(s, x) \in Seq(S)
         /\ \A a, b \in S : Precedes(RemoveFirst(s, x), a, b) => Precedes(s, a, b)
<1> DEFINE r == RemoveFirst(s, x)
           I == {i \in 1 .. Len(s) : s[i] = x}
           p == Min(I)
<1>1. Len(s) \in Nat /\ I \in SUBSET Nat
  BY LenProperties
<1>2. CASE I = {}
  BY <1>2 DEF RemoveFirst
<1>3. CASE I # {}
  <2>1. r = RemoveAt(s, p)
    BY <1>1, <1>3, Zenon DEF RemoveFirst, SelectInSeq
  <2>2. p \in I
    BY <1>1, <1>3, MinOfNat
  <2> HIDE DEF p
  <2>3. p \in 1 .. Len(s)
    BY <2>2
  <2>4. r = SubSeq(s, 1, p - 1) \o SubSeq(s, p + 1, Len(s))
    BY <2>1 DEF RemoveAt
  <2> HIDE DEF r, I
  <2>5. /\ r \in Seq(S) /\ Len(r) = Len(s) - 1
        /\ \A i \in 1 .. Len(r) : r[i] = IF i < p THEN s[i] ELSE s[i + 1]
    BY <2>3, <2>4, RemovedNode
  <2>6. ASSUME NEW a, NEW b, NEW i \in 1 .. Len(r), NEW j \in 1 .. Len(r),
               i < j, r[i] = a, r[j] = b
        PROVE  Precedes(s, a, b)
    <3> DEFINE i2 == IF i < p THEN i ELSE i + 1
               j2 == IF j < p THEN j ELSE j + 1
    <3>1. i2 \in 1 .. Len(s) /\ j2 \in 1 .. Len(s) /\ i2 < j2
      BY <1>1, <2>3, <2>5, <2>6
    <3>2. s[i2] = a /\ s[j2] = b
      BY <2>5, <2>6
    <3> QED
      BY <3>1, <3>2 DEF Precedes
  <2>7. \A a, b \in S : Precedes(r, a, b) => Precedes(s, a, b)
    BY <2>6 DEF Precedes
  <2> QED
    BY <2>5, <2>7 DEF r
<1> QED
  BY <1>2, <1>3

(* InsertAt puts x behind the nodes before place n and before the others.   *)
LEMMA InsertOrder ==
  ASSUME NEW S, NEW s \in Seq(S), NEW x \in S, NEW n \in 1 .. Len(s) + 1, NEW a \in S, NEW b \in S,
         Precedes(InsertAt(s, n, x), a, b)
  PROVE  \/ Precedes(s, a, b)
         \/ a = x /\ \E j \in n .. Len(s) : b = s[j]
         \/ b = x /\ \E i \in 1 .. n - 1 : a = s[i]
<1> DEFINE L == Len(s)
           u == SubSeq(s, 1, n - 1)
           v == SubSeq(s, n, L)
           z == <<x>>
           w == u \o z
           r == w \o v
<1>1. L \in Nat /\ n \in Nat /\ 1 <= n /\ n <= L + 1
  BY LenProperties
<1>2. /\ u \in Seq(S) /\ Len(u) = n - 1 /\ \A i \in 1 .. n - 1 : u[i] = s[i]
      /\ v \in Seq(S) /\ Len(v) = L - n + 1
      /\ \A i \in 1 .. L - n + 1 : v[i] = s[n + i - 1]
  <2>1. n - 1 \in 0 .. Len(s) /\ (n - 1) + 1 = n /\ L - (n - 1) = L - n + 1
    BY <1>1
  <2>2. /\ u \in Seq(S) /\ Len(u) = n - 1 /\ \A i \in 1 .. n - 1 : u[i] = s[i]
        /\ v \in Seq(S) /\ Len(v) = L - n + 1
        /\ \A i \in 1 .. L - n + 1 : v[i] = s[(n - 1) + i]
    BY <2>1, Halves
  <2>3. \A i \in 1 .. L - n + 1 : (n - 1) + i = n + i - 1
    BY <1>1
  <2> QED
    BY <2>2, <2>3
<1>4. z \in Seq(S) /\ Len(z) = 1 /\ z[1] = x
  OBVIOUS
<1>5. InsertAt(s, n, x) = r
  BY DEF InsertAt
<1> HIDE DEF u, v, z
<1>6. /\ w \in Seq(S) /\ Len(w) = Len(u) + Len(z)
      /\ \A i \in 1 .. Len(u) + Len(z) : w[i] = IF i <= Len(u) THEN u[i] ELSE z[i - Len(u)]
  BY <1>2, <1>4, ConcatProperties
<1> HIDE DEF w
<1>7. /\ Len(r) = Len(w) + Len(v)
      /\ \A i \in 1 .. Len(w) + Len(v) : r[i] = IF i <= Len(w) THEN w[i] ELSE v[i - Len(w)]
  <2>1. w \in Seq(S) /\ v \in Seq(S)
    BY <1>2, <1>6
  <2> QED
    BY <2>1, ConcatProperties
<1> HIDE DEF r, L
<1>8. Len(w) = n /\ \A i \in 1 .. n : w[i] = IF i < n THEN s[i] ELSE x
  BY <1>1, <1>2, <1>4, <1>6
<1>9. Len(r) = L + 1 /\ \A i \in 1 .. L + 1 : r[i] = IF i < n THEN s[i] ELSE IF i = n THEN x ELSE s[i - 1]
  <2>1. Len(r) = L + 1
    BY <1>1, <1>2, <1>7, <1>8
  <2> SUFFICES ASSUME NEW i \in 1 .. L + 1
               PROVE  r[i] = IF i < n THEN s[i] ELSE IF i = n THEN x ELSE s[i - 1]
    BY <2>1
  <2>2. CASE i <= n
    <3>1. i \in 1 .. n /\ i \in 1 .. Len(w) + Len(v)
      BY <1>1, <1>7, <1>8, <2>1, <2>2
    <3> QED
      BY <1>1, <1>7, <1>8, <2>2, <3>1
  <2>3. CASE i > n
    <3>1. i - n \in 1 .. L - n + 1 /\ n + (i - n) - 1 = i - 1 /\ i \in 1 .. Len(w) + Len(v)
      BY <1>1, <1>7, <1>8, <2>1, <2>3
    <3>2. r[i] = v[i - n]
      BY <1>1, <1>7, <1>8, <2>3, <3>1
    <3>3. v[i - n] = s[i - 1]
      BY <1>2, <3>1
    <3> QED
      BY <1>1, <2>3, <3>2, <3>3
  <2> QED
    BY <1>1, <2>2, <2>3
<1>10. PICK i \in 1 .. L + 1, j \in 1 .. L + 1 : i < j /\ r[i] = a /\ r[j] = b
  BY <1>5, <1>9 DEF Precedes
<1>11. CASE i = n
  <2>1. j - 1 \in n .. L /\ b = s[j - 1] /\ a = x
    BY <1>1, <1>9, <1>10, <1>11
  <2> QED
    BY <2>1 DEF L
<1>12. CASE j = n
  <2>1. i \in 1 .. n - 1 /\ a = s[i] /\ b = x
    BY <1>1, <1>9, <1>10, <1>12
  <2> QED
    BY <2>1
<1>13. CASE i # n /\ j # n
  <2> DEFINE i2 == IF i < n THEN i ELSE i - 1
             j2 == IF j < n THEN j ELSE j - 1
  <2>1. i2 \in 1 .. L /\ j2 \in 1 .. L /\ i2 < j2
    BY <1>1, <1>10, <1>13
  <2>2. s[i2] = a /\ s[j2] = b
    BY <1>1, <1>9, <1>10, <1>13
  <2> QED
    BY <2>1, <2>2 DEF Precedes, L
<1> QED
  BY <1>11, <1>12, <1>13

(* The first node of a list precedes the others. *)
LEMMA HeadPrecedes ==
  ASSUME NEW S, NEW s \in Seq(S), s # <<>>, NEW y \in ToSet(s), y # Head(s)
  PROVE  Precedes(s, Head(s), y)
<1>1. Len(s) \in Nat /\ Len(s) # 0 /\ Head(s) = s[1]
  BY EmptySeq, LenProperties
<1>2. PICK j \in 1 .. Len(s) : s[j] = y
  BY InToSet
<1>3. 1 \in 1 .. Len(s) /\ 1 < j
  BY <1>1, <1>2
<1> QED
  BY <1>1, <1>2, <1>3 DEF Precedes
=============================================================================
