-------------------------- MODULE PortGraphProofs --------------------------
(* For any ports, drivers and operations: every reference is counted, also in the
   middle of the releases and removals that one release may set off; no receive
   function is called for a driver that is gone; a send hands each target the
   message once, whatever the callbacks do.

   References are exact between the calls only. Counted says what they are within
   one: a call that has still to release a port holds one, and a removal that has
   released the item of its entry, but not unlinked the entry, owes one. A send is
   right about its next entry because the entries before it in the list are
   those that it handed on or that came later: Turns.

   Ports that nobody holds are reclaimed because an entry is never left behind: a
   destroyed port that has entries is being destroyed (Dying), and an invalid one is
   being disconnected by a walk that has the others still before it (Dissolving).

   A message comes to no port twice from one source as its way through the ports is
   that of somebody who sends on what he got (Route). Calls nest no deeper than the
   ports allow: what a check leads to is invalid, and has no targets left unless it
   is the one port that is being disconnected (Nested). *)
EXTENDS PortGraph, LeastNumber, FiniteSetTheorems, SequenceTheorems

-----------------------------------------------------------------------------
(* Sequences. *)

\* A sequence without its last element, and this element.
LEMMA FrontLast ==
    ASSUME NEW S, NEW s \in Seq(S), s # <<>>
    PROVE  /\ Len(s) \in Nat \ {0}
           /\ Front(s) \in Seq(S) /\ Len(Front(s)) = Len(s) - 1
           /\ \A i \in 1 .. Len(s) - 1 : Front(s)[i] = s[i]
           /\ Last(s) = s[Len(s)] /\ Last(s) \in S
           /\ s = Append(Front(s), Last(s))
<1>1. Len(s) \in Nat \ {0} /\ \A i \in 1 .. Len(s) : s[i] \in S
  OBVIOUS
<1>2. /\ Front(s) \in Seq(S)
      /\ Len(Front(s)) = Len(s) - 1
      /\ \A i \in 1 .. Len(s) - 1 : Front(s)[i] = s[i]
  <2>1. /\ Len(s) - 1 \in Int /\ 1 \in Int
        /\ \A i \in 1 .. Len(s) - 1 : s[i] \in S
    BY <1>1
  <2>2. /\ Front(s) \in Seq(S)
        /\ Len(Front(s)) = IF 1 <= Len(s) - 1 THEN (Len(s) - 1) - 1 + 1 ELSE 0
        /\ \A i \in 1 .. (Len(s) - 1) - 1 + 1 : Front(s)[i] = s[1 + i - 1]
    BY <2>1, SubSeqProperties DEF Front
  <2> DEFINE t == Front(s)
             n == Len(s)
  <2>3. n \in Nat \ {0}
    BY <1>1
  <2> HIDE DEF t, n
  <2>4. /\ t \in Seq(S) /\ Len(t) = IF 1 <= n - 1 THEN (n - 1) - 1 + 1 ELSE 0
        /\ \A i \in 1 .. (n - 1) - 1 + 1 : t[i] = s[1 + i - 1]
    BY <2>2 DEF t, n
  <2>5. t \in Seq(S) /\ Len(t) = n - 1 /\ \A i \in 1 .. n - 1 : t[i] = s[i]
    BY <2>3, <2>4
  <2> QED BY <2>5 DEF t, n
<1>3. Last(s) = s[Len(s)] /\ Last(s) \in S
  BY <1>1 DEF Last
<1> DEFINE t == Front(s)
           a == Last(s)
<1>4. /\ t \in Seq(S) /\ a \in S /\ Len(t) = Len(s) - 1 /\ a = s[Len(s)]
      /\ \A i \in 1 .. Len(s) - 1 : t[i] = s[i]
  BY <1>2, <1>3
<1> HIDE DEF t, a
<1>5. s = Append(t, a)
  <2>1. Append(t, a) \in Seq(S) /\ Len(Append(t, a)) = Len(s)
    BY <1>1, <1>4
  <2>2. \A i \in 1 .. Len(s) : s[i] = Append(t, a)[i]
    BY <1>1, <1>4
  <2> QED BY <2>1, <2>2, SeqEqual
<1> QED BY <1>1, <1>2, <1>3, <1>5 DEF t, a

\* A sequence with one, two or three elements more.
LEMMA Extended ==
    ASSUME NEW S, NEW s \in Seq(S), NEW a \in S, NEW b \in S, NEW c \in S
    PROVE  /\ s \o <<>> = s
           /\ s \o <<a>> = Append(s, a) /\ Append(s, a) \in Seq(S)
           /\ s \o <<a, b>> = Append(Append(s, a), b)
           /\ Append(Append(s, a), b) \in Seq(S)
           /\ s \o <<a, b, c>> = Append(Append(Append(s, a), b), c)
           /\ Append(Append(Append(s, a), b), c) \in Seq(S)
OBVIOUS

\* Two calls.
LEMMA Pair == ASSUME NEW S, NEW a \in S, NEW b \in S PROVE <<a>> \o <<b>> = <<a, b>>
<1> DEFINE u == <<a>>
           v == <<b>>
           w == <<a, b>>
<1>1. u \in Seq(S) /\ Len(u) = 1 /\ u[1] = a /\ v \in Seq(S) /\ Len(v) = 1 /\ v[1] = b
  OBVIOUS
<1>2. w \in Seq(S) /\ Len(w) = 2 /\ w[1] = a /\ w[2] = b
  OBVIOUS
<1> HIDE DEF u, v, w
<1>3. /\ u \o v \in Seq(S) /\ Len(u \o v) = Len(u) + Len(v)
      /\ \A i \in 1 .. Len(u) + Len(v) : (u \o v)[i] = IF i <= Len(u) THEN u[i] ELSE v[i - Len(u)]
  BY <1>1, ConcatProperties
<1>4. Len(u \o v) = 2 /\ (u \o v)[1] = a /\ (u \o v)[2] = b
  BY <1>1, <1>3
<1>5. \A i \in 1 .. Len(u \o v) : (u \o v)[i] = w[i]
  BY <1>2, <1>4
<1>6. u \o v = w
  BY <1>2, <1>3, <1>4, <1>5, SeqEqual
<1> QED BY <1>6 DEF u, v, w

\* A sequence without its i-th element.
LEMMA Removed ==
    ASSUME NEW S, NEW s \in Seq(S), NEW i \in DOMAIN s
    PROVE  /\ RemoveAt(s, i) \in Seq(S) /\ Len(RemoveAt(s, i)) = Len(s) - 1
           /\ \A j \in 1 .. Len(s) - 1 : RemoveAt(s, i)[j] = IF j < i THEN s[j] ELSE s[j + 1]
<1> DEFINE u == SubSeq(s, 1, i - 1)
           v == SubSeq(s, i + 1, Len(s))
           n == Len(s)
<1>1. n \in Nat /\ i \in 1 .. n /\ \A j \in 1 .. n : s[j] \in S
  OBVIOUS
<1>2. u \in Seq(S) /\ Len(u) = i - 1 /\ \A j \in 1 .. i - 1 : u[j] = s[j]
  <2>1. 1 \in Int /\ i - 1 \in Int /\ \A j \in 1 .. i - 1 : s[j] \in S
    BY <1>1
  <2>2. /\ u \in Seq(S)
        /\ Len(u) = IF 1 <= i - 1 THEN (i - 1) - 1 + 1 ELSE 0
        /\ \A j \in 1 .. (i - 1) - 1 + 1 : u[j] = s[1 + j - 1]
    BY <2>1, SubSeqProperties
  <2> QED BY <1>1, <2>2
<1>3. v \in Seq(S) /\ Len(v) = n - i /\ \A j \in 1 .. n - i : v[j] = s[i + j]
  <2>1. i + 1 \in Int /\ n \in Int /\ \A j \in i + 1 .. n : s[j] \in S
    BY <1>1
  <2>2. /\ v \in Seq(S)
        /\ Len(v) = IF i + 1 <= n THEN n - (i + 1) + 1 ELSE 0
        /\ \A j \in 1 .. n - (i + 1) + 1 : v[j] = s[(i + 1) + j - 1]
    BY <2>1, SubSeqProperties
  <2> QED BY <1>1, <2>2
<1>4. RemoveAt(s, i) = u \o v
  BY DEF RemoveAt
<1> HIDE DEF u, v, n
<1>5. /\ u \o v \in Seq(S) /\ Len(u \o v) = n - 1
      /\ \A j \in 1 .. n - 1 : (u \o v)[j] = IF j <= i - 1 THEN u[j] ELSE v[j - (i - 1)]
  <2>1. /\ u \o v \in Seq(S) /\ Len(u \o v) = Len(u) + Len(v)
        /\ \A j \in 1 .. Len(u) + Len(v) :
              (u \o v)[j] = IF j <= Len(u) THEN u[j] ELSE v[j - Len(u)]
    BY <1>2, <1>3, ConcatProperties
  <2>2. Len(u) = i - 1 /\ Len(u) + Len(v) = n - 1
    BY <1>1, <1>2, <1>3
  <2> QED BY <2>1, <2>2
<1>6. \A j \in 1 .. n - 1 : (u \o v)[j] = IF j < i THEN s[j] ELSE s[j + 1]
  <2> SUFFICES ASSUME NEW j \in 1 .. n - 1
               PROVE  (u \o v)[j] = IF j < i THEN s[j] ELSE s[j + 1]
    OBVIOUS
  <2>1. CASE j < i
    BY <1>1, <1>2, <1>5, <2>1
  <2>2. CASE ~(j < i)
    <3>1. j - (i - 1) \in 1 .. n - i /\ i + (j - (i - 1)) = j + 1 /\ ~(j <= i - 1)
      BY <1>1, <2>2
    <3> QED BY <1>3, <1>5, <2>2, <3>1
  <2> QED BY <2>1, <2>2
<1> QED BY <1>4, <1>5, <1>6 DEF n

\* The tail of a sequence is the sequence without its first element.
LEMMA TailRemoves ==
    ASSUME NEW S, NEW s \in Seq(S), s # <<>>
    PROVE  Tail(s) = RemoveAt(s, 1) /\ 1 \in DOMAIN s /\ Head(s) = s[1]
BY DEF RemoveAt

\* How many elements of s are in F.
Count(s, F) == Cardinality({i \in DOMAIN s : s[i] \in F})

\* A number of calls.
LEMMA CountType ==
    ASSUME NEW S, NEW s \in Seq(S), NEW F
    PROVE  Count(s, F) \in Nat /\ IsFiniteSet({i \in DOMAIN s : s[i] \in F})
<1>1. IsFiniteSet(1 .. Len(s)) /\ DOMAIN s = 1 .. Len(s)
  BY FS_Interval
<1>2. {i \in DOMAIN s : s[i] \in F} \subseteq 1 .. Len(s)
  BY <1>1
<1> QED BY <1>1, <1>2, FS_Subset, FS_CardinalityType DEF Count

\* One more.
LEMMA CountAppend ==
    ASSUME NEW S, NEW s \in Seq(S), NEW a \in S, NEW F
    PROVE  Count(Append(s, a), F) = Count(s, F) + IF a \in F THEN 1 ELSE 0
<1> DEFINE t == Append(s, a)
           I == {i \in DOMAIN s : s[i] \in F}
           J == {i \in DOMAIN t : t[i] \in F}
           n == Len(s) + 1
<1>1. /\ n \in Nat \ {0} /\ DOMAIN t = 1 .. n /\ DOMAIN s = 1 .. n - 1
      /\ \A i \in 1 .. n - 1 : t[i] = s[i]
      /\ t[n] = a
  OBVIOUS
<1>2. IsFiniteSet(I) /\ n \notin I /\ Cardinality(I) = Count(s, F) /\ Count(s, F) \in Nat
  <2>1. n \notin I
    BY <1>1
  <2> QED BY <2>1, CountType DEF Count
<1>5. I = {i \in 1 .. n - 1 : s[i] \in F} /\ J = {i \in 1 .. n : t[i] \in F}
  BY <1>1
<1> HIDE DEF t, n, I, J
<1>3. CASE a \in F
  <2>1. \A i : i \in 1 .. n <=> i \in 1 .. n - 1 \/ i = n
    BY <1>1
  <2>4. \A i : i \in J <=> i \in I \/ i = n
    BY <1>1, <1>3, <1>5, <2>1
  <2> HIDE DEF I, J
  <2>2. J = I \cup {n}
    BY <2>4
  <2>3. Cardinality(J) = Cardinality(I) + 1
    BY <1>2, <2>2, FS_AddElement
  <2> QED BY <1>2, <1>3, <2>3 DEF Count, J, t
<1>4. CASE a \notin F
  <2>1. \A i : i \in J <=> i \in I
    BY <1>1, <1>4, <1>5
  <2> HIDE DEF I, J
  <2>2. J = I
    BY <2>1
  <2>3. Count(t, F) = Count(s, F)
    BY <1>2, <2>2 DEF Count, J
  <2> QED BY <1>2, <1>4, <2>3 DEF t
<1> QED BY <1>3, <1>4

-----------------------------------------------------------------------------
(* Entries of lists. *)

\* The entries of a list are at addresses of their own.
Apart(s) == \A i, j \in DOMAIN s : s[i].id = s[j].id => i = j

\* What is in a list after an entry went.
LEMMA RemovedSet ==
    ASSUME NEW s \in Seq(Entry), Apart(s), NEW i \in DOMAIN s
    PROVE  /\ ToSet(RemoveAt(s, i)) = ToSet(s) \ {s[i]}
           /\ Apart(RemoveAt(s, i))
<1> DEFINE t == RemoveAt(s, i)
           n == Len(s)
<1>1. /\ t \in Seq(Entry) /\ Len(t) = n - 1
      /\ \A j \in 1 .. n - 1 : t[j] = IF j < i THEN s[j] ELSE s[j + 1]
  BY Removed
<1>2. n \in Nat /\ i \in 1 .. n /\ DOMAIN s = 1 .. n
  OBVIOUS
<1> HIDE DEF t, n
<1>3. DOMAIN t = 1 .. n - 1
  BY <1>1, <1>2
<1>4. ASSUME NEW x \in ToSet(t) PROVE x \in ToSet(s) \ {s[i]}
  <2>1. PICK j \in 1 .. n - 1 : x = t[j]
    BY <1>3, <1>4 DEF ToSet
  <2>2. j \in 1 .. n /\ j + 1 \in 1 .. n /\ (j >= i => j + 1 # i) /\ (j < i => j # i)
    BY <1>2, <2>1
  <2>3. PICK k \in 1 .. n : k # i /\ x = s[k]
    <3>1. CASE j < i
      BY <1>1, <2>1, <2>2, <3>1
    <3>2. CASE ~(j < i)
      BY <1>1, <1>2, <2>1, <2>2, <3>2
    <3> QED BY <3>1, <3>2
  <2> QED BY <1>2, <2>3 DEF Apart, ToSet
<1>5. ASSUME NEW x \in ToSet(s), x # s[i] PROVE x \in ToSet(t)
  <2>1. PICK k \in 1 .. n : x = s[k]
    BY <1>2, <1>5 DEF ToSet
  <2>2. k # i
    BY <1>5, <2>1
  <2>3. CASE k < i
    <3>1. k \in 1 .. n - 1 /\ t[k] = s[k]
      BY <1>1, <1>2, <2>3
    <3> QED BY <1>3, <2>1, <3>1 DEF ToSet
  <2>4. CASE k > i
    <3>1. k - 1 \in 1 .. n - 1 /\ ~(k - 1 < i) /\ (k - 1) + 1 = k
      BY <1>2, <2>4
    <3>2. t[k - 1] = s[k]
      BY <1>1, <3>1
    <3> QED BY <1>3, <2>1, <3>1, <3>2 DEF ToSet
  <2> QED BY <1>2, <2>2, <2>3, <2>4
<1>6. Apart(t)
  <2> SUFFICES ASSUME NEW j \in 1 .. n - 1, NEW k \in 1 .. n - 1, t[j].id = t[k].id
               PROVE  j = k
    BY <1>3 DEF Apart
  <2>1. j \in 1 .. n /\ k \in 1 .. n /\ j + 1 \in 1 .. n /\ k + 1 \in 1 .. n
    BY <1>2
  <2>2. \A a, b \in 1 .. n : s[a].id = s[b].id => a = b
    BY <1>2 DEF Apart
  <2>3. t[j] = IF j < i THEN s[j] ELSE s[j + 1]
    BY <1>1
  <2>4. t[k] = IF k < i THEN s[k] ELSE s[k + 1]
    BY <1>1
  <2>5. CASE j < i /\ k < i
    BY <2>1, <2>2, <2>3, <2>4, <2>5
  <2>6. CASE j < i /\ ~(k < i)
    <3>1. j = k + 1
      BY <2>1, <2>2, <2>3, <2>4, <2>6
    <3> QED BY <1>2, <2>6, <3>1
  <2>7. CASE ~(j < i) /\ k < i
    <3>1. k = j + 1
      BY <2>1, <2>2, <2>3, <2>4, <2>7
    <3> QED BY <1>2, <2>7, <3>1
  <2>8. CASE ~(j < i) /\ ~(k < i)
    <3>1. j + 1 = k + 1
      BY <2>1, <2>2, <2>3, <2>4, <2>8
    <3> QED BY <3>1
  <2> QED BY <2>5, <2>6, <2>7, <2>8
<1>7. ToSet(t) = ToSet(s) \ {s[i]}
  BY <1>4, <1>5
<1> QED BY <1>6, <1>7 DEF t

\* A new first entry.
LEMMA Prepended ==
    ASSUME NEW S, NEW s \in Seq(S), NEW e \in S
    PROVE  /\ <<e>> \o s \in Seq(S) /\ Len(<<e>> \o s) = Len(s) + 1
           /\ (<<e>> \o s)[1] = e /\ \A j \in 1 .. Len(s) : (<<e>> \o s)[j + 1] = s[j]
           /\ ToSet(<<e>> \o s) = ToSet(s) \cup {e}
<1> DEFINE t == <<e>> \o s
           n == Len(s)
<1>1. n \in Nat /\ DOMAIN s = 1 .. n
  OBVIOUS
<1>2. /\ t \in Seq(S) /\ Len(t) = n + 1 /\ t[1] = e
      /\ \A j \in 1 .. n : t[j + 1] = s[j]
  OBVIOUS
<1> HIDE DEF t, n
<1>3. DOMAIN t = 1 .. n + 1
  BY <1>1, <1>2
<1>4. ASSUME NEW x \in ToSet(t) PROVE x \in ToSet(s) \cup {e}
  <2>1. PICK j \in 1 .. n + 1 : x = t[j]
    BY <1>3, <1>4 DEF ToSet
  <2>2. j = 1 \/ (j - 1 \in 1 .. n /\ (j - 1) + 1 = j)
    BY <1>1, <2>1
  <2>3. CASE j = 1
    BY <1>2, <2>1, <2>3
  <2>4. CASE j - 1 \in 1 .. n /\ (j - 1) + 1 = j
    <3>1. t[j] = s[j - 1]
      BY <1>1, <1>2, <2>4
    <3> QED BY <1>1, <2>1, <2>4, <3>1 DEF ToSet
  <2> QED BY <2>2, <2>3, <2>4
<1>5. ASSUME NEW x \in ToSet(s) \cup {e} PROVE x \in ToSet(t)
  <2>1. CASE x = e
    <3>1. 1 \in DOMAIN t
      BY <1>1, <1>3
    <3> QED BY <1>2, <2>1, <3>1 DEF ToSet
  <2>2. CASE x \in ToSet(s)
    <3>1. PICK k \in 1 .. n : x = s[k]
      BY <1>1, <2>2 DEF ToSet
    <3>2. k + 1 \in DOMAIN t /\ t[k + 1] = x
      BY <1>1, <1>2, <1>3, <3>1
    <3> QED BY <3>2 DEF ToSet
  <2> QED BY <1>5, <2>1, <2>2
<1>6. ToSet(t) = ToSet(s) \cup {e}
  BY <1>4, <1>5
<1> QED BY <1>2, <1>6 DEF t, n

\* A new entry at an address of its own.
LEMMA PrependedApart ==
    ASSUME NEW s \in Seq(Entry), Apart(s), NEW e \in Entry, \A i \in DOMAIN s : s[i].id # e.id
    PROVE  Apart(<<e>> \o s)
<1> DEFINE t == <<e>> \o s
           n == Len(s)
<1>1. n \in Nat /\ DOMAIN s = 1 .. n
  OBVIOUS
<1>2. /\ t \in Seq(Entry) /\ Len(t) = n + 1 /\ t[1] = e
      /\ \A j \in 1 .. n : t[j + 1] = s[j]
  BY Prepended
<1> HIDE DEF t, n
<1>3. DOMAIN t = 1 .. n + 1
  BY <1>1, <1>2
<1> SUFFICES ASSUME NEW j \in 1 .. n + 1, NEW k \in 1 .. n + 1, t[j].id = t[k].id
             PROVE  j = k
  BY <1>3 DEF Apart, t
<1>4. \A i \in 1 .. n + 1 : i = 1 \/ (i - 1 \in 1 .. n /\ t[i] = s[i - 1])
  <2> SUFFICES ASSUME NEW i \in 1 .. n + 1, i # 1 PROVE i - 1 \in 1 .. n /\ t[i] = s[i - 1]
    OBVIOUS
  <2>1. i - 1 \in 1 .. n /\ (i - 1) + 1 = i
    BY <1>1
  <2> QED BY <1>2, <2>1
<1>5. \A a, b \in 1 .. n : s[a].id = s[b].id => a = b
  BY <1>1 DEF Apart
<1>6. CASE j = 1 \/ k = 1
  BY <1>1, <1>2, <1>4, <1>6
<1>7. CASE j # 1 /\ k # 1
  <2>1. j - 1 = k - 1
    BY <1>4, <1>5, <1>7
  <2> QED BY <2>1
<1> QED BY <1>6, <1>7

-----------------------------------------------------------------------------
(* References: the entries that lead to a port, and the calls that hold it. *)

\* The entries are pairs of a list and what is in it.
LEMMA LinksElements ==
    ASSUME NEW l, NEW p, NEW x
    PROVE  x \in Links(l, p) <=> \E q \in Ports : \E e \in ToSet(l[q]) : x = <<q, e>> /\ e.port = p
BY DEF Links

\* Finitely many entries lead to p.
LEMMA LinksFinite ==
    ASSUME NEW l \in [Ports -> Seq(Entry)], NEW p
    PROVE  IsFiniteSet(Links(l, p)) /\ Cardinality(Links(l, p)) \in Nat
<1> DEFINE U == {{q} \X ToSet(l[q]) : q \in Ports}
<1>1. ASSUME NEW q \in Ports PROVE IsFiniteSet({q} \X ToSet(l[q]))
  <2> DEFINE s == l[q]
  <2>1. s \in Seq(Entry) /\ DOMAIN s = 1 .. Len(s) /\ Len(s) \in Nat
    OBVIOUS
  <2>2. IsFiniteSet(1 .. Len(s))
    BY <2>1, FS_Interval
  <2> HIDE DEF s
  <2>3. s \in Surjection(1 .. Len(s), ToSet(s))
    BY <2>1 DEF ToSet, Surjection
  <2>4. IsFiniteSet(ToSet(s))
    BY <2>2, <2>3, FS_Surjection
  <2>5. IsFiniteSet({q} \X ToSet(s))
    BY <2>4, FS_Singleton, FS_Product
  <2> QED BY <2>5 DEF s
<1>2. IsFiniteSet(U)
  <2> DEFINE f == [q \in Ports |-> {q} \X ToSet(l[q])]
  <2>1. f \in Surjection(Ports, U)
    BY DEF Surjection
  <2> QED BY <2>1, HeapAssumption, FS_Surjection
<1>3. \A T \in U : IsFiniteSet(T)
  BY <1>1
<1>4. IsFiniteSet(UNION U)
  BY <1>2, <1>3, FS_UNION
<1>5. Links(l, p) \subseteq UNION U
  BY DEF Links
<1> QED BY <1>4, <1>5, FS_Subset, FS_CardinalityType

\* Does the entry e lead to p?
Leads(e, p) == IF e.port = p THEN 1 ELSE 0

\* Between the lists l and k an entry went from, or was added to, the list of q.
Loses(l, k, q, e) ==
    e \in ToSet(l[q]) /\ ToSet(k[q]) = ToSet(l[q]) \ {e} /\ \A r \in Ports : r # q => k[r] = l[r]
Gains(l, k, q, e) ==
    e \notin ToSet(l[q]) /\ ToSet(k[q]) = ToSet(l[q]) \cup {e} /\ \A r \in Ports : r # q => k[r] = l[r]

\* An entry goes from the list of q.
LEMMA LinksRemoved ==
    ASSUME NEW l \in [Ports -> Seq(Entry)], NEW k, NEW q \in Ports, NEW e, Loses(l, k, q, e), NEW p
    PROVE  Cardinality(Links(k, p)) = Cardinality(Links(l, p)) - Leads(e, p)
<1>4. /\ e \in ToSet(l[q]) /\ ToSet(k[q]) = ToSet(l[q]) \ {e}
      /\ \A r \in Ports : r # q => k[r] = l[r]
  BY DEF Loses
<1>5. Links(k, p) = Links(l, p) \ {<<q, e>>}
  <2>1. ASSUME NEW x PROVE x \in Links(k, p) <=> x \in Links(l, p) /\ x # <<q, e>>
    <3>1. ASSUME x \in Links(k, p) PROVE x \in Links(l, p) /\ x # <<q, e>>
      <4>0. PICK r \in Ports : \E f \in ToSet(k[r]) : x = <<r, f>> /\ f.port = p
        BY <3>1, LinksElements
      <4>1. PICK f \in ToSet(k[r]) : x = <<r, f>> /\ f.port = p
        BY <4>0
      <4>2. f \in ToSet(l[r]) /\ ~(r = q /\ f = e)
        BY <1>4, <4>1
      <4>3. x \in Links(l, p)
        BY <4>1, <4>2, LinksElements
      <4> QED BY <4>1, <4>2, <4>3
    <3>2. ASSUME x \in Links(l, p), x # <<q, e>> PROVE x \in Links(k, p)
      <4>0. PICK r \in Ports : \E f \in ToSet(l[r]) : x = <<r, f>> /\ f.port = p
        BY <3>2, LinksElements
      <4>1. PICK f \in ToSet(l[r]) : x = <<r, f>> /\ f.port = p
        BY <4>0
      <4>2. f \in ToSet(k[r])
        BY <1>4, <3>2, <4>1
      <4> QED BY <4>1, <4>2, LinksElements
    <3> QED BY <3>1, <3>2
  <2> QED BY <2>1
<1>6. <<q, e>> \in Links(l, p) <=> e.port = p
  <2>1. ASSUME <<q, e>> \in Links(l, p) PROVE e.port = p
    <3>0. PICK r \in Ports : \E f \in ToSet(l[r]) : <<q, e>> = <<r, f>> /\ f.port = p
      BY <2>1, LinksElements
    <3>1. PICK f \in ToSet(l[r]) : <<q, e>> = <<r, f>> /\ f.port = p
      BY <3>0
    <3> QED BY <3>1
  <2>2. ASSUME e.port = p PROVE <<q, e>> \in Links(l, p)
    BY <1>4, <2>2, LinksElements
  <2> QED BY <2>1, <2>2
<1>7. IsFiniteSet(Links(l, p)) /\ Cardinality(Links(l, p)) \in Nat
  BY LinksFinite
<1>8. CASE e.port = p
  <2>1. Cardinality(Links(l, p) \ {<<q, e>>}) = Cardinality(Links(l, p)) - 1
    BY <1>6, <1>7, <1>8, FS_RemoveElement
  <2> QED BY <1>5, <1>8, <2>1 DEF Leads
<1>9. CASE e.port # p
  <2>1. Links(k, p) = Links(l, p)
    BY <1>5, <1>6, <1>9
  <2> QED BY <1>7, <1>9, <2>1 DEF Leads
<1> QED BY <1>8, <1>9

\* An entry is added to the list of q.
LEMMA LinksAdded ==
    ASSUME NEW l \in [Ports -> Seq(Entry)], NEW k, NEW q \in Ports, NEW e, Gains(l, k, q, e), NEW p
    PROVE  Cardinality(Links(k, p)) = Cardinality(Links(l, p)) + Leads(e, p)
<1>4. /\ e \notin ToSet(l[q]) /\ ToSet(k[q]) = ToSet(l[q]) \cup {e}
      /\ \A r \in Ports : r # q => k[r] = l[r]
  BY DEF Gains
<1>5. ASSUME NEW x
      PROVE  x \in Links(k, p) <=> x \in Links(l, p) \/ (x = <<q, e>> /\ e.port = p)
  <2>1. ASSUME x \in Links(k, p) PROVE x \in Links(l, p) \/ (x = <<q, e>> /\ e.port = p)
    <3>0. PICK r \in Ports : \E f \in ToSet(k[r]) : x = <<r, f>> /\ f.port = p
      BY <2>1, LinksElements
    <3>1. PICK f \in ToSet(k[r]) : x = <<r, f>> /\ f.port = p
      BY <3>0
    <3>2. f \in ToSet(l[r]) \/ (r = q /\ f = e)
      BY <1>4, <3>1
    <3> QED BY <3>1, <3>2, LinksElements
  <2>2. ASSUME x \in Links(l, p) PROVE x \in Links(k, p)
    <3>0. PICK r \in Ports : \E f \in ToSet(l[r]) : x = <<r, f>> /\ f.port = p
      BY <2>2, LinksElements
    <3>1. PICK f \in ToSet(l[r]) : x = <<r, f>> /\ f.port = p
      BY <3>0
    <3>2. f \in ToSet(k[r])
      BY <1>4, <3>1
    <3> QED BY <3>1, <3>2, LinksElements
  <2>3. ASSUME x = <<q, e>>, e.port = p PROVE x \in Links(k, p)
    BY <1>4, <2>3, LinksElements
  <2> QED BY <2>1, <2>2, <2>3
<1>6. <<q, e>> \notin Links(l, p)
  <2> SUFFICES ASSUME <<q, e>> \in Links(l, p) PROVE FALSE
    OBVIOUS
  <2>0. PICK r \in Ports : \E f \in ToSet(l[r]) : <<q, e>> = <<r, f>> /\ f.port = p
    BY LinksElements
  <2>1. PICK f \in ToSet(l[r]) : <<q, e>> = <<r, f>> /\ f.port = p
    BY <2>0
  <2> QED BY <1>4, <2>1
<1>7. IsFiniteSet(Links(l, p)) /\ Cardinality(Links(l, p)) \in Nat
  BY LinksFinite
<1>8. CASE e.port = p
  <2>1. Links(k, p) = Links(l, p) \cup {<<q, e>>}
    BY <1>5, <1>8
  <2>2. Cardinality(Links(l, p) \cup {<<q, e>>}) = Cardinality(Links(l, p)) + 1
    BY <1>6, <1>7, FS_AddElement
  <2> QED BY <1>8, <2>1, <2>2 DEF Leads
<1>9. CASE e.port # p
  <2>1. Links(k, p) = Links(l, p)
    BY <1>5, <1>9
  <2> QED BY <1>7, <1>9, <2>1 DEF Leads
<1> QED BY <1>8, <1>9

\* A call that will release p, and one that has released it for an entry that is
\* still in a list.
Holding(p) == {f \in Frames : f.do \in {"release", "drop"} /\ f.port = p}
Owing(p) == {f \in Frames : f.do = "unlink" /\ f.item = p}
Weight(s, p) == Count(s, Holding(p)) - Count(s, Owing(p))
Of(f, p) == (IF f \in Holding(p) THEN 1 ELSE 0) - (IF f \in Owing(p) THEN 1 ELSE 0)

\* Weights are integers.
LEMMA WeightType ==
    ASSUME NEW s \in Seq(Frames), NEW p
    PROVE  Weight(s, p) \in Int
<1>1. Count(s, Holding(p)) \in Nat /\ Count(s, Owing(p)) \in Nat
  BY CountType
<1> QED BY <1>1 DEF Weight

\* The weight of the calls when one more is on top.
LEMMA WeightAppend ==
    ASSUME NEW s \in Seq(Frames), NEW a \in Frames, NEW p
    PROVE  Append(s, a) \in Seq(Frames) /\ Weight(Append(s, a), p) = Weight(s, p) + Of(a, p)
<1>1. Append(s, a) \in Seq(Frames)
  OBVIOUS
<1>2. Count(s, Holding(p)) \in Nat /\ Count(s, Owing(p)) \in Nat
  BY CountType
<1>3. /\ Count(Append(s, a), Holding(p)) = Count(s, Holding(p)) + IF a \in Holding(p) THEN 1 ELSE 0
      /\ Count(Append(s, a), Owing(p)) = Count(s, Owing(p)) + IF a \in Owing(p) THEN 1 ELSE 0
  BY CountAppend
<1> QED BY <1>1, <1>2, <1>3 DEF Weight, Of

\* The weight of the calls without the one on top.
LEMMA WeightFront ==
    ASSUME NEW s \in Seq(Frames), s # <<>>, NEW p
    PROVE  Weight(Front(s), p) = Weight(s, p) - Of(Last(s), p)
<1>1. Front(s) \in Seq(Frames) /\ Last(s) \in Frames /\ s = Append(Front(s), Last(s))
  BY FrontLast
<1> DEFINE t == Front(s)
           a == Last(s)
<1>5. t \in Seq(Frames) /\ a \in Frames /\ s = Append(t, a)
  BY <1>1
<1> HIDE DEF t, a
<1>2. Weight(s, p) = Weight(t, p) + Of(a, p)
  BY <1>5, WeightAppend
<1>3. Weight(t, p) \in Int /\ Of(a, p) \in Int
  BY <1>5, WeightType DEF Of
<1>4. Weight(t, p) = Weight(s, p) - Of(a, p)
  BY <1>2, <1>3
<1> QED BY <1>4 DEF t, a

\* No calls hold nothing.
LEMMA WeightEmpty == ASSUME NEW p PROVE Weight(<<>>, p) = 0
<1>1. ASSUME NEW F PROVE Count(<<>>, F) = 0
  <2>1. {i \in DOMAIN <<>> : <<>>[i] \in F} = {}
    OBVIOUS
  <2> QED BY <2>1, FS_EmptySet DEF Count
<1> QED BY <1>1 DEF Weight

-----------------------------------------------------------------------------
(* Types. *)

\* A call, and its fields.
LEMMA FrameType ==
    ASSUME NEW do \in Steps, NEW p \in Ports, NEW x \in Ports, NEW id \in Nat, NEW prev \in Nat
    PROVE  /\ Frame(do, p, x, id, prev) \in Frames
           /\ Frame(do, p, x, id, prev).do = do /\ Frame(do, p, x, id, prev).port = p
           /\ Frame(do, p, x, id, prev).item = x /\ Frame(do, p, x, id, prev).entry = id
           /\ Frame(do, p, x, id, prev).prev = prev
BY DEF Frame, Frames

\* The fields of a call.
LEMMA FrameFields ==
    ASSUME NEW f \in Frames
    PROVE  f.do \in Steps /\ f.port \in Ports /\ f.item \in Ports /\ f.entry \in Nat /\ f.prev \in Nat
BY DEF Frames

\* The fields of a message.
LEMMA MessageFields ==
    ASSUME NEW m \in Messages
    PROVE  /\ m.fn \in {"send", "receive", "echo"} /\ m.port \in Ports /\ m.src \in Ports \cup {NULL}
           /\ m.next \in Nat /\ m.due \in SUBSET Nat /\ m.got \in Seq(Nat)
BY DEF Messages

\* The entries of a list that can be read.
LEMMA ListType ==
    ASSUME HeapType, NEW p \in Ports
    PROVE  /\ list[p] \in Seq(Entry) /\ Len(list[p]) \in Nat /\ DOMAIN list[p] = 1 .. Len(list[p])
           /\ \A i \in DOMAIN list[p] : list[p][i].id \in Nat \ {0} /\ list[p][i].port \in Ports
           /\ refs[p] \in Nat
<1>1. list[p] \in Seq(Entry) /\ refs[p] \in Nat
  BY DEF HeapType
<1>2. Len(list[p]) \in Nat /\ DOMAIN list[p] = 1 .. Len(list[p])
  BY <1>1
<1>3. ASSUME NEW i \in DOMAIN list[p] PROVE list[p][i].id \in Nat \ {0} /\ list[p][i].port \in Ports
  <2>1. list[p][i] \in Entry
    BY <1>1
  <2> QED BY <2>1 DEF Entry
<1> QED BY <1>1, <1>2, <1>3

\* The addresses in a list are not null, and those of a list that can be read.
LEMMA IdsType ==
    ASSUME HeapType, NEW p \in Ports
    PROVE  /\ Ids(p) \in SUBSET Nat /\ 0 \notin Ids(p)
           /\ \A id : id \in Ids(p) <=> Alive(p) /\ \E i \in DOMAIN list[p] : list[p][i].id = id
<1>1. \A id : id \in Ids(p) <=> Alive(p) /\ \E i \in DOMAIN list[p] : list[p][i].id = id
  <2>1. CASE Alive(p)
    <3>1. Entries(p) = list[p]
      BY <2>1 DEF Entries
    <3> QED BY <2>1, <3>1 DEF Ids, ToSet
  <2>2. CASE ~Alive(p)
    <3>1. Entries(p) = <<>>
      BY <2>2 DEF Entries
    <3> QED BY <2>2, <3>1 DEF Ids, ToSet
  <2> QED BY <2>1, <2>2
<1>2. \A id \in Ids(p) : id \in Nat \ {0}
  BY <1>1, ListType
<1> QED BY <1>1, <1>2

\* The entry at an address of the list, and its neighbours.
LEMMA AtEntry ==
    ASSUME HeapType, NEW p \in Ports, NEW id \in Ids(p)
    PROVE  /\ Alive(p)
           /\ At(p, id) \in DOMAIN list[p] /\ list[p][At(p, id)].id = id
           /\ Item(p, id) = list[p][At(p, id)].port /\ Item(p, id) \in Ports
           /\ NextId(p, id) \in Nat /\ PrevId(p, id) \in Nat
<1>1. Alive(p) /\ \E i \in DOMAIN list[p] : list[p][i].id = id
  BY IdsType
<1>2. At(p, id) \in DOMAIN list[p] /\ list[p][At(p, id)].id = id
  BY <1>1 DEF At
<1>3. Item(p, id) = list[p][At(p, id)].port /\ Item(p, id) \in Ports
  BY <1>2, ListType DEF Item
<1> DEFINE i == At(p, id)
<1> HIDE DEF i
<1>4. i \in 1 .. Len(list[p])
  BY <1>2, ListType DEF i
<1>5. i # Len(list[p]) => list[p][i + 1].id \in Nat
  <2> SUFFICES ASSUME i # Len(list[p]) PROVE list[p][i + 1].id \in Nat
    OBVIOUS
  <2>1. i + 1 \in DOMAIN list[p]
    BY <1>4, ListType
  <2> QED BY <2>1, ListType
<1>6. i # 1 => list[p][i - 1].id \in Nat
  <2> SUFFICES ASSUME i # 1 PROVE list[p][i - 1].id \in Nat
    OBVIOUS
  <2>1. i - 1 \in DOMAIN list[p]
    BY <1>4, ListType
  <2> QED BY <2>1, ListType
<1>7. NextId(p, id) \in Nat /\ PrevId(p, id) \in Nat
  BY <1>5, <1>6 DEF NextId, PrevId, i
<1> QED BY <1>1, <1>2, <1>3, <1>7

\* The first entry of a list.
LEMMA FirstType ==
    ASSUME HeapType, NEW p \in Ports
    PROVE  /\ FirstId(p) \in Nat
           /\ ~Alive(p) \/ list[p] = <<>> => FirstId(p) = 0
           /\ Alive(p) /\ list[p] # <<>> => 1 \in DOMAIN list[p] /\ FirstId(p) = list[p][1].id
<1>1. CASE Alive(p) /\ list[p] # <<>>
  <2>1. 1 \in DOMAIN list[p]
    BY <1>1, ListType
  <2>2. Entries(p) = list[p]
    BY <1>1 DEF Entries
  <2> QED BY <1>1, <2>1, <2>2, ListType DEF FirstId
<1>2. CASE ~Alive(p) \/ list[p] = <<>>
  <2>1. Entries(p) = <<>>
    BY <1>2 DEF Entries
  <2> QED BY <1>2, <2>1 DEF FirstId
<1> QED BY <1>1, <1>2

\* The calls after a step, unless it stopped the program.
LEMMA GotoOutcome ==
    ASSUME HeapType, crash = "none", NEW s \in Seq(Frames), Goto(s)
    PROVE  /\ calls' \in Seq(Frames) /\ Len(calls') <= Depth /\ crash' \in Crashes
           /\ crash' = "none" => calls' = s
BY DEF HeapType, Goto, Crashes

\* The program stops: the calls stay what they are.
LEMMA CrashOutcome ==
    ASSUME HeapType, NEW why \in Crashes, Crash(why)
    PROVE  calls' \in Seq(Frames) /\ Len(calls') <= Depth /\ crash' \in Crashes /\ crash' = why
BY DEF HeapType, Crash

\* The calls under way, and the one on top.
LEMMA TopCall ==
    ASSUME HeapType, Working
    PROVE  /\ calls \in Seq(Frames) /\ calls # <<>> /\ crash = "none"
           /\ Front(calls) \in Seq(Frames) /\ Last(calls) \in Frames
           /\ Last(calls).do \in Steps /\ Last(calls).port \in Ports /\ Last(calls).item \in Ports
           /\ Last(calls).entry \in Nat /\ Last(calls).prev \in Nat
<1>1. calls \in Seq(Frames) /\ calls # <<>> /\ crash = "none"
  BY DEF HeapType, Working
<1>2. Front(calls) \in Seq(Frames) /\ Last(calls) \in Frames
  BY <1>1, FrontLast
<1> QED BY <1>1, <1>2, FrameFields

\* The calls after a step of the one on top.
LEMMA BecomeOutcome ==
    ASSUME HeapType, Working, NEW s \in Seq(Frames), Become(s)
    PROVE  /\ calls' \in Seq(Frames) /\ Len(calls') <= Depth /\ crash' \in Crashes
           /\ crash' = "none" => calls' = Front(calls) \o s
<1>1. Front(calls) \o s \in Seq(Frames) /\ crash = "none"
  BY TopCall
<1> QED BY <1>1, GotoOutcome DEF Become

\* The steps of the heap keep its types.
LEMMA ReleaseType == ASSUME HeapType, MIDIPortRelease PROVE HeapType'
<1> DEFINE p == Last(calls).port
<1>1. Working /\ p \in Ports
  BY TopCall DEF MIDIPortRelease, Top
<1>2. UNCHANGED <<refs, mode, list>>
  BY DEF MIDIPortRelease
<1>3. <<Call("drop", p)>> \in Seq(Frames) /\ <<Call("drop", p), Walk("check", p)>> \in Seq(Frames)
  <2>1. Call("drop", p) \in Frames
    BY <1>1, FrameType DEF Call, Steps
  <2>2. Walk("check", p) \in Frames
    BY <1>1, FirstType, FrameType DEF Walk, Steps
  <2> QED BY <2>1, <2>2
<1>4. calls' \in Seq(Frames) /\ Len(calls') <= Depth /\ crash' \in Crashes
  <2>1. CASE ~Alive(p)
    BY <2>1, CrashOutcome DEF MIDIPortRelease, Crashes
  <2>2. CASE Alive(p)
    BY <1>1, <1>3, <2>2, BecomeOutcome DEF MIDIPortRelease
  <2> QED BY <2>1, <2>2
<1> QED BY <1>2, <1>4 DEF HeapType

\* So does dropping a reference,
LEMMA DropType == ASSUME HeapType, Drop PROVE HeapType'
<1> DEFINE p == Last(calls).port
<1>1. Working /\ p \in Ports
  BY TopCall DEF Drop, Top
<1>2. UNCHANGED <<mode, list>>
  BY DEF Drop
<1>3. Call("destroy", p) \in Frames
  BY <1>1, FrameType DEF Call, Steps
<1>4. /\ calls' \in Seq(Frames) /\ Len(calls') <= Depth /\ crash' \in Crashes
      /\ refs' \in [Ports -> Nat]
  <2>1. CASE ~Alive(p)
    BY <2>1, CrashOutcome DEF Drop, Crashes, HeapType
  <2>2. CASE Alive(p)
    <3>1. refs' = [refs EXCEPT ![p] = @ - 1] /\ refs[p] - 1 \in Nat
      BY <1>1, <2>2, ListType DEF Drop, Decrement, Alive
    <3>2. Become(IF refs[p] = 1 THEN <<Call("destroy", p)>> ELSE <<>>)
      BY <2>2 DEF Drop
    <3>3. (IF refs[p] = 1 THEN <<Call("destroy", p)>> ELSE <<>>) \in Seq(Frames)
      BY <1>3
    <3> QED BY <1>1, <3>1, <3>2, <3>3, BecomeOutcome DEF HeapType
  <2> QED BY <2>1, <2>2
<1> QED BY <1>2, <1>4 DEF HeapType

\* MIDIListDestroy,
LEMMA DestroyType == ASSUME HeapType, Destroy PROVE HeapType'
<1> DEFINE p == Last(calls).port
<1>1. Working /\ p \in Ports /\ Last(calls) \in Frames
  BY TopCall DEF Destroy, Top
<1>2. UNCHANGED <<refs, mode>>
  BY DEF Destroy
<1>3. /\ calls' \in Seq(Frames) /\ Len(calls') <= Depth /\ crash' \in Crashes
      /\ list' \in [Ports -> Seq(Entry)]
  <2>1. CASE list[p] = <<>>
    <3>1. Become(<<>>) /\ UNCHANGED list /\ <<>> \in Seq(Frames)
      BY <2>1 DEF Destroy
    <3> QED BY <1>1, <3>1, BecomeOutcome DEF HeapType
  <2>2. CASE list[p] # <<>>
    <3>1. Become(Freed(p)) /\ list' = [list EXCEPT ![p] = Tail(@)]
      BY <2>2 DEF Destroy
    <3>2. list[p] \in Seq(Entry) /\ Head(list[p]).port \in Ports /\ Tail(list[p]) \in Seq(Entry)
      <4>1. list[p] \in Seq(Entry) /\ 1 \in DOMAIN list[p] /\ Head(list[p]) = list[p][1]
        BY <1>1, <2>2, ListType
      <4> QED BY <1>1, <2>2, <4>1, ListType
    <3>3. Freed(p) \in Seq(Frames)
      <4>1. Call("release", Head(list[p]).port) \in Frames
        BY <3>2, FrameType DEF Call, Steps
      <4> QED BY <1>1, <4>1 DEF Freed
    <3> QED BY <1>1, <3>1, <3>2, <3>3, BecomeOutcome DEF HeapType
  <2> QED BY <2>1, <2>2
<1> QED BY <1>2, <1>3 DEF HeapType

\* MIDIListApply,
LEMMA ApplyType == ASSUME HeapType, NEW do \in {"check", "disconnect"}, Apply(do) PROVE HeapType'
<1> DEFINE p == Last(calls).port
           id == Last(calls).entry
           item == Item(p, id)
           next == Frame(do, p, p, NextId(p, id), 0)
<1>1. Working /\ p \in Ports
  BY TopCall DEF Apply, Top
<1>2. UNCHANGED <<mode, list>>
  BY DEF Apply
<1>3. CASE id = 0
  <2>1. Become(<<>>) /\ UNCHANGED refs /\ <<>> \in Seq(Frames)
    BY <1>3 DEF Apply
  <2> QED BY <1>1, <1>2, <2>1, BecomeOutcome DEF HeapType
<1>4. CASE id # 0 /\ id \notin Ids(p)
  BY <1>2, <1>4, CrashOutcome DEF Apply, Crashes, HeapType
<1>5. CASE id # 0 /\ id \in Ids(p)
  <2>1. item \in Ports /\ NextId(p, id) \in Nat
    BY <1>1, <1>5, AtEntry
  <2>2. next \in Frames
    BY <1>1, <2>1, FrameType DEF Steps
  <2>3. Removal(p, item) \in Frames /\ Call("release", item) \in Frames
    BY <1>1, <2>1, FrameType DEF Removal, Call, Steps
  <2>4. IF do = "check" THEN CheckItem(p, item, next) ELSE DisconnectItem(p, item, next)
    BY <1>5 DEF Apply
  <2> HIDE DEF item, next
  <2>8. CASE do = "check" /\ ~Alive(item)
    <3>1. Crash("freed") /\ UNCHANGED refs
      BY <2>4, <2>8 DEF CheckItem
    <3> QED BY <1>2, <3>1, CrashOutcome DEF Crashes, HeapType
  <2>5. CASE do = "check" /\ Alive(item) /\ ~Valid(item)
    <3>1. /\ refs' = [refs EXCEPT ![item] = @ + 1] /\ refs[item] \in Nat
          /\ Become(<<next, Call("release", item), Removal(p, item)>>)
      BY <2>1, <2>4, <2>5, ListType DEF CheckItem, MIDIPortRetain
    <3>2. <<next, Call("release", item), Removal(p, item)>> \in Seq(Frames)
      BY <2>2, <2>3
    <3>3. refs' \in [Ports -> Nat]
      BY <2>1, <3>1 DEF HeapType
    <3>4. calls' \in Seq(Frames) /\ Len(calls') <= Depth /\ crash' \in Crashes
      BY <1>1, <3>1, <3>2, BecomeOutcome
    <3> QED BY <1>2, <3>3, <3>4 DEF HeapType
  <2>6. CASE do = "check" /\ Alive(item) /\ Valid(item)
    <3>1. Become(<<next>>) /\ UNCHANGED refs /\ <<next>> \in Seq(Frames)
      BY <2>2, <2>4, <2>6 DEF CheckItem
    <3> QED BY <1>1, <1>2, <3>1, BecomeOutcome DEF HeapType
  <2>7. CASE do # "check"
    <3>1. Become(<<next, Removal(p, item)>>) /\ UNCHANGED refs /\ <<next, Removal(p, item)>> \in Seq(Frames)
      BY <2>2, <2>3, <2>4, <2>7 DEF DisconnectItem
    <3> QED BY <1>1, <1>2, <3>1, BecomeOutcome DEF HeapType
  <2> QED BY <2>5, <2>6, <2>7, <2>8
<1> QED BY <1>3, <1>4, <1>5

\* The first entry of the item that is looked for.
Matches(p, item) == {i \in DOMAIN Entries(p) : list[p][i].port = item}

\* The entry that is found.
LEMMA MatchFound ==
    ASSUME HeapType, NEW p \in Ports, NEW item, Matches(p, item) # {}
    PROVE  /\ Min(Matches(p, item)) \in DOMAIN list[p]
           /\ list[p][Min(Matches(p, item))].port = item
           /\ list[p][Min(Matches(p, item))].id \in Ids(p)
<1> DEFINE M == Matches(p, item)
<1>1. Alive(p) /\ Entries(p) = list[p]
  BY DEF Matches, Entries
<1>2. M \subseteq Nat /\ M # {}
  BY <1>1, ListType DEF Matches
<1>3. Min(M) \in M
  <2> HIDE DEF M
  <2>1. \E i \in M : \A j \in M : i <= j
    BY <1>2, Least
  <2> QED BY <2>1 DEF Min
<1>4. Min(M) \in DOMAIN list[p] /\ list[p][Min(M)].port = item
  BY <1>1, <1>3 DEF Matches
<1> QED BY <1>1, <1>4, IdsType

\* MIDIListRemove up to the entry,
LEMMA RemoveType == ASSUME HeapType, MIDIListRemove PROVE HeapType'
<1> DEFINE f == Last(calls)
           M == Matches(f.port, f.item)
           id == list[f.port][Min(M)].id
<1>1. Working /\ f.port \in Ports /\ f.item \in Ports
  BY TopCall DEF MIDIListRemove, Top
<1>2. UNCHANGED <<refs, mode, list>> /\ Become(IF M = {} THEN <<>> ELSE Found(f, id))
  BY DEF MIDIListRemove, Matches
<1>3. M # {} => Found(f, id) \in Seq(Frames)
  <2> SUFFICES ASSUME M # {} PROVE Found(f, id) \in Seq(Frames)
    OBVIOUS
  <2>1. id \in Ids(f.port)
    BY <1>1, MatchFound
  <2> HIDE DEF id, M
  <2>2. id \in Nat /\ PrevId(f.port, id) \in Nat
    BY <1>1, <2>1, IdsType, AtEntry
  <2>3. Frame("unlink", f.port, f.item, id, PrevId(f.port, id)) \in Frames
    <3>1. "unlink" \in Steps
      BY DEF Steps
    <3> QED BY <1>1, <2>2, <3>1, FrameType
  <2>4. Call("release", f.item) \in Frames
    BY <1>1, FrameType DEF Call, Steps
  <2> QED BY <2>3, <2>4 DEF Found
<1> HIDE DEF M, id
<1>4. (IF M = {} THEN <<>> ELSE Found(f, id)) \in Seq(Frames)
  BY <1>3
<1> QED BY <1>1, <1>2, <1>4, BecomeOutcome DEF HeapType

\* and from there on,
LEMMA UnlinkType == ASSUME HeapType, Unlink PROVE HeapType'
<1> DEFINE f == Last(calls)
           i == At(f.port, f.entry)
<1>1. Working /\ f.port \in Ports /\ f.item \in Ports /\ f.entry \in Nat
  BY TopCall DEF Unlink, Top
<1>2. UNCHANGED <<refs, mode>>
  BY DEF Unlink
<1>3. CASE ~(f.entry \in Ids(f.port) /\ f.prev \in Ids(f.port) \cup {0})
  BY <1>2, <1>3, CrashOutcome DEF Unlink, Crashes, HeapType
<1>4. CASE f.entry \in Ids(f.port) /\ f.prev \in Ids(f.port) \cup {0}
  <2>1. list' = [list EXCEPT ![f.port] = RemoveAt(@, i)] /\ Become(<<Removal(f.port, f.item)>>)
    BY <1>4 DEF Unlink
  <2>2. <<Removal(f.port, f.item)>> \in Seq(Frames)
    <3>1. Removal(f.port, f.item) \in Frames
      BY <1>1, FrameType DEF Removal, Steps
    <3> QED BY <3>1
  <2>3. i \in DOMAIN list[f.port]
    BY <1>1, <1>4, AtEntry
  <2>4. RemoveAt(list[f.port], i) \in Seq(Entry)
    BY <1>1, <2>3, ListType, Removed
  <2> HIDE DEF i
  <2>5. list' \in [Ports -> Seq(Entry)]
    BY <1>1, <2>1, <2>4 DEF HeapType
  <2>6. calls' \in Seq(Frames) /\ Len(calls') <= Depth /\ crash' \in Crashes
    BY <1>1, <2>1, <2>2, BecomeOutcome
  <2> QED BY <1>2, <2>5, <2>6 DEF HeapType
<1> QED BY <1>3, <1>4

\* Every step of the heap keeps its types.
LEMMA CascadeType == ASSUME HeapType, Cascade PROVE HeapType'
BY ReleaseType, DropType, DestroyType, ApplyType, RemoveType, UnlinkType DEF Cascade

\* A message under way remembers finitely many entries, so there is always an
\* address for a new one.
Sound == {m \in Messages : IsFiniteSet(m.due)}
Typed == TypeOK /\ stack \in Seq(Sound)

\* What can be read is finite.
LEMMA IdsFinite ==
    ASSUME HeapType
    PROVE  IsFiniteSet(AllIds) /\ \A p \in Ports : IsFiniteSet(Ids(p))
<1>1. ASSUME NEW p \in Ports PROVE IsFiniteSet(Ids(p))
  <2> DEFINE I == 1 .. Len(list[p])
             f == [i \in I |-> list[p][i].id]
             T == {list[p][i].id : i \in I}
  <2>1. IsFiniteSet(I)
    BY ListType, FS_Interval
  <2>2. f \in Surjection(I, T)
    BY DEF Surjection
  <2>3. IsFiniteSet(T)
    <3> HIDE DEF I, T, f
    <3> QED BY <2>1, <2>2, FS_Surjection
  <2>4. Ids(p) \subseteq T
    BY IdsType, ListType
  <2> QED BY <2>3, <2>4, FS_Subset
<1>2. IsFiniteSet({Ids(p) : p \in Ports})
  <2> DEFINE f == [p \in Ports |-> Ids(p)]
             T == {Ids(p) : p \in Ports}
  <2>1. f \in Surjection(Ports, T)
    BY DEF Surjection
  <2> HIDE DEF f, T
  <2>2. IsFiniteSet(T)
    BY <2>1, HeapAssumption, FS_Surjection
  <2> QED BY <2>2 DEF T
<1>3. IsFiniteSet(AllIds)
  <2> DEFINE T == {Ids(p) : p \in Ports}
  <2>1. \A x \in T : IsFiniteSet(x)
    BY <1>1
  <2>2. AllIds = UNION T
    BY DEF AllIds
  <2>3. IsFiniteSet(T)
    BY <1>2
  <2> HIDE DEF T
  <2> QED BY <2>1, <2>2, <2>3, FS_UNION
<1> QED BY <1>1, <1>3

\* The messages under way remember finitely many entries.
LEMMA RememberedFinite ==
    ASSUME stack \in Seq(Sound)
    PROVE  IsFiniteSet(Remembered)
<1> DEFINE I == 1 .. Len(stack)
           f == [i \in I |-> stack[i].due \cup {stack[i].next}]
           T == {m.due \cup {m.next} : m \in ToSet(stack)}
<1>1. Len(stack) \in Nat /\ DOMAIN stack = I /\ \A i \in I : stack[i] \in Sound
  OBVIOUS
<1>2. IsFiniteSet(I)
  BY <1>1, FS_Interval
<1>3. f \in Surjection(I, T)
  BY <1>1 DEF Surjection, ToSet
<1>4. \A x \in T : IsFiniteSet(x)
  <2> SUFFICES ASSUME NEW i \in I PROVE IsFiniteSet(stack[i].due \cup {stack[i].next})
    BY <1>1 DEF ToSet
  <2>1. IsFiniteSet(stack[i].due)
    BY <1>1 DEF Sound
  <2> QED BY <2>1, FS_AddElement
<1>5. Remembered = UNION T
  BY DEF Remembered
<1> HIDE DEF I, f, T
<1>6. IsFiniteSet(T)
  BY <1>2, <1>3, FS_Surjection
<1> QED BY <1>4, <1>5, <1>6, FS_UNION

\* There is an address that nobody remembers.
LEMMA NewIdFresh ==
    ASSUME Typed
    PROVE  NewId \in Nat \ {0} /\ NewId \notin AllIds /\ NewId \notin Remembered
<1> DEFINE X == AllIds \cup Remembered
           n == Cardinality(X) + 1
<1>1. IsFiniteSet(X)
  BY IdsFinite, RememberedFinite, FS_Union DEF Typed, TypeOK
<1>2. n \in Nat \ {0} /\ Cardinality(X) = n - 1
  <2> HIDE DEF X
  <2>1. Cardinality(X) \in Nat
    BY <1>1, FS_CardinalityType
  <2> QED BY <2>1
<1>3. NewId = CHOOSE i \in 1 .. n : i \notin X
  BY DEF NewId
<1>4. \E i \in 1 .. n : i \notin X
  <2> HIDE DEF X, n
  <2> SUFFICES ASSUME 1 .. n \subseteq X PROVE FALSE
    OBVIOUS
  <2>1. Cardinality(1 .. n) <= Cardinality(X)
    BY <1>1, FS_Subset
  <2>2. Cardinality(1 .. n) = n
    <3>1. Cardinality(1 .. n) = IF 1 > n THEN 0 ELSE n - 1 + 1
      BY <1>2, FS_Interval
    <3> QED BY <1>2, <3>1
  <2> QED BY <1>2, <2>1, <2>2
<1> HIDE DEF n
<1>5. NewId \in 1 .. n /\ NewId \notin X
  BY <1>3, <1>4
<1> QED BY <1>2, <1>5

\* The messages that the steps make.
LEMMA MessagesSound ==
    ASSUME HeapType, NEW p \in Ports, NEW src \in Ports \cup {NULL}
    PROVE  Sending(p, src) \in Sound /\ Receiving(p, src) \in Sound /\ Echoing(p, src) \in Sound
<1>1. FirstId(p) \in Nat /\ Ids(p) \in SUBSET Nat /\ IsFiniteSet(Ids(p)) /\ IsFiniteSet({}) /\ <<>> \in Seq(Nat)
  BY FirstType, IdsType, IdsFinite, FS_EmptySet
<1>2. \A fn \in {"send", "receive", "echo"}, next \in Nat, due \in SUBSET Nat :
         IsFiniteSet(due) => Message(fn, p, src, next, due, <<>>) \in Sound
  <2> SUFFICES ASSUME NEW fn \in {"send", "receive", "echo"}, NEW next \in Nat, NEW due \in SUBSET Nat,
                      IsFiniteSet(due)
               PROVE  Message(fn, p, src, next, due, <<>>) \in Sound
    OBVIOUS
  <2> DEFINE got == <<>>
  <2>1. got \in Seq(Nat)
    BY <1>1
  <2> HIDE DEF got
  <2>2. Message(fn, p, src, next, due, got) \in Messages /\ Message(fn, p, src, next, due, got).due = due
    BY <2>1 DEF Message, Messages
  <2> QED BY <2>2 DEF Sound, got
<1> QED BY <1>1, <1>2 DEF Sending, Receiving, Echoing

\* The message on top.
LEMMA TopMessage ==
    ASSUME stack \in Seq(Sound), stack # <<>>
    PROVE  /\ Front(stack) \in Seq(Sound) /\ Last(stack) \in Sound /\ IsFiniteSet(Last(stack).due)
           /\ Last(stack).port \in Ports /\ Last(stack).src \in Ports \cup {NULL}
           /\ Last(stack).next \in Nat /\ Last(stack).due \in SUBSET Nat /\ Last(stack).got \in Seq(Nat)
<1>1. Front(stack) \in Seq(Sound) /\ Last(stack) \in Sound
  BY FrontLast
<1>2. Last(stack) \in Messages /\ IsFiniteSet(Last(stack).due)
  BY <1>1 DEF Sound
<1> QED BY <1>1, <1>2, MessageFields

\* A step that leaves the heap alone but for crash.
LEMMA HeapStays ==
    ASSUME HeapType, UNCHANGED <<refs, mode, list, calls>>, crash' \in Crashes
    PROVE  HeapType'
BY DEF HeapType

\* What is left to show when the heap is typed.
LEMMA TypedStep ==
    ASSUME HeapType', held' \in [Ports -> Nat], driverRefs' \in [Drivers -> Nat],
           stack' \in Seq(Sound), bad' \in BOOLEAN, ops' \in 0 .. MaxOps
    PROVE  Typed'
<1>1. stack' \in Seq(Messages)
  BY DEF Sound
<1> QED BY <1>1 DEF Typed, TypeOK

\* The types of the variables, one by one.
LEMMA TypedFacts ==
    ASSUME Typed
    PROVE  /\ HeapType /\ held \in [Ports -> Nat] /\ driverRefs \in [Drivers -> Nat]
           /\ stack \in Seq(Sound) /\ bad \in BOOLEAN /\ ops \in 0 .. MaxOps /\ crash \in Crashes
BY DEF Typed, TypeOK, HeapType

\* An operation is counted.
LEMMA OpsType == ASSUME Typed, NEW op, Asks(op) PROVE ops' \in 0 .. MaxOps /\ Idle
BY OpsAssumption DEF Typed, TypeOK, Asks

\* An operation that begins the calls s, or finds that they nest too deep.
LEMMA GotoType ==
    ASSUME HeapType, Idle, NEW s \in Seq(Frames), Goto(s), UNCHANGED <<refs, list>>,
           mode' \in [Ports -> SUBSET Modes]
    PROVE  HeapType'
<1>1. calls' \in Seq(Frames) /\ Len(calls') <= Depth /\ crash' \in Crashes
  BY GotoOutcome DEF Idle
<1> QED BY <1>1 DEF HeapType

\* The calls that operations begin.
LEMMA CallsType ==
    ASSUME HeapType, NEW p \in Ports, NEW t \in Ports
    PROVE  /\ <<Removal(p, t)>> \in Seq(Frames) /\ <<Walk("disconnect", p)>> \in Seq(Frames)
           /\ <<Call("release", p)>> \in Seq(Frames)
           /\ <<Call("release", p), Removal(p, t)>> \in Seq(Frames)
           /\ <<Call("release", t), Removal(p, t)>> \in Seq(Frames)
           /\ <<Call("release", p), Walk("disconnect", p)>> \in Seq(Frames)
<1>1. Removal(p, t) \in Frames
  BY FrameType DEF Removal, Steps
<1>2. Walk("disconnect", p) \in Frames
  BY FirstType, FrameType DEF Walk, Steps
<1>3. Call("release", p) \in Frames /\ Call("release", t) \in Frames
  BY FrameType DEF Call, Steps
<1> HIDE DEF Removal, Walk, Call
<1> QED BY <1>1, <1>2, <1>3

\* The receive function is called for p, or nothing happens.
LEMMA ReceiveType ==
    ASSUME Typed, NEW p \in Ports, NEW src \in Ports \cup {NULL}, NEW rest \in Seq(Sound),
           ReceiveFrom(p, src, rest)
    PROVE  stack' \in Seq(Sound) /\ bad' \in BOOLEAN /\ crash' \in Crashes
<1>1. /\ HeapType /\ stack \in Seq(Sound) /\ bad \in BOOLEAN /\ crash \in Crashes
      /\ Receiving(p, src) \in Sound /\ Echoing(p, src) \in Sound
  BY MessagesSound DEF Typed, TypeOK, HeapType
<1>2. CASE ~Has(p, "in")
  BY <1>1, <1>2 DEF ReceiveFrom
<1>3. CASE Has(p, "in") /\ src # NULL /\ ~Alive(src)
  BY <1>1, <1>3 DEF ReceiveFrom, Crashes
<1>4. CASE Has(p, "in") /\ ~(src # NULL /\ ~Alive(src))
  <2>1. /\ stack' = Append(rest, IF p \in Loopback THEN Echoing(p, src) ELSE Receiving(p, src))
        /\ bad' = (bad \/ ~Target(p))
        /\ UNCHANGED crash
    BY <1>4 DEF ReceiveFrom
  <2>2. bad' \in BOOLEAN
    BY <2>1
  <2>3. stack' \in Seq(Sound)
    BY <1>1, <2>1
  <2> QED BY <1>1, <2>1, <2>2, <2>3
<1> QED BY <1>2, <1>3, <1>4

\* The operations of the application keep the types.
LEMMA ConnectType == ASSUME Typed, NEW p \in Ports, NEW t \in Ports, MIDIPortConnect(p, t) PROVE Typed'
<1>1. /\ ops' \in 0 .. MaxOps /\ MIDIListAdd(p, t, NewId)
      /\ UNCHANGED <<mode, calls, held, driverRefs, stack, bad>>
  BY OpsType DEF MIDIPortConnect
<1>2. HeapType'
  <2>1. CASE Alive(t)
    <3>1. /\ refs' = [refs EXCEPT ![t] = @ + 1] /\ UNCHANGED crash
          /\ list' = [list EXCEPT ![p] = <<[id |-> NewId, port |-> t]>> \o @]
      BY <1>1, <2>1 DEF MIDIListAdd, MIDIPortRetain
    <3>2. refs' \in [Ports -> Nat]
      BY <3>1, TypedFacts DEF HeapType
    <3>3. [id |-> NewId, port |-> t] \in Entry
      BY NewIdFresh DEF Entry
    <3>4. <<[id |-> NewId, port |-> t]>> \o list[p] \in Seq(Entry)
      <4> DEFINE e == [id |-> NewId, port |-> t]
      <4>1. e \in Entry /\ list[p] \in Seq(Entry)
        BY <3>3, ListType, TypedFacts
      <4> HIDE DEF e
      <4>2. <<e>> \o list[p] \in Seq(Entry)
        BY <4>1, Prepended
      <4> QED BY <4>2 DEF e
    <3>5. list' \in [Ports -> Seq(Entry)]
      BY <3>1, <3>4, TypedFacts DEF HeapType
    <3> QED BY <1>1, <3>1, <3>2, <3>5, TypedFacts DEF HeapType
  <2>2. CASE ~Alive(t)
    <3>1. crash' = "freed" /\ UNCHANGED <<refs, list>>
      BY <1>1, <2>2 DEF MIDIListAdd
    <3> QED BY <1>1, <3>1, TypedFacts DEF HeapType, Crashes
  <2> QED BY <2>1, <2>2
<1> QED BY <1>1, <1>2, TypedFacts, TypedStep

\* So do the disconnections,
LEMMA DisconnectType ==
    ASSUME Typed, NEW p \in Ports, NEW t \in Ports, MIDIPortDisconnect(p, t) \/ MIDIPortDisconnectAll(p)
    PROVE  Typed'
<1>1. /\ ops' \in 0 .. MaxOps /\ Idle
      /\ Goto(<<Removal(p, t)>>) \/ Goto(<<Walk("disconnect", p)>>)
      /\ UNCHANGED <<refs, mode, list, held, driverRefs, stack, bad>>
  BY OpsType DEF MIDIPortDisconnect, MIDIPortDisconnectAll
<1>2. mode' \in [Ports -> SUBSET Modes]
  BY <1>1, TypedFacts DEF HeapType
<1>3. HeapType'
  <2>1. <<Removal(p, t)>> \in Seq(Frames) /\ <<Walk("disconnect", p)>> \in Seq(Frames) /\ HeapType
    BY TypedFacts, CallsType
  <2>2. CASE Goto(<<Removal(p, t)>>)
    BY <1>1, <1>2, <2>1, <2>2, GotoType
  <2>3. CASE Goto(<<Walk("disconnect", p)>>)
    BY <1>1, <1>2, <2>1, <2>3, GotoType
  <2> QED BY <1>1, <2>2, <2>3
<1> QED BY <1>1, <1>3, TypedFacts, TypedStep

\* MIDIPortInvalidate,
LEMMA InvalidateType == ASSUME Typed, NEW p \in Ports, MIDIPortInvalidate(p) PROVE Typed'
<1>1. /\ ops' \in 0 .. MaxOps /\ Idle /\ Goto(<<Walk("disconnect", p)>>)
      /\ mode' = [mode EXCEPT ![p] = {"invalid"}]
      /\ UNCHANGED <<refs, list, held, driverRefs, stack, bad>>
  BY OpsType DEF MIDIPortInvalidate, Disconnection
<1>2. mode' \in [Ports -> SUBSET Modes]
  BY <1>1, TypedFacts DEF HeapType, Modes
<1>3. HeapType'
  BY <1>1, <1>2, TypedFacts, CallsType, GotoType
<1> QED BY <1>1, <1>3, TypedFacts, TypedStep

\* the release of a reference,
LEMMA ReleasingType == ASSUME Typed, NEW p \in Ports, Release(p) PROVE Typed'
<1>1. /\ ops' \in 0 .. MaxOps /\ Idle /\ Goto(<<Call("release", p)>>)
      /\ held[p] > 0 /\ held' = [held EXCEPT ![p] = @ - 1]
      /\ UNCHANGED <<refs, mode, list, driverRefs, stack, bad>>
  <2>1. held[p] \in Nat /\ DriversOwn(p) \in Nat
    BY TypedFacts DEF DriversOwn
  <2> QED BY <2>1, OpsType DEF Release
<1>2. mode' \in [Ports -> SUBSET Modes] /\ held' \in [Ports -> Nat]
  BY <1>1, TypedFacts DEF HeapType
<1>3. HeapType'
  BY <1>1, <1>2, TypedFacts, CallsType, GotoType
<1> QED BY <1>1, <1>2, <1>3, TypedFacts, TypedStep

\* the retainment of a port or a driver,
LEMMA RetainType == ASSUME Typed, NEW p \in Ports, Retain(p) \/ MIDIDriverRetain(p) PROVE Typed'
<1>1. CASE Retain(p)
  <2>1. /\ ops' \in 0 .. MaxOps /\ refs' = [refs EXCEPT ![p] = @ + 1] /\ held' = [held EXCEPT ![p] = @ + 1]
        /\ UNCHANGED <<mode, list, calls, crash, driverRefs, stack, bad>>
    BY <1>1, OpsType DEF Retain, MIDIPortRetain
  <2>2. refs' \in [Ports -> Nat] /\ held' \in [Ports -> Nat]
    BY <2>1, TypedFacts DEF HeapType
  <2>3. HeapType'
    BY <2>1, <2>2, TypedFacts DEF HeapType
  <2> QED BY <2>1, <2>2, <2>3, TypedFacts, TypedStep
<1>2. CASE MIDIDriverRetain(p)
  <2>1. /\ ops' \in 0 .. MaxOps /\ p \in Drivers /\ driverRefs' = [driverRefs EXCEPT ![p] = @ + 1]
        /\ UNCHANGED <<refs, mode, list, calls, crash, held, stack, bad>>
    BY <1>2, OpsType DEF MIDIDriverRetain, heap
  <2>2. HeapType' /\ driverRefs' \in [Drivers -> Nat]
    BY <2>1, TypedFacts, HeapStays
  <2> QED BY <2>1, <2>2, TypedFacts, TypedStep
<1> QED BY <1>1, <1>2

\* A driver holds its port; the port of a driver that is gone is invalid.
Owned == \A p \in Drivers : /\ driverRefs[p] > 0 => held[p] > 0
                            /\ driverRefs[p] = 0 => mode[p] = {"invalid"}

\* MIDIDriverRelease,
LEMMA DriverReleaseType == ASSUME Typed, Owned, NEW p \in Ports, MIDIDriverRelease(p) PROVE Typed'
<1>1. /\ ops' \in 0 .. MaxOps /\ Idle /\ p \in Drivers /\ driverRefs[p] > 0
      /\ driverRefs' = [driverRefs EXCEPT ![p] = @ - 1]
      /\ UNCHANGED <<refs, list, stack, bad>>
  BY OpsType DEF MIDIDriverRelease
<1>2. driverRefs' \in [Drivers -> Nat]
  BY <1>1, TypedFacts
<1>3. CASE driverRefs[p] = 1
  <2>1. /\ mode' = [mode EXCEPT ![p] = {"invalid"}] /\ held' = [held EXCEPT ![p] = @ - 1]
        /\ Goto(<<Call("release", p)>> \o <<Walk("disconnect", p)>>)
    BY <1>3 DEF MIDIDriverRelease, MIDIDriverDestroy, Disconnection
  <2>2. mode' \in [Ports -> SUBSET Modes] /\ held' \in [Ports -> Nat]
    <3>1. held[p] \in Nat /\ held[p] > 0
      BY <1>1, TypedFacts DEF Owned
    <3> QED BY <2>1, <3>1, TypedFacts DEF HeapType, Modes
  <2>3. <<Call("release", p)>> \o <<Walk("disconnect", p)>> = <<Call("release", p), Walk("disconnect", p)>>
    <3> DEFINE a == Call("release", p)
               b == Walk("disconnect", p)
    <3>1. a \in Frames /\ b \in Frames
      BY FirstType, FrameType, TypedFacts DEF Walk, Call, Steps
    <3> HIDE DEF a, b
    <3>2. <<a>> \o <<b>> = <<a, b>>
      BY <3>1, Pair
    <3> QED BY <3>2 DEF a, b
  <2>4. HeapType'
    BY <1>1, <2>1, <2>2, <2>3, TypedFacts, CallsType, GotoType
  <2> QED BY <1>1, <1>2, <2>2, <2>4, TypedFacts, TypedStep
<1>4. CASE driverRefs[p] # 1
  <2>1. UNCHANGED <<mode, calls, crash, held>>
    BY <1>4 DEF MIDIDriverRelease
  <2>2. HeapType'
    BY <1>1, <2>1, TypedFacts, HeapStays
  <2> QED BY <1>1, <1>2, <2>1, <2>2, TypedFacts, TypedStep
<1> QED BY <1>3, <1>4

\* the sends and receipts that the application begins,
LEMMA SendType ==
    ASSUME Typed, NEW p \in Ports, NEW t \in Ports,
           MIDIPortReceive(p) \/ MIDIPortSendTo(p, t) \/ MIDIPortSend(p)
    PROVE  Typed'
<1>1. CASE MIDIPortSend(p)
  <2>1. /\ ops' \in 0 .. MaxOps /\ stack' = Append(stack, Sending(p, p))
        /\ UNCHANGED <<refs, mode, list, calls, crash, held, driverRefs, bad>>
    BY <1>1, OpsType DEF MIDIPortSend, Push, heap
  <2>2. HeapType' /\ stack' \in Seq(Sound)
    BY <2>1, TypedFacts, HeapStays, MessagesSound
  <2> QED BY <2>1, <2>2, TypedFacts, TypedStep
<1>2. CASE MIDIPortReceive(p) \/ MIDIPortSendTo(p, t)
  <2>1. /\ ops' \in 0 .. MaxOps /\ UNCHANGED <<refs, mode, list, calls, held, driverRefs>>
        /\ ReceiveFrom(p, NULL, stack) \/ ReceiveFrom(t, p, stack)
    BY <1>2, OpsType DEF MIDIPortReceive, MIDIPortSendTo
  <2>2. stack' \in Seq(Sound) /\ bad' \in BOOLEAN /\ crash' \in Crashes
    BY <2>1, TypedFacts, ReceiveType
  <2>3. HeapType'
    BY <2>1, <2>2, TypedFacts, HeapStays
  <2> QED BY <2>1, <2>2, <2>3, TypedFacts, TypedStep
<1> QED BY <1>1, <1>2

\* The steps of a message keep the types.
LEMMA SendNextType == ASSUME Typed, SendNext PROVE Typed'
<1> DEFINE m == Last(stack)
           item == Item(m.port, m.next)
           rest == Append(Front(stack), Advance(m))
<1>1. /\ UNCHANGED <<mode, list, held, driverRefs, ops>>
      /\ Idle /\ stack \in Seq(Sound) /\ stack # <<>> /\ HeapType
  BY TypedFacts DEF SendNext, OnTop
<1>2. /\ Front(stack) \in Seq(Sound) /\ m.port \in Ports /\ m.src \in Ports \cup {NULL}
      /\ m.next \in Nat /\ m.due \in SUBSET Nat /\ m.got \in Seq(Nat) /\ IsFiniteSet(m.due)
  BY <1>1, TopMessage
<1>3. CASE m.next \notin Ids(m.port)
  <2>1. crash' = "freed" /\ UNCHANGED <<refs, calls, stack, bad>>
    BY <1>3 DEF SendNext
  <2>2. HeapType'
    BY <1>1, <2>1, HeapStays DEF Crashes
  <2> QED BY <1>1, <2>1, <2>2, TypedFacts, TypedStep
<1>4. CASE m.next \in Ids(m.port)
  <2>1. item \in Ports /\ NextId(m.port, m.next) \in Nat
    BY <1>1, <1>2, <1>4, AtEntry
  <2>2. rest \in Seq(Sound)
    <3> DEFINE got == Append(m.got, m.next)
               n == NextId(m.port, m.next)
    <3>1. got \in Seq(Nat) /\ n \in Nat
      BY <1>2, <2>1
    <3>2. Advance(m) = Message("send", m.port, m.src, n, m.due, got)
      BY DEF Advance
    <3> HIDE DEF got, n
    <3>3. Advance(m) \in Messages /\ Advance(m).due = m.due
      BY <1>2, <3>1, <3>2 DEF Message, Messages
    <3>4. Advance(m) \in Sound
      BY <1>2, <3>3 DEF Sound
    <3> QED BY <1>2, <3>4
  <2>3. CASE ~Valid(item)
    <3>1. DropInvalid(m.src, item) /\ stack' = rest /\ UNCHANGED bad
      BY <1>4, <2>3 DEF SendNext
    <3> HIDE DEF item, rest
    <3>2. HeapType'
      <4>1. CASE m.src = NULL \/ ~Alive(m.src)
        <5>1. Crash("null") \/ Crash("freed")
          BY <3>1, <4>1 DEF DropInvalid
        <5>2. UNCHANGED refs
          BY <3>1, <4>1 DEF DropInvalid
        <5> QED BY <1>1, <5>1, <5>2, HeapStays DEF Crash, Crashes
      <4>2. CASE m.src # NULL /\ Alive(m.src)
        <5>1. refs' = [refs EXCEPT ![item] = @ + 1] /\ Goto(<<Call("release", item), Removal(m.src, item)>>)
          BY <3>1, <4>2 DEF DropInvalid, MIDIPortRetain
        <5>2. <<Call("release", item), Removal(m.src, item)>> \in Seq(Frames)
          BY <1>1, <1>2, <2>1, <4>2, CallsType
        <5>3. refs' \in [Ports -> Nat]
          BY <1>1, <2>1, <5>1 DEF HeapType
        <5>4. calls' \in Seq(Frames) /\ Len(calls') <= Depth /\ crash' \in Crashes
          BY <1>1, <5>1, <5>2, GotoOutcome DEF Idle
        <5> QED BY <1>1, <5>3, <5>4 DEF HeapType
      <4> QED BY <4>1, <4>2
    <3> QED BY <1>1, <2>2, <3>1, <3>2, TypedFacts, TypedStep
  <2>4. CASE Valid(item) /\ Own(item, m)
    <3>1. stack' = rest /\ UNCHANGED <<refs, calls, crash, bad>>
      BY <1>4, <2>4 DEF SendNext
    <3>2. HeapType'
      BY <1>1, <3>1, HeapStays, TypedFacts
    <3> QED BY <1>1, <2>2, <3>1, <3>2, TypedFacts, TypedStep
  <2>5. CASE Valid(item) /\ ~Own(item, m)
    <3>1. ReceiveFrom(item, m.src, rest) /\ UNCHANGED <<refs, calls>>
      BY <1>4, <2>5 DEF SendNext
    <3> HIDE DEF item, rest
    <3>2. stack' \in Seq(Sound) /\ bad' \in BOOLEAN /\ crash' \in Crashes
      BY <1>2, <2>1, <2>2, <3>1, ReceiveType
    <3>3. HeapType'
      BY <1>1, <3>1, <3>2, HeapStays
    <3> QED BY <1>1, <3>1, <3>2, <3>3, TypedFacts, TypedStep
  <2> QED BY <2>3, <2>4, <2>5
<1> QED BY <1>3, <1>4

\* the delivery of a message,
LEMMA DeliveryType == ASSUME Typed, Delivery PROVE Typed'
<1>1. CASE SendDone
  <2>1. stack' = Front(stack) /\ stack # <<>> /\ UNCHANGED <<refs, mode, list, calls, crash, held, driverRefs, bad, ops>>
    BY <1>1 DEF SendDone, OnTop, Pop, heap
  <2>2. stack' \in Seq(Sound)
    BY <2>1, TypedFacts, TopMessage
  <2> QED BY <2>1, <2>2, TypedFacts, HeapStays, TypedStep
<1>2. CASE Echo
  <2> DEFINE p == Last(stack).port
             m == Receiving(p, Last(stack).src)
             n == Sending(p, p)
             s == Front(stack)
  <2>1. stack # <<>> /\ UNCHANGED <<refs, mode, list, calls, crash, held, driverRefs, bad, ops>>
    BY <1>2 DEF Echo, OnTop, heap
  <2>2. s \in Seq(Sound) /\ p \in Ports /\ Last(stack).src \in Ports \cup {NULL}
    BY <2>1, TypedFacts, TopMessage
  <2>3. m \in Sound /\ n \in Sound
    BY <2>2, TypedFacts, MessagesSound
  <2>4. stack' = IF Has(p, "out") THEN Append(Append(s, m), n) ELSE Append(s, m)
    BY <1>2 DEF Echo
  <2> HIDE DEF s, m, n
  <2>5. stack' \in Seq(Sound)
    BY <2>2, <2>3, <2>4
  <2> QED BY <2>1, <2>5, TypedFacts, HeapStays, TypedStep
<1>3. CASE Return
  <2> DEFINE p == Last(stack).port
             m == Sending(p, Last(stack).src)
             s == Front(stack)
  <2>1. stack # <<>> /\ UNCHANGED <<refs, mode, list, calls, held, driverRefs, bad, ops>>
    BY <1>3 DEF Return, Passthrough, OnTop
  <2>2. s \in Seq(Sound) /\ p \in Ports /\ Last(stack).src \in Ports \cup {NULL}
    BY <2>1, TypedFacts, TopMessage
  <2>3. m \in Sound
    BY <2>2, TypedFacts, MessagesSound
  <2>4. crash' \in Crashes
    BY <1>3, TypedFacts DEF Return, Passthrough, Crashes
  <2>5. stack' = stack \/ stack' = Append(s, m) \/ stack' = s
    BY <1>3 DEF Return, Passthrough, Replace, Pop
  <2> HIDE DEF s, m
  <2>6. stack' \in Seq(Sound)
    <3>1. stack \in Seq(Sound) /\ Append(s, m) \in Seq(Sound)
      BY <2>2, <2>3, TypedFacts
    <3> QED BY <2>2, <2>5, <3>1
  <2> QED BY <2>1, <2>4, <2>6, TypedFacts, HeapStays, TypedStep
<1> QED BY <1>1, <1>2, <1>3, SendNextType DEF Delivery

\* Every step keeps the types.
LEMMA TypedHolds == ASSUME Typed, Owned, [Next]_vars PROVE Typed'
<1>1. CASE Application
  BY <1>1, ConnectType, DisconnectType, InvalidateType, ReleasingType, RetainType, DriverReleaseType, SendType
     DEF Application
<1>2. CASE Beneath
  <2>1. HeapType' /\ UNCHANGED <<held, driverRefs, stack, bad, ops>>
    BY <1>2, TypedFacts, CascadeType DEF Beneath
  <2> QED BY <2>1, TypedFacts, TypedStep
<1>3. CASE UNCHANGED vars
  <2>1. UNCHANGED <<refs, mode, list, calls, crash, held, driverRefs, stack, bad, ops>>
    BY <1>3 DEF vars, heap
  <2> QED BY <2>1, TypedFacts, HeapStays, TypedStep
<1> QED BY <1>1, <1>2, <1>3, DeliveryType DEF Next

\* The first state.
LEMMA InitTyped == Init => Typed
<1> SUFFICES ASSUME Init PROVE Typed
  OBVIOUS
<1>1. HeapType
  <2>1. refs \in [Ports -> Nat] /\ list \in [Ports -> Seq(Entry)] /\ crash \in Crashes
    BY DEF Init, Crashes
  <2>2. mode \in [Ports -> SUBSET Modes]
    <3>1. mode = ModeOf /\ {"in", "out", "thru"} \subseteq Modes
      BY DEF Init, Modes
    <3> QED BY <3>1, ModeAssumption
  <2>3. calls \in Seq(Frames) /\ Len(calls) <= Depth
    BY HeapAssumption DEF Init
  <2> QED BY <2>1, <2>2, <2>3 DEF HeapType
<1>2. held \in [Ports -> Nat] /\ driverRefs \in [Drivers -> Nat] /\ ops \in 0 .. MaxOps
  BY OpsAssumption DEF Init
<1>4. bad \in BOOLEAN
  BY DEF Init
<1>3. stack \in Seq(Messages) /\ stack \in Seq(Sound)
  BY DEF Init
<1> QED BY <1>1, <1>2, <1>3, <1>4 DEF Typed, TypeOK

-----------------------------------------------------------------------------
(* Drivers. *)

\* A port that receives has a driver to call.
LEMMA ReceiveFromSafe ==
    ASSUME Typed, Owned, ~bad, NEW p \in Ports, NEW src, NEW rest, ReceiveFrom(p, src, rest)
    PROVE  ~bad'
<1>1. Has(p, "in") => Target(p)
  <2> SUFFICES ASSUME Has(p, "in"), p \in Drivers PROVE driverRefs[p] > 0
    BY DEF Target
  <2>1. driverRefs[p] # 0
    BY DEF Has, Owned
  <2>2. driverRefs[p] \in Nat
    BY TypedFacts
  <2> QED BY <2>1, <2>2
<1> QED BY <1>1, Zenon DEF ReceiveFrom

\* No step ends the driver before its port is invalid.
LEMMA OwnedHolds == ASSUME Typed, Owned, ~bad, [Next]_vars PROVE Owned' /\ ~bad'
<1>1. CASE UNCHANGED <<mode, held, driverRefs>> /\ ~bad'
  BY <1>1 DEF Owned
<1>2. CASE Beneath
  <2>1. ASSUME Cascade PROVE UNCHANGED mode
    BY <2>1 DEF Cascade, MIDIPortRelease, Drop, Destroy, Apply, MIDIListRemove, Unlink
  <2> QED BY <1>1, <1>2, <2>1 DEF Beneath
<1>3. CASE Delivery
  <2>1. CASE SendNext
    <3> DEFINE m == Last(stack)
               item == Item(m.port, m.next)
               rest == Append(Front(stack), Advance(m))
    <3>1. UNCHANGED <<mode, held, driverRefs>>
      BY <2>1 DEF SendNext
    <3>2. UNCHANGED bad \/ (m.next \in Ids(m.port) /\ ReceiveFrom(item, m.src, rest))
      BY <2>1, Zenon DEF SendNext
    <3>3. m.next \in Ids(m.port) => item \in Ports
      <4>1. m.port \in Ports
        BY <2>1, TypedFacts, TopMessage DEF SendNext, OnTop
      <4> QED BY <4>1, TypedFacts, AtEntry
    <3> HIDE DEF item, rest
    <3> QED BY <1>1, <3>1, <3>2, <3>3, ReceiveFromSafe
  <2> QED BY <1>1, <1>3, <2>1 DEF Delivery, SendDone, Echo, Return, heap
<1>4. CASE Application
  <2>1. ASSUME NEW p \in Ports, NEW t \in Ports, MIDIPortSendTo(p, t) PROVE Owned' /\ ~bad'
    BY <1>1, <2>1, ReceiveFromSafe DEF MIDIPortSendTo
  <2>2. ASSUME NEW p \in Ports, MIDIPortReceive(p) PROVE Owned' /\ ~bad'
    BY <1>1, <2>2, ReceiveFromSafe, TypedFacts DEF MIDIPortReceive
  <2>3. ASSUME NEW p \in Ports, MIDIPortInvalidate(p) PROVE Owned' /\ ~bad'
    BY <2>3, TypedFacts DEF MIDIPortInvalidate, Owned, HeapType
  <2>4. ASSUME NEW p \in Ports, Release(p) \/ Retain(p) PROVE Owned' /\ ~bad'
    <3>1. UNCHANGED <<mode, driverRefs, bad>>
      BY <2>4 DEF Release, Retain
    <3>2. ASSUME NEW q \in Drivers, driverRefs[q] > 0 PROVE held'[q] > 0
      <4>1. held[q] > 0 /\ held[q] \in Nat /\ q \in Ports /\ held \in [Ports -> Nat]
        BY <3>2, TypedFacts, PortsAssumption DEF Owned
      <4>2. CASE Release(p)
        <5>1. held[p] > DriversOwn(p) /\ held' = [held EXCEPT ![p] = @ - 1]
          BY <4>2 DEF Release
        <5>2. q = p => DriversOwn(p) = 1
          BY <3>2 DEF DriversOwn
        <5> QED BY <4>1, <5>1, <5>2
      <4>3. CASE Retain(p)
        <5>1. held' = [held EXCEPT ![p] = @ + 1]
          BY <4>3 DEF Retain
        <5> QED BY <4>1, <5>1
      <4> QED BY <2>4, <4>2, <4>3
    <3> QED BY <2>4, <3>1, <3>2 DEF Owned
  <2>5. ASSUME NEW p \in Ports, MIDIDriverRetain(p) PROVE Owned' /\ ~bad'
    BY <2>5, TypedFacts DEF MIDIDriverRetain, Owned, heap
  <2>6. ASSUME NEW p \in Ports, MIDIDriverRelease(p) PROVE Owned' /\ ~bad'
    <3>1. /\ p \in Drivers /\ driverRefs[p] > 0 /\ driverRefs[p] \in Nat /\ UNCHANGED bad
          /\ driverRefs' = [driverRefs EXCEPT ![p] = @ - 1]
      BY <2>6, TypedFacts DEF MIDIDriverRelease
    <3>2. CASE driverRefs[p] = 1
      <4>1. mode' = [mode EXCEPT ![p] = {"invalid"}] /\ held' = [held EXCEPT ![p] = @ - 1]
        BY <2>6, <3>2 DEF MIDIDriverRelease, MIDIDriverDestroy
      <4> QED BY <3>1, <3>2, <4>1, TypedFacts DEF Owned, HeapType
    <3>3. CASE driverRefs[p] # 1
      <4>1. UNCHANGED <<mode, held>>
        BY <2>6, <3>3 DEF MIDIDriverRelease
      <4> QED BY <3>1, <3>3, <4>1, TypedFacts DEF Owned
    <3> QED BY <3>2, <3>3
  <2>7. ASSUME NEW p \in Ports, NEW t \in Ports,
               MIDIPortConnect(p, t) \/ MIDIPortDisconnect(p, t) \/ MIDIPortDisconnectAll(p) \/ MIDIPortSend(p)
        PROVE  Owned' /\ ~bad'
    BY <1>1, <2>7 DEF MIDIPortConnect, MIDIPortDisconnect, MIDIPortDisconnectAll, MIDIPortSend, heap
  <2> QED BY <1>4, <2>1, <2>2, <2>3, <2>4, <2>5, <2>6, <2>7 DEF Application
<1>5. CASE UNCHANGED vars
  BY <1>1, <1>5 DEF vars, heap
<1> QED BY <1>2, <1>3, <1>4, <1>5 DEF Next

Safe == Typed /\ Owned /\ ~bad

\* In the first state,
LEMMA SafeBegins == Init => Safe
<1>1. Init => Owned
  BY PortsAssumption DEF Init, Owned
<1>2. Init => ~bad
  BY DEF Init
<1> QED BY <1>1, <1>2, InitTyped DEF Safe

\* by every step,
LEMMA SafeKept == Safe /\ [Next]_vars => Safe'
BY TypedHolds, OwnedHolds DEF Safe

\* and so in every state: types, owners and targets.
LEMMA SafeHolds == Spec => []Safe
BY SafeBegins, SafeKept, PTL DEF Spec

\* The type invariant of ports, drivers and the messages under way.
THEOREM TypeCorrect == Spec => []TypeOK
<1>1. Safe => TypeOK
  BY DEF Safe, Typed
<1> QED BY <1>1, SafeHolds, PTL

\* No receive function is called for a driver that was destroyed, whatever holds
\* its port and whatever is on the way to it.
THEOREM TargetCorrect == Spec => []TargetAlive
<1>1. Safe => TargetAlive
  BY DEF Safe, TargetAlive
<1> QED BY <1>1, SafeHolds, PTL

-----------------------------------------------------------------------------
(* References are counted. *)

\* What calls add to the weight of the calls below them.
LEMMA WeightSame == ASSUME NEW t \in Seq(Frames), NEW q PROVE Weight(t \o <<>>, q) = Weight(t, q)
BY Extended

\* One call.
LEMMA WeightOne ==
    ASSUME NEW t \in Seq(Frames), NEW a \in Frames, NEW q
    PROVE  Weight(t \o <<a>>, q) = Weight(t, q) + Of(a, q) /\ Of(a, q) \in Int
<1>1. t \o <<a>> = Append(t, a)
  BY Extended
<1>2. Weight(Append(t, a), q) = Weight(t, q) + Of(a, q)
  BY WeightAppend
<1>3. Of(a, q) \in Int
  BY DEF Of
<1> QED BY <1>1, <1>2, <1>3

\* Two calls.
LEMMA WeightTwo ==
    ASSUME NEW t \in Seq(Frames), NEW a \in Frames, NEW b \in Frames, NEW q
    PROVE  /\ Weight(t \o <<a, b>>, q) = Weight(t, q) + Of(a, q) + Of(b, q)
           /\ Of(a, q) \in Int /\ Of(b, q) \in Int
<1> DEFINE s == Append(t, a)
<1>1. t \o <<a, b>> = Append(s, b)
  BY Extended
<1>2. s \in Seq(Frames) /\ Weight(s, q) = Weight(t, q) + Of(a, q)
  BY WeightAppend
<1> HIDE DEF s
<1>3. Weight(Append(s, b), q) = Weight(s, q) + Of(b, q)
  BY <1>2, WeightAppend
<1>4. Of(a, q) \in Int /\ Of(b, q) \in Int
  BY DEF Of
<1> QED BY <1>1, <1>2, <1>3, <1>4

\* Three calls.
LEMMA WeightThree ==
    ASSUME NEW t \in Seq(Frames), NEW a \in Frames, NEW b \in Frames, NEW c \in Frames, NEW q
    PROVE  /\ Weight(t \o <<a, b, c>>, q) = Weight(t, q) + Of(a, q) + Of(b, q) + Of(c, q)
           /\ Of(a, q) \in Int /\ Of(b, q) \in Int /\ Of(c, q) \in Int
<1> DEFINE s == t \o <<a, b>>
<1>1. t \o <<a, b, c>> = Append(s, c) /\ s \in Seq(Frames)
  BY Extended
<1>2. Weight(s, q) = Weight(t, q) + Of(a, q) + Of(b, q) /\ Of(a, q) \in Int /\ Of(b, q) \in Int
  BY WeightTwo
<1> HIDE DEF s
<1>3. Weight(Append(s, c), q) = Weight(s, q) + Of(c, q)
  BY <1>1, WeightAppend
<1>4. Of(c, q) \in Int
  BY DEF Of
<1> QED BY <1>1, <1>2, <1>3, <1>4

\* What a call adds.
LEMMA OfFrame ==
    ASSUME NEW f \in Frames, NEW q
    PROVE  Of(f, q) = IF f.do \in {"release", "drop"} THEN (IF f.port = q THEN 1 ELSE 0)
                      ELSE IF f.do = "unlink" THEN (IF f.item = q THEN 0 - 1 ELSE 0) ELSE 0
BY DEF Of, Holding, Owing

\* References that neither entries nor calls account for.
Surplus(r, l, c, q) == r[q] - Cardinality(Links(l, q)) - Weight(c, q)

Balanced == \A q \in Ports : held[q] = Surplus(refs, list, calls, q)
Unique == \A p \in Ports : Apart(list[p])

\* An entry that is about to be unlinked leads to the item that was released.
Kept(l) == {f \in Frames : f.do = "unlink" =>
                \A e \in ToSet(l[f.port]) : e.id = f.entry => e.port = f.item}
Promised == calls \in Seq(Kept(list))

Counted == Balanced /\ Unique /\ Promised

\* The calls below the top, and the weight without the top.
LEMMA TopWeight ==
    ASSUME HeapType, Working, NEW q
    PROVE  /\ Front(calls) \in Seq(Frames) /\ Last(calls) \in Frames /\ crash = "none"
           /\ Weight(calls, q) \in Int /\ Of(Last(calls), q) \in Int
           /\ Weight(Front(calls), q) = Weight(calls, q) - Of(Last(calls), q)
<1>1. Front(calls) \in Seq(Frames) /\ Last(calls) \in Frames /\ crash = "none" /\ calls \in Seq(Frames) /\ calls # <<>>
  BY TopCall
<1>2. Weight(Front(calls), q) = Weight(calls, q) - Of(Last(calls), q)
  BY <1>1, WeightFront
<1> QED BY <1>1, <1>2, WeightType DEF Of

\* What becomes of the weight of the calls.
LEMMA BecomeNone ==
    ASSUME HeapType, Working, crash' = "none", NEW q, Become(<<>>)
    PROVE  /\ Weight(calls, q) \in Int /\ Of(Last(calls), q) \in Int
           /\ Weight(calls', q) = Weight(calls, q) - Of(Last(calls), q)
<1> DEFINE t == Front(calls)
           f == Last(calls)
<1>1. /\ t \in Seq(Frames) /\ f \in Frames /\ Weight(calls, q) \in Int /\ Of(f, q) \in Int
      /\ Weight(t, q) = Weight(calls, q) - Of(f, q)
  BY TopWeight
<1>2. calls' = t \o <<>>
  <2>1. <<>> \in Seq(Frames)
    OBVIOUS
  <2> QED BY <2>1, BecomeOutcome
<1> HIDE DEF t, f
<1>3. Weight(t \o <<>>, q) = Weight(t, q)
  BY <1>1, WeightSame
<1> QED BY <1>1, <1>2, <1>3 DEF f

\* The call on top becomes one call.
LEMMA BecomeOne ==
    ASSUME HeapType, Working, crash' = "none", NEW a \in Frames, NEW q, Become(<<a>>)
    PROVE  /\ Weight(calls, q) \in Int /\ Of(Last(calls), q) \in Int /\ Of(a, q) \in Int
           /\ Weight(calls', q) = Weight(calls, q) - Of(Last(calls), q) + Of(a, q)
<1> DEFINE t == Front(calls)
           f == Last(calls)
<1>1. /\ t \in Seq(Frames) /\ f \in Frames /\ Weight(calls, q) \in Int /\ Of(f, q) \in Int
      /\ Weight(t, q) = Weight(calls, q) - Of(f, q)
  BY TopWeight
<1>2. calls' = t \o <<a>>
  <2>1. <<a>> \in Seq(Frames)
    OBVIOUS
  <2> QED BY <2>1, BecomeOutcome
<1> HIDE DEF t, f
<1>3. Weight(t \o <<a>>, q) = Weight(t, q) + Of(a, q) /\ Of(a, q) \in Int
  BY <1>1, WeightOne
<1> QED BY <1>1, <1>2, <1>3 DEF f

\* Two calls.
LEMMA BecomeTwo ==
    ASSUME HeapType, Working, crash' = "none", NEW a \in Frames, NEW b \in Frames, NEW q, Become(<<a, b>>)
    PROVE  /\ Weight(calls, q) \in Int /\ Of(Last(calls), q) \in Int /\ Of(a, q) \in Int /\ Of(b, q) \in Int
           /\ Weight(calls', q) = Weight(calls, q) - Of(Last(calls), q) + Of(a, q) + Of(b, q)
<1> DEFINE t == Front(calls)
           f == Last(calls)
<1>1. /\ t \in Seq(Frames) /\ f \in Frames /\ Weight(calls, q) \in Int /\ Of(f, q) \in Int
      /\ Weight(t, q) = Weight(calls, q) - Of(f, q)
  BY TopWeight
<1>2. calls' = t \o <<a, b>>
  <2>1. <<a, b>> \in Seq(Frames)
    OBVIOUS
  <2> QED BY <2>1, BecomeOutcome
<1> HIDE DEF t, f
<1>3. Weight(t \o <<a, b>>, q) = Weight(t, q) + Of(a, q) + Of(b, q) /\ Of(a, q) \in Int /\ Of(b, q) \in Int
  BY <1>1, WeightTwo
<1> QED BY <1>1, <1>2, <1>3 DEF f

\* Three calls.
LEMMA BecomeThree ==
    ASSUME HeapType, Working, crash' = "none", NEW a \in Frames, NEW b \in Frames, NEW c \in Frames, NEW q, Become(<<a, b, c>>)
    PROVE  /\ Weight(calls, q) \in Int /\ Of(Last(calls), q) \in Int /\ Of(a, q) \in Int /\ Of(b, q) \in Int /\ Of(c, q) \in Int
           /\ Weight(calls', q) = Weight(calls, q) - Of(Last(calls), q) + Of(a, q) + Of(b, q) + Of(c, q)
<1> DEFINE t == Front(calls)
           f == Last(calls)
<1>1. /\ t \in Seq(Frames) /\ f \in Frames /\ Weight(calls, q) \in Int /\ Of(f, q) \in Int
      /\ Weight(t, q) = Weight(calls, q) - Of(f, q)
  BY TopWeight
<1>2. calls' = t \o <<a, b, c>>
  <2>1. <<a, b, c>> \in Seq(Frames)
    OBVIOUS
  <2> QED BY <2>1, BecomeOutcome
<1> HIDE DEF t, f
<1>3. Weight(t \o <<a, b, c>>, q) = Weight(t, q) + Of(a, q) + Of(b, q) + Of(c, q) /\ Of(a, q) \in Int /\ Of(b, q) \in Int /\ Of(c, q) \in Int
  BY <1>1, WeightThree
<1> QED BY <1>1, <1>2, <1>3 DEF f

\* A set that the calls are in.
LEMMA BecomeIn ==
    ASSUME HeapType, Working, crash' = "none", NEW K, K \subseteq Frames, Front(calls) \in Seq(K),
           NEW a \in K, NEW b \in K, NEW c \in K,
           Become(<<>>) \/ Become(<<a>>) \/ Become(<<a, b>>) \/ Become(<<a, b, c>>)
    PROVE  calls' \in Seq(K)
<1> DEFINE t == Front(calls)
<1>1. \A s \in Seq(Frames) : Become(s) => calls' = t \o s
  BY BecomeOutcome
<1>2. t \in Seq(K)
  OBVIOUS
<1> HIDE DEF t
<1>3. t \o <<>> \in Seq(K) /\ t \o <<a>> \in Seq(K) /\ t \o <<a, b>> \in Seq(K) /\ t \o <<a, b, c>> \in Seq(K)
  BY <1>2, Extended
<1>4. /\ <<>> \in Seq(Frames) /\ <<a>> \in Seq(Frames) /\ <<a, b>> \in Seq(Frames)
      /\ <<a, b, c>> \in Seq(Frames)
  OBVIOUS
<1> QED BY <1>1, <1>3, <1>4

\* The calls that are kept.
LEMMA KeptStep ==
    ASSUME HeapType, Working, Promised, NEW l,
           \A p \in Ports : ToSet(l[p]) \subseteq ToSet(list[p])
    PROVE  /\ Front(calls) \in Seq(Kept(l)) /\ Last(calls) \in Kept(l) /\ Last(calls) \in Kept(list)
           /\ \A f \in Frames : f.do # "unlink" => f \in Kept(l)
<1>1. Kept(list) \subseteq Kept(l)
  BY DEF Kept, Frames
<1>2. calls \in Seq(Kept(list)) /\ calls # <<>>
  BY TopCall DEF Promised
<1>3. Front(calls) \in Seq(Kept(list)) /\ Last(calls) \in Kept(list)
  BY <1>2, FrontLast
<1>4. Front(calls) \in Seq(Kept(l))
  <2> DEFINE s == Front(calls)
  <2>1. s \in Seq(Kept(list))
    BY <1>3
  <2> HIDE DEF s
  <2>2. s \in Seq(Kept(l))
    BY <1>1, <2>1
  <2> QED BY <2>2 DEF s
<1> QED BY <1>1, <1>3, <1>4 DEF Kept

\* References are counted after each step of the heap.
LEMMA ReleaseCounted ==
    ASSUME HeapType, Counted, MIDIPortRelease, crash' = "none", UNCHANGED held
    PROVE  Counted'
<1> DEFINE p == Last(calls).port
           a == Call("drop", p)
           b == Walk("check", p)
<1>1. Working /\ p \in Ports /\ Last(calls) \in Frames /\ Last(calls).do = "release"
      /\ UNCHANGED <<refs, mode, list>>
  BY TopCall DEF MIDIPortRelease, Top
<1>2. a \in Frames /\ b \in Frames /\ a.do = "drop" /\ a.port = p /\ b.do = "check"
  BY <1>1, FirstType, FrameType DEF Call, Walk, Steps
<1>3. Become(<<a, b>>) \/ Become(<<a>>)
  BY DEF MIDIPortRelease, Crash
<1> HIDE DEF a, b
<1>5. ASSUME NEW q \in Ports PROVE Weight(calls', q) = Weight(calls, q)
  <2>2. Of(a, q) = Of(Last(calls), q) /\ Of(b, q) = 0
    BY <1>1, <1>2, OfFrame
  <2>3. CASE Become(<<a, b>>)
    BY <1>1, <1>2, <2>2, <2>3, BecomeTwo
  <2>4. CASE Become(<<a>>)
    BY <1>1, <1>2, <2>2, <2>4, BecomeOne
  <2> QED BY <1>3, <2>3, <2>4
<1>6. Balanced'
  BY <1>1, <1>5 DEF Counted, Balanced, Surplus
<1>7. Unique'
  BY <1>1 DEF Counted, Unique
<1>8. Promised'
  <2>1. Front(calls) \in Seq(Kept(list)) /\ a \in Kept(list) /\ b \in Kept(list)
    BY <1>1, <1>2, KeptStep DEF Counted
  <2>2. Kept(list) \subseteq Frames
    BY DEF Kept
  <2>3. calls' \in Seq(Kept(list))
    BY <1>1, <1>3, <2>1, <2>2, BecomeIn
  <2> QED BY <1>1, <2>3 DEF Promised
<1> QED BY <1>6, <1>7, <1>8 DEF Counted

\* The one that is dropped.
LEMMA DropCounted ==
    ASSUME HeapType, Counted, Drop, crash' = "none", UNCHANGED held
    PROVE  Counted'
<1> DEFINE p == Last(calls).port
           a == Call("destroy", p)
<1>1. /\ Working /\ p \in Ports /\ Last(calls) \in Frames /\ Last(calls).do = "drop"
      /\ UNCHANGED <<mode, list>>
  BY TopCall DEF Drop, Top
<1>2. a \in Frames /\ a.do = "destroy"
  BY <1>1, FrameType DEF Call, Steps
<1>3. Alive(p)
  BY DEF Drop, Crash
<1>4. /\ refs' = [refs EXCEPT ![p] = @ - 1] /\ refs[p] \in Nat
      /\ Become(<<a>>) \/ Become(<<>>)
  BY <1>1, <1>3, ListType DEF Drop, Decrement
<1> HIDE DEF a
<1>5. ASSUME NEW q \in Ports
      PROVE  /\ Weight(calls', q) = Weight(calls, q) - (IF p = q THEN 1 ELSE 0)
             /\ Weight(calls, q) \in Int
  <2>1. Of(Last(calls), q) = (IF p = q THEN 1 ELSE 0) /\ Of(a, q) = 0
    BY <1>1, <1>2, OfFrame
  <2>2. CASE Become(<<a>>)
    BY <1>1, <1>2, <2>1, <2>2, BecomeOne
  <2>3. CASE Become(<<>>)
    BY <1>1, <2>1, <2>3, BecomeNone
  <2> QED BY <1>4, <2>2, <2>3
<1>6. Balanced'
  <2> SUFFICES ASSUME NEW q \in Ports PROVE held'[q] = Surplus(refs', list', calls', q)
    BY DEF Balanced
  <2>1. held[q] = refs[q] - Cardinality(Links(list, q)) - Weight(calls, q)
    BY DEF Counted, Balanced, Surplus
  <2>2. Cardinality(Links(list, q)) \in Nat /\ refs[q] \in Nat
    BY LinksFinite, ListType DEF HeapType
  <2>3. refs'[q] = refs[q] - (IF p = q THEN 1 ELSE 0)
    BY <1>1, <1>4, <2>2 DEF HeapType
  <2> QED BY <1>1, <1>5, <2>1, <2>2, <2>3 DEF Surplus
<1>7. Unique'
  BY <1>1 DEF Counted, Unique
<1>8. Promised'
  <2>1. Front(calls) \in Seq(Kept(list)) /\ a \in Kept(list)
    BY <1>1, <1>2, KeptStep DEF Counted
  <2>2. Kept(list) \subseteq Frames
    BY DEF Kept
  <2>3. calls' \in Seq(Kept(list))
    BY <1>1, <1>4, <2>1, <2>2, BecomeIn
  <2> QED BY <1>1, <2>3 DEF Promised
<1> QED BY <1>6, <1>7, <1>8 DEF Counted

\* The i-th entry of the list of p goes.
LEMMA EntryGone ==
    ASSUME HeapType, Unique, NEW p \in Ports, NEW i \in DOMAIN list[p],
           list' = [list EXCEPT ![p] = RemoveAt(@, i)]
    PROVE  /\ Unique' /\ \A r \in Ports : ToSet(list'[r]) \subseteq ToSet(list[r])
           /\ \A q \in Ports : /\ Cardinality(Links(list', q)) =
                                     Cardinality(Links(list, q)) - IF list[p][i].port = q THEN 1 ELSE 0
                               /\ Cardinality(Links(list, q)) \in Nat
<1>1. list \in [Ports -> Seq(Entry)] /\ list[p] \in Seq(Entry) /\ Apart(list[p])
  BY DEF HeapType, Unique
<1>2. list'[p] = RemoveAt(list[p], i) /\ \A r \in Ports : r # p => list'[r] = list[r]
  BY <1>1
<1>3. ToSet(list'[p]) = ToSet(list[p]) \ {list[p][i]} /\ Apart(list'[p])
  BY <1>1, <1>2, RemovedSet
<1>4. list[p][i] \in ToSet(list[p])
  BY DEF ToSet
<1>5. ASSUME NEW q \in Ports
      PROVE  /\ Cardinality(Links(list', q)) =
                   Cardinality(Links(list, q)) - IF list[p][i].port = q THEN 1 ELSE 0
             /\ Cardinality(Links(list, q)) \in Nat
  <2> DEFINE k == list'
             e == list[p][i]
  <2>1. Loses(list, k, p, e)
    BY <1>2, <1>3, <1>4 DEF Loses
  <2> HIDE DEF k, e
  <2>2. Cardinality(Links(k, q)) = Cardinality(Links(list, q)) - Leads(e, q)
    BY <1>1, <2>1, LinksRemoved
  <2>3. Cardinality(Links(list, q)) \in Nat
    BY <1>1, LinksFinite
  <2> QED BY <2>2, <2>3 DEF k, e, Leads
<1>6. Unique'
  BY <1>2, <1>3 DEF Unique
<1>7. \A r \in Ports : ToSet(list'[r]) \subseteq ToSet(list[r])
  BY <1>2, <1>3
<1> QED BY <1>5, <1>6, <1>7

\* The entries of a destroyed port.
LEMMA DestroyCounted ==
    ASSUME HeapType, Counted, Destroy, crash' = "none", UNCHANGED held
    PROVE  Counted'
<1> DEFINE p == Last(calls).port
           a == Last(calls)
           item == list[p][1].port
           b == Call("release", item)
<1>1. /\ Working /\ p \in Ports /\ a \in Frames /\ a.do = "destroy"
      /\ UNCHANGED <<refs, mode>>
  BY TopCall DEF Destroy, Top
<1>2. CASE list[p] = <<>>
  <2>1. Become(<<>>) /\ UNCHANGED list
    BY <1>2 DEF Destroy
  <2>2. ASSUME NEW q \in Ports PROVE Weight(calls', q) = Weight(calls, q)
    <3>1. Of(Last(calls), q) = 0
      BY <1>1, OfFrame
    <3> QED BY <1>1, <2>1, <3>1, BecomeNone
  <2>3. Balanced'
    BY <1>1, <2>1, <2>2 DEF Counted, Balanced, Surplus
  <2>4. Promised'
    <3>1. Front(calls) \in Seq(Kept(list)) /\ a \in Kept(list) /\ Kept(list) \subseteq Frames
      BY <1>1, KeptStep DEF Counted, Kept
    <3>2. calls' \in Seq(Kept(list))
      BY <1>1, <2>1, <3>1, BecomeIn
    <3> QED BY <2>1, <3>2 DEF Promised
  <2> QED BY <2>1, <2>3, <2>4 DEF Counted, Unique
<1>3. CASE list[p] # <<>>
  <2>1. 1 \in DOMAIN list[p] /\ Tail(list[p]) = RemoveAt(list[p], 1) /\ Head(list[p]) = list[p][1]
    BY <1>1, <1>3, ListType, TailRemoves
  <2>2. Become(<<a, b>>) /\ list' = [list EXCEPT ![p] = RemoveAt(@, 1)]
    BY <1>3, <2>1 DEF Destroy, Freed
  <2>3. item \in Ports
    BY <1>1, <2>1, ListType
  <2>4. b \in Frames /\ b.do = "release" /\ b.port = item
    BY <2>3, FrameType DEF Call, Steps
  <2>5. /\ Unique' /\ \A r \in Ports : ToSet(list'[r]) \subseteq ToSet(list[r])
        /\ \A q \in Ports : /\ Cardinality(Links(list', q)) =
                                  Cardinality(Links(list, q)) - IF item = q THEN 1 ELSE 0
                            /\ Cardinality(Links(list, q)) \in Nat
    BY <1>1, <2>1, <2>2, EntryGone DEF Counted
  <2> HIDE DEF item, b
  <2>6. ASSUME NEW q \in Ports
        PROVE  /\ Weight(calls', q) = Weight(calls, q) + (IF item = q THEN 1 ELSE 0)
               /\ Weight(calls, q) \in Int
    <3>1. Of(a, q) = 0 /\ Of(b, q) = IF item = q THEN 1 ELSE 0
      BY <1>1, <2>4, OfFrame
    <3> QED BY <1>1, <2>2, <2>4, <3>1, BecomeTwo
  <2>7. Balanced'
    <3> SUFFICES ASSUME NEW q \in Ports PROVE held'[q] = Surplus(refs', list', calls', q)
      BY DEF Balanced
    <3>1. held[q] = refs[q] - Cardinality(Links(list, q)) - Weight(calls, q) /\ refs[q] \in Nat
      BY ListType DEF Counted, Balanced, Surplus
    <3> QED BY <1>1, <2>5, <2>6, <3>1 DEF Surplus
  <2>8. Promised'
    <3> DEFINE l == list'
    <3>1. Front(calls) \in Seq(Kept(l)) /\ a \in Kept(l) /\ b \in Kept(l)
      <4>1. \A r \in Ports : ToSet(l[r]) \subseteq ToSet(list[r])
        BY <2>5
      <4> HIDE DEF l
      <4> QED BY <1>1, <2>4, <4>1, KeptStep DEF Counted
    <3> HIDE DEF l
    <3>2. Kept(l) \subseteq Frames
      BY DEF Kept
    <3>3. calls' \in Seq(Kept(l))
      BY <1>1, <2>2, <3>1, <3>2, BecomeIn
    <3> QED BY <3>3 DEF Promised, l
  <2> QED BY <2>5, <2>7, <2>8 DEF Counted
<1> QED BY <1>2, <1>3

\* A step that changes no list.
LEMMA CountedStep ==
    ASSUME HeapType, Counted, UNCHANGED <<list, held>>, calls' \in Seq(Kept(list)),
           NEW d, \A q \in Ports : /\ d[q] \in Int /\ Weight(calls, q) \in Int
                                   /\ refs'[q] = refs[q] + d[q]
                                   /\ Weight(calls', q) = Weight(calls, q) + d[q]
    PROVE  Counted'
<1>1. Balanced'
  <2> SUFFICES ASSUME NEW q \in Ports PROVE held'[q] = Surplus(refs', list', calls', q)
    BY DEF Balanced
  <2>1. held[q] = refs[q] - Cardinality(Links(list, q)) - Weight(calls, q)
    BY DEF Counted, Balanced, Surplus
  <2>2. Cardinality(Links(list, q)) \in Nat /\ refs[q] \in Nat
    BY LinksFinite, ListType DEF HeapType
  <2> QED BY <2>1, <2>2 DEF Surplus
<1> QED BY <1>1 DEF Counted, Unique, Promised

\* The turns of a walk.
LEMMA ApplyCounted ==
    ASSUME HeapType, Counted, NEW do \in {"check", "disconnect"}, Apply(do), crash' = "none", UNCHANGED held
    PROVE  Counted'
<1> DEFINE f == Last(calls)
           p == f.port
           id == f.entry
           item == Item(p, id)
           a == Frame(do, p, p, NextId(p, id), 0)
           b == Call("release", item)
           c == Removal(p, item)
<1>1. /\ Working /\ p \in Ports /\ f \in Frames /\ f.do = do /\ UNCHANGED <<mode, list>>
  BY TopCall DEF Apply, Top
<1>2. Front(calls) \in Seq(Kept(list)) /\ Kept(list) \subseteq Frames /\ f \in Kept(list)
  BY <1>1, KeptStep DEF Counted, Kept
<1>3. \A q \in Ports : Of(f, q) = 0
  BY <1>1, OfFrame
<1> DEFINE z == [q \in Ports |-> 0]
<1>4. CASE id = 0
  <2>1. Become(<<>>) /\ UNCHANGED refs
    BY <1>4 DEF Apply
  <2>2. ASSUME NEW q \in Ports PROVE Weight(calls', q) = Weight(calls, q) /\ Weight(calls, q) \in Int
    BY <1>1, <1>3, <2>1, BecomeNone
  <2>3. calls' \in Seq(Kept(list))
    BY <1>1, <1>2, <2>1, BecomeIn
  <2>4. \A q \in Ports : /\ z[q] \in Int /\ Weight(calls, q) \in Int /\ refs'[q] = refs[q] + z[q]
                         /\ Weight(calls', q) = Weight(calls, q) + z[q]
    BY <2>1, <2>2, ListType
  <2> HIDE DEF z
  <2> QED BY <1>1, <2>3, <2>4, CountedStep
<1>5. CASE id # 0
  <2>1. id \in Ids(p)
    BY <1>5 DEF Apply, Crash
  <2>2. item \in Ports /\ NextId(p, id) \in Nat
    BY <1>1, <2>1, AtEntry
  <2>3. /\ a \in Frames /\ b \in Frames /\ c \in Frames
        /\ a.do = do /\ b.do = "release" /\ b.port = item /\ c.do = "remove"
    BY <1>1, <2>2, FrameType DEF Call, Removal, Steps
  <2>4. IF do = "check" THEN CheckItem(p, item, a) ELSE DisconnectItem(p, item, a)
    BY <1>5, <2>1 DEF Apply
  <2>5. a \in Kept(list) /\ b \in Kept(list) /\ c \in Kept(list)
    BY <1>1, <2>3, KeptStep DEF Counted
  <2>6. \A q \in Ports : Of(a, q) = 0 /\ Of(c, q) = 0 /\ Of(b, q) = IF item = q THEN 1 ELSE 0
    BY <2>3, OfFrame
  <2>7. \/ do = "check" /\ ~Valid(item) /\ refs' = [refs EXCEPT ![item] = @ + 1] /\ Become(<<a, b, c>>)
        \/ Become(<<a>>) /\ UNCHANGED refs
        \/ Become(<<a, c>>) /\ UNCHANGED refs
    BY <2>4 DEF CheckItem, DisconnectItem, MIDIPortRetain, Crash
  <2> HIDE DEF a, b, c, item, p
  <2>8. calls' \in Seq(Kept(list))
    BY <1>1, <1>2, <2>5, <2>7, BecomeIn
  <2>9. CASE UNCHANGED refs /\ (Become(<<a>>) \/ Become(<<a, c>>))
    <3>1. ASSUME NEW q \in Ports PROVE Weight(calls', q) = Weight(calls, q) /\ Weight(calls, q) \in Int
      <4>1. CASE Become(<<a>>)
        BY <1>1, <1>3, <2>3, <2>6, <4>1, BecomeOne
      <4>2. CASE Become(<<a, c>>)
        BY <1>1, <1>3, <2>3, <2>6, <4>2, BecomeTwo
      <4> QED BY <2>9, <4>1, <4>2
    <3>2. \A q \in Ports : /\ z[q] \in Int /\ Weight(calls, q) \in Int /\ refs'[q] = refs[q] + z[q]
                           /\ Weight(calls', q) = Weight(calls, q) + z[q]
      BY <2>9, <3>1, ListType
    <3> HIDE DEF z
    <3> QED BY <1>1, <2>8, <3>2, CountedStep
  <2>10. CASE refs' = [refs EXCEPT ![item] = @ + 1] /\ Become(<<a, b, c>>)
    <3> DEFINE d == [q \in Ports |-> IF item = q THEN 1 ELSE 0]
    <3>1. ASSUME NEW q \in Ports PROVE Weight(calls', q) = Weight(calls, q) + d[q] /\ Weight(calls, q) \in Int
      BY <1>1, <1>3, <2>3, <2>6, <2>10, BecomeThree
    <3>2. ASSUME NEW q \in Ports PROVE refs'[q] = refs[q] + d[q] /\ d[q] \in Int
      BY <2>2, <2>10, ListType DEF HeapType
    <3>3. \A q \in Ports : /\ d[q] \in Int /\ Weight(calls, q) \in Int /\ refs'[q] = refs[q] + d[q]
                           /\ Weight(calls', q) = Weight(calls, q) + d[q]
      BY <3>1, <3>2
    <3> HIDE DEF d
    <3> QED BY <1>1, <2>8, <3>3, CountedStep
  <2> QED BY <2>7, <2>9, <2>10
<1> QED BY <1>4, <1>5

\* A removal up to the entry.
LEMMA RemoveCounted ==
    ASSUME HeapType, Counted, MIDIListRemove, crash' = "none", UNCHANGED held
    PROVE  Counted'
<1> DEFINE f == Last(calls)
           M == Matches(f.port, f.item)
           i == Min(M)
           id == list[f.port][i].id
           a == Frame("unlink", f.port, f.item, id, PrevId(f.port, id))
           b == Call("release", f.item)
<1>1. /\ Working /\ f.port \in Ports /\ f.item \in Ports /\ f \in Frames /\ f.do = "remove"
      /\ UNCHANGED <<refs, mode, list>>
  BY TopCall DEF MIDIListRemove, Top
<1>2. Front(calls) \in Seq(Kept(list)) /\ Kept(list) \subseteq Frames /\ f \in Kept(list)
  BY <1>1, KeptStep DEF Counted, Kept
<1>3. Become(IF M = {} THEN <<>> ELSE <<a, b>>)
  BY DEF MIDIListRemove, Matches, Found
<1>4. \A q \in Ports : Of(f, q) = 0
  BY <1>1, OfFrame
<1>5. ASSUME calls' \in Seq(Kept(list)),
             \A q \in Ports : Weight(calls', q) = Weight(calls, q) /\ Weight(calls, q) \in Int
      PROVE  Counted'
  <2> DEFINE z == [q \in Ports |-> 0]
  <2>1. \A q \in Ports : /\ z[q] \in Int /\ Weight(calls, q) \in Int /\ refs'[q] = refs[q] + z[q]
                         /\ Weight(calls', q) = Weight(calls, q) + z[q]
    BY <1>1, <1>5, ListType
  <2> HIDE DEF z
  <2> QED BY <1>1, <1>5, <2>1, CountedStep
<1>6. CASE M = {}
  <2>1. Become(<<>>)
    BY <1>3, <1>6
  <2>2. \A q \in Ports : Weight(calls', q) = Weight(calls, q) /\ Weight(calls, q) \in Int
    BY <1>1, <1>4, <2>1, BecomeNone
  <2>3. calls' \in Seq(Kept(list))
    BY <1>1, <1>2, <2>1, BecomeIn
  <2> QED BY <1>5, <2>2, <2>3
<1>7. CASE M # {}
  <2>1. Become(<<a, b>>)
    BY <1>3, <1>7
  <2>2. i \in DOMAIN list[f.port] /\ list[f.port][i].port = f.item /\ id \in Ids(f.port)
    BY <1>1, <1>7, MatchFound
  <2> HIDE DEF M, i
  <2>3. id \in Nat /\ PrevId(f.port, id) \in Nat
    BY <1>1, <2>2, IdsType, AtEntry
  <2>4. /\ a \in Frames /\ b \in Frames /\ a.do = "unlink" /\ a.port = f.port /\ a.item = f.item
        /\ a.entry = id /\ b.do = "release" /\ b.port = f.item
    <3> DEFINE prev == PrevId(f.port, id)
               p == f.port
               x == f.item
    <3>1. id \in Nat /\ prev \in Nat /\ p \in Ports /\ x \in Ports
      BY <1>1, <2>3
    <3> HIDE DEF id, prev, p, x
    <3>2. b = Frame("release", x, x, 0, 0) /\ a = Frame("unlink", p, x, id, prev)
      BY DEF Call, prev, p, x
    <3>3. b \in Frames /\ b.do = "release" /\ b.port = x
      BY <3>1, <3>2, FrameType DEF Steps
    <3>4. a \in Frames /\ a.do = "unlink" /\ a.port = p /\ a.item = x /\ a.entry = id
      <4> HIDE DEF a
      <4> QED BY <3>1, <3>2, FrameType DEF Steps
    <3> QED BY <3>3, <3>4 DEF p, x
  <2> HIDE DEF a, b
  <2>5. ASSUME NEW e \in ToSet(list[f.port]), e.id = id PROVE e.port = f.item
    <3>1. PICK k \in DOMAIN list[f.port] : e = list[f.port][k]
      BY <2>5 DEF ToSet
    <3>2. k = i
      BY <1>1, <2>2, <2>5, <3>1 DEF Counted, Unique, Apart
    <3> QED BY <2>2, <3>1, <3>2
  <2> HIDE DEF id
  <2>6. a \in Kept(list) /\ b \in Kept(list)
    BY <2>4, <2>5 DEF Kept
  <2>7. calls' \in Seq(Kept(list))
    BY <1>1, <1>2, <2>1, <2>6, BecomeIn
  <2>8. ASSUME NEW q \in Ports PROVE Weight(calls', q) = Weight(calls, q) /\ Weight(calls, q) \in Int
    <3>1. /\ Of(f, q) = 0 /\ Of(a, q) = (IF f.item = q THEN 0 - 1 ELSE 0)
          /\ Of(b, q) = (IF f.item = q THEN 1 ELSE 0)
      BY <1>4, <2>4, OfFrame
    <3> QED BY <1>1, <2>1, <2>4, <3>1, BecomeTwo
  <2> QED BY <1>5, <2>7, <2>8
<1> QED BY <1>6, <1>7

\* A removal from there on.
LEMMA UnlinkCounted ==
    ASSUME HeapType, Counted, Unlink, crash' = "none", UNCHANGED held
    PROVE  Counted'
<1> DEFINE f == Last(calls)
           p == f.port
           i == At(p, f.entry)
           a == Removal(p, f.item)
<1>1. /\ Working /\ p \in Ports /\ f.item \in Ports /\ f \in Frames /\ f.do = "unlink"
      /\ UNCHANGED <<refs, mode>>
  BY TopCall DEF Unlink, Top
<1>2. f.entry \in Ids(p) /\ list' = [list EXCEPT ![p] = RemoveAt(@, i)] /\ Become(<<a>>)
  BY DEF Unlink, Crash
<1>3. i \in DOMAIN list[p] /\ list[p][i].id = f.entry
  BY <1>1, <1>2, AtEntry
<1>4. list[p][i].port = f.item
  <2>1. f \in Kept(list)
    BY <1>1, KeptStep DEF Counted
  <2>2. list[p][i] \in ToSet(list[p])
    BY <1>3 DEF ToSet
  <2> QED BY <1>1, <1>3, <2>1, <2>2 DEF Kept
<1>5. /\ Unique' /\ \A r \in Ports : ToSet(list'[r]) \subseteq ToSet(list[r])
      /\ \A q \in Ports : /\ Cardinality(Links(list', q)) =
                                Cardinality(Links(list, q)) - IF f.item = q THEN 1 ELSE 0
                          /\ Cardinality(Links(list, q)) \in Nat
  <2>1. /\ Unique' /\ \A r \in Ports : ToSet(list'[r]) \subseteq ToSet(list[r])
        /\ \A q \in Ports : /\ Cardinality(Links(list', q)) =
                                  Cardinality(Links(list, q)) - IF list[p][i].port = q THEN 1 ELSE 0
                            /\ Cardinality(Links(list, q)) \in Nat
    BY <1>1, <1>2, <1>3, EntryGone DEF Counted
  <2> HIDE DEF p, i
  <2> QED BY <1>4, <2>1
<1>6. a \in Frames /\ a.do = "remove"
  <2> DEFINE x == f.item
  <2>1. p \in Ports /\ x \in Ports
    BY <1>1
  <2> HIDE DEF p, x
  <2>2. Removal(p, x) \in Frames /\ Removal(p, x).do = "remove"
    BY <2>1, FrameType DEF Removal, Steps
  <2> QED BY <2>2 DEF x
<1> HIDE DEF a, i
<1>7. ASSUME NEW q \in Ports
      PROVE  /\ Weight(calls', q) = Weight(calls, q) + (IF f.item = q THEN 1 ELSE 0)
             /\ Weight(calls, q) \in Int
  <2>1. Of(f, q) = (IF f.item = q THEN 0 - 1 ELSE 0) /\ Of(a, q) = 0
    BY <1>1, <1>6, OfFrame
  <2> QED BY <1>1, <1>2, <1>6, <2>1, BecomeOne
<1>8. Balanced'
  <2> SUFFICES ASSUME NEW q \in Ports PROVE held'[q] = Surplus(refs', list', calls', q)
    BY DEF Balanced
  <2>1. held[q] = refs[q] - Cardinality(Links(list, q)) - Weight(calls, q) /\ refs[q] \in Nat
    BY ListType DEF Counted, Balanced, Surplus
  <2> QED BY <1>1, <1>5, <1>7, <2>1 DEF Surplus
<1>9. Promised'
  <2> DEFINE l == list'
  <2>1. \A r \in Ports : ToSet(l[r]) \subseteq ToSet(list[r])
    BY <1>5
  <2> HIDE DEF l
  <2>2. Front(calls) \in Seq(Kept(l)) /\ a \in Kept(l)
    BY <1>1, <1>6, <2>1, KeptStep DEF Counted
  <2>3. Kept(l) \subseteq Frames
    BY DEF Kept
  <2>4. calls' \in Seq(Kept(l))
    BY <1>1, <1>2, <2>2, <2>3, BecomeIn
  <2> QED BY <2>4 DEF Promised, l
<1> QED BY <1>5, <1>8, <1>9 DEF Counted

\* References are counted after each step of the heap.
LEMMA CascadeCounted ==
    ASSUME HeapType, Counted, Cascade, crash' = "none", UNCHANGED held
    PROVE  Counted'
BY ReleaseCounted, DropCounted, DestroyCounted, ApplyCounted, RemoveCounted, UnlinkCounted DEF Cascade

\* Between the calls the entries are all that counts, but for the owners.
LEMMA IdleCounts ==
    ASSUME Typed, Idle, Counted, NEW p \in Ports
    PROVE  /\ refs[p] = held[p] + Cardinality(Links(list, p))
           /\ refs[p] \in Nat /\ held[p] \in Nat /\ Cardinality(Links(list, p)) \in Nat
           /\ held[p] > 0 => Alive(p)
<1>1. held[p] = refs[p] - Cardinality(Links(list, p)) - Weight(calls, p)
  BY DEF Counted, Balanced, Surplus
<1>2. Weight(calls, p) = 0
  BY WeightEmpty DEF Idle
<1>3. refs[p] \in Nat /\ held[p] \in Nat /\ Cardinality(Links(list, p)) \in Nat
  BY TypedFacts, ListType, LinksFinite DEF HeapType
<1> QED BY <1>1, <1>2, <1>3 DEF Alive

\* A usable port is alive.
LEMMA UsableAlive ==
    ASSUME Typed, Owned, Idle, Counted, NEW p \in Ports, Usable(p)
    PROVE  Alive(p)
BY IdleCounts DEF Usable, Owned

\* A step that leaves the references and the lists alone.
LEMMA CountedStays ==
    ASSUME Counted, UNCHANGED <<refs, list, calls, held>>
    PROVE  Counted'
BY DEF Counted, Balanced, Surplus, Unique, Promised

\* A call that is not in the middle of a removal.
Begun == {f \in Frames : f.do # "unlink"}

\* Arithmetic.
LEMMA Rearranged ==
    ASSUME NEW r \in Int, NEW h \in Int, NEW w \in Int, NEW n \in Int, NEW b \in Int, NEW a \in Int,
           r - h - w = a - b, a = b + n
    PROVE  h = r - n - w
OBVIOUS

\* A step that begins such calls.
LEMMA CountedStart ==
    ASSUME Typed, Idle, Counted, UNCHANGED list, NEW s \in Seq(Begun), calls' = s,
           \A q \in Ports : refs'[q] - held'[q] - Weight(s, q) = refs[q] - held[q],
           \A q \in Ports : refs'[q] \in Int /\ held'[q] \in Int /\ Weight(s, q) \in Int
    PROVE  Counted'
<1>1. Balanced'
  <2> SUFFICES ASSUME NEW q \in Ports PROVE held'[q] = Surplus(refs', list', calls', q)
    BY DEF Balanced
  <2>1. /\ refs[q] = held[q] + Cardinality(Links(list, q))
        /\ refs[q] \in Nat /\ held[q] \in Nat /\ Cardinality(Links(list, q)) \in Nat
    BY IdleCounts
  <2>2. refs'[q] - held'[q] - Weight(s, q) = refs[q] - held[q]
    OBVIOUS
  <2>3. refs'[q] \in Int /\ held'[q] \in Int /\ Weight(s, q) \in Int
    OBVIOUS
  <2>4. held'[q] = refs'[q] - Cardinality(Links(list, q)) - Weight(s, q)
    <3> DEFINE n == Cardinality(Links(list, q))
               w == Weight(s, q)
               r == refs'[q]
               h == held'[q]
               a == refs[q]
               b == held[q]
    <3>1. /\ r - h - w = a - b /\ a = b + n
          /\ r \in Int /\ h \in Int /\ w \in Int /\ n \in Int /\ b \in Int /\ a \in Int
      BY <2>1, <2>2, <2>3
    <3> HIDE DEF n, w, r, h, a, b
    <3>2. h = r - n - w
      BY <3>1, Rearranged
    <3> QED BY <3>2 DEF n, w, r, h
  <2> QED BY <2>4 DEF Surplus
<1>2. Promised'
  <2>1. Begun \subseteq Kept(list)
    BY DEF Kept, Begun
  <2>2. s \in Seq(Kept(list))
    BY <2>1
  <2> QED BY <2>2 DEF Promised
<1> QED BY <1>1, <1>2 DEF Counted, Unique

\* The calls that operations begin, and their weights.
LEMMA WeightAlone ==
    ASSUME NEW x \in Frames, NEW q
    PROVE  Weight(<<x>>, q) = Of(x, q)
<1> DEFINE e == <<>>
<1>1. e \in Seq(Frames) /\ Weight(e, q) = 0 /\ e \o <<x>> = <<x>>
  BY WeightEmpty, ConcatEmptySeq
<1> HIDE DEF e
<1>2. Weight(e \o <<x>>, q) = Weight(e, q) + Of(x, q) /\ Of(x, q) \in Int
  BY <1>1, WeightOne
<1>3. Weight(e \o <<x>>, q) = Of(x, q)
  BY <1>1, <1>2
<1> QED BY <1>1, <1>3

\* The weight of two calls.
LEMMA WeightBoth ==
    ASSUME NEW x \in Frames, NEW y \in Frames, NEW q
    PROVE  Weight(<<x, y>>, q) = Of(x, q) + Of(y, q)
<1> DEFINE e == <<>>
<1>1. e \in Seq(Frames) /\ Weight(e, q) = 0
  BY WeightEmpty
<1>2. e \o <<x, y>> = <<x, y>>
  <2>1. <<x, y>> \in Seq(Frames)
    OBVIOUS
  <2> QED BY <2>1, ConcatEmptySeq
<1> HIDE DEF e
<1>3. /\ Weight(e \o <<x, y>>, q) = Weight(e, q) + Of(x, q) + Of(y, q)
      /\ Of(x, q) \in Int /\ Of(y, q) \in Int
  BY <1>1, WeightTwo
<1>4. Weight(e \o <<x, y>>, q) = Of(x, q) + Of(y, q)
  BY <1>1, <1>3
<1> QED BY <1>2, <1>4

\* A removal weighs nothing.
LEMMA StartRemoval ==
    ASSUME NEW p \in Ports, NEW t \in Ports
    PROVE  <<Removal(p, t)>> \in Seq(Begun) /\ \A q : Weight(<<Removal(p, t)>>, q) = 0
<1> DEFINE a == Removal(p, t)
<1>1. a \in Frames /\ a.do = "remove"
  BY FrameType DEF Removal, Steps
<1> HIDE DEF a
<1>2. <<a>> \in Seq(Begun)
  BY <1>1 DEF Begun
<1>3. \A q : Weight(<<a>>, q) = 0
  BY <1>1, WeightAlone, OfFrame
<1> QED BY <1>2, <1>3 DEF a

\* A walk weighs nothing.
LEMMA StartWalk ==
    ASSUME HeapType, NEW p \in Ports
    PROVE  <<Walk("disconnect", p)>> \in Seq(Begun) /\ \A q : Weight(<<Walk("disconnect", p)>>, q) = 0
<1> DEFINE a == Walk("disconnect", p)
<1>1. FirstId(p) \in Nat
  BY FirstType
<1>2. a \in Frames /\ a.do = "disconnect"
  BY <1>1, FrameType DEF Walk, Steps
<1> HIDE DEF a
<1>3. <<a>> \in Seq(Begun)
  BY <1>2 DEF Begun
<1>4. \A q : Weight(<<a>>, q) = 0
  BY <1>2, WeightAlone, OfFrame
<1> QED BY <1>3, <1>4 DEF a

\* A release is a reference that is counted still.
LEMMA StartRelease ==
    ASSUME NEW p \in Ports
    PROVE  /\ <<Call("release", p)>> \in Seq(Begun)
           /\ \A q : Weight(<<Call("release", p)>>, q) = IF p = q THEN 1 ELSE 0
<1> DEFINE a == Call("release", p)
<1>1. a \in Frames /\ a.do = "release" /\ a.port = p
  BY FrameType DEF Call, Steps
<1> HIDE DEF a
<1>2. <<a>> \in Seq(Begun)
  BY <1>1 DEF Begun
<1>3. \A q : Weight(<<a>>, q) = IF p = q THEN 1 ELSE 0
  BY <1>1, WeightAlone, OfFrame
<1> QED BY <1>2, <1>3 DEF a

\* A removal is a call that begins.
LEMMA RemovalBegun ==
    ASSUME NEW p \in Ports, NEW t \in Ports
    PROVE  Removal(p, t) \in Begun /\ Removal(p, t).do = "remove"
<1>1. "remove" \in Steps /\ 0 \in Nat
  BY DEF Steps
<1>2. Frame("remove", p, t, 0, 0) \in Frames /\ Frame("remove", p, t, 0, 0).do = "remove"
  BY <1>1, FrameType
<1> QED BY <1>2 DEF Removal, Begun

\* A release on top of which another call is made at once.
LEMMA StartBoth ==
    ASSUME NEW p \in Ports, NEW b \in Begun, b.do \in {"remove", "disconnect"}
    PROVE  /\ <<Call("release", p), b>> \in Seq(Begun)
           /\ <<Call("release", p)>> \o <<b>> = <<Call("release", p), b>>
           /\ \A q : Weight(<<Call("release", p), b>>, q) = IF p = q THEN 1 ELSE 0
<1> DEFINE a == Call("release", p)
<1>1. a \in Frames /\ a.do = "release" /\ a.port = p
  BY FrameType DEF Call, Steps
<1>2. b \in Frames
  BY DEF Begun
<1> HIDE DEF a
<1>3. <<a, b>> \in Seq(Begun)
  BY <1>1 DEF Begun
<1>4. <<a>> \o <<b>> = <<a, b>>
  BY <1>1, <1>2, Pair
<1>5. ASSUME NEW q PROVE Weight(<<a, b>>, q) = IF p = q THEN 1 ELSE 0
  <2>1. Of(a, q) = (IF p = q THEN 1 ELSE 0) /\ Of(b, q) = 0
    BY <1>1, <1>2, OfFrame
  <2>2. Weight(<<a, b>>, q) = Of(a, q) + Of(b, q)
    BY <1>1, <1>2, WeightBoth
  <2> QED BY <2>1, <2>2
<1> QED BY <1>3, <1>4, <1>5 DEF a

\* What Goto does between the calls, unless it stops the program.
LEMMA GotoBegins == ASSUME NEW s, Goto(s), crash = "none", crash' = "none" PROVE calls' = s
BY DEF Goto

\* References are counted after each operation.
LEMMA ConnectCounted ==
    ASSUME Typed, Owned, Counted, NEW p \in Ports, NEW t \in Ports, MIDIPortConnect(p, t), crash' = "none"
    PROVE  Counted'
<1> DEFINE e == [id |-> NewId, port |-> t]
           k == list'
<1>1. /\ Idle /\ Usable(p) /\ MIDIListAdd(p, t, NewId) /\ UNCHANGED <<calls, held>> /\ calls = <<>>
  BY DEF MIDIPortConnect, Asks, Idle
<1>2. /\ refs' = [refs EXCEPT ![t] = @ + 1] /\ list' = [list EXCEPT ![p] = <<e>> \o @]
  BY <1>1 DEF MIDIListAdd, MIDIPortRetain
<1>3. Alive(p)
  BY <1>1, UsableAlive
<1>4. e \in Entry /\ e.id = NewId /\ e.port = t
  BY NewIdFresh DEF Entry
<1>5. list \in [Ports -> Seq(Entry)] /\ list[p] \in Seq(Entry) /\ Apart(list[p])
  BY TypedFacts DEF HeapType, Counted, Unique
<1>6. \A i \in DOMAIN list[p] : list[p][i].id # NewId
  <2> SUFFICES ASSUME NEW i \in DOMAIN list[p], list[p][i].id = NewId PROVE FALSE
    OBVIOUS
  <2>1. NewId \in Ids(p)
    BY <1>3, TypedFacts, IdsType
  <2> QED BY <2>1, NewIdFresh DEF AllIds
<1> HIDE DEF e
<1>7. k[p] = <<e>> \o list[p] /\ \A r \in Ports : r # p => k[r] = list[r]
  BY <1>2, <1>5
<1>8. Apart(k[p])
  BY <1>4, <1>5, <1>6, <1>7, PrependedApart
<1>9. Gains(list, k, p, e)
  <2>1. ToSet(k[p]) = ToSet(list[p]) \cup {e}
    BY <1>4, <1>5, <1>7, Prepended
  <2>2. e \notin ToSet(list[p])
    BY <1>4, <1>6 DEF ToSet
  <2> QED BY <1>7, <2>1, <2>2 DEF Gains
<1>10. Unique'
  BY <1>7, <1>8 DEF Unique, Counted
<1>11. Promised'
  BY <1>1 DEF Promised
<1>12. Balanced'
  <2> SUFFICES ASSUME NEW q \in Ports PROVE held'[q] = Surplus(refs', list', calls', q)
    BY DEF Balanced
  <2>1. /\ refs[q] = held[q] + Cardinality(Links(list, q))
        /\ refs[q] \in Nat /\ held[q] \in Nat /\ Cardinality(Links(list, q)) \in Nat
    BY <1>1, IdleCounts
  <2>2. Cardinality(Links(k, q)) = Cardinality(Links(list, q)) + Leads(e, q)
    <3> HIDE DEF k
    <3> QED BY <1>5, <1>9, LinksAdded
  <2>3. refs'[q] = refs[q] + Leads(e, q)
    <3>1. e.port = t /\ refs \in [Ports -> Nat] /\ refs' = [refs EXCEPT ![t] = @ + 1] /\ t \in Ports
      BY <1>2, <1>4, TypedFacts DEF HeapType
    <3>2. refs'[q] = IF q = t THEN refs[q] + 1 ELSE refs[q]
      BY <3>1
    <3> QED BY <2>1, <3>1, <3>2 DEF Leads
  <2>4. Weight(calls', q) = 0
    BY <1>1, WeightEmpty
  <2>5. Leads(e, q) \in Nat
    BY DEF Leads
  <2>6. held[q] = refs'[q] - Cardinality(Links(k, q)) - Weight(calls', q)
    <3> HIDE DEF k
    <3> QED BY <2>1, <2>2, <2>3, <2>4, <2>5
  <2> QED BY <1>1, <2>6 DEF Surplus
<1> QED BY <1>10, <1>11, <1>12 DEF Counted

\* Disconnections and invalidations.
LEMMA DisconnectCounted ==
    ASSUME Typed, Counted, NEW p \in Ports, NEW t \in Ports, crash' = "none",
           MIDIPortDisconnect(p, t) \/ MIDIPortDisconnectAll(p) \/ MIDIPortInvalidate(p)
    PROVE  Counted'
<1>1. Idle /\ UNCHANGED <<refs, list, held>> /\ HeapType
  BY TypedFacts DEF MIDIPortDisconnect, MIDIPortDisconnectAll, MIDIPortInvalidate, Asks
<1>2. Goto(<<Removal(p, t)>>) \/ Goto(<<Walk("disconnect", p)>>)
  BY DEF MIDIPortDisconnect, MIDIPortDisconnectAll, MIDIPortInvalidate, Disconnection
<1>3. calls' = <<Removal(p, t)>> \/ calls' = <<Walk("disconnect", p)>>
  BY <1>1, <1>2, GotoBegins DEF Idle
<1> DEFINE s == calls'
<1>4. s \in Seq(Begun) /\ \A q \in Ports : Weight(s, q) = 0
  <2>1. CASE calls' = <<Removal(p, t)>>
    BY <2>1, StartRemoval
  <2>2. CASE calls' = <<Walk("disconnect", p)>>
    BY <1>1, <2>2, StartWalk
  <2> QED BY <1>3, <2>1, <2>2
<1>5. \A q \in Ports : refs'[q] = refs[q] /\ held'[q] = held[q] /\ refs[q] \in Nat /\ held[q] \in Nat
  BY <1>1, ListType, TypedFacts
<1> HIDE DEF s
<1>6. \A q \in Ports : refs'[q] - held'[q] - Weight(s, q) = refs[q] - held[q]
  BY <1>4, <1>5
<1>7. \A q \in Ports : refs'[q] \in Int /\ held'[q] \in Int /\ Weight(s, q) \in Int
  BY <1>4, <1>5
<1>8. calls' = s
  BY DEF s
<1> QED BY <1>1, <1>4, <1>6, <1>7, <1>8, CountedStart

\* The release of a port, and of the last reference of a driver.
LEMMA OwnersCounted ==
    ASSUME Typed, Owned, Counted, NEW p \in Ports, crash' = "none",
           Release(p) \/ (MIDIDriverRelease(p) /\ driverRefs[p] = 1)
    PROVE  Counted'
<1>1. Idle /\ UNCHANGED <<refs, list>> /\ HeapType /\ held[p] > 0
  <2>1. held[p] \in Nat /\ DriversOwn(p) \in Nat
    BY TypedFacts DEF DriversOwn
  <2> QED BY <2>1, TypedFacts DEF Release, MIDIDriverRelease, Asks, Owned
<1>2. held' = [held EXCEPT ![p] = @ - 1]
  <2>1. CASE Release(p)
    BY <2>1 DEF Release
  <2>2. CASE MIDIDriverRelease(p) /\ driverRefs[p] = 1
    BY <2>2 DEF MIDIDriverRelease
  <2> QED BY <2>1, <2>2
<1>4. Walk("disconnect", p) \in Begun /\ Walk("disconnect", p).do = "disconnect"
  <2>1. FirstId(p) \in Nat
    BY <1>1, FirstType
  <2> QED BY <2>1, FrameType DEF Walk, Steps, Begun
<1>3. calls' = <<Call("release", p)>> \/ calls' = <<Call("release", p), Walk("disconnect", p)>>
  <2>1. CASE Release(p)
    BY <1>1, <2>1, GotoBegins DEF Release, Idle
  <2>2. CASE MIDIDriverRelease(p) /\ driverRefs[p] = 1
    <3>1. Goto(<<Call("release", p)>> \o <<Walk("disconnect", p)>>)
      BY <2>2 DEF MIDIDriverRelease, MIDIDriverDestroy, Disconnection
    <3>2. <<Call("release", p)>> \o <<Walk("disconnect", p)>> = <<Call("release", p), Walk("disconnect", p)>>
      BY <1>4, StartBoth
    <3> QED BY <1>1, <3>1, <3>2, GotoBegins DEF Idle
  <2> QED BY <2>1, <2>2
<1> DEFINE s == calls'
<1>9. s \in Seq(Begun) /\ \A q \in Ports : Weight(s, q) = IF p = q THEN 1 ELSE 0
  <2>1. CASE calls' = <<Call("release", p)>>
    BY <2>1, StartRelease
  <2>2. CASE calls' = <<Call("release", p), Walk("disconnect", p)>>
    BY <1>4, <2>2, StartBoth
  <2> QED BY <1>3, <2>1, <2>2
<1>5. \A q \in Ports : /\ refs'[q] = refs[q] /\ refs[q] \in Nat /\ held[q] \in Nat
                       /\ held'[q] = held[q] - IF p = q THEN 1 ELSE 0
  BY <1>1, <1>2, ListType, TypedFacts
<1> HIDE DEF s
<1>6. \A q \in Ports : refs'[q] - held'[q] - Weight(s, q) = refs[q] - held[q]
  BY <1>9, <1>5
<1>7. \A q \in Ports : refs'[q] \in Int /\ held'[q] \in Int /\ Weight(s, q) \in Int
  BY <1>9, <1>5
<1>8. calls' = s
  BY DEF s
<1> QED BY <1>1, <1>9, <1>6, <1>7, <1>8, CountedStart

\* Retainments.
LEMMA RetainCounted ==
    ASSUME Typed, Counted, NEW p \in Ports, Retain(p)
    PROVE  Counted'
<1>1. /\ Idle /\ refs' = [refs EXCEPT ![p] = @ + 1] /\ held' = [held EXCEPT ![p] = @ + 1]
      /\ UNCHANGED <<list, calls>>
  BY DEF Retain, MIDIPortRetain, Asks
<1> DEFINE s == <<>>
<1>2. s \in Seq(Begun) /\ calls' = s /\ \A q \in Ports : Weight(s, q) = 0
  BY <1>1, WeightEmpty DEF Idle
<1>3. \A q \in Ports : /\ refs[q] \in Nat /\ held[q] \in Nat
                       /\ refs'[q] = refs[q] + (IF p = q THEN 1 ELSE 0)
                       /\ held'[q] = held[q] + (IF p = q THEN 1 ELSE 0)
  BY <1>1, ListType, TypedFacts DEF HeapType
<1> HIDE DEF s
<1>4. \A q \in Ports : refs'[q] - held'[q] - Weight(s, q) = refs[q] - held[q]
  BY <1>2, <1>3
<1>5. \A q \in Ports : refs'[q] \in Int /\ held'[q] \in Int /\ Weight(s, q) \in Int
  BY <1>2, <1>3
<1> QED BY <1>1, <1>2, <1>4, <1>5, CountedStart

\* An invalid target of a send.
LEMMA SendNextCounted ==
    ASSUME Typed, Counted, SendNext, crash' = "none"
    PROVE  Counted'
<1> DEFINE m == Last(stack)
           item == Item(m.port, m.next)
           rest == Append(Front(stack), Advance(m))
<1>1. Idle /\ UNCHANGED <<list, held>> /\ HeapType /\ m.port \in Ports /\ m.src \in Ports \cup {NULL}
  BY TypedFacts, TopMessage DEF SendNext, OnTop
<1>2. m.next \in Ids(m.port)
  BY DEF SendNext
<1>3. item \in Ports
  BY <1>1, <1>2, AtEntry
<1>4. CASE UNCHANGED <<refs, calls>>
  BY <1>1, <1>4, CountedStays
<1>5. CASE ~Valid(item)
  <2>1. DropInvalid(m.src, item)
    BY <1>2, <1>5 DEF SendNext
  <2> HIDE DEF item
  <2>2. /\ m.src \in Ports /\ refs' = [refs EXCEPT ![item] = @ + 1]
        /\ Goto(<<Call("release", item), Removal(m.src, item)>>)
    BY <1>1, <2>1 DEF DropInvalid, Crash, MIDIPortRetain
  <2> DEFINE s == <<Call("release", item), Removal(m.src, item)>>
             src == m.src
  <2>3. calls' = s
    BY <1>1, <2>2, GotoBegins DEF Idle
  <2>4. src \in Ports /\ s = <<Call("release", item), Removal(src, item)>>
    BY <2>2
  <2> HIDE DEF s, src
  <2>5. /\ s \in Seq(Begun)
        /\ \A q \in Ports : Weight(s, q) = IF item = q THEN 1 ELSE 0
    <3>1. Removal(src, item) \in Begun /\ Removal(src, item).do = "remove"
      BY <1>3, <2>4, RemovalBegun
    <3>2. /\ <<Call("release", item), Removal(src, item)>> \in Seq(Begun)
          /\ \A q : Weight(<<Call("release", item), Removal(src, item)>>, q) = IF item = q THEN 1 ELSE 0
      BY <1>3, <3>1, StartBoth
    <3> QED BY <2>4, <3>2
  <2>6. \A q \in Ports : /\ refs[q] \in Nat /\ held[q] \in Nat /\ held'[q] = held[q]
                         /\ refs'[q] = refs[q] + (IF item = q THEN 1 ELSE 0)
    <3>1. /\ refs \in [Ports -> Nat] /\ held \in [Ports -> Nat] /\ held' = held
          /\ refs' = [refs EXCEPT ![item] = @ + 1] /\ item \in Ports
      BY <1>1, <1>3, <2>2, TypedFacts DEF HeapType
    <3> QED BY <3>1
  <2>7. \A q \in Ports : refs'[q] - held'[q] - Weight(s, q) = refs[q] - held[q]
    BY <2>5, <2>6
  <2>8. \A q \in Ports : refs'[q] \in Int /\ held'[q] \in Int /\ Weight(s, q) \in Int
    BY <2>5, <2>6
  <2> QED BY <1>1, <2>3, <2>5, <2>7, <2>8, CountedStart
<1>6. CASE Valid(item)
  <2>1. UNCHANGED <<refs, calls>>
    BY <1>2, <1>6 DEF SendNext
  <2> QED BY <1>4, <2>1
<1> QED BY <1>5, <1>6

\* References are counted after every step.
LEMMA CountedHolds ==
    ASSUME Safe, crash = "none" => Counted, [Next]_vars, crash' = "none"
    PROVE  Counted'
<1>1. Typed /\ Owned /\ HeapType
  BY TypedFacts DEF Safe
<1>2. CASE UNCHANGED vars
  <2>1. UNCHANGED <<refs, list, calls, held, crash>>
    BY <1>2 DEF vars, heap
  <2> QED BY <2>1, CountedStays
<1>3. CASE Beneath
  <2>1. crash = "none"
    BY <1>3 DEF Beneath, Cascade, MIDIPortRelease, Drop, Destroy, Apply, MIDIListRemove, Unlink, Top, Working
  <2>2. Cascade /\ UNCHANGED held
    BY <1>3 DEF Beneath
  <2> QED BY <1>1, <2>1, <2>2, CascadeCounted
<1>4. CASE Delivery
  <2>1. Idle
    BY <1>4 DEF Delivery, SendNext, SendDone, Echo, Return
  <2>2. CASE SendNext
    BY <1>1, <2>1, <2>2, SendNextCounted DEF Idle
  <2>3. CASE SendDone \/ Echo \/ Return
    <3>1. UNCHANGED <<refs, list, calls, held>>
      BY <2>3 DEF SendDone, Echo, Return, heap
    <3> QED BY <2>1, <3>1, CountedStays DEF Idle
  <2> QED BY <1>4, <2>2, <2>3 DEF Delivery
<1>5. CASE Application
  <2>1. Idle
    BY <1>5 DEF Application, MIDIPortConnect, MIDIPortDisconnect, MIDIPortSendTo, MIDIPortDisconnectAll,
                MIDIPortInvalidate, Release, Retain, MIDIPortReceive, MIDIPortSend, MIDIDriverRetain,
                MIDIDriverRelease, Asks
  <2>2. Counted
    BY <2>1 DEF Idle
  <2>3. ASSUME NEW p \in Ports, NEW t \in Ports, MIDIPortConnect(p, t) PROVE Counted'
    BY <1>1, <2>2, <2>3, ConnectCounted
  <2>4. ASSUME NEW p \in Ports, NEW t \in Ports,
               MIDIPortDisconnect(p, t) \/ MIDIPortDisconnectAll(p) \/ MIDIPortInvalidate(p)
        PROVE  Counted'
    BY <1>1, <2>2, <2>4, DisconnectCounted
  <2>5. ASSUME NEW p \in Ports, Release(p) \/ MIDIDriverRelease(p) PROVE Counted'
    <3>1. CASE MIDIDriverRelease(p) /\ driverRefs[p] # 1
      <4>1. UNCHANGED <<refs, list, calls, held>>
        BY <3>1 DEF MIDIDriverRelease
      <4> QED BY <2>2, <4>1, CountedStays
    <3> QED BY <1>1, <2>2, <2>5, <3>1, OwnersCounted
  <2>6. ASSUME NEW p \in Ports, Retain(p) PROVE Counted'
    BY <1>1, <2>2, <2>6, RetainCounted
  <2>7. ASSUME NEW p \in Ports, NEW t \in Ports,
               MIDIPortSendTo(p, t) \/ MIDIPortReceive(p) \/ MIDIPortSend(p) \/ MIDIDriverRetain(p)
        PROVE  Counted'
    <3>1. UNCHANGED <<refs, list, calls, held>>
      BY <2>7 DEF MIDIPortSendTo, MIDIPortReceive, MIDIPortSend, MIDIDriverRetain, heap
    <3> QED BY <2>2, <3>1, CountedStays
  <2> QED BY <1>5, <2>3, <2>4, <2>5, <2>6, <2>7 DEF Application
<1> QED BY <1>2, <1>3, <1>4, <1>5 DEF Next

\* Nothing is connected at first.
LEMMA InitCounted == Init => Counted
<1> SUFFICES ASSUME Init PROVE Counted
  OBVIOUS
<1>1. Unique
  BY DEF Init, Unique, Apart
<1>2. Promised
  BY DEF Init, Promised
<1>3. Balanced
  <2> SUFFICES ASSUME NEW p \in Ports PROVE held[p] = Surplus(refs, list, calls, p)
    BY DEF Balanced
  <2>1. Links(list, p) = {}
    <3> SUFFICES ASSUME NEW x \in Links(list, p) PROVE FALSE
      OBVIOUS
    <3>1. PICK q \in Ports : \E e \in ToSet(list[q]) : x = <<q, e>> /\ e.port = p
      BY LinksElements
    <3> QED BY <3>1 DEF Init, ToSet
  <2>2. Cardinality(Links(list, p)) = 0
    BY <2>1, FS_EmptySet
  <2>3. Weight(calls, p) = 0
    BY WeightEmpty DEF Init
  <2>4. refs[p] = 1 /\ held[p] = 1
    BY DEF Init
  <2> QED BY <2>2, <2>3, <2>4 DEF Surplus
<1> QED BY <1>1, <1>2, <1>3 DEF Counted

\* Owners, entries and calls account for every reference, until the program stops.
LEMMA CountsHold == Spec => [](Safe /\ (crash = "none" => Counted))
<1>1. Safe /\ (crash = "none" => Counted) /\ [Next]_vars => (crash = "none" => Counted)'
  BY CountedHolds
<1>2. Init => (crash = "none" => Counted)
  BY InitCounted
<1> QED BY <1>1, <1>2, SafeHolds, PTL DEF Spec

\* A port is counted once for each owner and each entry of a list: no reference is
\* lost, and none is given back twice.
THEOREM RefsCorrect == Spec => []RefsExact
<1>1. Safe /\ (crash = "none" => Counted) => RefsExact
  BY IdleCounts DEF RefsExact, Safe, Idle
<1> QED BY <1>1, CountsHold, PTL

-----------------------------------------------------------------------------
(* A send hands on each entry in its turn. *)

\* Of the list s, the entries up to the next one were handed on if they are due; the
\* next one and those after it are due and were not.
InTurn(m, s) ==
    /\ IsInjective(m.got) /\ ToSet(m.got) \subseteq m.due
    /\ m.next = 0 => \A k \in DOMAIN s : s[k].id \in m.due => s[k].id \in ToSet(m.got)
    /\ m.next # 0 => m.next \in m.due /\ m.next \notin ToSet(m.got)
    /\ \A n, k \in DOMAIN s : s[n].id = m.next =>
          /\ k < n => (s[k].id \in m.due => s[k].id \in ToSet(m.got))
          /\ k >= n => s[k].id \in m.due /\ s[k].id \notin ToSet(m.got)

\* An entry goes.
LEMMA InTurnRemoved ==
    ASSUME NEW s \in Seq(Entry), NEW i \in DOMAIN s, NEW m, InTurn(m, s)
    PROVE  InTurn(m, RemoveAt(s, i))
<1> DEFINE t == RemoveAt(s, i)
           len == Len(s)
           G == ToSet(m.got)
           D == m.due
<1>1. /\ t \in Seq(Entry) /\ Len(t) = len - 1
      /\ \A j \in 1 .. len - 1 : t[j] = IF j < i THEN s[j] ELSE s[j + 1]
  BY Removed
<1>2. len \in Nat /\ i \in 1 .. len /\ DOMAIN s = 1 .. len
  OBVIOUS
<1> HIDE DEF t, len
<1>3. DOMAIN t = 1 .. len - 1
  BY <1>1, <1>2
<1>4. ASSUME NEW j \in 1 .. len - 1
      PROVE  j \in 1 .. len /\ j + 1 \in 1 .. len /\ t[j] = IF j < i THEN s[j] ELSE s[j + 1]
  BY <1>1, <1>2
<1>5. m.next = 0 => \A k \in 1 .. len - 1 : t[k].id \in D => t[k].id \in G
  BY <1>2, <1>4 DEF InTurn
<1>6. ASSUME NEW n \in 1 .. len - 1, NEW k \in 1 .. len - 1, t[n].id = m.next
      PROVE  /\ k < n => (t[k].id \in D => t[k].id \in G)
             /\ k >= n => t[k].id \in D /\ t[k].id \notin G
  <2> DEFINE a == IF n < i THEN n ELSE n + 1
             b == IF k < i THEN k ELSE k + 1
  <2>1. a \in 1 .. len /\ b \in 1 .. len /\ t[n] = s[a] /\ t[k] = s[b]
    BY <1>4
  <2>2. (k < n => b < a) /\ (k >= n => b >= a)
    BY <1>2
  <2> HIDE DEF a, b
  <2>3. s[a].id = m.next
    BY <1>6, <2>1
  <2> QED BY <1>2, <2>1, <2>2, <2>3 DEF InTurn
<1> HIDE DEF G, D
<1>7. InTurn(m, t)
  BY <1>3, <1>5, <1>6 DEF InTurn, G, D
<1> QED BY <1>7 DEF t

\* An entry is added that the message does not wait for.
LEMMA InTurnAdded ==
    ASSUME NEW s \in Seq(Entry), NEW e \in Entry, NEW m, InTurn(m, s), e.id \notin m.due
    PROVE  InTurn(m, <<e>> \o s)
<1> DEFINE t == <<e>> \o s
           len == Len(s)
           G == ToSet(m.got)
           D == m.due
<1>1. /\ t \in Seq(Entry) /\ Len(t) = len + 1 /\ t[1] = e
      /\ \A j \in 1 .. len : t[j + 1] = s[j]
  BY Prepended
<1>2. len \in Nat /\ DOMAIN s = 1 .. len /\ e.id # 0
  BY DEF Entry
<1> HIDE DEF t, len
<1>3. DOMAIN t = 1 .. len + 1
  BY <1>1, <1>2
<1>4. ASSUME NEW j \in 1 .. len + 1 PROVE (j = 1 /\ t[j] = e) \/ (j - 1 \in 1 .. len /\ t[j] = s[j - 1])
  <2>1. CASE j = 1
    BY <1>1, <2>1
  <2>2. CASE j # 1
    <3>1. j - 1 \in 1 .. len /\ (j - 1) + 1 = j
      BY <1>2, <2>2
    <3> QED BY <1>1, <3>1
  <2> QED BY <2>1, <2>2
<1>5. m.next = 0 => \A k \in 1 .. len + 1 : t[k].id \in D => t[k].id \in G
  BY <1>2, <1>4 DEF InTurn
<1>6. ASSUME NEW n \in 1 .. len + 1, NEW k \in 1 .. len + 1, t[n].id = m.next
      PROVE  /\ k < n => (t[k].id \in D => t[k].id \in G)
             /\ k >= n => t[k].id \in D /\ t[k].id \notin G
  <2>1. t[n] # e
    BY <1>2, <1>6 DEF InTurn
  <2>2. n - 1 \in 1 .. len /\ s[n - 1].id = m.next
    BY <1>4, <1>6, <2>1
  <2>3. CASE k = 1
    <3>1. t[k] = e /\ k < n
      BY <1>1, <1>2, <2>2, <2>3
    <3> QED BY <2>3, <3>1
  <2>4. CASE k # 1
    <3> DEFINE a == n - 1
               b == k - 1
    <3>1. b \in 1 .. len /\ t[k] = s[b] /\ a \in 1 .. len /\ s[a].id = m.next
      BY <1>4, <2>2, <2>4
    <3>2. (k < n => b < a) /\ (k >= n => b >= a)
      BY <1>2
    <3> HIDE DEF a, b
    <3> QED BY <1>2, <3>1, <3>2 DEF InTurn
  <2> QED BY <2>3, <2>4
<1> HIDE DEF G, D
<1>7. InTurn(m, t)
  BY <1>3, <1>5, <1>6 DEF InTurn, G, D
<1> QED BY <1>7 DEF t

\* The next one is handed on.
LEMMA InTurnAdvance ==
    ASSUME HeapType, Unique, NEW m \in Sound, m.next \in Ids(m.port), InTurn(m, list[m.port])
    PROVE  InTurn(Advance(m), list[m.port])
<1> DEFINE p == m.port
           s == list[p]
           len == Len(s)
           a == At(p, m.next)
           next == NextId(p, m.next)
           got == Append(m.got, m.next)
           z == Advance(m)
<1>1. m \in Messages /\ p \in Ports /\ m.got \in Seq(Nat) /\ m.next \in Nat /\ m.due \in SUBSET Nat
  BY MessageFields DEF Sound
<1>2. /\ a \in 1 .. len /\ s[a].id = m.next /\ next \in Nat
      /\ len \in Nat /\ DOMAIN s = 1 .. len /\ s \in Seq(Entry) /\ m.next # 0
  BY <1>1, ListType, AtEntry, IdsType
<1>3. \A i, j \in 1 .. len : s[i].id = s[j].id => i = j
  BY <1>1, <1>2 DEF Unique, Apart
<1>4. \A i \in 1 .. len : s[i].id # 0
  BY <1>1, <1>2, ListType
<1>5. z.next = next /\ z.due = m.due /\ z.got = got /\ got \in Seq(Nat)
  BY <1>1, <1>2 DEF Advance, Message
<1>6. next = IF a = len THEN 0 ELSE s[a + 1].id
  BY DEF NextId
<1>7. ToSet(got) = ToSet(m.got) \cup {m.next} /\ (m.next \notin ToSet(m.got) /\ IsInjective(m.got) => IsInjective(got))
  <2> DEFINE n == Len(m.got)
  <2>1. n \in Nat /\ DOMAIN m.got = 1 .. n /\ DOMAIN got = 1 .. n + 1
    BY <1>1
  <2>2. (\A i \in 1 .. n : got[i] = m.got[i]) /\ got[n + 1] = m.next
    BY <1>1
  <2> HIDE DEF n, got
  <2>3. \A i \in 1 .. n + 1 : i \in 1 .. n \/ i = n + 1
    BY <2>1
  <2>4. \A i \in 1 .. n : i \in 1 .. n + 1
    BY <2>1
  <2>5. n + 1 \in 1 .. n + 1
    BY <2>1
  <2>6. ToSet(got) = ToSet(m.got) \cup {m.next}
    BY <2>1, <2>2, <2>3, <2>4, <2>5 DEF ToSet
  <2>7. m.next \notin ToSet(m.got) /\ IsInjective(m.got) => IsInjective(got)
    BY <2>1, <2>2, <2>3 DEF ToSet, IsInjective
  <2> QED BY <2>6, <2>7
<1> DEFINE G == ToSet(m.got)
           H == ToSet(got)
           D == m.due
<1>8. /\ \A k \in 1 .. len : k < a => (s[k].id \in D => s[k].id \in G)
      /\ \A k \in 1 .. len : k >= a => s[k].id \in D /\ s[k].id \notin G
      /\ m.next \in D /\ m.next \notin G /\ G \subseteq D
  BY <1>2 DEF InTurn
<1>9. IsInjective(got) /\ H \subseteq D /\ H = G \cup {m.next}
  BY <1>7, <1>8 DEF InTurn
<1> HIDE DEF p, s, len, a, next, got, z, G, H, D
<1>10. \A k \in 1 .. len : k <= a => (s[k].id \in D => s[k].id \in H)
  BY <1>2, <1>8, <1>9
<1>11. \A k \in 1 .. len : k > a => s[k].id \in D /\ s[k].id \notin H
  BY <1>2, <1>3, <1>8, <1>9
<1>12. CASE a = len
  <2>1. next = 0
    BY <1>6, <1>12
  <2>2. \A k \in 1 .. len : s[k].id \in D => s[k].id \in H
    BY <1>2, <1>10, <1>12
  <2>3. InTurn(z, s)
    BY <1>2, <1>4, <1>5, <1>9, <2>1, <2>2 DEF InTurn, D, H
  <2> QED BY <2>3 DEF z, s, p
<1>13. CASE a # len
  <2>1. a + 1 \in 1 .. len /\ next = s[a + 1].id
    BY <1>2, <1>6, <1>13
  <2>2. next # 0 /\ next \in D /\ next \notin H
    BY <1>2, <1>4, <1>11, <2>1
  <2>3. ASSUME NEW n \in 1 .. len, NEW k \in 1 .. len, s[n].id = next
        PROVE  /\ k < n => (s[k].id \in D => s[k].id \in H)
               /\ k >= n => s[k].id \in D /\ s[k].id \notin H
    <3>1. n = a + 1
      BY <1>3, <2>1, <2>3
    <3>2. (k < n => k <= a) /\ (k >= n => k > a)
      BY <1>2, <3>1
    <3> QED BY <1>10, <1>11, <3>2
  <2>4. InTurn(z, s)
    BY <1>2, <1>5, <1>9, <2>2, <2>3 DEF InTurn, D, H
  <2> QED BY <2>4 DEF z, s, p
<1> QED BY <1>12, <1>13

\* A send begins.
LEMMA InTurnSending ==
    ASSUME HeapType, Unique, NEW p \in Ports, NEW src \in Ports \cup {NULL}
    PROVE  InTurn(Sending(p, src), list[p])
<1> DEFINE z == Sending(p, src)
           s == list[p]
<1>1. z.next = FirstId(p) /\ z.due = Ids(p) /\ z.got = <<>>
  BY DEF Sending, Message
<1>2. IsInjective(z.got) /\ ToSet(z.got) = {}
  BY <1>1 DEF IsInjective, ToSet
<1>3. CASE ~Alive(p) \/ s = <<>>
  <2>1. z.next = 0 /\ z.due = {}
    <3>1. Ids(p) = {}
      BY <1>3, IdsType, ListType
    <3> QED BY <1>1, <1>3, <3>1, FirstType
  <2>2. \A k \in DOMAIN s : s[k].id # 0
    BY ListType
  <2> HIDE DEF z, s
  <2> QED BY <1>2, <2>1, <2>2 DEF InTurn, z, s
<1>4. CASE Alive(p) /\ s # <<>>
  <2>1. 1 \in DOMAIN s /\ z.next = s[1].id
    BY <1>1, <1>4, FirstType
  <2>2. \A k \in DOMAIN s : s[k].id \in z.due /\ s[k].id # 0 /\ k >= 1
    BY <1>1, <1>4, IdsType, ListType
  <2>3. ASSUME NEW n \in DOMAIN s, NEW k \in DOMAIN s, s[n].id = z.next
        PROVE  /\ k < n => (s[k].id \in z.due => s[k].id \in ToSet(z.got))
               /\ k >= n => s[k].id \in z.due /\ s[k].id \notin ToSet(z.got)
    <3>1. n = 1
      BY <2>1, <2>3 DEF Unique, Apart
    <3>2. ~(k < n)
      BY <3>1, ListType
    <3> HIDE DEF z, s
    <3> QED BY <1>2, <2>2, <3>2
  <2> QED BY <1>2, <2>1, <2>2, <2>3 DEF InTurn
<1> QED BY <1>3, <1>4

\* The messages for which this is so, of the lists l.
Turned(l) == {m \in Sound : m.fn = "send" => InTurn(m, l[m.port])}
Turns == stack \in Seq(Turned(list))

\* While entries go, turns are kept.
LEMMA TurnsRemoved ==
    ASSUME HeapType, NEW p \in Ports, NEW i \in DOMAIN list[p], NEW k,
           k[p] = RemoveAt(list[p], i), \A r \in Ports : r # p => k[r] = list[r]
    PROVE  Turned(list) \subseteq Turned(k)
<1> SUFFICES ASSUME NEW m \in Turned(list), m.fn = "send" PROVE InTurn(m, k[m.port])
  BY DEF Turned
<1>1. m.port \in Ports /\ InTurn(m, list[m.port])
  BY MessageFields DEF Turned, Sound
<1>2. CASE m.port = p
  <2>1. list[p] \in Seq(Entry) /\ InTurn(m, list[p])
    BY <1>1, <1>2, ListType
  <2>2. InTurn(m, RemoveAt(list[p], i))
    BY <2>1, InTurnRemoved
  <2> QED BY <1>2, <2>2
<1>3. CASE m.port # p
  BY <1>1, <1>3
<1> QED BY <1>2, <1>3

\* No send is disturbed when the lists stay.
LEMMA TurnsStay ==
    ASSUME NEW l, NEW k, Turned(l) \subseteq Turned(k), NEW s \in Seq(Turned(l))
    PROVE  s \in Seq(Turned(k))
OBVIOUS

\* No step of the heap disturbs a send.
LEMMA CascadeTurns ==
    ASSUME HeapType, Turns, Cascade, crash' = "none", UNCHANGED stack
    PROVE  Turns'
<1>1. CASE UNCHANGED list
  BY <1>1 DEF Turns
<1>2. ASSUME NEW p \in Ports, NEW i \in DOMAIN list[p], list' = [list EXCEPT ![p] = RemoveAt(@, i)]
      PROVE  Turns'
  <2> DEFINE k == list'
  <2>1. k[p] = RemoveAt(list[p], i) /\ \A r \in Ports : r # p => k[r] = list[r]
    BY <1>2 DEF HeapType
  <2> HIDE DEF k
  <2>2. Turned(list) \subseteq Turned(k)
    BY <2>1, TurnsRemoved
  <2>3. stack \in Seq(Turned(k))
    BY <2>2, TurnsStay DEF Turns
  <2> QED BY <2>3 DEF Turns, k
<1>3. CASE Destroy
  <2> DEFINE p == Last(calls).port
  <2>1. p \in Ports
    BY <1>3, TopCall DEF Destroy, Top
  <2>2. CASE list[p] = <<>>
    BY <1>1, <1>3, <2>2 DEF Destroy
  <2>3. CASE list[p] # <<>>
    <3>1. 1 \in DOMAIN list[p] /\ Tail(list[p]) = RemoveAt(list[p], 1)
      BY <2>1, <2>3, ListType, TailRemoves
    <3>2. list' = [list EXCEPT ![p] = RemoveAt(@, 1)]
      BY <1>3, <2>3, <3>1 DEF Destroy
    <3> QED BY <1>2, <2>1, <3>1, <3>2
  <2> QED BY <2>2, <2>3
<1>4. CASE Unlink
  <2> DEFINE f == Last(calls)
  <2>1. f.port \in Ports
    BY <1>4, TopCall DEF Unlink, Top
  <2>2. /\ f.entry \in Ids(f.port)
        /\ list' = [list EXCEPT ![f.port] = RemoveAt(@, At(f.port, f.entry))]
    BY <1>4 DEF Unlink, Crash
  <2>3. At(f.port, f.entry) \in DOMAIN list[f.port]
    BY <2>1, <2>2, AtEntry
  <2> QED BY <1>2, <2>1, <2>2, <2>3
<1>5. CASE MIDIPortRelease \/ Drop \/ Apply("check") \/ Apply("disconnect") \/ MIDIListRemove
  BY <1>1, <1>5 DEF MIDIPortRelease, Drop, Apply, MIDIListRemove
<1> QED BY <1>3, <1>4, <1>5 DEF Cascade

\* A new entry is at an address that no message remembers.
LEMMA ConnectTurns ==
    ASSUME Typed, Turns, NEW p \in Ports, NEW t \in Ports, MIDIPortConnect(p, t), crash' = "none"
    PROVE  Turns'
<1> DEFINE e == [id |-> NewId, port |-> t]
           k == list'
<1>1. Idle /\ MIDIListAdd(p, t, NewId) /\ UNCHANGED stack
  BY DEF MIDIPortConnect, Asks
<1>2. list' = [list EXCEPT ![p] = <<e>> \o @]
  BY <1>1 DEF MIDIListAdd
<1>3. e \in Entry /\ e.id = NewId
  BY NewIdFresh DEF Entry
<1> HIDE DEF e
<1>4. k[p] = <<e>> \o list[p] /\ (\A r \in Ports : r # p => k[r] = list[r]) /\ list[p] \in Seq(Entry)
  BY <1>2, TypedFacts DEF HeapType
<1>5. stack \in Seq(Turned(list)) /\ DOMAIN stack = 1 .. Len(stack) /\ Len(stack) \in Nat
  BY DEF Turns
<1> HIDE DEF k
<1>6. ASSUME NEW i \in 1 .. Len(stack) PROVE stack[i] \in Turned(k)
  <2> DEFINE m == stack[i]
  <2>1. m \in Turned(list) /\ m \in Sound
    BY <1>5 DEF Turned
  <2>2. m.port \in Ports
    BY <2>1, MessageFields DEF Sound
  <2>3. NewId \notin m.due
    BY <1>5, NewIdFresh DEF Remembered, ToSet
  <2> HIDE DEF m
  <2>4. ASSUME m.fn = "send" PROVE InTurn(m, k[m.port])
    <3>1. InTurn(m, list[m.port])
      BY <2>1, <2>4 DEF Turned
    <3>2. CASE m.port = p
      BY <1>3, <1>4, <2>3, <3>1, <3>2, InTurnAdded
    <3>3. CASE m.port # p
      BY <1>4, <2>2, <3>1, <3>3
    <3> QED BY <3>2, <3>3
  <2> QED BY <2>1, <2>4 DEF Turned, m
<1>7. stack \in Seq(Turned(k))
  BY <1>5, <1>6
<1> QED BY <1>1, <1>7 DEF Turns, k

\* The messages that begin are in turn.
LEMMA MessagesTurned ==
    ASSUME HeapType, Unique, NEW p \in Ports, NEW src \in Ports \cup {NULL}
    PROVE  Sending(p, src) \in Turned(list) /\ Receiving(p, src) \in Turned(list) /\ Echoing(p, src) \in Turned(list)
<1>1. Sending(p, src).fn = "send" /\ Sending(p, src).port = p
  BY DEF Sending, Message
<1>2. Receiving(p, src).fn = "receive" /\ Echoing(p, src).fn = "echo"
  BY DEF Receiving, Echoing, Message
<1> QED BY <1>1, <1>2, MessagesSound, InTurnSending DEF Turned

\* What the receive function of p adds.
LEMMA ReceiveTurned ==
    ASSUME HeapType, Unique, Turns, NEW p \in Ports, NEW src \in Ports \cup {NULL},
           NEW rest \in Seq(Turned(list)), ReceiveFrom(p, src, rest), crash' = "none"
    PROVE  stack' \in Seq(Turned(list))
<1> DEFINE a == Receiving(p, src)
           b == Echoing(p, src)
<1>1. a \in Turned(list) /\ b \in Turned(list)
  BY MessagesTurned
<1>2. stack' = rest \/ stack' = Append(rest, a) \/ stack' = Append(rest, b)
  BY DEF ReceiveFrom
<1> HIDE DEF a, b
<1> QED BY <1>1, <1>2

\* The steps of a message.
LEMMA DeliveryTurns ==
    ASSUME Typed, Unique, Turns, Delivery, crash' = "none"
    PROVE  Turns'
<1> DEFINE m == Last(stack)
           t == Front(stack)
           p == m.port
<1>1. HeapType /\ stack \in Seq(Turned(list)) /\ stack # <<>> /\ UNCHANGED list /\ stack \in Seq(Sound)
  BY TypedFacts DEF Turns, Delivery, SendNext, SendDone, Echo, Return, OnTop, heap
<1>2. t \in Seq(Turned(list)) /\ m \in Turned(list)
  BY <1>1, FrontLast
<1>3. p \in Ports /\ m.src \in Ports \cup {NULL} /\ m \in Sound
  BY <1>1, TopMessage
<1>4. Sending(p, p) \in Turned(list) /\ Sending(p, m.src) \in Turned(list) /\ Receiving(p, m.src) \in Turned(list)
  BY <1>1, <1>3, MessagesTurned
<1> SUFFICES stack' \in Seq(Turned(list))
  BY <1>1 DEF Turns
<1>5. CASE SendNext
  <2> DEFINE item == Item(p, m.next)
             z == Advance(m)
             rest == Append(t, z)
  <2>1. m.next \in Ids(p) /\ m.fn = "send"
    BY <1>5 DEF SendNext, OnTop
  <2>2. item \in Ports
    BY <1>1, <1>3, <2>1, AtEntry
  <2>3. z \in Turned(list)
    <3>1. InTurn(z, list[p])
      BY <1>1, <1>2, <1>3, <2>1, InTurnAdvance DEF Turned
    <3>2. z.port = p /\ z.due = m.due /\ z \in Messages
      <4> DEFINE got == Append(m.got, m.next)
                 n == NextId(p, m.next)
      <4>1. /\ got \in Seq(Nat) /\ n \in Nat /\ m.due \in SUBSET Nat
        BY <1>1, <1>3, <2>1, AtEntry, TopMessage
      <4>2. z = Message("send", p, m.src, n, m.due, got)
        BY DEF Advance
      <4> HIDE DEF got, n, z
      <4> QED BY <1>3, <4>1, <4>2 DEF Message, Messages
    <3>3. z \in Sound
      BY <1>3, <3>2 DEF Sound
    <3> QED BY <3>1, <3>2, <3>3 DEF Turned
  <2>4. rest \in Seq(Turned(list))
    <3> HIDE DEF t, z
    <3> QED BY <1>2, <2>3
  <2>5. stack' = rest \/ ReceiveFrom(item, m.src, rest)
    BY <1>5, <2>1 DEF SendNext
  <2> HIDE DEF rest, item
  <2> QED BY <1>1, <1>3, <2>2, <2>4, <2>5, ReceiveTurned
<1>6. CASE SendDone \/ Echo \/ Return
  <2> DEFINE a == Sending(p, p)
             b == Sending(p, m.src)
             c == Receiving(p, m.src)
  <2>1. \/ stack' = t \/ stack' = Append(t, b) \/ stack' = Append(t, c)
        \/ stack' = Append(Append(t, c), a)
    <3>1. CASE SendDone
      BY <3>1 DEF SendDone, Pop
    <3>2. CASE Echo
      BY <3>2 DEF Echo
    <3>3. CASE Return
      BY <3>3 DEF Return, Passthrough, Pop, Replace
    <3> QED BY <1>6, <3>1, <3>2, <3>3
  <2>2. a \in Turned(list) /\ b \in Turned(list) /\ c \in Turned(list)
    BY <1>4
  <2> HIDE DEF t, a, b, c
  <2> QED BY <1>2, <2>1, <2>2
<1> QED BY <1>5, <1>6 DEF Delivery

\* Every step keeps the turns of every message under way.
LEMMA TurnsHold ==
    ASSUME Safe, crash = "none" => Counted /\ Turns, [Next]_vars, crash' = "none"
    PROVE  Turns'
<1>1. Typed /\ HeapType
  BY TypedFacts DEF Safe
<1>2. CASE UNCHANGED vars
  BY <1>2 DEF vars, heap, Turns
<1>3. CASE Beneath
  <2>1. crash = "none"
    BY <1>3 DEF Beneath, Cascade, MIDIPortRelease, Drop, Destroy, Apply, MIDIListRemove, Unlink, Top, Working
  <2>2. Cascade /\ UNCHANGED stack
    BY <1>3 DEF Beneath
  <2> QED BY <1>1, <2>1, <2>2, CascadeTurns
<1>4. CASE Delivery
  <2>1. Idle
    BY <1>4 DEF Delivery, SendNext, SendDone, Echo, Return
  <2> QED BY <1>1, <1>4, <2>1, DeliveryTurns DEF Idle, Counted
<1>5. CASE Application
  <2>1. Idle
    BY <1>5 DEF Application, MIDIPortConnect, MIDIPortDisconnect, MIDIPortSendTo, MIDIPortDisconnectAll,
                MIDIPortInvalidate, Release, Retain, MIDIPortReceive, MIDIPortSend, MIDIDriverRetain,
                MIDIDriverRelease, Asks
  <2>2. Unique /\ Turns
    BY <2>1 DEF Idle, Counted
  <2>3. ASSUME NEW p \in Ports, NEW t \in Ports, MIDIPortConnect(p, t) PROVE Turns'
    BY <1>1, <2>2, <2>3, ConnectTurns
  <2>4. ASSUME NEW p \in Ports, NEW t \in Ports, MIDIPortSendTo(p, t) \/ MIDIPortReceive(p) PROVE Turns'
    <3>1. UNCHANGED list /\ (ReceiveFrom(t, p, stack) \/ ReceiveFrom(p, NULL, stack))
      BY <2>4 DEF MIDIPortSendTo, MIDIPortReceive
    <3>2. stack' \in Seq(Turned(list))
      BY <1>1, <2>2, <3>1, ReceiveTurned DEF Turns
    <3> QED BY <3>1, <3>2 DEF Turns
  <2>5. ASSUME NEW p \in Ports, MIDIPortSend(p) PROVE Turns'
    <3> DEFINE a == Sending(p, p)
    <3>1. UNCHANGED list /\ stack' = Append(stack, a)
      BY <2>5 DEF MIDIPortSend, Push, heap
    <3>2. a \in Turned(list)
      BY <1>1, <2>2, MessagesTurned
    <3> HIDE DEF a
    <3> QED BY <2>2, <3>1, <3>2 DEF Turns
  <2>6. ASSUME NEW p \in Ports, NEW t \in Ports,
               \/ MIDIPortDisconnect(p, t) \/ MIDIPortDisconnectAll(p) \/ MIDIPortInvalidate(p)
               \/ Release(p) \/ Retain(p) \/ MIDIDriverRetain(p) \/ MIDIDriverRelease(p)
        PROVE  Turns'
    <3>1. UNCHANGED <<list, stack>>
      BY <2>6 DEF MIDIPortDisconnect, MIDIPortDisconnectAll, MIDIPortInvalidate, Release, Retain,
                  MIDIDriverRetain, MIDIDriverRelease, heap
    <3> QED BY <2>2, <3>1 DEF Turns
  <2> QED BY <1>5, <2>3, <2>4, <2>5, <2>6 DEF Application
<1> QED BY <1>2, <1>3, <1>4, <1>5 DEF Next

\* All of this in every state.
LEMMA AllTurnsHold == Spec => [](Safe /\ (crash = "none" => Counted /\ Turns))
<1>1. Safe /\ (crash = "none" => Counted /\ Turns) /\ [Next]_vars => (crash = "none" => Turns)'
  BY TurnsHold
<1>2. Init => Turns
  BY DEF Init, Turns
<1>3. (crash = "none" => Counted /\ Turns) <=> (crash = "none" => Counted) /\ (crash = "none" => Turns)
  OBVIOUS
<1> QED BY <1>1, <1>2, <1>3, CountsHold, PTL DEF Spec

\* Each target that stays connected while a message is sent gets it exactly once,
\* whatever the callbacks connect, disconnect and release meanwhile.
THEOREM EachOnceCorrect == Spec => []EachOnce
<1>1. Safe /\ (crash = "none" => Counted /\ Turns) => EachOnce
  <2> SUFFICES ASSUME Typed, Turns, OnTop("send")
               PROVE  /\ IsInjective(Last(stack).got)
                      /\ ToSet(Last(stack).got) \subseteq Last(stack).due
                      /\ Last(stack).next = 0 =>
                             Last(stack).due \cap Ids(Last(stack).port) \subseteq ToSet(Last(stack).got)
    BY DEF EachOnce, Safe, Idle
  <2> DEFINE m == Last(stack)
  <2>1. stack # <<>> /\ m.fn = "send" /\ stack \in Seq(Sound) /\ HeapType
    BY TypedFacts DEF OnTop
  <2>2. m \in Turned(list) /\ m.port \in Ports
    BY <2>1, FrontLast, TopMessage DEF Turns
  <2>3. InTurn(m, list[m.port])
    BY <2>1, <2>2 DEF Turned
  <2>4. ASSUME m.next = 0, NEW id \in m.due \cap Ids(m.port) PROVE id \in ToSet(m.got)
    <3>1. PICK k \in DOMAIN list[m.port] : list[m.port][k].id = id
      BY <2>1, <2>2, <2>4, IdsType
    <3> QED BY <2>3, <2>4, <3>1 DEF InTurn
  <2> QED BY <2>3, <2>4 DEF InTurn
<1> QED BY <1>1, AllTurnsHold, PTL

-----------------------------------------------------------------------------
(* What is released is reclaimed. *)

\* A destroyed port that has entries left is being destroyed.
Ending(c, p) == \E i \in DOMAIN c : c[i].do = "destroy" /\ c[i].port = p
Dying == \A p \in Ports : refs[p] = 0 /\ list[p] # <<>> => Ending(calls, p)

\* The items that the call g removes from the list of p.
Excused(g, p) == IF g.do \in {"remove", "unlink"} /\ g.port = p THEN {g.item} ELSE {}

\* The entries of the list s before the entry id lead to ports in X only. They are
\* all of s if id is null, and an entry that is not in s stops the program.
Covered(id, X, s) ==
    (id = 0 \/ \E n \in DOMAIN s : s[n].id = id) =>
        \A k \in DOMAIN s : (\E n \in DOMAIN s : n <= k /\ s[n].id = id) \/ s[k].port \in X

\* The i-th of the calls c empties the list s of p; the call on top of it removes
\* the entries before the next one.
Above(c, i, p) == IF i = Len(c) THEN {} ELSE Excused(c[i + 1], p)
Walks(c, i, p, s) == c[i].do = "disconnect" /\ c[i].port = p /\ Covered(c[i].entry, Above(c, i, p), s)

\* An invalid port that has entries left is being disconnected.
Emptying(c, p, s) == \E i \in DOMAIN c : Walks(c, i, p, s)
Dissolving == \A p \in Ports : refs[p] > 0 /\ ~Valid(p) /\ list[p] # <<>> => Emptying(calls, p, list[p])

\* An entry is gone, or none.
Shrinks(s, r) == r = s \/ \E j \in DOMAIN s : r = RemoveAt(s, j)

\* What is covered stays covered.
LEMMA CoveredShrinks ==
    ASSUME NEW s \in Seq(Entry), Apart(s), NEW r, Shrinks(s, r), NEW id, NEW X, NEW Y, Covered(id, X, s),
           \A k \in DOMAIN r : r[k].port \in X => r[k].port \in Y
    PROVE  Covered(id, Y, r)
<1>1. CASE r = s
  BY <1>1 DEF Covered
<1>2. ASSUME NEW j \in DOMAIN s, r = RemoveAt(s, j) PROVE Covered(id, Y, r)
  <2> DEFINE len == Len(s)
  <2>1. /\ r \in Seq(Entry) /\ Len(r) = len - 1 /\ len \in Nat /\ j \in 1 .. len /\ DOMAIN s = 1 .. len
        /\ \A k \in 1 .. len - 1 : r[k] = IF k < j THEN s[k] ELSE s[k + 1]
    <3>1. len \in Nat /\ j \in 1 .. len /\ DOMAIN s = 1 .. len
      OBVIOUS
    <3>2. /\ RemoveAt(s, j) \in Seq(Entry) /\ Len(RemoveAt(s, j)) = Len(s) - 1
          /\ \A k \in 1 .. Len(s) - 1 : RemoveAt(s, j)[k] = IF k < j THEN s[k] ELSE s[k + 1]
      BY Removed
    <3> QED BY <1>2, <3>1, <3>2
  <2>2. DOMAIN r = 1 .. len - 1
    BY <2>1
  <2> HIDE DEF len
  <2> SUFFICES ASSUME id = 0 \/ \E n \in DOMAIN r : r[n].id = id, NEW k \in DOMAIN r, r[k].port \notin Y
               PROVE  \E n \in DOMAIN r : n <= k /\ r[n].id = id
    BY DEF Covered
  <2> DEFINE old(n) == IF n < j THEN n ELSE n + 1
  <2>3. \A n \in DOMAIN r : old(n) \in DOMAIN s /\ r[n] = s[old(n)]
    BY <2>1, <2>2
  <2>4. id = 0 \/ \E n \in DOMAIN s : s[n].id = id
    BY <2>3
  <2>5. s[old(k)].port \notin X
    BY <2>3
  <2>6. PICK n \in DOMAIN s : n <= old(k) /\ s[n].id = id
    BY <2>3, <2>4, <2>5 DEF Covered
  <2>7. s[n].id # 0
    <3>1. s[n] \in Entry
      OBVIOUS
    <3> QED BY <3>1 DEF Entry
  <2>8. PICK m \in DOMAIN r : r[m].id = id
    BY <2>6, <2>7
  <2>9. old(m) = n /\ old(m) \in DOMAIN s
    BY <2>3, <2>6, <2>8 DEF Apart
  <2>10. m \in Nat /\ k \in Nat /\ j \in Nat
    BY <2>1, <2>2
  <2>11. m <= k
    BY <2>6, <2>9, <2>10
  <2> QED BY <2>8, <2>11
<1> QED BY <1>1, <1>2 DEF Shrinks

\* The calls d are the calls c, but for the one on top.
Below(c, d) == Len(c) - 1 <= Len(d) /\ \A i \in 1 .. Len(c) - 1 : d[i] = c[i]

\* What a step of the heap does to the port p: the entries that go are those that
\* the call on top is there to take, and what it leaves is left to other calls.
Tidy(p) ==
    LET f == Last(calls) IN
    /\ Shrinks(list[p], list'[p])
    /\ refs'[p] > 0 => refs[p] > 0
    /\ (refs[p] > 0 \/ (f.do = "destroy" /\ f.port = p)) /\ refs'[p] = 0 /\ list'[p] # <<>> => Ending(calls', p)
    /\ refs'[p] > 0 =>
         /\ \A k \in DOMAIN list'[p] :
               list'[p][k].port \in Excused(f, p) => list'[p][k].port \in Above(calls', Len(calls) - 1, p)
         /\ f.do = "disconnect" /\ f.port = p /\ list'[p] # <<>> /\ Covered(f.entry, {}, list[p]) =>
               Emptying(calls', p, list'[p])

\* A step that is tidy.
LEMMA TidyDying ==
    ASSUME HeapType, Working, Dying, calls' \in Seq(Frames), Below(calls, calls'), \A p \in Ports : Tidy(p)
    PROVE  Dying'
<1> SUFFICES ASSUME NEW p \in Ports, refs'[p] = 0, list'[p] # <<>> PROVE Ending(calls', p)
  BY DEF Dying, Ending
<1> DEFINE n == Len(calls)
           c == calls'
<1>1. /\ n \in Nat \ {0} /\ DOMAIN calls = 1 .. n /\ Last(calls) = calls[n]
  BY TopCall, FrontLast
<1>2. refs[p] \in Nat /\ Tidy(p)
  BY ListType
<1>3. CASE refs[p] > 0
  <2>1. refs[p] > 0 \/ (Last(calls).do = "destroy" /\ Last(calls).port = p)
    BY <1>3
  <2> QED BY <1>2, <2>1 DEF Tidy
<1>4. CASE refs[p] = 0
  <2>1. list[p] \in Seq(Entry)
    BY ListType
  <2>2. list[p] # <<>>
    <3>1. Shrinks(list[p], list'[p])
      BY <1>2 DEF Tidy
    <3> QED BY <3>1 DEF Shrinks
  <2>3. PICK i \in DOMAIN calls : calls[i].do = "destroy" /\ calls[i].port = p
    BY <1>4, <2>2 DEF Dying, Ending
  <2>4. CASE i = n
    BY <1>1, <1>2, <2>3, <2>4 DEF Tidy
  <2>5. CASE i # n
    <3>1. i \in 1 .. n - 1 /\ n - 1 <= Len(c) /\ c[i] = calls[i] /\ Len(c) \in Nat /\ DOMAIN c = 1 .. Len(c)
      BY <1>1, <2>5 DEF Below
    <3> HIDE DEF n, c
    <3>2. i \in DOMAIN c
      BY <1>1, <3>1
    <3> QED BY <2>3, <3>1, <3>2 DEF Ending, c
  <2> QED BY <2>4, <2>5
<1> QED BY <1>2, <1>3, <1>4

\* So is this.
LEMMA TidyDissolving ==
    ASSUME HeapType, Working, Unique, Dissolving, calls' \in Seq(Frames), UNCHANGED mode,
           Below(calls, calls'), \A p \in Ports : Tidy(p)
    PROVE  Dissolving'
<1> DEFINE n == Len(calls)
           c == calls'
           f == Last(calls)
<1> SUFFICES ASSUME NEW p \in Ports, refs'[p] > 0, ~Valid(p), list'[p] # <<>>
             PROVE  Emptying(c, p, list'[p])
  BY DEF Dissolving, Valid, Emptying, Walks, Above
<1>1. /\ n \in Nat \ {0} /\ DOMAIN calls = 1 .. n /\ f = calls[n]
      /\ DOMAIN c = 1 .. Len(c) /\ Len(c) \in Nat
  BY TopCall, FrontLast
<1>2. Tidy(p) /\ list[p] \in Seq(Entry) /\ Apart(list[p])
  BY ListType DEF Unique
<1>3. Shrinks(list[p], list'[p]) /\ refs[p] > 0
  BY <1>2 DEF Tidy
<1>4. list[p] # <<>>
  BY <1>2, <1>3 DEF Shrinks
<1>5. PICK i \in DOMAIN calls : Walks(calls, i, p, list[p])
  BY <1>3, <1>4 DEF Dissolving, Emptying
<1>6. CASE i = n
  <2>1. f.do = "disconnect" /\ f.port = p /\ Covered(f.entry, {}, list[p])
    BY <1>1, <1>5, <1>6 DEF Walks, Above
  <2> QED BY <1>2, <2>1 DEF Tidy
<1>7. CASE i # n
  <2>1. i \in 1 .. n - 1 /\ n - 1 <= Len(c) /\ c[i] = calls[i]
    BY <1>1, <1>7 DEF Below
  <2>2. i \in DOMAIN c
    <3> HIDE DEF n, c
    <3> QED BY <1>1, <2>1
  <2>3. c[i].do = "disconnect" /\ c[i].port = p /\ Covered(c[i].entry, Above(calls, i, p), list[p])
    BY <1>5, <2>1 DEF Walks
  <2>4. \A k \in DOMAIN list'[p] :
           list'[p][k].port \in Above(calls, i, p) => list'[p][k].port \in Above(c, i, p)
    <3>1. CASE i < n - 1
      <4>1. i + 1 \in 1 .. n - 1 /\ i # Len(calls)
        BY <1>1, <2>1, <3>1
      <4>2. c[i + 1] = calls[i + 1] /\ i # Len(c)
        BY <1>1, <2>1, <3>1, <4>1 DEF Below
      <4> QED BY <4>1, <4>2 DEF Above
    <3>2. CASE i = n - 1
      <4>1. i # n /\ i + 1 = n
        <5> HIDE DEF n, c, f
        <5> QED BY <1>1, <3>2
      <4>2. Above(calls, i, p) = Excused(f, p)
        BY <1>1, <4>1 DEF Above
      <4> QED BY <1>2, <3>2, <4>2 DEF Tidy
    <3> QED BY <1>1, <2>1, <3>1, <3>2
  <2>5. Covered(c[i].entry, Above(c, i, p), list'[p])
    BY <1>2, <1>3, <2>3, <2>4, CoveredShrinks
  <2> QED BY <2>2, <2>3, <2>5 DEF Emptying, Walks
<1> QED BY <1>6, <1>7

\* The call on top of c has become the calls s.
Became(c, s, d) ==
    /\ d \in Seq(Frames) /\ Below(c, d) /\ Len(c) \in Nat \ {0}
    /\ Len(d) = Len(c) - 1 + Len(s) /\ \A j \in 1 .. Len(s) : d[Len(c) - 1 + j] = s[j]

\* This is what Become does.
LEMMA BecomeBelow ==
    ASSUME HeapType, Working, NEW s \in Seq(Frames), Become(s), crash' = "none"
    PROVE  Became(calls, s, calls')
<1> DEFINE t == Front(calls)
           n == Len(calls)
           c == calls'
<1>1. t \in Seq(Frames) /\ n \in Nat \ {0} /\ Len(t) = n - 1 /\ \A i \in 1 .. n - 1 : t[i] = calls[i]
  BY TopCall, FrontLast
<1>2. c = t \o s
  BY BecomeOutcome
<1>3. Len(s) \in Nat
  OBVIOUS
<1> HIDE DEF t, n, c
<1>4. /\ c \in Seq(Frames) /\ Len(c) = Len(t) + Len(s)
      /\ \A i \in 1 .. Len(t) + Len(s) : c[i] = IF i <= Len(t) THEN t[i] ELSE s[i - Len(t)]
  BY <1>1, <1>2, ConcatProperties
<1>5. \A i \in 1 .. n - 1 : c[i] = calls[i]
  BY <1>1, <1>3, <1>4
<1>6. \A j \in 1 .. Len(s) : c[n - 1 + j] = s[j]
  <2> SUFFICES ASSUME NEW j \in 1 .. Len(s) PROVE c[n - 1 + j] = s[j]
    OBVIOUS
  <2>1. n - 1 + j \in 1 .. Len(t) + Len(s) /\ ~(n - 1 + j <= Len(t)) /\ (n - 1 + j) - Len(t) = j
    BY <1>1, <1>3
  <2> QED BY <1>4, <2>1
<1>7. Below(calls, c)
  BY <1>1, <1>3, <1>4, <1>5 DEF Below, n
<1> QED BY <1>1, <1>3, <1>4, <1>6, <1>7 DEF Became, n, c

\* Calls that take no entries from a list.
LEMMA NeutralTidy ==
    ASSUME UNCHANGED list, Last(calls).do \in {"release", "drop", "check"},
           NEW p \in Ports, refs'[p] > 0 => refs[p] > 0, refs[p] > 0 /\ refs'[p] = 0 => Ending(calls', p)
    PROVE  Tidy(p)
<1>1. Shrinks(list[p], list'[p])
  BY DEF Shrinks
<1>2. Excused(Last(calls), p) = {}
  BY DEF Excused
<1> QED BY <1>1, <1>2 DEF Tidy

\* MIDIPortRelease is tidy.
LEMMA ReleaseTidy ==
    ASSUME HeapType, MIDIPortRelease, crash' = "none"
    PROVE  Below(calls, calls') /\ \A q \in Ports : Tidy(q)
<1> DEFINE p == Last(calls).port
           a == Call("drop", p)
           b == Walk("check", p)
<1>1. Working /\ p \in Ports /\ Last(calls).do = "release" /\ UNCHANGED <<refs, list>>
  BY TopCall DEF MIDIPortRelease, Top
<1>2. a \in Frames /\ b \in Frames
  BY <1>1, FirstType, FrameType DEF Call, Walk, Steps
<1>3. Become(<<a, b>>) \/ Become(<<a>>)
  BY DEF MIDIPortRelease, Crash
<1>4. Below(calls, calls')
  <2> HIDE DEF a, b
  <2>1. <<a, b>> \in Seq(Frames) /\ <<a>> \in Seq(Frames)
    BY <1>2
  <2>2. Became(calls, <<a, b>>, calls') \/ Became(calls, <<a>>, calls')
    BY <1>1, <1>3, <2>1, BecomeBelow
  <2> QED BY <2>2 DEF Became
<1>5. ASSUME NEW q \in Ports PROVE Tidy(q)
  <2>1. refs'[q] = refs[q] /\ refs[q] \in Nat
    BY <1>1, ListType
  <2> QED BY <1>1, <2>1, NeutralTidy
<1> QED BY <1>4, <1>5

\* So is dropping a reference,
LEMMA DropTidy ==
    ASSUME HeapType, Drop, crash' = "none"
    PROVE  Below(calls, calls') /\ \A q \in Ports : Tidy(q)
<1> DEFINE p == Last(calls).port
           a == Call("destroy", p)
<1>1. Working /\ p \in Ports /\ Last(calls).do = "drop" /\ UNCHANGED list
  BY TopCall DEF Drop, Top
<1>2. a \in Frames /\ a.do = "destroy" /\ a.port = p
  BY <1>1, FrameType DEF Call, Steps
<1>3. refs' = [refs EXCEPT ![p] = @ - 1] /\ Become(IF refs[p] = 1 THEN <<a>> ELSE <<>>)
  BY DEF Drop, Decrement, Crash
<1> HIDE DEF a
<1>4. Below(calls, calls')
  <2>1. <<a>> \in Seq(Frames) /\ <<>> \in Seq(Frames) /\ (Become(<<a>>) \/ Become(<<>>))
    BY <1>2, <1>3
  <2>2. Became(calls, <<a>>, calls') \/ Became(calls, <<>>, calls')
    BY <1>1, <2>1, BecomeBelow
  <2> QED BY <2>2 DEF Became
<1>5. ASSUME NEW q \in Ports PROVE Tidy(q)
  <2>1. refs[q] \in Nat /\ refs'[q] = IF q = p THEN refs[q] - 1 ELSE refs[q]
    BY <1>1, <1>3, ListType DEF HeapType
  <2>2. ASSUME refs[q] > 0, refs'[q] = 0 PROVE Ending(calls', q)
    <3>1. q = p /\ Become(<<a>>)
      BY <1>3, <2>1, <2>2
    <3>2. <<a>> \in Seq(Frames) /\ Len(<<a>>) = 1 /\ <<a>>[1] = a
      BY <1>2
    <3> DEFINE n == Len(calls)
               c == calls'
    <3>3. Became(calls, <<a>>, c)
      BY <1>1, <3>1, <3>2, BecomeBelow
    <3>5. c \in Seq(Frames) /\ n \in Nat \ {0} /\ Len(c) = n - 1 + 1 /\ c[n - 1 + 1] = a
      BY <3>2, <3>3 DEF Became
    <3> HIDE DEF n, c
    <3>4. n \in DOMAIN c /\ c[n] = a
      BY <3>5
    <3> QED BY <1>2, <3>1, <3>4 DEF Ending, c
  <2>3. refs'[q] > 0 => refs[q] > 0
    BY <2>1
  <2> QED BY <1>1, <2>2, <2>3, NeutralTidy
<1> QED BY <1>4, <1>5

\* MIDIListDestroy,
LEMMA DestroyTidy ==
    ASSUME HeapType, Destroy, crash' = "none"
    PROVE  Below(calls, calls') /\ \A q \in Ports : Tidy(q)
<1> DEFINE f == Last(calls)
           p == f.port
           a == Call("release", Head(list[p]).port)
<1>1. Working /\ p \in Ports /\ f.do = "destroy" /\ f \in Frames /\ UNCHANGED refs
  BY TopCall DEF Destroy, Top
<1>2. ASSUME NEW q \in Ports, Shrinks(list[q], list'[q]), q = p /\ list'[q] # <<>> => Ending(calls', q)
      PROVE  Tidy(q)
  <2>1. Excused(f, q) = {}
    BY <1>1 DEF Excused
  <2>2. refs'[q] = refs[q] /\ refs[q] \in Nat
    BY <1>1, ListType
  <2> QED BY <1>1, <1>2, <2>1, <2>2 DEF Tidy
<1>3. CASE list[p] = <<>>
  <2>1. Become(<<>>) /\ UNCHANGED list /\ <<>> \in Seq(Frames)
    BY <1>3 DEF Destroy
  <2>2. Below(calls, calls')
    BY <1>1, <2>1, BecomeBelow DEF Became
  <2>3. ASSUME NEW q \in Ports PROVE Tidy(q)
    BY <1>2, <1>3, <2>1 DEF Shrinks
  <2> QED BY <2>2, <2>3
<1>4. CASE list[p] # <<>>
  <2>1. list[p] \in Seq(Entry) /\ 1 \in DOMAIN list[p] /\ Tail(list[p]) = RemoveAt(list[p], 1)
        /\ Head(list[p]) = list[p][1]
    BY <1>1, <1>4, ListType, TailRemoves
  <2>2. a \in Frames
    <3>1. Head(list[p]).port \in Ports
      BY <1>1, <2>1, ListType
    <3> QED BY <3>1, FrameType DEF Call, Steps
  <2>3. Become(<<f, a>>) /\ list' = [list EXCEPT ![p] = RemoveAt(@, 1)]
    BY <1>4, <2>1 DEF Destroy, Freed
  <2> HIDE DEF f, a
  <2>4. <<f, a>> \in Seq(Frames) /\ Len(<<f, a>>) = 2 /\ <<f, a>>[1] = f
    BY <1>1, <2>2
  <2> DEFINE n == Len(calls)
             c == calls'
  <2>5. c \in Seq(Frames) /\ Below(calls, c) /\ n \in Nat \ {0} /\ Len(c) = n - 1 + 2 /\ c[n - 1 + 1] = f
    <3>1. Became(calls, <<f, a>>, c)
      BY <1>1, <2>3, <2>4, BecomeBelow
    <3> QED BY <2>4, <3>1 DEF Became
  <2>6. Ending(c, p)
    <3> HIDE DEF n, c
    <3>1. n \in DOMAIN c /\ c[n] = f
      BY <2>5
    <3> QED BY <1>1, <3>1 DEF Ending
  <2>7. ASSUME NEW q \in Ports PROVE Shrinks(list[q], list'[q])
    BY <2>1, <2>3 DEF Shrinks, HeapType
  <2> QED BY <1>2, <2>5, <2>6, <2>7
<1> QED BY <1>3, <1>4

\* A walk goes on: the entry it comes from is all that is left before the next one.
LEMMA CoveredNext ==
    ASSUME HeapType, Unique, NEW p \in Ports, NEW id \in Ids(p), Covered(id, {}, list[p])
    PROVE  Covered(NextId(p, id), {Item(p, id)}, list[p])
<1> DEFINE s == list[p]
           len == Len(s)
           a == At(p, id)
           next == NextId(p, id)
<1>1. /\ len \in Nat /\ DOMAIN s = 1 .. len /\ a \in 1 .. len /\ s[a].id = id
      /\ Item(p, id) = s[a].port
  BY ListType, AtEntry
<1>2. \A i, j \in 1 .. len : s[i].id = s[j].id => i = j
  BY <1>1 DEF Unique, Apart
<1>3. next = IF a = len THEN 0 ELSE s[a + 1].id
  BY DEF NextId
<1> HIDE DEF s, len, a, next
<1>4. ASSUME NEW k \in 1 .. len, k # a PROVE \E n \in 1 .. len : n <= k /\ s[n].id = next
  <2>1. PICK n \in 1 .. len : n <= k /\ s[n].id = id
    BY <1>1, <1>4 DEF Covered, s
  <2>2. n = a
    BY <1>1, <1>2, <2>1
  <2>3. a # len /\ a + 1 \in 1 .. len /\ a + 1 <= k
    BY <1>1, <1>4, <2>1, <2>2
  <2>4. next = s[a + 1].id
    BY <1>3, <2>3
  <2> QED BY <2>3, <2>4
<1>5. \A k \in DOMAIN s : (\E n \in DOMAIN s : n <= k /\ s[n].id = next) \/ s[k].port \in {Item(p, id)}
  BY <1>1, <1>4
<1> QED BY <1>5 DEF Covered, s, next

\* A port that is disconnected goes on to be.
LEMMA EmptyingGoesOn ==
    ASSUME HeapType, Unique, NEW p \in Ports, NEW id \in Ids(p), Covered(id, {}, list[p]),
           NEW c, NEW d, NEW a \in Frames, a.do = "disconnect", a.port = p, a.entry = NextId(p, id),
           Became(c, <<a, Removal(p, Item(p, id))>>, d)
    PROVE  Emptying(d, p, list[p])
<1> DEFINE x == Item(p, id)
           b == Removal(p, x)
           n == Len(c)
<1>1. x \in Ports
  BY AtEntry
<1>2. Covered(a.entry, {x}, list[p])
  BY CoveredNext
<1> HIDE DEF x
<1>3. b \in Frames /\ b.do = "remove" /\ b.port = p /\ b.item = x
  BY <1>1, FrameType DEF Removal, Steps
<1>4. Became(c, <<a, b>>, d)
  BY DEF x
<1> HIDE DEF b
<1>5. <<a, b>> \in Seq(Frames) /\ Len(<<a, b>>) = 2 /\ <<a, b>>[1] = a /\ <<a, b>>[2] = b
  BY <1>3
<1>6. d \in Seq(Frames) /\ n \in Nat \ {0} /\ Len(d) = n - 1 + 2 /\ d[n - 1 + 1] = a /\ d[n - 1 + 2] = b
  BY <1>4, <1>5 DEF Became
<1> HIDE DEF n
<1>7. n \in DOMAIN d /\ d[n] = a /\ n # Len(d) /\ d[n + 1] = b
  BY <1>6
<1>8. Above(d, n, p) = {x}
  BY <1>3, <1>7 DEF Above, Excused
<1>9. Walks(d, n, p, list[p])
  BY <1>2, <1>7, <1>8 DEF Walks
<1> QED BY <1>7, <1>9 DEF Emptying

\* MIDIListApply,
LEMMA ApplyTidy ==
    ASSUME HeapType, Unique, NEW do \in {"check", "disconnect"}, Apply(do), crash' = "none"
    PROVE  Below(calls, calls') /\ \A q \in Ports : Tidy(q)
<1> DEFINE f == Last(calls)
           p == f.port
           id == f.entry
           item == Item(p, id)
           a == Frame(do, p, p, NextId(p, id), 0)
           b == Call("release", item)
           c == Removal(p, item)
<1>1. Working /\ p \in Ports /\ f.do = do /\ UNCHANGED list /\ id \in Nat
  BY TopCall DEF Apply, Top
<1>2. \A q \in Ports : refs[q] \in Nat /\ Shrinks(list[q], list'[q]) /\ Excused(f, q) = {}
  BY <1>1, ListType DEF Shrinks, Excused
<1>3. CASE id = 0
  <2>1. Become(<<>>) /\ UNCHANGED refs /\ <<>> \in Seq(Frames)
    BY <1>3 DEF Apply
  <2>2. Below(calls, calls')
    BY <1>1, <2>1, BecomeBelow DEF Became
  <2>3. ASSUME NEW q \in Ports, Covered(f.entry, {}, list[q]) PROVE list'[q] = <<>>
    <3>1. list[q] \in Seq(Entry) /\ DOMAIN list[q] = 1 .. Len(list[q]) /\ Len(list[q]) \in Nat
      BY ListType
    <3>2. \A k \in DOMAIN list[q] : \E n \in DOMAIN list[q] : list[q][n].id = 0
      BY <1>3, <2>3 DEF Covered
    <3>3. DOMAIN list[q] = {}
      BY <3>2, ListType
    <3>4. list[q] = <<>>
      <4> DEFINE s == list[q]
                 len == Len(s)
      <4>1. s \in Seq(Entry) /\ 1 .. len = {} /\ len \in Nat
        BY <3>1, <3>3
      <4> HIDE DEF len
      <4>2. len = 0
        BY <4>1
      <4> HIDE DEF s
      <4> QED BY <4>1, <4>2 DEF s, len
    <3> QED BY <1>1, <3>4
  <2>4. ASSUME NEW q \in Ports PROVE Tidy(q)
    BY <1>1, <1>2, <2>1, <2>3 DEF Tidy
  <2> QED BY <2>2, <2>4
<1>4. CASE id # 0
  <2>1. id \in Ids(p)
    BY <1>4 DEF Apply, Crash
  <2>2. item \in Ports /\ NextId(p, id) \in Nat
    BY <1>1, <2>1, AtEntry
  <2>3. /\ a \in Frames /\ a.do = do /\ a.port = p /\ a.entry = NextId(p, id)
        /\ b \in Frames /\ c \in Frames
    BY <1>1, <2>2, FrameType DEF Call, Removal, Steps
  <2>4. <<a>> \in Seq(Frames) /\ <<a, c>> \in Seq(Frames) /\ <<a, b, c>> \in Seq(Frames)
    BY <2>3
  <2>5. IF do = "check" THEN CheckItem(p, item, a) ELSE DisconnectItem(p, item, a)
    BY <1>4, <2>1 DEF Apply
  <2>6. CASE do = "check"
    <3>1. /\ Become(<<a, b, c>>) \/ Become(<<a>>)
          /\ refs' = refs \/ (refs' = [refs EXCEPT ![item] = @ + 1] /\ Alive(item))
      BY <2>5, <2>6 DEF CheckItem, MIDIPortRetain, Crash
    <3>2. Below(calls, calls')
      <4> HIDE DEF a, b, c
      <4>1. Became(calls, <<a, b, c>>, calls') \/ Became(calls, <<a>>, calls')
        BY <1>1, <2>4, <3>1, BecomeBelow
      <4> QED BY <4>1 DEF Became
    <3>3. ASSUME NEW q \in Ports PROVE (refs'[q] > 0 <=> refs[q] > 0) /\ refs'[q] \in Nat
      <4> HIDE DEF item
      <4>1. CASE refs' = refs
        BY <1>2, <4>1
      <4>2. CASE refs' = [refs EXCEPT ![item] = @ + 1] /\ Alive(item)
        <5>1. refs'[q] = IF q = item THEN refs[q] + 1 ELSE refs[q]
          BY <2>2, <4>2 DEF HeapType
        <5> QED BY <1>2, <4>2, <5>1 DEF Alive
      <4> QED BY <3>1, <4>1, <4>2
    <3>4. ASSUME NEW q \in Ports PROVE Tidy(q)
      BY <1>1, <2>6, <3>3, NeutralTidy
    <3> QED BY <3>2, <3>4
  <2>7. CASE do = "disconnect"
    <3>1. Become(<<a, c>>) /\ UNCHANGED refs
      BY <2>5, <2>7 DEF DisconnectItem
    <3>2. Became(calls, <<a, c>>, calls')
      <4> HIDE DEF a, c
      <4> QED BY <1>1, <2>4, <3>1, BecomeBelow
    <3>3. Below(calls, calls')
      BY <3>2 DEF Became
    <3>4. ASSUME Covered(id, {}, list[p]) PROVE Emptying(calls', p, list'[p])
      <4> DEFINE d == calls'
      <4> HIDE DEF a, d
      <4>1. Emptying(d, p, list[p])
        BY <1>1, <2>1, <2>3, <2>7, <3>2, <3>4, EmptyingGoesOn DEF d
      <4> QED BY <1>1, <4>1 DEF d
    <3>5. ASSUME NEW q \in Ports PROVE Tidy(q)
      <4>1. refs'[q] = refs[q]
        BY <3>1
      <4> HIDE DEF a, b, c, item
      <4> QED BY <1>1, <1>2, <2>7, <3>4, <4>1 DEF Tidy
    <3> QED BY <3>3, <3>5
  <2> QED BY <2>6, <2>7
<1> QED BY <1>3, <1>4

\* What is above the calls below the top.
LEMMA AboveTop ==
    ASSUME NEW c, NEW d, NEW s \in Seq(Frames), s # <<>>, Became(c, s, d), NEW p
    PROVE  Above(d, Len(c) - 1, p) = Excused(s[1], p)
<1> DEFINE n == Len(c)
           m == Len(s)
<1>1. m \in Nat /\ m > 0
  OBVIOUS
<1>2. n \in Nat \ {0} /\ Len(d) = n - 1 + m /\ \A j \in 1 .. m : d[n - 1 + j] = s[j]
  BY DEF Became
<1> HIDE DEF n, m
<1>3. n - 1 # Len(d) /\ d[n - 1 + 1] = s[1]
  BY <1>1, <1>2
<1> QED BY <1>3 DEF Above, n

\* MIDIListRemove up to the entry,
LEMMA RemoveTidy ==
    ASSUME HeapType, MIDIListRemove, crash' = "none"
    PROVE  Below(calls, calls') /\ \A q \in Ports : Tidy(q)
<1> DEFINE f == Last(calls)
           p == f.port
           x == f.item
           M == Matches(p, x)
           id == list[p][Min(M)].id
           a == Frame("unlink", p, x, id, PrevId(p, id))
           b == Call("release", x)
<1>1. /\ Working /\ p \in Ports /\ x \in Ports /\ f.do = "remove"
      /\ UNCHANGED <<refs, list>>
  BY TopCall DEF MIDIListRemove, Top
<1>2. Become(IF M = {} THEN <<>> ELSE <<a, b>>)
  <2>1. Become(IF Matches(f.port, f.item) = {} THEN <<>>
               ELSE Found(f, list[f.port][Min(Matches(f.port, f.item))].id))
    BY DEF MIDIListRemove, Matches
  <2> QED BY <2>1 DEF Found
<1>3. \A q \in Ports : refs[q] \in Nat /\ refs'[q] = refs[q] /\ list'[q] = list[q] /\ Shrinks(list[q], list'[q])
  BY <1>1, ListType DEF Shrinks
<1>4. \A q \in Ports : refs[q] > 0 => \A k \in DOMAIN list[q] :
                           list[q][k].port \in Excused(f, q) => q = p /\ list[q][k].port = x /\ M # {}
  BY <1>1 DEF Excused, Matches, Entries, Alive
<1>5. CASE M = {}
  <2>1. Become(<<>>) /\ <<>> \in Seq(Frames)
    BY <1>2, <1>5
  <2>2. Below(calls, calls')
    BY <1>1, <2>1, BecomeBelow DEF Became
  <2>3. ASSUME NEW q \in Ports PROVE Tidy(q)
    <3> HIDE DEF M
    <3> QED BY <1>1, <1>3, <1>4, <1>5 DEF Tidy
  <2> QED BY <2>2, <2>3
<1>6. CASE M # {}
  <2>1. id \in Ids(p)
    BY <1>1, <1>6, MatchFound
  <2>2. id \in Nat /\ PrevId(p, id) \in Nat
    BY <1>1, <2>1, IdsType, AtEntry
  <2> HIDE DEF M
  <2>3. a \in Frames /\ a.do = "unlink" /\ a.port = p /\ a.item = x /\ b \in Frames
    <3> DEFINE prev == PrevId(p, id)
    <3>1. id \in Nat /\ prev \in Nat /\ p \in Ports /\ x \in Ports /\ "unlink" \in Steps
      BY <1>1, <2>2 DEF Steps
    <3> HIDE DEF id, prev, p, x
    <3>2. /\ Frame("unlink", p, x, id, prev) \in Frames /\ Frame("unlink", p, x, id, prev).do = "unlink"
          /\ Frame("unlink", p, x, id, prev).port = p /\ Frame("unlink", p, x, id, prev).item = x
      BY <3>1, FrameType
    <3>3. b \in Frames
      BY <3>1, FrameType DEF Call, Steps
    <3> QED BY <3>2, <3>3 DEF prev
  <2> HIDE DEF a, b
  <2>4. <<a, b>> \in Seq(Frames) /\ <<a, b>> # <<>> /\ <<a, b>>[1] = a
    BY <2>3
  <2>5. Became(calls, <<a, b>>, calls')
    BY <1>1, <1>2, <1>6, <2>4, BecomeBelow
  <2>6. Below(calls, calls')
    BY <2>5 DEF Became
  <2>7. \A q : Above(calls', Len(calls) - 1, q) = Excused(a, q)
    BY <2>4, <2>5, AboveTop
  <2>8. Excused(a, p) = {x}
    BY <2>3 DEF Excused
  <2>9. ASSUME NEW q \in Ports PROVE Tidy(q)
    <3>1. ASSUME refs[q] > 0, NEW k \in DOMAIN list[q], list[q][k].port \in Excused(f, q)
          PROVE  list[q][k].port \in Above(calls', Len(calls) - 1, q)
      BY <1>4, <2>7, <2>8, <3>1
    <3> HIDE DEF f
    <3> QED BY <1>1, <1>3, <3>1 DEF Tidy, f
  <2> QED BY <2>6, <2>9
<1> QED BY <1>5, <1>6

\* and from there on.
LEMMA UnlinkTidy ==
    ASSUME HeapType, Unlink, crash' = "none"
    PROVE  Below(calls, calls') /\ \A q \in Ports : Tidy(q)
<1> DEFINE f == Last(calls)
           p == f.port
           x == f.item
           i == At(p, f.entry)
           a == Removal(p, x)
<1>1. /\ Working /\ p \in Ports /\ x \in Ports /\ f.do = "unlink"
      /\ UNCHANGED refs
  BY TopCall DEF Unlink, Top
<1>2. f.entry \in Ids(p) /\ list' = [list EXCEPT ![p] = RemoveAt(@, i)] /\ Become(<<a>>)
  BY DEF Unlink, Crash
<1>3. i \in DOMAIN list[p]
  BY <1>1, <1>2, AtEntry
<1>4. a \in Frames /\ a.do = "remove" /\ a.port = p /\ a.item = x
  <2>1. p \in Ports /\ x \in Ports
    BY <1>1
  <2> HIDE DEF p, x
  <2>2. /\ Removal(p, x) \in Frames /\ Removal(p, x).do = "remove"
        /\ Removal(p, x).port = p /\ Removal(p, x).item = x
    <3>1. "remove" \in Steps /\ 0 \in Nat
      BY DEF Steps
    <3>2. /\ Frame("remove", p, x, 0, 0) \in Frames /\ Frame("remove", p, x, 0, 0).do = "remove"
          /\ Frame("remove", p, x, 0, 0).port = p /\ Frame("remove", p, x, 0, 0).item = x
      BY <2>1, <3>1, FrameType
    <3> QED BY <3>2 DEF Removal
  <2> QED BY <2>2
<1>5. \A q : Excused(a, q) = Excused(f, q)
  BY <1>1, <1>4 DEF Excused
<1> HIDE DEF a
<1>6. <<a>> \in Seq(Frames) /\ <<a>> # <<>> /\ <<a>>[1] = a
  BY <1>4
<1>7. Became(calls, <<a>>, calls')
  BY <1>1, <1>2, <1>6, BecomeBelow
<1>8. Below(calls, calls')
  BY <1>7 DEF Became
<1>9. ASSUME NEW q PROVE Above(calls', Len(calls) - 1, q) = Excused(f, q)
  <2> DEFINE s == <<a>>
             d == calls'
  <2>1. s \in Seq(Frames) /\ s # <<>> /\ s[1] = a /\ Became(calls, s, d)
    BY <1>6, <1>7
  <2> HIDE DEF s, d
  <2>2. Above(d, Len(calls) - 1, q) = Excused(a, q)
    BY <2>1, AboveTop
  <2> QED BY <1>5, <2>2 DEF d
<1>10. ASSUME NEW q \in Ports PROVE Tidy(q)
  <2>1. refs[q] \in Nat /\ refs'[q] = refs[q]
    BY <1>1, ListType
  <2>2. Shrinks(list[q], list'[q])
    BY <1>2, <1>3 DEF Shrinks, HeapType
  <2> QED BY <1>1, <1>9, <2>1, <2>2 DEF Tidy
<1> QED BY <1>8, <1>10

\* Every step of the heap is tidy.
LEMMA CascadeTidy ==
    ASSUME HeapType, Unique, Dying, Dissolving, Cascade, crash' = "none"
    PROVE  Dying' /\ Dissolving'
<1>1. Below(calls, calls') /\ \A q \in Ports : Tidy(q)
  BY ReleaseTidy, DropTidy, DestroyTidy, ApplyTidy, RemoveTidy, UnlinkTidy DEF Cascade
<1>2. Working /\ UNCHANGED mode
  BY DEF Cascade, MIDIPortRelease, Drop, Destroy, Apply, MIDIListRemove, Unlink, Top
<1>3. calls' \in Seq(Frames)
  BY CascadeType DEF HeapType
<1> QED BY <1>1, <1>2, <1>3, TidyDying, TidyDissolving

\* Between the calls, only valid ports that are alive have entries.
Clean == \A p \in Ports : list[p] # <<>> => refs[p] > 0 /\ Valid(p)

\* Nothing is being destroyed or disconnected then.
LEMMA IdleClean ==
    ASSUME HeapType, Idle, Dying, Dissolving
    PROVE  Clean
<1> SUFFICES ASSUME NEW p \in Ports, list[p] # <<>> PROVE refs[p] > 0 /\ Valid(p)
  BY DEF Clean
<1>1. refs[p] \in Nat
  BY ListType
<1>2. DOMAIN calls = {}
  BY DEF Idle
<1>3. ~Ending(calls, p) /\ ~Emptying(calls, p, list[p])
  BY <1>2 DEF Ending, Emptying
<1> QED BY <1>1, <1>3 DEF Dying, Dissolving

\* An operation leaves entries with ports that are valid or about to be disconnected.
LEMMA CleanStep ==
    ASSUME \A p \in Ports : list'[p] # <<>> =>
               refs'[p] > 0 /\ ("invalid" \notin mode'[p] \/ Emptying(calls', p, list'[p]))
    PROVE  Dying' /\ Dissolving'
<1>1. Dying'
  BY DEF Dying
<1>2. Dissolving'
  BY DEF Dissolving, Valid, Emptying, Walks, Above
<1> QED BY <1>1, <1>2

\* Most leave the entries and the modes alone.
LEMMA CleanStays ==
    ASSUME HeapType, Clean, UNCHANGED <<list, mode>>,
           UNCHANGED refs \/ \E p \in Ports : refs' = [refs EXCEPT ![p] = @ + 1]
    PROVE  Dying' /\ Dissolving'
<1>1. ASSUME NEW q \in Ports, refs[q] > 0 PROVE refs'[q] > 0
  <2>1. refs[q] \in Nat
    BY ListType
  <2>2. ASSUME NEW p \in Ports, refs' = [refs EXCEPT ![p] = @ + 1] PROVE refs'[q] > 0
    BY <1>1, <2>1, <2>2 DEF HeapType
  <2> QED BY <1>1, <2>2
<1>2. ASSUME NEW q \in Ports, list'[q] # <<>> PROVE refs'[q] > 0 /\ "invalid" \notin mode'[q]
  BY <1>1, <1>2 DEF Clean, Valid
<1> QED BY <1>2, CleanStep

\* A port that becomes invalid is disconnected.
LEMMA InvalidClean ==
    ASSUME HeapType, Clean, UNCHANGED <<refs, list>>, NEW p \in Ports, mode' = [mode EXCEPT ![p] = {"invalid"}],
           NEW s, calls' = s, NEW i \in DOMAIN s, i = Len(s), s[i] = Walk("disconnect", p)
    PROVE  Dying' /\ Dissolving'
<1>1. ASSUME list[p] # <<>> PROVE Emptying(s, p, list[p])
  <2> DEFINE w == Walk("disconnect", p)
  <2>1. Alive(p)
    BY <1>1 DEF Clean, Alive
  <2>2. FirstId(p) \in Nat /\ 1 \in DOMAIN list[p] /\ FirstId(p) = list[p][1].id
    BY <1>1, <2>1, FirstType
  <2>3. w.do = "disconnect" /\ w.port = p /\ w.entry = FirstId(p)
    BY <2>2, FrameType DEF Walk, Steps
  <2>4. \A k \in DOMAIN list[p] : \E n \in DOMAIN list[p] : n <= k /\ list[p][n].id = FirstId(p)
    BY <2>2, ListType
  <2>5. Covered(w.entry, Above(s, i, p), list[p])
    BY <2>3, <2>4 DEF Covered
  <2> HIDE DEF w
  <2> QED BY <2>3, <2>5 DEF Emptying, Walks, w
<1>2. ASSUME NEW q \in Ports, list'[q] # <<>>
      PROVE  refs'[q] > 0 /\ ("invalid" \notin mode'[q] \/ Emptying(calls', q, list'[q]))
  <2>1. refs'[q] > 0 /\ list'[q] = list[q] /\ Valid(q)
    BY <1>2 DEF Clean
  <2>2. CASE q = p
    BY <1>1, <1>2, <2>1, <2>2
  <2>3. CASE q # p
    BY <2>1, <2>3 DEF Valid, HeapType
  <2> QED BY <2>1, <2>2, <2>3
<1> QED BY <1>2, CleanStep

\* No valid port is connected to another one that is not, or is gone.
LEMMA ConnectClean ==
    ASSUME ~Careless, Typed, Owned, Counted, Idle, Clean, NEW p \in Ports, NEW t \in Ports,
           MIDIPortConnect(p, t), crash' = "none"
    PROVE  Dying' /\ Dissolving'
<1>1. /\ MIDIListAdd(p, t, NewId) /\ UNCHANGED mode /\ Valid(p) /\ Usable(p) /\ HeapType
  BY TypedFacts DEF MIDIPortConnect
<1>2. /\ refs' = [refs EXCEPT ![t] = @ + 1]
      /\ list' = [list EXCEPT ![p] = <<[id |-> NewId, port |-> t]>> \o @]
  BY <1>1 DEF MIDIListAdd, MIDIPortRetain
<1>3. refs[p] > 0
  BY <1>1, UsableAlive DEF Alive
<1>4. ASSUME NEW q \in Ports PROVE refs[q] > 0 => refs'[q] > 0
  <2>1. refs[q] \in Nat
    BY <1>1, ListType
  <2> QED BY <1>1, <1>2, <2>1 DEF HeapType
<1>5. ASSUME NEW q \in Ports, list'[q] # <<>> PROVE refs[q] > 0 /\ "invalid" \notin mode'[q]
  <2>1. CASE q = p
    BY <1>1, <1>3, <2>1 DEF Valid
  <2>2. CASE q # p
    <3>1. list'[q] = list[q]
      BY <1>1, <1>2, <2>2 DEF HeapType
    <3> QED BY <1>1, <1>5, <3>1 DEF Clean, Valid
  <2> QED BY <2>1, <2>2
<1> QED BY <1>4, <1>5, CleanStep

\* A driver's last release invalidates its port.
LEMMA DriverClean ==
    ASSUME HeapType, Idle, Clean, NEW p \in Ports, MIDIDriverRelease(p), crash' = "none"
    PROVE  Dying' /\ Dissolving'
<1>1. CASE driverRefs[p] = 1
  <2> DEFINE a == Call("release", p)
             b == Walk("disconnect", p)
             s == <<a, b>>
  <2>1. /\ Goto(<<a>> \o <<b>>) /\ mode' = [mode EXCEPT ![p] = {"invalid"}] /\ UNCHANGED <<refs, list>>
    BY <1>1 DEF MIDIDriverRelease, MIDIDriverDestroy, Disconnection
  <2>2. a \in Frames
    BY FrameType DEF Call, Steps
  <2>3. b \in Frames
    <3>1. FirstId(p) \in Nat
      BY FirstType
    <3> QED BY <3>1, FrameType DEF Walk, Steps
  <2> HIDE DEF a, b
  <2>4. <<a>> \o <<b>> = <<a, b>>
    BY <2>2, <2>3, Pair
  <2>5. calls' = s
    BY <2>1, <2>4, GotoBegins DEF Idle
  <2>6. 2 \in DOMAIN s /\ 2 = Len(s) /\ s[2] = Walk("disconnect", p)
    BY DEF b
  <2> HIDE DEF s
  <2> QED BY <2>1, <2>5, <2>6, InvalidClean
<1>2. CASE driverRefs[p] # 1
  <2>1. UNCHANGED <<refs, list, mode>>
    BY <1>2 DEF MIDIDriverRelease
  <2> QED BY <2>1, CleanStays
<1> QED BY <1>1, <1>2

\* The application's invalidation of a port.
LEMMA InvalidateClean ==
    ASSUME HeapType, Idle, Clean, NEW p \in Ports, MIDIPortInvalidate(p), crash' = "none"
    PROVE  Dying' /\ Dissolving'
<1> DEFINE s == <<Walk("disconnect", p)>>
<1>1. Goto(s) /\ mode' = [mode EXCEPT ![p] = {"invalid"}] /\ UNCHANGED <<refs, list>>
  BY DEF MIDIPortInvalidate, Disconnection
<1>2. calls' = s
  BY <1>1, GotoBegins DEF Idle
<1>3. 1 \in DOMAIN s /\ 1 = Len(s) /\ s[1] = Walk("disconnect", p)
  OBVIOUS
<1> HIDE DEF s
<1> QED BY <1>1, <1>2, <1>3, InvalidClean

\* A send at most keeps the target that it is about to drop.
LEMMA SendNextClean ==
    ASSUME HeapType, Typed, Clean, SendNext, crash' = "none"
    PROVE  Dying' /\ Dissolving'
<1> DEFINE m == Last(stack)
           item == Item(m.port, m.next)
<1>1. UNCHANGED <<list, mode>> /\ m.port \in Ports /\ m.next \in Ids(m.port)
  BY TypedFacts, TopMessage DEF SendNext, OnTop
<1>2. item \in Ports
  BY <1>1, AtEntry
<1>3. CASE Valid(item)
  <2>1. UNCHANGED refs
    BY <1>1, <1>3 DEF SendNext
  <2> QED BY <1>1, <2>1, CleanStays
<1>4. CASE ~Valid(item)
  <2>1. DropInvalid(m.src, item)
    BY <1>1, <1>4 DEF SendNext
  <2> HIDE DEF item
  <2>2. refs' = [refs EXCEPT ![item] = @ + 1]
    BY <2>1 DEF DropInvalid, Crash, MIDIPortRetain
  <2> QED BY <1>1, <1>2, <2>2, CleanStays
<1> QED BY <1>3, <1>4

\* No step leaves entries behind that nothing is about to take.
LEMMA DissolvingHold ==
    ASSUME ~Careless, Safe, crash = "none" => Counted /\ Dying /\ Dissolving, [Next]_vars, crash' = "none"
    PROVE  Dying' /\ Dissolving'
<1>1. Typed /\ Owned /\ HeapType
  BY TypedFacts DEF Safe
<1>2. CASE UNCHANGED vars
  BY <1>2 DEF vars, heap, Dying, Dissolving, Ending, Emptying, Walks, Above, Valid
<1>3. CASE Beneath
  <2>1. crash = "none"
    BY <1>3 DEF Beneath, Cascade, MIDIPortRelease, Drop, Destroy, Apply, MIDIListRemove, Unlink, Top, Working
  <2>2. Cascade
    BY <1>3 DEF Beneath
  <2> QED BY <1>1, <2>1, <2>2, CascadeTidy DEF Counted
<1>4. CASE Delivery
  <2>1. Idle
    BY <1>4 DEF Delivery, SendNext, SendDone, Echo, Return
  <2>2. Clean
    BY <1>1, <2>1, IdleClean DEF Idle
  <2>3. CASE SendNext
    BY <1>1, <2>2, <2>3, SendNextClean
  <2>4. CASE SendDone \/ Echo \/ Return
    <3>1. UNCHANGED <<refs, list, mode>>
      BY <2>4 DEF SendDone, Echo, Return, heap
    <3> QED BY <1>1, <2>2, <3>1, CleanStays
  <2> QED BY <1>4, <2>3, <2>4 DEF Delivery
<1>5. CASE Application
  <2>1. Idle
    BY <1>5 DEF Application, MIDIPortConnect, MIDIPortDisconnect, MIDIPortSendTo, MIDIPortDisconnectAll,
                MIDIPortInvalidate, Release, Retain, MIDIPortReceive, MIDIPortSend, MIDIDriverRetain,
                MIDIDriverRelease, Asks
  <2>2. Counted /\ Clean
    BY <1>1, <2>1, IdleClean DEF Idle
  <2>3. ASSUME NEW p \in Ports, NEW t \in Ports, MIDIPortConnect(p, t) PROVE Dying' /\ Dissolving'
    BY <1>1, <2>1, <2>2, <2>3, ConnectClean
  <2>4. ASSUME NEW p \in Ports, MIDIPortInvalidate(p) PROVE Dying' /\ Dissolving'
    BY <1>1, <2>1, <2>2, <2>4, InvalidateClean
  <2>5. ASSUME NEW p \in Ports, MIDIDriverRelease(p) PROVE Dying' /\ Dissolving'
    BY <1>1, <2>1, <2>2, <2>5, DriverClean
  <2>6. ASSUME NEW p \in Ports, Retain(p) PROVE Dying' /\ Dissolving'
    <3>1. UNCHANGED <<list, mode>> /\ refs' = [refs EXCEPT ![p] = @ + 1]
      BY <2>6 DEF Retain, MIDIPortRetain
    <3> QED BY <1>1, <2>2, <3>1, CleanStays
  <2>7. ASSUME NEW p \in Ports, NEW t \in Ports,
               \/ MIDIPortDisconnect(p, t) \/ MIDIPortDisconnectAll(p) \/ Release(p)
               \/ MIDIPortSendTo(p, t) \/ MIDIPortReceive(p) \/ MIDIPortSend(p) \/ MIDIDriverRetain(p)
        PROVE  Dying' /\ Dissolving'
    <3>1. UNCHANGED <<refs, list, mode>>
      BY <2>7 DEF MIDIPortDisconnect, MIDIPortDisconnectAll, Release, MIDIPortSendTo, MIDIPortReceive,
                  MIDIPortSend, MIDIDriverRetain, heap
    <3> QED BY <1>1, <2>2, <3>1, CleanStays
  <2> QED BY <1>5, <2>3, <2>4, <2>5, <2>6, <2>7 DEF Application
<1> QED BY <1>2, <1>3, <1>4, <1>5 DEF Next

\* All of this in every state.
LEMMA DissolvingHolds ==
    ASSUME ~Careless
    PROVE  Spec => [](Safe /\ (crash = "none" => Counted /\ Dying /\ Dissolving))
<1>1. Safe /\ (crash = "none" => Counted /\ Dying /\ Dissolving) /\ [Next]_vars
          => (crash = "none" => Dying /\ Dissolving)'
  BY DissolvingHold
<1>2. Init => Dying /\ Dissolving
  BY DEF Init, Dying, Dissolving
<1>3. (crash = "none" => Counted /\ Dying /\ Dissolving)
          <=> (crash = "none" => Counted) /\ (crash = "none" => Dying /\ Dissolving)
  OBVIOUS
<1> QED BY <1>1, <1>2, <1>3, CountsHold, PTL DEF Spec

\* Once nobody outside holds a port, all ports are reclaimed, or those that are left
\* hold each other in cycles of valid ports: invalidating one breaks the cycle. This
\* is so for an application that connects no port to itself and no invalid port.
THEOREM ReclaimedCorrect == ASSUME ~Careless PROVE Spec => []Reclaimed
<1>1. Safe /\ (crash = "none" => Counted /\ Dying /\ Dissolving) => Reclaimed
  <2> SUFFICES ASSUME Typed, Idle, Counted, Clean, \A p \in Ports : held[p] = 0,
                      NEW z \in Ports, Alive(z)
               PROVE  \E S \in SUBSET {p \in Ports : Alive(p) /\ Valid(p)} :
                          S # {} /\ \A p \in S : \E q \in S : \E e \in ToSet(list[q]) : e.port = p
    BY TypedFacts, IdleClean DEF Reclaimed, Safe, Idle
  <2> DEFINE S == {p \in Ports : Alive(p) /\ Valid(p)}
  <2>1. ASSUME NEW p \in Ports, Alive(p)
        PROVE  \E q \in S : \E e \in ToSet(list[q]) : e.port = p
    <3>1. refs[p] = Cardinality(Links(list, p)) /\ refs[p] > 0
      <4>1. /\ refs[p] = held[p] + Cardinality(Links(list, p)) /\ Cardinality(Links(list, p)) \in Nat
        BY IdleCounts
      <4> QED BY <2>1, <4>1 DEF Alive
    <3>2. Links(list, p) # {}
      BY <3>1, FS_EmptySet
    <3>3. PICK x : x \in Links(list, p)
      BY <3>2
    <3>4. PICK q \in Ports : \E e \in ToSet(list[q]) : x = <<q, e>> /\ e.port = p
      BY <3>3, LinksElements
    <3>5. list[q] # <<>>
      BY <3>4 DEF ToSet
    <3>6. q \in S
      BY <3>5 DEF Clean, Alive
    <3> QED BY <3>4, <3>6
  <2>2. S # {}
    BY <2>1
  <2>3. \A p \in S : \E q \in S : \E e \in ToSet(list[q]) : e.port = p
    BY <2>1
  <2>4. S \in SUBSET {p \in Ports : Alive(p) /\ Valid(p)}
    OBVIOUS
  <2> HIDE DEF S
  <2> QED BY <2>2, <2>3, <2>4
<1> QED BY <1>1, DissolvingHolds, PTL
-----------------------------------------------------------------------------
(* Messages that do not go round. *)

\* A message is dealt with by a port that got it. A port that sends its own has
\* itself as the source.
Deals(m) == m.fn # "send" \/ m.port # m.src

\* The ports that pass on what they get from others.
Passing == {p \in Ports : "thru" \in ModeOf[p]}

\* What is so of the message at place i of the stack: but for the first, nobody gets
\* his own message back; what is sent on is sent on by a port with THRU, what is
\* echoed by a loopback driver.
Alone(m, i) ==
    /\ i > 1 /\ Deals(m) => m.port # m.src
    /\ m.fn = "send" /\ Deals(m) => m.port \in Passing
    /\ m.fn = "echo" => m.port \in Loopback

\* What is so of a message b and of one before it, a, that led to b. The source
\* changes at a loopback driver only. As long as it stays, who has the message has
\* sent it on, but for the driver that sends its own.
Follows(a, b) ==
    /\ a.src = b.src \/ b.src \in Loopback
    /\ a.src = b.src => a.port = a.src \/ a.fn = "send"
    /\ a.src = b.src /\ ~Deals(b) => a.port = b.src
    /\ Deals(a) /\ Deals(b) => ~(a.port = b.port /\ a.src = b.src)

Route(s) == \A i \in 1 .. Len(s) : Alone(s[i], i) /\ \A j \in 1 .. i - 1 : Follows(s[j], s[i])

\* Nobody is connected to himself.
NoSelf == \A p \in Ports : \A i \in DOMAIN list[p] : list[p][i].port # p

\* The modes of a port never get THRU.
ModesKept == \A p \in Ports : "thru" \in mode[p] => p \in Passing

\* The messages without the one on top, and this one.
LEMMA RouteFront ==
    ASSUME NEW S, NEW s \in Seq(S), s # <<>>, Route(s)
    PROVE  /\ Route(Front(s)) /\ Alone(Last(s), Len(Front(s)) + 1)
           /\ \A j \in 1 .. Len(Front(s)) : Follows(Front(s)[j], Last(s))
<1> DEFINE t == Front(s)
           m == Last(s)
           n == Len(s)
<1>1. /\ n \in Nat \ {0} /\ Len(t) = n - 1 /\ m = s[n]
      /\ \A i \in 1 .. n - 1 : t[i] = s[i]
  BY FrontLast
<1>2. \A i \in 1 .. n : Alone(s[i], i) /\ \A j \in 1 .. i - 1 : Follows(s[j], s[i])
  BY DEF Route
<1> HIDE DEF t, m, n
<1>3. Alone(m, Len(t) + 1)
  <2>1. n \in 1 .. n /\ Len(t) + 1 = n
    BY <1>1
  <2> QED BY <1>1, <1>2, <2>1
<1>4. ASSUME NEW j \in 1 .. Len(t) PROVE Follows(t[j], m)
  <2>1. n \in 1 .. n /\ j \in 1 .. n - 1
    BY <1>1
  <2> QED BY <1>1, <1>2, <2>1
<1>5. ASSUME NEW i \in 1 .. Len(t) PROVE Alone(t[i], i) /\ \A j \in 1 .. i - 1 : Follows(t[j], t[i])
  <2>1. i \in 1 .. n /\ i \in 1 .. n - 1 /\ \A j \in 1 .. i - 1 : j \in 1 .. n - 1
    BY <1>1
  <2>2. t[i] = s[i] /\ \A j \in 1 .. i - 1 : t[j] = s[j]
    BY <1>1, <2>1
  <2>3. Alone(s[i], i) /\ \A j \in 1 .. i - 1 : Follows(s[j], s[i])
    BY <1>2, <2>1
  <2> QED BY <2>2, <2>3
<1>6. Route(t)
  BY <1>5 DEF Route
<1> QED BY <1>3, <1>4, <1>6 DEF t, m

\* One message more.
LEMMA RouteAppend ==
    ASSUME NEW S, NEW t \in Seq(S), NEW m \in S, Route(t), Alone(m, Len(t) + 1),
           \A j \in 1 .. Len(t) : Follows(t[j], m)
    PROVE  Route(Append(t, m))
<1> DEFINE s == Append(t, m)
           n == Len(t)
<1>1. n \in Nat /\ Len(s) = n + 1 /\ s[n + 1] = m /\ \A i \in 1 .. n : s[i] = t[i]
  OBVIOUS
<1>2. \A i \in 1 .. n : Alone(t[i], i) /\ \A j \in 1 .. i - 1 : Follows(t[j], t[i])
  BY DEF Route
<1> HIDE DEF s, n
<1>3. ASSUME NEW i \in 1 .. Len(s) PROVE Alone(s[i], i) /\ \A j \in 1 .. i - 1 : Follows(s[j], s[i])
  <2>1. CASE i = n + 1
    <3>1. \A j \in 1 .. i - 1 : j \in 1 .. n /\ s[j] = t[j]
      BY <1>1, <2>1
    <3> QED BY <1>1, <2>1, <3>1 DEF n
  <2>2. CASE i # n + 1
    <3>1. i \in 1 .. n
      BY <1>1, <2>2
    <3>2. \A j \in 1 .. i - 1 : j \in 1 .. n
      BY <1>1, <3>1
    <3>3. s[i] = t[i] /\ \A j \in 1 .. i - 1 : s[j] = t[j]
      BY <1>1, <3>1, <3>2
    <3> QED BY <1>2, <3>1, <3>3
  <2> QED BY <2>1, <2>2
<1>4. Route(s)
  BY <1>3 DEF Route
<1> QED BY <1>4 DEF s

\* What the messages that begin, and the one that goes on, say.
LEMMA MessageSays ==
    ASSUME NEW p, NEW src, NEW m
    PROVE  /\ Sending(p, src).fn = "send" /\ Sending(p, src).port = p /\ Sending(p, src).src = src
           /\ Receiving(p, src).fn = "receive" /\ Receiving(p, src).port = p /\ Receiving(p, src).src = src
           /\ Echoing(p, src).fn = "echo" /\ Echoing(p, src).port = p /\ Echoing(p, src).src = src
           /\ Advance(m).fn = "send" /\ Advance(m).port = m.port /\ Advance(m).src = m.src
BY DEF Sending, Receiving, Echoing, Advance, Message

\* A message of the same port and source follows what the other one follows, if it
\* is a send only where that one was dealt with.
LEMMA FollowsLike ==
    ASSUME NEW a, NEW b, NEW c, c.port = b.port, c.src = b.src, Deals(b), Deals(c), Follows(a, b)
    PROVE  Follows(a, c)
BY DEF Follows

\* The receive function of p is called: the message comes to p along a route.
LEMMA ReceiveRoute ==
    ASSUME HeapType, NEW p \in Ports, NEW src \in Ports \cup {NULL}, NEW rest \in Seq(Sound), Route(rest),
           Route(stack), rest # <<>> => p # src,
           \A j \in 1 .. Len(rest) : Follows(rest[j], Receiving(p, src)),
           ReceiveFrom(p, src, rest)
    PROVE  Route(stack')
<1> DEFINE a == Receiving(p, src)
           b == Echoing(p, src)
           n == Len(rest)
<1>1. a \in Sound /\ b \in Sound
  BY MessagesSound
<1>2. /\ a.fn = "receive" /\ a.port = p /\ a.src = src
      /\ b.fn = "echo" /\ b.port = p /\ b.src = src
  BY MessageSays
<1>3. \/ stack' = rest \/ stack' = stack \/ stack' = Append(rest, a)
      \/ stack' = Append(rest, b) /\ p \in Loopback
  BY DEF ReceiveFrom
<1>4. n \in Nat /\ (n + 1 > 1 => rest # <<>>)
  OBVIOUS
<1>5. \A j \in 1 .. n : Follows(rest[j], a)
  OBVIOUS
<1> HIDE DEF a, b
<1>6. Deals(a) /\ Deals(b)
  BY <1>2 DEF Deals
<1>7. \A j \in 1 .. n : Follows(rest[j], b)
  BY <1>2, <1>5, <1>6, FollowsLike
<1>8. Alone(a, n + 1) /\ (p \in Loopback => Alone(b, n + 1))
  BY <1>2, <1>4 DEF Alone
<1>9. Route(Append(rest, a)) /\ (p \in Loopback => Route(Append(rest, b)))
  BY <1>1, <1>5, <1>7, <1>8, RouteAppend
<1> QED BY <1>3, <1>9

\* The next target gets a message that others do not deal with for this source.
LEMMA SendNextRoute ==
    ASSUME \A p, q \in Passing : p = q,
           Typed, NoSelf, Route(stack), SendNext
    PROVE  Route(stack')
<1> DEFINE m == Last(stack)
           t == Front(stack)
           p == m.port
           item == Item(p, m.next)
           z == Advance(m)
           rest == Append(t, z)
           n == Len(t)
<1>1. HeapType /\ stack \in Seq(Sound) /\ stack # <<>> /\ m.fn = "send"
  BY TypedFacts DEF SendNext, OnTop
<1>2. t \in Seq(Sound) /\ m \in Sound /\ p \in Ports /\ m.src \in Ports \cup {NULL} /\ n \in Nat
  BY <1>1, TopMessage
<1>3. Route(t) /\ Alone(m, n + 1) /\ \A j \in 1 .. n : Follows(t[j], m)
  BY <1>1, RouteFront
<1>4. CASE m.next \notin Ids(p)
  <2>1. UNCHANGED stack
    BY <1>4 DEF SendNext
  <2> QED BY <2>1
<1>5. CASE m.next \in Ids(p)
  <2>1. item \in Ports /\ item # p /\ NextId(p, m.next) \in Nat
    BY <1>1, <1>2, <1>5, AtEntry DEF NoSelf
  <2>2. z.fn = "send" /\ z.port = p /\ z.src = m.src
    BY MessageSays
  <2>3. z \in Sound
    <3> DEFINE got == Append(m.got, m.next)
               next == NextId(p, m.next)
    <3>1. got \in Seq(Nat) /\ next \in Nat /\ m.due \in SUBSET Nat /\ IsFiniteSet(m.due)
      BY <1>1, <2>1, TopMessage
    <3>2. z = Message("send", p, m.src, next, m.due, got)
      BY DEF Advance
    <3> HIDE DEF got, next, z
    <3> QED BY <1>2, <3>1, <3>2 DEF Message, Messages, Sound
  <2>4. stack' = rest \/ (ReceiveFrom(item, m.src, rest) /\ ~Own(item, m))
    BY <1>5 DEF SendNext
  <2> HIDE DEF rest, z, item
  <2>5. Alone(z, n + 1)
    BY <1>1, <1>3, <2>2 DEF Alone, Deals
  <2>6. ASSUME NEW j \in 1 .. n PROVE Follows(t[j], z)
    <3>1. Follows(t[j], m)
      BY <1>3
    <3> QED BY <1>1, <2>2, <3>1 DEF Follows, Deals
  <2>7. rest \in Seq(Sound) /\ Len(rest) = n + 1 /\ rest[n + 1] = z /\ \A j \in 1 .. n : rest[j] = t[j]
    <3> HIDE DEF t
    <3> QED BY <1>2, <2>3 DEF rest, n
  <2>8. Route(rest)
    <3> HIDE DEF t
    <3> QED BY <1>2, <1>3, <2>3, <2>5, <2>6, RouteAppend DEF rest, n
  <2>9. ASSUME ~Own(item, m) PROVE \A j \in 1 .. Len(rest) : Follows(rest[j], Receiving(item, m.src))
    <3> DEFINE x == Receiving(item, m.src)
    <3>1. x.fn = "receive" /\ x.port = item /\ x.src = m.src /\ item # m.src
      BY <2>9, MessageSays DEF Own
    <3> HIDE DEF x
    <3>2. Follows(z, x)
      BY <2>1, <2>2, <3>1 DEF Follows, Deals
    <3>3. ASSUME NEW j \in 1 .. n PROVE Follows(t[j], x)
      <4> DEFINE f == t[j]
      <4>1. Follows(f, m) /\ (f.fn = "send" /\ Deals(f) => f.port \in Passing)
        BY <1>3 DEF Route, Alone
      <4>2. m.fn = "send" /\ (Deals(m) => p \in Passing)
        BY <1>1, <1>3 DEF Alone
      <4> HIDE DEF f
      <4>3. ASSUME f.src = x.src, f.port = item, Deals(f) PROVE FALSE
        <5>1. f.src = m.src /\ f.fn = "send" /\ item \in Passing
          BY <3>1, <4>1, <4>3 DEF Follows
        <5>2. Deals(m)
          BY <3>1, <4>1, <4>3, <5>1 DEF Follows
        <5>3. p = item
          BY <4>2, <5>1, <5>2
        <5> QED BY <2>1, <5>3
      <4>4. f.src = x.src \/ x.src \in Loopback
        BY <3>1, <4>1 DEF Follows
      <4>5. f.src = x.src => f.port = f.src \/ f.fn = "send"
        BY <3>1, <4>1 DEF Follows
      <4>6. Deals(x)
        BY <3>1 DEF Deals
      <4>7. Follows(f, x)
        BY <3>1, <4>3, <4>4, <4>5, <4>6 DEF Follows
      <4> QED BY <4>7 DEF f
    <3>4. ASSUME NEW j \in 1 .. Len(rest) PROVE Follows(rest[j], x)
      <4>1. CASE j = n + 1
        BY <2>7, <3>2, <4>1
      <4>2. CASE j # n + 1
        <5>1. j \in 1 .. n
          BY <1>2, <2>7, <4>2
        <5> QED BY <2>7, <3>3, <5>1
      <4> QED BY <4>1, <4>2
    <3> QED BY <3>4 DEF x
  <2>10. CASE stack' = rest
    BY <2>8, <2>10
  <2>11. CASE ReceiveFrom(item, m.src, rest) /\ ~Own(item, m)
    <3>1. item # m.src
      BY <2>11 DEF Own
    <3> QED BY <1>1, <1>2, <2>1, <2>7, <2>8, <2>9, <2>11, <3>1, ReceiveRoute
  <2> QED BY <2>4, <2>10, <2>11
<1> QED BY <1>4, <1>5

\* A loopback driver gets a message, and sends one of its own. Nobody before it has
\* this source.
LEMMA EchoRoute ==
    ASSUME \A p, q \in Loopback : p = q,
           Typed, Route(stack), Echo
    PROVE  Route(stack')
<1> DEFINE m == Last(stack)
           t == Front(stack)
           p == m.port
           r == Receiving(p, m.src)
           w == Sending(p, p)
           n == Len(t)
<1>1. HeapType /\ stack \in Seq(Sound) /\ stack # <<>> /\ m.fn = "echo"
  BY TypedFacts DEF Echo, OnTop
<1>2. t \in Seq(Sound) /\ m \in Sound /\ p \in Ports /\ m.src \in Ports \cup {NULL} /\ n \in Nat
  BY <1>1, TopMessage
<1>3. Route(t) /\ Alone(m, n + 1) /\ \A j \in 1 .. n : Follows(t[j], m)
  BY <1>1, RouteFront
<1>4. r.fn = "receive" /\ r.port = p /\ r.src = m.src /\ w.fn = "send" /\ w.port = p /\ w.src = p
  BY MessageSays
<1>5. r \in Sound /\ w \in Sound
  BY <1>1, <1>2, MessagesSound
<1>6. stack' = Append(Append(t, r), w) \/ stack' = Append(t, r)
  BY DEF Echo
<1>7. p \in Loopback /\ (n + 1 > 1 => p # m.src)
  BY <1>1, <1>3 DEF Alone, Deals
<1> HIDE DEF t, r, w
<1>8. \A j \in 1 .. n : Follows(t[j], r)
  <2>1. Deals(m) /\ Deals(r)
    BY <1>1, <1>4 DEF Deals
  <2> QED BY <1>3, <1>4, <2>1, FollowsLike
<1>9. Alone(r, n + 1)
  BY <1>3, <1>4, <1>7 DEF Alone
<1>10. Route(Append(t, r))
  BY <1>2, <1>3, <1>5, <1>8, <1>9, RouteAppend DEF n
<1>11. Alone(w, n + 2)
  BY <1>4 DEF Alone, Deals
<1>12. Follows(r, w)
  BY <1>4, <1>7 DEF Follows, Deals
<1>13. ASSUME NEW j \in 1 .. n PROVE Follows(t[j], w)
  <2> DEFINE f == t[j]
  <2>1. Follows(f, m) /\ p # m.src
    BY <1>2, <1>3, <1>7
  <2> HIDE DEF f
  <2>2. f.src # p
    BY <1>7, <2>1 DEF Follows
  <2>3. Follows(f, w)
    BY <1>4, <1>7, <2>2 DEF Follows, Deals
  <2> QED BY <2>3 DEF f
<1>14. Route(Append(Append(t, r), w))
  <2> DEFINE s == Append(t, r)
  <2>1. s \in Seq(Sound) /\ Len(s) = n + 1 /\ s[n + 1] = r /\ \A j \in 1 .. n : s[j] = t[j]
    BY <1>2, <1>5 DEF n
  <2> HIDE DEF s
  <2>2. \A j \in 1 .. Len(s) : Follows(s[j], w)
    <3> SUFFICES ASSUME NEW j \in 1 .. Len(s) PROVE Follows(s[j], w)
      OBVIOUS
    <3>1. CASE j = n + 1
      BY <1>12, <2>1, <3>1
    <3>2. CASE j # n + 1
      <4>1. j \in 1 .. n
        BY <1>2, <2>1, <3>2
      <4> QED BY <1>13, <2>1, <4>1
    <3> QED BY <3>1, <3>2
  <2>3. Alone(w, Len(s) + 1)
    <3>1. Len(s) + 1 = n + 2
      BY <1>2, <2>1
    <3> QED BY <1>11, <3>1
  <2>4. Route(s)
    BY <1>10 DEF s
  <2>5. Route(Append(s, w))
    BY <1>5, <2>1, <2>2, <2>3, <2>4, RouteAppend
  <2> QED BY <2>5 DEF s
<1> QED BY <1>6, <1>10, <1>14

\* A callback is over: the port with THRU sends on what it got.
LEMMA ReturnRoute ==
    ASSUME ModesKept, Typed, Route(stack), Return
    PROVE  Route(stack')
<1> DEFINE m == Last(stack)
           t == Front(stack)
           p == m.port
           w == Sending(p, m.src)
           n == Len(t)
<1>1. HeapType /\ stack \in Seq(Sound) /\ stack # <<>> /\ m.fn = "receive"
  BY TypedFacts DEF Return, OnTop
<1>2. t \in Seq(Sound) /\ m \in Sound /\ p \in Ports /\ m.src \in Ports \cup {NULL} /\ n \in Nat
  BY <1>1, TopMessage
<1>3. Route(t) /\ Alone(m, n + 1) /\ \A j \in 1 .. n : Follows(t[j], m)
  BY <1>1, RouteFront
<1>4. w.fn = "send" /\ w.port = p /\ w.src = m.src /\ w \in Sound
  BY <1>1, <1>2, MessageSays, MessagesSound
<1>5. stack' = stack \/ stack' = t \/ (stack' = Append(t, w) /\ "thru" \in mode[p])
  BY DEF Return, Passthrough, Replace, Pop, Has
<1> HIDE DEF t, w
<1>6. Deals(m) /\ (n + 1 > 1 => p # m.src)
  BY <1>1, <1>3 DEF Alone, Deals
<1>7. ASSUME "thru" \in mode[p] PROVE Route(Append(t, w))
  <2>1. p \in Passing
    BY <1>2, <1>7 DEF ModesKept
  <2>2. Alone(w, n + 1)
    BY <1>4, <1>6, <2>1 DEF Alone
  <2>3. ASSUME NEW j \in 1 .. n PROVE Follows(t[j], w)
    <3>1. Deals(w)
      BY <1>2, <1>4, <1>6 DEF Deals
    <3> QED BY <1>3, <1>4, <1>6, <3>1, FollowsLike
  <2> QED BY <1>2, <1>3, <1>4, <2>2, <2>3, RouteAppend DEF n
<1> QED BY <1>3, <1>5, <1>7

\* The first message of a stack.
LEMMA FirstRoute ==
    ASSUME HeapType, NEW p \in Ports
    PROVE  Route(Append(<<>>, Sending(p, p)))
<1> DEFINE w == Sending(p, p)
           t == <<>>
<1>1. w \in Sound /\ t \in Seq(Sound) /\ Len(t) = 0
  BY MessagesSound
<1>2. w.fn = "send" /\ w.port = p /\ w.src = p
  BY MessageSays
<1> HIDE DEF w, t
<1>3. Alone(w, Len(t) + 1)
  BY <1>2 DEF Alone, Deals
<1>4. Route(t) /\ \A j \in 1 .. Len(t) : Follows(t[j], w)
  BY <1>1 DEF Route
<1>5. Route(Append(t, w))
  BY <1>1, <1>3, <1>4, RouteAppend
<1> QED BY <1>5 DEF w, t

\* Entries go, or a new one leads to another port.
LEMMA NoSelfHolds ==
    ASSUME ~Careless, HeapType, NoSelf, [Next]_vars
    PROVE  NoSelf'
<1>1. CASE UNCHANGED list
  BY <1>1 DEF NoSelf
<1>2. ASSUME NEW p \in Ports, NEW i \in DOMAIN list[p], list' = [list EXCEPT ![p] = RemoveAt(@, i)]
      PROVE  NoSelf'
  <2> SUFFICES ASSUME NEW q \in Ports, NEW j \in DOMAIN list'[q] PROVE list'[q][j].port # q
    BY DEF NoSelf
  <2>1. CASE q # p
    <3>1. list'[q] = list[q]
      BY <1>2, <2>1 DEF HeapType
    <3> QED BY <3>1 DEF NoSelf
  <2>2. CASE q = p
    <3>1. list'[q] = RemoveAt(list[q], i) /\ list[q] \in Seq(Entry) /\ i \in DOMAIN list[q]
      BY <1>2, <2>2 DEF HeapType
    <3>2. \E k \in DOMAIN list[q] : list'[q][j] = list[q][k]
      <4> DEFINE s == list[q]
                 u == RemoveAt(s, i)
      <4>1. s \in Seq(Entry) /\ i \in DOMAIN s /\ j \in DOMAIN u
        BY <3>1
      <4> HIDE DEF s
      <4> DEFINE n == Len(s)
      <4>2. /\ u \in Seq(Entry) /\ Len(u) = n - 1 /\ n \in Nat /\ DOMAIN s = 1 .. n
            /\ \A k \in 1 .. n - 1 : u[k] = IF k < i THEN s[k] ELSE s[k + 1]
        BY <4>1, Removed
      <4> HIDE DEF u, n
      <4>3. j \in 1 .. n - 1
        BY <4>1, <4>2
      <4>4. j \in DOMAIN s /\ j + 1 \in DOMAIN s
        BY <4>2, <4>3
      <4>5. \E k \in DOMAIN s : u[j] = s[k]
        BY <4>2, <4>3, <4>4
      <4> QED BY <3>1, <4>5 DEF s, u
    <3> QED BY <3>2 DEF NoSelf
  <2> QED BY <2>1, <2>2
<1>3. CASE \E p, t \in Ports : MIDIPortConnect(p, t)
  <2>1. PICK p \in Ports, t \in Ports : MIDIPortConnect(p, t)
    BY <1>3
  <2> DEFINE e == [id |-> NewId, port |-> t]
  <2>2. p # t /\ MIDIListAdd(p, t, NewId)
    BY <2>1 DEF MIDIPortConnect
  <2>3. UNCHANGED list \/ list' = [list EXCEPT ![p] = <<e>> \o @]
    BY <2>2 DEF MIDIListAdd
  <2>4. e.port = t
    OBVIOUS
  <2> HIDE DEF e
  <2> SUFFICES ASSUME NEW q \in Ports, NEW j \in DOMAIN list'[q], list' = [list EXCEPT ![p] = <<e>> \o @]
               PROVE  list'[q][j].port # q
    BY <1>1, <2>3 DEF NoSelf
  <2>5. CASE q # p
    <3>1. list'[q] = list[q]
      BY <2>5 DEF HeapType
    <3> QED BY <3>1 DEF NoSelf
  <2>6. CASE q = p
    <3> DEFINE s == list[q]
    <3>1. list'[q] = <<e>> \o s /\ s \in Seq(Entry)
      BY <2>6 DEF HeapType
    <3> HIDE DEF s
    <3>2. j \in DOMAIN (<<e>> \o s) /\ list'[q][j] = (<<e>> \o s)[j]
      BY <3>1
    <3>3. (<<e>> \o s)[j] = e \/ \E k \in DOMAIN s : (<<e>> \o s)[j] = s[k]
      <4>1. Len(<<e>> \o s) = Len(s) + 1 /\ Len(s) \in Nat /\ DOMAIN s = 1 .. Len(s)
            /\ DOMAIN (<<e>> \o s) = 1 .. Len(s) + 1
        BY <3>1
      <4>2. j = 1 => (<<e>> \o s)[j] = e
        BY <3>1
      <4>3. j # 1 => j - 1 \in DOMAIN s /\ (<<e>> \o s)[j] = s[j - 1]
        BY <3>1, <3>2, <4>1
      <4> QED BY <4>2, <4>3
    <3> QED BY <2>2, <2>4, <2>6, <3>2, <3>3 DEF NoSelf, s
  <2> QED BY <2>5, <2>6
<1>4. CASE Destroy
  <2> DEFINE p == Last(calls).port
  <2>1. p \in Ports
    BY <1>4, TopCall DEF Destroy, Top
  <2>2. CASE list[p] = <<>>
    BY <1>1, <1>4, <2>2 DEF Destroy
  <2>3. CASE list[p] # <<>>
    <3>1. 1 \in DOMAIN list[p] /\ Tail(list[p]) = RemoveAt(list[p], 1)
      BY <2>1, <2>3, ListType, TailRemoves
    <3>2. list' = [list EXCEPT ![p] = RemoveAt(@, 1)]
      BY <1>4, <2>3, <3>1 DEF Destroy
    <3> QED BY <1>2, <2>1, <3>1, <3>2
  <2> QED BY <2>2, <2>3
<1>5. CASE Unlink
  <2> DEFINE f == Last(calls)
  <2>1. f.port \in Ports
    BY <1>5, TopCall DEF Unlink, Top
  <2>2. UNCHANGED list \/ (f.entry \in Ids(f.port)
           /\ list' = [list EXCEPT ![f.port] = RemoveAt(@, At(f.port, f.entry))])
    BY <1>5 DEF Unlink
  <2>3. f.entry \in Ids(f.port) => At(f.port, f.entry) \in DOMAIN list[f.port]
    BY <2>1, AtEntry
  <2> QED BY <1>1, <1>2, <2>1, <2>2, <2>3
<1>6. CASE Beneath
  <2>1. MIDIPortRelease \/ Drop \/ Apply("check") \/ Apply("disconnect") \/ MIDIListRemove => UNCHANGED list
    BY DEF MIDIPortRelease, Drop, Apply, MIDIListRemove
  <2> QED BY <1>1, <1>4, <1>5, <1>6, <2>1 DEF Beneath, Cascade
<1>7. CASE Delivery
  BY <1>1, <1>7 DEF Delivery, SendNext, SendDone, Echo, Return, heap
<1>8. CASE UNCHANGED vars
  BY <1>1, <1>8 DEF vars, heap
<1>9. CASE Application
  <2>1. (\E p, t \in Ports : MIDIPortConnect(p, t)) \/ UNCHANGED list
    BY <1>9 DEF Application, MIDIPortDisconnect, MIDIPortSendTo, MIDIPortDisconnectAll, MIDIPortInvalidate,
             Release, Retain, MIDIPortReceive, MIDIPortSend, MIDIDriverRetain, MIDIDriverRelease, heap
  <2> QED BY <1>1, <1>3, <2>1
<1> QED BY <1>6, <1>7, <1>8, <1>9 DEF Next

\* No port gets THRU.
LEMMA ModesHold == ASSUME HeapType, ModesKept, [Next]_vars PROVE ModesKept'
<1>1. CASE UNCHANGED mode
  BY <1>1 DEF ModesKept
<1>2. ASSUME NEW p \in Ports, mode' = [mode EXCEPT ![p] = {"invalid"}] PROVE ModesKept'
  <2> SUFFICES ASSUME NEW q \in Ports, "thru" \in mode'[q] PROVE "thru" \in mode[q]
    BY DEF ModesKept
  <2> QED BY <1>2 DEF HeapType
<1>3. CASE Application
  <2>1. UNCHANGED mode \/ \E p \in Ports : mode' = [mode EXCEPT ![p] = {"invalid"}]
    BY <1>3 DEF Application, MIDIPortConnect, MIDIPortDisconnect, MIDIPortSendTo, MIDIPortDisconnectAll,
             MIDIPortInvalidate, Release, Retain, MIDIPortReceive, MIDIPortSend, MIDIDriverRetain,
             MIDIDriverRelease, MIDIDriverDestroy, heap
  <2> QED BY <1>1, <1>2, <2>1
<1>4. CASE Beneath
  BY <1>1, <1>4 DEF Beneath, Cascade, MIDIPortRelease, Drop, Destroy, Apply, MIDIListRemove, Unlink
<1>5. CASE Delivery
  BY <1>1, <1>5 DEF Delivery, SendNext, SendDone, Echo, Return, heap
<1>6. CASE UNCHANGED vars
  BY <1>1, <1>6 DEF vars, heap
<1> QED BY <1>3, <1>4, <1>5, <1>6 DEF Next

\* Every step keeps messages on routes.
LEMMA RouteHolds ==
    ASSUME "message" \notin Reentrant,
           \A p, q \in Passing : p = q, \A p, q \in Loopback : p = q,
           Typed, NoSelf, ModesKept, Route(stack), [Next]_vars
    PROVE  Route(stack')
<1>1. CASE UNCHANGED stack
  BY <1>1
<1>2. CASE Beneath
  BY <1>1, <1>2 DEF Beneath
<1>3. CASE UNCHANGED vars
  BY <1>1, <1>3 DEF vars
<1>4. CASE SendDone
  <2>1. stack' = Front(stack) /\ stack \in Seq(Sound) /\ stack # <<>>
    BY <1>4, TypedFacts DEF SendDone, Pop, OnTop
  <2> QED BY <2>1, RouteFront
<1>5. CASE Delivery
  BY <1>4, <1>5, SendNextRoute, EchoRoute, ReturnRoute DEF Delivery
<1>6. ASSUME NEW p \in Ports, NEW t \in Ports, MIDIPortReceive(p) \/ MIDIPortSendTo(p, t) \/ MIDIPortSend(p)
      PROVE  Route(stack')
  <2>1. stack = <<>> /\ HeapType
    BY <1>6, TypedFacts DEF MIDIPortReceive, MIDIPortSendTo, MIDIPortSend, Asks
  <2>2. CASE MIDIPortSend(p)
    <3>1. stack' = Append(<<>>, Sending(p, p))
      BY <2>1, <2>2 DEF MIDIPortSend, Push
    <3> QED BY <2>1, <3>1, FirstRoute
  <2>3. CASE MIDIPortReceive(p) \/ MIDIPortSendTo(p, t)
    <3>1. ReceiveFrom(p, NULL, stack) \/ ReceiveFrom(t, p, stack)
      BY <2>3 DEF MIDIPortReceive, MIDIPortSendTo
    <3>2. stack \in Seq(Sound) /\ \A x, src : \A j \in 1 .. Len(stack) : Follows(stack[j], Receiving(x, src))
      BY <2>1, TypedFacts
    <3> QED BY <2>1, <3>1, <3>2, ReceiveRoute
  <2> QED BY <1>6, <2>2, <2>3
<1>7. CASE Application
  <2>1. \/ UNCHANGED stack
        \/ \E p, t \in Ports : MIDIPortReceive(p) \/ MIDIPortSendTo(p, t) \/ MIDIPortSend(p)
    BY <1>7 DEF Application, MIDIPortConnect, MIDIPortDisconnect, MIDIPortDisconnectAll, MIDIPortInvalidate,
             Release, Retain, MIDIDriverRetain, MIDIDriverRelease
  <2> QED BY <1>1, <1>6, <2>1
<1> QED BY <1>2, <1>3, <1>5, <1>7 DEF Next

\* Ports are connected to others, and modes are those that ports were created with.
LEMMA RouteBegins == Init => NoSelf /\ ModesKept /\ Route(stack)
<1> SUFFICES ASSUME Init PROVE NoSelf /\ ModesKept /\ Route(stack)
  OBVIOUS
<1>1. NoSelf
  BY DEF Init, NoSelf
<1>2. ModesKept
  BY DEF Init, ModesKept, Passing
<1>3. Route(stack)
  BY DEF Init, Route
<1> QED BY <1>1, <1>2, <1>3

\* A message does not go round in circles: while a port deals with a message of a
\* source, the message does not come to it from this source again, however the
\* ports are connected, if one of them has THRU and one is a loopback driver
\* (port.c:91-105, 173-182, driver.c:71-79).
THEOREM NoEchoCorrect ==
    ASSUME ~Careless, "message" \notin Reentrant,
           \A p, q \in Passing : p = q, \A p, q \in Loopback : p = q
    PROVE  Spec => []NoEcho
<1> DEFINE Inv == Safe /\ NoSelf /\ ModesKept /\ Route(stack)
<1>1. Init => Inv
  BY SafeBegins, RouteBegins
<1>2. Inv /\ [Next]_vars => Inv'
  <2> SUFFICES ASSUME Inv, [Next]_vars PROVE Inv'
    OBVIOUS
  <2>1. Typed /\ HeapType
    BY TypedFacts DEF Safe
  <2> QED BY <2>1, SafeKept, NoSelfHolds, ModesHold, RouteHolds
<1>3. Inv => NoEcho
  <2> SUFFICES ASSUME Inv, NEW i \in DOMAIN stack, NEW j \in DOMAIN stack, Deals(stack[i]), Deals(stack[j]), i # j
               PROVE  ~(stack[i].port = stack[j].port /\ stack[i].src = stack[j].src)
    BY DEF NoEcho, Deals
  <2>1. stack \in Seq(Sound) /\ Len(stack) \in Nat /\ DOMAIN stack = 1 .. Len(stack)
    BY TypedFacts DEF Safe
  <2>2. \A x, y \in DOMAIN stack : x < y => Follows(stack[x], stack[y])
    <3> SUFFICES ASSUME NEW x \in DOMAIN stack, NEW y \in DOMAIN stack, x < y PROVE Follows(stack[x], stack[y])
      OBVIOUS
    <3>1. y \in 1 .. Len(stack) /\ x \in 1 .. y - 1
      BY <2>1
    <3> QED BY <3>1 DEF Route
  <2>3. i < j \/ j < i
    BY <2>1
  <2> QED BY <2>2, <2>3 DEF Follows
<1> QED BY <1>1, <1>2, <1>3, PTL DEF Spec

-----------------------------------------------------------------------------
(* Cascades end. *)

\* How many of the calls before the i-th are such calls.
Number(c, i, do) == Cardinality({j \in 1 .. i - 1 : c[j].do = do})

\* What a call is about: the port that a removal takes away, or its own.
Subject(f) == IF f.do \in {"remove", "unlink"} THEN f.item ELSE f.port

\* How deep a call is when nothing is being destroyed or checked.
Level(f) ==
    IF f.do \in {"release", "drop", "destroy"} THEN 4
    ELSE IF f.do = "check" THEN 5
    ELSE IF f.do = "disconnect" THEN 2 ELSE 3

\* One of the calls before the i-th disconnects p from all its targets.
Walked(c, i, p) == \E k \in 1 .. i - 1 : c[k].do = "disconnect" /\ c[k].port = p

\* A check leads to invalid ports only, and not to its own one. The port it checks
\* is valid, or is being disconnected.
Over(c, i, f) ==
    \A j \in 1 .. i - 1 : c[j].do = "check" =>
        /\ ~Valid(Subject(f)) /\ Subject(f) # c[j].port
        /\ Valid(c[j].port) \/ Walked(c, j, c[j].port)

\* A walk that disconnects is one of the first calls, and somebody holds its port.
Walking(c, i, f) ==
    f.do = "disconnect" => (i = 1 /\ held[f.port] > 0) \/ (i = 2 /\ c[1] = Call("release", f.port))

\* A removal is the first call, or it comes with a reference to its item, or from a
\* walk of another port.
Removing(c, i, f) ==
    f.do \in {"remove", "unlink"} =>
        \/ i = 1
        \/ c[i - 1] = Call("release", f.item)
        \/ c[i - 1].do = "disconnect" /\ c[i - 1].port # f.item

\* A port is destroyed once. It has no targets if it is released by a check.
Destroying(c, i, f, r, l) ==
    f.do = "destroy" =>
        /\ r[f.port] = 0
        /\ \A j \in 1 .. i - 1 : /\ c[j].do = "destroy" => c[j].port # f.port
                                 /\ c[j].do = "check" => l[f.port] = <<>>

\* Where the call f may stand in c: each destruction before it makes it one deeper,
\* and each check four.
Stands(c, i, f, r, l) ==
    /\ i <= Number(c, i, "destroy") + 4 * Number(c, i, "check") + Level(f)
    /\ Walking(c, i, f) /\ Removing(c, i, f) /\ Destroying(c, i, f, r, l) /\ Over(c, i, f)

Nested(c, r, l) == \A i \in 1 .. Len(c) : Stands(c, i, c[i], r, l)

\* The numbers of calls.
LEMMA NumberType ==
    ASSUME NEW c, NEW i \in Nat \ {0}, NEW do
    PROVE  /\ Number(c, i, do) \in Nat /\ Number(c, 1, do) = 0
           /\ Number(c, i + 1, do) = Number(c, i, do) + IF c[i].do = do THEN 1 ELSE 0
<1> DEFINE S == {j \in 1 .. i - 1 : c[j].do = do}
           T == {j \in 1 .. (i + 1) - 1 : c[j].do = do}
<1>1. IsFiniteSet(S) /\ i \notin S
  <2>1. S \subseteq 1 .. i - 1 /\ IsFiniteSet(1 .. i - 1)
    BY FS_Interval
  <2> QED BY <2>1, FS_Subset
<1>2. T = IF c[i].do = do THEN S \cup {i} ELSE S
  <2>1. ASSUME NEW j PROVE j \in 1 .. (i + 1) - 1 <=> j \in 1 .. i - 1 \/ j = i
    OBVIOUS
  <2>2. ASSUME NEW j PROVE j \in T <=> j \in S \/ (j = i /\ c[i].do = do)
    BY <2>1
  <2> HIDE DEF S, T
  <2> QED BY <2>2
<1>3. {j \in 1 .. 1 - 1 : c[j].do = do} = {}
  OBVIOUS
<1>5. Number(c, i, do) = Cardinality(S) /\ Number(c, i + 1, do) = Cardinality(T) /\ Number(c, 1, do) = Cardinality({})
  BY <1>3 DEF Number
<1> HIDE DEF S, T
<1>4. Cardinality(S) \in Nat /\ Cardinality(S \cup {i}) = Cardinality(S) + 1
  BY <1>1, FS_CardinalityType, FS_AddElement
<1> QED BY <1>2, <1>4, <1>5, FS_EmptySet

\* They depend on the calls before only.
LEMMA NumberSame ==
    ASSUME NEW c, NEW d, NEW i, \A j \in 1 .. i - 1 : d[j] = c[j], NEW do
    PROVE  Number(d, i, do) = Number(c, i, do)
<1>1. {j \in 1 .. i - 1 : d[j].do = do} = {j \in 1 .. i - 1 : c[j].do = do}
  OBVIOUS
<1> QED BY <1>1 DEF Number

\* So does where a call may stand.
LEMMA StandsSame ==
    ASSUME NEW c, NEW d, NEW i \in Nat \ {0}, \A j \in 1 .. i - 1 : d[j] = c[j],
           NEW f, NEW r, NEW l, Stands(c, i, f, r, l)
    PROVE  Stands(d, i, f, r, l)
<1>1. Number(d, i, "destroy") = Number(c, i, "destroy") /\ Number(d, i, "check") = Number(c, i, "check")
  BY NumberSame
<1>2. Walking(d, i, f)
  <2>1. i = 2 => d[1] = c[1]
    OBVIOUS
  <2> QED BY <2>1 DEF Stands, Walking
<1>3. Removing(d, i, f)
  <2>1. i # 1 => d[i - 1] = c[i - 1]
    OBVIOUS
  <2> QED BY <2>1 DEF Stands, Removing
<1>4. Destroying(d, i, f, r, l)
  BY DEF Stands, Destroying
<1>5. Over(d, i, f)
  <2> SUFFICES ASSUME NEW j \in 1 .. i - 1, d[j].do = "check"
               PROVE  /\ ~Valid(Subject(f)) /\ Subject(f) # d[j].port
                      /\ Valid(d[j].port) \/ Walked(d, j, d[j].port)
    BY DEF Over
  <2>1. d[j] = c[j] /\ \A k \in 1 .. j - 1 : d[k] = c[k]
    OBVIOUS
  <2>2. /\ ~Valid(Subject(f)) /\ Subject(f) # c[j].port
        /\ Valid(c[j].port) \/ Walked(c, j, c[j].port)
    BY <2>1 DEF Stands, Over
  <2> QED BY <2>1, <2>2 DEF Walked
<1> QED BY <1>1, <1>2, <1>3, <1>4, <1>5 DEF Stands

\* What is destroyed stays destroyed, and empty lists stay empty.
Settled(r, l, q, k) == \A p \in Ports : /\ r[p] = 0 => q[p] = 0
                                        /\ l[p] = <<>> => k[p] = <<>>

\* Then a call may stand where it stands.
LEMMA StandsSettled ==
    ASSUME NEW c, NEW i, NEW f \in Frames, NEW r, NEW l, NEW q, NEW k, Settled(r, l, q, k), Stands(c, i, f, r, l)
    PROVE  Stands(c, i, f, q, k)
<1>1. f.port \in Ports
  BY FrameFields
<1> QED BY <1>1 DEF Stands, Destroying, Settled

\* The calls that are nested stay so.
LEMMA NestedSettled ==
    ASSUME NEW c \in Seq(Frames), NEW r, NEW l, NEW q, NEW k, Settled(r, l, q, k), Nested(c, r, l)
    PROVE  Nested(c, q, k)
<1> SUFFICES ASSUME NEW i \in 1 .. Len(c) PROVE Stands(c, i, c[i], q, k)
  BY DEF Nested
<1>1. c[i] \in Frames /\ Stands(c, i, c[i], r, l)
  BY DEF Nested
<1> QED BY <1>1, StandsSettled

\* Without the one on top.
LEMMA NestedFront ==
    ASSUME NEW c \in Seq(Frames), c # <<>>, NEW r, NEW l, Nested(c, r, l)
    PROVE  Nested(Front(c), r, l) /\ Stands(Front(c), Len(Front(c)) + 1, Last(c), r, l)
<1> DEFINE t == Front(c)
           f == Last(c)
           n == Len(c)
<1>1. n \in Nat \ {0} /\ Len(t) = n - 1 /\ f = c[n] /\ \A i \in 1 .. n - 1 : t[i] = c[i]
  BY FrontLast
<1>2. \A i \in 1 .. n : Stands(c, i, c[i], r, l)
  BY DEF Nested
<1> HIDE DEF t, f, n
<1>3. ASSUME NEW i \in 1 .. n PROVE Stands(t, i, c[i], r, l)
  <2>1. i \in Nat \ {0} /\ \A j \in 1 .. i - 1 : t[j] = c[j]
    BY <1>1
  <2>2. Stands(c, i, c[i], r, l)
    BY <1>2
  <2> QED BY <2>1, <2>2, StandsSame
<1>4. Stands(t, Len(t) + 1, f, r, l)
  <2>1. n \in 1 .. n /\ Len(t) + 1 = n /\ f = c[n]
    BY <1>1
  <2>2. Stands(t, n, c[n], r, l)
    BY <1>3, <2>1
  <2> QED BY <2>1, <2>2
<1>5. ASSUME NEW i \in 1 .. Len(t) PROVE Stands(t, i, t[i], r, l)
  <2>1. i \in 1 .. n /\ t[i] = c[i]
    BY <1>1
  <2> QED BY <1>3, <2>1
<1> QED BY <1>4, <1>5 DEF Nested, t, f

\* One more.
LEMMA NestedAppend ==
    ASSUME NEW t \in Seq(Frames), NEW a \in Frames, NEW r, NEW l, Nested(t, r, l), Stands(t, Len(t) + 1, a, r, l)
    PROVE  Append(t, a) \in Seq(Frames) /\ Nested(Append(t, a), r, l)
<1> DEFINE c == Append(t, a)
           n == Len(t)
<1>1. c \in Seq(Frames) /\ n \in Nat /\ Len(c) = n + 1 /\ c[n + 1] = a /\ \A i \in 1 .. n : c[i] = t[i]
  OBVIOUS
<1>2. \A i \in 1 .. n : Stands(t, i, t[i], r, l)
  BY DEF Nested
<1> HIDE DEF c
<1>3. ASSUME NEW i \in 1 .. Len(c) PROVE Stands(c, i, c[i], r, l)
  <2>1. i \in Nat \ {0} /\ \A j \in 1 .. i - 1 : c[j] = t[j]
    BY <1>1
  <2>2. Stands(t, i, c[i], r, l)
    <3>1. CASE i = n + 1
      BY <1>1, <3>1
    <3>2. CASE i # n + 1
      <4>1. i \in 1 .. n
        BY <1>1, <3>2
      <4> QED BY <1>1, <1>2, <4>1
    <3> QED BY <3>1, <3>2
  <2> QED BY <2>1, <2>2, StandsSame
<1> QED BY <1>1, <1>3 DEF Nested, c

\* Only one port is walked.
LEMMA OneWalk ==
    ASSUME NEW c \in Seq(Frames), NEW r, NEW l, Nested(c, r, l),
           NEW i \in 1 .. Len(c), NEW j \in 1 .. Len(c), c[i].do = "disconnect", c[j].do = "disconnect"
    PROVE  i = j
<1>1. \A n \in 1 .. Len(c) : Walking(c, n, c[n])
  BY DEF Nested, Stands
<1>2. \A p \in Ports : Call("release", p).do = "release"
  BY FrameType DEF Call, Steps
<1>3. c[i].port \in Ports /\ c[j].port \in Ports
  BY FrameFields
<1>4. (i = 1 \/ (i = 2 /\ c[1].do = "release")) /\ (j = 1 \/ (j = 2 /\ c[1].do = "release"))
  BY <1>1, <1>2, <1>3 DEF Walking
<1> QED BY <1>4

\* No more ports are being destroyed than there are.
LEMMA DestroyedFew ==
    ASSUME NEW c \in Seq(Frames), NEW r, NEW l, Nested(c, r, l), NEW i \in 1 .. Len(c)
    PROVE  Number(c, i, "destroy") <= Cardinality(Ports)
<1> DEFINE S == {j \in 1 .. i - 1 : c[j].do = "destroy"}
           g == [j \in S |-> c[j].port]
<1>1. \A j \in S : j \in 1 .. Len(c) /\ c[j] \in Frames /\ c[j].do = "destroy" /\ c[j].port \in Ports
  <2> SUFFICES ASSUME NEW j \in S PROVE j \in 1 .. Len(c) /\ c[j] \in Frames /\ c[j].do = "destroy" /\ c[j].port \in Ports
    OBVIOUS
  <2>1. j \in 1 .. Len(c) /\ c[j] \in Frames
    OBVIOUS
  <2> QED BY <2>1, FrameFields
<1>2. \A j, k \in S : j < k => c[j].port # c[k].port
  <2> SUFFICES ASSUME NEW j \in S, NEW k \in S, j < k PROVE c[j].port # c[k].port
    OBVIOUS
  <2>1. Destroying(c, k, c[k], r, l) /\ c[k].do = "destroy" /\ j \in 1 .. k - 1 /\ c[j].do = "destroy"
    BY <1>1 DEF Nested, Stands
  <2> QED BY <2>1 DEF Destroying
<1>3. g \in Injection(S, Ports)
  <2>1. g \in [S -> Ports]
    BY <1>1
  <2>2. \A j, k \in S : g[j] = g[k] => j = k
    <3> SUFFICES ASSUME NEW j \in S, NEW k \in S, c[j].port = c[k].port PROVE j = k
      OBVIOUS
    <3>1. j < k \/ k < j \/ j = k
      OBVIOUS
    <3> QED BY <1>2, <3>1
  <2> QED BY <2>1, <2>2 DEF Injection, IsInjective
<1> HIDE DEF S, g
<1>4. Cardinality(S) <= Cardinality(Ports)
  BY <1>3, HeapAssumption, FS_Injection
<1> QED BY <1>4 DEF Number, S

\* No more than two ports are being checked by calls that others are on top of.
LEMMA CheckedFew ==
    ASSUME NEW c \in Seq(Frames), NEW r, NEW l, Nested(c, r, l), NEW i \in 1 .. Len(c)
    PROVE  Number(c, i, "check") <= 2
<1> DEFINE S == {j \in 1 .. i - 1 : c[j].do = "check"}
<1>1. S \subseteq Nat /\ \A j \in S : j \in 1 .. i - 1 /\ j \in 1 .. Len(c) /\ c[j].do = "check" /\ Subject(c[j]) = c[j].port
  BY DEF Subject
<1>2. \A n \in 1 .. Len(c) : Over(c, n, c[n])
  BY DEF Nested, Stands
<1>3. ASSUME NEW j \in S, NEW k \in S, NEW n \in S, j < k, k < n PROVE FALSE
  <2>1. ~Valid(c[k].port) /\ ~Valid(c[n].port) /\ c[n].port # c[k].port
    <3>1. j \in 1 .. k - 1 /\ k \in 1 .. n - 1
      BY <1>1, <1>3
    <3> QED BY <1>1, <1>2, <3>1 DEF Over
  <2>2. Walked(c, k, c[k].port) /\ Walked(c, n, c[n].port)
    BY <1>1, <1>2, <2>1 DEF Over
  <2>3. PICK u \in 1 .. k - 1 : c[u].do = "disconnect" /\ c[u].port = c[k].port
    BY <2>2 DEF Walked
  <2>4. PICK v \in 1 .. n - 1 : c[v].do = "disconnect" /\ c[v].port = c[n].port
    BY <2>2 DEF Walked
  <2>5. u \in 1 .. Len(c) /\ v \in 1 .. Len(c)
    BY <1>1
  <2>6. u = v
    BY <2>3, <2>4, <2>5, OneWalk
  <2> QED BY <2>1, <2>3, <2>4, <2>6
<1> HIDE DEF S
<1>4. S = {} \/ \E a, b : S \subseteq {a, b}
  <2> SUFFICES ASSUME S # {} PROVE \E a, b : S \subseteq {a, b}
    OBVIOUS
  <2>1. PICK a \in S : \A m \in S : a <= m
    BY <1>1, Least
  <2>2. CASE S = {a}
    BY <2>2
  <2>3. CASE S # {a}
    <3>1. S \ {a} \subseteq Nat /\ S \ {a} # {}
      BY <1>1, <2>1, <2>3
    <3>2. PICK b \in S \ {a} : \A m \in S \ {a} : b <= m
      BY <3>1, Least
    <3>3. ASSUME NEW m \in S, m # a, m # b PROVE FALSE
      <4>1. a < b /\ b < m
        BY <1>1, <2>1, <3>2, <3>3
      <4> QED BY <1>3, <3>2, <4>1
    <3> QED BY <3>3
  <2> QED BY <2>2, <2>3
<1>5. Cardinality(S) <= 2
  <2>1. CASE S = {}
    BY <2>1, FS_EmptySet
  <2>2. ASSUME NEW a, NEW b, S \subseteq {a, b} PROVE Cardinality(S) <= 2
    <3>1. IsFiniteSet({a}) /\ Cardinality({a}) = 1
      BY FS_Singleton
    <3>2. {a, b} = {a} \cup {b}
      OBVIOUS
    <3> DEFINE A == {a}
    <3>5. IsFiniteSet(A) /\ Cardinality(A) = 1
      BY <3>1
    <3> HIDE DEF A
    <3>6. IsFiniteSet(A \cup {b}) /\ Cardinality(A \cup {b}) = IF b \in A THEN Cardinality(A) ELSE Cardinality(A) + 1
      BY <3>5, FS_AddElement
    <3>7. IsFiniteSet(A \cup {b}) /\ Cardinality(A \cup {b}) <= 2
      BY <3>5, <3>6
    <3>3. IsFiniteSet({a, b}) /\ Cardinality({a, b}) <= 2
      BY <3>2, <3>7 DEF A
    <3>4. Cardinality(S) <= Cardinality({a, b}) /\ Cardinality(S) \in Nat /\ Cardinality({a, b}) \in Nat
      BY <2>2, <3>3, FS_Subset, FS_CardinalityType
    <3> QED BY <3>3, <3>4
  <2> QED BY <1>4, <2>1, <2>2
<1> QED BY <1>5 DEF Number, S

\* How deep calls nest.
LEMMA NestedFits ==
    ASSUME NEW c \in Seq(Frames), NEW r, NEW l, Nested(c, r, l)
    PROVE  Len(c) <= Cardinality(Ports) + 13
<1> DEFINE n == Len(c)
           k == Cardinality(Ports)
<1>1. n \in Nat /\ k \in Nat
  BY HeapAssumption, FS_CardinalityType
<1>2. CASE n = 0
  BY <1>1, <1>2
<1>3. CASE n # 0
  <2>1. n \in 1 .. Len(c) /\ n \in Nat \ {0}
    BY <1>1, <1>3
  <2> DEFINE d == Number(c, n, "destroy")
             h == Number(c, n, "check")
  <2>2. d <= k /\ h <= 2
    <3> HIDE DEF n
    <3> QED BY <2>1, DestroyedFew, CheckedFew
  <2>3. d \in Nat /\ h \in Nat
    BY <2>1, NumberType
  <2>4. n <= d + 4 * h + Level(c[n])
    BY <2>1 DEF Nested, Stands
  <2>5. Level(c[n]) \in Nat /\ Level(c[n]) <= 5
    BY DEF Level
  <2> DEFINE e == Level(c[n])
  <2> HIDE DEF n, k, d, h, e
  <2>6. n <= k + 13
    BY <1>1, <2>2, <2>3, <2>4, <2>5 DEF e
  <2> QED BY <2>6 DEF n, k
<1> QED BY <1>2, <1>3

\* One, if so.
OneIf(x, do) == IF x = do THEN 1 ELSE 0

\* Where a call may stand on top of a.
LEMMA StandsOn ==
    ASSUME NEW t \in Seq(Frames), NEW a \in Frames, NEW b \in Frames, NEW r, NEW l, NEW i, i = Len(t) + 1,
           b.do # "destroy",
           i + 1 <= Number(t, i, "destroy") + OneIf(a.do, "destroy")
                       + 4 * (Number(t, i, "check") + OneIf(a.do, "check")) + Level(b),
           b.do = "disconnect" => i = 1 /\ a = Call("release", b.port),
           b.do \in {"remove", "unlink"} => a = Call("release", b.item) \/ (a.do = "disconnect" /\ a.port # b.item),
           Over(t, i, b),
           a.do = "check" => ~Valid(Subject(b)) /\ Subject(b) # a.port /\ (Valid(a.port) \/ Walked(t, i, a.port))
    PROVE  Stands(Append(t, a), Len(Append(t, a)) + 1, b, r, l)
<1> DEFINE c == Append(t, a)
<1>1. /\ i \in Nat \ {0} /\ Len(c) + 1 = i + 1 /\ c[i] = a /\ \A j \in 1 .. i - 1 : c[j] = t[j]
  OBVIOUS
<1> HIDE DEF c
<1>2. \A do : /\ Number(c, i + 1, do) = Number(c, i, do) + OneIf(a.do, do)
              /\ Number(c, i, do) = Number(t, i, do)
  <2> SUFFICES ASSUME NEW do PROVE /\ Number(c, i + 1, do) = Number(c, i, do) + OneIf(a.do, do)
                                    /\ Number(c, i, do) = Number(t, i, do)
    OBVIOUS
  <2>1. Number(c, i + 1, do) = Number(c, i, do) + IF c[i].do = do THEN 1 ELSE 0
    BY <1>1, NumberType
  <2>3. \A j \in 1 .. i - 1 : c[j] = t[j]
    BY <1>1
  <2>4. {j \in 1 .. i - 1 : c[j].do = do} = {j \in 1 .. i - 1 : t[j].do = do}
    BY <2>3
  <2>2. Number(c, i, do) = Number(t, i, do)
    BY <2>4 DEF Number
  <2> QED BY <1>1, <2>1, <2>2 DEF OneIf
<1>3. i + 1 <= Number(c, i + 1, "destroy") + 4 * Number(c, i + 1, "check") + Level(b)
  BY <1>2
<1>4. Walking(c, i + 1, b)
  BY <1>1 DEF Walking
<1>5. Removing(c, i + 1, b)
  <2>1. (i + 1) - 1 = i
    BY <1>1
  <2> QED BY <1>1, <2>1 DEF Removing
<1>6. Destroying(c, i + 1, b, r, l)
  BY DEF Destroying
<1>7. Over(c, i + 1, b)
  <2> SUFFICES ASSUME NEW j \in 1 .. (i + 1) - 1, c[j].do = "check"
               PROVE  /\ ~Valid(Subject(b)) /\ Subject(b) # c[j].port
                      /\ Valid(c[j].port) \/ Walked(c, j, c[j].port)
    BY DEF Over
  <2>1. CASE j = i
    <3>1. ~Valid(Subject(b)) /\ Subject(b) # a.port /\ (Valid(a.port) \/ Walked(t, i, a.port)) /\ c[j] = a
      BY <1>1, <2>1
    <3>2. Walked(t, i, a.port) => Walked(c, i, a.port)
      BY <1>1 DEF Walked
    <3> QED BY <2>1, <3>1, <3>2
  <2>2. CASE j # i
    <3>1. j \in 1 .. i - 1 /\ c[j] = t[j] /\ \A k \in 1 .. j - 1 : c[k] = t[k]
      BY <1>1, <2>2
    <3>2. /\ ~Valid(Subject(b)) /\ Subject(b) # t[j].port
          /\ Valid(t[j].port) \/ Walked(t, j, t[j].port)
      BY <3>1 DEF Over
    <3> QED BY <3>1, <3>2 DEF Walked
  <2> QED BY <2>1, <2>2
<1>8. Stands(c, i + 1, b, r, l)
  BY <1>3, <1>4, <1>5, <1>6, <1>7 DEF Stands
<1> QED BY <1>1, <1>8 DEF c

\* The calls do not nest too deep after a step, and are nested as they may be.
Ends(r, l) == crash' # "recursion" /\ (crash' = "none" => Nested(calls', r, l))

\* There is room for nested calls.
LEMMA GotoEnds ==
    ASSUME Depth >= Cardinality(Ports) + 13, crash = "none",
           NEW s \in Seq(Frames), NEW r, NEW l, Nested(s, r, l), Goto(s)
    PROVE  Ends(r, l)
<1>1. Len(s) <= Cardinality(Ports) + 13 /\ Cardinality(Ports) \in Nat /\ Len(s) \in Nat
  BY NestedFits, HeapAssumption, FS_CardinalityType
<1>2. Len(s) <= Depth
  BY <1>1, HeapAssumption
<1> QED BY <1>2 DEF Goto, Ends

\* The calls below the top, and where the one on top stands.
LEMMA Standing ==
    ASSUME HeapType, Working, NEW r, NEW l, Settled(refs, list, r, l), Nested(calls, refs, list)
    PROVE  /\ Front(calls) \in Seq(Frames) /\ Last(calls) \in Frames
           /\ Nested(Front(calls), r, l) /\ Stands(Front(calls), Len(Front(calls)) + 1, Last(calls), r, l)
<1>1. calls \in Seq(Frames) /\ calls # <<>> /\ Front(calls) \in Seq(Frames) /\ Last(calls) \in Frames
  BY TopCall
<1>2. Nested(calls, r, l)
  BY <1>1, NestedSettled
<1> QED BY <1>1, <1>2, NestedFront

\* The call on top is over, or becomes one call, two or three.
LEMMA BecomeEnds ==
    ASSUME Depth >= Cardinality(Ports) + 13, Working,
           NEW t \in Seq(Frames), t = Front(calls), NEW r, NEW l, Nested(t, r, l)
    PROVE  /\ Become(<<>>) => Ends(r, l)
           /\ \A a \in Frames : Stands(t, Len(t) + 1, a, r, l) =>
                 /\ Become(<<a>>) => Ends(r, l)
                 /\ \A b \in Frames : Stands(Append(t, a), Len(Append(t, a)) + 1, b, r, l) =>
                       /\ Become(<<a, b>>) => Ends(r, l)
                       /\ \A c \in Frames :
                             Stands(Append(Append(t, a), b), Len(Append(Append(t, a), b)) + 1, c, r, l)
                             /\ Become(<<a, b, c>>) => Ends(r, l)
<1>1. crash = "none"
  BY DEF Working
<1>2. ASSUME NEW s \in Seq(Frames), NEW x \in Seq(Frames), x = t \o s, Nested(x, r, l), Become(s) PROVE Ends(r, l)
  <2>1. Goto(x)
    BY <1>2 DEF Become
  <2> QED BY <1>1, <1>2, <2>1, GotoEnds
<1>3. Become(<<>>) => Ends(r, l)
  <2>1. <<>> \in Seq(Frames) /\ t = t \o <<>>
    OBVIOUS
  <2> QED BY <1>2, <2>1
<1> SUFFICES ASSUME NEW a \in Frames, Stands(t, Len(t) + 1, a, r, l)
             PROVE  /\ Become(<<a>>) => Ends(r, l)
                    /\ \A b \in Frames : Stands(Append(t, a), Len(Append(t, a)) + 1, b, r, l) =>
                       /\ Become(<<a, b>>) => Ends(r, l)
                       /\ \A c \in Frames :
                             Stands(Append(Append(t, a), b), Len(Append(Append(t, a), b)) + 1, c, r, l)
                             /\ Become(<<a, b, c>>) => Ends(r, l)
  BY <1>3
<1> DEFINE u == Append(t, a)
<1>4. u \in Seq(Frames) /\ Nested(u, r, l) /\ <<a>> \in Seq(Frames) /\ u = t \o <<a>>
  BY NestedAppend, Extended
<1>5. Become(<<a>>) => Ends(r, l)
  <2> HIDE DEF u
  <2> QED BY <1>2, <1>4
<1> SUFFICES ASSUME NEW b \in Frames, Stands(u, Len(u) + 1, b, r, l)
             PROVE  /\ Become(<<a, b>>) => Ends(r, l)
                    /\ \A c \in Frames : Stands(Append(u, b), Len(Append(u, b)) + 1, c, r, l)
                                            /\ Become(<<a, b, c>>) => Ends(r, l)
  BY <1>5
<1> DEFINE v == Append(u, b)
<1>6. v \in Seq(Frames) /\ Nested(v, r, l)
  <2> HIDE DEF u
  <2> QED BY <1>4, NestedAppend
<1>7. <<a, b>> \in Seq(Frames) /\ v = t \o <<a, b>>
  BY Extended
<1>8. Become(<<a, b>>) => Ends(r, l)
  <2> HIDE DEF u, v
  <2> QED BY <1>2, <1>6, <1>7
<1>9. ASSUME NEW c \in Frames, Stands(v, Len(v) + 1, c, r, l), Become(<<a, b, c>>) PROVE Ends(r, l)
  <2> DEFINE w == Append(v, c)
  <2>1. w \in Seq(Frames) /\ Nested(w, r, l)
    <3> HIDE DEF v
    <3> QED BY <1>6, <1>9, NestedAppend
  <2>2. <<a, b, c>> \in Seq(Frames) /\ w = t \o <<a, b, c>>
    BY Extended
  <2> HIDE DEF u, v, w
  <2> QED BY <1>2, <1>9, <2>1, <2>2
<1> QED BY <1>8, <1>9

\* MIDIPortRelease: the drop takes its place, and a check may be on top.
LEMMA ReleaseEnds ==
    ASSUME Depth >= Cardinality(Ports) + 13, HeapType, Nested(calls, refs, list), MIDIPortRelease
    PROVE  Ends(refs, list)
<1> DEFINE f == Last(calls)
           p == f.port
           t == Front(calls)
           i == Len(t) + 1
           a == Call("drop", p)
           b == Walk("check", p)
<1>1. Working /\ f \in Frames /\ f.do = "release" /\ p \in Ports /\ t \in Seq(Frames)
  BY TopCall DEF MIDIPortRelease, Top
<1>2. Nested(t, refs, list) /\ Stands(t, i, f, refs, list)
  BY <1>1, Standing DEF Settled
<1>3. /\ a \in Frames /\ a.do = "drop" /\ a.port = p
      /\ b \in Frames /\ b.do = "check" /\ b.port = p
  BY <1>1, FirstType, FrameType DEF Call, Walk, Steps
<1>4. Ends(refs, list) \/ Become(<<a, b>>) \/ Become(<<a>>)
  BY <1>1 DEF MIDIPortRelease, Crash, Ends, Working
<1>5. i \in Nat \ {0} /\ Number(t, i, "destroy") \in Nat /\ Number(t, i, "check") \in Nat
  <2>1. i \in Nat \ {0}
    BY <1>1
  <2> HIDE DEF i, t
  <2> QED BY <2>1, NumberType
<1> HIDE DEF f, t, i, a, b
<1>6. Subject(f) = p /\ Subject(a) = p /\ Subject(b) = p /\ Level(f) = 4 /\ Level(a) = 4 /\ Level(b) = 5
  BY <1>1, <1>3 DEF Subject, Level
<1>7. Stands(t, i, a, refs, list)
  BY <1>1, <1>2, <1>3, <1>6 DEF Stands, Walking, Removing, Destroying, Over
<1>8. Stands(Append(t, a), Len(Append(t, a)) + 1, b, refs, list)
  <2>1. Over(t, i, b) /\ i <= Number(t, i, "destroy") + 4 * Number(t, i, "check") + 4
    BY <1>2, <1>6 DEF Stands, Over
  <2>2. i + 1 <= Number(t, i, "destroy") + OneIf(a.do, "destroy")
                    + 4 * (Number(t, i, "check") + OneIf(a.do, "check")) + Level(b)
    BY <1>3, <1>5, <1>6, <2>1 DEF OneIf
  <2> QED BY <1>1, <1>3, <2>1, <2>2, StandsOn DEF i
<1> QED BY <1>1, <1>2, <1>3, <1>4, <1>7, <1>8, BecomeEnds DEF t, i

\* While somebody walks p, who drops it has no last reference: the removals have
\* got theirs from checks.
LEMMA WalkedWeight ==
    ASSUME NEW c \in Seq(Frames), NEW r, NEW l, Nested(c, r, l), NEW n \in 1 .. Len(c), n = Len(c),
           c[n].do = "drop", NEW p \in Ports, p = c[n].port, Walked(c, n, p), held[p] \in Nat
    PROVE  Weight(c, p) + held[p] >= 2
<1> DEFINE O == {i \in DOMAIN c : c[i] \in Owing(p)}
           H == {i \in DOMAIN c : c[i] \in Holding(p)}
           g == [i \in O |-> i - 1]
<1>1. DOMAIN c = 1 .. n /\ n \in Nat \ {0} /\ \A i \in 1 .. n : c[i] \in Frames
  OBVIOUS
<1>2. Weight(c, p) = Cardinality(H) - Cardinality(O)
  BY DEF Weight, Count
<1>3. IsFiniteSet(H) /\ IsFiniteSet(O) /\ Cardinality(H) \in Nat /\ Cardinality(O) \in Nat
  <2>1. IsFiniteSet(1 .. n) /\ H \subseteq 1 .. n /\ O \subseteq 1 .. n
    BY <1>1, FS_Interval
  <2> QED BY <2>1, FS_Subset, FS_CardinalityType
<1>4. PICK k \in 1 .. n - 1 : c[k].do = "disconnect" /\ c[k].port = p
  BY DEF Walked
<1>5. (k = 1 /\ held[p] > 0) \/ (k = 2 /\ c[1] = Call("release", p))
  <2>1. k \in 1 .. Len(c)
    BY <1>1
  <2>2. Walking(c, k, c[k])
    BY <2>1 DEF Nested, Stands
  <2> QED BY <1>4, <2>2 DEF Walking
<1>6. Call("release", p).do = "release" /\ Call("release", p).port = p
  BY FrameType DEF Call, Steps
<1>6a. n \in H
  BY <1>1 DEF Holding
<1>7. ASSUME NEW i \in O PROVE i - 1 \in H /\ i - 1 # n /\ i \in Nat /\ (k = 2 => i - 1 # 1)
  <2>1. i \in 1 .. n /\ c[i].do = "unlink" /\ c[i].item = p
    BY <1>1 DEF Owing
  <2>2. Removing(c, i, c[i])
    BY <1>1, <2>1 DEF Nested, Stands
  <2>3. i # 1
    BY <1>4, <1>5, <1>6, <2>1
  <2>4. ~(c[i - 1].do = "disconnect" /\ c[i - 1].port # p)
    <3> SUFFICES ASSUME c[i - 1].do = "disconnect", c[i - 1].port # p PROVE FALSE
      OBVIOUS
    <3>1. i - 1 \in 1 .. Len(c) /\ k \in 1 .. Len(c)
      BY <1>1, <2>1, <2>3
    <3>2. i - 1 = k
      BY <1>4, <3>1, OneWalk
    <3> QED BY <1>4, <3>2
  <2>5. c[i - 1] = Call("release", p)
    BY <2>1, <2>2, <2>3, <2>4 DEF Removing
  <2>6. i - 1 \in 1 .. n /\ i - 1 # n
    BY <1>1, <2>1, <2>3
  <2>7. i - 1 \in H
    BY <1>1, <1>6, <2>5, <2>6 DEF Holding
  <2>8. k = 2 => i # 2
    BY <1>4, <2>1
  <2> QED BY <2>1, <2>6, <2>7, <2>8
<1>8. ASSUME NEW X \in SUBSET H, \A i \in O : i - 1 \in X PROVE Cardinality(O) <= Cardinality(X)
  <2>1. g \in Injection(O, X)
    <3>1. g \in [O -> X] /\ \A i \in O : i \in Nat
      BY <1>7, <1>8
    <3>2. \A i, j \in O : g[i] = g[j] => i = j
      BY <3>1
    <3> QED BY <3>1, <3>2 DEF Injection, IsInjective
  <2>2. IsFiniteSet(X)
    BY <1>3, FS_Subset
  <2> HIDE DEF O, H, g
  <2> QED BY <2>1, <2>2, FS_Injection
<1> HIDE DEF O, H, g
<1> DEFINE X == H \ {n}
<1>9. IsFiniteSet(X) /\ Cardinality(X) = Cardinality(H) - 1
  BY <1>3, <1>6a, FS_RemoveElement
<1>10. CASE k = 1 /\ held[p] > 0
  <2>1. \A i \in O : i - 1 \in X
    BY <1>7
  <2>2. Cardinality(O) <= Cardinality(X)
    BY <1>8, <2>1
  <2> QED BY <1>2, <1>3, <1>9, <1>10, <2>2
<1>11. CASE k = 2 /\ c[1] = Call("release", p)
  <2> DEFINE Y == X \ {1}
  <2>1. 1 \in H /\ 1 # n
    BY <1>1, <1>4, <1>6, <1>11 DEF H, Holding
  <2>2. 1 \in X
    BY <2>1
  <2> HIDE DEF X
  <2>3. Cardinality(Y) = Cardinality(X) - 1
    BY <1>9, <2>2, FS_RemoveElement
  <2>4. \A i \in O : i - 1 \in Y
    BY <1>7, <1>11 DEF X
  <2>5. Cardinality(O) <= Cardinality(Y)
    BY <1>8, <2>4 DEF X
  <2> QED BY <1>2, <1>3, <1>9, <2>3, <2>5
<1> QED BY <1>5, <1>10, <1>11

\* An invalid port that can be read and has entries is being walked.
LEMMA InvalidWalked ==
    ASSUME HeapType, Working, Dissolving, NEW p \in Ports, refs[p] > 0, ~Valid(p), list[p] # <<>>,
           Last(calls).do # "disconnect"
    PROVE  Walked(calls, Len(calls), p) /\ Walked(Front(calls), Len(Front(calls)) + 1, p)
<1> DEFINE t == Front(calls)
           n == Len(calls)
<1>1. /\ n \in Nat \ {0} /\ DOMAIN calls = 1 .. n /\ Last(calls) = calls[n]
      /\ Len(t) = n - 1 /\ \A i \in 1 .. n - 1 : t[i] = calls[i]
  BY TopCall, FrontLast
<1> HIDE DEF t, n
<1>2. PICK k \in 1 .. n : calls[k].do = "disconnect" /\ calls[k].port = p
  BY <1>1 DEF Dissolving, Emptying, Walks
<1>3. k # n
  BY <1>1, <1>2
<1>4. k \in 1 .. n - 1 /\ k \in 1 .. (Len(t) + 1) - 1 /\ t[k] = calls[k]
  BY <1>1, <1>3
<1> QED BY <1>2, <1>4 DEF Walked, t, n

\* The last reference goes: the port is not being destroyed yet.
LEMMA DropEnds ==
    ASSUME Depth >= Cardinality(Ports) + 13, HeapType, held \in [Ports -> Nat], Counted, Dissolving,
           Nested(calls, refs, list), Drop
    PROVE  Ends(refs', list')
<1> DEFINE f == Last(calls)
           p == f.port
           t == Front(calls)
           i == Len(t) + 1
           a == Call("destroy", p)
<1>1. Working /\ f \in Frames /\ f.do = "drop" /\ p \in Ports /\ t \in Seq(Frames) /\ list' = list
  BY TopCall DEF Drop, Top
<1>2. CASE ~Alive(p)
  BY <1>2 DEF Drop, Crash, Ends
<1>3. CASE Alive(p)
  <2>1. refs' = [refs EXCEPT ![p] = @ - 1] /\ Become(IF refs[p] = 1 THEN <<a>> ELSE <<>>)
    BY <1>3 DEF Drop, Decrement
  <2>2. refs[p] \in Nat \ {0} /\ refs'[p] = refs[p] - 1 /\ \A q \in Ports : q # p => refs'[q] = refs[q]
    BY <1>1, <1>3, <2>1 DEF HeapType, Alive
  <2>3. Settled(refs, list, refs', list)
    BY <1>1, <2>2 DEF Settled
  <2>4. Nested(t, refs', list) /\ Stands(t, i, f, refs', list)
    BY <1>1, <2>3, Standing
  <2>5. CASE refs[p] # 1
    BY <1>1, <2>1, <2>4, <2>5, BecomeEnds
  <2>6. CASE refs[p] = 1
    <3>1. a \in Frames /\ a.do = "destroy" /\ a.port = p
      BY <1>1, FrameType DEF Call, Steps
    <3> DEFINE n == Len(calls)
    <3>2. n \in Nat \ {0} /\ i = n /\ calls[n] = f /\ \A j \in 1 .. n - 1 : t[j] = calls[j]
      BY <1>1, TopCall, FrontLast
    <3>3. ASSUME NEW j \in 1 .. i - 1, t[j].do = "destroy" PROVE t[j].port # p
      <4>1. j \in 1 .. Len(calls) /\ t[j] = calls[j]
        BY <3>2
      <4>2. refs[t[j].port] = 0
        BY <3>3, <4>1 DEF Nested, Stands, Destroying
      <4> QED BY <2>6, <4>2
    <3>4. ASSUME NEW j \in 1 .. i - 1, t[j].do = "check", list[p] # <<>> PROVE FALSE
      <4>1. ~Valid(p)
        BY <1>1, <2>4, <3>4 DEF Stands, Over, Subject
      <4>2. Walked(calls, n, p)
        BY <1>1, <2>6, <3>4, <4>1, InvalidWalked
      <4>3. held[p] \in Nat /\ calls \in Seq(Frames) /\ n \in 1 .. Len(calls)
        BY <1>1, <3>2, TopCall
      <4>4. Weight(calls, p) + held[p] >= 2
        BY <1>1, <3>2, <4>2, <4>3, WalkedWeight
      <4>5. held[p] = refs[p] - Cardinality(Links(list, p)) - Weight(calls, p)
        BY <1>1 DEF Counted, Balanced, Surplus
      <4>6. Cardinality(Links(list, p)) \in Nat /\ Weight(calls, p) \in Int
        BY <4>3, LinksFinite, WeightType DEF HeapType
      <4> QED BY <2>6, <4>3, <4>4, <4>5, <4>6
    <3> HIDE DEF f, t, i, a
    <3>5. Destroying(t, i, a, refs', list)
      BY <2>2, <2>6, <3>1, <3>3, <3>4 DEF Destroying
    <3>6. Stands(t, i, a, refs', list)
      BY <1>1, <2>4, <3>1, <3>5 DEF Stands, Walking, Removing, Over, Subject, Level
    <3> QED BY <1>1, <2>1, <2>4, <2>6, <3>1, <3>6, BecomeEnds DEF t, i
  <2> QED BY <2>5, <2>6
<1> QED BY <1>2, <1>3

\* MIDIListDestroy: the item that is released is below the destruction.
LEMMA DestroyEnds ==
    ASSUME Depth >= Cardinality(Ports) + 13, HeapType, Nested(calls, refs, list), Destroy
    PROVE  Ends(refs', list')
<1> DEFINE f == Last(calls)
           p == f.port
           t == Front(calls)
           i == Len(t) + 1
           b == Call("release", Head(list[p]).port)
<1>1. Working /\ f \in Frames /\ f.do = "destroy" /\ p \in Ports /\ t \in Seq(Frames) /\ refs' = refs
  BY TopCall DEF Destroy, Top
<1>2. CASE list[p] = <<>>
  <2>1. Become(<<>>) /\ list' = list
    BY <1>2 DEF Destroy
  <2>2. Nested(t, refs, list)
    BY <1>1, Standing DEF Settled
  <2> QED BY <1>1, <2>1, <2>2, BecomeEnds
<1>3. CASE list[p] # <<>>
  <2>1. Become(<<f, b>>) /\ list' = [list EXCEPT ![p] = Tail(@)]
    BY <1>3 DEF Destroy, Freed
  <2>2. list \in [Ports -> Seq(Entry)]
    BY DEF HeapType
  <2>3. Settled(refs, list, refs, list')
    <3> SUFFICES ASSUME NEW q \in Ports, list[q] = <<>> PROVE list'[q] = <<>>
      BY DEF Settled
    <3> QED BY <1>3, <2>1, <2>2
  <2>4. Nested(t, refs, list') /\ Stands(t, i, f, refs, list')
    BY <1>1, <2>3, Standing
  <2>5. Stands(t, i, f, refs, list)
    BY <1>1, Standing DEF Settled
  <2>6. b \in Frames /\ b.do = "release"
    <3>1. Head(list[p]).port \in Ports
      <4>1. 1 \in DOMAIN list[p] /\ Head(list[p]) = list[p][1]
        BY <1>1, <1>3, <2>2
      <4> QED BY <1>1, <4>1, ListType
    <3> QED BY <3>1, FrameType DEF Call, Steps
  <2>7. i \in Nat \ {0} /\ Number(t, i, "destroy") \in Nat /\ Number(t, i, "check") \in Nat
    <3>1. i \in Nat \ {0}
      BY <1>1
    <3> HIDE DEF i, t
    <3> QED BY <3>1, NumberType
  <2> HIDE DEF f, t, i, b
  <2>8. Over(t, i, b)
    BY <1>1, <1>3, <2>5 DEF Stands, Destroying, Over
  <2>9. i + 1 <= Number(t, i, "destroy") + OneIf(f.do, "destroy")
                  + 4 * (Number(t, i, "check") + OneIf(f.do, "check")) + Level(b)
    BY <1>1, <2>5, <2>6, <2>7 DEF Stands, Level, OneIf
  <2>10. Stands(Append(t, f), Len(Append(t, f)) + 1, b, refs, list')
    BY <1>1, <2>6, <2>8, <2>9, StandsOn DEF i
  <2> QED BY <1>1, <2>1, <2>4, <2>6, <2>10, BecomeEnds DEF t, i
<1> QED BY <1>2, <1>3

\* The calls that a step begins.
LEMMA CallsSay ==
    ASSUME NEW p \in Ports, NEW x \in Ports, NEW id \in Nat, NEW prev \in Nat
    PROVE  /\ LET b == Call("release", x) IN b \in Frames /\ b.do = "release" /\ b.port = x
           /\ LET c == Removal(p, x) IN c \in Frames /\ c.do = "remove" /\ c.port = p /\ c.item = x
           /\ LET a == Frame("unlink", p, x, id, prev) IN a \in Frames /\ a.do = "unlink" /\ a.item = x
           /\ \A do \in {"check", "disconnect"} :
                 LET a == Frame(do, p, p, id, 0) IN a \in Frames /\ a.do = do /\ a.port = p
BY DEF Call, Removal, Frame, Frames, Steps

\* The numbers of calls with one more on top.
LEMMA NumberOn ==
    ASSUME NEW t \in Seq(Frames), NEW a \in Frames, NEW do
    PROVE  LET i == Len(t) + 1 IN
           /\ i \in Nat \ {0} /\ Len(Append(t, a)) + 1 = i + 1 /\ Number(t, i, do) \in Nat
           /\ Number(Append(t, a), i + 1, do) = Number(t, i, do) + OneIf(a.do, do)
<1> DEFINE c == Append(t, a)
           i == Len(t) + 1
<1>1. /\ i \in Nat \ {0} /\ Len(c) + 1 = i + 1 /\ c[i] = a /\ \A j \in 1 .. i - 1 : c[j] = t[j]
  OBVIOUS
<1> HIDE DEF c, i
<1>2. Number(c, i + 1, do) = Number(c, i, do) + (IF c[i].do = do THEN 1 ELSE 0) /\ Number(t, i, do) \in Nat
  BY <1>1, NumberType
<1>3. {j \in 1 .. i - 1 : c[j].do = do} = {j \in 1 .. i - 1 : t[j].do = do}
  BY <1>1
<1>4. Number(c, i, do) = Number(t, i, do)
  BY <1>3 DEF Number
<1> QED BY <1>1, <1>2, <1>4 DEF OneIf, c, i

\* What a check finds invalid is not what the checks below it check.
LEMMA CheckedApart ==
    ASSUME HeapType, Working, Dissolving, Nested(calls, refs, list), Last(calls).do = "check",
           NEW p \in Ports, p = Last(calls).port, Alive(p), list[p] # <<>>, NEW item \in Ports, ~Valid(item),
           NEW j \in 1 .. Len(Front(calls)), Front(calls)[j].do = "check"
    PROVE  item # Front(calls)[j].port
<1> DEFINE t == Front(calls)
           n == Len(calls)
<1> SUFFICES ASSUME item = t[j].port PROVE FALSE
  OBVIOUS
<1>1. /\ n \in Nat \ {0} /\ Last(calls) = calls[n] /\ calls \in Seq(Frames)
      /\ Len(t) = n - 1 /\ \A i \in 1 .. n - 1 : t[i] = calls[i]
  BY TopCall, FrontLast
<1> HIDE DEF t, n
<1>2. j \in 1 .. n - 1 /\ n \in 1 .. n /\ j \in 1 .. n /\ calls[j] = t[j] /\ t[j].do = "check" /\ Subject(calls[n]) = p
  BY <1>1 DEF Subject, t
<1>3. Over(calls, n, calls[n])
  BY <1>2 DEF Nested, Stands, n
<1>4. ~Valid(p) /\ p # item /\ Walked(calls, j, item)
  BY <1>2, <1>3 DEF Over
<1>5. Walked(calls, n, p)
  BY <1>4, InvalidWalked DEF Alive, n
<1>6. PICK k \in 1 .. j - 1 : calls[k].do = "disconnect" /\ calls[k].port = item
  BY <1>4 DEF Walked
<1>7. PICK m \in 1 .. n - 1 : calls[m].do = "disconnect" /\ calls[m].port = p
  BY <1>5 DEF Walked
<1>8. k \in 1 .. Len(calls) /\ m \in 1 .. Len(calls)
  BY <1>1, <1>2 DEF n
<1>9. k = m
  BY <1>1, <1>6, <1>7, <1>8, OneWalk
<1> QED BY <1>4, <1>6, <1>7, <1>9

\* A check goes on, below the release and the removal of an invalid item.
LEMMA CheckEnds ==
    ASSUME Depth >= Cardinality(Ports) + 13, HeapType, NoSelf, Dissolving, Nested(calls, refs, list),
           Apply("check")
    PROVE  Ends(refs', list')
<1> DEFINE f == Last(calls)
           p == f.port
           id == f.entry
           item == Item(p, id)
           t == Front(calls)
           i == Len(t) + 1
           a == Frame("check", p, p, NextId(p, id), 0)
           b == Call("release", item)
           c == Removal(p, item)
           u == Append(t, a)
<1>1. Working /\ f \in Frames /\ f.do = "check" /\ p \in Ports /\ t \in Seq(Frames) /\ list' = list
  BY TopCall DEF Apply, Top
<1>2. Nested(t, refs, list) /\ Stands(t, i, f, refs, list)
  BY <1>1, Standing DEF Settled
<1>3. CASE id = 0
  <2>1. Become(<<>>) /\ refs' = refs
    BY <1>3 DEF Apply
  <2> QED BY <1>1, <1>2, <2>1, BecomeEnds
<1>4. CASE id # 0 /\ id \notin Ids(p)
  BY <1>4 DEF Apply, Crash, Ends
<1>5. CASE id # 0 /\ id \in Ids(p)
  <2>1. Alive(p) /\ item \in Ports /\ NextId(p, id) \in Nat /\ list[p] # <<>> /\ item # p
    BY <1>1, <1>5, AtEntry, ListType DEF NoSelf
  <2>2. CheckItem(p, item, a)
    BY <1>5 DEF Apply
  <2>3. a \in Frames /\ a.do = "check" /\ a.port = p
    BY <1>1, <2>1, CallsSay
  <2>4. ASSUME NEW r, Stands(t, i, f, r, list) PROVE Stands(t, i, a, r, list)
    <3> HIDE DEF f, t, i, a
    <3> QED BY <1>1, <2>3, <2>4 DEF Stands, Walking, Removing, Destroying, Over, Subject, Level
  <2>5. CASE ~Alive(item)
    BY <2>2, <2>5 DEF CheckItem, Crash, Ends
  <2>6. CASE Alive(item) /\ Valid(item)
    <3>1. Become(<<a>>) /\ refs' = refs
      BY <2>2, <2>6 DEF CheckItem
    <3> QED BY <1>1, <1>2, <2>3, <2>4, <3>1, BecomeEnds
  <2>7. CASE Alive(item) /\ ~Valid(item)
    <3>1. refs' = [refs EXCEPT ![item] = @ + 1] /\ Become(<<a, b, c>>)
      BY <2>2, <2>7 DEF CheckItem, MIDIPortRetain
    <3>2. Settled(refs, list, refs', list)
      <4> SUFFICES ASSUME NEW q \in Ports, refs[q] = 0 PROVE refs'[q] = 0
        BY DEF Settled
      <4> QED BY <2>1, <2>7, <3>1 DEF HeapType, Alive
    <3>3. Nested(t, refs', list) /\ Stands(t, i, a, refs', list)
      BY <1>1, <2>4, <3>2, Standing
    <3>4. /\ b \in Frames /\ b.do = "release" /\ b.port = item /\ b = Call("release", item)
          /\ c \in Frames /\ c.do = "remove" /\ c.port = p /\ c.item = item
      BY <1>1, <2>1, CallsSay
    <3>5. /\ i \in Nat \ {0} /\ Len(u) + 1 = i + 1
          /\ Number(t, i, "destroy") \in Nat /\ Number(t, i, "check") \in Nat
          /\ Number(u, i + 1, "destroy") = Number(t, i, "destroy")
          /\ Number(u, i + 1, "check") = Number(t, i, "check") + 1
      <4>1. \A do : /\ i \in Nat \ {0} /\ Len(u) + 1 = i + 1 /\ Number(t, i, do) \in Nat
                    /\ Number(u, i + 1, do) = Number(t, i, do) + OneIf(a.do, do)
        BY <1>1, <2>3, NumberOn
      <4>2. OneIf(a.do, "destroy") = 0 /\ OneIf(a.do, "check") = 1
        BY <2>3 DEF OneIf
      <4> HIDE DEF t, i, a, u
      <4> QED BY <4>1, <4>2
    <3>6. Valid(p) \/ Walked(t, i, p)
      BY <1>1, <2>1, InvalidWalked DEF Alive
    <3>7. \A j \in 1 .. i - 1 : t[j].do = "check" => item # t[j].port
      <4>1. \A j \in 1 .. Len(t) : t[j].do = "check" => item # t[j].port
        BY <1>1, <2>1, <2>7, CheckedApart
      <4> QED BY <1>1, <4>1
    <3>8. u \in Seq(Frames)
      BY <1>1, <2>3
    <3> HIDE DEF f, p, t, i, a, b, c, u, item, id
    <3>9. Over(t, i, b)
      BY <1>1, <1>2, <2>7, <3>4, <3>7 DEF Stands, Over, Subject
    <3>10. /\ i + 1 <= Number(t, i, "destroy") + 0 + 4 * (Number(t, i, "check") + 1) + Level(b)
           /\ OneIf(a.do, "destroy") = 0 /\ OneIf(a.do, "check") = 1
      BY <1>1, <1>2, <2>3, <3>4, <3>5 DEF Stands, Level, OneIf
    <3>11. Subject(b) = item /\ Subject(c) = item
      BY <3>4 DEF Subject
    <3>12. Stands(u, i + 1, b, refs', list)
      <4>1. Stands(Append(t, a), Len(Append(t, a)) + 1, b, refs', list)
        BY <1>1, <2>1, <2>3, <2>7, <3>4, <3>6, <3>9, <3>10, <3>11, StandsOn DEF i
      <4> QED BY <3>5, <4>1 DEF u
    <3>13. Stands(Append(u, b), Len(Append(u, b)) + 1, c, refs', list)
      <4>1. Over(u, i + 1, c)
        BY <3>11, <3>12 DEF Stands, Over
      <4>2. /\ (i + 1) + 1 <= Number(u, i + 1, "destroy") + 0 + 4 * (Number(u, i + 1, "check") + 0) + Level(c)
            /\ OneIf(b.do, "destroy") = 0 /\ OneIf(b.do, "check") = 0
        BY <1>1, <1>2, <3>4, <3>5 DEF Stands, Level, OneIf
      <4> QED BY <3>4, <3>5, <3>8, <4>1, <4>2, StandsOn
    <3>14. Stands(Append(t, a), Len(Append(t, a)) + 1, b, refs', list)
      BY <3>5, <3>12 DEF u
    <3> QED BY <1>1, <2>3, <3>1, <3>3, <3>4, <3>13, <3>14, BecomeEnds DEF t, i, u
  <2> QED BY <2>5, <2>6, <2>7
<1> QED BY <1>3, <1>4, <1>5

\* A disconnection goes on, below the removal of an item. No check is below it.
LEMMA DisconnectEnds ==
    ASSUME Depth >= Cardinality(Ports) + 13, HeapType, NoSelf, Nested(calls, refs, list), Apply("disconnect")
    PROVE  Ends(refs', list')
<1> DEFINE f == Last(calls)
           p == f.port
           id == f.entry
           item == Item(p, id)
           t == Front(calls)
           i == Len(t) + 1
           a == Frame("disconnect", p, p, NextId(p, id), 0)
           c == Removal(p, item)
<1>1. Working /\ f \in Frames /\ f.do = "disconnect" /\ p \in Ports /\ t \in Seq(Frames) /\ list' = list
  BY TopCall DEF Apply, Top
<1>2. Nested(t, refs, list) /\ Stands(t, i, f, refs, list)
  BY <1>1, Standing DEF Settled
<1>3. CASE id = 0
  <2>1. Become(<<>>) /\ refs' = refs
    BY <1>3 DEF Apply
  <2> QED BY <1>1, <1>2, <2>1, BecomeEnds
<1>4. CASE id # 0 /\ id \notin Ids(p)
  BY <1>4 DEF Apply, Crash, Ends
<1>5. CASE id # 0 /\ id \in Ids(p)
  <2>1. item \in Ports /\ NextId(p, id) \in Nat /\ item # p
    BY <1>1, <1>5, AtEntry DEF NoSelf
  <2>2. Become(<<a, c>>) /\ refs' = refs
    BY <1>5 DEF Apply, DisconnectItem
  <2>3. a \in Frames /\ a.do = "disconnect" /\ a.port = p
    BY <1>1, <2>1, CallsSay
  <2>4. c \in Frames /\ c.do = "remove" /\ c.item = item
    BY <1>1, <2>1, CallsSay
  <2>5. Call("release", p).do = "release"
    BY <1>1, CallsSay
  <2>6. i \in Nat \ {0} /\ Number(t, i, "destroy") \in Nat /\ Number(t, i, "check") \in Nat
    <3>1. i \in Nat \ {0}
      BY <1>1
    <3> HIDE DEF i, t
    <3> QED BY <3>1, NumberType
  <2> HIDE DEF f, p, t, i, a, c, item, id
  <2>7. i = 1 \/ (i = 2 /\ t[1] = Call("release", p))
    BY <1>1, <1>2 DEF Stands, Walking, p
  <2>8. Stands(t, i, a, refs, list)
    BY <1>1, <1>2, <2>3 DEF Stands, Walking, Removing, Destroying, Over, Subject, Level, p
  <2>9. Over(t, i, c)
    BY <2>5, <2>7 DEF Over
  <2>10. i + 1 <= Number(t, i, "destroy") + OneIf(a.do, "destroy")
                   + 4 * (Number(t, i, "check") + OneIf(a.do, "check")) + Level(c)
    BY <2>3, <2>4, <2>6, <2>7 DEF Level, OneIf
  <2>11. Stands(Append(t, a), Len(Append(t, a)) + 1, c, refs, list)
    BY <1>1, <2>1, <2>3, <2>4, <2>9, <2>10, StandsOn DEF i
  <2> QED BY <1>1, <1>2, <2>2, <2>3, <2>4, <2>8, <2>11, BecomeEnds DEF t, i
<1> QED BY <1>3, <1>4, <1>5

\* MIDIListRemove: the release of the item is on top of the removal of its entry.
LEMMA RemoveEnds ==
    ASSUME Depth >= Cardinality(Ports) + 13, HeapType, Nested(calls, refs, list), MIDIListRemove
    PROVE  Ends(refs', list')
<1> DEFINE f == Last(calls)
           p == f.port
           M == Matches(p, f.item)
           id == list[p][Min(M)].id
           t == Front(calls)
           i == Len(t) + 1
           a == Frame("unlink", p, f.item, id, PrevId(p, id))
           b == Call("release", f.item)
<1>1. /\ Working /\ f \in Frames /\ f.do = "remove" /\ p \in Ports /\ t \in Seq(Frames)
      /\ list' = list /\ refs' = refs /\ f.item \in Ports
  BY TopCall DEF MIDIListRemove, Top
<1>2. Nested(t, refs, list) /\ Stands(t, i, f, refs, list)
  BY <1>1, Standing DEF Settled
<1>3. CASE M = {}
  <2>1. Become(<<>>)
    BY <1>3 DEF MIDIListRemove, Matches
  <2> QED BY <1>1, <1>2, <2>1, BecomeEnds
<1>4. CASE M # {}
  <2>1. Become(<<a, b>>)
    BY <1>4 DEF MIDIListRemove, Matches, Found
  <2>2. id \in Ids(p) /\ id \in Nat /\ PrevId(p, id) \in Nat
    <3>1. id \in Ids(p)
      BY <1>1, <1>4, MatchFound
    <3> QED BY <1>1, <3>1, AtEntry, IdsType
  <2>3. /\ a \in Frames /\ a.do = "unlink" /\ a.item = f.item
        /\ b \in Frames /\ b.do = "release" /\ b.port = f.item
    BY <1>1, <2>2, CallsSay
  <2>4. i \in Nat \ {0} /\ Number(t, i, "destroy") \in Nat /\ Number(t, i, "check") \in Nat
    <3>1. i \in Nat \ {0}
      BY <1>1
    <3> HIDE DEF i, t
    <3> QED BY <3>1, NumberType
  <2> HIDE DEF f, t, i, a, b
  <2>5. Stands(t, i, a, refs, list)
    BY <1>1, <1>2, <2>3 DEF Stands, Walking, Removing, Destroying, Over, Subject, Level
  <2>6. Over(t, i, b)
    BY <1>1, <1>2, <2>3 DEF Stands, Over, Subject
  <2>7. i + 1 <= Number(t, i, "destroy") + OneIf(a.do, "destroy")
                  + 4 * (Number(t, i, "check") + OneIf(a.do, "check")) + Level(b)
    BY <1>1, <1>2, <2>3, <2>4 DEF Stands, Level, OneIf
  <2>8. Stands(Append(t, a), Len(Append(t, a)) + 1, b, refs, list)
    BY <1>1, <2>3, <2>6, <2>7, StandsOn DEF i
  <2> QED BY <1>1, <1>2, <2>1, <2>3, <2>5, <2>8, BecomeEnds DEF t, i
<1> QED BY <1>3, <1>4

\* The entry is unlinked, and the search goes on.
LEMMA UnlinkEnds ==
    ASSUME Depth >= Cardinality(Ports) + 13, HeapType, Nested(calls, refs, list), Unlink
    PROVE  Ends(refs', list')
<1> DEFINE f == Last(calls)
           p == f.port
           t == Front(calls)
           i == Len(t) + 1
           a == Removal(p, f.item)
<1>1. /\ Working /\ f \in Frames /\ f.do = "unlink" /\ p \in Ports /\ t \in Seq(Frames)
      /\ refs' = refs /\ f.item \in Ports
  BY TopCall DEF Unlink, Top
<1>2. CASE ~(f.entry \in Ids(p) /\ f.prev \in Ids(p) \cup {0})
  BY <1>2 DEF Unlink, Crash, Ends
<1>3. CASE f.entry \in Ids(p) /\ f.prev \in Ids(p) \cup {0}
  <2>1. list' = [list EXCEPT ![p] = RemoveAt(@, At(p, f.entry))] /\ Become(<<a>>)
    BY <1>3 DEF Unlink
  <2>2. list[p] # <<>> /\ list \in [Ports -> Seq(Entry)]
    BY <1>1, <1>3, AtEntry DEF HeapType
  <2>3. Settled(refs, list, refs, list')
    <3> SUFFICES ASSUME NEW q \in Ports, list[q] = <<>> PROVE list'[q] = <<>>
      BY DEF Settled
    <3> QED BY <2>1, <2>2
  <2>4. Nested(t, refs, list') /\ Stands(t, i, f, refs, list')
    BY <1>1, <2>3, Standing
  <2>5. a \in Frames /\ a.do = "remove" /\ a.item = f.item
    <3>1. f.entry \in Nat /\ f.prev \in Nat
      BY <1>1, FrameFields
    <3> QED BY <1>1, <3>1, CallsSay
  <2> HIDE DEF f, t, i, a
  <2>6. Stands(t, i, a, refs, list')
    BY <1>1, <2>4, <2>5 DEF Stands, Walking, Removing, Destroying, Over, Subject, Level
  <2> QED BY <1>1, <2>1, <2>4, <2>5, <2>6, BecomeEnds DEF t, i
<1> QED BY <1>2, <1>3

\* Each of these steps.
LEMMA NestedStep ==
    ASSUME Depth >= Cardinality(Ports) + 13, HeapType, held \in [Ports -> Nat], Counted, Dissolving, NoSelf,
           Nested(calls, refs, list), Cascade
    PROVE  Ends(refs', list')
<1>1. MIDIPortRelease => Ends(refs', list')
  <2> SUFFICES ASSUME MIDIPortRelease PROVE Ends(refs', list')
    OBVIOUS
  <2>1. refs' = refs /\ list' = list
    BY DEF MIDIPortRelease
  <2> QED BY <2>1, ReleaseEnds
<1> QED BY <1>1, DropEnds, DestroyEnds, CheckEnds, DisconnectEnds, RemoveEnds, UnlinkEnds DEF Cascade

\* The calls under way are nested.
Fits == Nested(calls, refs, list)

\* The calls that operations begin with.
Starts ==
    /\ calls = <<>> => Fits
    /\ \A f \in Frames :
          calls = <<f>> /\ (f.do \in {"release", "remove"} \/ (f.do = "disconnect" /\ held[f.port] > 0)) => Fits
    /\ \A p \in Ports, g \in Frames :
          calls = <<Call("release", p), g>>
          /\ ((g.do = "disconnect" /\ g.port = p) \/ (g.do = "remove" /\ g.item = p)) => Fits

\* They are nested.
LEMMA StartsFit == Starts
<1>1. \A r, l : Nested(<<>>, r, l)
  BY DEF Nested
<1>2. ASSUME NEW f \in Frames, NEW r, NEW l,
             f.do \in {"release", "remove"} \/ (f.do = "disconnect" /\ held[f.port] > 0)
      PROVE  Nested(<<f>>, r, l) /\ <<f>> = Append(<<>>, f)
  <2> DEFINE t == <<>>
  <2>1. t \in Seq(Frames) /\ Len(t) + 1 = 1 /\ <<f>> = Append(t, f) /\ 1 \in Nat \ {0} /\ Nested(t, r, l)
    BY <1>1
  <2> HIDE DEF t
  <2>2. \A do : Number(t, 1, do) = 0
    BY <2>1, NumberType
  <2>3. 1 .. 1 - 1 = {}
    OBVIOUS
  <2>4. Over(t, 1, f) /\ Destroying(t, 1, f, r, l)
    BY <1>2, <2>3 DEF Over, Destroying
  <2>5. Stands(t, 1, f, r, l)
    BY <1>2, <2>2, <2>4 DEF Stands, Walking, Removing, Level
  <2>6. Nested(Append(t, f), r, l)
    BY <2>1, <2>5, NestedAppend
  <2> QED BY <2>1, <2>6 DEF t
<1>3. ASSUME NEW p \in Ports, NEW g \in Frames, NEW r, NEW l,
             (g.do = "disconnect" /\ g.port = p) \/ (g.do = "remove" /\ g.item = p)
      PROVE  Nested(<<Call("release", p), g>>, r, l)
  <2> DEFINE t == <<>>
             a == Call("release", p)
  <2>1. a \in Frames /\ a.do = "release"
    BY FrameType DEF Call, Steps
  <2>2. Nested(Append(t, a), r, l) /\ t \in Seq(Frames) /\ Len(t) + 1 = 1 /\ 1 \in Nat \ {0}
    <3>1. Nested(<<a>>, r, l) /\ <<a>> = Append(t, a)
      BY <1>2, <2>1
    <3> QED BY <3>1
  <2>3. Append(t, a) \in Seq(Frames) /\ <<a, g>> = Append(Append(t, a), g)
    BY <2>1
  <2>4. a = Call("release", p)
    OBVIOUS
  <2> HIDE DEF t, a
  <2>5. Number(t, 1, "destroy") = 0 /\ Number(t, 1, "check") = 0
    BY <2>2, NumberType
  <2>6. Over(t, 1, g)
    <3>1. 1 .. 1 - 1 = {}
      OBVIOUS
    <3> QED BY <3>1 DEF Over
  <2>7. 1 + 1 <= Number(t, 1, "destroy") + OneIf(a.do, "destroy")
                  + 4 * (Number(t, 1, "check") + OneIf(a.do, "check")) + Level(g)
    BY <1>3, <2>1, <2>5 DEF Level, OneIf
  <2>8. Stands(Append(t, a), Len(Append(t, a)) + 1, g, r, l)
    BY <1>3, <2>1, <2>2, <2>4, <2>6, <2>7, StandsOn
  <2>9. Nested(Append(Append(t, a), g), r, l)
    BY <2>2, <2>3, <2>8, NestedAppend
  <2> QED BY <2>3, <2>9 DEF a
<1>4. calls = <<>> => Fits
  BY <1>1 DEF Fits
<1>5. ASSUME NEW f \in Frames, calls = <<f>>,
             f.do \in {"release", "remove"} \/ (f.do = "disconnect" /\ held[f.port] > 0)
      PROVE  Fits
  BY <1>2, <1>5 DEF Fits
<1>6. ASSUME NEW p \in Ports, NEW g \in Frames, calls = <<Call("release", p), g>>,
             (g.do = "disconnect" /\ g.port = p) \/ (g.do = "remove" /\ g.item = p)
      PROVE  Fits
  BY <1>3, <1>6 DEF Fits
<1> QED BY <1>4, <1>5, <1>6 DEF Starts

\* In the next state, too.
LEMMA StartsFitNext == Starts'
BY StartsFit, PTL

\* Modes and owners stay.
LEMMA FitsNext ==
    ASSUME UNCHANGED <<mode, held>>, Nested(calls', refs', list')
    PROVE  Fits'
BY DEF Fits, Nested, Stands, Walking, Removing, Destroying, Over, Walked, Valid, Number, Subject, Level, Call, Frame

\* The call of an operation has room.
LEMMA StartEnds ==
    ASSUME Depth >= Cardinality(Ports) + 13, Idle, NEW s, Goto(s), Len(s) = 1 \/ Len(s) = 2
    PROVE  calls' = s /\ crash' = "none"
<1>1. Cardinality(Ports) \in Nat
  BY HeapAssumption, FS_CardinalityType
<1>3. 1 <= Depth /\ 2 <= Depth
  <2> DEFINE n == Cardinality(Ports)
  <2>1. n \in Nat /\ Depth \in Nat /\ Depth >= n + 13
    BY <1>1, HeapAssumption
  <2> HIDE DEF n
  <2> QED BY <2>1
<1>2. Len(s) <= Depth
  BY <1>3
<1> QED BY <1>2 DEF Goto, Idle

\* The calls after an operation from outside or a callback, or a turn of a send.
LEMMA OperationFits ==
    ASSUME Depth >= Cardinality(Ports) + 13, Safe, Idle, Counted, Application \/ Delivery
    PROVE  crash' # "recursion" /\ (crash' = "none" => Fits')
<1>1. Typed /\ Owned /\ calls = <<>> /\ crash = "none"
  BY TypedFacts DEF Safe, Idle
<1>2. CASE UNCHANGED calls /\ crash' # "recursion"
  BY <1>1, <1>2, StartsFitNext DEF Starts
<1>3. ASSUME NEW f \in Frames, Goto(<<f>>),
             f.do \in {"release", "remove"} \/ (f.do = "disconnect" /\ held'[f.port] > 0)
      PROVE  crash' # "recursion" /\ Fits'
  <2>1. Len(<<f>>) = 1
    OBVIOUS
  <2>2. calls' = <<f>> /\ crash' = "none"
    BY <1>3, <2>1, StartEnds
  <2> QED BY <1>3, <2>2, StartsFitNext DEF Starts
<1>4. ASSUME NEW p \in Ports, NEW g \in Frames, Goto(<<Call("release", p), g>>),
             (g.do = "disconnect" /\ g.port = p) \/ (g.do = "remove" /\ g.item = p)
      PROVE  crash' # "recursion" /\ Fits'
  <2>1. Len(<<Call("release", p), g>>) = 2
    OBVIOUS
  <2>2. calls' = <<Call("release", p), g>> /\ crash' = "none"
    BY <1>4, <2>1, StartEnds
  <2> QED BY <1>4, <2>2, StartsFitNext DEF Starts
<1>5. ASSUME NEW p \in Ports, Usable(p) PROVE held[p] > 0
  BY <1>1, <1>5 DEF Usable, Owned
<1>6. ASSUME NEW p \in Ports
      PROVE  /\ Walk("disconnect", p) \in Frames
             /\ Walk("disconnect", p).do = "disconnect" /\ Walk("disconnect", p).port = p
  <2>1. FirstId(p) \in Nat
    BY <1>1, TypedFacts, FirstType
  <2> QED BY <2>1, CallsSay DEF Walk
<1>7. ASSUME NEW p \in Ports, NEW x \in Ports
      PROVE  /\ Call("release", x) \in Frames /\ Call("release", x).do = "release"
             /\ Removal(p, x) \in Frames /\ Removal(p, x).do = "remove" /\ Removal(p, x).item = x
  <2>1. 0 \in Nat
    OBVIOUS
  <2> QED BY <2>1, CallsSay
<1>8. CASE Application
  <2>1. ASSUME NEW p \in Ports, NEW t \in Ports, MIDIPortConnect(p, t)
        PROVE  UNCHANGED calls /\ crash' # "recursion"
    BY <1>1, <2>1 DEF MIDIPortConnect, MIDIListAdd
  <2>2. ASSUME NEW p \in Ports, NEW t \in Ports, MIDIPortDisconnect(p, t) PROVE crash' # "recursion" /\ Fits'
    BY <1>3, <1>7, <2>2 DEF MIDIPortDisconnect
  <2>3. ASSUME NEW p \in Ports, MIDIPortDisconnectAll(p) \/ MIDIPortInvalidate(p)
        PROVE  crash' # "recursion" /\ Fits'
    <3> DEFINE f == Walk("disconnect", p)
    <3>1. f \in Frames /\ f.do = "disconnect" /\ f.port = p
      BY <1>6
    <3>2. Goto(<<f>>) /\ held' = held /\ held[p] > 0
      BY <1>5, <2>3 DEF MIDIPortDisconnectAll, MIDIPortInvalidate, Disconnection
    <3> HIDE DEF f
    <3> QED BY <1>3, <3>1, <3>2
  <2>4. ASSUME NEW p \in Ports, Release(p) PROVE crash' # "recursion" /\ Fits'
    BY <1>3, <1>7, <2>4 DEF Release
  <2>5. ASSUME NEW p \in Ports, MIDIDriverRelease(p) PROVE crash' # "recursion" /\ (crash' = "none" => Fits')
    <3>1. CASE driverRefs[p] = 1
      <4> DEFINE g == Walk("disconnect", p)
                 b == Call("release", p)
      <4>1. g \in Frames /\ g.do = "disconnect" /\ g.port = p
        BY <1>6
      <4>2. b \in Frames
        BY <1>7
      <4>3. Goto(<<b>> \o <<g>>)
        BY <2>5, <3>1 DEF MIDIDriverRelease, MIDIDriverDestroy, Disconnection
      <4>4. <<b>> \o <<g>> = <<Call("release", p), g>>
        BY <4>1, <4>2, Pair
      <4> HIDE DEF g, b
      <4> QED BY <1>4, <4>1, <4>3, <4>4
    <3>2. CASE driverRefs[p] # 1
      BY <1>1, <1>2, <2>5, <3>2 DEF MIDIDriverRelease
    <3> QED BY <3>1, <3>2
  <2>6. ASSUME NEW p \in Ports, NEW t \in Ports,
               \/ Retain(p) \/ MIDIDriverRetain(p)
               \/ MIDIPortSendTo(p, t) \/ MIDIPortReceive(p) \/ MIDIPortSend(p)
        PROVE  UNCHANGED calls /\ crash' # "recursion"
    BY <1>1, <2>6 DEF Retain, MIDIDriverRetain, MIDIPortSendTo, MIDIPortReceive, MIDIPortSend, ReceiveFrom, heap
  <2> QED BY <1>2, <1>8, <2>1, <2>2, <2>3, <2>4, <2>5, <2>6 DEF Application
<1>9. CASE Delivery
  <2>1. CASE SendDone \/ Echo \/ Return
    BY <1>1, <1>2, <2>1 DEF SendDone, Echo, Return, heap
  <2>2. CASE SendNext
    <3> DEFINE m == Last(stack)
               item == Item(m.port, m.next)
               rest == Append(Front(stack), Advance(m))
    <3>1. m.port \in Ports /\ m.src \in Ports \cup {NULL}
      BY <1>1, <2>2, TypedFacts, TopMessage DEF SendNext, OnTop
    <3>2. CASE m.next \in Ids(m.port) /\ ~Valid(item)
      <4>1. item \in Ports
        BY <1>1, <3>1, <3>2, TypedFacts, AtEntry
      <4>2. DropInvalid(m.src, item)
        BY <2>2, <3>2 DEF SendNext
      <4> HIDE DEF item
      <4>3. CASE m.src = NULL \/ ~Alive(m.src)
        BY <1>2, <4>2, <4>3 DEF DropInvalid, Crash
      <4>4. CASE m.src # NULL /\ Alive(m.src)
        <5>1. m.src \in Ports /\ Goto(<<Call("release", item), Removal(m.src, item)>>)
          BY <3>1, <4>2, <4>4 DEF DropInvalid
        <5> QED BY <1>4, <1>7, <4>1, <5>1
      <4> QED BY <4>3, <4>4
    <3>3. CASE ~(m.next \in Ids(m.port) /\ ~Valid(item))
      <4>1. UNCHANGED calls /\ crash' # "recursion"
        BY <1>1, <2>2, <3>3 DEF SendNext, ReceiveFrom
      <4> QED BY <1>2, <4>1
    <3> QED BY <3>2, <3>3
  <2> QED BY <1>9, <2>1, <2>2 DEF Delivery
<1> QED BY <1>8, <1>9

\* The calls stay nested in every step.
LEMMA FitsHolds ==
    ASSUME Depth >= Cardinality(Ports) + 13, Safe, NoSelf, crash # "recursion",
           crash = "none" => Counted /\ Dissolving /\ Fits, [Next]_vars
    PROVE  crash' # "recursion" /\ (crash' = "none" => Fits')
<1>1. Typed /\ HeapType
  BY TypedFacts DEF Safe
<1>2. CASE UNCHANGED vars
  BY <1>2, FitsNext DEF vars, heap, Fits
<1>3. CASE Beneath
  <2>1. crash = "none"
    BY <1>3 DEF Beneath, Cascade, MIDIPortRelease, Drop, Destroy, Apply, MIDIListRemove, Unlink, Top, Working
  <2>2. Cascade /\ UNCHANGED <<mode, held>>
    BY <1>3 DEF Beneath, Cascade, MIDIPortRelease, Drop, Destroy, Apply, MIDIListRemove, Unlink
  <2>3. held \in [Ports -> Nat]
    BY <1>1, TypedFacts
  <2>4. Ends(refs', list')
    BY <1>1, <2>1, <2>2, <2>3, NestedStep DEF Fits
  <2> QED BY <2>2, <2>4, FitsNext DEF Ends
<1>4. CASE Application \/ Delivery
  <2>1. Idle
    BY <1>4 DEF Application, MIDIPortConnect, MIDIPortDisconnect, MIDIPortSendTo, MIDIPortDisconnectAll,
                MIDIPortInvalidate, Release, Retain, MIDIPortReceive, MIDIPortSend, MIDIDriverRetain,
                MIDIDriverRelease, Asks, Delivery, SendNext, SendDone, Echo, Return
  <2>2. Counted
    BY <2>1 DEF Idle
  <2> QED BY <1>4, <2>1, <2>2, OperationFits
<1> QED BY <1>2, <1>3, <1>4 DEF Next

\* "retain the port, before removing to avoid recursion" (port.c:121): the releases,
\* removals and destructions that one operation sets off nest no deeper than the
\* number of ports and 13 more, however the ports are connected, so they come to an
\* end. This is so for an application that connects no port to itself and no invalid
\* port (port.c:116-142, 254-296, list.c:103-116, 190-211).
THEOREM CascadeEndsCorrect ==
    ASSUME ~Careless, Depth >= Cardinality(Ports) + 13
    PROVE  Spec => []CascadeEnds
<1> DEFINE Kept1 == Safe /\ (crash = "none" => Counted /\ Dying /\ Dissolving)
           Kept2 == NoSelf /\ crash # "recursion" /\ (crash = "none" => Fits)
<1>1. Init => Kept2
  <2> SUFFICES ASSUME Init PROVE Kept2
    OBVIOUS
  <2>1. NoSelf
    BY RouteBegins
  <2>2. crash = "none" /\ calls = <<>>
    BY DEF Init
  <2> QED BY <2>1, <2>2, StartsFit DEF Starts
<1>2. Kept1 /\ Kept2 /\ [Next]_vars => Kept2'
  <2> SUFFICES ASSUME Kept1, Kept2, [Next]_vars PROVE Kept2'
    OBVIOUS
  <2>1. HeapType
    BY TypedFacts DEF Safe
  <2> QED BY <2>1, NoSelfHolds, FitsHolds
<1>3. Spec => []Kept1
  BY DissolvingHolds
<1>4. Kept2 => CascadeEnds
  BY DEF CascadeEnds
<1> HIDE DEF Kept1, Kept2
<1> QED BY <1>1, <1>2, <1>3, <1>4, PTL DEF Spec

=============================================================================
