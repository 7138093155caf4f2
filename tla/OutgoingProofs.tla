--------------------------- MODULE OutgoingProofs ---------------------------
(* For any queue, table, capacity and sockets: a packet reaches every peer once,
   the runloop source waits for what the queue needs, no reference to a message is
   lost, and the messages leave in the order they entered.

   Who was served depends on where the loop is in the peer table: RoundInv says
   that these are the peers in the slots before it. RTPSessionNextPeer finds the
   loop's position by the peer's address, so no peer may be in two slots. HoldInv
   says that the queue's pointers form a list and that the references of every
   message are those of the application, the queue and the packet. What a push
   and a pop do to that list comes first, for every queue there is. *)
EXTENDS Outgoing, LeastNumber, FiniteSetTheorems

-----------------------------------------------------------------------------
(* The queue as a list. *)

\* s is the list of q: n items, each once, linked from first to last.
Chain(q, s, n) ==
    /\ q.length = n
    /\ q.items = {s[i] : i \in 1 .. n}
    /\ q.first = IF n = 0 THEN NULL ELSE s[1]
    /\ q.last = IF n = 0 THEN NULL ELSE s[n]
    /\ \A i \in 1 .. n : q.next[s[i]] = IF i = n THEN NULL ELSE s[i + 1]
    /\ \A i, j \in 1 .. n : s[i] = s[j] => i = j
    /\ \A i \in 1 .. n : q.message[s[i]] \in Messages

\* A queue whose pointers form a list.
Linked(q) == q \in Queues /\ \E n \in Nat : \E s \in [1 .. n -> Cells] : Chain(q, s, n)

-----------------------------------------------------------------------------
(* The operations. *)

\* The fields of a queue.
LEMMA QueueFields ==
    ASSUME NEW q \in Queues
    PROVE  /\ q.first \in Cells \cup {NULL} /\ q.last \in Cells \cup {NULL}
           /\ q.length \in Nat /\ q.items \in SUBSET Cells
           /\ q.next \in [Cells -> Cells \cup {NULL}]
           /\ q.message \in [Cells -> Messages \cup {NULL}]
BY DEF Queues

\* An empty queue.
LEMMA CreateLinked == Linked(MIDIMessageQueueCreate)
<1> DEFINE q == MIDIMessageQueueCreate
           s == [i \in 1 .. 0 |-> NULL]
<1>1. q \in Queues
  BY DEF Queues, MIDIMessageQueueCreate
<1>2. s \in [1 .. 0 -> Cells]
  OBVIOUS
<1>3. Chain(q, s, 0)
  BY DEF Chain, MIDIMessageQueueCreate
<1> QED BY <1>1, <1>2, <1>3 DEF Linked

\* What a push writes.
LEMMA PushFields ==
    ASSUME NEW q \in Queues, NEW m \in Messages, NEW c \in Cells
    PROVE  LET p == MIDIMessageQueuePush(q, m, c) IN
           /\ p \in Queues
           /\ p.first = IF q.last = NULL THEN c ELSE q.first
           /\ p.last = c /\ p.length = q.length + 1 /\ p.items = q.items \cup {c}
           /\ \A d \in Cells : p.next[d] = IF d = c THEN NULL ELSE IF d = q.last THEN c ELSE q.next[d]
           /\ \A d \in Cells : p.message[d] = IF d = c THEN m ELSE q.message[d]
<1> DEFINE l == IF q.last = NULL THEN [q EXCEPT !.first = c] ELSE [q EXCEPT !.next[q.last] = c]
           items == l.items \cup {c}
           next == [l.next EXCEPT ![c] = NULL]
           message == [l.message EXCEPT ![c] = m]
           length == l.length + 1
           p == [l EXCEPT !.items = items, !.next = next, !.message = message,
                          !.length = length, !.last = c]
<1>1. NULL \notin Cells
  BY QueueAssumption
<1>2. /\ l \in Queues /\ l.first = (IF q.last = NULL THEN c ELSE q.first)
      /\ l.length = q.length /\ l.items = q.items /\ l.message = q.message
      /\ \A d \in Cells : l.next[d] = IF d = q.last THEN c ELSE q.next[d]
  <2>1. CASE q.last = NULL
    BY <1>1, <2>1 DEF Queues
  <2>2. CASE q.last # NULL
    BY <2>2 DEF Queues
  <2> QED BY <2>1, <2>2
<1> HIDE DEF l
<1>3. l.next \in [Cells -> Cells \cup {NULL}] /\ l.message \in [Cells -> Messages \cup {NULL}]
  BY <1>2, QueueFields
<1>4. /\ items \in SUBSET Cells /\ length \in Nat
      /\ next \in [Cells -> Cells \cup {NULL}] /\ message \in [Cells -> Messages \cup {NULL}]
  BY <1>2, <1>3, QueueFields
<1>5. MIDIMessageQueuePush(q, m, c) = p
  BY DEF MIDIMessageQueuePush, l
<1>6. /\ p \in Queues /\ p.first = l.first /\ p.last = c /\ p.length = length
      /\ p.items = items /\ p.next = next /\ p.message = message
  <2> HIDE DEF items, next, message, length
  <2> QED BY <1>2, <1>4 DEF Queues
<1> HIDE DEF p
<1>7. /\ \A d \in Cells : p.next[d] = IF d = c THEN NULL ELSE IF d = q.last THEN c ELSE q.next[d]
      /\ \A d \in Cells : p.message[d] = IF d = c THEN m ELSE q.message[d]
  BY <1>2, <1>3, <1>6
<1>8. /\ p.first = IF q.last = NULL THEN c ELSE q.first
      /\ p.length = q.length + 1 /\ p.items = q.items \cup {c}
  BY <1>2, <1>6
<1> QED BY <1>5, <1>6, <1>7, <1>8

\* The new item comes behind the others.
LEMMA PushChain ==
    ASSUME NEW q \in Queues, NEW n \in Nat, NEW s \in [1 .. n -> Cells], Chain(q, s, n),
           NEW m \in Messages, NEW c \in Cells \ q.items
    PROVE  LET p == MIDIMessageQueuePush(q, m, c)
               t == [i \in 1 .. n + 1 |-> IF i = n + 1 THEN c ELSE s[i]]
           IN  t \in [1 .. n + 1 -> Cells] /\ Chain(p, t, n + 1)
<1> DEFINE p == MIDIMessageQueuePush(q, m, c)
           t == [i \in 1 .. n + 1 |-> IF i = n + 1 THEN c ELSE s[i]]
<1>1. /\ p \in Queues
      /\ p.first = IF q.last = NULL THEN c ELSE q.first
      /\ p.last = c /\ p.length = q.length + 1 /\ p.items = q.items \cup {c}
      /\ \A d \in Cells : p.next[d] = IF d = c THEN NULL ELSE IF d = q.last THEN c ELSE q.next[d]
      /\ \A d \in Cells : p.message[d] = IF d = c THEN m ELSE q.message[d]
  BY PushFields
<1> HIDE DEF p
<1>2. t \in [1 .. n + 1 -> Cells] /\ t[n + 1] = c
  OBVIOUS
<1>3. \A i \in 1 .. n : i \in 1 .. n + 1 /\ t[i] = s[i] /\ s[i] \in Cells /\ s[i] # c /\ i # n + 1
  BY DEF Chain
<1>4. \A i \in 1 .. n + 1 : i \in 1 .. n \/ i = n + 1
  OBVIOUS
<1> HIDE DEF t
<1>5. p.items = {t[i] : i \in 1 .. n + 1}
  <2>1. n + 1 \in 1 .. n + 1
    OBVIOUS
  <2> QED BY <1>1, <1>2, <1>3, <1>4, <2>1 DEF Chain
<1>6. p.first = t[1]
  <2>1. CASE n = 0
    BY <1>1, <1>2, <2>1 DEF Chain
  <2>2. CASE n # 0
    <3>1. 1 \in 1 .. n /\ n \in 1 .. n
      BY <2>2
    <3>2. s[n] # NULL
      BY <3>1, QueueAssumption
    <3> QED BY <1>1, <1>3, <2>2, <3>1, <3>2 DEF Chain
  <2> QED BY <2>1, <2>2
<1>7. \A i \in 1 .. n + 1 : p.next[t[i]] = IF i = n + 1 THEN NULL ELSE t[i + 1]
  <2> TAKE i \in 1 .. n + 1
  <2>1. CASE i = n + 1
    BY <1>1, <1>2, <2>1
  <2>2. CASE i = n
    <3>1. i \in 1 .. n /\ q.last = s[i]
      BY <2>2 DEF Chain
    <3> QED BY <1>1, <1>2, <1>3, <2>2, <3>1
  <2>3. CASE i # n /\ i # n + 1
    <3>1. i \in 1 .. n /\ i + 1 \in 1 .. n /\ n \in 1 .. n /\ n # 0
      BY <2>3
    <3>2. q.last = s[n] /\ s[i] # s[n] /\ q.next[s[i]] = s[i + 1]
      BY <2>3, <3>1 DEF Chain
    <3> QED BY <1>1, <1>3, <2>3, <3>1, <3>2
  <2> QED BY <2>1, <2>2, <2>3
<1>8. \A i, j \in 1 .. n + 1 : t[i] = t[j] => i = j
  BY <1>2, <1>3, <1>4 DEF Chain
<1>9. \A i \in 1 .. n + 1 : p.message[t[i]] \in Messages
  BY <1>1, <1>2, <1>3, <1>4 DEF Chain
<1>10. Chain(p, t, n + 1)
  <2>1. n + 1 # 0 /\ p.length = n + 1 /\ p.last = t[n + 1]
    BY <1>1, <1>2 DEF Chain
  <2> QED BY <1>5, <1>6, <1>7, <1>8, <1>9, <2>1 DEF Chain
<1> QED BY <1>2, <1>10 DEF p, t

\* What a pop writes, given that there is an item.
LEMMA PopFields ==
    ASSUME NEW q \in Queues, q.first # NULL, q.length # 0
    PROVE  LET p == MIDIMessageQueuePop(q) IN
           /\ p \in Queues
           /\ p.first = q.next[q.first] /\ p.last = IF q.last = q.first THEN NULL ELSE q.last
           /\ p.length = q.length - 1 /\ p.items = q.items \ {q.first}
           /\ \A d \in Cells : d # q.first => p.next[d] = q.next[d] /\ p.message[d] = q.message[d]
<1> DEFINE items == q.items \ {q.first}
           first == q.next[q.first]
           length == q.length - 1
           last == IF q.last = q.first THEN NULL ELSE q.last
           next == [q.next EXCEPT ![q.first] = NULL]
           message == [q.message EXCEPT ![q.first] = NULL]
           p == [q EXCEPT !.items = items, !.first = first, !.length = length, !.last = last,
                          !.next = next, !.message = message]
<1>1. q.first \in Cells
  BY QueueFields
<1>2. /\ items \in SUBSET Cells /\ length \in Nat
      /\ first \in Cells \cup {NULL} /\ last \in Cells \cup {NULL}
      /\ next \in [Cells -> Cells \cup {NULL}] /\ message \in [Cells -> Messages \cup {NULL}]
  BY <1>1, QueueFields
<1>3. MIDIMessageQueuePop(q) = p
  BY DEF MIDIMessageQueuePop
<1>4. /\ p \in Queues /\ p.first = first /\ p.last = last /\ p.length = length
      /\ p.items = items /\ p.next = next /\ p.message = message
  <2> HIDE DEF items, first, length, last, next, message
  <2> QED BY <1>2 DEF Queues
<1> HIDE DEF p
<1>5. \A d \in Cells : d # q.first => p.next[d] = q.next[d] /\ p.message[d] = q.message[d]
  BY <1>1, <1>4, QueueFields
<1> QED BY <1>3, <1>4, <1>5

\* The first item goes, the others stay in their order.
LEMMA PopChain ==
    ASSUME NEW q \in Queues, NEW n \in Nat, n # 0, NEW s \in [1 .. n -> Cells], Chain(q, s, n)
    PROVE  LET p == MIDIMessageQueuePop(q)
               t == [i \in 1 .. n - 1 |-> s[i + 1]]
           IN  /\ p \in Queues /\ n - 1 \in Nat /\ t \in [1 .. n - 1 -> Cells] /\ Chain(p, t, n - 1)
               /\ \A i \in 1 .. n - 1 : p.message[t[i]] = q.message[s[i + 1]]
<1> DEFINE p == MIDIMessageQueuePop(q)
           t == [i \in 1 .. n - 1 |-> s[i + 1]]
<1>1. 1 \in 1 .. n /\ n \in 1 .. n /\ n - 1 \in Nat
  OBVIOUS
<1>2. s[1] \in Cells /\ q.first = s[1] /\ q.last = s[n] /\ q.length = n
  BY <1>1 DEF Chain
<1>3. /\ p \in Queues
      /\ p.first = q.next[q.first] /\ p.last = IF q.last = q.first THEN NULL ELSE q.last
      /\ p.length = q.length - 1 /\ p.items = q.items \ {q.first}
      /\ \A d \in Cells : d # q.first => p.next[d] = q.next[d] /\ p.message[d] = q.message[d]
  BY <1>2, PopFields, QueueAssumption
<1> HIDE DEF p
<1>4. \A i \in 1 .. n - 1 : /\ i + 1 \in 1 .. n /\ i + 1 # 1
                            /\ t[i] = s[i + 1] /\ t[i] \in Cells /\ t[i] # s[1]
  <2> TAKE i \in 1 .. n - 1
  <2>1. i + 1 \in 1 .. n /\ i + 1 # 1
    OBVIOUS
  <2> QED BY <1>1, <2>1 DEF Chain
<1>5. t \in [1 .. n - 1 -> Cells]
  BY <1>4
<1> HIDE DEF t
<1>6. \A i \in 1 .. n : i = 1 \/ (i - 1 \in 1 .. n - 1 /\ t[i - 1] = s[i])
  <2> TAKE i \in 1 .. n
  <2>1. CASE i # 1
    <3>1. i - 1 \in 1 .. n - 1 /\ (i - 1) + 1 = i
      BY <2>1
    <3> QED BY <1>4, <3>1
  <2> QED BY <2>1
<1>7. p.items = {t[i] : i \in 1 .. n - 1}
  <2>1. p.items = {s[i] : i \in 1 .. n} \ {s[1]}
    BY <1>2, <1>3 DEF Chain
  <2>2. ASSUME NEW c \in p.items PROVE c \in {t[i] : i \in 1 .. n - 1}
    <3>1. PICK i \in 1 .. n : c = s[i] /\ i # 1
      BY <2>1
    <3> QED BY <1>6, <3>1
  <2>3. ASSUME NEW i \in 1 .. n - 1 PROVE t[i] \in p.items
    BY <1>4, <2>1
  <2> QED BY <2>2, <2>3
<1>8. p.first = IF n - 1 = 0 THEN NULL ELSE t[1]
  <2>1. q.next[s[1]] = IF 1 = n THEN NULL ELSE s[1 + 1]
    BY <1>1 DEF Chain
  <2>2. CASE n # 1
    <3>1. 1 \in 1 .. n - 1
      BY <2>2
    <3>2. t[1] = s[1 + 1]
      BY <1>4, <3>1
    <3> QED BY <1>2, <1>3, <2>1, <2>2, <3>2
  <2> QED BY <1>2, <1>3, <2>1, <2>2
<1>9. p.last = IF n - 1 = 0 THEN NULL ELSE t[n - 1]
  <2>1. CASE n # 1
    <3>1. n - 1 \in 1 .. n - 1 /\ (n - 1) + 1 = n
      BY <2>1
    <3> QED BY <1>2, <1>3, <1>4, <2>1, <3>1
  <2> QED BY <1>2, <1>3, <2>1
<1>10. ASSUME NEW i \in 1 .. n - 1
       PROVE  p.next[t[i]] = IF i = n - 1 THEN NULL ELSE t[i + 1]
  <2>1. p.next[t[i]] = q.next[s[i + 1]] /\ q.next[s[i + 1]] = IF i + 1 = n THEN NULL ELSE s[(i + 1) + 1]
    BY <1>2, <1>3, <1>4 DEF Chain
  <2>2. CASE i # n - 1
    <3>1. i + 1 \in 1 .. n - 1 /\ i + 1 # n
      BY <2>2
    <3> QED BY <1>4, <2>1, <2>2, <3>1
  <2> QED BY <2>1, <2>2
<1>11. \A i, j \in 1 .. n - 1 : t[i] = t[j] => i = j
  <2> TAKE i, j \in 1 .. n - 1
  <2>1. t[i] = t[j] => i + 1 = j + 1
    BY <1>4 DEF Chain
  <2> QED BY <2>1
<1>12. \A i \in 1 .. n - 1 : p.message[t[i]] = q.message[s[i + 1]] /\ p.message[t[i]] \in Messages
  BY <1>2, <1>3, <1>4 DEF Chain
<1>13. Chain(p, t, n - 1)
  BY <1>2, <1>3, <1>7, <1>8, <1>9, <1>10, <1>11, <1>12 DEF Chain
<1> QED BY <1>1, <1>3, <1>5, <1>12, <1>13 DEF p, t

-----------------------------------------------------------------------------
(* What the pointers lead to. *)

\* No more items than cells, and as many as the counter says.
LEMMA ChainFits ==
    ASSUME NEW q \in Queues, NEW n \in Nat, NEW s \in [1 .. n -> Cells], Chain(q, s, n)
    PROVE  n <= Cardinality(Cells) /\ Cardinality(q.items) = n /\ Cardinality(Cells) \in Nat
<1>1. IsFiniteSet(Cells) /\ Cardinality(Cells) \in Nat
  BY QueueAssumption, FS_CardinalityType
<1>2. IsFiniteSet(1 .. n) /\ Cardinality(1 .. n) = n
  <2>1. PICK a, b \in Int : a = 1 /\ b = n
    OBVIOUS
  <2>2. IsFiniteSet(a .. b) /\ Cardinality(a .. b) = IF a > b THEN 0 ELSE b - a + 1
    BY FS_Interval
  <2> QED BY <2>1, <2>2
<1>3. s \in Bijection(1 .. n, q.items)
  <2>1. q.items = {s[i] : i \in 1 .. n} /\ \A i, j \in 1 .. n : s[i] = s[j] => i = j
    BY DEF Chain
  <2> QED BY <2>1 DEF Bijection, Injection, IsInjective, Surjection
<1>4. Cardinality(q.items) = n
  BY <1>2, <1>3, FS_Bijection DEF ExistsBijection
<1>5. q.items \in SUBSET Cells
  BY QueueFields
<1>6. Cardinality(q.items) <= Cardinality(Cells)
  BY <1>1, <1>5, FS_Subset
<1> QED BY <1>1, <1>4, <1>6

\* The walk along the next pointers visits s and stays at NULL behind it.
LEMMA ChainWalk ==
    ASSUME NEW q \in Queues, NEW n \in Nat, NEW s \in [1 .. n -> Cells], Chain(q, s, n)
    PROVE  ItemAt(q) = [i \in 1 .. Cardinality(Cells) |-> IF i <= n THEN s[i] ELSE NULL]
<1> DEFINE C == Cardinality(Cells)
           Walk(f) == f = [k \in 1 .. C |-> IF k = 1 THEN q.first
                                            ELSE IF f[k - 1] = NULL THEN NULL ELSE q.next[f[k - 1]]]
           g == [i \in 1 .. C |-> IF i <= n THEN s[i] ELSE NULL]
<1>1. n <= C /\ C \in Nat
  BY ChainFits
<1>2. ItemAt(q) = CHOOSE f : Walk(f)
  BY DEF ItemAt
<1> HIDE DEF C
<1>3. \A i \in 1 .. n : s[i] \in Cells /\ s[i] # NULL
  BY QueueAssumption
<1>4. Walk(g)
  <2> SUFFICES ASSUME NEW k \in 1 .. C
               PROVE  g[k] = IF k = 1 THEN q.first
                             ELSE IF g[k - 1] = NULL THEN NULL ELSE q.next[g[k - 1]]
    <3> HIDE DEF g
    <3>1. g = [i \in 1 .. C |-> g[i]]
      BY DEF g
    <3> QED BY <3>1
  <2>1. CASE k = 1
    <3>1. q.first = IF n = 0 THEN NULL ELSE s[1]
      BY DEF Chain
    <3> QED BY <2>1, <3>1
  <2>2. CASE k # 1
    <3>1. k - 1 \in 1 .. C /\ (k - 1) + 1 = k
      BY <1>1, <2>2
    <3>2. CASE k - 1 <= n
      <4>1. k - 1 \in 1 .. n /\ g[k - 1] = s[k - 1]
        BY <3>1, <3>2
      <4>2. q.next[s[k - 1]] = IF k - 1 = n THEN NULL ELSE s[k]
        BY <3>1, <4>1 DEF Chain
      <4>3. g[k] = IF k <= n THEN s[k] ELSE NULL
        OBVIOUS
      <4>4. k <= n <=> k - 1 # n
        BY <3>2
      <4> QED BY <1>3, <2>2, <4>1, <4>2, <4>3, <4>4
    <3>3. CASE ~(k - 1 <= n)
      BY <1>1, <2>2, <3>1, <3>3
    <3> QED BY <3>2, <3>3
  <2> QED BY <2>1, <2>2
<1> DEFINE f == ItemAt(q)
<1>5. Walk(f)
  <2> HIDE DEF Walk, g
  <2> QED BY <1>2, <1>4
<1>6. \A k \in 1 .. C : f[k] = g[k]
  <2> DEFINE D == {k \in 1 .. C : f[k] # g[k]}
  <2> SUFFICES ASSUME D # {} PROVE FALSE
    OBVIOUS
  <2>1. D \subseteq Nat
    BY <1>1
  <2>2. PICK k \in D : \A m \in D : k <= m
    <3> HIDE DEF D
    <3> QED BY <2>1, Least
  <2>3. k \in 1 .. C /\ f[k] # g[k]
    OBVIOUS
  <2>4. /\ f[k] = IF k = 1 THEN q.first ELSE IF f[k - 1] = NULL THEN NULL ELSE q.next[f[k - 1]]
        /\ g[k] = IF k = 1 THEN q.first ELSE IF g[k - 1] = NULL THEN NULL ELSE q.next[g[k - 1]]
    <3> HIDE DEF f, g
    <3> QED BY <1>4, <1>5, <2>3
  <2>5. k # 1
    BY <2>3, <2>4
  <2>6. k - 1 \in 1 .. C /\ ~(k <= k - 1)
    BY <1>1, <2>3, <2>5
  <2>7. f[k - 1] = g[k - 1]
    <3> HIDE DEF f, g
    <3> QED BY <2>2, <2>6
  <2> QED BY <2>3, <2>4, <2>7
<1>7. f = [k \in 1 .. C |-> f[k]] /\ g = [k \in 1 .. C |-> g[k]]
  <2>1. f = [k \in 1 .. C |-> f[k]]
    <3> HIDE DEF f
    <3> QED BY <1>5
  <2> QED BY <2>1
<1>8. f = g
  <2> HIDE DEF f, g
  <2> QED BY <1>6, <1>7
<1> QED BY <1>8 DEF C

\* So the contents are the messages of s in order, and first, last, the counter
\* and the items agree.
LEMMA ChainContents ==
    ASSUME NEW q \in Queues, NEW n \in Nat, NEW s \in [1 .. n -> Cells], Chain(q, s, n)
    PROVE  /\ Contents(q) = [i \in 1 .. n |-> q.message[s[i]]]
           /\ Contents(q) \in Seq(Messages) /\ Len(Contents(q)) = n
           /\ WellFormed(q)
<1> DEFINE C == Cardinality(Cells)
           at == ItemAt(q)
           full == {i \in DOMAIN at : at[i] # NULL}
<1>1. n <= C /\ C \in Nat /\ Cardinality(q.items) = n
  BY ChainFits
<1>2. at = [i \in 1 .. C |-> IF i <= n THEN s[i] ELSE NULL]
  BY ChainWalk
<1> HIDE DEF C
<1>3. \A i \in 1 .. n : i \in 1 .. C /\ at[i] = s[i] /\ s[i] # NULL
  BY <1>1, <1>2, QueueAssumption
<1>4. full = 1 .. n
  <2>1. \A i \in full : i \in 1 .. n
    BY <1>1, <1>2
  <2>2. DOMAIN at = 1 .. C
    BY <1>2
  <2> HIDE DEF at
  <2> QED BY <1>3, <2>1, <2>2
<1>5. Cardinality(1 .. n) = n
  <2>1. PICK a, b \in Int : a = 1 /\ b = n
    OBVIOUS
  <2>2. Cardinality(a .. b) = IF a > b THEN 0 ELSE b - a + 1
    BY FS_Interval
  <2> QED BY <2>1, <2>2
<1>6. Contents(q) = [i \in 1 .. n |-> q.message[s[i]]]
  <2>1. Contents(q) = [i \in 1 .. Cardinality(full) |-> q.message[at[i]]]
    BY DEF Contents
  <2> HIDE DEF full, at
  <2> QED BY <1>3, <1>4, <1>5, <2>1
<1>7. Contents(q) \in Seq(Messages) /\ Len(Contents(q)) = n
  <2>1. \A i \in 1 .. n : q.message[s[i]] \in Messages
    BY DEF Chain
  <2> QED BY <1>6, <2>1
<1>8. WellFormed(q)
  <2>1. q.items = {at[i] : i \in 1 .. n}
    <3> HIDE DEF at
    <3> QED BY <1>3 DEF Chain
  <2>2. q.last = IF n = 0 THEN NULL ELSE at[n]
    <3>1. CASE n # 0
      <4>1. n \in 1 .. n
        BY <3>1
      <4> QED BY <1>3, <3>1, <4>1 DEF Chain
    <3> QED BY <3>1 DEF Chain
  <2>3. q.length = n
    BY DEF Chain
  <2> HIDE DEF at
  <2> QED BY <1>1, <1>7, <2>1, <2>2, <2>3 DEF WellFormed, at
<1> QED BY <1>6, <1>7, <1>8

-----------------------------------------------------------------------------
(* The queue as a sequence. *)

\* The contents are as long as the counter says, and the records agree.
LEMMA LinkedContents ==
    ASSUME NEW q, Linked(q)
    PROVE  /\ q \in Queues /\ WellFormed(q)
           /\ Contents(q) \in Seq(Messages) /\ Len(Contents(q)) = q.length /\ q.length \in Nat
<1>1. PICK n \in Nat : \E s \in [1 .. n -> Cells] : Chain(q, s, n)
  BY DEF Linked
<1>2. PICK s \in [1 .. n -> Cells] : Chain(q, s, n)
  BY <1>1
<1>3. q \in Queues
  BY DEF Linked
<1>4. /\ Contents(q) \in Seq(Messages) /\ Len(Contents(q)) = n
      /\ WellFormed(q)
  BY <1>2, <1>3, ChainContents
<1>5. q.length = n
  BY <1>2 DEF Chain
<1> QED BY <1>3, <1>4, <1>5

\* Nothing waits in a new queue (MIDIMessageQueueCreate).
LEMMA CreateContents == Contents(MIDIMessageQueueCreate) = <<>>
<1> DEFINE q == MIDIMessageQueueCreate
<1>1. Linked(q) /\ q.length = 0
  BY CreateLinked DEF MIDIMessageQueueCreate
<1>2. Contents(q) \in Seq(Messages) /\ Len(Contents(q)) = 0
  BY <1>1, LinkedContents
<1> QED BY <1>2

\* A push appends (MIDIMessageQueuePush).
THEOREM PushAppends ==
    ASSUME NEW q, Linked(q), NEW m \in Messages, NEW c \in Cells \ q.items
    PROVE  LET p == MIDIMessageQueuePush(q, m, c)
           IN  Linked(p) /\ Contents(p) = Append(Contents(q), m)
<1> DEFINE p == MIDIMessageQueuePush(q, m, c)
<1>1. q \in Queues
  BY DEF Linked
<1>2. PICK n \in Nat : \E s \in [1 .. n -> Cells] : Chain(q, s, n)
  BY DEF Linked
<1>3. PICK s \in [1 .. n -> Cells] : Chain(q, s, n)
  BY <1>2
<1> DEFINE t == [i \in 1 .. n + 1 |-> IF i = n + 1 THEN c ELSE s[i]]
<1>4. t \in [1 .. n + 1 -> Cells] /\ Chain(p, t, n + 1)
  BY <1>1, <1>3, PushChain
<1>5. /\ p \in Queues
      /\ \A d \in Cells : p.message[d] = IF d = c THEN m ELSE q.message[d]
  BY <1>1, PushFields
<1>6. \A i \in 1 .. n : t[i] = s[i] /\ s[i] \in Cells /\ s[i] # c
  BY <1>3 DEF Chain
<1>7. t[n + 1] = c
  OBVIOUS
<1> HIDE DEF p, t
<1>8. n + 1 \in Nat
  OBVIOUS
<1>9. Contents(p) = [i \in 1 .. n + 1 |-> p.message[t[i]]]
  BY <1>4, <1>5, <1>8, ChainContents
<1>10. Contents(q) = [i \in 1 .. n |-> q.message[s[i]]]
  BY <1>1, <1>3, ChainContents
<1>11. \A i \in 1 .. n + 1 : p.message[t[i]] = IF i <= n THEN q.message[s[i]] ELSE m
  BY <1>5, <1>6, <1>7
<1>12. Contents(p) = Append(Contents(q), m)
  <2>1. Append(Contents(q), m) = [i \in 1 .. n + 1 |-> IF i <= n THEN q.message[s[i]] ELSE m]
    BY <1>10
  <2> QED BY <1>9, <1>11, <2>1
<1>13. Linked(p)
  BY <1>4, <1>5, <1>8 DEF Linked
<1> QED BY <1>12, <1>13 DEF p

\* A pop takes the first message, the one that a peek shows, and leaves the rest
\* (MIDIMessageQueuePeek, MIDIMessageQueuePop).
THEOREM PopTakesFirst ==
    ASSUME NEW q, Linked(q), q.length # 0
    PROVE  LET p == MIDIMessageQueuePop(q)
           IN  /\ Linked(p) /\ p.length = q.length - 1
               /\ MIDIMessageQueuePeek(q) = Contents(q)[1]
               /\ \A i \in 1 .. p.length : Contents(p)[i] = Contents(q)[i + 1]
<1> DEFINE p == MIDIMessageQueuePop(q)
<1>1. q \in Queues
  BY DEF Linked
<1>2. PICK n \in Nat : \E s \in [1 .. n -> Cells] : Chain(q, s, n)
  BY DEF Linked
<1>3. PICK s \in [1 .. n -> Cells] : Chain(q, s, n)
  BY <1>2
<1>4. q.length = n /\ n # 0 /\ q.first = s[1] /\ 1 \in 1 .. n
  BY <1>3 DEF Chain
<1> DEFINE t == [i \in 1 .. n - 1 |-> s[i + 1]]
<1>5. /\ p \in Queues /\ n - 1 \in Nat /\ t \in [1 .. n - 1 -> Cells] /\ Chain(p, t, n - 1)
      /\ \A i \in 1 .. n - 1 : p.message[t[i]] = q.message[s[i + 1]]
  BY <1>1, <1>3, <1>4, PopChain
<1> HIDE DEF p, t
<1>6. Contents(p) = [i \in 1 .. n - 1 |-> p.message[t[i]]]
  BY <1>5, ChainContents
<1>7. Contents(q) = [i \in 1 .. n |-> q.message[s[i]]]
  BY <1>1, <1>3, ChainContents
<1>8. p.length = n - 1
  BY <1>5 DEF Chain
<1>9. MIDIMessageQueuePeek(q) = Contents(q)[1]
  <2>1. s[1] # NULL
    BY <1>4, QueueAssumption
  <2> QED BY <1>4, <1>7, <2>1 DEF MIDIMessageQueuePeek
<1>10. ASSUME NEW i \in 1 .. n - 1 PROVE Contents(p)[i] = Contents(q)[i + 1]
  <2>1. i + 1 \in 1 .. n
    BY <1>4
  <2> QED BY <1>5, <1>6, <1>7, <2>1
<1>11. Linked(p)
  BY <1>5 DEF Linked
<1> QED BY <1>4, <1>8, <1>9, <1>10, <1>11 DEF p

-----------------------------------------------------------------------------
(* A packet goes round the peers. *)

\* The loop that stands at q has passed p.
Passed(t, q, p) ==
    \E s \in Slots : t[s] = p /\ (q = NULL \/ \E u \in Slots : t[u] = q /\ s < u)

Distinct(t) == \A s, u \in Slots : t[s] # NULL /\ t[s] = t[u] => s = u

RoundInv ==
    /\ table \in [Slots -> Peers \cup {NULL}] /\ Distinct(table)
    /\ phase = "sending" =>
           /\ peer \in Members(table) \cup {NULL}
           /\ served = [p \in Peers |-> IF Passed(table, peer, p) THEN 1 ELSE 0]

-----------------------------------------------------------------------------
(* The peer table. *)

\* The loop starts at the first peer.
LEMMA FirstPeer ==
    ASSUME NEW t \in [Slots -> Peers \cup {NULL}], Distinct(t), NEW q, q = NextPeer(t, NULL)
    PROVE  q \in Members(t) \cup {NULL} /\ \A p \in Peers : ~Passed(t, q, p)
<1> DEFINE later == {s \in Slots : t[s] # NULL}
           f == CHOOSE s \in later : \A u \in later : s <= u
<1>1. q = IF later = {} THEN NULL ELSE t[f]
  BY DEF NextPeer
<1>2. CASE later = {}
  BY <1>1, <1>2, OutgoingAssumption DEF Passed
<1>3. CASE later # {}
  <2>1. later \subseteq Nat
    BY DEF Slots
  <2>2. \E s \in later : \A u \in later : s <= u
    <3> HIDE DEF later
    <3> QED BY <1>3, <2>1, Least
  <2>3. f \in later /\ \A u \in later : f <= u
    <3> HIDE DEF later
    <3> QED BY <2>2
  <2> HIDE DEF f
  <2>4. q = t[f] /\ f \in Slots /\ q # NULL /\ q \in Members(t)
    BY <1>1, <1>3, <2>3 DEF Members
  <2>5. ASSUME NEW p \in Peers, Passed(t, q, p) PROVE FALSE
    <3>1. PICK s \in Slots, u \in Slots : t[s] = p /\ t[u] = q /\ s < u
      BY <2>4, <2>5 DEF Passed
    <3>2. s \in later /\ u = f
      BY <2>4, <3>1, OutgoingAssumption DEF Distinct
    <3>3. f <= s /\ s < f
      BY <2>3, <3>1, <3>2
    <3> QED BY <2>4, <3>1, <3>3 DEF Slots
  <2> QED BY <2>4, <2>5
<1> QED BY <1>2, <1>3

\* From a peer of the table the loop goes on to the next one, and has passed that
\* peer as well.
LEMMA PeerAfter ==
    ASSUME NEW t \in [Slots -> Peers \cup {NULL}], Distinct(t),
           NEW p \in Members(t), NEW q, q = NextPeer(t, p)
    PROVE  /\ q \in Members(t) \cup {NULL}
           /\ ~Passed(t, p, p)
           /\ \A r \in Peers : Passed(t, q, r) <=> r = p \/ Passed(t, p, r)
<1> DEFINE later == {s \in Slots : t[s] # NULL /\ \E u \in SlotsOf(t, p) : u < s}
           f == CHOOSE s \in later : \A u \in later : s <= u
<1>1. PICK i \in Slots : t[i] = p
  BY DEF Members
<1>2. p # NULL /\ p \in Peers /\ \A s \in Slots : t[s] = p => s = i
  BY <1>1 DEF Members, Distinct
<1>3. later = {s \in Slots : t[s] # NULL /\ i < s}
  BY <1>1, <1>2 DEF SlotsOf
<1>4. q = IF later = {} THEN NULL ELSE t[f]
  BY <1>2 DEF NextPeer
<1>5. \A r \in Peers : Passed(t, p, r) <=> \E s \in Slots : t[s] = r /\ s < i
  BY <1>1, <1>2 DEF Passed
<1>6. ~Passed(t, p, p)
  BY <1>2, <1>5 DEF Slots
<1>7. CASE later = {}
  <2>1. \A s \in Slots : t[s] # NULL => s <= i
    BY <1>3, <1>7 DEF Slots
  <2>2. ASSUME NEW r \in Peers PROVE Passed(t, NULL, r) <=> r = p \/ Passed(t, p, r)
    <3>1. Passed(t, NULL, r) <=> \E s \in Slots : t[s] = r
      BY DEF Passed
    <3>2. ASSUME NEW s \in Slots, t[s] = r PROVE s < i \/ s = i
      BY <2>1, <3>2, OutgoingAssumption DEF Slots
    <3> QED BY <1>1, <1>5, <3>1, <3>2
  <2> QED BY <1>4, <1>6, <1>7, <2>2
<1>8. CASE later # {}
  <2>1. later \subseteq Nat
    BY DEF Slots
  <2>2. \E s \in later : \A u \in later : s <= u
    <3> HIDE DEF later
    <3> QED BY <1>8, <2>1, Least
  <2>3. f \in later /\ \A u \in later : f <= u
    <3> HIDE DEF later
    <3> QED BY <2>2
  <2> HIDE DEF f
  <2>4. q = t[f] /\ f \in Slots /\ q # NULL /\ q \in Members(t) /\ i < f
    BY <1>3, <1>4, <1>8, <2>3 DEF Members
  <2>5. \A s \in Slots : t[s] = q => s = f
    BY <2>4 DEF Distinct
  <2>6. ASSUME NEW r \in Peers PROVE Passed(t, q, r) <=> r = p \/ Passed(t, p, r)
    <3>1. Passed(t, q, r) <=> \E s \in Slots : t[s] = r /\ s < f
      BY <2>4, <2>5 DEF Passed
    <3>2. ASSUME NEW s \in Slots, t[s] = r, s < f PROVE s < i \/ s = i
      <4>1. s \notin later
        BY <2>3, <3>2 DEF Slots
      <4> QED BY <1>3, <3>2, <4>1, OutgoingAssumption DEF Slots
    <3>3. ASSUME NEW s \in Slots, s < i \/ s = i PROVE s < f
      BY <2>4, <3>3 DEF Slots
    <3> QED BY <1>1, <1>5, <3>1, <3>2, <3>3
  <2> QED BY <1>6, <2>4, <2>6
<1> QED BY <1>7, <1>8

-----------------------------------------------------------------------------
(* The packet on its way round. *)

\* No peers and no packet at the start.
LEMMA InitHolds == Init => RoundInv /\ Interested
<1> SUFFICES ASSUME Init PROVE RoundInv /\ Interested
  OBVIOUS
<1>1. RoundInv
  BY DEF Init, RoundInv, EmptyTable, Distinct
<1>2. Interested
  <2>1. queue.length = 0 /\ source = [write |-> FALSE, timeout |-> TRUE]
    BY DEF Init, MIDIMessageQueueCreate
  <2>2. (queue.length > 0) = FALSE /\ (queue.length = 0) = TRUE
    BY <2>1
  <2> QED BY <2>1, <2>2, Zenon DEF Interested
<1> QED BY <1>1, <1>2

\* A packet begins with the first peer, whoever begins it.
LEMMA WriteHolds ==
    ASSUME RoundInv, phase = "idle", NEW q, NEW ready, WriteFds(q, ready), UNCHANGED table
    PROVE  RoundInv' /\ Interested'
<1>1. CASE "rtp" \in ready /\ q.length > 0
  <2>1. /\ phase' = "sending" /\ peer' = NextPeer(table, NULL)
        /\ served' = [p \in Peers |-> 0]
    BY <1>1 DEF WriteFds
  <2>2. peer' \in Members(table) \cup {NULL} /\ \A p \in Peers : ~Passed(table, peer', p)
    BY <2>1, FirstPeer DEF RoundInv
  <2>3. served' = [p \in Peers |-> IF Passed(table, peer', p) THEN 1 ELSE 0]
    BY <2>1, <2>2
  <2>4. Interested'
    BY <2>1 DEF Interested
  <2> QED BY <2>2, <2>3, <2>4 DEF RoundInv
<1>2. CASE ~("rtp" \in ready /\ q.length > 0)
  <2>1. phase' = "idle" /\ queue' = q /\ UpdateRunloopSource(q)
    BY <1>2 DEF WriteFds
  <2>2. RoundInv'
    BY <2>1 DEF RoundInv
  <2>3. Interested'
    BY <2>1 DEF UpdateRunloopSource, Interested
  <2> QED BY <2>2, <2>3
<1> QED BY <1>1, <1>2

\* A call of the application or a handler of the protocol.
LEMMA ApplicationHolds == ASSUME RoundInv, Interested, Application PROVE RoundInv' /\ Interested'
<1>1. ASSUME NEW m \in Messages, MIDIMessageCreate(m) \/ MIDIMessageRelease(m)
      PROVE  RoundInv' /\ Interested'
  BY <1>1 DEF MIDIMessageCreate, MIDIMessageRelease, RoundInv, Interested
<1>2. ASSUME NEW m \in Messages, MIDIDriverAppleMIDISendMessage(m)
      PROVE  RoundInv' /\ Interested'
  BY <1>2, WriteHolds DEF MIDIDriverAppleMIDISendMessage
<1>3. CASE MIDIDriverAppleMIDISend
  BY <1>3, WriteHolds DEF MIDIDriverAppleMIDISend
<1>4. CASE MIDIDriverAppleMIDIDestroy
  BY <1>4 DEF MIDIDriverAppleMIDIDestroy, RoundInv, Interested, EmptyTable, Distinct
<1>5. ASSUME NEW p \in Peers, Join(p) PROVE RoundInv' /\ Interested'
  <2>1. PICK s \in Slots : table' = [table EXCEPT ![s] = p]
    BY <1>5 DEF Join
  <2>2. table' \in [Slots -> Peers \cup {NULL}]
    BY <2>1 DEF RoundInv
  <2>3. \A u \in Slots : table[u] # p
    BY <1>5, OutgoingAssumption DEF Join, Members
  <2>4. \A u \in Slots : table'[u] = IF u = s THEN p ELSE table[u]
    BY <2>1 DEF RoundInv
  <2>5. Distinct(table')
    BY <2>3, <2>4 DEF RoundInv, Distinct
  <2> QED BY <1>5, <2>2, <2>5 DEF Join, RoundInv, Interested
<1>6. ASSUME NEW p \in Peers, Leave(p) PROVE RoundInv' /\ Interested'
  <2>1. table' = [s \in Slots |-> IF table[s] = p THEN NULL ELSE table[s]]
    BY <1>6 DEF Leave
  <2>2. table' \in [Slots -> Peers \cup {NULL}] /\ Distinct(table')
    BY <2>1 DEF RoundInv, Distinct
  <2> QED BY <1>6, <2>2 DEF Leave, RoundInv, Interested
<1> QED BY <1>1, <1>2, <1>3, <1>4, <1>5, <1>6 DEF Application

\* The packet goes to the peer at which the loop stands, or every peer has it.
LEMMA SendingHolds == ASSUME RoundInv, Interested, Sending PROVE RoundInv' /\ Interested'
<1>1. CASE SendPacket
  <2>1. /\ phase = "sending" /\ peer # NULL /\ phase' = "sending"
        /\ peer' = NextPeer(table, peer) /\ table' = table
        /\ served' = [served EXCEPT ![peer] = Min({@ + 1, 2})]
    BY <1>1 DEF SendPacket
  <2>2. peer \in Members(table) /\ peer \in Peers
    BY <2>1 DEF RoundInv, Members
  <2>3. /\ peer' \in Members(table) \cup {NULL}
        /\ ~Passed(table, peer, peer)
        /\ \A r \in Peers : Passed(table, peer', r) <=> r = peer \/ Passed(table, peer, r)
    BY <2>1, <2>2, PeerAfter DEF RoundInv
  <2>4. served = [p \in Peers |-> IF Passed(table, peer, p) THEN 1 ELSE 0]
    BY <2>1 DEF RoundInv
  <2>5. Min({served[peer] + 1, 2}) = 1
    <3>1. served[peer] = 0
      BY <2>2, <2>3, <2>4
    <3> QED BY <3>1 DEF Min
  <2>6. served' = [p \in Peers |-> IF Passed(table, peer', p) THEN 1 ELSE 0]
    <3>1. served' = [served EXCEPT ![peer] = 1]
      BY <2>1, <2>5
    <3> QED BY <2>2, <2>3, <2>4, <3>1
  <2> QED BY <2>1, <2>3, <2>6 DEF RoundInv, Interested
<1>2. CASE SendDone
  <2>1. Interested'
    BY <1>2 DEF SendDone, UpdateRunloopSource, Interested
  <2>2. RoundInv'
    BY <1>2 DEF SendDone, RoundInv
  <2> QED BY <2>1, <2>2
<1> QED BY <1>1, <1>2 DEF Sending

\* Any step.
LEMMA NextHolds == ASSUME RoundInv, Interested, [Next]_vars PROVE RoundInv' /\ Interested'
<1>1. CASE RunloopWrite
  BY <1>1, WriteHolds DEF RunloopWrite
<1>2. CASE Drain \/ (\E s \in Sockets : Fill(s)) \/ UNCHANGED vars
  BY <1>2 DEF Drain, Fill, vars, RoundInv, Interested
<1> QED BY <1>1, <1>2, ApplicationHolds, SendingHolds DEF Next

-----------------------------------------------------------------------------
(* The theorems. *)

\* Whatever sends, fails or changes the queue, the source waits to write exactly
\* when messages are left (_applemidi_update_runloop_source).
THEOREM InterestedCorrect == Spec => []Interested
<1>1. RoundInv /\ Interested /\ [Next]_vars => RoundInv' /\ Interested'
  BY NextHolds
<1> QED BY InitHolds, <1>1, PTL DEF Spec

\* For any table: while a packet goes round, the peers before the loop's position
\* got it once and the others did not; at the end all have it
\* (RTPSessionNextPeer in RTPSessionSend).
THEOREM BroadcastCorrect == Spec => []Broadcast
<1>1. RoundInv /\ Interested /\ [Next]_vars => RoundInv' /\ Interested'
  BY NextHolds
<1>2. ASSUME RoundInv PROVE Broadcast
  <2> SUFFICES ASSUME phase = "sending"
               PROVE  /\ \A p \in Peers : served[p] <= IF p \in Members(table) \ {peer} THEN 1 ELSE 0
                      /\ peer = NULL => \A p \in Members(table) : served[p] = 1
    BY DEF Broadcast
  <2>1. \A p \in Peers : served[p] = IF Passed(table, peer, p) THEN 1 ELSE 0
    BY <1>2 DEF RoundInv
  <2>2. ASSUME NEW p \in Peers, Passed(table, peer, p) PROVE p \in Members(table) \ {peer}
    <3>1. PICK s \in Slots : table[s] = p
                             /\ (peer = NULL \/ \E u \in Slots : table[u] = peer /\ s < u)
      BY <2>2 DEF Passed
    <3>2. p \in Members(table)
      BY <3>1, OutgoingAssumption DEF Members
    <3>3. p # peer
      BY <1>2, <3>1, OutgoingAssumption DEF RoundInv, Distinct, Slots
    <3> QED BY <3>2, <3>3
  <2>3. ASSUME peer = NULL, NEW p \in Members(table) PROVE p \in Peers /\ Passed(table, peer, p)
    BY <1>2, <2>3 DEF RoundInv, Members, Passed
  <2> QED BY <2>1, <2>2, <2>3
<1> QED BY InitHolds, <1>1, <1>2, PTL DEF Spec

-----------------------------------------------------------------------------
(* How often a message is in a sequence. *)

\* The places of a message are finitely many.
LEMMA CountType ==
    ASSUME NEW s \in Seq(Messages), NEW m
    PROVE  Count(m, s) \in Nat /\ IsFiniteSet({i \in DOMAIN s : s[i] = m})
<1>1. PICK n \in Nat : DOMAIN s = 1 .. n
  BY DOMAIN s = 1 .. Len(s), Len(s) \in Nat
<1>2. PICK a, b \in Int : a = 1 /\ b = n
  OBVIOUS
<1>3. IsFiniteSet(a .. b)
  BY FS_Interval
<1>4. IsFiniteSet({i \in DOMAIN s : s[i] = m})
  BY <1>1, <1>2, <1>3, FS_Subset
<1> QED BY <1>4, FS_CardinalityType DEF Count

\* None in the empty sequence.
LEMMA CountEmpty == ASSUME NEW m PROVE Count(m, <<>>) = 0
<1>1. {i \in DOMAIN <<>> : <<>>[i] = m} = {}
  OBVIOUS
<1> QED BY <1>1, FS_EmptySet DEF Count

\* One more behind the last.
LEMMA CountAppend ==
    ASSUME NEW s \in Seq(Messages), NEW x \in Messages, NEW m
    PROVE  Count(m, Append(s, x)) = Count(m, s) + IF x = m THEN 1 ELSE 0
<1> DEFINE S == {i \in DOMAIN s : s[i] = m}
           T == {i \in DOMAIN Append(s, x) : Append(s, x)[i] = m}
           k == Len(s) + 1
<1>1. /\ Len(s) \in Nat /\ DOMAIN s = 1 .. Len(s) /\ DOMAIN Append(s, x) = 1 .. k
      /\ \A i \in 1 .. Len(s) : Append(s, x)[i] = s[i]
      /\ Append(s, x)[k] = x
  OBVIOUS
<1>2. \A i \in 1 .. k : i \in 1 .. Len(s) \/ i = k
  BY <1>1
<1>3. \A i \in 1 .. Len(s) : i \in 1 .. k /\ i # k
  BY <1>1
<1>4. k \in 1 .. k
  BY <1>1
<1>5. IsFiniteSet(S) /\ Cardinality(S) \in Nat
  BY CountType DEF Count
<1>6. T = IF x = m THEN S \cup {k} ELSE S
  <2> HIDE DEF k
  <2> QED BY <1>1, <1>2, <1>3, <1>4
<1>7. k \notin S
  BY <1>1, <1>3
<1>8. Cardinality(S \cup {k}) = Cardinality(S) + 1
  <2> HIDE DEF S, k
  <2> QED BY <1>5, <1>7, FS_AddElement
<1> HIDE DEF S, T, k
<1>9. Cardinality(T) = Cardinality(S) + IF x = m THEN 1 ELSE 0
  BY <1>5, <1>6, <1>8
<1> QED BY <1>9 DEF Count, S, T

\* What is before a place and what is behind it.
LEMMA CountSplit ==
    ASSUME NEW s \in Seq(Messages), NEW n \in Nat, n <= Len(s), NEW m
    PROVE  Count(m, s) = Count(m, [i \in 1 .. n |-> s[i]])
                         + Count(m, [i \in 1 .. Len(s) - n |-> s[i + n]])
<1> DEFINE u == [i \in 1 .. n |-> s[i]]
           v == [i \in 1 .. Len(s) - n |-> s[i + n]]
           S == {i \in DOMAIN s : s[i] = m}
           U == {i \in DOMAIN u : u[i] = m}
           V == {i \in DOMAIN v : v[i] = m}
           W == {i \in S : i > n}
<1>1. /\ Len(s) \in Nat /\ DOMAIN s = 1 .. Len(s) /\ DOMAIN u = 1 .. n /\ DOMAIN v = 1 .. Len(s) - n
      /\ \A i \in 1 .. Len(s) : s[i] \in Messages
  OBVIOUS
<1>2. /\ \A i \in 1 .. n : i \in 1 .. Len(s) /\ u[i] = s[i]
      /\ \A i \in 1 .. Len(s) - n : i + n \in 1 .. Len(s) /\ i + n > n /\ v[i] = s[i + n]
      /\ \A i \in 1 .. Len(s) : i > n => i - n \in 1 .. Len(s) - n /\ (i - n) + n = i
  BY <1>1
<1>3. IsFiniteSet(S)
  BY CountType
<1>4. W \in SUBSET S /\ U \in SUBSET S
  BY <1>1, <1>2
<1>5. /\ IsFiniteSet(W) /\ IsFiniteSet(U) /\ Cardinality(W) \in Nat /\ Cardinality(U) \in Nat
  <2> HIDE DEF W, U, S
  <2>1. IsFiniteSet(W) /\ IsFiniteSet(U)
    BY <1>3, <1>4, FS_Subset
  <2> QED BY <2>1, FS_CardinalityType
<1>6. U \cup W = S /\ U \cap W = {}
  <2>1. \A i \in S : i \in U \/ i \in W
    <3> TAKE i \in S
    <3>1. i \in 1 .. Len(s) /\ s[i] = m
      BY <1>1
    <3>2. i <= n => i \in 1 .. n
      BY <3>1, <1>1
    <3>3. i <= n \/ i > n
      BY <3>1, <1>1
    <3> QED BY <1>1, <1>2, <3>1, <3>2, <3>3
  <2>2. \A i \in U : ~(i > n)
    BY <1>1
  <2> QED BY <1>4, <2>1, <2>2
<1>7. Cardinality(S) = Cardinality(U) + Cardinality(W)
  <2> HIDE DEF U, W, S
  <2>1. Cardinality(U \cup W) = Cardinality(U) + Cardinality(W) - Cardinality(U \cap W)
    BY <1>5, FS_Union
  <2>2. Cardinality(U \cap W) = 0
    BY <1>6, FS_EmptySet
  <2>3. Cardinality(U \cup W) = Cardinality(S)
    BY <1>6
  <2>4. PICK a, b, c, d : /\ a = Cardinality(U \cup W) /\ b = Cardinality(U)
                          /\ c = Cardinality(W) /\ d = Cardinality(U \cap W)
    OBVIOUS
  <2>5. a = b + c
    BY <1>5, <2>1, <2>2, <2>4
  <2> QED BY <2>3, <2>4, <2>5
<1>8. Cardinality(V) = Cardinality(W)
  <2> DEFINE f == [i \in W |-> i - n]
  <2>1. \A i \in W : i \in 1 .. Len(s) /\ i > n /\ s[i] = m /\ f[i] = i - n
    BY <1>1
  <2>2. \A i \in W : f[i] \in V
    <3> TAKE i \in W
    <3>1. i - n \in 1 .. Len(s) - n /\ v[i - n] = s[i]
      BY <1>2, <2>1
    <3> QED BY <1>1, <2>1, <3>1
  <2>3. \A i, j \in W : f[i] = f[j] => i = j
    BY <2>1
  <2>4. \A k \in V : \E i \in W : f[i] = k
    <3> TAKE k \in V
    <3>1. k \in 1 .. Len(s) - n /\ v[k] = m
      BY <1>1
    <3>2. k + n \in W
      BY <1>1, <1>2, <3>1
    <3>3. f[k + n] = k
      BY <2>1, <3>1, <3>2
    <3> QED BY <3>2, <3>3
  <2>5. f \in Bijection(W, V)
    <3>1. f \in [W -> V]
      BY <2>2
    <3> HIDE DEF f, W, V
    <3> QED BY <2>3, <2>4, <3>1 DEF Bijection, Injection, IsInjective, Surjection
  <2> HIDE DEF f, W, V
  <2> QED BY <1>5, <2>5, FS_Bijection DEF ExistsBijection
<1>9. Count(m, s) = Cardinality(S) /\ Count(m, u) = Cardinality(U) /\ Count(m, v) = Cardinality(V)
  BY DEF Count
<1> QED BY <1>7, <1>8, <1>9

-----------------------------------------------------------------------------
(* What a packet takes from the queue. *)

\* The loop that pops: its state after i rounds, for every i up to n.
PopLoop(q, n, f) == f = [i \in 0 .. n |-> IF i = 0 THEN q ELSE MIDIMessageQueuePop(f[i - 1])]

\* Popped is that loop.
LEMMA PoppedLoop ==
    ASSUME NEW q, NEW n \in Nat
    PROVE  \E f : PopLoop(q, n, f) /\ Popped(q, n) = f[n]
<1> DEFINE D == {k \in Nat : \A f : ~PopLoop(q, k, f)}
<1>1. ASSUME D # {} PROVE FALSE
  <2>1. D \subseteq Nat
    OBVIOUS
  <2>2. PICK k \in D : \A j \in D : k <= j
    <3> HIDE DEF D
    <3> QED BY <1>1, <2>1, Least
  <2>3. k \in Nat /\ \A f : ~PopLoop(q, k, f)
    OBVIOUS
  <2>4. CASE k = 0
    <3> DEFINE f == [i \in 0 .. 0 |-> q]
    <3>1. PopLoop(q, 0, f)
      BY DEF PopLoop
    <3> QED BY <2>3, <2>4, <3>1
  <2>5. CASE k # 0
    <3>1. k - 1 \in Nat /\ ~(k <= k - 1)
      BY <2>3, <2>5
    <3>2. k - 1 \notin D
      BY <2>2, <3>1
    <3>3. PICK f : PopLoop(q, k - 1, f)
      BY <3>1, <3>2
    <3> DEFINE g == [i \in 0 .. k |-> IF i = k THEN MIDIMessageQueuePop(f[k - 1]) ELSE f[i]]
    <3>4. \A i \in 0 .. k - 1 :
              f[i] = IF i = 0 THEN q ELSE MIDIMessageQueuePop(f[i - 1])
      BY <3>3 DEF PopLoop
    <3>5. \A i \in 0 .. k : g[i] = IF i = 0 THEN q ELSE MIDIMessageQueuePop(g[i - 1])
      <4> TAKE i \in 0 .. k
      <4>1. CASE i = 0
        <5>1. i \in 0 .. k - 1 /\ i # k
          BY <2>5, <3>1, <4>1
        <5> QED BY <3>4, <4>1, <5>1
      <4>2. CASE i = k
        <5>1. i - 1 \in 0 .. k /\ i - 1 # k
          BY <2>5, <4>2
        <5> QED BY <2>5, <4>2, <5>1
      <4>3. CASE i # 0 /\ i # k
        <5>1. i \in 0 .. k - 1 /\ i - 1 \in 0 .. k /\ i - 1 # k
          BY <4>3
        <5> QED BY <3>4, <4>3, <5>1
      <4> QED BY <4>1, <4>2, <4>3
    <3>6. g = [i \in 0 .. k |-> g[i]]
      OBVIOUS
    <3> HIDE DEF g
    <3>7. PopLoop(q, k, g)
      BY <3>5, <3>6 DEF PopLoop
    <3> QED BY <2>3, <3>7
  <2> QED BY <2>4, <2>5
<1>2. \E f : PopLoop(q, n, f)
  BY <1>1
<1> DEFINE h == CHOOSE f : PopLoop(q, n, f)
<1>3. PopLoop(q, n, h)
  BY <1>2
<1>4. Popped(q, n) = h[n]
  BY DEF Popped, PopLoop
<1> QED BY <1>3, <1>4

\* n pops leave the queue without its first n messages.
LEMMA PoppedContents ==
    ASSUME NEW q, Linked(q), NEW n \in Nat, n <= q.length
    PROVE  /\ Linked(Popped(q, n)) /\ Popped(q, n).length = q.length - n
           /\ \A i \in 1 .. q.length - n : Contents(Popped(q, n))[i] = Contents(q)[i + n]
<1>1. PICK f : PopLoop(q, n, f) /\ Popped(q, n) = f[n]
  BY PoppedLoop
<1>2. f[0] = q /\ \A i \in 1 .. n : f[i] = MIDIMessageQueuePop(f[i - 1])
  <2>1. \A i \in 0 .. n : f[i] = IF i = 0 THEN q ELSE MIDIMessageQueuePop(f[i - 1])
    BY <1>1 DEF PopLoop
  <2> QED BY <2>1
<1>3. q.length \in Nat
  BY LinkedContents
<1> DEFINE L == q.length
           Good(k) == /\ Linked(f[k]) /\ f[k].length = L - k
                      /\ \A i \in 1 .. L - k : Contents(f[k])[i] = Contents(q)[i + k]
           D == {k \in 0 .. n : ~Good(k)}
<1>4. Good(0)
  BY <1>2, <1>3
<1>5. ASSUME NEW k \in 1 .. n, Good(k - 1) PROVE Good(k)
  <2> DEFINE p == f[k - 1]
  <2>1. Linked(p) /\ p.length = L - (k - 1) /\ p.length # 0 /\ f[k] = MIDIMessageQueuePop(p)
    BY <1>2, <1>3, <1>5
  <2>2. /\ Linked(f[k]) /\ f[k].length = p.length - 1
        /\ \A i \in 1 .. f[k].length : Contents(f[k])[i] = Contents(p)[i + 1]
    <3> HIDE DEF p
    <3> QED BY <2>1, PopTakesFirst
  <2>3. f[k].length = L - k
    <3> HIDE DEF p
    <3> QED BY <1>3, <2>1, <2>2
  <2>4. ASSUME NEW i \in 1 .. L - k PROVE Contents(f[k])[i] = Contents(q)[i + k]
    <3>1. i + 1 \in 1 .. L - (k - 1) /\ (i + 1) + (k - 1) = i + k
      BY <1>3
    <3>2. Contents(p)[i + 1] = Contents(q)[(i + 1) + (k - 1)]
      BY <1>5, <3>1
    <3> QED BY <2>2, <2>3, <3>1, <3>2
  <2> QED BY <2>2, <2>3, <2>4
<1> HIDE DEF Good
<1>6. ASSUME D # {} PROVE FALSE
  <2>1. D \subseteq Nat
    OBVIOUS
  <2>2. PICK k \in D : \A j \in D : k <= j
    <3> HIDE DEF D
    <3> QED BY <1>6, <2>1, Least
  <2>3. k \in 0 .. n /\ ~Good(k) /\ k # 0
    BY <1>4
  <2>4. k \in 1 .. n /\ k - 1 \in 0 .. n /\ ~(k <= k - 1)
    BY <2>3
  <2>5. Good(k - 1)
    BY <2>2, <2>4
  <2> QED BY <1>5, <2>3, <2>4, <2>5
<1>7. Good(n)
  <2>1. n \in 0 .. n
    OBVIOUS
  <2> QED BY <1>6, <2>1
<1> QED BY <1>1, <1>7 DEF Good

\* The number of messages of a packet is the length of the queue or the capacity
\* of the packet, whatever is less.
LEMMA ShareBounds ==
    ASSUME NEW q, Linked(q)
    PROVE  Share(q) \in Nat /\ Share(q) <= q.length /\ Share(q) <= Batch
           /\ (q.length > 0 => Share(q) > 0)
<1>1. q.length \in Nat /\ Batch \in Nat /\ Batch > 0
  BY LinkedContents, OutgoingAssumption
<1> DEFINE S == {q.length, Batch}
<1>2. \E x \in S : \A y \in S : x <= y
  BY <1>1
<1>3. Share(q) = CHOOSE x \in S : \A y \in S : x <= y
  BY DEF Share, Min
<1>4. Share(q) \in S /\ \A y \in S : Share(q) <= y
  BY <1>2, <1>3
<1> QED BY <1>1, <1>4

\* The write callback takes the first messages into a packet, in their order, or
\* takes nothing.
LEMMA WriteTakes ==
    ASSUME NEW q, Linked(q), NEW ready, WriteFds(q, ready)
    PROVE  \/ /\ q.length > 0
              /\ LET n == Share(q)
                     out == [i \in 1 .. n |-> Contents(q)[i]]
                 IN  /\ Linked(queue')
                     /\ Contents(queue') = [i \in 1 .. q.length - n |-> Contents(q)[i + n]]
                     /\ batch' = out /\ taken' = taken \o out
                     /\ phase' = "sending" /\ source' = source
           \/ /\ queue' = q /\ UpdateRunloopSource(q)
              /\ UNCHANGED <<batch, taken, phase, peer, served>>
<1> SUFFICES ASSUME "rtp" \in ready /\ q.length > 0
             PROVE  LET n == Share(q)
                        out == [i \in 1 .. n |-> Contents(q)[i]]
                    IN  /\ Linked(queue')
                        /\ Contents(queue') = [i \in 1 .. q.length - n |-> Contents(q)[i + n]]
                        /\ batch' = out /\ taken' = taken \o out
                        /\ phase' = "sending" /\ source' = source
  BY DEF WriteFds
<1> DEFINE n == Share(q)
           out == [i \in 1 .. n |-> MIDIMessageQueuePeek(Popped(q, i - 1))]
<1>1. n \in Nat /\ n <= q.length /\ q.length \in Nat
  BY ShareBounds, LinkedContents
<1>2. /\ queue' = Popped(q, n) /\ batch' = out /\ taken' = taken \o out
      /\ phase' = "sending" /\ source' = source
  BY DEF WriteFds
<1> HIDE DEF n
<1>3. ASSUME NEW i \in 1 .. n
      PROVE  MIDIMessageQueuePeek(Popped(q, i - 1)) = Contents(q)[i]
  <2> DEFINE p == Popped(q, i - 1)
  <2>1. i - 1 \in Nat /\ i - 1 <= q.length /\ 1 \in 1 .. q.length - (i - 1) /\ 1 + (i - 1) = i
    BY <1>1
  <2>2. /\ Linked(p) /\ p.length = q.length - (i - 1)
        /\ \A j \in 1 .. q.length - (i - 1) : Contents(p)[j] = Contents(q)[j + (i - 1)]
    BY <2>1, PoppedContents
  <2> HIDE DEF p
  <2>3. p.length # 0
    BY <1>1, <2>1, <2>2
  <2>4. MIDIMessageQueuePeek(p) = Contents(p)[1]
    BY <2>2, <2>3, PopTakesFirst
  <2> QED BY <2>1, <2>2, <2>4 DEF p
<1>4. out = [i \in 1 .. n |-> Contents(q)[i]]
  BY <1>3
<1> HIDE DEF out
<1>5. /\ Linked(queue') /\ queue'.length = q.length - n
      /\ \A i \in 1 .. q.length - n : Contents(queue')[i] = Contents(q)[i + n]
  BY <1>1, <1>2, PoppedContents
<1>6. Contents(queue') = [i \in 1 .. q.length - n |-> Contents(q)[i + n]]
  <2> DEFINE w == queue'
  <2>1. Contents(w) \in Seq(Messages) /\ Len(Contents(w)) = w.length
    <3> HIDE DEF w
    <3> QED BY <1>5, LinkedContents DEF w
  <2>2. Contents(w) = [i \in 1 .. w.length |-> Contents(w)[i]]
    <3> HIDE DEF w
    <3> QED BY <2>1
  <2> QED BY <1>5, <2>2
<1> QED BY <1>2, <1>4, <1>5, <1>6 DEF n

-----------------------------------------------------------------------------
(* Who refers to a message. *)

\* The queue is a list, a packet exists only while it is sent, and every reference
\* to a message is accounted for.
HoldInv ==
    /\ Linked(queue)
    /\ refs \in [Messages -> Nat] /\ held \subseteq Messages
    /\ phase \in {"idle", "sending", "gone"}
    /\ batch \in Seq(Messages) /\ Len(batch) <= Batch /\ taken \in Seq(Messages)
    /\ phase # "sending" => batch = <<>>
    /\ peer \in Peers \cup {NULL} /\ served \in [Peers -> 0 .. 2]
    /\ source \in [write : BOOLEAN, timeout : BOOLEAN] /\ writable \subseteq Sockets
    /\ RefsExact

\* What waits and what was taken after the first n messages of s went out.
TakenFrom(s, n) ==
    /\ Contents(queue') = SubSeq(s, n + 1, Len(s))
    /\ taken' = taken \o SubSeq(s, 1, n)

\* The write callback on the queue q, when the references fit q.
LEMMA PacketHolds ==
    ASSUME HoldInv, phase = "idle", NEW q, Linked(q), NEW ready, WriteFds(q, ready),
           refs' \in [Messages -> Nat],
           \A m \in Messages : refs'[m] = (IF m \in held THEN 1 ELSE 0) + Count(m, Contents(q)),
           UNCHANGED <<held, table, writable>>, RoundInv'
    PROVE  /\ HoldInv'
           /\ \/ Contents(queue') = Contents(q) /\ taken' = taken
              \/ \E n \in 1 .. Batch : n <= Len(Contents(q)) /\ TakenFrom(Contents(q), n)
<1> DEFINE s == Contents(q)
           n == Share(q)
           out == [i \in 1 .. n |-> s[i]]
           rest == [i \in 1 .. Len(s) - n |-> s[i + n]]
<1>1. s \in Seq(Messages) /\ Len(s) = q.length /\ q.length \in Nat
  BY LinkedContents
<1>2. n \in Nat /\ n <= Len(s) /\ n <= Batch /\ (q.length > 0 => n > 0)
  BY <1>1, ShareBounds
<1>3. CASE /\ q.length > 0 /\ Linked(queue') /\ Contents(queue') = rest
           /\ batch' = out /\ taken' = taken \o out /\ phase' = "sending" /\ source' = source
  <2> HIDE DEF n, s
  <2>1. out \in Seq(Messages) /\ Len(out) = n
    BY <1>1, <1>2
  <2>2. \A m \in Messages : Count(m, s) = Count(m, out) + Count(m, rest)
    BY <1>1, <1>2, CountSplit
  <2>3. rest \in Seq(Messages)
    <3>1. Len(s) - n \in Nat /\ \A i \in 1 .. Len(s) - n : i + n \in 1 .. Len(s)
      BY <1>1, <1>2
    <3>2. \A i \in 1 .. Len(s) - n : s[i + n] \in Messages
      BY <1>1, <3>1
    <3> QED BY <3>1, <3>2
  <2>4. out = SubSeq(s, 1, n) /\ rest = SubSeq(s, n + 1, Len(s))
    BY <1>1, <1>2
  <2>5. RefsExact'
    <3> HIDE DEF out, rest
    <3> SUFFICES ASSUME NEW m \in Messages
                 PROVE  refs'[m] = (IF m \in held' THEN 1 ELSE 0)
                                   + Count(m, Contents(queue')) + Count(m, batch')
      BY DEF RefsExact
    <3>1. Count(m, out) \in Nat /\ Count(m, rest) \in Nat
      BY <2>1, <2>3, CountType
    <3>2. refs'[m] = (IF m \in held THEN 1 ELSE 0) + Count(m, s)
      BY DEF s
    <3> QED BY <1>3, <2>2, <3>1, <3>2
  <2>6. peer' \in Peers \cup {NULL} /\ served' \in [Peers -> 0 .. 2]
    BY <1>3 DEF RoundInv, Members
  <2>7. taken' \in Seq(Messages)
    <3> HIDE DEF out
    <3> QED BY <1>3, <2>1 DEF HoldInv
  <2>8. HoldInv'
    <3> HIDE DEF out, rest
    <3> QED BY <1>2, <1>3, <2>1, <2>5, <2>6, <2>7 DEF HoldInv
  <2>9. n \in 1 .. Batch /\ TakenFrom(s, n)
    <3> HIDE DEF out, rest
    <3>1. n \in 1 .. Batch
      BY <1>2, <1>3, OutgoingAssumption
    <3> QED BY <1>3, <2>4, <3>1 DEF TakenFrom
  <2> QED BY <1>2, <2>8, <2>9 DEF s
<1>4. CASE /\ queue' = q /\ UpdateRunloopSource(q)
           /\ UNCHANGED <<batch, taken, phase, peer, served>>
  <2>1. source' \in [write : BOOLEAN, timeout : BOOLEAN]
    BY <1>4 DEF UpdateRunloopSource
  <2>2. batch' = <<>> /\ \A m : Count(m, batch') = 0
    BY <1>4, CountEmpty DEF HoldInv
  <2>3. \A m \in Messages : Count(m, Contents(q)) \in Nat
    BY <1>1, CountType
  <2>4. RefsExact'
    BY <1>4, <2>2, <2>3 DEF RefsExact
  <2>5. HoldInv'
    BY <1>4, <2>1, <2>4 DEF HoldInv
  <2> QED BY <1>4, <2>5
<1> QED BY <1>1, <1>3, <1>4, WriteTakes

\* The equation of RefsExact, with its counts as numbers.
LEMMA CountsKept ==
    ASSUME HoldInv
    PROVE  \A m \in Messages : /\ Count(m, Contents(queue)) \in Nat /\ Count(m, batch) \in Nat
                               /\ refs[m] = (IF m \in held THEN 1 ELSE 0)
                                            + Count(m, Contents(queue)) + Count(m, batch)
<1>1. Contents(queue) \in Seq(Messages) /\ batch \in Seq(Messages)
  BY LinkedContents DEF HoldInv
<1> QED BY <1>1, CountType DEF HoldInv, RefsExact

\* Nothing refers to a message at the start.
LEMMA HoldInit == Init => HoldInv
<1> SUFFICES ASSUME Init PROVE HoldInv
  OBVIOUS
<1>1. Linked(queue) /\ Contents(queue) = <<>> /\ batch = <<>>
  BY CreateLinked, CreateContents DEF Init
<1>2. RefsExact
  <2>1. \A m : Count(m, Contents(queue)) = 0 /\ Count(m, batch) = 0
    BY <1>1, CountEmpty
  <2> QED BY <2>1 DEF Init, RefsExact
<1>3. source \in [write : BOOLEAN, timeout : BOOLEAN]
  BY DEF Init
<1>4. served \in [Peers -> 0 .. 2]
  BY DEF Init
<1>5. batch \in Seq(Messages) /\ Len(batch) <= Batch /\ taken \in Seq(Messages)
  BY OutgoingAssumption DEF Init
<1> QED BY <1>1, <1>2, <1>3, <1>4, <1>5 DEF Init, HoldInv

\* Sending a message, with or without memory for the queue's item.
LEMMA SendHolds ==
    ASSUME HoldInv, RoundInv', NEW m \in Messages, MIDIDriverAppleMIDISendMessage(m)
    PROVE  /\ HoldInv'
           /\ \/ Queue!Put(m) \/ \E n \in 1 .. Batch : Queue!PutTake(m, n) \/ Queue!Take(n)
              \/ UNCHANGED <<Contents(queue), taken>>
<1>1. Linked(queue) /\ phase = "idle" /\ UNCHANGED <<held, table, writable>>
  BY DEF HoldInv, MIDIDriverAppleMIDISendMessage
<1>2. /\ Contents(queue) \in Seq(Messages)
      /\ \A o \in Messages : /\ Count(o, Contents(queue)) \in Nat
                             /\ refs[o] = (IF o \in held THEN 1 ELSE 0) + Count(o, Contents(queue))
  <2>1. \A o : Count(o, batch) = 0
    BY <1>1, CountEmpty DEF HoldInv
  <2> QED BY <1>1, <2>1, CountsKept, LinkedContents
<1>3. ASSUME NEW c \in Cells \ queue.items,
             refs' = [refs EXCEPT ![m] = @ + 1],
             WriteFds(MIDIMessageQueuePush(queue, m, c), writable)
      PROVE  /\ HoldInv'
             /\ Queue!Put(m) \/ \E n \in 1 .. Batch : Queue!PutTake(m, n)
  <2> DEFINE q == MIDIMessageQueuePush(queue, m, c)
  <2>1. Linked(q) /\ Contents(q) = Append(Contents(queue), m)
    BY <1>1, PushAppends
  <2> HIDE DEF q
  <2>2. WriteFds(q, writable)
    BY <1>3 DEF q
  <2>3. refs' \in [Messages -> Nat] /\ \A o \in Messages : refs'[o] = refs[o] + IF m = o THEN 1 ELSE 0
    BY <1>3 DEF HoldInv
  <2>4. \A o \in Messages : refs'[o] = (IF o \in held THEN 1 ELSE 0) + Count(o, Contents(q))
    <3> TAKE o \in Messages
    <3>1. Count(o, Append(Contents(queue), m)) = Count(o, Contents(queue)) + IF m = o THEN 1 ELSE 0
      BY <1>2, CountAppend
    <3> QED BY <1>2, <2>1, <2>3, <3>1
  <2>5. /\ HoldInv'
        /\ \/ Contents(queue') = Contents(q) /\ taken' = taken
           \/ \E n \in 1 .. Batch : n <= Len(Contents(q)) /\ TakenFrom(Contents(q), n)
    BY <1>1, <2>1, <2>2, <2>3, <2>4, PacketHolds
  <2>6. ASSUME Contents(queue') = Contents(q), taken' = taken PROVE Queue!Put(m)
    BY <2>1, <2>6 DEF Queue!Put
  <2>7. ASSUME NEW n \in 1 .. Batch, n <= Len(Contents(q)), TakenFrom(Contents(q), n)
        PROVE  Queue!PutTake(m, n)
    <3>1. Len(Contents(q)) = Len(Contents(queue)) + 1
      BY <1>2, <2>1
    <3> QED BY <2>1, <2>7, <3>1 DEF Queue!PutTake, TakenFrom
  <2> QED BY <2>5, <2>6, <2>7
<1>4. ASSUME WriteFds(queue, writable), refs' = refs
      PROVE  /\ HoldInv'
             /\ UNCHANGED <<Contents(queue), taken>> \/ \E n \in 1 .. Batch : Queue!Take(n)
  <2>1. /\ HoldInv'
        /\ \/ Contents(queue') = Contents(queue) /\ taken' = taken
           \/ \E n \in 1 .. Batch : n <= Len(Contents(queue)) /\ TakenFrom(Contents(queue), n)
    <3>1. refs' \in [Messages -> Nat]
      BY <1>4 DEF HoldInv
    <3>2. \A o \in Messages : refs'[o] = (IF o \in held THEN 1 ELSE 0) + Count(o, Contents(queue))
      BY <1>2, <1>4
    <3> QED BY <1>1, <1>4, <3>1, <3>2, PacketHolds
  <2> QED BY <2>1 DEF Queue!Take, TakenFrom
<1>5. (\E c \in Cells \ queue.items : /\ refs' = [refs EXCEPT ![m] = @ + 1]
                                      /\ WriteFds(MIDIMessageQueuePush(queue, m, c), writable))
      \/ (WriteFds(queue, writable) /\ refs' = refs)
  BY DEF MIDIDriverAppleMIDISendMessage
<1> QED BY <1>3, <1>4, <1>5

\* What FIFO sees of a step: one of its own, or none.
QueueStep == [Queue!Next]_(Queue!fifo)

\* The write callback, from whoever calls it, without a new message.
LEMMA FlushHolds ==
    ASSUME HoldInv, RoundInv', phase = "idle", NEW ready, WriteFds(queue, ready),
           UNCHANGED <<refs, held, table, writable>>
    PROVE  HoldInv' /\ QueueStep
<1>1. Linked(queue) /\ refs' \in [Messages -> Nat]
  BY DEF HoldInv
<1>2. \A o \in Messages : refs'[o] = (IF o \in held THEN 1 ELSE 0) + Count(o, Contents(queue))
  <2>1. \A o : Count(o, batch) = 0
    BY CountEmpty DEF HoldInv
  <2> QED BY <2>1, CountsKept
<1>3. /\ HoldInv'
      /\ \/ Contents(queue') = Contents(queue) /\ taken' = taken
         \/ \E n \in 1 .. Batch : n <= Len(Contents(queue)) /\ TakenFrom(Contents(queue), n)
  BY <1>1, <1>2, PacketHolds
<1>4. ASSUME NEW n \in 1 .. Batch, n <= Len(Contents(queue)), TakenFrom(Contents(queue), n)
      PROVE  Queue!Take(n)
  BY <1>4 DEF Queue!Take, TakenFrom
<1> QED BY <1>3, <1>4 DEF QueueStep, Queue!Next, Queue!fifo

\* The other calls of the application and the handlers of the protocol.
LEMMA CallHolds ==
    ASSUME HoldInv, RoundInv', Application PROVE HoldInv' /\ QueueStep
<1>1. \A m \in Messages : /\ Count(m, Contents(queue)) \in Nat /\ Count(m, batch) \in Nat
                          /\ refs[m] = (IF m \in held THEN 1 ELSE 0)
                                       + Count(m, Contents(queue)) + Count(m, batch)
  BY CountsKept
<1>2. ASSUME NEW m \in Messages, MIDIMessageCreate(m) PROVE HoldInv' /\ QueueStep
  <2>1. /\ refs[m] = 0 /\ refs' = [refs EXCEPT ![m] = 1] /\ held' = held \cup {m}
        /\ UNCHANGED <<queue, table, phase, batch, peer, source, writable, taken, served>>
    BY <1>2 DEF MIDIMessageCreate
  <2>2. \A o \in Messages : refs'[o] = IF o = m THEN 1 ELSE refs[o]
    BY <2>1 DEF HoldInv
  <2>3. m \notin held
    BY <1>1, <2>1
  <2>4. RefsExact'
    BY <1>1, <2>1, <2>2, <2>3 DEF RefsExact
  <2>5. HoldInv'
    BY <2>1, <2>4 DEF HoldInv
  <2> QED BY <2>1, <2>5 DEF QueueStep, Queue!fifo
<1>3. ASSUME NEW m \in Messages, MIDIMessageRelease(m) PROVE HoldInv' /\ QueueStep
  <2>1. /\ m \in held /\ refs' = [refs EXCEPT ![m] = @ - 1] /\ held' = held \ {m}
        /\ UNCHANGED <<queue, table, phase, batch, peer, source, writable, taken, served>>
    BY <1>3 DEF MIDIMessageRelease
  <2>2. \A o \in Messages : refs'[o] = refs[o] - IF o = m THEN 1 ELSE 0
    BY <2>1 DEF HoldInv
  <2>3. RefsExact'
    BY <1>1, <2>1, <2>2 DEF RefsExact
  <2>4. refs' \in [Messages -> Nat]
    <3>1. refs[m] - 1 \in Nat
      BY <1>1, <2>1
    <3> QED BY <2>1, <3>1 DEF HoldInv
  <2>5. HoldInv'
    BY <2>1, <2>3, <2>4 DEF HoldInv
  <2> QED BY <2>1, <2>5 DEF QueueStep, Queue!fifo
<1>4. ASSUME NEW m \in Messages, MIDIDriverAppleMIDISendMessage(m) PROVE HoldInv' /\ QueueStep
  BY <1>4, SendHolds DEF QueueStep, Queue!Next, Queue!fifo
<1>5. CASE MIDIDriverAppleMIDISend
  BY <1>5, FlushHolds DEF MIDIDriverAppleMIDISend
<1>6. CASE MIDIDriverAppleMIDIDestroy
  <2>1. /\ phase = "idle" /\ phase' = "gone"
        /\ refs' = [m \in Messages |-> refs[m] - Count(m, Contents(queue))]
        /\ queue' = MIDIMessageQueueCreate
        /\ UNCHANGED <<held, batch, peer, source, writable, taken, served>>
    BY <1>6 DEF MIDIDriverAppleMIDIDestroy
  <2>2. Linked(queue') /\ Contents(queue') = <<>> /\ batch = <<>>
    BY <2>1, CreateLinked, CreateContents DEF HoldInv
  <2>3. \A m : Count(m, Contents(queue')) = 0
    BY <2>2, CountEmpty
  <2>4. RefsExact' /\ refs' \in [Messages -> Nat]
    BY <1>1, <2>1, <2>3 DEF RefsExact
  <2>5. HoldInv'
    BY <2>1, <2>2, <2>4 DEF HoldInv
  <2>6. Queue!Drop
    BY <2>1, <2>2 DEF Queue!Drop
  <2> QED BY <2>5, <2>6 DEF QueueStep, Queue!Next
<1>7. ASSUME NEW p \in Peers, Join(p) \/ Leave(p) PROVE HoldInv' /\ QueueStep
  BY <1>7 DEF Join, Leave, HoldInv, RefsExact, QueueStep, Queue!fifo
<1> QED BY <1>2, <1>3, <1>4, <1>5, <1>6, <1>7 DEF Application

\* The round of a packet, and its end: its messages are released.
LEMMA RoundHolds ==
    ASSUME HoldInv, RoundInv', Sending PROVE HoldInv' /\ QueueStep
<1>1. CASE SendPacket
  <2>1. /\ phase = "sending"
        /\ UNCHANGED <<queue, refs, held, table, phase, batch, source, writable, taken>>
    BY <1>1 DEF SendPacket
  <2>2. peer' \in Peers \cup {NULL} /\ served' \in [Peers -> 0 .. 2]
    BY <2>1 DEF RoundInv, Members
  <2>3. HoldInv'
    BY <2>1, <2>2 DEF HoldInv, RefsExact
  <2> QED BY <2>1, <2>3 DEF QueueStep, Queue!fifo
<1>2. CASE SendDone
  <2>1. /\ refs' = [m \in Messages |-> refs[m] - Count(m, batch)]
        /\ batch' = <<>> /\ phase' = "idle" /\ UpdateRunloopSource(queue)
        /\ UNCHANGED <<queue, held, table, peer, writable, taken, served>>
    BY <1>2 DEF SendDone
  <2>2. \A m : Count(m, batch') = 0
    BY <2>1, CountEmpty
  <2>3. RefsExact' /\ refs' \in [Messages -> Nat]
    BY CountsKept, <2>1, <2>2 DEF RefsExact
  <2>4. source' \in [write : BOOLEAN, timeout : BOOLEAN]
    BY <2>1 DEF UpdateRunloopSource
  <2>5. batch' \in Seq(Messages) /\ Len(batch') <= Batch
    BY <2>1, OutgoingAssumption
  <2>6. HoldInv'
    BY <2>1, <2>3, <2>4, <2>5 DEF HoldInv
  <2> QED BY <2>1, <2>6 DEF QueueStep, Queue!fifo
<1> QED BY <1>1, <1>2 DEF Sending

\* Any step.
LEMMA HoldStep ==
    ASSUME HoldInv, RoundInv', [Next]_vars PROVE HoldInv' /\ QueueStep
<1>1. CASE RunloopWrite
  BY <1>1, FlushHolds DEF RunloopWrite
<1>2. CASE Drain \/ (\E s \in Sockets : Fill(s)) \/ UNCHANGED vars
  <2>1. /\ UNCHANGED <<queue, refs, held, table, phase, batch, peer, source, taken, served>>
        /\ writable' \subseteq Sockets
    BY <1>2 DEF Drain, Fill, vars, HoldInv
  <2> QED BY <2>1 DEF HoldInv, RefsExact, QueueStep, Queue!fifo
<1> QED BY <1>1, <1>2, CallHolds, RoundHolds DEF Next

-----------------------------------------------------------------------------
(* The theorems about the queue. *)

\* The invariants together.
LEMMA HoldAlways == Spec => [](RoundInv /\ HoldInv)
<1>1. Init => RoundInv /\ Interested /\ HoldInv
  BY InitHolds, HoldInit
<1>2. RoundInv /\ Interested /\ HoldInv /\ [Next]_vars => (RoundInv /\ Interested /\ HoldInv)'
  BY NextHolds, HoldStep
<1> QED BY <1>1, <1>2, PTL DEF Spec

\* The counters of all messages are exact: a message that the application has, that
\* waits or that is in a packet is not freed, and one that nobody has is
\* (MIDIMessageQueuePush and Pop, the release after RTPMIDISessionSend).
THEOREM RefsCorrect == Spec => []RefsExact
<1>1. HoldInv => RefsExact
  BY DEF HoldInv
<1> QED BY HoldAlways, <1>1, PTL

\* All variables keep their types, and the records of the queue agree with its items.
THEOREM TypeCorrect == Spec => []TypeOK
<1>1. RoundInv /\ HoldInv => TypeOK
  BY LinkedContents DEF RoundInv, HoldInv, TypeOK
<1> QED BY HoldAlways, <1>1, PTL

\* The driver's outgoing path implements FIFO: messages leave the queue in the
\* order they entered it, each once, a packet at a time.
THEOREM QueueImplemented == Spec => ImplementsFIFO
<1>1. Init => Queue!Init
  BY CreateContents DEF Init, Queue!Init
<1>2. HoldInv /\ RoundInv' /\ [Next]_vars => [Queue!Next]_(Queue!fifo)
  BY HoldStep DEF QueueStep
<1> QED BY <1>1, <1>2, HoldAlways, PTL DEF Spec, ImplementsFIFO, Queue!Spec
=============================================================================
