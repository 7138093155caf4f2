---------------------------- MODULE LeastNumber ----------------------------
(* Loops. Those that stop at the first of some slots are modelled by the least
   number of a set (RTPPeerTable, Runloop), and it exists. Those that go on from
   what the round before left are modelled by recursive functions (Clock,
   MessageFormat, RTPMIDI, Device), and these have the values their equations
   ask for: over what gets smaller with each call, and over the number of the
   round. *)
EXTENDS Naturals, WellFoundedInduction, TLAPS

\* A set of natural numbers that is not empty has a least one.
LEMMA Least ==
    ASSUME NEW S, S \subseteq Nat, S # {}
    PROVE  \E n \in S : \A m \in S : n <= m
<1> DEFINE Less == OpToRel(<, Nat)
<1>1. \A m, n \in Nat : m < n => <<m, n>> \in Less
  BY DEF OpToRel
<1>2. IsWellFoundedOn(Less, Nat)
  BY NatLessThanWellFounded
<1> HIDE DEF Less
<1>3. PICK n \in S : \A m \in S : <<m, n>> \notin Less
  BY <1>2, WFMin
<1>4. \A m \in S : m \in Nat /\ n \in Nat
  OBVIOUS
<1>5. ASSUME NEW m \in S, m < n PROVE FALSE
  BY <1>1, <1>3, <1>4, <1>5
<1> QED BY <1>4, <1>5

-----------------------------------------------------------------------------
(* Recursive functions. *)

\* g is the recursive function that goes on from x to next[x], and on the way back
\* combines x with the value there.
Recursive(g, D, More, next, base, F) ==
    g = [x \in D |-> IF x \in More THEN F[<<x, g[next[x]]>>] ELSE base[x]]

\* A recursive function has the value its equation asks for, whenever each call it
\* makes is for something smaller: there is a function that solves the equation.
LEMMA Recursion ==
    ASSUME NEW D, NEW S, NEW More, NEW next \in [D -> D], NEW size \in [D -> Nat],
           NEW base \in [D -> S], NEW F \in [D \X S -> S],
           \A x \in D : x \in More => size[next[x]] < size[x]
    PROVE  \E g \in [D -> S] : Recursive(g, D, More, next, base, F)
<1> DEFINE Closed(R) ==
              /\ \A x \in D : x \notin More => <<x, base[x]>> \in R
              /\ \A x \in D, s \in S : x \in More /\ <<next[x], s>> \in R => <<x, F[<<x, s>>]>> \in R
           G == {p \in D \X S : \A R \in SUBSET (D \X S) : Closed(R) => p \in R}
           Only(x) == \E s \in S : <<x, s>> \in G /\ \A t \in S : <<x, t>> \in G => t = s
<1>1. G \subseteq D \X S
  OBVIOUS
<1>2. ASSUME NEW R \in SUBSET (D \X S), Closed(R) PROVE G \subseteq R
  BY <1>2
<1>3. ASSUME NEW x \in D, x \notin More PROVE <<x, base[x]>> \in G
  BY <1>3
<1>4. ASSUME NEW x \in D, NEW s \in S, x \in More, <<next[x], s>> \in G PROVE <<x, F[<<x, s>>]>> \in G
  BY <1>4
<1> HIDE DEF G
<1>5. ASSUME NEW x \in D, x \notin More PROVE Only(x)
  <2> DEFINE R == {p \in D \X S : p[1] = x => p[2] = base[x]}
  <2>1. Closed(R)
    BY <1>5
  <2>2. G \subseteq R
    <3>1. R \in SUBSET (D \X S)
      OBVIOUS
    <3> HIDE DEF R
    <3> QED BY <1>2, <2>1, <3>1
  <2>3. ASSUME NEW t \in S, <<x, t>> \in G PROVE t = base[x]
    BY <2>2, <2>3
  <2> QED BY <1>3, <1>5, <2>3
<1>6. ASSUME NEW x \in D, x \in More, Only(next[x]) PROVE Only(x)
  <2> PICK s \in S : <<next[x], s>> \in G /\ \A t \in S : <<next[x], t>> \in G => t = s
    BY <1>6
  <2> DEFINE R == {p \in G : p[1] = x => p[2] = F[<<x, s>>]}
  <2>1. ASSUME NEW y \in D, y \notin More PROVE <<y, base[y]>> \in R
    BY <1>3, <1>6, <2>1
  <2>2. ASSUME NEW y \in D, NEW t \in S, y \in More, <<next[y], t>> \in R PROVE <<y, F[<<y, t>>]>> \in R
    <3>1. <<next[y], t>> \in G
      BY <2>2
    <3>2. y = x => t = s
      BY <3>1
    <3>3. <<y, F[<<y, t>>]>> \in G
      BY <1>4, <2>2, <3>1
    <3> QED BY <3>2, <3>3
  <2>3. R \in SUBSET (D \X S)
    BY <1>1
  <2>4. G \subseteq R
    <3> HIDE DEF R
    <3> QED BY <1>2, <2>1, <2>2, <2>3
  <2>5. ASSUME NEW t \in S, <<x, t>> \in G PROVE t = F[<<x, s>>]
    BY <2>4, <2>5
  <2>6. <<x, F[<<x, s>>]>> \in G /\ F[<<x, s>>] \in S
    BY <1>4, <1>6
  <2> QED BY <2>5, <2>6
<1> HIDE DEF Only
<1>7. ASSUME NEW x \in D PROVE Only(x)
  <2> DEFINE Bad == {size[y] : y \in {z \in D : ~Only(z)}}
  <2>1. CASE Bad = {}
    BY <2>1
  <2>2. CASE Bad # {}
    <3>1. Bad \subseteq Nat
      OBVIOUS
    <3>2. PICK n \in Bad : \A m \in Bad : n <= m
      <4> HIDE DEF Bad
      <4> QED BY <2>2, <3>1, Least
    <3>3. PICK y \in D : ~Only(y) /\ size[y] = n
      BY <3>2
    <3>4. y \in More
      BY <1>5, <3>3
    <3>5. next[y] \in D /\ size[next[y]] < size[y] /\ size[next[y]] \in Nat /\ size[y] \in Nat
      BY <3>4
    <3>6. Only(next[y])
      <4>1. ASSUME ~Only(next[y]) PROVE FALSE
        <5>1. size[next[y]] \in Bad
          BY <4>1, <3>5
        <5>2. n <= size[next[y]] /\ n = size[y]
          BY <5>1, <3>2, <3>3
        <5> QED BY <5>2, <3>5
      <4> QED BY <4>1
    <3> QED BY <1>6, <3>3, <3>4, <3>6
  <2> QED BY <2>1, <2>2
<1> DEFINE g == [x \in D |-> CHOOSE s \in S : <<x, s>> \in G]
<1>8. ASSUME NEW x \in D PROVE g[x] \in S /\ <<x, g[x]>> \in G /\ \A t \in S : <<x, t>> \in G => t = g[x]
  BY <1>7 DEF Only
<1>9. g \in [D -> S]
  BY <1>8
<1>10. ASSUME NEW x \in D PROVE g[x] = IF x \in More THEN F[<<x, g[next[x]]>>] ELSE base[x]
  <2> HIDE DEF g
  <2>1. CASE x \in More
    <3>1. next[x] \in D /\ g[next[x]] \in S /\ <<next[x], g[next[x]]>> \in G
      BY <1>8
    <3>2. F[<<x, g[next[x]]>>] \in S /\ <<x, F[<<x, g[next[x]]>>]>> \in G
      BY <1>4, <2>1, <3>1
    <3> QED BY <1>8, <2>1, <3>2
  <2>2. CASE x \notin More
    BY <1>3, <1>8, <2>2
  <2> QED BY <2>1, <2>2
<1> HIDE DEF g
<1>11. g = [x \in D |-> g[x]]
  BY <1>9
<1>12. g = [x \in D |-> IF x \in More THEN F[<<x, g[next[x]]>>] ELSE base[x]]
  BY <1>10, <1>11
<1> QED BY <1>9, <1>12 DEF Recursive

\* What holds at 0, and goes from a number to the next one, holds up to N.
LEMMA UpTo ==
    ASSUME NEW N \in Nat, NEW P, 0 \in P, \A i \in 1 .. N : i - 1 \in P => i \in P
    PROVE  \A i \in 0 .. N : i \in P
<1> DEFINE Bad == {i \in 0 .. N : i \notin P}
<1>1. CASE Bad = {}
  BY <1>1
<1>2. CASE Bad # {}
  <2>1. Bad \subseteq Nat
    OBVIOUS
  <2>2. PICK n \in Bad : \A m \in Bad : n <= m
    <3> HIDE DEF Bad
    <3> QED BY <1>2, <2>1, Least
  <2>3. n \in 1 .. N /\ n \notin P
    BY <2>2
  <2>4. n - 1 \in 0 .. N /\ n - 1 \notin Bad
    <3>1. n - 1 \in 0 .. N /\ ~(n <= n - 1)
      BY <2>3
    <3> QED BY <2>2, <3>1
  <2> QED BY <2>3, <2>4
<1> QED BY <1>1, <1>2

\* g goes from base on by a rule F that knows the number of the step.
Iterates(g, N, base, F) == g = [i \in 0 .. N |-> IF i = 0 THEN base ELSE F[<<i, g[i - 1]>>]]

\* Such a function exists when the rule goes from one of the sets Inv to the next,
\* and its values are in these sets.
LEMMA Iteration ==
    ASSUME NEW N \in Nat, NEW Inv, NEW base \in Inv[0], NEW F,
           \A i \in 1 .. N : \A s \in Inv[i - 1] : F[<<i, s>>] \in Inv[i]
    PROVE  \E g : Iterates(g, N, base, F) /\ \A i \in 0 .. N : g[i] \in Inv[i]
<1> DEFINE D == 0 .. N
           S == UNION {Inv[i] : i \in D}
           More == 1 .. N
           next == [i \in D |-> IF i = 0 THEN 0 ELSE i - 1]
           size == [i \in D |-> i]
           first == [i \in D |-> base]
           G == [x \in D \X S |-> IF x[1] # 0 /\ x[2] \in Inv[x[1] - 1] THEN F[x] ELSE base]
<1>1. next \in [D -> D] /\ size \in [D -> Nat] /\ \A x \in D : x \in More => size[next[x]] < size[x]
  OBVIOUS
<1>2. base \in S /\ first \in [D -> S]
  OBVIOUS
<1>3. G \in [D \X S -> S]
  <2>1. ASSUME NEW i \in D, NEW s \in S, i # 0, s \in Inv[i - 1] PROVE F[<<i, s>>] \in S
    <3>1. i \in 1 .. N
      BY <2>1
    <3> QED BY <2>1, <3>1
  <2>2. ASSUME NEW x \in D \X S PROVE (IF x[1] # 0 /\ x[2] \in Inv[x[1] - 1] THEN F[x] ELSE base) \in S
    <3>1. x[1] \in D /\ x[2] \in S /\ x = <<x[1], x[2]>>
      OBVIOUS
    <3> HIDE DEF D, S
    <3> QED BY <1>2, <2>1, <3>1
  <2> HIDE DEF D, S
  <2> QED BY <2>2
<1>4. \A i \in D, s \in S : i # 0 /\ s \in Inv[i - 1] => G[<<i, s>>] = F[<<i, s>>]
  <2> HIDE DEF D, S
  <2> QED OBVIOUS
<1>5. PICK g \in [D -> S] : Recursive(g, D, More, next, first, G)
  <2> HIDE DEF D, S, More, next, size, first, G
  <2> QED BY <1>1, <1>2, <1>3, Recursion
<1>6. \A i \in D : g[i] = IF i = 0 THEN base ELSE G[<<i, g[i - 1]>>]
  <2>1. g = [x \in D |-> IF x \in More THEN G[<<x, g[next[x]]>>] ELSE first[x]]
    BY <1>5 DEF Recursive
  <2>2. \A x \in D : (x \in More <=> x # 0) /\ first[x] = base /\ (x # 0 => next[x] = x - 1)
    OBVIOUS
  <2> HIDE DEF D, S, More, next, first, G
  <2>3. ASSUME NEW i \in D PROVE g[i] = IF i = 0 THEN base ELSE G[<<i, g[i - 1]>>]
    <3>1. g[i] = IF i \in More THEN G[<<i, g[next[i]]>>] ELSE first[i]
      BY <2>1
    <3>2. CASE i = 0
      BY <2>2, <3>1, <3>2
    <3>3. CASE i # 0
      BY <2>2, <3>1, <3>3
    <3> QED BY <3>2, <3>3
  <2> QED BY <2>3
<1>7. \A i \in 0 .. N : g[i] \in Inv[i]
  <2> DEFINE P == {i \in 0 .. N : g[i] \in Inv[i]}
  <2>1. 0 \in P
    <3>1. 0 \in D /\ g[0] = base
      <4>1. 0 \in D
        OBVIOUS
      <4> HIDE DEF D, S, G
      <4> QED BY <1>6, <4>1
    <3> HIDE DEF G, S
    <3> QED BY <3>1
  <2>2. ASSUME NEW i \in 1 .. N, i - 1 \in P PROVE i \in P
    <3>1. i \in D /\ i # 0 /\ g[i - 1] \in Inv[i - 1] /\ g[i - 1] \in S
      BY <2>2
    <3>2. g[i] = F[<<i, g[i - 1]>>]
      <4> HIDE DEF D, S, G, P
      <4> QED BY <1>4, <1>6, <3>1
    <3>3. g[i] \in Inv[i]
      <4> HIDE DEF D, S, G, P
      <4> QED BY <3>1, <3>2
    <3> QED BY <3>3
  <2> HIDE DEF P
  <2>3. \A i \in 0 .. N : i \in P
    BY <2>1, <2>2, UpTo
  <2> QED BY <2>3 DEF P
<1>8. g = [i \in 0 .. N |-> IF i = 0 THEN base ELSE F[<<i, g[i - 1]>>]]
  <2>1. ASSUME NEW i \in 0 .. N PROVE g[i] = IF i = 0 THEN base ELSE F[<<i, g[i - 1]>>]
    <3>1. CASE i = 0
      BY <1>6, <3>1
    <3>2. CASE i # 0
      <4>1. i \in D /\ i - 1 \in 0 .. N
        BY <3>2
      <4>2. g[i - 1] \in Inv[i - 1]
        BY <1>7, <4>1
      <4>3. g[i - 1] \in S
        BY <4>1, <4>2
      <4> HIDE DEF D, S, G
      <4> QED BY <1>4, <1>6, <3>2, <4>1, <4>2, <4>3
    <3> QED BY <3>1, <3>2
  <2>2. g = [i \in 0 .. N |-> g[i]]
    <3>1. g \in [D -> S]
      BY <1>5
    <3> HIDE DEF S
    <3> QED BY <3>1
  <2> QED BY <2>1, <2>2
<1> HIDE DEF D, S, G
<1> QED BY <1>7, <1>8 DEF Iterates
=============================================================================
