---------------------------- MODULE DeviceProofs ----------------------------
(* All that the run of Device checks, for any clocks, controllers, timers and
   channels, any rates, any size of a batch and any calls.

   Counters: clocks are counted in ClockRefsExact, controllers and timers in
   RefsExact. Each is inductive with the types of what it speaks about. The
   counts are also why nobody but the driver changes its clock: who can name it
   is one owner more.
   Ticks: the loops over prime factors end, since each round makes its fraction
   smaller, and keep its value. CellInv says that every clock in use has the
   fraction of its rate, reduced or not, or stands still.
   Delivery: the message of a call says that call (CallSaid), a packet keeps its
   messages (PacketKept), and QueueInv says that the queue holds messages of
   calls, with times of the driver's clock in their order.
   Data entry: AllAgree says that the two bytes of every controller make the number
   of its history, and the lower one is below 128. *)
EXTENDS Device, RTPMIDIProofs, FiniteSetTheorems

ClockInv ==
    /\ refs \in [Clocks -> Int] /\ owned \in [Clocks -> Nat]
    /\ global \in Clocks \cup {NULL} /\ driver \in Clocks \cup {NULL}
    /\ ClockRefsExact

Receivers == [refs : Nat, base : Channels, timer : Timers \cup {NULL},
              slot : [Channels -> Controllers \cup {NULL}]]

ObjectInv == device \in Receivers /\ count \in [Objects -> Int] /\ RefsExact

-----------------------------------------------------------------------------
(* Fractions: the loops that reduce and divide them end, and leave their value. *)

\* Once round the loop that reduces a fraction.
Smaller(p, f) == [numer |-> f.numer \div p, denom |-> f.denom \div p]

\* What is divisible is divided exactly.
LEMMA Exact ==
    ASSUME NEW n \in Nat, NEW p \in Nat, p > 1, n % p = 0
    PROVE  n \div p \in Nat /\ n = p * (n \div p) /\ (n > 0 => (n \div p < n /\ n \div p > 0))
<1>1. n \div p \in Nat /\ n = p * (n \div p)
  BY SMT
<1> DEFINE m == n \div p
<1> HIDE DEF m
<1>2. m \in Nat /\ n = p * m
  BY <1>1 DEF m
<1>3. n > 0 => m > 0
  BY <1>2
<1>4. p * m = m + (p - 1) * m
  BY <1>2
<1>5. (p - 1) * m >= m
  BY <1>2
<1>6. n >= m + m
  BY <1>2, <1>4, <1>5
<1>7. n > 0 => m < n
  BY <1>2, <1>3, <1>6
<1> QED BY <1>2, <1>3, <1>7 DEF m

\* Both parts divided are a fraction again, with a smaller denominator.
LEMMA SmallerType ==
    ASSUME NEW p \in Nat, p > 1, NEW f \in Fractions, f.numer % p = 0, f.denom % p = 0
    PROVE  /\ Smaller(p, f) \in Fractions /\ Smaller(p, f).denom < f.denom
           /\ f.numer = p * Smaller(p, f).numer /\ f.denom = p * Smaller(p, f).denom
<1>1. f.numer \in Nat /\ f.denom \in Nat /\ f.denom > 0
  BY DEF Fractions
<1>2. f.numer \div p \in Nat /\ f.numer = p * (f.numer \div p)
  BY <1>1, Exact
<1>3. f.denom \div p \in Nat /\ f.denom = p * (f.denom \div p) /\ f.denom \div p < f.denom /\ f.denom \div p > 0
  BY <1>1, Exact
<1> QED BY <1>2, <1>3 DEF Smaller, Fractions

\* The loop that reduces a fraction ends: it is what its body says.
LEMMA ReduceLoop ==
    ASSUME NEW p \in Nat, p > 1, NEW f \in Fractions
    PROVE  Reduce(p, f) = IF f.numer % p = 0 /\ f.denom % p = 0 THEN Reduce(p, Smaller(p, f)) ELSE f
<1> DEFINE More == {g \in Fractions : g.numer % p = 0 /\ g.denom % p = 0}
           next == [g \in Fractions |-> IF g \in More THEN Smaller(p, g) ELSE g]
           size == [g \in Fractions |-> g.denom]
           base == [g \in Fractions |-> g]
           F == [q \in Fractions \X Fractions |-> q[2]]
           loop == CHOOSE h : h = [g \in Fractions |-> IF g.numer % p = 0 /\ g.denom % p = 0
                                                       THEN h[[numer |-> g.numer \div p, denom |-> g.denom \div p]]
                                                       ELSE g]
<1>1. \A g \in Fractions : Reduce(p, g) = loop[g]
  BY DEF Reduce
<1>2. next \in [Fractions -> Fractions] /\ \A g \in Fractions : g \in More => size[next[g]] < size[g]
  BY SmallerType
<1>3. size \in [Fractions -> Nat] /\ base \in [Fractions -> Fractions] /\ F \in [Fractions \X Fractions -> Fractions]
  BY DEF Fractions
<1>4. \E h \in [Fractions -> Fractions] : Recursive(h, Fractions, More, next, base, F)
  <2> HIDE DEF More, next, size, base, F
  <2> QED BY <1>2, <1>3, Recursion
<1> PICK h \in [Fractions -> Fractions] :
        h = [g \in Fractions |-> IF g \in More THEN F[<<g, h[next[g]]>>] ELSE base[g]]
  BY <1>4 DEF Recursive
<1>5. ASSUME NEW g \in Fractions
      PROVE  (IF g \in More THEN F[<<g, h[next[g]]>>] ELSE base[g]) =
             (IF g.numer % p = 0 /\ g.denom % p = 0
              THEN h[[numer |-> g.numer \div p, denom |-> g.denom \div p]] ELSE g)
  BY SmallerType DEF Smaller
<1>6. h = [g \in Fractions |-> IF g.numer % p = 0 /\ g.denom % p = 0
                               THEN h[[numer |-> g.numer \div p, denom |-> g.denom \div p]]
                               ELSE g]
  BY <1>5
<1>7. loop = [g \in Fractions |-> IF g.numer % p = 0 /\ g.denom % p = 0
                                  THEN loop[[numer |-> g.numer \div p, denom |-> g.denom \div p]]
                                  ELSE g]
  BY <1>6
<1> HIDE DEF loop
<1>8. loop[f] = IF f.numer % p = 0 /\ f.denom % p = 0
                THEN loop[[numer |-> f.numer \div p, denom |-> f.denom \div p]] ELSE f
  BY <1>7
<1> QED BY <1>1, <1>8, SmallerType DEF Smaller

\* g is f with a common factor taken out.
Reduced(f, g) ==
    g \in Fractions /\ \E k \in Nat \ {0} : f.numer = k * g.numer /\ f.denom = k * g.denom

\* Products of positive numbers, in another order.
LEMMA Products ==
    ASSUME NEW k \in Nat \ {0}, NEW l \in Nat \ {0}, NEW n \in Nat
    PROVE  /\ k * l \in Nat \ {0}
           /\ k * (l * n) = (k * l) * n /\ l * (k * n) = (k * l) * n
<1>1. k * l > 0
  BY SMT
<1>2. k * (l * n) = (k * l) * n /\ l * (k * n) = (k * l) * n
  BY SMT
<1> QED BY <1>1, <1>2

\* A common factor may be taken out bit by bit.
LEMMA ReducedFurther ==
    ASSUME NEW f, NEW g, NEW h, Reduced(f, g), Reduced(g, h)
    PROVE  Reduced(f, h)
<1>1. PICK k \in Nat \ {0} : f.numer = k * g.numer /\ f.denom = k * g.denom
  BY DEF Reduced
<1>2. PICK l \in Nat \ {0} : g.numer = l * h.numer /\ g.denom = l * h.denom
  BY DEF Reduced
<1>3. h \in Fractions /\ h.numer \in Nat /\ h.denom \in Nat
  BY DEF Reduced, Fractions
<1>4. k * l \in Nat \ {0} /\ f.numer = (k * l) * h.numer /\ f.denom = (k * l) * h.denom
  BY <1>1, <1>2, <1>3, Products
<1> QED BY <1>3, <1>4 DEF Reduced

\* So does the loop for a prime.
LEMMA ReduceReduces == ASSUME NEW p \in Nat, p > 1, NEW f \in Fractions PROVE Reduced(f, Reduce(p, f))
<1> DEFINE Bad == {g \in Fractions : ~Reduced(g, Reduce(p, g))}
           Sizes == {g.denom : g \in Bad}
<1>1. ASSUME NEW g \in Fractions, ~(g.numer % p = 0 /\ g.denom % p = 0) PROVE g \notin Bad
  <2>1. Reduce(p, g) = g
    BY <1>1, ReduceLoop
  <2>2. g.numer = 1 * g.numer /\ g.denom = 1 * g.denom
    BY DEF Fractions
  <2>3. Reduced(g, g)
    BY <2>2 DEF Reduced
  <2> QED BY <2>1, <2>3
<1>2. ASSUME NEW g \in Bad PROVE Smaller(p, g) \in Bad /\ Smaller(p, g).denom < g.denom
  <2>1. g \in Fractions /\ g.numer % p = 0 /\ g.denom % p = 0
    BY <1>1
  <2>2. /\ Smaller(p, g) \in Fractions /\ Smaller(p, g).denom < g.denom
        /\ g.numer = p * Smaller(p, g).numer /\ g.denom = p * Smaller(p, g).denom
    BY <2>1, SmallerType
  <2>3. Reduced(g, Smaller(p, g))
    BY <2>2 DEF Reduced
  <2>4. Reduce(p, g) = Reduce(p, Smaller(p, g))
    BY <2>1, ReduceLoop
  <2> QED BY <2>2, <2>3, <2>4, ReducedFurther
<1>3. Sizes \subseteq Nat
  BY DEF Fractions
<1>4. CASE f \in Bad
  <2>1. Sizes # {}
    BY <1>4
  <2>2. PICK n \in Sizes : \A m \in Sizes : n <= m
    <3> HIDE DEF Sizes
    <3> QED BY <1>3, <2>1, Least
  <2>3. PICK g \in Bad : g.denom = n
    BY <2>2
  <2>4. Smaller(p, g).denom \in Sizes /\ Smaller(p, g).denom < n
    BY <1>2, <2>3
  <2> DEFINE m == Smaller(p, g).denom
  <2> HIDE DEF Sizes, m
  <2>5. m \in Nat /\ n \in Nat /\ m < n /\ n <= m
    BY <1>3, <2>2, <2>4 DEF m
  <2> QED BY <2>5
<1> QED BY <1>4

\* Normalizing a fraction takes out a common factor and leaves its value.
LEMMA NormalizeReduces == ASSUME NEW f \in Fractions PROVE Reduced(f, NormalizeFrac(f))
<1> DEFINE a == Reduce(7, f)
           b == Reduce(5, a)
           c == Reduce(3, b)
           d == Reduce(2, c)
<1>1. Reduced(f, a) /\ a \in Fractions
  BY ReduceReduces DEF Reduced
<1>2. Reduced(a, b) /\ b \in Fractions
  <2> HIDE DEF a
  <2> QED BY <1>1, ReduceReduces DEF Reduced
<1>3. Reduced(b, c) /\ c \in Fractions
  <2> HIDE DEF b
  <2> QED BY <1>2, ReduceReduces DEF Reduced
<1>4. Reduced(c, d)
  <2> HIDE DEF c
  <2> QED BY <1>3, ReduceReduces DEF Reduced
<1>5. Reduced(f, d)
  <2> HIDE DEF a, b, c, d
  <2>1. Reduced(f, b)
    BY <1>1, <1>2, ReducedFurther
  <2>2. Reduced(f, c)
    BY <1>3, <2>1, ReducedFurther
  <2> QED BY <1>4, <2>2, ReducedFurther
<1> QED BY <1>5 DEF NormalizeFrac

\* Once round the loop that divides a fraction.
Onward(p, f) ==
    IF f.numer % p = 0
    THEN [numer |-> f.numer \div p, denom |-> f.denom, fac |-> f.fac \div p]
    ELSE [numer |-> f.numer, denom |-> f.denom * p, fac |-> f.fac \div p]

\* Of the factor that f still has, one part has gone into the numerator of g and
\* another one to its denominator.
Divided(f, g) ==
    /\ g \in Divisions
    /\ \E a, b \in Nat \ {0} : f.fac = (a * b) * g.fac /\ f.numer = a * g.numer /\ g.denom = b * f.denom

\* Once round the loop, and less of the factor is left.
LEMMA OnwardDivides ==
    ASSUME NEW p \in Nat, p > 1, NEW f \in Divisions, f.fac % p = 0
    PROVE  Onward(p, f) \in Divisions /\ Onward(p, f).fac < f.fac /\ Divided(f, Onward(p, f))
<1>1. f.numer \in Nat /\ f.denom \in Nat /\ f.denom > 0 /\ f.fac \in Nat /\ f.fac > 0
  BY DEF Divisions
<1>2. f.fac \div p \in Nat /\ f.fac = p * (f.fac \div p) /\ f.fac \div p < f.fac /\ f.fac \div p > 0
  BY <1>1, Exact
<1>3. (p * 1) * (f.fac \div p) = p * (f.fac \div p) /\ (1 * p) * (f.fac \div p) = p * (f.fac \div p)
  BY <1>2
<1>4. CASE f.numer % p = 0
  <2>1. f.numer \div p \in Nat /\ f.numer = p * (f.numer \div p)
    BY <1>1, <1>4, Exact
  <2>2. Onward(p, f) = [numer |-> f.numer \div p, denom |-> f.denom, fac |-> f.fac \div p]
    BY <1>4 DEF Onward
  <2>3. Onward(p, f) \in Divisions /\ Onward(p, f).fac < f.fac
    BY <1>1, <1>2, <2>1, <2>2 DEF Divisions
  <2>4. /\ f.fac = (p * 1) * Onward(p, f).fac /\ f.numer = p * Onward(p, f).numer
        /\ Onward(p, f).denom = 1 * f.denom
    BY <1>1, <1>2, <1>3, <2>1, <2>2
  <2> QED BY <2>3, <2>4 DEF Divided
<1>5. CASE f.numer % p # 0
  <2>1. Onward(p, f) = [numer |-> f.numer, denom |-> f.denom * p, fac |-> f.fac \div p]
    BY <1>5 DEF Onward
  <2>2. f.denom * p \in Nat /\ f.denom * p > 0 /\ f.denom * p = p * f.denom
    BY <1>1
  <2>3. Onward(p, f) \in Divisions /\ Onward(p, f).fac < f.fac
    BY <1>1, <1>2, <2>1, <2>2 DEF Divisions
  <2>4. /\ f.fac = (1 * p) * Onward(p, f).fac /\ f.numer = 1 * Onward(p, f).numer
        /\ Onward(p, f).denom = p * f.denom
    BY <1>1, <1>2, <1>3, <2>1, <2>2
  <2> QED BY <2>3, <2>4 DEF Divided
<1> QED BY <1>4, <1>5

\* The loop that divides a fraction ends: it is what its body says.
LEMMA DivideLoop ==
    ASSUME NEW p \in Nat, p > 1, NEW f \in Divisions
    PROVE  Divide(p, f) = IF f.fac % p = 0 THEN Divide(p, Onward(p, f)) ELSE f
<1> DEFINE More == {g \in Divisions : g.fac % p = 0}
           next == [g \in Divisions |-> IF g \in More THEN Onward(p, g) ELSE g]
           size == [g \in Divisions |-> g.fac]
           base == [g \in Divisions |-> g]
           F == [q \in Divisions \X Divisions |-> q[2]]
           Body(h) == [g \in Divisions |->
                          IF g.fac % p = 0
                          THEN h[IF g.numer % p = 0
                                 THEN [numer |-> g.numer \div p, denom |-> g.denom, fac |-> g.fac \div p]
                                 ELSE [numer |-> g.numer, denom |-> g.denom * p, fac |-> g.fac \div p]]
                          ELSE g]
           loop == CHOOSE h : h = Body(h)
<1>1. \A g \in Divisions : Divide(p, g) = loop[g]
  BY DEF Divide
<1>2. next \in [Divisions -> Divisions] /\ \A g \in Divisions : g \in More => size[next[g]] < size[g]
  BY OnwardDivides
<1>3. size \in [Divisions -> Nat] /\ base \in [Divisions -> Divisions] /\ F \in [Divisions \X Divisions -> Divisions]
  BY DEF Divisions
<1>4. \E h \in [Divisions -> Divisions] : Recursive(h, Divisions, More, next, base, F)
  <2> HIDE DEF More, next, size, base, F
  <2> QED BY <1>2, <1>3, Recursion
<1> PICK h \in [Divisions -> Divisions] :
        h = [g \in Divisions |-> IF g \in More THEN F[<<g, h[next[g]]>>] ELSE base[g]]
  BY <1>4 DEF Recursive
<1>5. ASSUME NEW g \in Divisions
      PROVE  (IF g \in More THEN F[<<g, h[next[g]]>>] ELSE base[g]) =
             (IF g.fac % p = 0
              THEN h[IF g.numer % p = 0
                     THEN [numer |-> g.numer \div p, denom |-> g.denom, fac |-> g.fac \div p]
                     ELSE [numer |-> g.numer, denom |-> g.denom * p, fac |-> g.fac \div p]]
              ELSE g)
  BY OnwardDivides DEF Onward
<1>6. h = Body(h)
  BY <1>5
<1>7. loop = Body(loop)
  <2> HIDE DEF Body
  <2> QED BY <1>6
<1> HIDE DEF loop
<1>8. loop[f] = IF f.fac % p = 0 THEN loop[Onward(p, f)] ELSE f
  BY <1>7 DEF Onward
<1> QED BY <1>1, <1>8, OnwardDivides

\* Products of four numbers, in another order.
LEMMA FourProducts ==
    ASSUME NEW a \in Nat \ {0}, NEW b \in Nat \ {0}, NEW c \in Nat \ {0}, NEW d \in Nat \ {0}, NEW n \in Nat
    PROVE  /\ a * c \in Nat \ {0} /\ b * d \in Nat \ {0}
           /\ (a * b) * ((c * d) * n) = ((a * c) * (b * d)) * n
           /\ a * (c * n) = (a * c) * n /\ d * (b * n) = (b * d) * n
<1>1. a * c \in Nat \ {0} /\ b * d \in Nat \ {0} /\ a * b \in Nat \ {0} /\ c * d \in Nat \ {0}
  BY Products
<1>2. a * (c * n) = (a * c) * n /\ d * (b * n) = (b * d) * n
  BY Products
<1>3. (a * b) * (c * d) = (a * c) * (b * d)
  BY SMT
<1>4. (a * b) * ((c * d) * n) = ((a * b) * (c * d)) * n
  BY <1>1, Products
<1> QED BY <1>1, <1>2, <1>3, <1>4

\* A factor may be divided by in parts.
LEMMA DividedFurther == ASSUME NEW f \in Divisions, NEW g, NEW h, Divided(f, g), Divided(g, h) PROVE Divided(f, h)
<1>1. PICK a, b \in Nat \ {0} : f.fac = (a * b) * g.fac /\ f.numer = a * g.numer /\ g.denom = b * f.denom
  BY DEF Divided
<1>2. PICK c, d \in Nat \ {0} : g.fac = (c * d) * h.fac /\ g.numer = c * h.numer /\ h.denom = d * g.denom
  BY DEF Divided
<1>3. h \in Divisions /\ h.numer \in Nat /\ h.fac \in Nat /\ f.denom \in Nat
  BY DEF Divided, Divisions
<1>4. a * c \in Nat \ {0} /\ b * d \in Nat \ {0}
  BY FourProducts
<1>5. f.fac = ((a * c) * (b * d)) * h.fac
  BY <1>1, <1>2, <1>3, FourProducts
<1>6. f.numer = (a * c) * h.numer /\ h.denom = (b * d) * f.denom
  BY <1>1, <1>2, <1>3, FourProducts
<1> QED BY <1>3, <1>4, <1>5, <1>6 DEF Divided

\* The loop for a prime divides by a part of the factor.
LEMMA DivideDivides == ASSUME NEW p \in Nat, p > 1, NEW f \in Divisions PROVE Divided(f, Divide(p, f))
<1> DEFINE Bad == {g \in Divisions : ~Divided(g, Divide(p, g))}
           Sizes == {g.fac : g \in Bad}
<1>1. ASSUME NEW g \in Divisions, g.fac % p # 0 PROVE g \notin Bad
  <2>1. Divide(p, g) = g
    BY <1>1, DivideLoop
  <2>2. g.fac = (1 * 1) * g.fac /\ g.numer = 1 * g.numer /\ g.denom = 1 * g.denom
    BY DEF Divisions
  <2>3. Divided(g, g)
    BY <2>2 DEF Divided
  <2> QED BY <2>1, <2>3
<1>2. ASSUME NEW g \in Bad PROVE Onward(p, g) \in Bad /\ Onward(p, g).fac < g.fac
  <2>1. g \in Divisions /\ g.fac % p = 0
    BY <1>1
  <2>2. Onward(p, g) \in Divisions /\ Onward(p, g).fac < g.fac /\ Divided(g, Onward(p, g))
    BY <2>1, OnwardDivides
  <2>3. Divide(p, g) = Divide(p, Onward(p, g))
    BY <2>1, DivideLoop
  <2> QED BY <2>1, <2>2, <2>3, DividedFurther
<1>3. Sizes \subseteq Nat
  BY DEF Divisions
<1>4. CASE f \in Bad
  <2>1. Sizes # {}
    BY <1>4
  <2>2. PICK n \in Sizes : \A m \in Sizes : n <= m
    <3> HIDE DEF Sizes
    <3> QED BY <1>3, <2>1, Least
  <2>3. PICK g \in Bad : g.fac = n
    BY <2>2
  <2>4. Onward(p, g).fac \in Sizes /\ Onward(p, g).fac < n
    BY <1>2, <2>3
  <2> DEFINE m == Onward(p, g).fac
  <2> HIDE DEF Sizes, m
  <2>5. m \in Nat /\ n \in Nat /\ m < n /\ n <= m
    BY <1>3, <2>2, <2>4 DEF m
  <2> QED BY <2>5
<1> QED BY <1>4

\* Dividing a fraction by a factor divides it by all of the factor.
LEMMA DivideAllDivides ==
    ASSUME NEW f \in Fractions, NEW fac \in Nat \ {0}
    PROVE  Divided([numer |-> f.numer, denom |-> f.denom, fac |-> fac], DivideAll(f, fac))
<1> DEFINE o == [numer |-> f.numer, denom |-> f.denom, fac |-> fac]
           a == Divide(7, o)
           b == Divide(5, a)
           c == Divide(3, b)
           d == Divide(2, c)
<1>0. o \in Divisions
  BY DEF Fractions, Divisions
<1>1. Divided(o, a) /\ a \in Divisions
  <2> HIDE DEF o
  <2> QED BY <1>0, DivideDivides DEF Divided
<1>2. Divided(a, b) /\ b \in Divisions
  <2> HIDE DEF a
  <2> QED BY <1>1, DivideDivides DEF Divided
<1>3. Divided(b, c) /\ c \in Divisions
  <2> HIDE DEF b
  <2> QED BY <1>2, DivideDivides DEF Divided
<1>4. Divided(c, d)
  <2> HIDE DEF c
  <2> QED BY <1>3, DivideDivides DEF Divided
<1>5. Divided(o, d)
  <2> HIDE DEF o, a, b, c, d
  <2>1. Divided(o, b)
    BY <1>0, <1>1, <1>2, DividedFurther
  <2>2. Divided(o, c)
    BY <1>0, <1>3, <2>1, DividedFurther
  <2> QED BY <1>0, <1>4, <2>2, DividedFurther
<1> QED BY <1>5 DEF DivideAll

\* What rounding down does.
LEMMA Floor ==
    ASSUME NEW t \in Int, NEW d \in Nat \ {0}
    PROVE  t \div d \in Int /\ (t \div d) * d <= t /\ t < (t \div d) * d + d
BY SMT

\* A positive factor of both sides of a comparison.
LEMMA Cancel ==
    ASSUME NEW a \in Int, NEW b \in Int, NEW c \in Nat \ {0}
    PROVE  /\ a * c < b * c => a < b
           /\ a * c <= b * c => a <= b
           /\ a * c = b * c => a = b
           /\ a < b => a * c < b * c
           /\ a <= b => a * c <= b * c
BY SMT

\* The new fraction makes its rate of ticks in a second: numbers.
LEMMA RateKept ==
    ASSUME NEW a \in Nat \ {0}, NEW b \in Nat \ {0}, NEW fac \in Nat \ {0}, NEW n \in Nat
    PROVE  (b * fac) * (a * n) = n * ((a * b) * fac)
<1>1. (b * fac) * (a * n) = ((b * fac) * a) * n
  BY Products
<1>2. (b * fac) * a = a * (b * fac) /\ a * (b * fac) = (a * b) * fac
  BY Products
<1>3. (a * b) * fac \in Nat
  BY Products
<1> QED BY <1>1, <1>2, <1>3

ClockMembers == [rate : Nat \ {0}, numer : Nat, denom : Nat \ {0}, offset : Int]

\* A clock that runs makes its rate of ticks in a second; and no second has more
\* units than UsecPerSec.
Ticks(k) ==
    /\ k \in ClockMembers /\ k.denom <= UsecPerSec
    /\ k.numer = 0 \/ k.numer * UsecPerSec = k.denom * k.rate

\* The set-up of a clock, before it is normalized.
LEMMA MultiplyTicks ==
    ASSUME NEW r \in Nat \ {0}
    PROVE  LET m == MultiplyFrac([numer |-> 1, denom |-> UsecPerSec], r)
           IN  /\ m \in Fractions /\ m.numer > 0 /\ m.denom <= UsecPerSec
               /\ m.numer * UsecPerSec = m.denom * r
<1> DEFINE f == [numer |-> UsecPerSec, denom |-> 1]
           o == [numer |-> UsecPerSec, denom |-> 1, fac |-> r]
           q == DivideAll(f, r)
           m == MultiplyFrac([numer |-> 1, denom |-> UsecPerSec], r)
           U == UsecPerSec
<1>1. U \in Nat \ {0}
  BY ClockAssumption
<1>2. Divided(o, q)
  <2>1. f \in Fractions /\ f.numer = UsecPerSec /\ f.denom = 1
    BY <1>1 DEF Fractions
  <2> HIDE DEF f, q
  <2>2. Divided([numer |-> f.numer, denom |-> f.denom, fac |-> r], DivideAll(f, r))
    BY <2>1, DivideAllDivides
  <2> QED BY <2>1, <2>2 DEF q
<1>3. m = [numer |-> q.denom * q.fac, denom |-> q.numer]
  BY DEF MultiplyFrac, DivideFrac
<1> HIDE DEF q, m, U
<1>4. PICK a, b \in Nat \ {0} : r = (a * b) * q.fac /\ U = a * q.numer /\ q.denom = b * 1
  BY <1>2 DEF Divided, U
<1>5. q.numer \in Nat /\ q.fac \in Nat \ {0} /\ q.denom = b
  BY <1>2, <1>4 DEF Divided, Divisions
<1> DEFINE n == q.numer
           e == q.fac
<1>6. m = [numer |-> b * e, denom |-> n]
  BY <1>3, <1>5
<1>7. r = (a * b) * e /\ U = a * n /\ n \in Nat /\ e \in Nat \ {0}
  BY <1>4, <1>5
<1> HIDE DEF n, e
<1>8. b * e \in Nat \ {0}
  BY <1>7, Products
<1>9. n > 0
  BY <1>1, <1>7
<1>10. n <= a * n
  BY <1>7
<1>11. (b * e) * U = n * r
  BY <1>7, RateKept
<1>12. m \in Fractions /\ m.numer = b * e /\ m.denom = n
  BY <1>6, <1>7, <1>8, <1>9 DEF Fractions
<1>13. m.numer > 0 /\ m.denom <= U /\ m.numer * U = m.denom * r
  BY <1>7, <1>8, <1>10, <1>11, <1>12
<1> QED BY <1>12, <1>13 DEF m, U

\* Less of both parts makes the same rate.
LEMMA ReducedRate ==
    ASSUME NEW k \in Nat \ {0}, NEW n \in Nat, NEW d \in Nat, NEW U \in Nat \ {0}, NEW r \in Nat,
           (k * n) * U = (k * d) * r
    PROVE  n * U = d * r /\ d <= k * d
<1>1. (k * n) * U = (n * U) * k /\ (k * d) * r = (d * r) * k /\ n * U \in Int /\ d * r \in Int
  BY SMT
<1>2. n * U = d * r
  BY <1>1, Cancel
<1>3. d <= k * d
  BY SMT
<1> QED BY <1>2, <1>3

\* A clock as it is created.
LEMMA NewTicks == ASSUME NEW rate \in Nat, time \in Nat PROVE Ticks(NewClock(rate)) /\ NewClock(rate).numer > 0
<1> DEFINE U == UsecPerSec
           r == IF rate = 0 THEN U ELSE rate
           m == MultiplyFrac([numer |-> 1, denom |-> UsecPerSec], r)
           f == NormalizeFrac(m)
<1>1. U \in Nat \ {0} /\ r \in Nat \ {0}
  BY ClockAssumption
<1>2. NewClock(rate) = [rate |-> r, numer |-> f.numer, denom |-> f.denom, offset |-> -GetRealTime(f)]
  BY DEF NewClock
<1> HIDE DEF r
<1>3. m \in Fractions /\ m.numer > 0 /\ m.denom <= U /\ m.numer * U = m.denom * r
  BY <1>1, MultiplyTicks
<1> HIDE DEF U, m
<1>4. Reduced(m, f)
  BY <1>3, NormalizeReduces
<1> HIDE DEF f
<1>5. PICK k \in Nat \ {0} : m.numer = k * f.numer /\ m.denom = k * f.denom
  BY <1>4 DEF Reduced
<1>6. f.numer \in Nat /\ f.denom \in Nat \ {0}
  BY <1>4 DEF Reduced, Fractions
<1>7. (k * f.numer) * U = (k * f.denom) * r
  BY <1>3, <1>5
<1>8. f.numer * U = f.denom * r /\ f.denom <= k * f.denom
  <2> DEFINE n == f.numer
             d == f.denom
  <2>1. n \in Nat /\ d \in Nat /\ r \in Nat /\ (k * n) * U = (k * d) * r
    BY <1>1, <1>6, <1>7
  <2> HIDE DEF n, d
  <2>2. n * U = d * r /\ d <= k * d
    BY <1>1, <2>1, ReducedRate
  <2> QED BY <2>2 DEF n, d
<1>9. f.numer > 0
  <2>1. f.numer = 0 => m.numer = 0
    BY <1>5
  <2> QED BY <1>3, <1>6, <2>1
<1>10. f.denom <= U
  BY <1>3, <1>5, <1>6, <1>8, <1>1
<1>11. GetRealTime(f) \in Int
  <2>1. time * f.numer \in Int
    BY <1>6
  <2> QED BY <1>6, <2>1, Floor DEF GetRealTime
<1>12. NewClock(rate) \in ClockMembers
  BY <1>1, <1>2, <1>6, <1>11 DEF ClockMembers
<1> QED BY <1>2, <1>8, <1>9, <1>10, <1>12 DEF Ticks, U

\* A quotient of two numbers of which the first is not the greater one.
LEMMA Quotient ==
    ASSUME NEW n \in Nat, NEW r \in Nat \ {0}, n <= r
    PROVE  n \div r = IF n = r THEN 1 ELSE 0
BY SMT

\* A fraction of at most a second has at most the rate as its numerator.
LEMMA NumerAtMostRate ==
    ASSUME NEW n \in Nat, NEW d \in Nat \ {0}, NEW r \in Nat \ {0}, NEW U \in Nat \ {0},
           d <= U, n * U = d * r
    PROVE  n <= r /\ (n = r => d = U)
<1>1. d * r <= U * r /\ U * r = r * U
  BY Cancel
<1>2. n * U <= r * U
  BY <1>1
<1>3. n <= r
  BY <1>2, Cancel
<1>4. ASSUME n = r PROVE d = U
  <2>1. U * r = d * r
    BY <1>1, <1>4
  <2> QED BY <2>1, Cancel
<1> QED BY <1>3, <1>4

\* A clock that gets another rate keeps the ratio or stands still.
LEMMA SetRateTicks ==
    ASSUME NEW k, Ticks(k), NEW rate \in Nat \ {0}
    PROVE  Ticks([k EXCEPT !.numer = (@ \div k.rate) * rate, !.rate = rate])
<1> DEFINE n == k.numer
           d == k.denom
           r == k.rate
           U == UsecPerSec
           q == n \div r
           l == [k EXCEPT !.numer = (@ \div k.rate) * rate, !.rate = rate]
<1>1. n \in Nat /\ d \in Nat \ {0} /\ r \in Nat \ {0} /\ k.offset \in Int /\ U \in Nat \ {0} /\ d <= U
  BY ClockAssumption DEF Ticks, ClockMembers
<1>2. l.rate = rate /\ l.numer = q * rate /\ l.denom = d
  BY DEF Ticks, ClockMembers
<1>3. q * rate \in Nat => l \in ClockMembers
  BY DEF Ticks, ClockMembers
<1>9. n = 0 \/ n * U = d * r
  BY DEF Ticks
<1> HIDE DEF n, d, r, U, l
<1>4. q = 0 \/ (q = 1 /\ d = U)
  <2>1. CASE n = 0
    BY <1>1, <2>1, Quotient
  <2>2. CASE n * U = d * r
    <3>1. n <= r /\ (n = r => d = U)
      BY <1>1, <2>2, NumerAtMostRate
    <3> QED BY <1>1, <3>1, Quotient
  <2> QED BY <1>9, <2>1, <2>2
<1> HIDE DEF q
<1>5. q * rate \in Nat
  BY <1>4
<1>6. l \in ClockMembers /\ l.numer = q * rate /\ l.denom = d /\ l.rate = rate
  BY <1>2, <1>3, <1>5
<1>7. q * rate = 0 \/ (q * rate) * U = d * rate
  BY <1>1, <1>4
<1>8. Ticks(l)
  BY <1>1, <1>6, <1>7 DEF Ticks, U
<1> QED BY <1>8 DEF l

\* A clock that is set only has another offset.
LEMMA SetNowTicks ==
    ASSUME NEW k, Ticks(k), NEW offset \in Int
    PROVE  Ticks([k EXCEPT !.offset = offset])
BY DEF Ticks, ClockMembers

-----------------------------------------------------------------------------
(* The counters of clocks. *)

\* At the start nobody owns a clock.
LEMMA ClockInitHolds == ClockInit => ClockInv
BY ClockAssumption DEF ClockInit, ClockInv, ClockRefsExact, One

\* A clock that is asked for belongs to the global pointer as well, if it is the
\* first one.
LEMMA ProvideHolds ==
    ASSUME ClockInv, NEW c \in Clocks, NEW rate, MIDIClockProvide(c, rate)
    PROVE  /\ refs' \in [Clocks -> Int] /\ global' \in Clocks \cup {NULL}
           /\ \A d \in Clocks : refs'[d] = owned[d] + One(d = global') + One(d = driver) + One(d = c)
<1> USE ClockAssumption DEF ClockInv, ClockRefsExact, MIDIClockProvide, One
<1>1. CASE refs[c] = 0 /\ global = NULL
  <2>1. refs' = [refs EXCEPT ![c] = 2] /\ global' = c
    BY <1>1 DEF Offered
  <2>2. refs[c] = owned[c] + One(c = global) + One(c = driver)
    OBVIOUS
  <2> QED BY <1>1, <2>1, <2>2
<1>2. CASE refs[c] = 0 /\ global # NULL /\ ~Offered(rate)
  <2>1. refs' = [refs EXCEPT ![c] = 1] /\ global' = global
    BY <1>2 DEF Offered
  <2> QED BY <1>2, <2>1
<1>3. CASE c = global /\ refs' = [refs EXCEPT ![c] = @ + 1] /\ UNCHANGED global
  BY <1>3
<1> QED BY <1>1, <1>2, <1>3

\* A call of the application.
LEMMA ClockCallHolds == ASSUME ClockInv, ClockCall PROVE ClockInv'
<1> USE ClockAssumption DEF ClockInv, ClockRefsExact, One
<1> PICK c \in Clocks :
       \/ \E rate \in Rates : MIDIClockCreate(c, rate) \/ Provide(c, rate)
       \/ MIDIClockRetain(c) \/ MIDIClockRelease(c)
       \/ MIDIClockGetGlobalClock(c)
       \/ \E arg \in {c, NULL} :
             \/ MIDIClockSetGlobalClock(arg)
             \/ \E now \in Nows : MIDIClockSetNow(arg, c, now)
             \/ \E rate \in Rates \ {0} : MIDIClockSetSamplingRate(arg, c, rate)
  BY DEF ClockCall
<1>1. ASSUME NEW rate, MIDIClockCreate(c, rate) PROVE ClockInv'
  BY <1>1 DEF MIDIClockCreate
<1>2. ASSUME NEW rate, Provide(c, rate) PROVE ClockInv'
  <2>1. MIDIClockProvide(c, rate) /\ owned' = [owned EXCEPT ![c] = @ + 1] /\ UNCHANGED driver
    BY <1>2 DEF Provide
  <2> QED BY <2>1, ProvideHolds
<1>3. ASSUME MIDIClockRetain(c) PROVE ClockInv'
  BY <1>3 DEF MIDIClockRetain
<1>4. ASSUME MIDIClockRelease(c) PROVE ClockInv'
  BY <1>4 DEF MIDIClockRelease
<1>5. ASSUME NEW g \in {c, NULL}, MIDIClockSetGlobalClock(g) PROVE ClockInv'
  BY <1>5 DEF MIDIClockSetGlobalClock
<1>6. ASSUME NEW arg, Argument(arg, c), UNCHANGED <<driver, owned>> PROVE ClockInv'
  BY <1>6 DEF Argument
<1>7. MIDIClockGetGlobalClock(c) => ClockInv'
  BY <1>6 DEF MIDIClockGetGlobalClock
<1>8. ASSUME NEW arg \in {c, NULL},
             \/ \E now \in Nows : MIDIClockSetNow(arg, c, now)
             \/ \E rate \in Rates \ {0} : MIDIClockSetSamplingRate(arg, c, rate)
      PROVE  ClockInv'
  <2>1. Argument(arg, c) /\ UNCHANGED <<driver, owned>>
    BY <1>8 DEF MIDIClockSetNow, MIDIClockSetSamplingRate
  <2> QED BY <2>1, <1>6
<1> QED BY <1>1, <1>2, <1>3, <1>4, <1>5, <1>7, <1>8

\* A step of the device system.
LEMMA ClockStep == ClockInv /\ [Next]_vars => ClockInv'
<1> SUFFICES ASSUME ClockInv, [Next]_vars PROVE ClockInv'
  OBVIOUS
<1>1. CASE UNCHANGED clockVars
  BY <1>1 DEF ClockInv, ClockRefsExact, clockVars
<1>2. CASE ClockCall
  BY <1>2, ClockCallHolds
<1>3. ASSUME NEW c \in Clocks, MIDIDriverInit(c) PROVE ClockInv'
  <2>1. driver = NULL /\ MIDIClockProvide(c, DriverRate) /\ driver' = c /\ owned' = owned
    BY <1>3 DEF MIDIDriverInit
  <2> QED BY <2>1, ProvideHolds, ClockAssumption DEF ClockInv, ClockRefsExact, One
<1>4. CASE MIDIDriverDestroy
  BY <1>4, ClockAssumption DEF MIDIDriverDestroy, ClockInv, ClockRefsExact, One
<1>5. ASSUME NEW us, Elapse(us) PROVE ClockInv'
  BY <1>5 DEF Elapse, ClockInv, ClockRefsExact
<1> QED BY <1>1, <1>2, <1>3, <1>4, <1>5 DEF Next, vars

\* A clock's counter is the number of its owners, the application, the driver
\* and the global pointer, in every order of providing, replacing and releasing
\* it (clock.c:285-310).
THEOREM ClockRefsCorrect == Spec => []ClockRefsExact
<1>1. Init => ClockInv
  BY ClockInitHolds DEF Init
<1>2. ClockInv => ClockRefsExact
  BY DEF ClockInv
<1> QED BY <1>1, <1>2, ClockStep, PTL DEF Spec

\* A counted clock that has an owner left is not free.
LEMMA DriverCounted == ASSUME ClockInv, driver # NULL PROVE driver \in Clocks /\ refs[driver] > 0
<1>1. driver \in Clocks /\ One(driver = driver) = 1
  BY DEF ClockInv, One
<1>2. refs[driver] = owned[driver] + One(driver = global) + 1 /\ owned[driver] \in Nat
  BY <1>1 DEF ClockInv, ClockRefsExact
<1>3. One(driver = global) \in Nat
  BY DEF One
<1> QED BY <1>1, <1>2, <1>3

\* The application has one reference more, or there is the global pointer, if it
\* can name the driver's clock.
LEMMA NamedCounted ==
    ASSUME ClockInv, driver # NULL, NEW arg, Argument(arg, driver)
    PROVE  refs'[driver] > 1
<1>1. driver \in Clocks /\ refs[driver] > 0
  BY DriverCounted
<1>2. UNCHANGED refs /\ (owned[driver] > 0 \/ driver = global)
  BY <1>1 DEF Argument
<1>3. refs[driver] = owned[driver] + One(driver = global) + One(driver = driver) /\ owned[driver] \in Nat
  BY <1>1 DEF ClockInv, ClockRefsExact
<1> QED BY <1>2, <1>3 DEF One

\* Each cell has members in every state.
Cells == clock = [c \in Clocks |-> clock[c]]

\* A step that changes the members of one clock only.
LEMMA CellsStay ==
    ASSUME Cells, NEW c \in Clocks, NEW k, clock' = [clock EXCEPT ![c] = k]
    PROVE  Cells' /\ \A d \in Clocks \ {c} : clock'[d] = clock[d]
BY DEF Cells

\* A release does so too, and not while others own the clock.
LEMMA FreedStay ==
    ASSUME Cells, NEW c \in Clocks, clock' = Freed(c)
    PROVE  Cells' /\ \A d \in Clocks : refs'[d] > 0 => clock'[d] = clock[d]
BY DEF Cells, Freed

\* What a step does to the clock of a driver that stays.
DriverClock == driver # NULL /\ driver' = driver => clock'[driver] = clock[driver]

\* A call of the application leaves the driver's clock alone.
LEMMA CallKeepsClock ==
    ASSUME ClockInv, ClockInv', Cells, ClockCall
    PROVE  Cells' /\ DriverClock
<1>1. driver # NULL => driver \in Clocks /\ refs[driver] > 0
  BY DriverCounted
<1>2. driver' # NULL => driver' \in Clocks /\ refs'[driver'] > 0
  <2>1. ASSUME NEW d, d = driver', d # NULL PROVE d \in Clocks /\ refs'[d] > 0
    <3>1. d \in Clocks /\ refs'[d] = owned'[d] + One(d = global') + One(d = d) /\ owned'[d] \in Nat
      BY <2>1 DEF ClockInv, ClockRefsExact
    <3> QED BY <3>1 DEF One
  <2> QED BY <2>1
<1> PICK c \in Clocks :
       \/ \E rate \in Rates : MIDIClockCreate(c, rate) \/ Provide(c, rate)
       \/ MIDIClockRetain(c) \/ MIDIClockRelease(c)
       \/ MIDIClockGetGlobalClock(c)
       \/ \E arg \in {c, NULL} :
             \/ MIDIClockSetGlobalClock(arg)
             \/ \E now \in Nows : MIDIClockSetNow(arg, c, now)
             \/ \E rate \in Rates \ {0} : MIDIClockSetSamplingRate(arg, c, rate)
  BY DEF ClockCall
<1>3. ASSUME NEW k, clock' = [clock EXCEPT ![c] = k], refs[c] = 0 PROVE Cells' /\ DriverClock
  <2>1. Cells' /\ \A d \in Clocks \ {c} : clock'[d] = clock[d]
    BY <1>3, CellsStay
  <2>2. driver # NULL => driver \in Clocks \ {c}
    BY <1>1, <1>3
  <2> QED BY <2>1, <2>2 DEF DriverClock
<1>4. ASSUME NEW d \in Clocks, clock' = Freed(d) PROVE Cells' /\ DriverClock
  BY <1>2, <1>4, FreedStay DEF DriverClock
<1>5. ASSUME UNCHANGED clock PROVE Cells' /\ DriverClock
  BY <1>5 DEF Cells, DriverClock
<1>6. ASSUME NEW rate, MIDIClockCreate(c, rate) PROVE Cells' /\ DriverClock
  BY <1>3, <1>6 DEF MIDIClockCreate
<1>7. ASSUME NEW rate, Provide(c, rate) PROVE Cells' /\ DriverClock
  BY <1>3, <1>5, <1>7 DEF Provide, MIDIClockProvide
<1>8. ASSUME MIDIClockRetain(c) PROVE Cells' /\ DriverClock
  BY <1>5, <1>8 DEF MIDIClockRetain
<1>9. ASSUME MIDIClockRelease(c) PROVE Cells' /\ DriverClock
  BY <1>4, <1>9 DEF MIDIClockRelease
<1>10. ASSUME NEW g \in {c, NULL}, MIDIClockSetGlobalClock(g) PROVE Cells' /\ DriverClock
  <2>1. CASE global = NULL
    BY <1>5, <1>10, <2>1 DEF MIDIClockSetGlobalClock
  <2>2. CASE global # NULL
    <3>1. global \in Clocks /\ clock' = Freed(global)
      BY <1>10, <2>2 DEF MIDIClockSetGlobalClock, ClockInv
    <3> QED BY <1>4, <3>1
  <2> QED BY <2>1, <2>2
<1>11. ASSUME MIDIClockGetGlobalClock(c) PROVE Cells' /\ DriverClock
  <2>1. refs[c] = 0 /\ \E k : clock' = [clock EXCEPT ![c] = k]
    BY <1>11, ClockAssumption DEF MIDIClockGetGlobalClock, Argument
  <2> QED BY <1>3, <2>1
<1>12. ASSUME NEW arg,
              \/ \E now \in Nows : MIDIClockSetNow(arg, c, now)
              \/ \E rate \in Rates \ {0} : MIDIClockSetSamplingRate(arg, c, rate)
       PROVE  Cells' /\ DriverClock
  <2>1. Argument(arg, c) /\ refs'[c] = 1 /\ \E k : clock' = [clock EXCEPT ![c] = k]
    BY <1>12 DEF MIDIClockSetNow, MIDIClockSetSamplingRate
  <2>2. driver # NULL => c # driver
    BY <2>1, NamedCounted
  <2> QED BY <1>1, <2>1, <2>2, CellsStay DEF DriverClock
<1> QED BY <1>6, <1>7, <1>8, <1>9, <1>10, <1>11, <1>12

\* So does every step.
LEMMA StepKeepsClock ==
    ASSUME ClockInv, ClockInv', Cells, [Next]_vars
    PROVE  Cells' /\ DriverClock
<1>1. CASE UNCHANGED clock
  BY <1>1 DEF Cells, DriverClock
<1>2. CASE ClockCall
  BY <1>2, CallKeepsClock
<1>3. ASSUME NEW c \in Clocks, MIDIDriverInit(c) PROVE Cells' /\ DriverClock
  <2>1. driver = NULL /\ (UNCHANGED clock \/ \E k : clock' = [clock EXCEPT ![c] = k])
    BY <1>3 DEF MIDIDriverInit, MIDIClockProvide
  <2> QED BY <1>1, <2>1, CellsStay DEF DriverClock
<1>4. CASE MIDIDriverDestroy
  <2>1. driver # NULL /\ driver' = NULL /\ clock' = Freed(driver) /\ driver \in Clocks
    BY <1>4, DriverCounted DEF MIDIDriverDestroy
  <2> QED BY <2>1, FreedStay DEF DriverClock
<1>5. CASE UNCHANGED clockVars \/ \E us : Elapse(us)
  BY <1>1, <1>5 DEF clockVars, Elapse
<1> QED BY <1>2, <1>3, <1>4, <1>5 DEF Next, vars

\* The application can name the driver's clock, which is shared as the global one,
\* but no call of it sets that clock, changes its rate or frees it while the driver
\* has it (clock.c:391, 422). So all of it is kept, not only its rate.
THEOREM DriverClockKept ==
    Spec => [][driver # NULL /\ driver' = driver => clock'[driver] = clock[driver]]_clockVars
<1>1. Init => ClockInv /\ Cells
  BY ClockInitHolds DEF Init, ClockInit, Cells
<1>2. ClockInv /\ ClockInv' /\ Cells /\ [Next]_vars
          => Cells' /\ [driver # NULL /\ driver' = driver => clock'[driver] = clock[driver]]_clockVars
  BY StepKeepsClock DEF DriverClock
<1> QED BY <1>1, <1>2, ClockStep, PTL DEF Spec

-----------------------------------------------------------------------------
(* The ticks of clocks. *)

CellInv ==
    /\ clock \in [Clocks -> ClockMembers] /\ time \in Nat
    /\ \A c \in Clocks : Live(c) => Ticks(clock[c])

\* What may be left of the limits of a behaviour: its steps are those of a limit.
LeftInv == DOMAIN left = {"calls", "sends", "clocks", "devices", "waits", "steps"} /\ left.steps \subseteq Nat

\* Spending something leaves the steps.
LEMMA SpendKeeps == ASSUME LeftInv, NEW what \in {"sends", "clocks", "devices", "waits"}, Spend(what) PROVE LeftInv'
BY DEF LeftInv, Spend

\* So does every step.
LEMMA LeftStep == ASSUME LeftInv, [Next]_vars PROVE LeftInv'
<1>1. CASE UNCHANGED left
  BY <1>1 DEF LeftInv
<1>2. CASE \E what \in {"sends", "clocks", "devices", "waits"} : Spend(what)
  BY <1>2, SpendKeeps
<1> QED BY <1>1, <1>2 DEF Next, vars

\* A step puts a ticking clock into one cell, and no other cell comes to life.
LEMMA CellPut ==
    ASSUME CellInv, NEW c \in Clocks, NEW k, k \in ClockMembers, clock' = [clock EXCEPT ![c] = k],
           UNCHANGED time, refs'[c] > 0 => Ticks(k),
           \A d \in Clocks \ {c} : refs'[d] > 0 => refs[d] > 0
    PROVE  CellInv'
BY DEF CellInv, Live, Ticks

\* A step leaves the clocks, and no cell comes to life.
LEMMA CellsKeep ==
    ASSUME CellInv, UNCHANGED clock, time' \in Nat, \A d \in Clocks : refs'[d] > 0 => refs[d] > 0
    PROVE  CellInv'
BY DEF CellInv, Live, Ticks

\* A release.
LEMMA CellFreed ==
    ASSUME CellInv, NEW c \in Clocks, clock' = Freed(c), UNCHANGED time,
           \A d \in Clocks : refs'[d] > 0 => refs[d] > 0
    PROVE  CellInv'
<1>1. NoClock \in ClockMembers
  BY DEF NoClock, ClockMembers
<1>2. CASE refs'[c] = 0
  <2>1. clock' = [clock EXCEPT ![c] = NoClock]
    BY <1>2 DEF Freed
  <2>2. refs'[c] > 0 => Ticks(NoClock)
    BY <1>2
  <2> QED BY <1>1, <2>1, <2>2, CellPut
<1>3. CASE refs'[c] # 0
  <2>1. UNCHANGED clock /\ time' \in Nat
    BY <1>3 DEF Freed, CellInv
  <2> QED BY <2>1, CellsKeep
<1> QED BY <1>2, <1>3

\* A counted cell that is referenced is not free.
LEMMA NamedLive ==
    ASSUME ClockInv, NEW c \in Clocks
    PROVE  refs[c] \in Nat /\ (owned[c] > 0 \/ c = global \/ c = driver => refs[c] > 0)
<1>1. /\ refs[c] = owned[c] + One(c = global) + One(c = driver) /\ owned[c] \in Nat
      /\ One(c = global) \in Nat /\ One(c = driver) \in Nat
  BY DEF ClockInv, ClockRefsExact, One
<1>2. (c = global => One(c = global) = 1) /\ (c = driver => One(c = driver) = 1)
  BY DEF One
<1> QED BY <1>1, <1>2

\* The members of the clock an argument stands for.
LEMMA MembersTick ==
    ASSUME ClockInv, CellInv, NEW c \in Clocks
    PROVE  Ticks(Members(c))
<1>1. CASE refs[c] = 0
  BY <1>1, NewTicks DEF Members, CellInv
<1>2. CASE refs[c] # 0
  BY <1>2, NamedLive DEF Members, CellInv, Live
<1> QED BY <1>1, <1>2

\* A clock that is asked for ticks, and no cell but its own comes to life.
LEMMA ProvideTicks ==
    ASSUME ClockInv, CellInv, NEW c \in Clocks, NEW rate \in Nat, MIDIClockProvide(c, rate), UNCHANGED time
    PROVE  CellInv'
<1>0. refs \in [Clocks -> Int] /\ time \in Nat
  BY DEF ClockInv, CellInv
<1>1. CASE clock' = [clock EXCEPT ![c] = NewClock(rate)] /\ \E n : refs' = [refs EXCEPT ![c] = n]
  <2> DEFINE k == NewClock(rate)
  <2>1. Ticks(k) /\ k \in ClockMembers
    BY <1>0, NewTicks DEF Ticks
  <2>2. \A d \in Clocks \ {c} : refs'[d] > 0 => refs[d] > 0
    BY <1>0, <1>1
  <2>3. clock' = [clock EXCEPT ![c] = k]
    BY <1>1
  <2> HIDE DEF k
  <2> QED BY <2>1, <2>2, <2>3, CellPut
<1>2. CASE c = global /\ refs' = [refs EXCEPT ![c] = @ + 1] /\ UNCHANGED clock
  <2>1. refs[c] > 0
    BY <1>2, NamedLive
  <2>2. \A d \in Clocks : refs'[d] > 0 => refs[d] > 0
    BY <1>0, <1>2, <2>1
  <2> QED BY <1>0, <1>2, <2>2, CellsKeep
<1> QED BY <1>1, <1>2 DEF MIDIClockProvide

\* A call with an argument that stands for clock c.
LEMMA ArgumentTicks ==
    ASSUME ClockInv, CellInv, NEW c \in Clocks, NEW arg, Argument(arg, c), UNCHANGED time,
           NEW k, Ticks(k), clock' = [clock EXCEPT ![c] = k]
    PROVE  CellInv'
<1>1. refs' = refs \/ refs' = [refs EXCEPT ![c] = 1]
  BY DEF Argument
<1>2. \A d \in Clocks \ {c} : refs'[d] > 0 => refs[d] > 0
  BY <1>1 DEF ClockInv
<1>3. k \in ClockMembers
  BY DEF Ticks
<1> QED BY <1>2, <1>3, CellPut

\* A call of the application keeps every clock at its rate.
LEMMA ClockCallTicks == ASSUME ClockInv, CellInv, ClockCall PROVE CellInv'
<1>0. refs \in [Clocks -> Int] /\ time \in Nat
  BY DEF ClockInv, CellInv
<1> PICK c \in Clocks :
       \/ \E rate \in Rates : MIDIClockCreate(c, rate) \/ Provide(c, rate)
       \/ MIDIClockRetain(c) \/ MIDIClockRelease(c)
       \/ MIDIClockGetGlobalClock(c)
       \/ \E arg \in {c, NULL} :
             \/ MIDIClockSetGlobalClock(arg)
             \/ \E now \in Nows : MIDIClockSetNow(arg, c, now)
             \/ \E rate \in Rates \ {0} : MIDIClockSetSamplingRate(arg, c, rate)
  BY DEF ClockCall
<1>1. ASSUME NEW rate \in Rates, MIDIClockCreate(c, rate) PROVE CellInv'
  <2> DEFINE k == NewClock(rate)
  <2>1. Ticks(k) /\ k \in ClockMembers
    BY <1>0, NewTicks, ClockAssumption DEF Ticks
  <2>2. clock' = [clock EXCEPT ![c] = k] /\ UNCHANGED time
    BY <1>1 DEF MIDIClockCreate
  <2>3. \A d \in Clocks \ {c} : refs'[d] > 0 => refs[d] > 0
    BY <1>0, <1>1 DEF MIDIClockCreate
  <2> HIDE DEF k
  <2> QED BY <2>1, <2>2, <2>3, CellPut
<1>2. ASSUME NEW rate \in Rates, Provide(c, rate) PROVE CellInv'
  BY <1>2, ProvideTicks, ClockAssumption DEF Provide
<1>3. ASSUME MIDIClockRetain(c) PROVE CellInv'
  <2>1. refs' = [refs EXCEPT ![c] = @ + 1] /\ refs[c] > 0
    BY <1>3, NamedLive DEF MIDIClockRetain
  <2>2. \A d \in Clocks : refs'[d] > 0 => refs[d] > 0
    BY <1>0, <2>1
  <2> QED BY <1>0, <1>3, <2>2, CellsKeep DEF MIDIClockRetain
<1>4. ASSUME MIDIClockRelease(c) PROVE CellInv'
  <2>1. \A d \in Clocks : refs'[d] > 0 => refs[d] > 0
    BY <1>0, <1>4 DEF MIDIClockRelease
  <2> QED BY <1>4, <2>1, CellFreed DEF MIDIClockRelease
<1>5. ASSUME NEW g \in {c, NULL}, MIDIClockSetGlobalClock(g) PROVE CellInv'
  <2>1. g # NULL => g = c /\ refs[c] > 0
    BY <1>5, NamedLive DEF MIDIClockSetGlobalClock
  <2>2. \A d \in Clocks : refs'[d] > 0 => refs[d] > 0
    BY <1>0, <1>5, <2>1, ClockAssumption DEF MIDIClockSetGlobalClock
  <2>3. CASE global = NULL
    BY <1>0, <1>5, <2>2, <2>3, CellsKeep DEF MIDIClockSetGlobalClock
  <2>4. CASE global # NULL
    <3>1. global \in Clocks /\ clock' = Freed(global) /\ UNCHANGED time
      BY <1>5, <2>4 DEF MIDIClockSetGlobalClock, ClockInv
    <3> QED BY <2>2, <3>1, CellFreed
  <2> QED BY <2>3, <2>4
<1>6. ASSUME MIDIClockGetGlobalClock(c) PROVE CellInv'
  <2>1. Argument(NULL, c) /\ UNCHANGED time /\ clock' = [clock EXCEPT ![c] = Members(c)]
    BY <1>6 DEF MIDIClockGetGlobalClock
  <2> QED BY <2>1, MembersTick, ArgumentTicks
<1>7. ASSUME NEW arg, NEW now \in Nows, MIDIClockSetNow(arg, c, now) PROVE CellInv'
  <2> DEFINE m == Members(c)
             o == now - GetRealTime(m)
             k == [m EXCEPT !.offset = o]
  <2>1. Argument(arg, c) /\ UNCHANGED time /\ clock' = [clock EXCEPT ![c] = k]
    BY <1>7 DEF MIDIClockSetNow
  <2>2. Ticks(m)
    BY MembersTick
  <2>3. o \in Int
    <3> HIDE DEF m
    <3>1. m.numer \in Nat /\ m.denom \in Nat \ {0} /\ now \in Int
      BY <2>2, ClockAssumption DEF Ticks, ClockMembers
    <3>2. time * m.numer \in Int
      BY <1>0, <3>1
    <3>3. GetRealTime(m) \in Int
      BY <3>1, <3>2, Floor DEF GetRealTime
    <3> QED BY <3>1, <3>3
  <2> HIDE DEF m, o
  <2>4. Ticks(k)
    BY <2>2, <2>3, SetNowTicks
  <2> HIDE DEF k
  <2> QED BY <2>1, <2>4, ArgumentTicks
<1>8. ASSUME NEW arg, NEW rate \in Rates \ {0}, MIDIClockSetSamplingRate(arg, c, rate) PROVE CellInv'
  <2> DEFINE m == Members(c)
             k == [m EXCEPT !.numer = (@ \div m.rate) * rate, !.rate = rate]
  <2>1. Argument(arg, c) /\ UNCHANGED time /\ clock' = [clock EXCEPT ![c] = k]
    BY <1>8 DEF MIDIClockSetSamplingRate
  <2>2. Ticks(m) /\ rate \in Nat \ {0}
    BY MembersTick, ClockAssumption
  <2> HIDE DEF m
  <2>3. Ticks(k)
    BY <2>2, SetRateTicks
  <2> HIDE DEF k
  <2> QED BY <2>1, <2>3, ArgumentTicks
<1> QED BY <1>1, <1>2, <1>3, <1>4, <1>5, <1>6, <1>7, <1>8

\* So does every step.
LEMMA CellStep == ASSUME ClockInv, CellInv, LeftInv, [Next]_vars PROVE CellInv'
<1>0. refs \in [Clocks -> Int] /\ time \in Nat
  BY DEF ClockInv, CellInv
<1>1. CASE UNCHANGED clockVars
  BY <1>0, <1>1, CellsKeep DEF clockVars
<1>2. CASE ClockCall
  BY <1>2, ClockCallTicks
<1>3. ASSUME NEW c \in Clocks, MIDIDriverInit(c) PROVE CellInv'
  BY <1>3, ProvideTicks, ClockAssumption DEF MIDIDriverInit
<1>4. CASE MIDIDriverDestroy
  <2>1. driver \in Clocks
    BY <1>4 DEF MIDIDriverDestroy, ClockInv
  <2>2. \A d \in Clocks : refs'[d] > 0 => refs[d] > 0
    BY <1>0, <1>4, <2>1 DEF MIDIDriverDestroy
  <2> QED BY <1>4, <2>1, <2>2, CellFreed DEF MIDIDriverDestroy
<1>5. ASSUME NEW us \in left.steps, Elapse(us) PROVE CellInv'
  <2>1. us \in Nat
    BY DEF LeftInv
  <2> QED BY <1>0, <1>5, <2>1, CellsKeep DEF Elapse
<1> QED BY <1>1, <1>2, <1>3, <1>4, <1>5 DEF Next, vars

\* At the start no cell is a clock, and the limits are whole.
LEMMA CellInitHolds == Init => CellInv /\ LeftInv
<1>1. ClockInit => CellInv
  BY DEF ClockInit, CellInv, Live, NoClock, ClockMembers
<1>2. left \in Limits => LeftInv
  BY LimitsAssumption DEF LeftInv
<1> QED BY <1>1, <1>2 DEF Init

\* The ticks of one clock as those of another: numbers. t is the time, x and z are
\* what the clocks say, and y is x converted.
LEMMA Conversion ==
    ASSUME NEW t \in Nat, NEW U \in Nat \ {0},
           NEW nc \in Nat \ {0}, NEW dc \in Nat \ {0}, NEW rc \in Nat \ {0},
           NEW ns \in Nat \ {0}, NEW ds \in Nat \ {0}, NEW rs \in Nat \ {0},
           nc * U = dc * rc, ns * U = ds * rs,
           NEW x \in Int, NEW y \in Int, NEW z \in Int,
           x * ds <= t * ns, t * ns < x * ds + ds,
           y * (dc * ns) <= x * (nc * ds), x * (nc * ds) < y * (dc * ns) + dc * ns,
           z * dc <= t * nc, t * nc < z * dc + dc
    PROVE  (y - z) * rs <= rs /\ -(y - z) * rs <= rc + rs
<1>1. y <= z
  <2>1. x * (nc * ds) = (x * ds) * nc
    BY SMT
  <2>2. (x * ds) * nc <= (t * ns) * nc
    BY Cancel
  <2>3. (t * ns) * nc = (t * nc) * ns
    BY SMT
  <2>4. y * (dc * ns) = (y * dc) * ns
    BY SMT
  <2>5. (y * dc) * ns <= (t * nc) * ns /\ y * dc \in Int /\ t * nc \in Int
    BY <2>1, <2>2, <2>3, <2>4
  <2>6. y * dc <= t * nc
    BY <2>5, Cancel
  <2>7. y * dc < (z + 1) * dc
    <3>1. (z + 1) * dc = z * dc + dc
      BY SMT
    <3> QED BY <2>5, <2>6, <3>1
  <2> QED BY <2>7, Cancel
<1>2. (z - y - 1) * rs < rc
  <2> DEFINE m == z - y - 1
  <2>1. m \in Int
    OBVIOUS
  <2>2. (z * dc) * ns <= (t * nc) * ns /\ (t * nc) * ns = (t * ns) * nc
    <3>1. (z * dc) \in Int /\ (t * nc) \in Int
      OBVIOUS
    <3>2. (z * dc) * ns <= (t * nc) * ns
      BY <3>1, Cancel
    <3>3. (t * nc) * ns = (t * ns) * nc
      BY SMT
    <3> QED BY <3>2, <3>3
  <2>3. (t * ns) * nc < (x * ds + ds) * nc
    <3>1. t * ns \in Int /\ x * ds + ds \in Int
      OBVIOUS
    <3> QED BY <3>1, Cancel
  <2>4. (x * ds + ds) * nc = x * (nc * ds) + ds * nc
    BY SMT
  <2>5. (z * dc) * ns = z * (dc * ns)
    BY SMT
  <2>6. z * (dc * ns) < y * (dc * ns) + dc * ns + ds * nc
    BY <2>2, <2>3, <2>4, <2>5
  <2>7. m * (dc * ns) < ds * nc
    <3>1. m * (dc * ns) = z * (dc * ns) - y * (dc * ns) - dc * ns
      BY SMT
    <3> QED BY <2>6, <3>1
  <2>8. (m * (dc * ns)) * U < (ds * nc) * U
    <3>1. m * (dc * ns) \in Int /\ ds * nc \in Int
      BY <2>1
    <3> HIDE DEF m
    <3> QED BY <2>7, <3>1, Cancel
  <2>9. (m * (dc * ns)) * U = (m * rs) * (dc * ds)
    <3>1. (m * (dc * ns)) * U = (m * dc) * (ns * U)
      BY SMT
    <3>2. (m * dc) * (ds * rs) = (m * rs) * (dc * ds)
      BY SMT
    <3> QED BY <3>1, <3>2
  <2>10. (ds * nc) * U = rc * (dc * ds)
    <3>1. (ds * nc) * U = ds * (nc * U)
      BY SMT
    <3>2. ds * (dc * rc) = rc * (dc * ds)
      BY SMT
    <3> QED BY <3>1, <3>2
  <2>11. m * rs \in Int /\ dc * ds \in Nat \ {0}
    <3>1. dc * ds \in Nat \ {0}
      BY Products
    <3> QED BY <2>1, <3>1
  <2>12. (m * rs) * (dc * ds) < rc * (dc * ds)
    BY <2>8, <2>9, <2>10
  <2> HIDE DEF m
  <2>13. m * rs < rc
    BY <2>11, <2>12, Cancel
  <2> QED BY <2>13 DEF m
<1>3. (y - z) * rs <= 0
  <2>1. (y - z) * rs <= 0 * rs
    BY <1>1, Cancel
  <2> QED BY <2>1
<1>4. -(y - z) * rs = (z - y - 1) * rs + rs
  BY SMT
<1> QED BY <1>2, <1>3, <1>4

\* What a factor of both parts of a fraction does not change.
LEMMA FloorReduced ==
    ASSUME NEW x \in Int, NEW n \in Nat, NEW d \in Nat \ {0}, NEW k \in Nat \ {0}
    PROVE  LET y == (x * n) \div d
           IN  y \in Int /\ y * (k * d) <= x * (k * n) /\ x * (k * n) < y * (k * d) + k * d
<1> DEFINE p == x * n
           y == p \div d
<1>1. p \in Int
  OBVIOUS
<1>2. y \in Int /\ y * d <= p /\ p < y * d + d
  <2> HIDE DEF p
  <2> QED BY <1>1, Floor
<1> HIDE DEF y
<1>3. (y * d) * k <= p * k /\ p * k < (y * d + d) * k
  <2>1. y * d \in Int /\ y * d + d \in Int
    BY <1>2
  <2> HIDE DEF p
  <2> QED BY <1>1, <1>2, <2>1, Cancel
<1>4. (y * d) * k = y * (k * d) /\ (y * d + d) * k = y * (k * d) + k * d
  BY <1>2
<1>5. p * k = x * (k * n)
  OBVIOUS
<1> QED BY <1>2, <1>3, <1>4, <1>5 DEF y

\* Two clocks that run agree about the present.
LEMMA ConvertAgrees ==
    ASSUME CellInv, NEW c \in Clocks, NEW s \in Clocks, Runs(c), Runs(s)
    PROVE  LET error == ConvertTimestamp(c, s, Now(s)) - Now(c)
           IN  /\ error * clock[s].rate <= clock[s].rate
               /\ -error * clock[s].rate <= clock[c].rate + clock[s].rate
<1> DEFINE nc == clock[c].numer
           dc == clock[c].denom
           rc == clock[c].rate
           oc == clock[c].offset
           ns == clock[s].numer
           ds == clock[s].denom
           rs == clock[s].rate
           os == clock[s].offset
           U == UsecPerSec
           f == [numer |-> nc * ds, denom |-> dc * ns]
           g == NormalizeFrac(f)
           x == (time * ns) \div ds
           z == (time * nc) \div dc
           y == (x * g.numer) \div g.denom
<1>1. /\ nc \in Nat \ {0} /\ dc \in Nat \ {0} /\ rc \in Nat \ {0} /\ oc \in Int /\ nc * U = dc * rc
      /\ ns \in Nat \ {0} /\ ds \in Nat \ {0} /\ rs \in Nat \ {0} /\ os \in Int /\ ns * U = ds * rs
      /\ time \in Nat /\ U \in Nat \ {0}
  BY ClockAssumption DEF CellInv, Runs, Ticks, ClockMembers
<1>2. Now(s) = x + os /\ Now(c) = z + oc
  BY DEF Now, GetRealTime
<1>3. c # s => ConvertTimestamp(c, s, Now(s)) = (((x + os) - os) * g.numer) \div g.denom + oc
  BY <1>2 DEF ConvertTimestamp
<1>4. c = s => ConvertTimestamp(c, s, Now(s)) = Now(c)
  BY DEF ConvertTimestamp
<1> HIDE DEF nc, dc, rc, oc, ns, ds, rs, os, U
<1>5. f \in Fractions /\ f.numer = nc * ds /\ f.denom = dc * ns
  <2>1. nc * ds \in Nat /\ dc * ns \in Nat \ {0}
    BY <1>1, Products
  <2> QED BY <2>1 DEF Fractions
<1> HIDE DEF f
<1>6. Reduced(f, g)
  BY <1>5, NormalizeReduces
<1> HIDE DEF g
<1>7. PICK k \in Nat \ {0} : nc * ds = k * g.numer /\ dc * ns = k * g.denom
  BY <1>5, <1>6 DEF Reduced
<1>8. g.numer \in Nat /\ g.denom \in Nat \ {0}
  BY <1>6 DEF Reduced, Fractions
<1>9. x \in Int /\ x * ds <= time * ns /\ time * ns < x * ds + ds
  <2>1. time * ns \in Int
    BY <1>1
  <2> QED BY <1>1, <2>1, Floor
<1>10. z \in Int /\ z * dc <= time * nc /\ time * nc < z * dc + dc
  <2>1. time * nc \in Int
    BY <1>1
  <2> QED BY <1>1, <2>1, Floor
<1>11. c # s => ConvertTimestamp(c, s, Now(s)) = y + oc
  <2>1. (x + os) - os = x
    <3> HIDE DEF x
    <3> QED BY <1>1, <1>9
  <2> QED BY <1>3, <2>1
<1> HIDE DEF x, z
<1>12. y \in Int /\ y * (dc * ns) <= x * (nc * ds) /\ x * (nc * ds) < y * (dc * ns) + dc * ns
  BY <1>7, <1>8, <1>9, FloorReduced
<1> HIDE DEF y
<1>13. (y - z) * rs <= rs /\ -(y - z) * rs <= rc + rs
  BY <1>1, <1>9, <1>10, <1>12, Conversion
<1>14. CASE c = s
  <2>1. ConvertTimestamp(c, s, Now(s)) - Now(c) = 0
    BY <1>1, <1>2, <1>4, <1>10, <1>14
  <2> QED BY <1>1, <2>1 DEF rs, rc
<1>15. CASE c # s
  <2>1. ConvertTimestamp(c, s, Now(s)) - Now(c) = y - z
    BY <1>1, <1>2, <1>10, <1>11, <1>12, <1>15
  <2> QED BY <1>13, <2>1 DEF rs, rc
<1> QED BY <1>14, <1>15

\* A clock that runs makes exactly its rate of ticks per second, for every rate and
\* every length of a second: what is taken out of the fraction is taken out of both
\* its parts, and a changed rate is its own or stops the clock (clock.c:73-119,
\* 320-334, 422).
THEOREM TickCorrect == Spec => []TickExact
<1>1. Init => ClockInv /\ CellInv /\ LeftInv
  BY ClockInitHolds, CellInitHolds DEF Init
<1>2. ClockInv /\ CellInv /\ LeftInv /\ [Next]_vars => ClockInv' /\ CellInv' /\ LeftInv'
  BY ClockStep, CellStep, LeftStep
<1>3. CellInv => TickExact
  BY DEF CellInv, TickExact, Runs, Ticks, ClockMembers
<1> QED BY <1>1, <1>2, <1>3, PTL DEF Spec

\* The time of one clock, converted to another one that runs, is the time there up
\* to a tick of either, whatever rates and offsets they have (clock.c:484-504).
THEOREM ConvertCorrect == Spec => []ConvertExact
<1>1. Init => ClockInv /\ CellInv /\ LeftInv
  BY ClockInitHolds, CellInitHolds DEF Init
<1>2. ClockInv /\ CellInv /\ LeftInv /\ [Next]_vars => ClockInv' /\ CellInv' /\ LeftInv'
  BY ClockStep, CellStep, LeftStep
<1>3. CellInv => ConvertExact
  BY ConvertAgrees DEF ConvertExact
<1> QED BY <1>1, <1>2, <1>3, PTL DEF Spec

\* Later, a clock does not say less: numbers.
LEMMA FloorGrows ==
    ASSUME NEW t \in Nat, NEW u \in Nat, t <= u, NEW n \in Nat, NEW d \in Nat \ {0}
    PROVE  (t * n) \div d \in Int /\ (u * n) \div d \in Int /\ (t * n) \div d <= (u * n) \div d
<1> DEFINE p == t * n
           q == u * n
           a == p \div d
           b == q \div d
<1>1. p \in Int /\ q \in Int /\ p <= q
  BY SMT
<1> HIDE DEF p, q
<1>2. a \in Int /\ b \in Int /\ a * d <= p /\ q < b * d + d
  BY <1>1, Floor
<1> HIDE DEF a, b
<1>3. b * d + d = (b + 1) * d /\ a * d < (b + 1) * d
  BY <1>1, <1>2
<1>4. a < b + 1
  BY <1>2, <1>3, Cancel
<1> QED BY <1>2, <1>4 DEF a, b, p, q

\* Time never goes back, and no call of the application moves it.
LEMMA TimeGrows == ASSUME CellInv, LeftInv, [Next]_vars PROVE time' \in Nat /\ time <= time'
<1>0. time \in Nat
  BY DEF CellInv
<1>1. CASE UNCHANGED time
  BY <1>0, <1>1
<1>2. ASSUME NEW us \in left.steps, Elapse(us) PROVE time' \in Nat /\ time <= time'
  <2>1. us \in Nat /\ time' = time + us
    BY <1>2 DEF LeftInv, Elapse
  <2> QED BY <1>0, <2>1
<1>3. ClockCall => UNCHANGED time
  BY DEF ClockCall, MIDIClockCreate, Provide, MIDIClockRetain, MIDIClockRelease, MIDIClockSetGlobalClock,
         MIDIClockGetGlobalClock, MIDIClockSetNow, MIDIClockSetSamplingRate
<1>4. ASSUME NEW c \in Clocks, MIDIDriverInit(c) PROVE UNCHANGED time
  BY <1>4 DEF MIDIDriverInit
<1>5. MIDIDriverDestroy \/ UNCHANGED clockVars => UNCHANGED time
  BY DEF MIDIDriverDestroy, clockVars
<1> QED BY <1>1, <1>2, <1>3, <1>4, <1>5 DEF Next, vars

\* The driver's clock goes on, and at its rate.
LEMMA DriverSteady ==
    ASSUME ClockInv, CellInv, LeftInv, DriverClock, time' \in Nat, time <= time',
           driver # NULL, driver' = driver
    PROVE  Now(driver)' >= Now(driver) /\ clock'[driver].rate = clock[driver].rate
<1>1. driver \in Clocks /\ clock[driver] \in ClockMembers /\ clock'[driver] = clock[driver] /\ time \in Nat
  BY DriverCounted DEF CellInv, DriverClock
<1> DEFINE k == clock[driver]
           t == time'
<1>2. k.numer \in Nat /\ k.denom \in Nat \ {0} /\ k.offset \in Int
  BY <1>1 DEF ClockMembers
<1>3. Now(driver) = (time * k.numer) \div k.denom + k.offset
  BY DEF Now, GetRealTime
<1>4. Now(driver)' = (t * k.numer) \div k.denom + k.offset
  BY <1>1 DEF Now, GetRealTime
<1> DEFINE a == (time * k.numer) \div k.denom
           b == (t * k.numer) \div k.denom
<1>5. a \in Int /\ b \in Int /\ a <= b
  <2> HIDE DEF k, t
  <2>1. t \in Nat /\ time <= t
    BY DEF t
  <2> QED BY <1>1, <1>2, <2>1, FloorGrows
<1>6. Now(driver) = a + k.offset /\ Now(driver)' = b + k.offset
  BY <1>3, <1>4
<1> HIDE DEF a, b, k
<1>7. Now(driver)' >= Now(driver)
  BY <1>2, <1>5, <1>6
<1> QED BY <1>1, <1>7

\* The driver's clock never goes back and keeps its rate, however the application
\* shares, sets and releases the clocks that it can name (clock.c:391, 422).
THEOREM SteadyCorrect == Spec => Steady
<1>1. Init => ClockInv /\ CellInv /\ LeftInv /\ Cells
  BY ClockInitHolds, CellInitHolds DEF Init, ClockInit, Cells
<1>2. ClockInv /\ CellInv /\ LeftInv /\ Cells /\ [Next]_vars => ClockInv' /\ CellInv' /\ LeftInv' /\ Cells'
  <2> SUFFICES ASSUME ClockInv, CellInv, LeftInv, Cells, [Next]_vars
               PROVE  ClockInv' /\ CellInv' /\ LeftInv' /\ Cells'
    OBVIOUS
  <2>1. ClockInv'
    BY ClockStep
  <2> QED BY <2>1, CellStep, LeftStep, StepKeepsClock
<1>3. ClockInv /\ ClockInv' /\ CellInv /\ LeftInv /\ Cells /\ [Next]_vars
          => [driver # NULL /\ driver' = driver =>
                 /\ Now(driver)' >= Now(driver)
                 /\ clock'[driver].rate = clock[driver].rate]_clockVars
  BY StepKeepsClock, TimeGrows, DriverSteady
<1> QED BY <1>1, <1>2, <1>3, PTL DEF Spec, Steady

-----------------------------------------------------------------------------
(* Controllers and timers. *)

\* How often the slots hold an object is a number.
LEMMA InSlotsType == ASSUME NEW o, NEW slot PROVE InSlots(o, slot) \in Nat
<1>1. IsFiniteSet(Channels)
  <2>1. PICK n \in Int : n = 15
    OBVIOUS
  <2>2. Channels \subseteq 0 .. n
    BY <2>1, DeviceAssumption
  <2>3. IsFiniteSet(0 .. n)
    BY FS_Interval
  <2> QED BY <2>2, <2>3, FS_Subset
<1>2. IsFiniteSet({c \in Channels : slot[c] = o})
  BY <1>1, FS_Subset
<1> QED BY <1>2, FS_CardinalityType DEF InSlots

\* The slots of a new device, and of one that is gone, hold nothing.
LEMMA InNoSlots == ASSUME NEW o \in Objects PROVE InSlots(o, NoSlots) = 0
<1>1. {c \in Channels : NoSlots[c] = o} = {}
  BY DeviceAssumption DEF NoSlots, Objects
<1> QED BY <1>1, FS_EmptySet DEF InSlots

\* At the start each object belongs to the application.
LEMMA ObjectInitHolds == DeviceInit => ObjectInv
<1> SUFFICES ASSUME DeviceInit PROVE ObjectInv
  OBVIOUS
<1>1. device \in Receivers /\ count \in [Objects -> Int]
  BY DeviceAssumption DEF DeviceInit, Receivers, NoSlots
<1>2. RefsExact
  BY InNoSlots, DeviceAssumption DEF DeviceInit, RefsExact, One, Objects
<1> QED BY <1>1, <1>2 DEF ObjectInv

\* A call of the receiver's application.
LEMMA DeviceCallHolds == ASSUME ObjectInv, DeviceCall PROVE ObjectInv'
<1> USE DEF ObjectInv, RefsExact
<1>1. ASSUME NEW channel \in Channels, MIDIDeviceSetBaseChannel(channel) PROVE ObjectInv'
  BY <1>1 DEF MIDIDeviceSetBaseChannel, Receivers
<1>2. ASSUME NEW channel \in Channels, MIDIDeviceGetChannelController(channel) PROVE ObjectInv'
  BY <1>2, InSlotsType DEF MIDIDeviceGetChannelController, Objects, One
<1>3. ASSUME NEW channel, NEW k \in Controllers, MIDIDeviceSetChannelController(channel, k)
      PROVE  ObjectInv'
  <2>1. PICK slot \in [Channels -> Controllers \cup {NULL}] :
             /\ device' = [device EXCEPT !.slot = slot]
             /\ count' = [o \in Objects |-> count[o] + InSlots(o, slot) - InSlots(o, device.slot)]
    BY <1>3 DEF MIDIDeviceSetChannelController, Receivers
  <2>2. held' = held
    BY <1>3 DEF MIDIDeviceSetChannelController
  <2>3. device' \in Receivers /\ device'.slot = slot /\ device'.timer = device.timer
    BY <2>1 DEF Receivers
  <2> QED BY <2>1, <2>2, <2>3, InSlotsType DEF One
<1>4. ASSUME NEW k, NEW control, NEW value, MIDIControllerSetControl(k, control, value) PROVE ObjectInv'
  BY <1>4 DEF MIDIControllerSetControl
<1>5. ASSUME NEW k, NEW control, NEW value, MIDIControllerSetLongControl(k, control, value) PROVE ObjectInv'
  BY <1>5 DEF MIDIControllerSetLongControl
<1>6. ASSUME NEW k, SetParameter(k, 0) PROVE ObjectInv'
  BY <1>5, <1>6 DEF SetParameter
<1>7. ASSUME NEW t \in Timers, MIDIDeviceSetTimer(t) PROVE ObjectInv'
  <2>1. /\ device' = [device EXCEPT !.timer = t] /\ held' = held
        /\ count' = [o \in Objects |-> count[o] + One(o = t) - One(o = device.timer)]
    BY <1>7 DEF MIDIDeviceSetTimer
  <2>2. device' \in Receivers /\ device'.slot = device.slot /\ device'.timer = t
    BY <2>1 DEF Receivers
  <2> QED BY <2>1, <2>2, InSlotsType DEF One
<1>8. ASSUME NEW o \in Objects, ReleaseObject(o) PROVE ObjectInv'
  BY <1>8, InSlotsType DEF ReleaseObject, One
<1>9. ASSUME MIDIDeviceRetain PROVE ObjectInv'
  BY <1>9 DEF MIDIDeviceRetain, Receivers
<1>10. ASSUME MIDIDeviceRelease PROVE ObjectInv'
  <2>1. held' = held
    BY <1>10 DEF MIDIDeviceRelease
  <2>2. CASE device.refs > 1
    BY <1>10, <2>1, <2>2 DEF MIDIDeviceRelease, Receivers
  <2>3. CASE ~(device.refs > 1)
    <3>1. /\ device' = [refs |-> 0, base |-> 0, timer |-> NULL, slot |-> NoSlots]
          /\ count' = [o \in Objects |-> count[o] - InSlots(o, device.slot) - One(o = device.timer)]
      BY <1>10, <2>3 DEF MIDIDeviceRelease
    <3>2. device' \in Receivers
      BY <3>1, DeviceAssumption DEF Receivers, NoSlots
    <3>3. ASSUME NEW o \in Objects PROVE InSlots(o, device'.slot) = 0 /\ One(o = device'.timer) = 0
      BY <3>1, InNoSlots, DeviceAssumption DEF One, Objects
    <3> QED BY <2>1, <3>1, <3>2, <3>3, InSlotsType DEF One
  <2> QED BY <2>2, <2>3
<1> QED BY <1>1, <1>2, <1>3, <1>4, <1>5, <1>6, <1>7, <1>8, <1>9, <1>10 DEF DeviceCall

\* A step of the device system.
LEMMA ObjectStep == ObjectInv /\ [Next]_vars => ObjectInv'
<1> SUFFICES ASSUME ObjectInv, [Next]_vars PROVE ObjectInv'
  OBVIOUS
<1>1. CASE UNCHANGED <<device, count, held>>
  BY <1>1 DEF ObjectInv, RefsExact
<1>2. CASE DeviceCall
  BY <1>2, DeviceCallHolds
<1>3. UNCHANGED deviceVars => UNCHANGED <<device, count, held>>
  BY DEF deviceVars
<1>4. (\E call \in left.calls : Send(call)) => UNCHANGED <<device, count, held>>
  BY DEF Send
<1>5. (\E arrives \in BOOLEAN : Transmit(arrives)) => UNCHANGED <<device, count, held>>
  BY DEF Transmit
<1> QED BY <1>1, <1>2, <1>3, <1>4, <1>5 DEF Next, vars

\* A controller or a timer is counted once for the application and once for each
\* place the device has it in, however they are set, replaced and released
\* (device.c:385-394, 598-603, 693-711).
THEOREM RefsCorrect == Spec => []RefsExact
<1>1. Init => ObjectInv
  BY ObjectInitHolds DEF Init
<1>2. ObjectInv => RefsExact
  BY DEF ObjectInv
<1> QED BY <1>1, <1>2, ObjectStep, PTL DEF Spec

-----------------------------------------------------------------------------
(* The message of a call. *)

\* What a range of numbers is, without looking at each of them.
LEMMA InRangeOf == \A a, b \in Int : \A x : x \in a .. b <=> (x \in Int /\ a <= x /\ x <= b)
OBVIOUS

Message(f, a, b, c, d, x) == [format |-> f, bytes |-> <<a, b, c, d>>, data |-> x]

\* One byte of a message replaced.
With(m, at, v) == [m EXCEPT !.bytes[at] = v]

\* That is a message with this byte.
LEMMA ByteSet ==
    ASSUME NEW f, NEW a, NEW b, NEW c, NEW d, NEW x, NEW v
    PROVE  /\ With(Message(f, a, b, c, d, x), 1, v) = Message(f, v, b, c, d, x)
           /\ With(Message(f, a, b, c, d, x), 2, v) = Message(f, a, v, c, d, x)
           /\ With(Message(f, a, b, c, d, x), 3, v) = Message(f, a, b, v, d, x)
           /\ With(Message(f, a, b, c, d, x), 4, v) = Message(f, a, b, c, v, x)
<1>1. /\ [<<a, b, c, d>> EXCEPT ![1] = v] = <<v, b, c, d>>
      /\ [<<a, b, c, d>> EXCEPT ![2] = v] = <<a, v, c, d>>
      /\ [<<a, b, c, d>> EXCEPT ![3] = v] = <<a, b, v, d>>
      /\ [<<a, b, c, d>> EXCEPT ![4] = v] = <<a, b, c, v>>
  OBVIOUS
<1> QED BY <1>1 DEF Message, With

SetOne(m, call, properties, i) ==
    IF i <= Len(properties) THEN MIDIMessageSet(m, properties[i], call.args[properties[i]]) ELSE m

SetAll(m, call, properties) ==
    SetOne(SetOne(SetOne(SetOne(m, call, properties, 1), call, properties, 2), call, properties, 3), call, properties, 4)

\* The properties are set one after the other.
LEMMA Composed ==
    ASSUME NEW call, NEW byte, NEW properties, properties = KindOf(call.status).properties,
           NEW n \in Nat, n <= 4, Len(properties) = n
    PROVE  Compose(call, byte) = SetAll(MIDIMessageCreate(call.status, byte), call, properties)
<1> DEFINE m0 == MIDIMessageCreate(call.status, byte)
           next(m, i) == MIDIMessageSet(m, properties[i], call.args[properties[i]])
           m1 == SetOne(m0, call, properties, 1)
           m2 == SetOne(m1, call, properties, 2)
           m3 == SetOne(m2, call, properties, 3)
           m4 == SetOne(m3, call, properties, 4)
           Body(h) == [i \in 0 .. n |-> IF i = 0 THEN m0 ELSE next(h[i - 1], i)]
           set == CHOOSE h : h = Body(h)
           g == [i \in 0 .. n |-> IF i = 0 THEN m0 ELSE IF i = 1 THEN m1 ELSE IF i = 2 THEN m2
                                  ELSE IF i = 3 THEN m3 ELSE m4]
<1>1. Compose(call, byte) = set[n]
  BY DEF Compose
<1>0. Len(properties) = n
  OBVIOUS
<1>2. \A m, i : SetOne(m, call, properties, i) = IF i <= n THEN next(m, i) ELSE m
  BY <1>0 DEF SetOne
<1>7. n = 0 \/ n = 1 \/ n = 2 \/ n = 3 \/ n = 4
  <2>1. n \in Nat /\ n <= 4
    OBVIOUS
  <2> QED BY ONLY <2>1
<1> HIDE DEF next
<1>8. /\ m1 = IF 1 <= n THEN next(m0, 1) ELSE m0
      /\ m2 = IF 2 <= n THEN next(m1, 2) ELSE m1
      /\ m3 = IF 3 <= n THEN next(m2, 3) ELSE m2
      /\ m4 = IF 4 <= n THEN next(m3, 4) ELSE m3
  BY <1>2
<1> HIDE DEF m0, m1, m2, m3, m4
<1>3. g = Body(g)
  <2>1. ASSUME NEW i \in 0 .. n
        PROVE  g[i] = IF i = 0 THEN m0 ELSE next(g[i - 1], i)
    BY <1>7, <1>8
  <2> QED BY <2>1
<1>4. set = Body(set)
  BY <1>3
<1> HIDE DEF set
<1>5. set[0] = m0 /\ \A i \in 1 .. n : set[i] = next(set[i - 1], i)
  BY <1>4
<1>6. set[n] = m4
  BY <1>5, <1>7, <1>8
<1> QED BY <1>1, <1>6 DEF m0, m1, m2, m3, m4, SetAll

\* Kinds of messages have different statuses.
LEMMA KindOne == ASSUME NEW k \in Kinds PROVE KindOf(k.status) = k
<1>1. ASSUME NEW l \in Kinds, l.status = k.status PROVE l = k
  <2> DEFINE Named == {NoteOff, NoteOn, PolyphonicKeyPressure, ControlChange, ProgramChange, ChannelPressure,
                       PitchWheelChange, SystemExclusive, TimeCodeQuarterFrame, SongPositionPointer, SongSelect,
                       TuneRequest, EndOfExclusive}
  <2>1. \A h \in Kinds : h \in Named \/ \E s \in 248 .. 255 : h = RealTime(s)
    BY DEF Kinds
  <2>2. \A h \in Named : h.status < 248
    BY DEF NoteOff, NoteOn, PolyphonicKeyPressure, ControlChange, ProgramChange, ChannelPressure,
           PitchWheelChange, SystemExclusive, TimeCodeQuarterFrame, SongPositionPointer, SongSelect,
           TuneRequest, EndOfExclusive, Kind
  <2>3. \A s : RealTime(s).status = s
    BY DEF RealTime, Kind
  <2>4. \A h, g \in Named : h.status = g.status => h = g
    BY DEF NoteOff, NoteOn, PolyphonicKeyPressure, ControlChange, ProgramChange, ChannelPressure,
           PitchWheelChange, SystemExclusive, TimeCodeQuarterFrame, SongPositionPointer, SongSelect,
           TuneRequest, EndOfExclusive, Kind
  <2>5. \A s \in 248 .. 255 : ~(s < 248)
    OBVIOUS
  <2> HIDE DEF Named
  <2> QED BY <1>1, <2>1, <2>2, <2>3, <2>4, <2>5
<1> QED BY <1>1 DEF KindOf

\* The kinds by their statuses.
LEMMA KindsByStatus ==
    /\ KindOf(8) = NoteOff /\ KindOf(9) = NoteOn /\ KindOf(10) = PolyphonicKeyPressure /\ KindOf(11) = ControlChange
    /\ KindOf(12) = ProgramChange /\ KindOf(13) = ChannelPressure /\ KindOf(14) = PitchWheelChange
    /\ KindOf(240) = SystemExclusive /\ KindOf(241) = TimeCodeQuarterFrame /\ KindOf(242) = SongPositionPointer
    /\ KindOf(243) = SongSelect /\ \A s \in 248 .. 255 : KindOf(s) = RealTime(s)
<1>1. \A k : k \in {NoteOff, NoteOn, PolyphonicKeyPressure, ControlChange, ProgramChange, ChannelPressure,
                    PitchWheelChange, SystemExclusive, TimeCodeQuarterFrame, SongPositionPointer, SongSelect}
             => k \in Kinds /\ KindOf(k.status) = k
  BY KindOne DEF Kinds
<1>2. \A s \in 248 .. 255 : RealTime(s) \in Kinds /\ KindOf(RealTime(s).status) = RealTime(s)
  BY KindOne DEF Kinds
<1>3. /\ NoteOff.status = 8 /\ NoteOn.status = 9 /\ PolyphonicKeyPressure.status = 10 /\ ControlChange.status = 11
      /\ ProgramChange.status = 12 /\ ChannelPressure.status = 13 /\ PitchWheelChange.status = 14
      /\ SystemExclusive.status = 240 /\ TimeCodeQuarterFrame.status = 241 /\ SongPositionPointer.status = 242
      /\ SongSelect.status = 243
  BY DEF NoteOff, NoteOn, PolyphonicKeyPressure, ControlChange, ProgramChange, ChannelPressure, PitchWheelChange,
         SystemExclusive, TimeCodeQuarterFrame, SongPositionPointer, SongSelect, Kind
<1>4. \A s : RealTime(s).status = s
  BY DEF RealTime, Kind
<1> QED BY <1>1, <1>2, <1>3, <1>4

\* A message that the coding keeps, and says the call.
Says(m, call) ==
    Valid(m) /\ Recv(Got(m, <<>>)) = call /\ (m.format = "system_exclusive" <=> call.status = SystemExclusive.status)

\* A byte of two halves.
LEMMA Halved ==
    ASSUME NEW s \in Nat, NEW c \in Nat, c < 16
    PROVE  (s * 16 + c) \div 16 = s /\ (s * 16 + c) % 16 = c
OBVIOUS

\* A message whose second and third byte are below 128 is one the coding keeps.
LEMMA PlainValid ==
    ASSUME NEW f \in Formats, f # "tune_request", f # "system_exclusive", NEW a \in Tests[f],
           NEW b \in Nat, b < 128, NEW c \in Nat, c < 128, Size(f) < 3 => c = 0, Size(f) < 2 => b = 0
    PROVE  LET m == Message(f, a, b, c, 0, <<>>) IN Valid(m) /\ \A tail : Got(m, tail) = m
<1> DEFINE m == Message(f, a, b, c, 0, <<>>)
           bytes == <<a, b, c, 0>>
<1>1. m.format = f /\ m.bytes = bytes /\ m.data = <<>>
  BY DEF Message
<1>2. bytes[1] = a /\ bytes[2] = b /\ bytes[3] = c /\ bytes[4] = 0
  OBVIOUS
<1>3. a \in Octet /\ b \in Octet /\ c \in Octet /\ 0 \in Octet
  <2>1. a \in 128 .. 255
    BY FirstByte
  <2>2. a \in Int /\ 128 <= a /\ a <= 255
    <3>1. 128 \in Int /\ 255 \in Int
      OBVIOUS
    <3> QED BY <2>1, <3>1, InRangeOf, ZenonT(30)
  <2>3. a \in Int /\ 0 <= a /\ a <= 255
    BY <2>2
  <2>4. b \in Int /\ 0 <= b /\ b <= 255 /\ c \in Int /\ 0 <= c /\ c <= 255 /\ 0 \in Int /\ 0 <= 0 /\ 0 <= 255
    OBVIOUS
  <2> QED BY <2>3, <2>4, OctetRange, ZenonT(30)
<1>4. bytes \in [1 .. 4 -> Octet]
  BY <1>3
<1> HIDE DEF m, bytes
<1>5. Valid(m)
  BY <1>1, <1>2, <1>4 DEF Valid
<1>6. ASSUME NEW tail PROVE Got(m, tail) = m
  <2>1. Got(m, tail) = [format |-> f, bytes |-> [i \in 1 .. 4 |-> IF i <= Size(f) THEN bytes[i] ELSE 0], data |-> <<>>]
    BY <1>1 DEF Got, Carried
  <2>2. [i \in 1 .. 4 |-> IF i <= Size(f) THEN bytes[i] ELSE 0] = bytes
    <3>1. Size(f) \in Int /\ 1 <= Size(f)
      BY FormatSize
    <3>2. ASSUME NEW i \in 1 .. 4 PROVE (IF i <= Size(f) THEN bytes[i] ELSE 0) = bytes[i]
      <4>1. i = 1 \/ i = 2 \/ i = 3 \/ i = 4
        OBVIOUS
      <4> QED BY <1>2, <3>1, <4>1
    <3> QED BY <1>4, <3>2
  <2>3. m = [format |-> f, bytes |-> bytes, data |-> <<>>]
    BY DEF m, Message, bytes
  <2> QED BY <2>1, <2>2, <2>3
<1> QED BY <1>5, <1>6 DEF m

\* Setting what a message keeps in the upper half of a byte.
LEMMA SetHigh ==
    ASSUME NEW m, NEW p, NEW v, NEW at, Layout[m.format][p] = <<at, "high">>
    PROVE  MIDIMessageSet(m, p, v) = With(m, at, (v * 16) + (m.bytes[at] % 16))
BY DEF MIDIMessageSet, With

\* In the lower half.
LEMMA SetLow ==
    ASSUME NEW m, NEW p, NEW v, NEW at, Layout[m.format][p] = <<at, "low">>
    PROVE  MIDIMessageSet(m, p, v) = With(m, at, ((m.bytes[at] \div 16) * 16) + v)
BY DEF MIDIMessageSet, With

\* In a byte with seven bits.
LEMMA SetByte ==
    ASSUME NEW m, NEW p, NEW v, NEW at, Layout[m.format][p] = <<at, "byte">>
    PROVE  MIDIMessageSet(m, p, v) = With(m, at, v)
BY DEF MIDIMessageSet, With

\* In a whole byte.
LEMMA SetWhole ==
    ASSUME NEW m, NEW p, NEW v, NEW at, Layout[m.format][p] = <<at, "whole">>
    PROVE  MIDIMessageSet(m, p, v) = With(m, at, v)
BY DEF MIDIMessageSet, With

\* The bytes of a message.
LEMMA Bytes ==
    ASSUME NEW f, NEW a, NEW b, NEW c, NEW d, NEW x
    PROVE  LET m == Message(f, a, b, c, d, x)
           IN  /\ m.format = f /\ m.data = x
               /\ m.bytes[1] = a /\ m.bytes[2] = b /\ m.bytes[3] = c /\ m.bytes[4] = d
BY DEF Message

\* Getting them.
LEMMA GetParts ==
    ASSUME NEW f, NEW a, NEW b, NEW c, NEW d, NEW x, NEW p
    PROVE  LET m == Message(f, a, b, c, d, x)
           IN  /\ Layout[f][p] = <<1, "whole">> => MIDIMessageGet(m, p) = a
               /\ Layout[f][p] = <<2, "byte">> => MIDIMessageGet(m, p) = b
               /\ Layout[f][p] = <<3, "byte">> => MIDIMessageGet(m, p) = c
               /\ Layout[f][p] = <<1, "high">> => MIDIMessageGet(m, p) = a \div 16
               /\ Layout[f][p] = <<1, "low">> => MIDIMessageGet(m, p) = a % 16
<1> DEFINE m == Message(f, a, b, c, d, x)
<1>1. m.format = f /\ m.bytes[1] = a /\ m.bytes[2] = b /\ m.bytes[3] = c
  BY DEF Message
<1> HIDE DEF m
<1>2. /\ Layout[f][p] = <<1, "whole">> => MIDIMessageGet(m, p) = m.bytes[1]
      /\ Layout[f][p] = <<2, "byte">> => MIDIMessageGet(m, p) = m.bytes[2]
      /\ Layout[f][p] = <<3, "byte">> => MIDIMessageGet(m, p) = m.bytes[3]
  BY <1>1 DEF MIDIMessageGet
<1>3. /\ Layout[f][p] = <<1, "high">> => MIDIMessageGet(m, p) = m.bytes[1] \div 16
      /\ Layout[f][p] = <<1, "low">> => MIDIMessageGet(m, p) = m.bytes[1] % 16
  BY <1>1 DEF MIDIMessageGet
<1> QED BY <1>1, <1>2, <1>3 DEF m

\* A format of channel messages.
OfChannel(s, f) ==
    /\ MIDIMessageFormatForStatus(s) = f /\ f \in Formats \ {"tune_request", "system_exclusive"}
    /\ Layout[f]["status"] = <<1, "high">> /\ Layout[f]["channel"] = <<1, "low">>
    /\ \A c \in Nat : c < 16 => s * 16 + c \in Tests[f]

\* A new channel message has its status from the beginning, and then its channel:
\* nothing remains of what the first byte was.
LEMMA Opened ==
    ASSUME NEW s \in Nat, s < 16, NEW f, OfChannel(s, f), NEW byte \in Nat, NEW c \in Nat, c < 16
    PROVE  MIDIMessageSet(MIDIMessageCreate(s, byte), "channel", c) = Message(f, s * 16 + c, 0, 0, 0, <<>>)
<1> DEFINE m == Message(f, byte, 0, 0, 0, <<>>)
           g == byte % 16
           a == s * 16 + g
<1>1. Accepts(f, "status", s)
  <2>1. s \in 0 .. 15
    <3>1. 0 \in Int /\ 15 \in Int /\ s \in Int /\ 0 <= s /\ s <= 15
      OBVIOUS
    <3> QED BY <3>1, InRangeOf, ZenonT(30)
  <2>2. Layout[f]["status"][2] = "high" /\ f # "tune_request"
    BY DEF OfChannel
  <2> QED BY <2>1, <2>2 DEF Accepts
<1>2. MIDIMessageCreate(s, byte) = MIDIMessageSet(m, "status", s)
  <2>1. m = [format |-> MIDIMessageFormatForStatus(s), bytes |-> <<byte, 0, 0, 0>>, data |-> <<>>]
    BY DEF m, Message, OfChannel
  <2>2. m.format = f
    BY DEF Message
  <2> HIDE DEF m
  <2> QED BY <1>1, <2>1, <2>2 DEF MIDIMessageCreate
<1>3. MIDIMessageSet(m, "status", s) = Message(f, a, 0, 0, 0, <<>>)
  <2>1. m.format = f /\ m.bytes[1] = byte
    BY Bytes
  <2>2. MIDIMessageSet(m, "status", s) = With(m, 1, (s * 16) + (m.bytes[1] % 16))
    <3> HIDE DEF m
    <3> QED BY <2>1, SetHigh DEF OfChannel
  <2> QED BY <2>1, <2>2, ByteSet
<1>4. MIDIMessageSet(Message(f, a, 0, 0, 0, <<>>), "channel", c) = Message(f, (a \div 16) * 16 + c, 0, 0, 0, <<>>)
  <2> DEFINE n == Message(f, a, 0, 0, 0, <<>>)
  <2>1. n.format = f /\ n.bytes[1] = a
    BY Bytes
  <2>2. MIDIMessageSet(n, "channel", c) = With(n, 1, ((n.bytes[1] \div 16) * 16) + c)
    <3> HIDE DEF n
    <3> QED BY <2>1, SetLow DEF OfChannel
  <2> QED BY <2>1, <2>2, ByteSet
<1>5. a \div 16 = s
  <2>1. g \in Nat /\ g < 16
    OBVIOUS
  <2> HIDE DEF g
  <2> QED BY <2>1, Halved
<1> QED BY <1>2, <1>3, <1>4, <1>5

\* What the setters take.
LEMMA Taken ==
    ASSUME NEW f, NEW p, NEW v, Accepts(f, p, v)
    PROVE  /\ f # "tune_request"
           /\ Layout[f][p][2] = "byte" => v \in Nat /\ v < 128
           /\ Layout[f][p][2] = "low" => v \in Nat /\ v < 16
           /\ Layout[f][p][2] = "high" /\ p # "status" => v \in Nat /\ v < 8
<1>1. f # "tune_request"
  BY DEF Accepts
<1>2. \A n \in Nat : n > 0 => \A x : x \in 0 .. n - 1 => x \in Nat /\ x < n
  OBVIOUS
<1>3. ASSUME Layout[f][p][2] = "byte" PROVE v \in Nat /\ v < 128
  <2>1. v \in 0 .. 127
    BY <1>1, <1>3 DEF Accepts
  <2>2. 0 \in Int /\ 127 \in Int
    OBVIOUS
  <2>3. v \in Int /\ 0 <= v /\ v <= 127
    BY <2>1, <2>2, InRangeOf, ZenonT(30)
  <2> QED BY <2>3
<1>4. ASSUME Layout[f][p][2] = "low" PROVE v \in Nat /\ v < 16
  <2>1. v \in 0 .. 15
    BY <1>1, <1>4 DEF Accepts
  <2> QED BY <2>1
<1>5. ASSUME Layout[f][p][2] = "high", p # "status" PROVE v \in Nat /\ v < 8
  <2>1. v \in 0 .. 7
    BY <1>1, <1>5 DEF Accepts
  <2> QED BY <2>1
<1> QED BY <1>1, <1>3, <1>4, <1>5

\* A message is received as a call when its properties are those of the call.
LEMMA Received ==
    ASSUME NEW m, NEW call, IsCall(call), NEW kind, KindOf(call.status) = kind, kind.status = call.status,
           KindOf(MIDIMessageGet(m, "status")) = kind,
           \A p \in Range(kind.properties) :
               (IF p = "id" THEN MIDIMessageGet(m, p) % 256 ELSE MIDIMessageGet(m, p)) = call.args[p]
    PROVE  Recv(m) = call
<1> DEFINE R == Range(kind.properties)
           value(p) == IF p = "id" THEN MIDIMessageGet(m, p) % 256 ELSE MIDIMessageGet(m, p)
<1>1. Recv(m) = [status |-> kind.status, args |-> [p \in R |-> value(p)]]
  BY DEF Recv
<1>2. call = [status |-> call.status, args |-> [p \in R |-> call.args[p]]]
  BY DEF IsCall
<1> HIDE DEF R, value
<1>3. \A p \in R : value(p) = call.args[p]
  BY DEF R, value
<1>4. [p \in R |-> value(p)] = [p \in R |-> call.args[p]]
  BY <1>3
<1> QED BY <1>1, <1>2, <1>4

\* The properties of a call, one by one.
LEMMA Properties ==
    /\ Range(<<>>) = {}
    /\ \A p : Range(<<p>>) = {p} /\ Len(<<p>>) = 1 /\ <<p>>[1] = p
    /\ \A p, q : Range(<<p, q>>) = {p, q} /\ Len(<<p, q>>) = 2 /\ <<p, q>>[1] = p /\ <<p, q>>[2] = q
    /\ \A p, q, r : Range(<<p, q, r>>) = {p, q, r} /\ Len(<<p, q, r>>) = 3
           /\ <<p, q, r>>[1] = p /\ <<p, q, r>>[2] = q /\ <<p, q, r>>[3] = r
BY DEF Range

\* A message on a channel with two bytes.
LEMMA ThreeBytes ==
    ASSUME NEW s \in Nat, s < 16, NEW f, OfChannel(s, f), NEW p, NEW q, Layout[f][p] = <<2, "byte">>,
           Layout[f][q] = <<3, "byte">>, p # "id", q # "id", KindOf(s) = Kind(s, <<"channel", p, q>>), Size(f) = 3,
           NEW call, IsCall(call), call.status = s, Sendable(call), NEW byte \in Nat
    PROVE  Says(Compose(call, byte), call)
<1> DEFINE c == call.args["channel"]
           x == call.args[p]
           y == call.args[q]
           properties == <<"channel", p, q>>
           m1 == Message(f, s * 16 + c, 0, 0, 0, <<>>)
           m2 == Message(f, s * 16 + c, x, 0, 0, <<>>)
           m == Message(f, s * 16 + c, x, y, 0, <<>>)
<1>1. KindOf(s).properties = properties /\ KindOf(s).status = s /\ Len(properties) = 3
      /\ Range(properties) = {"channel", p, q}
      /\ properties[1] = "channel" /\ properties[2] = p /\ properties[3] = q
  BY Properties DEF Kind
<1>2. MIDIMessageFormatForStatus(s) = f /\ f \in Formats /\ f # "tune_request" /\ f # "system_exclusive"
      /\ Layout[f]["status"] = <<1, "high">> /\ Layout[f]["channel"] = <<1, "low">>
  BY DEF OfChannel
<1>3. c \in Nat /\ c < 16 /\ x \in Nat /\ x < 128 /\ y \in Nat /\ y < 128
  <2>1. {"channel", p, q} = DOMAIN call.args
    BY <1>1 DEF IsCall
  <2>2. Accepts(f, "channel", c) /\ Accepts(f, p, x) /\ Accepts(f, q, y)
    BY <1>2, <2>1 DEF Sendable
  <2>3. Layout[f]["channel"][2] = "low" /\ Layout[f][p][2] = "byte" /\ Layout[f][q][2] = "byte"
    BY <1>2
  <2> QED BY <2>2, <2>3, Taken
<1> HIDE DEF c, x, y, properties
<1>4. MIDIMessageSet(MIDIMessageCreate(s, byte), "channel", c) = m1
  <2>1. s \in Nat /\ s < 16 /\ OfChannel(s, f) /\ byte \in Nat /\ c \in Nat /\ c < 16
    BY <1>3
  <2> QED BY ONLY <2>1, Opened DEF m1
<1>5. MIDIMessageSet(m1, p, x) = m2 /\ MIDIMessageSet(m2, q, y) = m
  <2>1. m1.format = f /\ m2.format = f
    BY Bytes
  <2>2. MIDIMessageSet(m1, p, x) = With(m1, 2, x) /\ MIDIMessageSet(m2, q, y) = With(m2, 3, y)
    <3> HIDE DEF m1, m2
    <3> QED BY <2>1, SetByte
  <2> QED BY <2>2, ByteSet
<1> HIDE DEF m1, m2
<1>6. Compose(call, byte) = m
  <2>1. properties = KindOf(call.status).properties /\ Len(properties) = 3 /\ 3 \in Nat /\ 3 <= 4
    BY <1>1
  <2>2. Compose(call, byte) = SetAll(MIDIMessageCreate(call.status, byte), call, properties)
    BY ONLY <2>1, Composed
  <2>3. /\ SetOne(MIDIMessageCreate(s, byte), call, properties, 1) = m1 /\ SetOne(m1, call, properties, 2) = m2
        /\ SetOne(m2, call, properties, 3) = m /\ SetOne(m, call, properties, 4) = m
    <3> HIDE DEF m
    <3> QED BY <1>1, <1>4, <1>5 DEF SetOne, c, x, y
  <2> QED BY <2>2, <2>3 DEF SetAll
<1>7. Valid(m) /\ Got(m, <<>>) = m
  <2>1. s * 16 + c \in Tests[f]
    BY <1>3 DEF OfChannel
  <2> DEFINE a == s * 16 + c
  <2> HIDE DEF a
  <2>2. LET n == Message(f, a, x, y, 0, <<>>) IN Valid(n) /\ \A tail : Got(n, tail) = n
    BY <1>2, <1>3, <2>1, PlainValid DEF a
  <2> QED BY <2>2 DEF a
<1>8. Recv(m) = call
  <2> DEFINE a == s * 16 + c
  <2>1. a \div 16 = s /\ a % 16 = c
    BY <1>3, Halved
  <2> HIDE DEF a
  <2>2. MIDIMessageGet(m, "status") = s /\ MIDIMessageGet(m, "channel") = c
        /\ MIDIMessageGet(m, p) = x /\ MIDIMessageGet(m, q) = y
    BY <1>2, <2>1, GetParts DEF a
  <2> HIDE DEF m
  <2> QED BY <1>1, <2>2, Received DEF c, x, y
<1>9. m.format # "system_exclusive" /\ call.status # SystemExclusive.status
  BY <1>2, Bytes DEF SystemExclusive, Kind
<1> QED BY <1>6, <1>7, <1>8, <1>9 DEF Says

\* A message on a channel with one byte.
LEMMA TwoBytes ==
    ASSUME NEW s \in Nat, s < 16, NEW f, OfChannel(s, f), NEW p, Layout[f][p] = <<2, "byte">>, p # "id",
           KindOf(s) = Kind(s, <<"channel", p>>), Size(f) = 2,
           NEW call, IsCall(call), call.status = s, Sendable(call), NEW byte \in Nat
    PROVE  Says(Compose(call, byte), call)
<1> DEFINE c == call.args["channel"]
           x == call.args[p]
           properties == <<"channel", p>>
           m1 == Message(f, s * 16 + c, 0, 0, 0, <<>>)
           m == Message(f, s * 16 + c, x, 0, 0, <<>>)
<1>1. KindOf(s).properties = properties /\ KindOf(s).status = s /\ Len(properties) = 2
      /\ Range(properties) = {"channel", p} /\ properties[1] = "channel" /\ properties[2] = p
  BY Properties DEF Kind
<1>2. MIDIMessageFormatForStatus(s) = f /\ f \in Formats /\ f # "tune_request" /\ f # "system_exclusive"
      /\ Layout[f]["status"] = <<1, "high">> /\ Layout[f]["channel"] = <<1, "low">>
  BY DEF OfChannel
<1>3. c \in Nat /\ c < 16 /\ x \in Nat /\ x < 128
  <2>1. {"channel", p} = DOMAIN call.args
    BY <1>1 DEF IsCall
  <2>2. Accepts(f, "channel", c) /\ Accepts(f, p, x)
    BY <1>2, <2>1 DEF Sendable
  <2>3. Layout[f]["channel"][2] = "low" /\ Layout[f][p][2] = "byte"
    BY <1>2
  <2> QED BY <2>2, <2>3, Taken
<1> HIDE DEF c, x, properties
<1>4. MIDIMessageSet(MIDIMessageCreate(s, byte), "channel", c) = m1
  <2>1. s \in Nat /\ s < 16 /\ OfChannel(s, f) /\ byte \in Nat /\ c \in Nat /\ c < 16
    BY <1>3
  <2> QED BY ONLY <2>1, Opened DEF m1
<1>5. MIDIMessageSet(m1, p, x) = m
  <2>1. m1.format = f
    BY Bytes
  <2>2. MIDIMessageSet(m1, p, x) = With(m1, 2, x)
    <3> HIDE DEF m1
    <3> QED BY <2>1, SetByte
  <2> QED BY <2>2, ByteSet
<1> HIDE DEF m1
<1>6. Compose(call, byte) = m
  <2>1. properties = KindOf(call.status).properties /\ Len(properties) = 2 /\ 2 \in Nat /\ 2 <= 4
    BY <1>1
  <2>2. Compose(call, byte) = SetAll(MIDIMessageCreate(call.status, byte), call, properties)
    BY ONLY <2>1, Composed
  <2>3. /\ SetOne(MIDIMessageCreate(s, byte), call, properties, 1) = m1 /\ SetOne(m1, call, properties, 2) = m
        /\ SetOne(m, call, properties, 3) = m /\ SetOne(m, call, properties, 4) = m
    <3> HIDE DEF m
    <3> QED BY <1>1, <1>4, <1>5 DEF SetOne, c, x
  <2> QED BY <2>2, <2>3 DEF SetAll
<1>7. Valid(m) /\ Got(m, <<>>) = m
  <2>1. s * 16 + c \in Tests[f]
    BY <1>3 DEF OfChannel
  <2> DEFINE a == s * 16 + c
  <2> HIDE DEF a
  <2>2. LET n == Message(f, a, x, 0, 0, <<>>) IN Valid(n) /\ \A tail : Got(n, tail) = n
    BY <1>2, <1>3, <2>1, PlainValid DEF a
  <2> QED BY <2>2 DEF a
<1>8. Recv(m) = call
  <2> DEFINE a == s * 16 + c
  <2>1. a \div 16 = s /\ a % 16 = c
    BY <1>3, Halved
  <2> HIDE DEF a
  <2>2. MIDIMessageGet(m, "status") = s /\ MIDIMessageGet(m, "channel") = c /\ MIDIMessageGet(m, p) = x
    BY <1>2, <2>1, GetParts DEF a
  <2> HIDE DEF m
  <2> QED BY <1>1, <2>2, Received DEF c, x
<1>9. m.format # "system_exclusive" /\ call.status # SystemExclusive.status
  BY <1>2, Bytes DEF SystemExclusive, Kind
<1> QED BY <1>6, <1>7, <1>8, <1>9 DEF Says

\* Two bytes of seven bits for a value of fourteen.
LEMMA LongHalves ==
    ASSUME NEW v \in Nat, v <= LongMax
    PROVE  /\ v % 128 \in Nat /\ v % 128 < 128 /\ (v \div 128) % 128 \in Nat /\ (v \div 128) % 128 < 128
           /\ (((v \div 128) % 128) % 128) * 128 + ((v % 128) % 128) = v
<1> DEFINE q == v \div 128
           r == v % 128
<1>1. q \in Nat /\ r \in Nat /\ r < 128 /\ v = q * 128 + r
  OBVIOUS
<1>2. v \in Nat /\ v <= 16383
  BY DEF LongMax
<1> HIDE DEF q, r
<1>3. q < 128
  BY <1>1, <1>2
<1>4. q % 128 = q /\ r % 128 = r
  BY <1>1, <1>3
<1>5. /\ r \in Nat /\ r < 128 /\ q % 128 \in Nat /\ q % 128 < 128
      /\ ((q % 128) % 128) * 128 + (r % 128) = v
  <2>1. (q % 128) % 128 = q /\ r % 128 = r
    BY ONLY <1>4
  <2>2. q * 128 + r = v
    BY <1>1
  <2>3. ((q % 128) % 128) * 128 + (r % 128) = v
    <3> DEFINE e == (q % 128) % 128
               d == r % 128
    <3>1. e = q /\ d = r
      BY <2>1
    <3> HIDE DEF e, d
    <3>2. e * 128 + d = v
      BY <2>2, <3>1
    <3> QED BY <3>2, Zenon DEF e, d
  <2>4. r \in Nat /\ r < 128 /\ q % 128 \in Nat /\ q % 128 < 128
    BY <1>1, <1>3, <1>4
  <2> QED BY ONLY <2>3, <2>4, Zenon
<1> QED BY <1>5, Zenon DEF q, r

\* Setting a value of 14 bits.
LEMMA SetLong ==
    ASSUME NEW f, NEW a, NEW p, NEW v, Layout[f][p] = <<2, "long">>
    PROVE  MIDIMessageSet(Message(f, a, 0, 0, 0, <<>>), p, v) = Message(f, a, v % 128, (v \div 128) % 128, 0, <<>>)
<1> DEFINE m == Message(f, a, 0, 0, 0, <<>>)
           b == v % 128
           c == (v \div 128) % 128
<1>1. m.format = f
  BY Bytes
<1>2. MIDIMessageSet(m, p, v) = With(With(m, 2, b), 3, c)
  <2> HIDE DEF m
  <2> QED BY <1>1 DEF MIDIMessageSet, With
<1> HIDE DEF b, c
<1>3. With(m, 2, b) = Message(f, a, b, 0, 0, <<>>)
  BY ByteSet
<1>4. With(Message(f, a, b, 0, 0, <<>>), 3, c) = Message(f, a, b, c, 0, <<>>)
  BY ByteSet
<1> QED BY <1>2, <1>3, <1>4 DEF b, c

\* Getting it.
LEMMA GetLong ==
    ASSUME NEW f, NEW a, NEW b, NEW c, NEW p, Layout[f][p] = <<2, "long">>
    PROVE  MIDIMessageGet(Message(f, a, b, c, 0, <<>>), p) = (c % 128) * 128 + (b % 128)
<1> DEFINE m == Message(f, a, b, c, 0, <<>>)
<1>1. m.format = f /\ m.bytes[2] = b /\ m.bytes[3] = c
  BY Bytes
<1> HIDE DEF m
<1>2. MIDIMessageGet(m, p) = ((m.bytes[3] % 128) * 128) + (m.bytes[2] % 128)
  BY <1>1 DEF MIDIMessageGet
<1> QED BY <1>1, <1>2 DEF m

\* A channel status has the format of its first bytes.
LEMMA ChannelFormat ==
    ASSUME NEW s \in Nat, s >= 8, s < 15, NEW f \in Formats \ {"tune_request", "system_exclusive"},
           Layout[f]["status"] = <<1, "high">>, Layout[f]["channel"] = <<1, "low">>,
           \A c \in Nat : c < 16 => s * 16 + c \in Tests[f]
    PROVE  OfChannel(s, f)
<1> DEFINE b == (s * 16) % 256
<1>1. b = s * 16 + 0 /\ b >= 128
  OBVIOUS
<1>2. b \in Tests[f]
  BY <1>1
<1> HIDE DEF b
<1>3. MIDIMessageFormatDetect(b) = f
  BY <1>2, DetectOne
<1>4. MIDIMessageFormatForStatus(s) = f
  BY <1>1, <1>3 DEF MIDIMessageFormatForStatus, b
<1> QED BY <1>4 DEF OfChannel

\* The messages on a channel.
LEMMA ChannelFormats ==
    /\ OfChannel(8, "note_off_on") /\ OfChannel(9, "note_off_on") /\ OfChannel(10, "polyphonic_key_pressure")
    /\ OfChannel(11, "control_change") /\ OfChannel(12, "program_change") /\ OfChannel(13, "channel_pressure")
    /\ OfChannel(14, "pitch_wheel_change")
<1>1. \A f \in {"note_off_on", "polyphonic_key_pressure", "control_change", "program_change", "channel_pressure",
                "pitch_wheel_change"} :
          /\ f \in Formats \ {"tune_request", "system_exclusive"}
          /\ Layout[f]["status"] = <<1, "high">> /\ Layout[f]["channel"] = <<1, "low">>
  BY SMTT(30) DEF Formats, Tests, Layout, NoteLayout, KeyPressureLayout, ControlChangeLayout, ProgramChangeLayout,
         ChannelPressureLayout, PitchWheelLayout
<1>2. \A c \in Nat : c < 16 => /\ 8 * 16 + c \in Tests["note_off_on"] /\ 9 * 16 + c \in Tests["note_off_on"]
                               /\ 10 * 16 + c \in Tests["polyphonic_key_pressure"]
                               /\ 11 * 16 + c \in Tests["control_change"]
  BY DEF Tests
<1>3. \A c \in Nat : c < 16 => /\ 12 * 16 + c \in Tests["program_change"]
                               /\ 13 * 16 + c \in Tests["channel_pressure"]
                               /\ 14 * 16 + c \in Tests["pitch_wheel_change"]
  BY DEF Tests
<1>4. /\ 8 \in Nat /\ 8 >= 8 /\ 8 < 15 /\ 9 \in Nat /\ 9 >= 8 /\ 9 < 15 /\ 10 \in Nat /\ 10 >= 8 /\ 10 < 15
      /\ 11 \in Nat /\ 11 >= 8 /\ 11 < 15 /\ 12 \in Nat /\ 12 >= 8 /\ 12 < 15 /\ 13 \in Nat /\ 13 >= 8 /\ 13 < 15
      /\ 14 \in Nat /\ 14 >= 8 /\ 14 < 15
  OBVIOUS
<1>5. OfChannel(8, "note_off_on")
  BY <1>1, <1>2, <1>4, ChannelFormat
<1>6. OfChannel(9, "note_off_on")
  BY <1>1, <1>2, <1>4, ChannelFormat
<1>7. OfChannel(10, "polyphonic_key_pressure")
  BY <1>1, <1>2, <1>4, ChannelFormat
<1>8. OfChannel(11, "control_change")
  BY <1>1, <1>2, <1>4, ChannelFormat
<1>9. OfChannel(12, "program_change")
  BY <1>1, <1>3, <1>4, ChannelFormat
<1>10. OfChannel(13, "channel_pressure")
  BY <1>1, <1>3, <1>4, ChannelFormat
<1>11. OfChannel(14, "pitch_wheel_change")
  BY <1>1, <1>3, <1>4, ChannelFormat
<1> QED BY <1>5, <1>6, <1>7, <1>8, <1>9, <1>10, <1>11

\* What they say, pitch wheels excepted.
LEMMA ChannelSaid ==
    ASSUME NEW call, IsCall(call), Sendable(call), NEW byte \in Nat, call.status \in {8, 9, 10, 11, 12, 13}
    PROVE  Says(Compose(call, byte), call)
<1>1. CASE call.status = 8
  <2>1. /\ KindOf(8) = Kind(8, <<"channel", "key", "velocity">>) /\ Layout["note_off_on"]["key"] = <<2, "byte">>
        /\ Layout["note_off_on"]["velocity"] = <<3, "byte">> /\ Size("note_off_on") = 3
    BY KindsByStatus DEF NoteOff, Layout, NoteLayout, Size
  <2> QED BY <1>1, <2>1, ChannelFormats, ThreeBytes
<1>2. CASE call.status = 9
  <2>1. /\ KindOf(9) = Kind(9, <<"channel", "key", "velocity">>) /\ Layout["note_off_on"]["key"] = <<2, "byte">>
        /\ Layout["note_off_on"]["velocity"] = <<3, "byte">> /\ Size("note_off_on") = 3
    BY KindsByStatus DEF NoteOn, Layout, NoteLayout, Size
  <2> QED BY <1>2, <2>1, ChannelFormats, ThreeBytes
<1>3. CASE call.status = 10
  <2>1. /\ KindOf(10) = Kind(10, <<"channel", "key", "pressure">>)
        /\ Layout["polyphonic_key_pressure"]["key"] = <<2, "byte">>
        /\ Layout["polyphonic_key_pressure"]["pressure"] = <<3, "byte">> /\ Size("polyphonic_key_pressure") = 3
    BY KindsByStatus DEF PolyphonicKeyPressure, Layout, KeyPressureLayout, Size
  <2> QED BY <1>3, <2>1, ChannelFormats, ThreeBytes
<1>4. CASE call.status = 11
  <2>1. /\ KindOf(11) = Kind(11, <<"channel", "control", "value">>)
        /\ Layout["control_change"]["control"] = <<2, "byte">>
        /\ Layout["control_change"]["value"] = <<3, "byte">> /\ Size("control_change") = 3
    BY KindsByStatus DEF ControlChange, Layout, ControlChangeLayout, Size
  <2> QED BY <1>4, <2>1, ChannelFormats, ThreeBytes
<1>5. CASE call.status = 12
  <2>1. /\ KindOf(12) = Kind(12, <<"channel", "program">>)
        /\ Layout["program_change"]["program"] = <<2, "byte">> /\ Size("program_change") = 2
    BY KindsByStatus DEF ProgramChange, Layout, ProgramChangeLayout, Size
  <2> QED BY <1>5, <2>1, ChannelFormats, TwoBytes
<1>6. CASE call.status = 13
  <2>1. /\ KindOf(13) = Kind(13, <<"channel", "pressure">>)
        /\ Layout["channel_pressure"]["pressure"] = <<2, "byte">> /\ Size("channel_pressure") = 2
    BY KindsByStatus DEF ChannelPressure, Layout, ChannelPressureLayout, Size
  <2> QED BY <1>6, <2>1, ChannelFormats, TwoBytes
<1> QED BY <1>1, <1>2, <1>3, <1>4, <1>5, <1>6

\* What the calls of two kinds have for a value.
LEMMA LongInRange ==
    ASSUME NEW call, InRange(call), call.status = 14 \/ call.status = 242
    PROVE  call.args["value"] \in Nat /\ call.args["value"] <= LongMax
<1> DEFINE v == call.args["value"]
<1>1. call.status \in {PitchWheelChange.status, SongPositionPointer.status}
  BY DEF PitchWheelChange, SongPositionPointer, Kind
<1>2. v \in 0 .. LongMax
  BY <1>1, Zenon DEF InRange
<1>3. LongMax \in Int
  BY DEF LongMax
<1> HIDE DEF v
<1>4. v \in Int /\ 0 <= v /\ v <= LongMax
  BY <1>2, <1>3
<1>5. v \in Nat
  BY <1>4
<1> QED BY <1>4, <1>5 DEF v

\* A pitch wheel.
LEMMA WheelSaid ==
    ASSUME NEW call, IsCall(call), Sendable(call), InRange(call), NEW byte \in Nat, call.status = 14
    PROVE  Says(Compose(call, byte), call)
<1> DEFINE f == "pitch_wheel_change"
           c == call.args["channel"]
           v == call.args["value"]
           x == v % 128
           y == (v \div 128) % 128
           properties == <<"channel", "value">>
           m1 == Message(f, 14 * 16 + c, 0, 0, 0, <<>>)
           m == Message(f, 14 * 16 + c, x, y, 0, <<>>)
<1>1. KindOf(14).properties = properties /\ KindOf(14).status = 14 /\ Len(properties) = 2
      /\ Range(properties) = {"channel", "value"} /\ properties[1] = "channel" /\ properties[2] = "value"
  BY KindsByStatus, Properties DEF PitchWheelChange, Kind
<1>2. MIDIMessageFormatForStatus(14) = f /\ f \in Formats /\ f # "tune_request" /\ f # "system_exclusive"
      /\ Layout[f]["status"] = <<1, "high">> /\ Layout[f]["channel"] = <<1, "low">> /\ Layout[f]["value"] = <<2, "long">>
  BY ChannelFormats DEF OfChannel, Layout, PitchWheelLayout
<1>3. c \in Nat /\ c < 16
  <2>1. {"channel", "value"} = DOMAIN call.args
    BY <1>1 DEF IsCall
  <2>2. Accepts(f, "channel", c)
    BY <1>2, <2>1 DEF Sendable
  <2>3. Layout[f]["channel"][2] = "low"
    BY <1>2
  <2> QED BY <2>2, <2>3, Taken
<1>4. v \in Nat /\ v <= LongMax
  BY LongInRange
<1>5. x \in Nat /\ x < 128 /\ y \in Nat /\ y < 128 /\ ((y % 128) * 128) + (x % 128) = v
  <2> HIDE DEF v
  <2> QED BY <1>4, LongHalves
<1> HIDE DEF c, v, x, y, properties
<1>6. MIDIMessageSet(MIDIMessageCreate(14, byte), "channel", c) = m1
  <2>1. 14 \in Nat /\ 14 < 16 /\ OfChannel(14, f) /\ byte \in Nat /\ c \in Nat /\ c < 16
    BY <1>3, ChannelFormats
  <2> QED BY ONLY <2>1, Opened DEF m1
<1>7. MIDIMessageSet(m1, "value", v) = m
  BY <1>2, SetLong DEF x, y
<1> HIDE DEF m1
<1>8. Compose(call, byte) = m
  <2>1. properties = KindOf(call.status).properties /\ Len(properties) = 2 /\ 2 \in Nat /\ 2 <= 4
    BY <1>1
  <2>2. Compose(call, byte) = SetAll(MIDIMessageCreate(call.status, byte), call, properties)
    BY ONLY <2>1, Composed
  <2>3. /\ SetOne(MIDIMessageCreate(14, byte), call, properties, 1) = m1 /\ SetOne(m1, call, properties, 2) = m
        /\ SetOne(m, call, properties, 3) = m /\ SetOne(m, call, properties, 4) = m
    <3> HIDE DEF m
    <3> QED BY <1>1, <1>6, <1>7 DEF SetOne, c, v
  <2> QED BY <2>2, <2>3 DEF SetAll
<1>9. Valid(m) /\ Got(m, <<>>) = m
  <2> DEFINE a == 14 * 16 + c
  <2>1. a \in Tests[f] /\ Size(f) = 3
    BY <1>3, ChannelFormats DEF OfChannel, Size
  <2> HIDE DEF a
  <2>2. LET n == Message(f, a, x, y, 0, <<>>) IN Valid(n) /\ \A tail : Got(n, tail) = n
    BY <1>2, <1>5, <2>1, PlainValid, SMTT(30)
  <2> QED BY <2>2 DEF a
<1>10. Recv(m) = call
  <2> DEFINE a == 14 * 16 + c
  <2>1. a \div 16 = 14 /\ a % 16 = c
    BY <1>3, Halved
  <2> HIDE DEF a
  <2>2. MIDIMessageGet(m, "status") = 14 /\ MIDIMessageGet(m, "channel") = c
    BY <1>2, <2>1, GetParts DEF a
  <2>3. MIDIMessageGet(m, "value") = v
    BY <1>2, <1>5, GetLong
  <2> HIDE DEF m
  <2> QED BY <1>1, <2>2, <2>3, Received DEF c, v
<1>11. m.format # "system_exclusive" /\ call.status # SystemExclusive.status
  BY <1>2, Bytes DEF SystemExclusive, Kind
<1> QED BY <1>8, <1>9, <1>10, <1>11 DEF Says

\* A new system message has its status from the beginning.
LEMMA OpenedSystem ==
    ASSUME NEW f \in Formats \ {"tune_request"}, NEW s \in Tests[f], s >= 240, Layout[f]["status"] = <<1, "whole">>,
           NEW byte
    PROVE  MIDIMessageFormatForStatus(s) = f /\ MIDIMessageCreate(s, byte) = Message(f, s, 0, 0, 0, <<>>)
<1> DEFINE m == Message(f, byte, 0, 0, 0, <<>>)
<1>1. s \in Int
  <2>1. s \in 128 .. 255 /\ 128 \in Int /\ 255 \in Int
    BY FirstByte
  <2> QED BY <2>1, InRangeOf, ZenonT(30)
<1>2. MIDIMessageFormatDetect(s) = f
  BY DetectOne
<1>3. MIDIMessageFormatForStatus(s) = f
  BY <1>1, <1>2 DEF MIDIMessageFormatForStatus
<1>4. Accepts(f, "status", s)
  BY DEF Accepts
<1>5. m = [format |-> MIDIMessageFormatForStatus(s), bytes |-> <<byte, 0, 0, 0>>, data |-> <<>>] /\ m.format = f
  BY <1>3 DEF m, Message
<1> HIDE DEF m
<1>6. MIDIMessageCreate(s, byte) = MIDIMessageSet(m, "status", s)
  BY <1>4, <1>5 DEF MIDIMessageCreate
<1>7. MIDIMessageSet(m, "status", s) = With(m, 1, s)
  BY <1>5, SetWhole
<1>8. With(m, 1, s) = Message(f, s, 0, 0, 0, <<>>)
  BY ByteSet DEF m
<1> QED BY <1>3, <1>6, <1>7, <1>8

\* A song position.
LEMMA PositionSaid ==
    ASSUME NEW call, IsCall(call), Sendable(call), InRange(call), NEW byte \in Nat, call.status = 242
    PROVE  Says(Compose(call, byte), call)
<1> DEFINE f == "song_position_pointer"
           v == call.args["value"]
           x == v % 128
           y == (v \div 128) % 128
           properties == <<"value">>
           m1 == Message(f, 242, 0, 0, 0, <<>>)
           m == Message(f, 242, x, y, 0, <<>>)
<1>1. KindOf(242).properties = properties /\ KindOf(242).status = 242 /\ Len(properties) = 1
      /\ Range(properties) = {"value"} /\ properties[1] = "value"
  BY KindsByStatus, Properties DEF SongPositionPointer, Kind
<1>2. /\ f \in Formats \ {"tune_request"} /\ f # "system_exclusive" /\ 242 \in Tests[f] /\ Size(f) = 3
      /\ Layout[f]["status"] = <<1, "whole">> /\ Layout[f]["value"] = <<2, "long">>
  BY DEF Formats, Tests, Layout, SongPositionLayout, Size
<1>3. v \in Nat /\ v <= LongMax
  BY LongInRange
<1>4. x \in Nat /\ x < 128 /\ y \in Nat /\ y < 128 /\ ((y % 128) * 128) + (x % 128) = v
  <2> HIDE DEF v
  <2> QED BY <1>3, LongHalves
<1> HIDE DEF v, x, y, properties
<1>5. MIDIMessageCreate(242, byte) = m1
  BY <1>2, OpenedSystem
<1>6. MIDIMessageSet(m1, "value", v) = m
  BY <1>2, SetLong DEF x, y
<1> HIDE DEF m1
<1>7. Compose(call, byte) = m
  <2>1. properties = KindOf(call.status).properties /\ Len(properties) = 1 /\ 1 \in Nat /\ 1 <= 4
    BY <1>1
  <2>2. Compose(call, byte) = SetAll(MIDIMessageCreate(call.status, byte), call, properties)
    BY ONLY <2>1, Composed
  <2>3. /\ SetOne(m1, call, properties, 1) = m /\ SetOne(m, call, properties, 2) = m
        /\ SetOne(m, call, properties, 3) = m /\ SetOne(m, call, properties, 4) = m
    <3> HIDE DEF m
    <3> QED BY <1>1, <1>6 DEF SetOne, v
  <2> QED BY <1>5, <2>2, <2>3 DEF SetAll
<1>8. Valid(m) /\ Got(m, <<>>) = m
  <2>1. LET n == Message(f, 242, x, y, 0, <<>>) IN Valid(n) /\ \A tail : Got(n, tail) = n
    BY <1>2, <1>4, PlainValid
  <2> QED BY <2>1
<1>9. Recv(m) = call
  <2>1. MIDIMessageGet(m, "status") = 242
    BY <1>2, GetParts
  <2>2. MIDIMessageGet(m, "value") = v
    BY <1>2, <1>4, GetLong
  <2> HIDE DEF m
  <2> QED BY <1>1, <2>1, <2>2, Received DEF v
<1>10. m.format # "system_exclusive" /\ call.status # SystemExclusive.status
  BY <1>2, Bytes DEF SystemExclusive, Kind
<1> QED BY <1>7, <1>8, <1>9, <1>10 DEF Says

\* A song.
LEMMA SongSaid ==
    ASSUME NEW call, IsCall(call), Sendable(call), NEW byte \in Nat, call.status = 243
    PROVE  Says(Compose(call, byte), call)
<1> DEFINE f == "song_select"
           v == call.args["value"]
           properties == <<"value">>
           m1 == Message(f, 243, 0, 0, 0, <<>>)
           m == Message(f, 243, v, 0, 0, <<>>)
<1>1. KindOf(243).properties = properties /\ KindOf(243).status = 243 /\ Len(properties) = 1
      /\ Range(properties) = {"value"} /\ properties[1] = "value"
  BY KindsByStatus, Properties DEF SongSelect, Kind
<1>2. /\ f \in Formats \ {"tune_request"} /\ f # "system_exclusive" /\ 243 \in Tests[f] /\ Size(f) = 2
      /\ Layout[f]["status"] = <<1, "whole">> /\ Layout[f]["value"] = <<2, "byte">>
  BY DEF Formats, Tests, Layout, SongSelectLayout, Size
<1>3. MIDIMessageFormatForStatus(243) = f /\ MIDIMessageCreate(243, byte) = m1
  BY <1>2, OpenedSystem, SMTT(30)
<1>4. v \in Nat /\ v < 128
  <2>1. {"value"} = DOMAIN call.args
    BY <1>1 DEF IsCall
  <2>2. Accepts(f, "value", v)
    BY <1>3, <2>1 DEF Sendable
  <2>3. Layout[f]["value"][2] = "byte"
    BY <1>2
  <2> QED BY <2>2, <2>3, Taken
<1> HIDE DEF v, properties
<1>5. MIDIMessageSet(m1, "value", v) = m
  <2>1. m1.format = f
    BY Bytes
  <2>2. MIDIMessageSet(m1, "value", v) = With(m1, 2, v)
    <3> HIDE DEF m1
    <3> QED BY <1>2, <2>1, SetByte
  <2> QED BY <2>2, ByteSet
<1> HIDE DEF m1
<1>6. Compose(call, byte) = m
  <2>1. properties = KindOf(call.status).properties /\ Len(properties) = 1 /\ 1 \in Nat /\ 1 <= 4
    BY <1>1
  <2>2. Compose(call, byte) = SetAll(MIDIMessageCreate(call.status, byte), call, properties)
    BY ONLY <2>1, Composed
  <2>3. /\ SetOne(m1, call, properties, 1) = m /\ SetOne(m, call, properties, 2) = m
        /\ SetOne(m, call, properties, 3) = m /\ SetOne(m, call, properties, 4) = m
    <3> HIDE DEF m
    <3> QED BY <1>1, <1>5 DEF SetOne, v
  <2> QED BY <1>3, <2>2, <2>3 DEF SetAll
<1>7. Valid(m) /\ Got(m, <<>>) = m
  <2>1. LET n == Message(f, 243, v, 0, 0, <<>>) IN Valid(n) /\ \A tail : Got(n, tail) = n
    BY <1>2, <1>4, PlainValid
  <2> QED BY <2>1
<1>8. Recv(m) = call
  <2>1. MIDIMessageGet(m, "status") = 243 /\ MIDIMessageGet(m, "value") = v
    BY <1>2, GetParts
  <2> HIDE DEF m
  <2> QED BY <1>1, <2>1, Received DEF v
<1>9. m.format # "system_exclusive" /\ call.status # SystemExclusive.status
  BY <1>2, Bytes DEF SystemExclusive, Kind
<1> QED BY <1>6, <1>7, <1>8, <1>9 DEF Says

\* A quarter frame: two halves of one byte.
LEMMA FrameSaid ==
    ASSUME NEW call, IsCall(call), Sendable(call), NEW byte \in Nat, call.status = 241
    PROVE  Says(Compose(call, byte), call)
<1> DEFINE f == "time_code_quarter_frame"
           t == call.args["type"]
           v == call.args["value"]
           g == (t * 16) + (0 % 16)
           b == ((g \div 16) * 16) + v
           properties == <<"type", "value">>
           m1 == Message(f, 241, 0, 0, 0, <<>>)
           m2 == Message(f, 241, g, 0, 0, <<>>)
           m == Message(f, 241, b, 0, 0, <<>>)
<1>1. KindOf(241).properties = properties /\ KindOf(241).status = 241 /\ Len(properties) = 2
      /\ Range(properties) = {"type", "value"} /\ properties[1] = "type" /\ properties[2] = "value"
  BY KindsByStatus, Properties DEF TimeCodeQuarterFrame, Kind
<1>2. /\ f \in Formats \ {"tune_request"} /\ f # "system_exclusive" /\ 241 \in Tests[f] /\ Size(f) = 2
      /\ Layout[f]["status"] = <<1, "whole">> /\ Layout[f]["type"] = <<2, "high">>
      /\ Layout[f]["value"] = <<2, "low">>
  BY DEF Formats, Tests, Layout, QuarterFrameLayout, Size
<1>3. MIDIMessageFormatForStatus(241) = f /\ MIDIMessageCreate(241, byte) = m1
  BY <1>2, OpenedSystem
<1>4. t \in Nat /\ t < 8 /\ v \in Nat /\ v < 16
  <2>1. {"type", "value"} = DOMAIN call.args
    BY <1>1 DEF IsCall
  <2>2. Accepts(f, "type", t) /\ Accepts(f, "value", v)
    BY <1>3, <2>1 DEF Sendable
  <2>3. Layout[f]["type"][2] = "high" /\ Layout[f]["value"][2] = "low" /\ "type" # "status"
    BY <1>2
  <2> QED BY <2>2, <2>3, Taken
<1> HIDE DEF t, v, properties
<1>5. b = t * 16 + v /\ b \in Nat /\ b < 128 /\ b \div 16 = t /\ b % 16 = v
  BY <1>4
<1>6. MIDIMessageSet(m1, "type", t) = m2 /\ MIDIMessageSet(m2, "value", v) = m
  <2>1. m1.format = f /\ m2.format = f /\ m1.bytes[2] = 0 /\ m2.bytes[2] = g
    BY Bytes
  <2>2. MIDIMessageSet(m1, "type", t) = With(m1, 2, (t * 16) + (m1.bytes[2] % 16))
    <3> HIDE DEF m1
    <3> QED BY <1>2, <2>1, SetHigh
  <2>3. MIDIMessageSet(m2, "value", v) = With(m2, 2, ((m2.bytes[2] \div 16) * 16) + v)
    <3> HIDE DEF m2
    <3> QED BY <1>2, <2>1, SetLow
  <2>4. MIDIMessageSet(m1, "type", t) = With(m1, 2, g) /\ MIDIMessageSet(m2, "value", v) = With(m2, 2, b)
    BY <2>1, <2>2, <2>3
  <2> HIDE DEF g, b
  <2> QED BY <2>4, ByteSet
<1> HIDE DEF m1, m2, b
<1>7. Compose(call, byte) = m
  <2>1. properties = KindOf(call.status).properties /\ Len(properties) = 2 /\ 2 \in Nat /\ 2 <= 4
    BY <1>1
  <2>2. Compose(call, byte) = SetAll(MIDIMessageCreate(call.status, byte), call, properties)
    BY ONLY <2>1, Composed
  <2>3. /\ SetOne(m1, call, properties, 1) = m2 /\ SetOne(m2, call, properties, 2) = m
        /\ SetOne(m, call, properties, 3) = m /\ SetOne(m, call, properties, 4) = m
    <3> HIDE DEF m
    <3> QED BY <1>1, <1>6 DEF SetOne, t, v
  <2> QED BY <1>3, <2>2, <2>3 DEF SetAll
<1>8. Valid(m) /\ Got(m, <<>>) = m
  <2>1. LET n == Message(f, 241, b, 0, 0, <<>>) IN Valid(n) /\ \A tail : Got(n, tail) = n
    BY <1>2, <1>5, PlainValid
  <2> QED BY <2>1
<1>9. Recv(m) = call
  <2>1. MIDIMessageGet(m, "status") = 241
    BY <1>2, GetParts
  <2>2. MIDIMessageGet(m, "type") = m.bytes[2] \div 16 /\ MIDIMessageGet(m, "value") = m.bytes[2] % 16
    <3>1. m.format = f
      BY Bytes
    <3> HIDE DEF m
    <3> QED BY <1>2, <3>1 DEF MIDIMessageGet
  <2>3. m.bytes[2] = b
    BY Bytes
  <2> HIDE DEF m
  <2>4. MIDIMessageGet(m, "type") = t /\ MIDIMessageGet(m, "value") = v
    BY <1>5, <2>2, <2>3
  <2> QED BY <1>1, <2>1, <2>4, Received DEF t, v
<1>10. m.format # "system_exclusive" /\ call.status # SystemExclusive.status
  BY <1>2, Bytes DEF SystemExclusive, Kind
<1> QED BY <1>7, <1>8, <1>9, <1>10 DEF Says

\* A real time message.
LEMMA RealTimeSaid ==
    ASSUME NEW call, IsCall(call), NEW byte \in Nat, call.status \in Tests["real_time"]
    PROVE  Says(Compose(call, byte), call)
<1> DEFINE f == "real_time"
           s == call.status
           properties == <<>>
           m == Message(f, s, 0, 0, 0, <<>>)
<1>1. s \in 248 .. 255 /\ s >= 240
  BY DEF Tests
<1>2. KindOf(s).properties = properties /\ KindOf(s).status = s /\ Len(properties) = 0 /\ Range(properties) = {}
  BY <1>1, KindsByStatus, Properties DEF RealTime, Kind
<1>3. /\ f \in Formats \ {"tune_request"} /\ f # "system_exclusive" /\ s \in Tests[f] /\ Size(f) = 1
      /\ Layout[f]["status"] = <<1, "whole">>
  BY DEF Formats, Tests, Layout, Whole, Size
<1> HIDE DEF s, properties
<1>4. MIDIMessageCreate(s, byte) = m
  BY <1>1, <1>3, OpenedSystem
<1>5. Compose(call, byte) = m
  <2>1. properties = KindOf(call.status).properties /\ Len(properties) = 0 /\ 0 \in Nat /\ 0 <= 4
    BY <1>2 DEF s
  <2>2. Compose(call, byte) = SetAll(MIDIMessageCreate(call.status, byte), call, properties)
    BY ONLY <2>1, Composed
  <2>3. \A i \in 1 .. 4 : SetOne(m, call, properties, i) = m
    BY <1>2 DEF SetOne
  <2> QED BY <1>4, <2>2, <2>3 DEF SetAll, s
<1>6. Valid(m) /\ Got(m, <<>>) = m
  <2>1. 0 \in Nat /\ 0 < 128
    OBVIOUS
  <2>2. LET n == Message(f, s, 0, 0, 0, <<>>) IN Valid(n) /\ \A tail : Got(n, tail) = n
    BY <1>3, <2>1, PlainValid
  <2> QED BY <2>2
<1>7. Recv(m) = call
  <2>1. MIDIMessageGet(m, "status") = s
    BY <1>3, GetParts
  <2> HIDE DEF m
  <2> QED BY <1>2, <2>1, Received DEF s
<1>8. m.format # "system_exclusive" /\ call.status # SystemExclusive.status
  <2>1. SystemExclusive.status = 240
    BY DEF SystemExclusive, Kind
  <2> QED BY <1>1, <1>3, <2>1, Bytes DEF s
<1> QED BY <1>5, <1>6, <1>7, <1>8 DEF Says

\* Setting the parts of a system exclusive message, and getting them.
LEMMA ExclusiveParts ==
    ASSUME NEW m, m.format = "system_exclusive"
    PROVE  /\ \A v : MIDIMessageSet(m, "id", v) = With(With(m, 2, (v \div 256) % 256), 3, v % 256)
           /\ \A v : MIDIMessageSet(m, "size", v) = m
           /\ \A v : MIDIMessageSet(m, "data", v) = [m EXCEPT !.data = v]
           /\ \A v : MIDIMessageSet(m, "fragment", v) = With(m, 4, (m.bytes[4] % 2) + (2 * v))
           /\ MIDIMessageGet(m, "status") = m.bytes[1] /\ MIDIMessageGet(m, "id") = (m.bytes[2] * 256) + m.bytes[3]
           /\ MIDIMessageGet(m, "size") = Len(m.data) /\ MIDIMessageGet(m, "data") = m.data
           /\ MIDIMessageGet(m, "fragment") = m.bytes[4] \div 2
<1> DEFINE l == Layout[m.format]
<1>1. /\ l["status"] = <<1, "whole">> /\ l["id"] = <<2, "id">> /\ l["fragment"] = <<4, "fragment">>
      /\ l["size"] = <<0, "size">> /\ l["data"] = <<0, "data">>
  BY DEF Layout, ExclusiveLayout
<1> HIDE DEF l
<1>2. ASSUME NEW v PROVE MIDIMessageSet(m, "id", v) = With(With(m, 2, (v \div 256) % 256), 3, v % 256)
  BY <1>1 DEF MIDIMessageSet, With, l
<1>3. ASSUME NEW v PROVE MIDIMessageSet(m, "size", v) = m /\ MIDIMessageSet(m, "data", v) = [m EXCEPT !.data = v]
  BY <1>1 DEF MIDIMessageSet, l
<1>4. ASSUME NEW v PROVE MIDIMessageSet(m, "fragment", v) = With(m, 4, (m.bytes[4] % 2) + (2 * v))
  BY <1>1 DEF MIDIMessageSet, With, l
<1>5. /\ MIDIMessageGet(m, "status") = m.bytes[1] /\ MIDIMessageGet(m, "id") = (m.bytes[2] * 256) + m.bytes[3]
      /\ MIDIMessageGet(m, "size") = Len(m.data) /\ MIDIMessageGet(m, "data") = m.data
      /\ MIDIMessageGet(m, "fragment") = m.bytes[4] \div 2
  BY <1>1 DEF MIDIMessageGet, l
<1> QED BY <1>2, <1>3, <1>4, <1>5

\* Data of seven bits is of eight.
LEMMA SevenBits == ASSUME NEW d \in Seq(0 .. 127) PROVE d \in Seq(Octet)
<1> DEFINE S == 0 .. 127
<1>1. 0 \in Int /\ 127 \in Int
  OBVIOUS
<1>2. \A x : x \in S <=> (x \in Int /\ 0 <= x /\ x <= 127)
  BY <1>1, InRangeOf, ZenonT(30)
<1>3. d \in Seq(S)
  OBVIOUS
<1> HIDE DEF S
<1>4. \A x : x \in S => x \in Octet
  <2>1. \A x : x \in S => x \in Int /\ 0 <= x /\ x <= 255
    BY <1>2
  <2> QED BY <2>1, OctetRange
<1>5. DOMAIN d = 1 .. Len(d) /\ Len(d) \in Nat /\ d \in [1 .. Len(d) -> S]
  BY <1>3, LenProperties, ElementOfSeq
<1>6. d \in [1 .. Len(d) -> Octet]
  BY <1>4, <1>5
<1> QED BY <1>5, <1>6, SeqDef

\* A system exclusive message: one byte for its manufacturer, and the data.
LEMMA ExclusiveSaid ==
    ASSUME NEW call, IsCall(call), InRange(call), NEW byte \in Nat, call.status = 240
    PROVE  LET m == Compose(call, byte)
           IN  Says(m, call) /\ m.data = call.args["data"] /\ Batch * (Len(m.data) + 8) <= BufferSize
<1> DEFINE f == "system_exclusive"
           i == call.args["id"]
           data == call.args["data"]
           properties == <<"id", "size", "data", "fragment">>
           m1 == Message(f, 240, 0, 0, 0, <<>>)
           m2 == Message(f, 240, 0, i, 0, <<>>)
           m == Message(f, 240, 0, i, 0, data)
           got == Message(f, 240, 0, i, 1, data)
<1>1. KindOf(240).properties = properties /\ KindOf(240).status = 240 /\ Len(properties) = 4
      /\ Range(properties) = {"id", "size", "data", "fragment"} /\ properties[1] = "id" /\ properties[2] = "size"
      /\ properties[3] = "data" /\ properties[4] = "fragment"
  BY KindsByStatus DEF SystemExclusive, Kind, Range
<1>2. f \in Formats \ {"tune_request"} /\ 240 \in Tests[f] /\ Layout[f]["status"] = <<1, "whole">>
  BY DEF Formats, Tests, Layout, ExclusiveLayout
<1>3. /\ i \in 1 .. 127 /\ call.args["fragment"] = 0 /\ data \in Seq(0 .. 127) /\ call.args["size"] = Len(data)
      /\ Batch * (Len(data) + 8) <= BufferSize
  <2>1. call.status = SystemExclusive.status
    BY DEF SystemExclusive, Kind
  <2> QED BY <2>1, Zenon DEF InRange
<1> HIDE DEF i, data, properties
<1>4. i \in Nat /\ 1 <= i /\ i <= 127
  <2>1. 1 \in Int /\ 127 \in Int
    OBVIOUS
  <2>2. i \in 1 .. 127
    BY <1>3
  <2>3. i \in Int /\ 1 <= i /\ i <= 127
    BY ONLY <2>2, SMT
  <2> QED BY <2>3
<1>5. data \in Seq(Octet)
  BY <1>3, SevenBits
<1>6. MIDIMessageCreate(240, byte) = m1
  BY <1>2, OpenedSystem
<1>7. MIDIMessageSet(m1, "id", i) = m2
  <2>1. m1.format = f
    BY Bytes
  <2>2. MIDIMessageSet(m1, "id", i) = With(With(m1, 2, (i \div 256) % 256), 3, i % 256)
    <3> HIDE DEF m1
    <3> QED BY <2>1, ExclusiveParts
  <2>3. (i \div 256) % 256 = 0 /\ i % 256 = i
    BY <1>4
  <2>4. With(m1, 2, 0) = m1 /\ With(m1, 3, i) = m2
    BY ByteSet
  <2> QED BY <2>2, <2>3, <2>4
<1>8. MIDIMessageSet(m2, "size", call.args["size"]) = m2
  <2>1. m2.format = f
    BY Bytes
  <2> HIDE DEF m2
  <2> QED BY <2>1, ExclusiveParts
<1>9. MIDIMessageSet(m2, "data", data) = m
  <2>1. m2.format = f
    BY Bytes
  <2>2. MIDIMessageSet(m2, "data", data) = [m2 EXCEPT !.data = data]
    <3> HIDE DEF m2
    <3> QED BY <2>1, ExclusiveParts
  <2> QED BY <2>2, SMTT(30) DEF Message
<1>10. MIDIMessageSet(m, "fragment", call.args["fragment"]) = m
  <2>1. m.format = f /\ m.bytes[4] = 0
    BY Bytes
  <2>2. MIDIMessageSet(m, "fragment", 0) = With(m, 4, (m.bytes[4] % 2) + (2 * 0))
    <3> HIDE DEF m
    <3> QED BY <2>1, ExclusiveParts
  <2>3. (m.bytes[4] % 2) + (2 * 0) = 0
    BY <2>1
  <2>4. With(m, 4, 0) = m
    BY ByteSet
  <2> QED BY <1>3, <2>2, <2>3, <2>4
<1>11. Compose(call, byte) = m
  <2>1. properties = KindOf(call.status).properties /\ Len(properties) = 4 /\ 4 \in Nat /\ 4 <= 4
    BY <1>1
  <2>2. Compose(call, byte) = SetAll(MIDIMessageCreate(call.status, byte), call, properties)
    BY ONLY <2>1, Composed
  <2>3. /\ SetOne(m1, call, properties, 1) = m2 /\ SetOne(m2, call, properties, 2) = m2
        /\ SetOne(m2, call, properties, 3) = m /\ SetOne(m, call, properties, 4) = m
    <3> HIDE DEF m, m1, m2
    <3> QED BY <1>1, <1>7, <1>8, <1>9, <1>10 DEF SetOne, i, data
  <2> QED BY <1>6, <2>2, <2>3 DEF SetAll
<1>12. m.format = f /\ m.data = data /\ m.bytes = <<240, 0, i, 0>>
  BY DEF Message
<1>13. Valid(m)
  <2> DEFINE bytes == <<240, 0, i, 0>>
  <2>1. bytes \in [1 .. 4 -> Octet]
    <3>1. 240 \in Octet /\ 0 \in Octet /\ i \in Octet
      <4>1. 240 \in Int /\ 0 <= 240 /\ 240 <= 255 /\ 0 \in Int /\ 0 <= 0 /\ 0 <= 255
        OBVIOUS
      <4>2. i \in Int /\ 0 <= i /\ i <= 255
        BY <1>4
      <4> QED BY <4>1, <4>2, OctetRange, ZenonT(30)
    <3> QED BY <3>1
  <2>2. bytes[1] = 240 /\ bytes[2] = 0 /\ bytes[3] = i /\ bytes[4] = 0
    OBVIOUS
  <2> HIDE DEF bytes, m
  <2>3. m.bytes = bytes
    BY <1>12 DEF bytes
  <2> QED BY <1>2, <1>4, <1>5, <1>12, <2>1, <2>2, <2>3 DEF Valid
<1>14. Got(m, <<>>) = got
  <2>1. m.bytes[3] = i
    BY Bytes
  <2>2. data \o <<>> = data
    BY <1>5, ConcatEmptySeq
  <2> HIDE DEF m
  <2>3. Got(m, <<>>) = [format |-> f, bytes |-> <<240, 0, i, 1>>, data |-> data \o <<>>]
    BY <1>12, <2>1 DEF Got
  <2> QED BY <2>2, <2>3 DEF Message
<1>15. Recv(got) = call
  <2>1. got.format = f /\ got.bytes[1] = 240 /\ got.bytes[2] = 0 /\ got.bytes[3] = i /\ got.bytes[4] = 1 /\ got.data = data
    BY Bytes
  <2> HIDE DEF got
  <2>2. /\ MIDIMessageGet(got, "status") = 240 /\ MIDIMessageGet(got, "id") = (0 * 256) + i
        /\ MIDIMessageGet(got, "size") = Len(data) /\ MIDIMessageGet(got, "data") = data
        /\ MIDIMessageGet(got, "fragment") = 1 \div 2
    BY <2>1, ExclusiveParts
  <2>3. ((0 * 256) + i) % 256 = i /\ 1 \div 2 = 0
    BY <1>4
  <2>4. \A p \in {"id", "size", "data", "fragment"} :
            (IF p = "id" THEN MIDIMessageGet(got, p) % 256 ELSE MIDIMessageGet(got, p)) = call.args[p]
    BY <1>3, <2>2, <2>3 DEF i, data
  <2> DEFINE kind == KindOf(240)
  <2>5. KindOf(call.status) = kind /\ kind.status = call.status /\ KindOf(MIDIMessageGet(got, "status")) = kind
        /\ Range(kind.properties) = {"id", "size", "data", "fragment"}
    BY <1>1, <2>2
  <2> HIDE DEF kind
  <2>6. \A p \in Range(kind.properties) :
            (IF p = "id" THEN MIDIMessageGet(got, p) % 256 ELSE MIDIMessageGet(got, p)) = call.args[p]
    BY <2>4, <2>5
  <2> QED BY <2>5, <2>6, Received
<1>16. call.status = SystemExclusive.status
  BY DEF SystemExclusive, Kind
<1> HIDE DEF m, got
<1> QED BY <1>3, <1>11, <1>12, <1>13, <1>14, <1>15, <1>16 DEF Says, data

\* The statuses of calls that can be sent, except that of tune requests.
LEMMA SendableStatus ==
    ASSUME NEW call, IsCall(call), Sendable(call), call.status # 246
    PROVE  \/ call.status \in {8, 9, 10, 11, 12, 13} \/ call.status = 14
           \/ call.status \in {240, 241, 242, 243} \/ call.status \in Tests["real_time"]
<1> DEFINE s == call.status
           Named == {NoteOff, NoteOn, PolyphonicKeyPressure, ControlChange, ProgramChange, ChannelPressure,
                     PitchWheelChange, SystemExclusive, TimeCodeQuarterFrame, SongPositionPointer, SongSelect,
                     TuneRequest, EndOfExclusive}
<1>1. PICK k \in Kinds : k.status = s
  BY DEF IsCall
<1>2. k \in Named \/ \E t \in 248 .. 255 : k = RealTime(t)
  BY DEF Kinds
<1>3. k \in Named => s \in {8, 9, 10, 11, 12, 13, 14, 240, 241, 242, 243, 246, 247}
  BY <1>1 DEF NoteOff, NoteOn, PolyphonicKeyPressure, ControlChange, ProgramChange, ChannelPressure,
         PitchWheelChange, SystemExclusive, TimeCodeQuarterFrame, SongPositionPointer, SongSelect,
         TuneRequest, EndOfExclusive, Kind
<1>4. (\E t \in 248 .. 255 : k = RealTime(t)) => s \in Int /\ s >= 247
  BY <1>1 DEF RealTime, Kind
<1>5. ASSUME s \in Int, s >= 247 PROVE s \in Tests["real_time"]
  <2>1. MIDIMessageFormatForStatus(s) = MIDIMessageFormatDetect(s)
    BY <1>5 DEF MIDIMessageFormatForStatus
  <2>2. MIDIMessageFormatDetect(s) # "none"
    BY <2>1 DEF Sendable
  <2>3. PICK f \in Formats : s \in Tests[f]
    BY <2>2 DEF MIDIMessageFormatDetect
  <2>4. f # "real_time" => ~(s >= 247)
    BY <2>3 DEF Formats, Tests
  <2> QED BY <1>5, <2>3, <2>4
<1> QED BY <1>2, <1>3, <1>4, <1>5

\* For every call that the sender can make as it is meant: the message that is
\* composed, whatever malloc left in its first byte, is kept by the coding, and
\* what the receiver reads from it is that call (device.c:235-312, 785-1396).
THEOREM CallSaid ==
    ASSUME NEW call, IsCall(call), Sendable(call), InRange(call), NEW byte \in Nat
    PROVE  LET m == Compose(call, byte)
           IN  /\ Says(m, call)
               /\ m.format = "system_exclusive" => Batch * (Len(m.data) + 8) <= BufferSize
<1> DEFINE m == Compose(call, byte)
<1>1. call.status # 246
  BY DEF InRange, TuneRequest, Kind
<1>2. CASE call.status \in {8, 9, 10, 11, 12, 13}
  <2>1. Says(m, call)
    BY <1>2, ChannelSaid
  <2>2. call.status # SystemExclusive.status
    BY <1>2 DEF SystemExclusive, Kind
  <2> HIDE DEF m
  <2>3. m.format # "system_exclusive"
    BY <2>1, <2>2 DEF Says
  <2> QED BY <2>1, <2>3 DEF m
<1>3. ASSUME call.status # 240, Says(m, call) PROVE m.format # "system_exclusive"
  BY <1>3 DEF Says, SystemExclusive, Kind
<1>4. CASE call.status = 14
  BY <1>4, <1>3, WheelSaid
<1>5. CASE call.status = 240
  BY <1>5, ExclusiveSaid
<1>6. CASE call.status = 241
  BY <1>6, <1>3, FrameSaid
<1>7. CASE call.status = 242
  BY <1>7, <1>3, PositionSaid
<1>8. CASE call.status = 243
  BY <1>8, <1>3, SongSaid
<1>9. CASE call.status \in Tests["real_time"]
  <2>1. Says(m, call)
    BY <1>9, RealTimeSaid
  <2>2. call.status # 240
    BY <1>9 DEF Tests
  <2> QED BY <2>1, <2>2, <1>3
<1> QED BY <1>1, <1>2, <1>4, <1>5, <1>6, <1>7, <1>8, <1>9, SendableStatus
-----------------------------------------------------------------------------
(* The queue, and a packet of its first messages. *)

\* The room that a packet has for each of its messages.
Room == BufferSize \div Batch

\* It is enough for the messages of a batch.
LEMMA RoomEnough ==
    /\ Batch \in Nat /\ Batch >= 1 /\ Room \in Nat /\ Room >= 8
    /\ \A n \in Nat : n <= Batch => n * Room <= 4095
    /\ \A x \in Nat : Batch * (x + 8) <= BufferSize => x + 8 <= Room
<1>1. PICK size \in Nat : size = BufferSize /\ size = 512
  BY DEF BufferSize
<1>2. Batch \in Nat /\ Batch >= 1 /\ Batch <= size \div 8
  <2>1. Batch \in 1 .. size \div 8 /\ 1 \in Int /\ size \div 8 \in Int
    BY <1>1, DeviceAssumption
  <2> QED BY <2>1
<1>3. Room = size \div Batch
  BY <1>1 DEF Room
<1>4. Room \in Nat /\ Room * Batch <= size /\ size < Room * Batch + Batch
  <2>1. Batch \in Nat \ {0} /\ size \in Int
    BY <1>2
  <2>2. Room \in Int /\ Room * Batch <= size /\ size < Room * Batch + Batch
    BY <1>3, <2>1, Floor
  <2>3. (0 - 1) * Batch < Room * Batch
    BY <1>2, <2>2
  <2> QED BY <2>1, <2>2, <2>3, Cancel
<1>5. \A x \in Nat : Batch * (x + 8) <= size => x + 8 <= Room
  <2> SUFFICES ASSUME NEW x \in Nat, Batch * (x + 8) <= size PROVE x + 8 <= Room
    OBVIOUS
  <2> DEFINE y == x + 8
  <2>1. y \in Int /\ Batch * y <= size
    OBVIOUS
  <2> HIDE DEF y
  <2>2. y * Batch < (Room + 1) * Batch
    <3>1. (Room + 1) * Batch = Room * Batch + Batch
      BY <1>2, <1>4
    <3>2. y * Batch = Batch * y
      BY <1>2, <2>1
    <3> QED BY <1>2, <1>4, <2>1, <3>1, <3>2
  <2>3. y < Room + 1
    BY <1>2, <1>4, <2>1, <2>2, Cancel
  <2> QED BY <1>4, <2>1, <2>3 DEF y
<1>6. Room >= 8
  <2>1. (size \div 8) * 8 <= size
    BY <1>1
  <2>2. Batch * (0 + 8) <= size
    BY <1>1, <1>2, <2>1
  <2> QED BY <1>5, <2>2
<1>7. ASSUME NEW n \in Nat, n <= Batch PROVE n * Room <= 4095
  <2>1. n * Room <= Batch * Room
    BY <1>2, <1>4, <1>7, Cancel
  <2>2. Batch * Room = Room * Batch
    BY <1>2, <1>4
  <2>3. n * Room \in Int
    BY <1>4
  <2> QED BY <1>1, <1>2, <1>4, <2>1, <2>2, <2>3
<1> QED BY <1>1, <1>2, <1>4, <1>5, <1>6, <1>7

\* What can be in the queue when these calls are made.
Waiting(calls) ==
    {x \in [message : {Compose(call, byte) : call \in calls, byte \in Nat}, time : Int, call : calls] :
        /\ IsCall(x.call) /\ Sendable(x.call) /\ InRange(x.call)
        /\ \E byte \in Nat : x.message = Compose(x.call, byte)}

IsLast(call) == call.status = SystemExclusive.status

\* What a message in the queue is.
LEMMA WaitingSays ==
    ASSUME NEW calls, NEW x \in Waiting(calls)
    PROVE  Says(x.message, x.call) /\ Item(x, Room) /\ (IsExclusive(x) <=> IsLast(x.call))
<1>1. PICK byte \in Nat : x.message = Compose(x.call, byte)
  BY DEF Waiting
<1>2. IsCall(x.call) /\ Sendable(x.call) /\ InRange(x.call) /\ x.time \in Int
  BY DEF Waiting
<1> DEFINE m == x.message
<1>3. Says(m, x.call) /\ (m.format = "system_exclusive" => Batch * (Len(m.data) + 8) <= BufferSize)
  BY <1>1, <1>2, CallSaid
<1> HIDE DEF m
<1>4. m.format = "system_exclusive" => Len(m.data) + 8 <= Room
  <2>1. m.format = "system_exclusive" => Len(m.data) \in Nat
    BY <1>3, LenProperties DEF Says, Valid
  <2> QED BY <1>3, <2>1, RoomEnough
<1> QED BY <1>2, <1>3, <1>4 DEF m, Item, Says, IsExclusive, IsLast

\* A receiver reads the same from a message that is not exclusive, whatever
\* follows it, and an exclusive one stays one.
LEMMA SaysBefore ==
    ASSUME NEW m, NEW call, Says(m, call), NEW tail
    PROVE  /\ ~IsLast(call) => Recv(Got(m, tail)) = call
           /\ IsLast(call) => IsLast(Recv(Got(m, tail)))
<1>1. CASE m.format # "system_exclusive"
  <2>1. Got(m, tail) = Got(m, <<>>)
    BY <1>1 DEF Got
  <2> QED BY <1>1, <2>1 DEF Says, IsLast
<1>2. CASE m.format = "system_exclusive"
  <2> DEFINE g == Got(m, tail)
             bytes == <<240, 0, m.bytes[3], 1>>
  <2>1. IsLast(call)
    BY <1>2 DEF Says, IsLast
  <2>2. g.format = "system_exclusive" /\ g.bytes = bytes
    BY <1>2 DEF Got
  <2>3. bytes[1] = 240
    OBVIOUS
  <2> HIDE DEF g, bytes
  <2>4. MIDIMessageGet(g, "status") = 240
    <3>1. Layout["system_exclusive"]["status"] = <<1, "whole">>
      BY DEF Layout, ExclusiveLayout
    <3> QED BY <2>2, <2>3, <3>1 DEF MIDIMessageGet
  <2>5. KindOf(240).status = 240 /\ SystemExclusive.status = 240
    BY KindsByStatus DEF SystemExclusive, Kind
  <2>6. Recv(g).status = 240
    BY <2>4, <2>5 DEF Recv
  <2> QED BY <2>1, <2>5, <2>6 DEF IsLast, g
<1> QED BY <1>1, <1>2

\* What the receiver reads from a packet of n messages, with times off by some ticks.
Tells(received, waiting, n, off) ==
    /\ received \in Seq(Outs) /\ Len(received) <= n
    /\ \A i \in 1 .. n : i <= Len(received) <=> \A j \in 1 .. i - 1 : ~IsLast(waiting[j].call)
    /\ \A i \in 1 .. Len(received) :
          /\ i = n \/ ~IsLast(waiting[i].call) => Recv(received[i].message) = waiting[i].call
          /\ IsLast(waiting[i].call) => IsLast(Recv(received[i].message))
          /\ Near(waiting, i) => received[i].time = off + waiting[i].time

\* It reads the calls.
LEMMA PacketTells ==
    ASSUME NEW calls, NEW waiting \in Seq(Waiting(calls)), NEW n \in Nat, Len(waiting) = n, n >= 1, n <= Batch
    PROVE  /\ Tells(RTPMIDISessionReceive(RTPMIDISessionSend(waiting)), waiting, n, Slip(waiting[1].time))
           /\ waiting[1].time \in -SignBit .. SignBit - 1 => Slip(waiting[1].time) = 0
<1> DEFINE received == RTPMIDISessionReceive(RTPMIDISessionSend(waiting))
           off == Slip(waiting[1].time)
<1>1. \A i \in 1 .. n : waiting[i] \in Waiting(calls)
  OBVIOUS
<1>2. Items(waiting, n, Room)
  BY <1>1, WaitingSays DEF Items
<1>3. /\ Kept(received, waiting, n, off)
      /\ waiting[1].time \in -SignBit .. SignBit - 1 => off = 0
  <2>1. Batch \in Nat /\ Room \in Nat /\ Room >= 8 /\ n * Room <= 4095
    BY RoomEnough
  <2> QED BY <1>2, <2>1, PacketKept
<1> HIDE DEF received, off
<1>4. ASSUME NEW i \in 1 .. n PROVE i <= Len(received) <=> \A j \in 1 .. i - 1 : ~IsLast(waiting[j].call)
  <2>1. i <= Len(received) <=> \A j \in 1 .. i - 1 : ~IsExclusive(waiting[j])
    BY <1>3 DEF Kept
  <2>2. \A j \in 1 .. i - 1 : IsExclusive(waiting[j]) <=> IsLast(waiting[j].call)
    <3>1. \A j \in 1 .. i - 1 : j \in 1 .. n
      OBVIOUS
    <3> QED BY <1>1, <3>1, WaitingSays
  <2> QED BY <2>1, <2>2
<1>5. ASSUME NEW i \in 1 .. Len(received)
      PROVE  /\ i = n \/ ~IsLast(waiting[i].call) => Recv(received[i].message) = waiting[i].call
             /\ IsLast(waiting[i].call) => IsLast(Recv(received[i].message))
             /\ Near(waiting, i) => received[i].time = off + waiting[i].time
  <2> DEFINE m == waiting[i].message
             call == waiting[i].call
  <2>1. i \in 1 .. n
    <3>1. Len(received) \in Nat /\ Len(received) <= n
      BY <1>3, LenProperties DEF Kept
    <3> QED BY <3>1
  <2>2. Says(m, call)
    BY <1>1, <2>1, WaitingSays
  <2>3. PICK tail \in Seq(Octet) : received[i].message = Got(m, tail) /\ (i = n => tail = <<>>)
    BY <1>3 DEF Kept
  <2>4. Near(waiting, i) => received[i].time = off + waiting[i].time
    BY <1>3 DEF Kept
  <2> HIDE DEF m, call
  <2>5. /\ ~IsLast(call) => Recv(Got(m, tail)) = call
        /\ IsLast(call) => IsLast(Recv(Got(m, tail)))
    BY <2>2, SaysBefore
  <2>6. i = n => Recv(Got(m, tail)) = call
    BY <2>2, <2>3 DEF Says
  <2> QED BY <2>3, <2>4, <2>5, <2>6 DEF call
<1> QED BY <1>3, <1>4, <1>5 DEF Tells, Kept, received, off

\* What is behind the first n of a sequence.
LEMMA BehindFirstOf ==
    ASSUME NEW S, NEW s \in Seq(S), NEW n \in Nat, n <= Len(s)
    PROVE  LET r == SubSeq(s, n + 1, Len(s))
           IN  /\ r \in Seq(S) /\ Len(r) = Len(s) - n
               /\ \A i \in 1 .. Len(r) : r[i] = s[n + i] /\ n + i \in 1 .. Len(s)
<1> DEFINE len == Len(s)
           r == SubSeq(s, n + 1, len)
<1>1. len \in Nat
  BY LenProperties
<1>2. CASE n < len
  <2>1. n + 1 \in 1 .. len + 1 /\ len \in n .. len
    BY <1>1, <1>2
  <2>2. /\ r \in Seq(S) /\ Len(r) = (IF n + 1 <= len THEN len - (n + 1) + 1 ELSE 0)
        /\ \A i \in 1 .. len - (n + 1) + 1 : r[i] = s[(n + 1) + i - 1]
    BY <1>1, <2>1, SubSeqProperties
  <2>3. Len(r) = len - n
    BY <1>1, <1>2, <2>2
  <2>4. ASSUME NEW i \in 1 .. len - n PROVE r[i] = s[n + i] /\ n + i \in 1 .. len
    <3>1. i \in 1 .. len - (n + 1) + 1 /\ (n + 1) + i - 1 = n + i /\ n + i \in 1 .. len
      BY <1>1
    <3> HIDE DEF r, len
    <3>2. r[i] = s[(n + 1) + i - 1]
      BY <2>2, <3>1
    <3> QED BY <3>1, <3>2
  <2> HIDE DEF r
  <2> QED BY <2>2, <2>3, <2>4 DEF r
<1>3. CASE n = len
  <2>1. r = <<>>
    BY <1>1, <1>3
  <2> QED BY <1>1, <1>3, <2>1
<1> QED BY <1>1, <1>2, <1>3
-----------------------------------------------------------------------------
(* The invariant of the queue: it holds messages of calls that can be sent, with
   times of the driver's clock in their order. *)

CallsInv == \A call \in left.calls : IsCall(call) /\ (Sendable(call) => InRange(call))

QueueInv ==
    /\ CallsInv
    /\ out \in Seq(Waiting(left.calls))
    /\ out # <<>> => driver # NULL
    /\ \A i \in 1 .. Len(out) : out[i].time <= Now(driver)
    /\ \A i, j \in 1 .. Len(out) : i <= j => out[i].time <= out[j].time

\* The driver's clock says a number.
LEMMA NowType == ASSUME ClockInv, CellInv, driver # NULL PROVE Now(driver) \in Int
<1>1. driver \in Clocks /\ clock[driver] \in ClockMembers /\ time \in Nat
  BY DriverCounted DEF CellInv
<1> DEFINE k == clock[driver]
           p == time * k.numer
<1>2. k.numer \in Nat /\ k.denom \in Nat \ {0} /\ k.offset \in Int
  BY <1>1 DEF ClockMembers
<1>3. p \in Int
  BY <1>1, <1>2
<1>4. Now(driver) = p \div k.denom + k.offset
  BY DEF Now, GetRealTime
<1> HIDE DEF p, k
<1>5. p \div k.denom \in Int
  BY <1>2, <1>3, Floor
<1> QED BY <1>2, <1>4, <1>5

\* A call that is sent.
LEMMA SendKeepsQueue ==
    ASSUME ClockInv, CellInv, QueueInv, NEW call \in left.calls, Send(call), left'.calls = left.calls, UNCHANGED clockVars
    PROVE  QueueInv'
<1> DEFINE W == Waiting(left.calls)
           now == Now(driver)
           n == Len(out)
<1>1. driver # NULL /\ Sendable(call)
  BY DEF Send
<1>2. PICK byte \in Garbage : out' = Append(out, [message |-> Compose(call, byte), time |-> now, call |-> call])
  BY DEF Send
<1> DEFINE x == [message |-> Compose(call, byte), time |-> now, call |-> call]
<1>3. now \in Int
  BY <1>1, NowType
<1>4. byte \in Nat
  <2>1. 0 \in Int /\ 255 \in Int /\ byte \in 0 .. 255
    BY DeviceAssumption
  <2>2. byte \in Int /\ 0 <= byte
    BY <2>1, InRangeOf, ZenonT(30)
  <2> QED BY <2>2
<1>5. IsCall(call) /\ InRange(call)
  BY <1>1 DEF QueueInv, CallsInv
<1>6. x \in W
  <2> DEFINE c == Compose(call, byte)
  <2>1. x = [message |-> c, time |-> now, call |-> call]
    OBVIOUS
  <2> HIDE DEF x, now
  <2>2. x.message = c /\ x.call = call /\ x.time = now
    BY <2>1
  <2>3. c \in {Compose(d, b) : d \in left.calls, b \in Nat}
    BY <1>4
  <2> HIDE DEF c
  <2>4. x \in [message : {Compose(d, b) : d \in left.calls, b \in Nat}, time : Int, call : left.calls]
    BY <1>3, <2>1, <2>3
  <2>5. \E b \in Nat : x.message = Compose(x.call, b)
    BY <1>4, <2>2 DEF c
  <2> QED BY <1>1, <1>5, <2>2, <2>4, <2>5 DEF Waiting
<1>7. out \in Seq(W) /\ n \in Nat
  BY LenProperties DEF QueueInv
<1>8. out' = Append(out, x) /\ x.time = now
  BY <1>2
<1> HIDE DEF x, W
<1>9. /\ out' \in Seq(W) /\ Len(out') = n + 1 /\ out'[n + 1] = x
      /\ \A i \in 1 .. n : out'[i] = out[i]
  BY <1>6, <1>7, <1>8, AppendProperties
<1>10. Waiting(left.calls)' = W /\ CallsInv' /\ Now(driver)' = now /\ driver' = driver
  BY DEF W, Waiting, QueueInv, CallsInv, clockVars, Now, GetRealTime
<1>11. \A i \in 1 .. n : out[i].time <= now /\ out[i].time \in Int
  <2>1. \A i \in 1 .. n : out[i] \in W
    BY <1>7
  <2> QED BY <2>1 DEF QueueInv, W, Waiting
<1>12. \A i \in 1 .. n + 1 : i \in 1 .. n \/ i = n + 1
  BY <1>7
<1> HIDE DEF now, n
<1>13. \A i \in 1 .. n + 1 : out'[i].time <= now
  BY <1>3, <1>8, <1>9, <1>11, <1>12
<1>14. ASSUME NEW i \in 1 .. n + 1, NEW j \in 1 .. n + 1, i <= j PROVE out'[i].time <= out'[j].time
  <2>1. CASE j = n + 1
    BY <1>8, <1>9, <1>13, <2>1
  <2>2. CASE j \in 1 .. n
    <3>1. i \in 1 .. n
      BY <1>7, <1>14, <2>2
    <3> QED BY <1>9, <1>14, <2>2, <3>1 DEF QueueInv, n
  <2> QED BY <1>12, <2>1, <2>2
<1> QED BY <1>1, <1>9, <1>10, <1>13, <1>14 DEF QueueInv

\* A packet that takes the first messages out.
LEMMA TransmitKeepsQueue ==
    ASSUME QueueInv, NEW arrives \in BOOLEAN, Transmit(arrives), UNCHANGED <<clockVars, left>>
    PROVE  QueueInv'
<1> DEFINE W == Waiting(left.calls)
           len == Len(out)
           n == Fewer(len, Batch)
<1>1. out # <<>> /\ out' = SubSeq(out, n + 1, len)
  BY DEF Transmit
<1>2. out \in Seq(W) /\ len \in Nat
  BY LenProperties DEF QueueInv
<1>3. n \in Nat /\ n <= len
  BY <1>2, RoomEnough DEF Fewer
<1> HIDE DEF n, W
<1>4. /\ out' \in Seq(W) /\ Len(out') = len - n
      /\ \A i \in 1 .. Len(out') : out'[i] = out[n + i] /\ n + i \in 1 .. len
  BY <1>1, <1>2, <1>3, BehindFirstOf
<1>5. Waiting(left.calls)' = W /\ CallsInv' /\ Now(driver)' = Now(driver) /\ driver' = driver
  BY DEF W, Waiting, QueueInv, CallsInv, clockVars, Now, GetRealTime
<1>6. out' # <<>> => driver # NULL
  BY <1>1 DEF QueueInv
<1>7. \A i \in 1 .. Len(out') : out'[i].time <= Now(driver)
  BY <1>4 DEF QueueInv
<1>8. ASSUME NEW i \in 1 .. Len(out'), NEW j \in 1 .. Len(out'), i <= j PROVE out'[i].time <= out'[j].time
  <2>1. n + i <= n + j /\ n + i \in 1 .. len /\ n + j \in 1 .. len
    BY <1>2, <1>3, <1>4, <1>8
  <2> QED BY <1>4, <2>1 DEF QueueInv
<1> QED BY <1>4, <1>5, <1>6, <1>7, <1>8 DEF QueueInv

\* And the first n of them.
LEMMA FirstOf ==
    ASSUME NEW S, NEW s \in Seq(S), NEW n \in Nat, n >= 1, n <= Len(s)
    PROVE  LET r == SubSeq(s, 1, n)
           IN  r \in Seq(S) /\ Len(r) = n /\ \A i \in 1 .. n : r[i] = s[i]
<1> DEFINE r == SubSeq(s, 1, n)
<1>1. 1 \in 1 .. Len(s) + 1 /\ n \in 1 - 1 .. Len(s)
  BY LenProperties
<1>2. /\ r \in Seq(S) /\ Len(r) = (IF 1 <= n THEN n - 1 + 1 ELSE 0)
      /\ \A i \in 1 .. n - 1 + 1 : r[i] = s[1 + i - 1]
  BY <1>1, SubSeqProperties
<1>3. n - 1 + 1 = n /\ \A i \in 1 .. n : 1 + i - 1 = i
  OBVIOUS
<1> HIDE DEF r
<1>4. \A i \in 1 .. n : r[i] = s[i]
  BY <1>2, <1>3
<1> QED BY <1>2, <1>3, <1>4 DEF r

\* A step leaves the calls that are made.
LEMMA CallsStay == ASSUME LeftInv, [Next]_vars PROVE left'.calls = left.calls
<1>1. CASE UNCHANGED left
  BY <1>1
<1>2. ASSUME NEW what \in {"sends", "clocks", "devices", "waits"}, Spend(what) PROVE left'.calls = left.calls
  BY <1>2 DEF LeftInv, Spend
<1> QED BY <1>1, <1>2 DEF Next, vars

\* A driver's clock that stays says a later number.
LEMMA LaterSays ==
    ASSUME ClockInv, ClockInv', CellInv, LeftInv, [Next]_vars, driver # NULL, driver' = driver
    PROVE  Now(driver)' \in Int /\ Now(driver)' >= Now(driver)
<1>1. Cells
  BY DEF CellInv, Cells
<1>2. DriverClock /\ time' \in Nat /\ time <= time'
  BY <1>1, StepKeepsClock, TimeGrows
<1>3. Now(driver)' >= Now(driver)
  BY <1>2, DriverSteady
<1>4. driver \in Clocks /\ clock[driver] \in ClockMembers /\ clock'[driver] = clock[driver]
  BY <1>2, DriverCounted DEF CellInv, DriverClock
<1> DEFINE k == clock[driver]
           t == time'
           p == t * k.numer
<1>5. k.numer \in Nat /\ k.denom \in Nat \ {0} /\ k.offset \in Int
  BY <1>4 DEF ClockMembers
<1>6. Now(driver)' = p \div k.denom + k.offset
  BY <1>4 DEF Now, GetRealTime
<1>7. p \in Int
  <2>1. t \in Int
    BY <1>2
  <2> HIDE DEF t, k
  <2> QED BY <1>5, <2>1
<1> HIDE DEF p, k
<1>8. p \div k.denom \in Int
  BY <1>5, <1>7, Floor
<1> QED BY <1>3, <1>5, <1>6, <1>8

\* A step that leaves the queue alone.
LEMMA QueueStays ==
    ASSUME QueueInv, UNCHANGED out, left'.calls = left.calls, ClockInv, CellInv,
           out # <<>> => driver' = driver /\ Now(driver)' \in Int /\ Now(driver)' >= Now(driver)
    PROVE  QueueInv'
<1> DEFINE W == Waiting(left.calls)
<1>1. Waiting(left.calls)' = W /\ CallsInv'
  BY DEF W, Waiting, QueueInv, CallsInv
<1>2. CASE out = <<>>
  BY <1>1, <1>2 DEF QueueInv, W
<1>3. CASE out # <<>>
  <2>1. driver # NULL /\ driver' = driver /\ Now(driver) \in Int
    BY <1>3, NowType DEF QueueInv
  <2>2. \A i \in 1 .. Len(out) : out[i] \in W
    BY DEF QueueInv
  <2>3. \A i \in 1 .. Len(out) : out[i].time \in Int
    BY <2>2 DEF W, Waiting
  <2> HIDE DEF W
  <2>4. \A i \in 1 .. Len(out) : out[i].time <= Now(driver)'
    <3> DEFINE later == Now(driver)'
    <3>1. later \in Int /\ Now(driver) <= later
      BY <1>3, <2>1
    <3> HIDE DEF later
    <3>2. \A i \in 1 .. Len(out) : out[i].time <= later
      BY <2>1, <2>3, <3>1 DEF QueueInv
    <3> QED BY <3>2 DEF later
  <2> QED BY <1>1, <2>1, <2>4 DEF QueueInv, W
<1> QED BY <1>2, <1>3

\* So every step keeps the queue in order: while it holds messages its driver
\* stays, and their times are those of the driver's clock.
LEMMA QueueStep ==
    ASSUME ClockInv, ClockInv', CellInv, LeftInv, QueueInv, [Next]_vars
    PROVE  QueueInv'
<1>1. left'.calls = left.calls
  BY CallsStay
<1>2. ASSUME UNCHANGED out, driver' = driver \/ driver = NULL PROVE QueueInv'
  <2>1. out # <<>> => driver # NULL /\ driver' = driver
    BY <1>2 DEF QueueInv
  <2>2. out # <<>> => driver' = driver /\ Now(driver)' \in Int /\ Now(driver)' >= Now(driver)
    BY <2>1, LaterSays
  <2> QED BY <1>1, <1>2, <2>2, QueueStays
<1>3. ASSUME NEW call \in left.calls, Send(call), UNCHANGED clockVars PROVE QueueInv'
  BY <1>1, <1>3, SendKeepsQueue
<1>4. ASSUME NEW arrives \in BOOLEAN, Transmit(arrives), UNCHANGED <<clockVars, left>> PROVE QueueInv'
  BY <1>4, TransmitKeepsQueue
<1>5. CASE DeviceCall /\ UNCHANGED clockVars
  <2>1. UNCHANGED out
    BY <1>5 DEF DeviceCall, MIDIDeviceSetBaseChannel, MIDIDeviceGetChannelController, MIDIDeviceSetChannelController,
           MIDIControllerSetControl, MIDIControllerSetLongControl, SetParameter, MIDIDeviceSetTimer, ReleaseObject,
           MIDIDeviceRetain, MIDIDeviceRelease, Quiet
  <2> QED BY <1>2, <1>5, <2>1 DEF clockVars
<1>6. CASE ClockCall /\ UNCHANGED deviceVars
  <2>1. UNCHANGED driver
    BY <1>6 DEF ClockCall, MIDIClockCreate, Provide, MIDIClockRetain, MIDIClockRelease, MIDIClockSetGlobalClock,
         MIDIClockGetGlobalClock, MIDIClockSetNow, MIDIClockSetSamplingRate
  <2> QED BY <1>2, <1>6, <2>1 DEF deviceVars
<1>7. ASSUME NEW c \in Clocks, MIDIDriverInit(c), UNCHANGED deviceVars PROVE QueueInv'
  BY <1>2, <1>7 DEF MIDIDriverInit, deviceVars
<1>8. CASE MIDIDriverDestroy /\ out' = <<>>
  <2>1. CallsInv'
    BY <1>1 DEF QueueInv, CallsInv
  <2> QED BY <1>8, <2>1 DEF QueueInv
<1>9. ASSUME NEW us, Elapse(us), UNCHANGED deviceVars PROVE QueueInv'
  BY <1>2, <1>9 DEF Elapse, deviceVars
<1>10. CASE UNCHANGED vars
  BY <1>2, <1>10 DEF vars, clockVars, deviceVars
<1> QED BY <1>3, <1>4, <1>5, <1>6, <1>7, <1>8, <1>9, <1>10 DEF Next

-----------------------------------------------------------------------------
(* What the delegate is told. *)

\* A packet that arrives tells the calls it stands for, with their times.
LEMMA TransmitTells ==
    ASSUME QueueInv, NEW arrives \in BOOLEAN, Transmit(arrives)
    PROVE  (Delivered /\ TimesKept)'
<1> DEFINE len == Len(out)
           n == Fewer(len, Batch)
           waiting == SubSeq(out, 1, n)
           received == RTPMIDISessionReceive(RTPMIDISessionSend(waiting))
           k == Len(received)
           off == Slip(waiting[1].time)
           W == Waiting(left.calls)
<1>1. out # <<>> /\ out \in Seq(W) /\ len \in Nat
  BY LenProperties DEF Transmit, QueueInv
<1>2. n \in Nat /\ n >= 1 /\ n <= len /\ n <= Batch
  <2>1. len >= 1
    BY <1>1
  <2> QED BY <1>1, <2>1, RoomEnough DEF Fewer
<1>3. CASE heard' = <<>> /\ meant' = <<>>
  BY <1>3 DEF Delivered, TimesKept
<1>4. CASE ~(heard' = <<>> /\ meant' = <<>>)
  <2>1. /\ heard' = [i \in DOMAIN received |-> [call |-> Recv(received[i].message), time |-> received[i].time]]
        /\ meant' = [i \in 1 .. n |-> [call |-> out[i].call, time |-> out[i].time]]
    BY <1>4 DEF Transmit
  <2>2. /\ waiting \in Seq(W) /\ Len(waiting) = n /\ \A i \in 1 .. n : waiting[i] = out[i]
    <3> HIDE DEF n, W
    <3> QED BY <1>1, <1>2, FirstOf
  <2> HIDE DEF n, waiting
  <2>3. /\ Tells(received, waiting, n, off)
        /\ waiting[1].time \in -SignBit .. SignBit - 1 => off = 0
    BY <1>2, <2>2, PacketTells DEF W
  <2>9. off \in Int /\ \A i \in 1 .. n : waiting[i].time \in Int
    <3>1. \A i \in 1 .. n : waiting[i] \in W
      BY <1>2, <2>2
    <3>2. \A i \in 1 .. n : waiting[i].time \in Int
      BY <3>1, WaitingSays DEF W, Item
    <3>3. 1 \in 1 .. n
      BY <1>2
    <3>4. \A x \in Int : Slip(x) \in Int
      BY NoSlip
    <3> QED BY <3>2, <3>3, <3>4
  <2> HIDE DEF received, W, off
  <2>4. k \in Nat /\ k <= n /\ DOMAIN received = 1 .. k
    BY <2>3, LenProperties DEF Tells
  <2> HIDE DEF k
  <2>5. /\ Len(heard') = k /\ DOMAIN heard' = 1 .. k
        /\ \A i \in 1 .. k : heard'[i].call = Recv(received[i].message) /\ heard'[i].time = received[i].time
    BY <2>1, <2>4
  <2>6. /\ Len(meant') = n /\ DOMAIN meant' = 1 .. n
        /\ \A i \in 1 .. n : meant'[i].call = waiting[i].call /\ meant'[i].time = waiting[i].time
    BY <1>2, <2>1, <2>2
  <2>7. Delivered'
    <3> DEFINE calls == [i \in 1 .. n |-> meant'[i].call]
    <3>1. Len(calls) = n /\ \A i \in 1 .. n : calls[i] = waiting[i].call
      BY <1>2, <2>6
    <3> HIDE DEF calls
    <3>2. ASSUME NEW i \in 1 .. n, NEW j \in 1 .. i - 1 PROVE Swallows(calls, j) <=> IsLast(waiting[j].call)
      <4>1. j \in 1 .. n /\ j < n
        BY <1>2
      <4> QED BY <3>1, <4>1 DEF Swallows, IsLast
    <3>3. ASSUME NEW i \in 1 .. n, Reaches(calls, i)
          PROVE  i \in 1 .. k /\ (heard'[i].call = calls[i] \/ Swallows(calls, i))
      <4>1. \A j \in 1 .. i - 1 : ~IsLast(waiting[j].call)
        BY <3>2, <3>3 DEF Reaches
      <4>2. i \in 1 .. k
        <5>1. i <= k
          BY <2>3, <4>1 DEF Tells, k
        <5> QED BY <2>4, <5>1
      <4>3. CASE i = n \/ ~IsLast(waiting[i].call)
        BY <2>3, <2>5, <3>1, <4>2, <4>3 DEF Tells, k
      <4>4. CASE ~(i = n \/ ~IsLast(waiting[i].call))
        BY <1>2, <3>1, <4>2, <4>4 DEF Swallows, IsLast
      <4> QED BY <4>3, <4>4
    <3> QED BY <2>4, <2>5, <2>6, <3>3 DEF Delivered, calls
  <2>8. TimesKept'
    <3> SUFFICES ASSUME \A i \in 1 .. n : i > 1 => meant'[i].time - meant'[i - 1].time < VarLens,
                        NEW i \in 1 .. k
                 PROVE  /\ heard'[i].time - heard'[1].time = meant'[i].time - meant'[1].time
                        /\ meant'[1].time \in -SignBit .. SignBit - 1 => heard'[i].time = meant'[i].time
      BY <2>5, <2>6 DEF TimesKept
    <3>1. i \in 1 .. n /\ 1 \in 1 .. k /\ 1 \in 1 .. i /\ 1 \in 1 .. n
      BY <1>2, <2>4
    <3>2. ASSUME NEW h \in 1 .. k PROVE heard'[h].time = off + meant'[h].time
      <4>1. h \in 1 .. n
        BY <1>2, <2>4
      <4>2. Near(waiting, h)
        <5> SUFFICES ASSUME NEW j \in 1 .. h, j > 1
                     PROVE  waiting[j - 1].time <= waiting[j].time /\ waiting[j].time - waiting[j - 1].time < VarLens
          BY DEF Near
        <5>1. j \in 1 .. n /\ j - 1 \in 1 .. n
          BY <1>2, <4>1
        <5>2. waiting[j].time - waiting[j - 1].time < VarLens
          BY <2>6, <5>1
        <5>3. out[j - 1].time <= out[j].time
          <6>1. j \in 1 .. len /\ j - 1 \in 1 .. len /\ j - 1 <= j
            BY <1>1, <1>2, <5>1
          <6> QED BY <6>1 DEF QueueInv
        <5> QED BY <2>2, <5>1, <5>2, <5>3
      <4> QED BY <2>3, <2>5, <2>6, <4>1, <4>2 DEF Tells, k
    <3>3. /\ heard'[i].time = off + meant'[i].time /\ heard'[1].time = off + meant'[1].time
          /\ meant'[i].time \in Int /\ meant'[1].time \in Int
          /\ meant'[1].time \in -SignBit .. SignBit - 1 => off = 0
      BY <2>3, <2>6, <2>9, <3>1, <3>2
    <3> DEFINE a == meant'[i].time
               b == meant'[1].time
               p == heard'[i].time
               q == heard'[1].time
    <3>4. p = off + a /\ q = off + b /\ a \in Int /\ b \in Int /\ (b \in -SignBit .. SignBit - 1 => off = 0)
      BY <3>3
    <3> HIDE DEF a, b, p, q
    <3>5. p - q = a - b /\ (b \in -SignBit .. SignBit - 1 => p = a)
      BY <2>9, <3>4
    <3> QED BY <3>5 DEF a, b, p, q
  <2> QED BY <2>7, <2>8
<1> QED BY <1>3, <1>4

\* Only a packet changes what the delegate was told.
LEMMA ToldStep ==
    ASSUME QueueInv, Delivered, TimesKept, [Next]_vars
    PROVE  (Delivered /\ TimesKept)'
<1>1. ASSUME UNCHANGED <<heard, meant>> PROVE (Delivered /\ TimesKept)'
  BY <1>1 DEF Delivered, TimesKept
<1>2. ASSUME NEW arrives \in BOOLEAN, Transmit(arrives) PROVE (Delivered /\ TimesKept)'
  BY <1>2, TransmitTells
<1>3. (\E call \in left.calls : Send(call)) => UNCHANGED <<heard, meant>>
  BY DEF Send
<1>4. DeviceCall => UNCHANGED <<heard, meant>>
  BY DEF DeviceCall, MIDIDeviceSetBaseChannel, MIDIDeviceGetChannelController, MIDIDeviceSetChannelController,
         MIDIControllerSetControl, MIDIControllerSetLongControl, SetParameter, MIDIDeviceSetTimer, ReleaseObject,
         MIDIDeviceRetain, MIDIDeviceRelease, Quiet
<1>5. UNCHANGED deviceVars => UNCHANGED <<heard, meant>>
  BY DEF deviceVars
<1> QED BY <1>1, <1>2, <1>3, <1>4, <1>5 DEF Next, vars

\* At the start nothing is queued or told.
LEMMA QueueInitHolds == Init => QueueInv /\ Delivered /\ TimesKept
<1> SUFFICES ASSUME Init PROVE QueueInv /\ Delivered /\ TimesKept
  OBVIOUS
<1>1. out = <<>> /\ heard = <<>> /\ meant = <<>> /\ left \in Limits
  BY DEF Init, DeviceInit
<1>2. CallsInv
  BY <1>1, LimitsAssumption DEF CallsInv
<1> QED BY <1>1, <1>2 DEF QueueInv, Delivered, TimesKept

\* What the delegate is told of a packet that arrives is what the sender called, in
\* its order, for every call, every size of a batch, every clock and whatever
\* malloc leaves in a message; only what follows a system exclusive message in its
\* packet is lost (device.c:235-312, 785-1396, rtpmidi.c:363-621).
THEOREM DeliveryCorrect == Spec => []Delivered
<1>1. Init => ClockInv /\ CellInv /\ LeftInv /\ QueueInv /\ Delivered /\ TimesKept
  BY ClockInitHolds, CellInitHolds, QueueInitHolds DEF Init
<1>2. ClockInv /\ CellInv /\ LeftInv /\ QueueInv /\ Delivered /\ TimesKept /\ [Next]_vars
          => ClockInv' /\ CellInv' /\ LeftInv' /\ QueueInv' /\ Delivered' /\ TimesKept'
  BY ClockStep, CellStep, LeftStep, QueueStep, ToldStep
<1> QED BY <1>1, <1>2, PTL DEF Spec

\* Times that are less than 2^28 ticks apart keep their distances in a packet, and
\* are as the driver's clock gave them while the first one has 31 bits: that clock
\* does not go back, so none is taken for an earlier one (rtpmidi.c:417,
\* util.c:24-69, clock.c:391, rtp.c:720-723, 759-762).
THEOREM TimesCorrect == Spec => []TimesKept
<1>1. Init => ClockInv /\ CellInv /\ LeftInv /\ QueueInv /\ Delivered /\ TimesKept
  BY ClockInitHolds, CellInitHolds, QueueInitHolds DEF Init
<1>2. ClockInv /\ CellInv /\ LeftInv /\ QueueInv /\ Delivered /\ TimesKept /\ [Next]_vars
          => ClockInv' /\ CellInv' /\ LeftInv' /\ QueueInv' /\ Delivered' /\ TimesKept'
  BY ClockStep, CellStep, LeftStep, QueueStep, ToldStep
<1> QED BY <1>1, <1>2, PTL DEF Spec
-----------------------------------------------------------------------------
(* Data entry. *)

\* The number that two bytes of data entry are: the high one counts with its lower
\* seven bits.
Number(a, b) == ((a % 128) * 128) + b

\* A number of 14 bits, by its halves.
LEMMA NumberHalves ==
    ASSUME NEW a \in Nat, NEW b \in Nat, b < 128
    PROVE  /\ Number(a, b) \in Nat /\ Number(a, b) <= LongMax
           /\ Number(a, b) % 128 = b /\ Number(a, b) \div 128 = a % 128
BY DEF Number, LongMax

\* One more, and one less: the carry goes into the high byte.
LEMMA NumberStep ==
    ASSUME NEW a \in Nat, a < 256, NEW b \in Nat, b < 128
    PROVE  /\ LET low == (b + 1) % 256
              IN  Number(IF low >= 128 THEN (a + 1) % 256 ELSE a, low % 128) = (Number(a, b) + 1) % 16384
           /\ LET low == (b - 1) % 256
              IN  Number(IF low >= 128 THEN (a - 1) % 256 ELSE a, low % 128) = (Number(a, b) - 1) % 16384
<1>1. PICK x \in Nat, y \in Nat : a = y * 128 + x /\ x < 128 /\ y < 2
  <2>1. a % 128 \in Nat /\ a % 128 < 128 /\ a \div 128 \in Nat /\ a \div 128 < 2 /\ a = (a \div 128) * 128 + (a % 128)
    OBVIOUS
  <2> QED BY <2>1
<1>2. Number(a, b) = x * 128 + b
  BY <1>1 DEF Number
<1>3. y = 0 \/ y = 1
  BY <1>1
<1>4. CASE b < 127
  <2>1. (b + 1) % 256 = b + 1 /\ (b + 1) % 128 = b + 1 /\ b + 1 < 128
    BY <1>4
  <2>2. (x * 128 + b + 1) % 16384 = x * 128 + b + 1
    BY <1>1, <1>4
  <2> QED BY <1>1, <1>2, <2>1, <2>2 DEF Number
<1>5. CASE b = 127
  <2> QED BY <1>1, <1>2, <1>3, <1>5 DEF Number
<1> QED BY <1>4, <1>5

\* The bytes of a controller, and the number that its data entry says.
Agree(v, e) ==
    /\ v \in [Controls -> Octet] /\ v[DataEntryLow] < 128
    /\ e = Number(v[DataEntry], v[DataEntryLow])

\* Both of them are controls, and other ones than those that count.
LEMMA EntryControls ==
    /\ DataEntry \in Controls /\ DataEntryLow \in Controls /\ DataEntry = 6 /\ DataEntryLow = 38
    /\ DataIncrement = 96 /\ DataDecrement = 97 /\ ResetAll = 121 /\ AllSoundOff = 120
BY ControlsAssumption DEF DataEntry, DataEntryLow, DataIncrement, DataDecrement, ResetAll, AllSoundOff

\* What such a controller says.
LEMMA AgreeSays ==
    ASSUME NEW v, NEW e, Agree(v, e)
    PROVE  /\ LongControl(v, DataEntry) = e /\ e \in Nat /\ e <= LongMax
           /\ v[DataEntry] \in Nat /\ v[DataEntry] < 256 /\ v[DataEntryLow] \in Nat
<1> DEFINE a == v[DataEntry]
           b == v[DataEntryLow]
<1>1. a \in Octet /\ b \in Octet /\ b < 128 /\ e = Number(a, b)
  BY EntryControls DEF Agree
<1>2. a \in Int /\ 0 <= a /\ a <= 255 /\ b \in Int /\ 0 <= b
  BY <1>1, OctetRange, ZenonT(30)
<1>3. LongControl(v, DataEntry) = ((a % 128) * 128) + (b % 128)
  <2> DEFINE half == Halves(6)
  <2>1. half = <<6, 38>> /\ half[1] = 6 /\ half[2] = 38
    BY DEF Halves
  <2> HIDE DEF half
  <2>2. LongControl(v, 6) = ((v[half[1]] % 128) * 128) + (v[half[2]] % 128)
    BY DEF LongControl, half
  <2>3. LongControl(v, 6) = ((v[6] % 128) * 128) + (v[38] % 128)
    BY <2>1, <2>2
  <2> QED BY <2>3, EntryControls
<1> HIDE DEF a, b
<1>4. b % 128 = b
  BY <1>1, <1>2
<1>5. Number(a, b) = ((a % 128) * 128) + (b % 128)
  BY <1>4 DEF Number
<1>6. e \in Nat /\ e <= LongMax
  BY <1>1, <1>2, NumberHalves
<1> QED BY <1>1, <1>2, <1>3, <1>5, <1>6 DEF a, b

\* A control that is not one of the two gets a value.
LEMMA OtherAgrees ==
    ASSUME NEW v, NEW e, Agree(v, e), NEW control, control # DataEntry, control # DataEntryLow,
           NEW value \in Octet
    PROVE  Agree([v EXCEPT ![control] = value], e)
<1>1. [v EXCEPT ![control] = value] \in [Controls -> Octet]
  BY DEF Agree
<1>2. /\ [v EXCEPT ![control] = value][DataEntry] = v[DataEntry]
      /\ [v EXCEPT ![control] = value][DataEntryLow] = v[DataEntryLow]
  BY EntryControls DEF Agree
<1> QED BY <1>1, <1>2 DEF Agree

\* The higher of the two gets a value.
LEMMA HighAgrees ==
    ASSUME NEW v, NEW e, Agree(v, e), NEW value \in Octet, value < 128
    PROVE  Agree([v EXCEPT ![DataEntry] = value], (value * 128) + (e % 128))
<1> DEFINE w == [v EXCEPT ![DataEntry] = value]
           b == v[DataEntryLow]
<1>1. w \in [Controls -> Octet] /\ w[DataEntry] = value /\ w[DataEntryLow] = b /\ b < 128
  BY EntryControls DEF Agree
<1>2. e % 128 = b
  BY AgreeSays, NumberHalves, SMTT(30) DEF Agree
<1>3. value % 128 = value
  BY OctetRange
<1> HIDE DEF w, b
<1> QED BY <1>1, <1>2, <1>3 DEF Agree, Number, w

\* And the lower one.
LEMMA LowAgrees ==
    ASSUME NEW v, NEW e, Agree(v, e), NEW value \in Octet, value < 128
    PROVE  Agree([v EXCEPT ![DataEntryLow] = value], ((e \div 128) * 128) + value)
<1> DEFINE w == [v EXCEPT ![DataEntryLow] = value]
           a == v[DataEntry]
<1>1. w \in [Controls -> Octet] /\ w[DataEntry] = a /\ w[DataEntryLow] = value
  BY EntryControls DEF Agree
<1>2. e \div 128 = a % 128
  BY AgreeSays, NumberHalves DEF Agree
<1> HIDE DEF w, a
<1> QED BY <1>1, <1>2 DEF Agree, Number, w

\* Increment and decrement: the two bytes step as one number of 14 bits.
LEMMA StepAgrees ==
    ASSUME NEW v, NEW e, Agree(v, e)
    PROVE  Agree(DataEntryStep(v, 1), (e + 1) % 16384) /\ Agree(DataEntryStep(v, -1), (e - 1) % 16384)
<1> DEFINE a == v[DataEntry]
           b == v[DataEntryLow]
<1>1. a \in Nat /\ a < 256 /\ b \in Nat /\ b < 128 /\ e = Number(a, b) /\ v \in [Controls -> Octet]
  BY AgreeSays DEF Agree
<1>2. ASSUME NEW d \in Int
      PROVE  LET low == (b + d) % 256
                 w == DataEntryStep(v, d)
             IN  /\ w \in [Controls -> Octet] /\ w[DataEntryLow] = low % 128 /\ w[DataEntryLow] < 128
                 /\ w[DataEntry] = IF low >= 128 THEN (a + d) % 256 ELSE a
  <2> DEFINE low == (b + d) % 256
             x == low % 128
             y == IF low >= 128 THEN (a + d) % 256 ELSE a
             w == DataEntryStep(v, d)
  <2>1. x \in Int /\ 0 <= x /\ x <= 255 /\ x < 128 /\ y \in Int /\ 0 <= y /\ y <= 255
    BY <1>1
  <2>2. x \in Octet /\ y \in Octet
    BY <2>1, OctetRange, ZenonT(30)
  <2>3. w = [v EXCEPT ![DataEntryLow] = x, ![DataEntry] = y]
    BY DEF DataEntryStep
  <2> HIDE DEF w, x, y
  <2>4. w \in [Controls -> Octet] /\ w[DataEntryLow] = x /\ w[DataEntry] = y
    BY <1>1, <2>2, <2>3, EntryControls
  <2> QED BY <2>1, <2>4 DEF w, x, y
<1> HIDE DEF a, b
<1>3. /\ LET low == (b + 1) % 256
         IN  Number(IF low >= 128 THEN (a + 1) % 256 ELSE a, low % 128) = (e + 1) % 16384
      /\ LET low == (b - 1) % 256
         IN  Number(IF low >= 128 THEN (a - 1) % 256 ELSE a, low % 128) = (e - 1) % 16384
  BY <1>1, NumberStep
<1>4. Agree(DataEntryStep(v, 1), (e + 1) % 16384)
  <2> DEFINE w == DataEntryStep(v, 1)
             x == w[DataEntryLow]
             y == w[DataEntry]
             next == (e + 1) % 16384
  <2>1. /\ w \in [Controls -> Octet] /\ x < 128 /\ x = ((b + 1) % 256) % 128
        /\ y = IF (b + 1) % 256 >= 128 THEN (a + 1) % 256 ELSE a
    BY <1>2
  <2>2. next = Number(y, x)
    <3> HIDE DEF x, y
    <3> QED BY <1>3, <2>1
  <2> HIDE DEF w, next
  <2>3. Agree(w, next)
    BY <2>1, <2>2 DEF Agree
  <2> QED BY <2>3 DEF w, next
<1>5. Agree(DataEntryStep(v, -1), (e - 1) % 16384)
  <2> DEFINE w == DataEntryStep(v, -1)
             x == w[DataEntryLow]
             y == w[DataEntry]
             next == (e - 1) % 16384
  <2>1. b + -1 = b - 1 /\ a + -1 = a - 1
    BY <1>1
  <2>2. /\ w \in [Controls -> Octet] /\ x < 128 /\ x = ((b + -1) % 256) % 128
        /\ y = IF (b + -1) % 256 >= 128 THEN (a + -1) % 256 ELSE a
    <3>1. -1 \in Int
      OBVIOUS
    <3> QED BY <1>2, <3>1
  <2>3. next = Number(y, x)
    <3> HIDE DEF x, y
    <3> QED BY <1>3, <2>1, <2>2
  <2> HIDE DEF w, next
  <2>4. Agree(w, next)
    BY <2>2, <2>3 DEF Agree
  <2> QED BY <2>4 DEF w, next
<1> QED BY <1>4, <1>5

\* A reset sets both to their highest value.
LEMMA ResetAgrees ==
    ASSUME NEW v, v \in [Controls -> Octet]
    PROVE  Agree(ResetControls(v), LongMax)
<1> DEFINE w == ResetControls(v)
<1>1. 127 \in Octet /\ 0 \in Octet
  <2>1. 127 \in Int /\ 0 <= 127 /\ 127 <= 255 /\ 0 \in Int /\ 0 <= 0 /\ 0 <= 255
    OBVIOUS
  <2> QED BY <2>1, OctetRange, ZenonT(30)
<1>2. w \in [Controls -> Octet]
  <2>1. \A c \in Controls : v[c] \in Octet
    OBVIOUS
  <2> QED BY <1>1, <2>1 DEF ResetControls
<1>3. w[DataEntry] = 127 /\ w[DataEntryLow] = 127
  BY ControlsAssumption DEF ResetControls, Pedals, ModulationWheel, Expression, DataEntry, DataEntryLow
<1>4. Number(127, 127) = LongMax
  BY DEF Number, LongMax
<1> HIDE DEF w
<1> QED BY <1>2, <1>3, <1>4 DEF Agree, w

\* A control change says to a controller what it means for data entry.
LEMMA ChangeAgrees ==
    ASSUME NEW v, NEW e, Agree(v, e), NEW control \in Nat, control < 128, NEW value \in Octet, value < 128
    PROVE  Agree(ReceiveControlChange(v, control, value), Meaning(e, control, value))
<1> USE EntryControls
<1>1. CASE control = DataIncrement
  <2> DEFINE w == DataEntryStep(v, 1)
  <2>1. Agree(w, (e + 1) % 16384)
    BY StepAgrees
  <2> HIDE DEF w
  <2>2. Agree([w EXCEPT ![control] = value], (e + 1) % 16384)
    BY <1>1, <2>1, OtherAgrees
  <2> QED BY <1>1, <2>2 DEF ReceiveControlChange, Meaning, w
<1>2. CASE control = DataDecrement
  <2> DEFINE w == DataEntryStep(v, -1)
  <2>1. Agree(w, (e - 1) % 16384)
    BY StepAgrees
  <2> HIDE DEF w
  <2>2. Agree([w EXCEPT ![control] = value], (e - 1) % 16384)
    BY <1>2, <2>1, OtherAgrees
  <2> QED BY <1>2, <2>2 DEF ReceiveControlChange, Meaning, w
<1>3. CASE control = DataEntry
  <2>1. Agree([v EXCEPT ![DataEntry] = value], (value * 128) + (e % 128))
    BY HighAgrees
  <2> QED BY <1>3, <2>1 DEF ReceiveControlChange, Meaning
<1>4. CASE control = DataEntryLow
  <2>1. Agree([v EXCEPT ![DataEntryLow] = value], ((e \div 128) * 128) + value)
    BY LowAgrees
  <2> QED BY <1>4, <2>1 DEF ReceiveControlChange, Meaning
<1>5. CASE control = ResetAll
  <2>1. Agree(ResetControls(v), LongMax)
    BY ResetAgrees DEF Agree
  <2> QED BY <1>5, <2>1 DEF ReceiveControlChange, Meaning
<1>6. CASE control \notin {DataIncrement, DataDecrement, DataEntry, DataEntryLow, ResetAll}
  <2>1. Meaning(e, control, value) = e
    BY <1>6 DEF Meaning
  <2>2. Agree([v EXCEPT ![control] = value], e)
    BY <1>6, OtherAgrees
  <2> QED BY <1>6, <2>1, <2>2 DEF ReceiveControlChange
<1> QED BY <1>1, <1>2, <1>3, <1>4, <1>5, <1>6

\* The bytes of a controller that hears a control change.
LEMMA ReceivedType ==
    ASSUME NEW v \in [Controls -> Octet], NEW control, NEW value \in Octet
    PROVE  ReceiveControlChange(v, control, value) \in [Controls -> Octet]
<1>1. ASSUME NEW d \in Int PROVE DataEntryStep(v, d) \in [Controls -> Octet]
  <2> DEFINE a == v[DataEntry]
             b == v[DataEntryLow]
             low == (b + d) % 256
             x == low % 128
             y == IF low >= 128 THEN (a + d) % 256 ELSE a
  <2>1. a \in Int /\ 0 <= a /\ a <= 255 /\ b \in Int
    <3>1. a \in Octet /\ b \in Octet
      BY EntryControls
    <3> QED BY <3>1, OctetRange, ZenonT(30)
  <2>2. x \in Int /\ 0 <= x /\ x <= 255 /\ y \in Int /\ 0 <= y /\ y <= 255
    <3> HIDE DEF a, b
    <3> QED BY <2>1
  <2>3. x \in Octet /\ y \in Octet
    BY <2>2, OctetRange, ZenonT(30)
  <2>4. DataEntryStep(v, d) = [v EXCEPT ![DataEntryLow] = x, ![DataEntry] = y]
    BY DEF DataEntryStep
  <2> HIDE DEF x, y
  <2> QED BY <2>3, <2>4
<1>2. DataEntryStep(v, 1) \in [Controls -> Octet] /\ DataEntryStep(v, -1) \in [Controls -> Octet]
  BY <1>1
<1>3. ResetControls(v) \in [Controls -> Octet]
  BY ResetAgrees DEF Agree
<1>4. \A w \in [Controls -> Octet] : [w EXCEPT ![control] = value] \in [Controls -> Octet]
  OBVIOUS
<1> QED BY <1>2, <1>3, <1>4 DEF ReceiveControlChange

\* All controllers, and the numbers that count for them.
AllAgree(ks, es) ==
    /\ ks \in [Controllers -> [Controls -> Octet]] /\ es \in [Controllers -> Int]
    /\ \A k \in Controllers : Agree(ks[k], es[k])

\* Calls with the values that control changes have.
Plain(call) ==
    call.status = ControlChange.status =>
        /\ call.args.control \in Nat /\ call.args.control < 128
        /\ call.args.value \in Octet /\ call.args.value < 128

\* A controller hears nothing but control changes.
LEMMA HearingType ==
    ASSUME NEW ks \in [Controllers -> [Controls -> Octet]], NEW call, Plain(call)
    PROVE  Hear(ks, call) \in [Controllers -> [Controls -> Octet]]
<1>1. ASSUME NEW k \in Controllers, k \in Hearer(call)
      PROVE  ReceiveControlChange(ks[k], call.args.control, call.args.value) \in [Controls -> Octet]
  <2> DEFINE v == ks[k]
             control == call.args.control
             value == call.args.value
  <2>1. v \in [Controls -> Octet] /\ value \in Octet
    BY <1>1 DEF Hearer, Plain
  <2> HIDE DEF v, control, value
  <2>2. ReceiveControlChange(v, control, value) \in [Controls -> Octet]
    BY <2>1, ReceivedType
  <2> QED BY <2>2 DEF v, control, value
<1> QED BY <1>1 DEF Hear

\* A call is heard as it is meant. One that is cut short is of no concern.
LEMMA HearAgrees ==
    ASSUME NEW ks, NEW es, AllAgree(ks, es), NEW call, Plain(call), NEW said,
           call = said \/ (IsLast(call) /\ IsLast(said))
    PROVE  AllAgree(Hear(ks, call), Enter(es, said))
<1>1. ASSUME NEW k \in Controllers, call.status = ControlChange.status, call.args.channel = device.base,
             k = device.slot[device.base]
      PROVE  Hear(ks, call)[k] = ReceiveControlChange(ks[k], call.args.control, call.args.value)
             /\ Enter(es, call)[k] = Meaning(es[k], call.args.control, call.args.value)
  BY <1>1, DeviceAssumption DEF Hear, Hearer, Enter
<1>2. ASSUME NEW k \in Controllers, NEW c,
             ~(c.status = ControlChange.status /\ c.args.channel = device.base /\ k = device.slot[device.base])
      PROVE  Hear(ks, c)[k] = ks[k] /\ Enter(es, c)[k] = es[k]
  BY <1>2 DEF Hear, Hearer, Enter
<1>3. \A c : IsLast(c) => c.status # ControlChange.status
  BY DEF IsLast, SystemExclusive, ControlChange, Kind
<1> DEFINE heardBy(k) == call.status = ControlChange.status /\ call.args.channel = device.base
                         /\ k = device.slot[device.base]
<1>4. ASSUME NEW k \in Controllers PROVE Agree(Hear(ks, call)[k], Enter(es, said)[k])
  <2>1. Agree(ks[k], es[k])
    BY DEF AllAgree
  <2>2. CASE heardBy(k)
    <3>1. call = said
      BY <1>3, <2>2
    <3>2. Agree(ReceiveControlChange(ks[k], call.args.control, call.args.value),
                Meaning(es[k], call.args.control, call.args.value))
      BY <2>1, <2>2, ChangeAgrees DEF Plain
    <3> QED BY <1>1, <2>2, <3>1, <3>2
  <2>3. CASE ~heardBy(k)
    <3>1. Hear(ks, call)[k] = ks[k]
      BY <1>2, <2>3
    <3>2. Enter(es, said)[k] = es[k]
      BY <1>2, <1>3, <2>3
    <3> QED BY <2>1, <3>1, <3>2
  <2> QED BY <2>2, <2>3
<1>5. Hear(ks, call) = [k \in Controllers |-> Hear(ks, call)[k]] /\ Enter(es, said) = [k \in Controllers |-> Enter(es, said)[k]]
  BY DEF Hear, Enter
<1>6. \A v, e : Agree(v, e) => v \in [Controls -> Octet] /\ e \in Int
  BY AgreeSays DEF Agree
<1>7. Hear(ks, call) \in [Controllers -> [Controls -> Octet]] /\ Enter(es, said) \in [Controllers -> Int]
  BY <1>4, <1>5, <1>6
<1> QED BY <1>4, <1>7 DEF AllAgree

\* What data entry means stays a number.
LEMMA EnterType ==
    ASSUME NEW e \in [Controllers -> Int], NEW call, Plain(call)
    PROVE  Enter(e, call) \in [Controllers -> Int]
<1>1. ASSUME NEW v \in Int, NEW control, NEW value \in Octet PROVE Meaning(v, control, value) \in Int
  <2>1. value \in Int
    BY OctetRange
  <2> QED BY <2>1 DEF Meaning, LongMax
<1>2. ASSUME NEW k \in Controllers, call.status = ControlChange.status
      PROVE  Meaning(e[k], call.args.control, call.args.value) \in Int
  BY <1>1, <1>2 DEF Plain
<1> QED BY <1>2 DEF Enter

Bodies == [Controllers -> [Controls -> Octet]]

\* The controllers after each of some calls.
LEMMA RecvAllSteps ==
    ASSUME NEW k0 \in Bodies, NEW calls, NEW n \in Nat, Len(calls) = n, \A i \in 1 .. n : Plain(calls[i])
    PROVE  \E g : /\ RecvAll(k0, calls) = g[n] /\ g[0] = k0
                  /\ \A i \in 1 .. n : g[i] = Hear(g[i - 1], calls[i])
<1> DEFINE F == [x \in (1 .. n) \X Bodies |-> Hear(x[2], calls[x[1]])]
           Inv == [i \in 0 .. n |-> Bodies]
           Body(h) == [i \in 0 .. n |-> IF i = 0 THEN k0 ELSE Hear(h[i - 1], calls[i])]
           after == CHOOSE h : h = Body(h)
<1>1. RecvAll(k0, calls) = after[n]
  BY DEF RecvAll
<1>2. \A i \in 1 .. n, s \in Bodies : F[<<i, s>>] = Hear(s, calls[i]) /\ Hear(s, calls[i]) \in Bodies
  BY HearingType DEF Bodies
<1>3. k0 \in Inv[0] /\ \A i \in 1 .. n : \A s \in Inv[i - 1] : F[<<i, s>>] \in Inv[i]
  <2>1. \A i \in 0 .. n : Inv[i] = Bodies
    OBVIOUS
  <2>2. 0 \in 0 .. n /\ \A i \in 1 .. n : i \in 0 .. n /\ i - 1 \in 0 .. n
    OBVIOUS
  <2> HIDE DEF Inv, F
  <2> QED BY <1>2, <2>1, <2>2
<1> HIDE DEF F
<1>4. PICK g : Iterates(g, n, k0, F) /\ \A i \in 0 .. n : g[i] \in Inv[i]
  <2> HIDE DEF Inv
  <2> QED BY <1>3, Iteration
<1>5. ASSUME NEW i \in 1 .. n PROVE F[<<i, g[i - 1]>>] = Hear(g[i - 1], calls[i])
  <2>1. i - 1 \in 0 .. n
    OBVIOUS
  <2>2. g[i - 1] \in Bodies
    BY <1>4, <2>1
  <2> QED BY <1>2, <2>2
<1>6. g = [i \in 0 .. n |-> IF i = 0 THEN k0 ELSE F[<<i, g[i - 1]>>]]
  BY <1>4 DEF Iterates
<1>7. g = Body(g)
  <2>1. \A i \in 0 .. n : i # 0 => i \in 1 .. n
    OBVIOUS
  <2>2. \A i \in 0 .. n : (IF i = 0 THEN k0 ELSE F[<<i, g[i - 1]>>]) = (IF i = 0 THEN k0 ELSE Hear(g[i - 1], calls[i]))
    BY <1>5, <2>1
  <2> QED BY <1>6, <2>2
<1>8. after = Body(after)
  BY <1>7
<1> HIDE DEF after
<1>9. after[0] = k0 /\ \A i \in 1 .. n : after[i] = Hear(after[i - 1], calls[i])
  BY <1>8
<1> QED BY <1>1, <1>9

Counts == [Controllers -> Int]

\* The calls that are heard can be entered.
Entered(calls, n) == \A i \in 1 .. n : Reaches(calls, i) => \A e \in Counts : Enter(e, calls[i]) \in Counts

\* What data entry means after each of some calls.
LEMMA EntriesSteps ==
    ASSUME NEW e0 \in Counts, NEW calls, NEW n \in Nat, Len(calls) = n, Entered(calls, n)
    PROVE  \E g : /\ Entries(e0, calls) = g[n] /\ g[0] = e0
                  /\ \A i \in 1 .. n : g[i] = IF Reaches(calls, i) THEN Enter(g[i - 1], calls[i]) ELSE g[i - 1]
<1> DEFINE Go(e, i) == IF Reaches(calls, i) THEN Enter(e, calls[i]) ELSE e
           F == [x \in (1 .. n) \X Counts |-> Go(x[2], x[1])]
           Inv == [i \in 0 .. n |-> Counts]
           Body(h) == [i \in 0 .. n |-> IF i = 0 THEN e0 ELSE Go(h[i - 1], i)]
           after == CHOOSE h : h = Body(h)
<1>1. Entries(e0, calls) = after[n]
  BY DEF Entries
<1>2. \A i \in 1 .. n, s \in Counts : F[<<i, s>>] = Go(s, i) /\ Go(s, i) \in Counts
  BY DEF Entered
<1> HIDE DEF Go
<1>3. e0 \in Inv[0] /\ \A i \in 1 .. n : \A s \in Inv[i - 1] : F[<<i, s>>] \in Inv[i]
  <2>1. \A i \in 0 .. n : Inv[i] = Counts
    OBVIOUS
  <2>2. 0 \in 0 .. n /\ \A i \in 1 .. n : i \in 0 .. n /\ i - 1 \in 0 .. n
    OBVIOUS
  <2> HIDE DEF Inv, F
  <2> QED BY <1>2, <2>1, <2>2
<1> HIDE DEF F
<1>4. PICK g : Iterates(g, n, e0, F) /\ \A i \in 0 .. n : g[i] \in Inv[i]
  <2> HIDE DEF Inv
  <2> QED BY <1>3, Iteration
<1>5. ASSUME NEW i \in 1 .. n PROVE F[<<i, g[i - 1]>>] = Go(g[i - 1], i)
  <2>1. i - 1 \in 0 .. n
    OBVIOUS
  <2>2. g[i - 1] \in Counts
    BY <1>4, <2>1
  <2> QED BY <1>2, <2>2
<1>6. g = [i \in 0 .. n |-> IF i = 0 THEN e0 ELSE F[<<i, g[i - 1]>>]]
  BY <1>4 DEF Iterates
<1>7. g = Body(g)
  <2>1. \A i \in 0 .. n : i # 0 => i \in 1 .. n
    OBVIOUS
  <2>2. \A i \in 0 .. n : (IF i = 0 THEN e0 ELSE F[<<i, g[i - 1]>>]) = (IF i = 0 THEN e0 ELSE Go(g[i - 1], i))
    BY <1>5, <2>1
  <2> QED BY <1>6, <2>2
<1>8. after = Body(after)
  BY <1>7
<1> HIDE DEF after
<1>9. after[0] = e0 /\ \A i \in 1 .. n : after[i] = Go(after[i - 1], i)
  BY <1>8
<1> QED BY <1>1, <1>9 DEF Go

\* After a packet: the receiver hears the first k of n calls, each as it was said or
\* as one that is no control change.
LEMMA PacketAgrees ==
    ASSUME NEW k0, NEW e0, AllAgree(k0, e0), NEW n \in Nat, NEW k \in 0 .. n,
           NEW calls, Len(calls) = k, \A i \in 1 .. k : Plain(calls[i]),
           NEW said, Len(said) = n, \A i \in 1 .. n : Reaches(said, i) <=> i <= k,
           \A i \in 1 .. k : calls[i] = said[i] \/ (IsLast(calls[i]) /\ IsLast(said[i]))
    PROVE  AllAgree(RecvAll(k0, calls), Entries(e0, said))
<1>1. PICK g : /\ RecvAll(k0, calls) = g[k] /\ g[0] = k0
               /\ \A i \in 1 .. k : g[i] = Hear(g[i - 1], calls[i])
  <2>1. k0 \in Bodies /\ k \in Nat /\ Len(calls) = k /\ \A i \in 1 .. k : Plain(calls[i])
    BY DEF AllAgree, Bodies
  <2> QED BY ONLY <2>1, RecvAllSteps
<1>2. ASSUME NEW i \in 1 .. n, Reaches(said, i), NEW e \in Counts PROVE Enter(e, said[i]) \in Counts
  <2>1. i \in 1 .. k
    BY <1>2
  <2>2. Plain(said[i])
    <3>1. IsLast(said[i]) => said[i].status # ControlChange.status
      BY DEF IsLast, SystemExclusive, ControlChange, Kind
    <3> QED BY <2>1, <3>1 DEF Plain
  <2> QED BY <2>2, EnterType DEF Counts
<1>3. PICK h : /\ Entries(e0, said) = h[n] /\ h[0] = e0
               /\ \A i \in 1 .. n : h[i] = IF Reaches(said, i) THEN Enter(h[i - 1], said[i]) ELSE h[i - 1]
  <2>1. e0 \in Counts /\ n \in Nat /\ Len(said) = n
    BY DEF AllAgree, Counts
  <2>2. Entered(said, n)
    BY <1>2 DEF Entered
  <2> QED BY ONLY <2>1, <2>2, EntriesSteps
<1> DEFINE at(i) == IF i <= k THEN i ELSE k
           P == {i \in 0 .. n : AllAgree(g[at(i)], h[i])}
<1>4. 0 \in P
  BY <1>1, <1>3
<1>5. ASSUME NEW i \in 1 .. n, i - 1 \in P PROVE i \in P
  <2>1. CASE i <= k
    <3>1. i \in 1 .. k /\ at(i) = i /\ at(i - 1) = i - 1
      BY <2>1
    <3>2. AllAgree(g[i - 1], h[i - 1])
      BY <1>5, <3>1
    <3>3. g[i] = Hear(g[i - 1], calls[i]) /\ h[i] = Enter(h[i - 1], said[i])
      BY <1>1, <1>3, <2>1, <3>1
    <3>4. AllAgree(g[i], h[i])
      <4>1. Plain(calls[i]) /\ (calls[i] = said[i] \/ (IsLast(calls[i]) /\ IsLast(said[i])))
        BY <3>1
      <4> QED BY <3>2, <3>3, <4>1, HearAgrees
    <3> QED BY <3>1, <3>4
  <2>2. CASE ~(i <= k)
    <3>1. at(i) = k /\ at(i - 1) = k
      BY <2>2
    <3>2. h[i] = h[i - 1] /\ AllAgree(g[k], h[i - 1])
      BY <1>3, <1>5, <2>2, <3>1
    <3> QED BY <3>1, <3>2
  <2> QED BY <2>1, <2>2
<1>6. n \in P
  <2> HIDE DEF P
  <2>1. \A i \in 0 .. n : i \in P
    BY <1>4, <1>5, UpTo
  <2> QED BY <2>1
<1>7. at(n) = k
  OBVIOUS
<1> QED BY <1>1, <1>3, <1>6, <1>7

\* A control change that can be sent has a control and a value of seven bits.
LEMMA SentPlain == ASSUME NEW call, IsCall(call), Sendable(call) PROVE Plain(call)
<1> SUFFICES ASSUME call.status = ControlChange.status
             PROVE  /\ call.args.control \in Nat /\ call.args.control < 128
                    /\ call.args.value \in Octet /\ call.args.value < 128
  BY DEF Plain
<1> DEFINE f == "control_change"
           x == call.args["control"]
           y == call.args["value"]
           properties == <<"channel", "control", "value">>
<1>1. call.status = 11 /\ KindOf(11).properties = properties /\ Range(properties) = {"channel", "control", "value"}
      /\ Layout[f]["control"][2] = "byte" /\ Layout[f]["value"][2] = "byte"
  BY KindsByStatus, Properties DEF ControlChange, Kind, Layout, ControlChangeLayout
<1>2. MIDIMessageFormatForStatus(11) = f
  BY ChannelFormats DEF OfChannel
<1> HIDE DEF properties
<1>3. DOMAIN call.args = {"channel", "control", "value"}
  BY <1>1 DEF IsCall
<1>4. Accepts(f, "control", x) /\ Accepts(f, "value", y)
  BY <1>1, <1>2, <1>3 DEF Sendable
<1>5. x \in Nat /\ x < 128 /\ y \in Nat /\ y < 128
  BY <1>1, <1>4, Taken
<1>6. y \in Octet
  <2>1. y \in Int /\ 0 <= y /\ y <= 255
    BY <1>5
  <2> QED BY <2>1, OctetRange, ZenonT(30)
<1> QED BY <1>5, <1>6

\* A packet leaves the controllers in agreement with what the calls mean.
LEMMA TransmitAgrees ==
    ASSUME QueueInv, AllAgree(controls, entry), NEW arrives \in BOOLEAN, Transmit(arrives)
    PROVE  AllAgree(controls, entry)'
<1> DEFINE len == Len(out)
           n == Fewer(len, Batch)
           waiting == SubSeq(out, 1, n)
           received == RTPMIDISessionReceive(RTPMIDISessionSend(waiting))
           k == Len(received)
           off == Slip(waiting[1].time)
           W == Waiting(left.calls)
<1>1. out # <<>> /\ out \in Seq(W) /\ len \in Nat
  BY LenProperties DEF Transmit, QueueInv
<1>2. n \in Nat /\ n >= 1 /\ n <= len /\ n <= Batch
  <2>1. len >= 1
    BY <1>1
  <2> QED BY <1>1, <2>1, RoomEnough DEF Fewer
<1>3. CASE UNCHANGED <<controls, entry>>
  BY <1>3 DEF AllAgree
<1>4. CASE ~UNCHANGED <<controls, entry>>
  <2> DEFINE calls == [i \in DOMAIN received |-> Recv(received[i].message)]
             said == [i \in 1 .. n |-> out[i].call]
  <2>1. controls' = RecvAll(controls, calls) /\ entry' = Entries(entry, said)
    BY <1>4 DEF Transmit
  <2>2. /\ waiting \in Seq(W) /\ Len(waiting) = n /\ \A i \in 1 .. n : waiting[i] = out[i]
    <3> HIDE DEF n, W
    <3> QED BY <1>1, <1>2, FirstOf
  <2>3. \A i \in 1 .. n : IsCall(waiting[i].call) /\ Sendable(waiting[i].call)
    <3>1. \A i \in 1 .. n : waiting[i] \in W
      <4> HIDE DEF n, waiting, W
      <4> QED BY <2>2
    <3> HIDE DEF n, waiting
    <3> QED BY <3>1 DEF Waiting
  <2> HIDE DEF n, waiting
  <2>4. Tells(received, waiting, n, off)
    BY <1>2, <2>2, PacketTells DEF W
  <2> HIDE DEF received, W, off
  <2>5. k \in Nat /\ k <= n /\ DOMAIN received = 1 .. k
    BY <2>4, LenProperties DEF Tells
  <2> HIDE DEF k
  <2>6. Len(calls) = k /\ \A i \in 1 .. k : calls[i] = Recv(received[i].message)
    BY <2>5
  <2>7. Len(said) = n /\ \A i \in 1 .. n : said[i] = waiting[i].call
    BY <1>2, <2>2
  <2> HIDE DEF calls, said
  <2>8. ASSUME NEW i \in 1 .. n PROVE Reaches(said, i) <=> i <= k
    <3>1. ASSUME NEW j \in 1 .. i - 1 PROVE Swallows(said, j) <=> IsLast(waiting[j].call)
      <4>1. j \in 1 .. n /\ j < n
        BY <1>2
      <4> QED BY <2>7, <4>1 DEF Swallows, IsLast
    <3>2. i <= k <=> \A j \in 1 .. i - 1 : ~IsLast(waiting[j].call)
      BY <2>4 DEF Tells, k
    <3> QED BY <3>1, <3>2 DEF Reaches
  <2>9. ASSUME NEW i \in 1 .. k
        PROVE  Plain(calls[i]) /\ (calls[i] = said[i] \/ (IsLast(calls[i]) /\ IsLast(said[i])))
    <3>1. i \in 1 .. n
      BY <1>2, <2>5
    <3>2. \A c : IsLast(c) => Plain(c)
      BY DEF IsLast, Plain, SystemExclusive, ControlChange, Kind
    <3>3. CASE ~IsLast(waiting[i].call)
      <4>1. calls[i] = waiting[i].call
        BY <2>4, <2>6, <3>3 DEF Tells, k
      <4> QED BY <2>3, <2>7, <3>1, <4>1, SentPlain
    <3>4. CASE IsLast(waiting[i].call)
      <4>1. IsLast(calls[i])
        BY <2>4, <2>6, <3>4 DEF Tells, k
      <4> QED BY <2>7, <3>1, <3>2, <3>4, <4>1
    <3> QED BY <3>3, <3>4
  <2>10. AllAgree(RecvAll(controls, calls), Entries(entry, said))
    <3>1. n \in Nat /\ k \in 0 .. n
      BY <1>2, <2>5
    <3> QED BY <2>6, <2>7, <2>8, <2>9, <3>1, PacketAgrees
  <2> QED BY <2>1, <2>10 DEF AllAgree
<1> QED BY <1>3, <1>4

\* One controller gets new values that agree with what it counts now.
LEMMA OneAgrees ==
    ASSUME AllAgree(controls, entry), NEW k \in Controllers, NEW v, NEW e, Agree(v, e),
           controls' = [controls EXCEPT ![k] = v], entry' = [entry EXCEPT ![k] = e]
    PROVE  AllAgree(controls, entry)'
<1>1. v \in [Controls -> Octet] /\ e \in Int
  BY AgreeSays DEF Agree
<1>2. \A j \in Controllers : controls'[j] = (IF j = k THEN v ELSE controls[j])
                             /\ entry'[j] = (IF j = k THEN e ELSE entry[j])
  BY DEF AllAgree
<1>3. \A j \in Controllers : Agree(controls'[j], entry'[j])
  BY <1>2 DEF AllAgree
<1>4. controls' \in [Controllers -> [Controls -> Octet]] /\ entry' \in [Controllers -> Int]
  BY <1>1 DEF AllAgree
<1> QED BY <1>3, <1>4 DEF AllAgree

\* What the application sets in two halves.
LEMMA LongAgrees ==
    ASSUME NEW v, NEW e, Agree(v, e), NEW control \in {DataEntry, Registered, NonRegistered}
    PROVE  Agree(SetLongControl(v, control, 0), IF control = DataEntry THEN 0 ELSE e)
<1>1. 0 \in Octet
  <2>1. 0 \in Int /\ 0 <= 0 /\ 0 <= 255
    OBVIOUS
  <2> QED BY <2>1, OctetRange, ZenonT(30)
<1>2. DataEntry = 6 /\ DataEntryLow = 38 /\ Registered = 100 /\ NonRegistered = 98
  BY DEF DataEntry, DataEntryLow, Registered, NonRegistered
<1>3. IsLong(control) /\ Halves(control) = <<control, IF control = DataEntry THEN 38 ELSE control + 1>>
  BY <1>2 DEF IsLong, Halves
<1> DEFINE low == IF control = DataEntry THEN 38 ELSE control + 1
           w == [v EXCEPT ![control] = 0]
<1>4. SetLongControl(v, control, 0) = [w EXCEPT ![low] = 0]
  <2>1. (0 \div 128) % 128 = 0 /\ 0 % 128 = 0
    OBVIOUS
  <2> DEFINE half == Halves(control)
  <2>2. half[1] = control /\ half[2] = low
    BY <1>3
  <2> HIDE DEF half, low
  <2>3. SetLongControl(v, control, 0) = SetControl(SetControl(v, half[1], 0), half[2], 0)
    BY <1>3, <2>1 DEF SetLongControl, half
  <2> QED BY <2>2, <2>3 DEF SetControl
<1>5. CASE control = DataEntry
  <2>1. Agree(w, (0 * 128) + (e % 128))
    BY <1>1, <1>5, HighAgrees
  <2> HIDE DEF w
  <2> DEFINE d == (0 * 128) + (e % 128)
  <2>2. Agree(w, d)
    BY <2>1
  <2>3. d \div 128 = 0
    <3>1. e \in Nat
      BY AgreeSays
    <3> QED BY <3>1
  <2> HIDE DEF d
  <2>4. Agree([w EXCEPT ![DataEntryLow] = 0], ((d \div 128) * 128) + 0)
    BY <1>1, <2>2, LowAgrees
  <2>5. ((d \div 128) * 128) + 0 = 0 /\ low = DataEntryLow
    BY <1>2, <1>5, <2>3
  <2> QED BY <1>4, <1>5, <2>4, <2>5
<1>6. CASE control # DataEntry
  <2>1. control # DataEntryLow /\ low # DataEntry /\ low # DataEntryLow
    BY <1>2, <1>6
  <2>2. Agree(w, e)
    BY <1>1, <1>6, <2>1, OtherAgrees
  <2> HIDE DEF w, low
  <2>3. Agree([w EXCEPT ![low] = 0], e)
    BY <1>1, <2>1, <2>2, OtherAgrees
  <2> QED BY <1>4, <1>6, <2>3
<1> QED BY <1>5, <1>6

\* So do the calls of the receiver's application, and all other steps.
LEMMA AgreeStep == ASSUME QueueInv, AllAgree(controls, entry), [Next]_vars PROVE AllAgree(controls, entry)'
<1>1. ASSUME UNCHANGED <<controls, entry>> PROVE AllAgree(controls, entry)'
  BY <1>1 DEF AllAgree
<1>2. ASSUME NEW k \in Controllers, MIDIControllerSetControl(k, DataEntryLow, 127) PROVE AllAgree(controls, entry)'
  <2> DEFINE v == [controls[k] EXCEPT ![DataEntryLow] = 127]
             e == ((entry[k] \div 128) * 128) + 127
  <2>1. Agree(v, e)
    <3>1. 127 \in Octet /\ 127 < 128
      <4>1. 127 \in Int /\ 0 <= 127 /\ 127 <= 255 /\ 127 < 128
        OBVIOUS
      <4> QED BY <4>1, OctetRange, ZenonT(30)
    <3>2. Agree(controls[k], entry[k])
      BY DEF AllAgree
    <3> QED BY <3>1, <3>2, LowAgrees
  <2>2. Meaning(entry[k], DataEntryLow, 127) = e
    BY EntryControls DEF Meaning
  <2>3. controls' = [controls EXCEPT ![k] = v] /\ entry' = [entry EXCEPT ![k] = e]
    BY <1>2, <2>2 DEF MIDIControllerSetControl, SetControl
  <2> HIDE DEF v, e
  <2> QED BY <2>1, <2>3, OneAgrees
<1>3. ASSUME NEW k \in Controllers, NEW control \in {DataEntry, Registered, NonRegistered},
             MIDIControllerSetLongControl(k, control, 0)
      PROVE  AllAgree(controls, entry)'
  <2> DEFINE v == SetLongControl(controls[k], control, 0)
             e == IF control = DataEntry THEN 0 ELSE entry[k]
  <2>1. Agree(v, e)
    <3>1. Agree(controls[k], entry[k])
      BY DEF AllAgree
    <3> QED BY <3>1, LongAgrees
  <2>2. controls' = [controls EXCEPT ![k] = v] /\ entry' = [entry EXCEPT ![k] = e]
    BY <1>3 DEF MIDIControllerSetLongControl
  <2> HIDE DEF v, e
  <2> QED BY <2>1, <2>2, OneAgrees
<1>4. ASSUME DeviceCall PROVE AllAgree(controls, entry)'
  <2>1. ASSUME NEW k \in Controllers, SetParameter(k, 0) PROVE AllAgree(controls, entry)'
    BY <1>3, <2>1 DEF SetParameter
  <2>2. \A channel : MIDIDeviceSetBaseChannel(channel) \/ MIDIDeviceGetChannelController(channel) => UNCHANGED <<controls, entry>>
    BY DEF MIDIDeviceSetBaseChannel, MIDIDeviceGetChannelController
  <2>3. \A channel, k : MIDIDeviceSetChannelController(channel, k) => UNCHANGED <<controls, entry>>
    BY DEF MIDIDeviceSetChannelController
  <2>4. \A o : MIDIDeviceSetTimer(o) \/ ReleaseObject(o) => UNCHANGED <<controls, entry>>
    BY DEF MIDIDeviceSetTimer, ReleaseObject
  <2>5. MIDIDeviceRetain \/ MIDIDeviceRelease => UNCHANGED <<controls, entry>>
    BY DEF MIDIDeviceRetain, MIDIDeviceRelease
  <2> QED BY <1>1, <1>2, <1>3, <1>4, <2>1, <2>2, <2>3, <2>4, <2>5 DEF DeviceCall
<1>5. ASSUME NEW arrives \in BOOLEAN, Transmit(arrives) PROVE AllAgree(controls, entry)'
  BY <1>5, TransmitAgrees
<1>6. (\E call \in left.calls : Send(call)) => UNCHANGED <<controls, entry>>
  BY DEF Send
<1>7. UNCHANGED deviceVars => UNCHANGED <<controls, entry>>
  BY DEF deviceVars
<1> QED BY <1>1, <1>4, <1>5, <1>6, <1>7 DEF Next, vars

\* A new controller agrees.
LEMMA AgreeInitHolds == DeviceInit => AllAgree(controls, entry)
<1> DEFINE none == [c \in Controls |-> 0]
           v == InitializeControls
           e == LongControl(v, DataEntry)
<1>1. 0 \in Octet /\ 100 \in Octet /\ 127 \in Octet /\ 64 \in Octet
  <2>1. /\ 0 \in Int /\ 0 <= 0 /\ 0 <= 255 /\ 100 \in Int /\ 0 <= 100 /\ 100 <= 255
        /\ 127 \in Int /\ 0 <= 127 /\ 127 <= 255 /\ 64 \in Int /\ 0 <= 64 /\ 64 <= 255
    OBVIOUS
  <2> QED BY <2>1, OctetRange, ZenonT(30)
<1>2. Agree(ResetControls(none), LongMax)
  BY <1>1, ResetAgrees
<1> DEFINE r == ResetControls(none)
<1>3. v = [r EXCEPT ![ChannelVolume] = 100, ![Expression] = 127, ![Pan] = 64]
  BY DEF InitializeControls
<1>4. /\ ChannelVolume # DataEntry /\ ChannelVolume # DataEntryLow /\ Expression # DataEntry
      /\ Expression # DataEntryLow /\ Pan # DataEntry /\ Pan # DataEntryLow
  BY DEF ChannelVolume, Expression, Pan, DataEntry, DataEntryLow
<1> HIDE DEF r, none
<1>5. Agree(v, LongMax)
  <2>1. Agree([r EXCEPT ![ChannelVolume] = 100], LongMax)
    BY <1>1, <1>2, <1>4, OtherAgrees DEF r
  <2> DEFINE r1 == [r EXCEPT ![ChannelVolume] = 100]
  <2>2. Agree(r1, LongMax)
    BY <2>1
  <2> HIDE DEF r1
  <2>3. Agree([r1 EXCEPT ![Expression] = 127], LongMax)
    BY <1>1, <2>2, <1>4, OtherAgrees
  <2> DEFINE r2 == [r1 EXCEPT ![Expression] = 127]
  <2>4. Agree(r2, LongMax)
    BY <2>3
  <2> HIDE DEF r2
  <2>5. Agree([r2 EXCEPT ![Pan] = 64], LongMax)
    BY <1>1, <2>4, <1>4, OtherAgrees
  <2>6. v = [r2 EXCEPT ![Pan] = 64]
    BY <1>3 DEF r1, r2
  <2> QED BY <2>5, <2>6
<1> HIDE DEF v
<1>6. e = LongMax /\ v \in [Controls -> Octet] /\ LongMax \in Int
  BY <1>5, AgreeSays DEF Agree, LongMax
<1>7. DeviceInit => controls = [k \in Controllers |-> v] /\ entry = [k \in Controllers |-> LongMax]
  BY <1>6 DEF DeviceInit, v
<1> QED BY <1>5, <1>6, <1>7 DEF AllAgree

\* Data entry in every controller is the number that the increments, decrements,
\* entries and resets that it was told add up to, however they are mixed, lost and
\* packed, and whatever the channels are (controller.c:513-537, device.c:693-711).
THEOREM EntryCorrect == Spec => []EntryFollows
<1>1. Init => ClockInv /\ CellInv /\ LeftInv /\ QueueInv /\ AllAgree(controls, entry)
  BY ClockInitHolds, CellInitHolds, QueueInitHolds, AgreeInitHolds DEF Init
<1>2. ClockInv /\ CellInv /\ LeftInv /\ QueueInv /\ AllAgree(controls, entry) /\ [Next]_vars
          => ClockInv' /\ CellInv' /\ LeftInv' /\ QueueInv' /\ AllAgree(controls, entry)'
  BY ClockStep, CellStep, LeftStep, QueueStep, AgreeStep
<1>3. AllAgree(controls, entry) => EntryFollows
  BY AgreeSays DEF AllAgree, EntryFollows
<1> QED BY <1>1, <1>2, <1>3, PTL DEF Spec

\* The application owns objects only.
HeldInv == held \subseteq Objects

\* No step changes that.
LEMMA HeldStep == ASSUME ObjectInv, HeldInv, [Next]_vars PROVE HeldInv'
<1> SUFFICES held' \subseteq Objects
  BY DEF HeldInv
<1> USE DEF HeldInv
<1>1. UNCHANGED deviceVars => held' = held
  BY DEF deviceVars
<1>2. (\E call \in left.calls : Send(call)) => held' = held
  BY DEF Send
<1>3. (\E arrives \in BOOLEAN : Transmit(arrives)) => held' = held
  BY DEF Transmit
<1>4. ASSUME DeviceCall PROVE held' \subseteq Objects
  <2>1. \A channel : MIDIDeviceSetBaseChannel(channel) => held' = held
    BY DEF MIDIDeviceSetBaseChannel
  <2>2. \A channel : MIDIDeviceGetChannelController(channel) => held' \subseteq Objects
    BY DEF MIDIDeviceGetChannelController, Objects
  <2>3. \A channel, k : MIDIDeviceSetChannelController(channel, k) => held' = held
    BY DEF MIDIDeviceSetChannelController
  <2>4. \A k, control, value : MIDIControllerSetControl(k, control, value) \/ MIDIControllerSetLongControl(k, control, value)
                                   => held' = held
    BY DEF MIDIControllerSetControl, MIDIControllerSetLongControl
  <2>5. \A k : SetParameter(k, 0) => held' = held
    BY <2>4 DEF SetParameter
  <2>6. \A t : MIDIDeviceSetTimer(t) => held' = held
    BY DEF MIDIDeviceSetTimer
  <2>7. \A o : ReleaseObject(o) => held' \subseteq held
    BY DEF ReleaseObject
  <2>8. MIDIDeviceRetain \/ MIDIDeviceRelease => held' = held
    BY DEF MIDIDeviceRetain, MIDIDeviceRelease
  <2> QED BY <1>4, <2>1, <2>2, <2>3, <2>4, <2>5, <2>6, <2>7, <2>8 DEF DeviceCall
<1> QED BY <1>1, <1>2, <1>3, <1>4 DEF Next, vars

\* The parts of the invariant give every variable its type.
LEMMA TypesFollow ==
    ASSUME ObjectInv, HeldInv, QueueInv, AllAgree(controls, entry)
    PROVE  TypeOK
<1>1. /\ device.refs \in Nat /\ device.base \in Channels
      /\ device.timer \in Timers \cup {NULL} /\ device.slot \in [Channels -> Controllers \cup {NULL}]
  BY DEF ObjectInv, Receivers
<1>2. count \in [Objects -> Nat]
  <2>1. \A o \in Objects : count[o] \in Nat
    <3>1. \A b : One(b) \in Nat
      BY DEF One
    <3> QED BY <3>1, InSlotsType DEF ObjectInv, RefsExact
  <2> QED BY <2>1 DEF ObjectInv
<1>3. Octet = Byte
  BY DEF Octet, Byte
<1>4. controls \in [Controllers -> [Controls -> Byte]]
  BY <1>3 DEF AllAgree
<1>5. ASSUME NEW i \in DOMAIN out, NEW b \in DOMAIN out[i].message.bytes
      PROVE  out[i].message.bytes[b] \in Byte
  <2> DEFINE x == out[i]
  <2>1. x \in Waiting(left.calls)
    BY DEF QueueInv
  <2> HIDE DEF x
  <2>2. Valid(x.message)
    BY <2>1, WaitingSays DEF Says
  <2>3. x.message.bytes \in [1 .. 4 -> Octet]
    BY <2>2 DEF Valid
  <2> QED BY <1>3, <2>3 DEF x
<1>6. entry \in [Controllers -> 0 .. LongMax]
  <2>1. \A k \in Controllers : entry[k] \in Nat /\ entry[k] <= LongMax
    BY AgreeSays DEF AllAgree
  <2>2. LongMax \in Int /\ 0 \in Int
    BY DEF LongMax
  <2>3. \A k \in Controllers : entry[k] \in 0 .. LongMax
    BY <2>1, <2>2
  <2> QED BY <2>3 DEF AllAgree
<1> QED BY <1>1, <1>2, <1>4, <1>5, <1>6 DEF TypeOK, HeldInv

\* Every variable of the system keeps its type: counters do not fall below zero,
\* no byte of a message or a control is more than a byte, and what the two bytes of
\* data entry are meant to say has 14 bits (device.c:385-394, controller.c:513-537).
THEOREM TypeCorrect == Spec => []TypeOK
<1>1. Init => ClockInv /\ CellInv /\ LeftInv /\ QueueInv /\ AllAgree(controls, entry) /\ ObjectInv /\ HeldInv
  BY ClockInitHolds, CellInitHolds, QueueInitHolds, AgreeInitHolds, ObjectInitHolds DEF Init, DeviceInit, HeldInv
<1>2. ClockInv /\ CellInv /\ LeftInv /\ QueueInv /\ AllAgree(controls, entry) /\ ObjectInv /\ HeldInv /\ [Next]_vars
          => ClockInv' /\ CellInv' /\ LeftInv' /\ QueueInv' /\ AllAgree(controls, entry)' /\ ObjectInv' /\ HeldInv'
  BY ClockStep, CellStep, LeftStep, QueueStep, AgreeStep, ObjectStep, HeldStep
<1>3. ObjectInv /\ HeldInv /\ QueueInv /\ AllAgree(controls, entry) => TypeOK
  BY TypesFollow
<1> QED BY <1>1, <1>2, <1>3, PTL DEF Spec
=============================================================================
