--------------------------- MODULE RunloopProofs ---------------------------
(* The counters of Runloop for any sources, descriptors and slots, and any number
   of calls, from callbacks as well.

   RefsExact counts the slots that hold a source. It is inductive with the
   types of what is counted; what a pass over the slots or a callback does to
   the master, the timers and the descriptors does not matter.

   What the loop waits for needs more: LoopInv adds the types, that a source which
   sits in a slot points back to the runloop, and that during a pass the master's
   sets still cover what the sources ask for. *)
EXTENDS Runloop, LeastNumber, FiniteSetTheorems

CountInv ==
    /\ refs \in [Sources -> Int] /\ held \in [Sources -> Nat]
    /\ slots \in [1 .. Slots -> Sources \cup {NULL}]
    /\ RefsExact

-----------------------------------------------------------------------------
(* Counting. *)

\* The slots of a source are finitely many.
LEMMA SlotCount ==
    ASSUME NEW t, NEW s
    PROVE  IsFiniteSet(SlotsOf(t, s)) /\ Cardinality(SlotsOf(t, s)) \in Nat
<1>1. IsFiniteSet(1 .. Slots)
  BY SlotsAssumption, FS_Interval
<1>2. IsFiniteSet(SlotsOf(t, s))
  BY <1>1, FS_Subset DEF SlotsOf
<1> QED BY <1>2, FS_CardinalityType

\* A source in no slot has none.
LEMMA NoSlot == ASSUME NEW t, NEW s, SlotsOf(t, s) = {} PROVE Cardinality(SlotsOf(t, s)) = 0
BY FS_EmptySet

\* What the invariant says of the counts.
LEMMA Counts ==
    ASSUME CountInv
    PROVE  \A s \in Sources :
              /\ refs[s] = held[s] + Cardinality(SlotsOf(slots, s))
              /\ held[s] \in Nat /\ Cardinality(SlotsOf(slots, s)) \in Nat
<1>1. \A s \in Sources : Cardinality(SlotsOf(slots, s)) \in Nat
  BY SlotCount
<1> QED BY <1>1 DEF CountInv, RefsExact

\* In the table t, slot i changes from a to b.
Puts(t, u, i, a, b) == t \in [1 .. Slots -> Sources \cup {NULL}] /\ t[i] = a /\ u = [t EXCEPT ![i] = b]

\* Filling an empty slot with a source gives it one slot more, and no other one.
LEMMA SlotFilled ==
    ASSUME NEW t, NEW u, NEW i \in 1 .. Slots, NEW s \in Sources, Puts(t, u, i, NULL, s), NEW r \in Sources
    PROVE  Cardinality(SlotsOf(u, r))
              = Cardinality(SlotsOf(t, r)) + (IF r = s THEN 1 ELSE 0)
<1>1. CASE r = s
  <2>1. SlotsOf(u, r) = SlotsOf(t, r) \cup {i} /\ i \notin SlotsOf(t, r)
    BY <1>1, SourcesAssumption DEF SlotsOf, Puts
  <2> QED BY <2>1, <1>1, SlotCount, FS_AddElement
<1>2. CASE r # s
  <2>1. SlotsOf(u, r) = SlotsOf(t, r)
    BY <1>2, SourcesAssumption DEF SlotsOf, Puts
  <2> QED BY <2>1, <1>2, SlotCount
<1> QED BY <1>1, <1>2

\* Clearing a slot takes it from the source it held.
LEMMA SlotCleared ==
    ASSUME NEW t, NEW u, NEW i \in 1 .. Slots, NEW s \in Sources, Puts(t, u, i, s, NULL), NEW r \in Sources
    PROVE  Cardinality(SlotsOf(u, r))
              = Cardinality(SlotsOf(t, r)) - (IF r = s THEN 1 ELSE 0)
<1>1. CASE r = s
  <2>1. SlotsOf(u, r) = SlotsOf(t, r) \ {i} /\ i \in SlotsOf(t, r)
    BY <1>1, SourcesAssumption DEF SlotsOf, Puts
  <2> QED BY <2>1, <1>1, SlotCount, FS_RemoveElement
<1>2. CASE r # s
  <2>1. SlotsOf(u, r) = SlotsOf(t, r)
    BY <1>2, SourcesAssumption DEF SlotsOf, Puts
  <2> QED BY <2>1, <1>2, SlotCount
<1> QED BY <1>1, <1>2

\* The first of some slots is one of them.
LEMMA FirstOf ==
    ASSUME NEW S, S \subseteq 1 .. Slots, S # {}
    PROVE  First(S) \in S
<1>1. S \subseteq Nat
  BY SlotsAssumption
<1>2. \E i \in S : \A j \in S : i <= j
  BY <1>1, Least
<1> QED BY <1>2 DEF First

-----------------------------------------------------------------------------
(* The initial state and the steps. *)

\* No slot is used, and the application owns each source once.
LEMMA InitHolds == Init => CountInv
<1> SUFFICES ASSUME Init PROVE CountInv
  OBVIOUS
<1>1. \A s \in Sources : SlotsOf(slots, s) = {}
  BY SourcesAssumption DEF Init, SlotsOf
<1>2. \A s \in Sources : Cardinality(SlotsOf(slots, s)) = 0
  BY <1>1, NoSlot
<1>3. RefsExact
  <2>1. \A s \in Sources : refs[s] = 1 /\ held[s] = 1
    BY DEF Init
  <2> QED BY <1>2, <2>1 DEF RefsExact
<1> QED BY <1>3 DEF Init, CountInv

\* A source that leaves its first slot loses the slot's reference.
LEMMA UnslotHolds ==
    ASSUME CountInv, NEW s \in Sources, Unslot(s), held' = held
    PROVE  CountInv'
<1> DEFINE i == First(SlotsOf(slots, s))
<1>1. CASE Member(s)
  <2>1. i \in 1 .. Slots /\ slots[i] = s
    <3>1. SlotsOf(slots, s) # {} /\ SlotsOf(slots, s) \subseteq 1 .. Slots
      BY <1>1 DEF Member, SlotsOf
    <3>2. i \in SlotsOf(slots, s)
      BY <3>1, FirstOf
    <3> QED BY <3>2 DEF SlotsOf
  <2>2. slots' = [slots EXCEPT ![i] = NULL] /\ refs' = [refs EXCEPT ![s] = @ - 1]
    BY <1>1 DEF Unslot
  <2>3. \A r \in Sources : Cardinality(SlotsOf(slots', r))
            = Cardinality(SlotsOf(slots, r)) - (IF r = s THEN 1 ELSE 0)
    <3>1. Puts(slots, slots', i, s, NULL)
      BY <2>1, <2>2 DEF CountInv, Puts
    <3> HIDE DEF i
    <3> QED BY <2>1, <3>1, SlotCleared
  <2>4. RefsExact'
    <3>1. \A r \in Sources : refs'[r] = refs[r] - (IF r = s THEN 1 ELSE 0) /\ held'[r] = held[r]
      BY <2>2 DEF CountInv
    <3> QED BY <2>3, <3>1, Counts DEF RefsExact
  <2> QED BY <2>1, <2>2, <2>4 DEF CountInv
<1>2. CASE ~Member(s)
  BY <1>2 DEF Unslot, CountInv, RefsExact
<1> QED BY <1>1, <1>2

\* Adding a source fills the first free slot, if there is one.
LEMMA AddHolds ==
    ASSUME CountInv, NEW s \in Sources, MIDIRunloopAddSource(s)
    PROVE  CountInv'
<1> DEFINE i == First(FreeSlots)
<1>1. CASE FreeSlots = {}
  BY <1>1 DEF MIDIRunloopAddSource, CountInv, RefsExact
<1>2. CASE FreeSlots # {}
  <2>1. i \in 1 .. Slots /\ slots[i] = NULL
    <3>1. i \in FreeSlots
      BY <1>2, FirstOf DEF FreeSlots, SlotsOf
    <3> QED BY <3>1 DEF FreeSlots, SlotsOf
  <2>2. slots' = [slots EXCEPT ![i] = s] /\ refs' = [refs EXCEPT ![s] = @ + 1] /\ held' = held
    BY <1>2 DEF MIDIRunloopAddSource
  <2>3. \A r \in Sources : Cardinality(SlotsOf(slots', r))
            = Cardinality(SlotsOf(slots, r)) + (IF r = s THEN 1 ELSE 0)
    <3>1. Puts(slots, slots', i, NULL, s)
      BY <2>1, <2>2 DEF CountInv, Puts
    <3> HIDE DEF i
    <3> QED BY <2>1, <3>1, SlotFilled
  <2>4. RefsExact'
    <3>1. \A r \in Sources : refs'[r] = refs[r] + (IF r = s THEN 1 ELSE 0) /\ held'[r] = held[r]
      BY <2>2 DEF CountInv
    <3> QED BY <2>3, <3>1, Counts DEF RefsExact
  <2> QED BY <2>1, <2>2, <2>4 DEF CountInv
<1> QED BY <1>1, <1>2

\* The last reference to the runloop takes all slots and their references.
LEMMA DestroyHolds ==
    ASSUME CountInv, MIDIRunloopRelease
    PROVE  CountInv'
<1>1. CASE loopRefs = 1
  <2>1. /\ slots' = [i \in 1 .. Slots |-> NULL] /\ held' = held
        /\ refs' = [s \in Sources |-> refs[s] - Cardinality(SlotsOf(slots, s))]
    BY <1>1 DEF MIDIRunloopRelease
  <2>2. \A s \in Sources : SlotsOf(slots', s) = {}
    BY <2>1, SourcesAssumption DEF SlotsOf
  <2>3. RefsExact'
    <3>1. \A s \in Sources : Cardinality(SlotsOf(slots', s)) = 0
      BY <2>2, NoSlot
    <3>2. \A s \in Sources : refs'[s] = held'[s]
      BY <2>1, Counts
    <3>3. \A s \in Sources : held'[s] \in Nat
      BY <2>1, Counts
    <3> QED BY <3>1, <3>2, <3>3 DEF RefsExact
  <2>4. refs' \in [Sources -> Int]
    BY <2>1, SlotCount DEF CountInv
  <2> QED BY <2>1, <2>3, <2>4 DEF CountInv
<1>2. CASE loopRefs # 1
  BY <1>2 DEF MIDIRunloopRelease, CountInv, RefsExact
<1> QED BY <1>1, <1>2

\* A call of the application.
LEMMA ApplicationHolds ==
    ASSUME CountInv, Application
    PROVE  CountInv'
<1>1. CASE UNCHANGED <<refs, held, slots>>
  BY <1>1 DEF CountInv, RefsExact
<1>2. ASSUME NEW s \in Sources, MIDIRunloopRemoveSource(s) PROVE CountInv'
  BY <1>2, UnslotHolds DEF MIDIRunloopRemoveSource
<1>3. ASSUME NEW s \in Sources, MIDIRunloopSourceInvalidate(s) PROVE CountInv'
  <2>1. CASE Unslot(s) /\ held' = held
    BY <2>1, UnslotHolds
  <2> QED BY <1>1, <1>3, <2>1 DEF MIDIRunloopSourceInvalidate
<1>4. ASSUME NEW s \in Sources, MIDIRunloopSourceRetain(s) \/ MIDIRunloopSourceRelease(s) PROVE CountInv'
  <2>1. PICK d \in {1, -1} : /\ refs' = [refs EXCEPT ![s] = @ + d]
                            /\ held' = [held EXCEPT ![s] = @ + d] /\ held[s] + d >= 0
    BY <1>4 DEF MIDIRunloopSourceRetain, MIDIRunloopSourceRelease, CountInv
  <2>2. slots' = slots
    BY <1>4 DEF MIDIRunloopSourceRetain, MIDIRunloopSourceRelease
  <2>3. \A r \in Sources : /\ refs'[r] = refs[r] + (IF r = s THEN d ELSE 0)
                           /\ held'[r] = held[r] + (IF r = s THEN d ELSE 0)
    BY <2>1 DEF CountInv
  <2>4. RefsExact'
    BY <2>2, <2>3, Counts DEF RefsExact
  <2> QED BY <2>1, <2>2, <2>4 DEF CountInv
<1>5. ASSUME NEW s \in Sources, NEW fd \in Fds,
             \/ MIDIRunloopSourceScheduleRead(s, fd)
             \/ MIDIRunloopSourceClearRead(s, fd)
             \/ MIDIRunloopSourceScheduleWrite(s, fd)
             \/ MIDIRunloopSourceClearWrite(s, fd)
      PROVE  CountInv'
  BY <1>1, <1>5
  DEF MIDIRunloopSourceScheduleRead, MIDIRunloopSourceClearRead, MIDIRunloopSourceScheduleWrite,
      MIDIRunloopSourceClearWrite, Schedule, Clear
<1>6. ASSUME NEW s \in Sources, NEW time \in Times,
             MIDIRunloopSourceScheduleTimeout(s, time) \/ MIDIRunloopSourceClearTimeout(s)
      PROVE  CountInv'
  BY <1>1, <1>6 DEF MIDIRunloopSourceScheduleTimeout, MIDIRunloopSourceClearTimeout
<1>7. ASSUME NEW s \in Sources, MIDIRunloopSourceClearTimeout(s) PROVE CountInv'
  BY <1>1, <1>7 DEF MIDIRunloopSourceClearTimeout
<1>8. ASSUME MIDIRunloopStart \/ MIDIRunloopStep \/ MIDIRunloopStop PROVE CountInv'
  BY <1>1, <1>8 DEF MIDIRunloopStart, MIDIRunloopStep, MIDIRunloopStop, sourceVars
<1> QED BY <1>2, <1>3, <1>4, <1>5, <1>6, <1>7, <1>8, AddHolds, DestroyHolds DEF Application

\* A step of the loop, of time or of the network counts nothing.
LEMMA LoopKeeps ==
    ASSUME Running \/ Return(TRUE) \/ Interrupt \/ Tick \/ \E fd \in Fds : Arrive(fd)
    PROVE  UNCHANGED <<refs, held, slots>>
<1>1. Running \/ Return(TRUE) => UNCHANGED <<refs, held, slots>>
  BY DEF Running, Wait, Select, Elapse, Skip, Done, Begin, Return, sourceVars
<1>2. Interrupt \/ Tick \/ (\E fd \in Fds : Arrive(fd)) => UNCHANGED <<refs, held, slots>>
  BY DEF Interrupt, Tick, Arrive, sourceVars
<1> QED BY <1>1, <1>2

\* Any step.
LEMMA NextHolds == CountInv /\ [Next]_vars => CountInv'
<1> SUFFICES ASSUME CountInv, [Next]_vars PROVE CountInv'
  OBVIOUS
<1>1. CASE UNCHANGED <<refs, held, slots>>
  BY <1>1 DEF CountInv, RefsExact
<1>2. CASE UNCHANGED vars
  BY <1>1, <1>2 DEF vars
<1> QED BY <1>1, <1>2, ApplicationHolds, LoopKeeps DEF Next

\* A source is counted once for each reference of the application and each slot,
\* so that no slot is left with a freed source, whatever callbacks add, remove,
\* invalidate and release in the middle of a pass (midi/runloop.c:763-812).
THEOREM RefsCorrect == Spec => []RefsExact
<1>1. CountInv => RefsExact
  BY DEF CountInv
<1> QED BY <1>1, InitHolds, NextHolds, PTL DEF Spec

-----------------------------------------------------------------------------
(* Timers and descriptors. *)

FdKinds == {"read", "write"}

\* What the assumptions say of the bounds.
LEMMA Bounds == NumFds \in Nat /\ MaxAge \in Nat /\ MaxAge > 0 /\ MaxOps \in Nat /\ Slots \in Nat /\ Slots > 0
                /\ \A time \in Times : time \in 0 .. MaxAge
BY BoundsAssumption, SlotsAssumption

\* The fields of a timer.
LEMMA TimerFields ==
    ASSUME NEW t \in Timer
    PROVE  /\ t.fds \in [read: SUBSET Fds, write: SUBSET Fds]
           /\ \A k \in FdKinds : t.fds[k] \subseteq Fds
           /\ t.nfds \in 0 .. NumFds /\ t.time \in 0 .. MaxAge /\ t.age \in 0 .. MaxAge
           /\ t.cbs \subseteq Kinds /\ t.loop \in BOOLEAN
BY DEF Timer, FdKinds

\* The operators on the fields of a source, one by one: each returns a timer, and
\* what it does to the descriptors. Scheduling adds one.
LEMMA WatchDoes ==
    ASSUME NEW t \in Timer, NEW kind \in FdKinds, NEW fd \in Fds
    PROVE  /\ Watch(t, kind, fd) \in Timer
           /\ \A k \in FdKinds : Watch(t, kind, fd).fds[k] = t.fds[k] \cup (IF k = kind THEN {fd} ELSE {})
<1>1. fd + 1 \in 0 .. NumFds /\ Larger(t.nfds, fd + 1) \in 0 .. NumFds
  BY Bounds, TimerFields DEF Fds, Larger
<1>2. [t.fds EXCEPT ![kind] = @ \cup {fd}] \in [read: SUBSET Fds, write: SUBSET Fds]
  BY TimerFields DEF FdKinds
<1>3. kind \in Kinds
  BY DEF Kinds, FdKinds
<1>4. Watch(t, kind, fd) \in Timer
  BY <1>1, <1>2, <1>3 DEF Timer, Watch
<1>5. Watch(t, kind, fd).fds = [t.fds EXCEPT ![kind] = @ \cup {fd}]
  BY DEF Timer, Watch
<1> QED BY <1>4, <1>5, TimerFields DEF FdKinds

\* A shorter timeout touches no descriptor.
LEMMA ShortenDoes ==
    ASSUME NEW t \in Timer, NEW time \in 0 .. MaxAge
    PROVE  Shorten(t, time) \in Timer /\ Shorten(t, time).fds = t.fds /\ Shorten(t,time).nfds = t.nfds 
<1> DEFINE u == [t EXCEPT !.time = time, !.age = 0]
<1>0. 0 \in 0 .. MaxAge
  BY Bounds
<1>1. u \in Timer /\ u.fds = t.fds /\ u.nfds = t.nfds
  BY <1>0 DEF Timer
<1>2. Shorten(t, time) = u \/ Shorten(t, time) = t
  BY DEF Shorten
<1> QED BY <1>1, <1>2

\* Taking over a source adds what it has below its nfds.
LEMMA UpdateDoes ==
    ASSUME NEW t \in Timer, NEW u \in Timer
    PROVE  /\ Update(t, u) \in Timer
           /\ \A k \in FdKinds : Update(t, u).fds[k] = t.fds[k] \cup Below(u.fds[k], u)
<1> DEFINE w == Shorten(t, u.time)
<1>1. w \in Timer /\ w.fds = t.fds /\ w.nfds = t.nfds
  BY TimerFields, ShortenDoes
<1> HIDE DEF w
<1>2. Larger(w.nfds, u.nfds) \in 0 .. NumFds
  BY <1>1, Bounds, TimerFields DEF Larger
<1> DEFINE f == [k \in {"read", "write"} |-> w.fds[k] \cup Below(u.fds[k], u)]
<1>3. f \in [read: SUBSET Fds, write: SUBSET Fds] 
  BY <1>1, TimerFields DEF Below, FdKinds
<1>4. Update(t, u) = [w EXCEPT !.fds = f, !.nfds = Larger(w.nfds, u.nfds), !.cbs = @ \cup u.cbs]
  BY DEF Update, w
<1>5. Update(t, u) \in Timer /\ Update(t, u).fds = f
  <2> HIDE DEF f
  <2> QED BY <1>1, <1>2, <1>3, <1>4 DEF Timer
<1> QED BY <1>1, <1>5 DEF FdKinds

\* Clearing a descriptor takes it from the master only if no slot wants it.
LEMMA UnwatchDoes ==
    ASSUME NEW t \in Timer, NEW kind \in FdKinds, NEW fd \in Fds, NEW after
    PROVE  /\ Unwatch(t, kind, fd, after) \in Timer
           /\ \A k \in FdKinds :
                 \/ Unwatch(t, kind, fd, after).fds[k] = t.fds[k]
                 \/ /\ k = kind /\ Unwatch(t, kind, fd, after).fds[k] = t.fds[k] \ {fd}
                    /\ \A i \in 1 .. Slots : slots[i] # NULL => fd \notin after[slots[i]].fds[kind]
<1> DEFINE n == IF fd = t.nfds - 1 THEN fd ELSE t.nfds
           f == [t.fds EXCEPT ![kind] = @ \ {fd}]
           u == [t EXCEPT !.fds = f, !.nfds = n]
<1>1. n \in 0 .. NumFds
  BY Bounds, TimerFields DEF Fds
<1>2. f \in [read: SUBSET Fds, write: SUBSET Fds]
  BY TimerFields DEF FdKinds
<1>3. u \in Timer /\ u.fds = f
  <2> HIDE DEF n, f
  <2> QED BY <1>1, <1>2 DEF Timer
<1>4. [t EXCEPT !.fds[kind] = @ \ {fd}, !.nfds = IF fd = @ - 1 THEN fd ELSE @] = u
  BY DEF Timer
<1>5. CASE \E i \in 1 .. Slots : slots[i] # NULL /\ fd \in after[slots[i]].fds[kind]
  BY <1>5 DEF Unwatch
<1>6. CASE ~\E i \in 1 .. Slots : slots[i] # NULL /\ fd \in after[slots[i]].fds[kind]
  <2>1. Unwatch(t, kind, fd, after) = u
    BY <1>4, <1>6 DEF Unwatch
  <2>2. \A k \in FdKinds : u.fds[k] = IF k = kind THEN t.fds[k] \ {fd} ELSE t.fds[k]
    BY <1>3, TimerFields DEF FdKinds
  <2> QED BY <1>3, <1>6, <2>1, <2>2
<1> QED BY <1>5, <1>6

\* A timeout of the master touches no descriptor.
LEMMA ArmDoes ==
    ASSUME NEW t \in Timer, NEW time \in Times
    PROVE  Arm(t, time) \in Timer /\ Arm(t, time).fds = t.fds
<1> DEFINE w == Shorten(t, time)
<1>1. w \in Timer /\ w.fds = t.fds
  BY Bounds, ShortenDoes
<1> HIDE DEF w
<1>2. [w EXCEPT !.cbs = @ \cup {"timeout"}] \in Timer
  BY <1>1 DEF Timer, Kinds
<1>3. [w EXCEPT !.cbs = @ \cup {"timeout"}].fds = w.fds
  BY <1>1 DEF Timer
<1>4. Arm(t, time) = IF time = 0 THEN t ELSE [w EXCEPT !.cbs = @ \cup {"timeout"}]
  BY DEF Arm, w
<1> QED BY <1>1, <1>2, <1>3, <1>4

\* Nor does restarting a timer.
LEMMA RestartDoes ==
    ASSUME NEW t \in Timer, NEW W \in SUBSET Fds, NEW off \in SUBSET Kinds
    PROVE  /\ Restart(t) \in Timer
           /\ Restart(t).fds = t.fds /\ Restart(t).nfds = t.nfds /\ Restart(t).cbs = t.cbs /\ Restart(t).loop = t.loop
<1>1. 0 \in 0 .. MaxAge
  BY Bounds
<1> QED BY <1>1 DEF Timer, Restart

\* The writes of a timer replaced.
LEMMA WritesTaken ==
    ASSUME NEW t \in Timer, NEW W \in SUBSET Fds
    PROVE  LET u == [t EXCEPT !.fds["write"] = W] IN 
           /\ u \in Timer /\ u.cbs = t.cbs /\ u.nfds = t.nfds /\ u.loop = t.loop
           /\ u.fds["read"] = t.fds["read"] /\ u.fds["write"] = W
BY DEF Timer

\* A timer with callbacks switched off, and with the writes replaced, too.
Silenced(t, off) == [t EXCEPT !.cbs = @ \ off]
Rewritten(t, off, W) == [t EXCEPT !.cbs = @ \ off, !.fds["write"] = W]

\* The first keeps the descriptors,
LEMMA SwitchedOff ==
    ASSUME NEW t \in Timer, NEW off
    PROVE  Silenced(t, off) \in Timer /\ Silenced(t, off).fds = t.fds
BY DEF Timer, Silenced

\* and the second those that are read.
LEMMA SwitchedWrites ==
    ASSUME NEW t \in Timer, NEW off, NEW W \in SUBSET Fds
    PROVE  /\ Rewritten(t, off, W) \in Timer
           /\ Rewritten(t, off, W).fds["read"] = t.fds["read"]
           /\ Rewritten(t, off, W).fds["write"] = W
<1> DEFINE w == Silenced(t, off)
<1>1. w \in Timer /\ w.fds = t.fds
  BY SwitchedOff
<1>2. Rewritten(t, off, W) = [w EXCEPT !.fds["write"] = W]
  BY DEF Timer, Silenced, Rewritten
<1> HIDE DEF w
<1>3. LET v == [w EXCEPT !.fds["write"] = W]
      IN  v \in Timer /\ v.fds["read"] = w.fds["read"] /\ v.fds["write"] = W
  BY <1>1 DEF Timer
<1> QED BY <1>1, <1>2, <1>3

\* A timer that gets older.
LEMMA OlderDoes ==
    ASSUME NEW t \in Timer
    PROVE  LET u == Older(t) IN
           /\ u \in Timer /\ u.fds = t.fds /\ u.nfds = t.nfds /\ u.cbs = t.cbs /\ u.loop = t.loop
<1>1. Smaller(t.age + 1, MaxAge) \in 0 .. MaxAge
  BY Bounds, TimerFields DEF Smaller
<1> QED BY <1>1 DEF Timer, Older

\* The master's callbacks set from a source.
LEMMA RearmDoes ==
    ASSUME NEW t \in Timer, NEW s \in Sources, src[s] \in Timer
    PROVE  Rearm(t, s) \in Timer /\ Rearm(t, s).fds = t.fds
BY TimerFields DEF Timer, Rearm

\* The fields of a source that schedules fd, and of one that clears it.
Asked(t, kind, fd) == [t EXCEPT !.fds[kind] = @ \cup {fd}, !.nfds = Larger(@, fd + 1)]

\* What a source asks for is below its nfds from then on.
LEMMA AskedDoes ==
    ASSUME NEW t \in Timer, NEW kind \in FdKinds, NEW fd \in Fds
    PROVE  LET u == Asked(t, kind, fd) IN
           /\ u \in Timer /\ u.cbs = t.cbs /\ u.loop = t.loop
           /\ u.nfds = Larger(t.nfds, fd + 1)
           /\ \A k \in FdKinds : u.fds[k] = t.fds[k] \cup (IF k = kind THEN {fd} ELSE {})
<1> DEFINE n == Larger(t.nfds, fd + 1)
           f == [t.fds EXCEPT ![kind] = @ \cup {fd}]
           u == [t EXCEPT !.fds = f, !.nfds = n]
<1>1. n \in 0 .. NumFds
  BY Bounds, TimerFields DEF Fds, Larger
<1>2. f \in [read: SUBSET Fds, write: SUBSET Fds]
  BY TimerFields DEF FdKinds
<1>3. u \in Timer /\ u.fds = f /\ u.nfds = n /\ u.cbs = t.cbs /\ u.loop = t.loop
  <2> HIDE DEF n, f
  <2> QED BY <1>1, <1>2 DEF Timer
<1>4. Asked(t, kind, fd) = u
  BY DEF Timer, Asked
<1>5. \A k \in FdKinds : f[k] = t.fds[k] \cup (IF k = kind THEN {fd} ELSE {})
  BY TimerFields DEF FdKinds
<1> HIDE DEF u, f
<1> QED BY <1>3, <1>4, <1>5 DEF n

Dropped(t, kind, fd) == [t EXCEPT !.fds[kind] = @ \ {fd}]

\* What it asks for no longer is dropped, and nfds stays.
LEMMA DroppedDoes ==
    ASSUME NEW t \in Timer, NEW kind \in FdKinds, NEW fd \in Fds
    PROVE  LET u == Dropped(t, kind, fd) IN
           /\ u \in Timer /\ u.cbs = t.cbs /\ u.loop = t.loop /\ u.nfds = t.nfds
           /\ \A k \in FdKinds : u.fds[k] = t.fds[k] \ (IF k = kind THEN {fd} ELSE {})
<1> DEFINE f == [t.fds EXCEPT ![kind] = @ \ {fd}]
           u == [t EXCEPT !.fds = f]
<1>2. f \in [read: SUBSET Fds, write: SUBSET Fds]
  BY TimerFields DEF FdKinds
<1>3. u \in Timer /\ u.fds = f /\ u.nfds = t.nfds /\ u.cbs = t.cbs /\ u.loop = t.loop
  <2> HIDE DEF f
  <2> QED BY <1>2 DEF Timer
<1>4. Dropped(t, kind, fd) = u
  BY DEF Timer, Dropped
<1>5. \A k \in FdKinds : f[k] = t.fds[k] \ (IF k = kind THEN {fd} ELSE {})
  BY TimerFields DEF FdKinds
<1> HIDE DEF u, f
<1> QED BY <1>3, <1>4, <1>5

-----------------------------------------------------------------------------
(* What the master covers. A source in a slot is linked to the runloop, so that
   what it schedules reaches the master; its descriptors are below its own nfds,
   so that the master takes over all of them; and what it wants is with the
   master, but for the writes that a pass has taken and not yet handed to it. *)

\* TypeOK without what CountInv says.
PassType ==
    /\ src \in [Sources -> Timer] /\ master \in Timer /\ loopRefs \in Nat
    /\ active \in BOOLEAN /\ cb \in BOOLEAN /\ failed \in BOOLEAN /\ fault \in BOOLEAN
    /\ phase \in Phases /\ slot \in 1 .. Slots + 1 /\ left \in 0 .. 2 * MaxAge
    /\ ready \in [read: SUBSET Fds, write: SUBSET Fds] /\ readable \subseteq Fds
    /\ running \in Sources \cup {NULL} /\ call \in Kinds \cup {"none"} /\ ops \in 0 .. MaxOps

\* The code's loops up to nfds see every descriptor of a source.
FdsBelow == \A s \in Sources, k \in FdKinds : \A fd \in src[s].fds[k] : fd < src[s].nfds

\* The sources in the slots have their pointer to the runloop.
Linked == \A i \in 1 .. Slots : slots[i] # NULL => src[slots[i]].loop

\* Callbacks run only in a pass, at one of the slots.
InPass == running # NULL => phase \in Kinds /\ slot \in 1 .. Slots

\* The pass over the writes has not come to slot i.
Pending(i) == phase = "write" /\ (slot < i \/ (slot = i /\ running = NULL))

\* Subscribed, for each kind by itself and exact about whose turn it is.
Covered ==
    \A i \in 1 .. Slots : slots[i] # NULL =>
        /\ "read" \in src[slots[i]].cbs => src[slots[i]].fds["read"] \subseteq master.fds["read"]
        /\ "write" \in src[slots[i]].cbs =>
              \A fd \in src[slots[i]].fds["write"] :
                 fd \in master.fds["write"] \/ (Pending(i) /\ fd \in ready["write"])

\* The inductive invariant.
LoopInv == CountInv /\ PassType /\ FdsBelow /\ Linked /\ InPass /\ Covered

\* The calls are counted up to their bound.
LEMMA CallCounted == ASSUME PassType, NEW op, Call(op) PROVE ops' \in 0 .. MaxOps
BY Bounds DEF PassType, Call

\* The calls and steps. A descriptor is scheduled.
LEMMA ScheduleLoop ==
    ASSUME LoopInv, NEW kind \in FdKinds, NEW s \in Sources, NEW fd \in Fds, Schedule(kind, s, fd)
    PROVE  PassType' /\ FdsBelow' /\ Linked' /\ InPass' /\ Covered'
<1> DEFINE t == Asked(src[s], kind, fd)
<1>0. src \in [Sources -> Timer] /\ master \in Timer
  BY DEF LoopInv, PassType
<1>1. t \in Timer /\ t.cbs = src[s].cbs /\ t.loop = src[s].loop /\ t.nfds = Larger(src[s].nfds, fd + 1)
  BY <1>0, AskedDoes
<1>2. \A k \in FdKinds : t.fds[k] = src[s].fds[k] \cup (IF k = kind THEN {fd} ELSE {})
  BY <1>0, AskedDoes
<1>3. src' = [src EXCEPT ![s] = t]
  BY <1>0 DEF Schedule, Asked
<1> HIDE DEF t
<1>4. \A r \in Sources : src'[r] = IF r = s THEN t ELSE src[r]
  BY <1>0, <1>3
<1>5. /\ master' \in Timer
      /\ \A k \in FdKinds : master'.fds[k] = master.fds[k] \cup (IF k = kind /\ src[s].loop THEN {fd} ELSE {})
  <2>1. CASE src[s].loop
    BY <1>0, <2>1, WatchDoes DEF Schedule
  <2>2. CASE ~src[s].loop
    BY <1>0, <2>2 DEF Schedule
  <2> QED BY <2>1, <2>2
<1>6. PassType'
  <2>1. ops' \in 0 .. MaxOps
    BY CallCounted DEF LoopInv, Schedule, CallSource
  <2>2. src' \in [Sources -> Timer]
    BY <1>0, <1>1, <1>3
  <2>3. fault' \in BOOLEAN
    BY DEF Schedule, CallSource
  <2> QED BY <1>5, <2>1, <2>2, <2>3 DEF LoopInv, PassType, Schedule, passVars
<1>7. FdsBelow'
  <2> SUFFICES ASSUME NEW r \in Sources, NEW k \in FdKinds, NEW x \in src'[r].fds[k]
               PROVE  x < src'[r].nfds
    BY DEF FdsBelow
  <2>1. CASE r # s
    BY <1>4, <2>1 DEF LoopInv, FdsBelow
  <2>2. CASE r = s
    <3>1. x \in src[s].fds[k] \/ x = fd
      BY <1>2, <1>4, <2>2
    <3>2. src'[r].nfds = Larger(src[s].nfds, fd + 1)
      BY <1>1, <1>4, <2>2
    <3>3. x \in src[s].fds[k] => x < src[s].nfds
      BY DEF LoopInv, FdsBelow
    <3>4. src[s].nfds \in Nat /\ fd \in Nat /\ (x \in src[s].fds[k] => x \in Nat)
      BY <1>0, Bounds, TimerFields DEF Fds
    <3> QED BY <3>1, <3>2, <3>3, <3>4 DEF Larger
  <2> QED BY <2>1, <2>2
<1>8. UNCHANGED <<slots, phase, slot, running, ready>>
  BY DEF Schedule, passVars
<1>9. Linked' /\ InPass'
  BY <1>1, <1>4, <1>8 DEF LoopInv, Linked, InPass, CountInv
<1>10. Covered'
  <2> SUFFICES ASSUME NEW i \in 1 .. Slots, slots[i] # NULL
               PROVE  /\ "read" \in src'[slots[i]].cbs => src'[slots[i]].fds["read"] \subseteq master'.fds["read"]
                      /\ "write" \in src'[slots[i]].cbs =>
                            \A x \in src'[slots[i]].fds["write"] :
                               x \in master'.fds["write"] \/ (Pending(i) /\ x \in ready["write"])
    BY <1>8 DEF Covered, Pending
  <2> DEFINE r == slots[i]
  <2>1. r \in Sources /\ src[r].loop
    BY DEF LoopInv, Linked, CountInv
  <2>2. /\ "read" \in src[r].cbs => src[r].fds["read"] \subseteq master.fds["read"]
        /\ "write" \in src[r].cbs =>
              \A x \in src[r].fds["write"] : x \in master.fds["write"] \/ (Pending(i) /\ x \in ready["write"])
    BY DEF LoopInv, Covered
  <2>3. src'[r].cbs = src[r].cbs
    BY <1>1, <1>4, <2>1
  <2>4. \A k \in FdKinds : src'[r].fds[k] = src[r].fds[k] \cup (IF r = s /\ k = kind THEN {fd} ELSE {})
    BY <1>2, <1>4, <2>1
  <2>5. \A k \in FdKinds : /\ master.fds[k] \subseteq master'.fds[k]
                           /\ r = s /\ k = kind => fd \in master'.fds[k]
    BY <1>5, <2>1
  <2>6. "read" \in FdKinds /\ "write" \in FdKinds
    BY DEF FdKinds
  <2> HIDE DEF r
  <2> QED BY <2>2, <2>3, <2>4, <2>5, <2>6 DEF r
<1> QED BY <1>6, <1>7, <1>9, <1>10

\* A descriptor is cleared.
LEMMA ClearLoop ==
    ASSUME LoopInv, NEW kind \in FdKinds, NEW s \in Sources, NEW fd \in Fds, Clear(kind, s, fd)
    PROVE  PassType' /\ FdsBelow' /\ Linked' /\ InPass' /\ Covered'
<1> DEFINE t == Dropped(src[s], kind, fd)
<1>0. src \in [Sources -> Timer] /\ master \in Timer
  BY DEF LoopInv, PassType
<1>1. t \in Timer /\ t.cbs = src[s].cbs /\ t.loop = src[s].loop /\ t.nfds = src[s].nfds
  BY <1>0, DroppedDoes
<1>2. \A k \in FdKinds : t.fds[k] = src[s].fds[k] \ (IF k = kind THEN {fd} ELSE {})
  BY <1>0, DroppedDoes
<1>3. src' = [src EXCEPT ![s] = t]
  BY <1>0 DEF Clear, Dropped
<1> HIDE DEF t
<1>4. \A r \in Sources : src'[r] = IF r = s THEN t ELSE src[r]
  BY <1>0, <1>3
<1>5. /\ master' \in Timer
      /\ \A k \in FdKinds :
            \/ master'.fds[k] = master.fds[k]
            \/ /\ k = kind /\ master'.fds[k] = master.fds[k] \ {fd}
               /\ \A i \in 1 .. Slots : slots[i] # NULL => fd \notin src'[slots[i]].fds[kind]
  <2>1. CASE src[s].loop
    <3>1. master' = Unwatch(master, kind, fd, src')
      BY <2>1 DEF Clear
    <3> QED BY <1>0, <3>1, UnwatchDoes
  <2>2. CASE ~src[s].loop
    BY <1>0, <2>2 DEF Clear
  <2> QED BY <2>1, <2>2
<1>6. PassType'
  <2>1. ops' \in 0 .. MaxOps
    BY CallCounted DEF LoopInv, Clear, CallSource
  <2>2. src' \in [Sources -> Timer]
    BY <1>0, <1>1, <1>3
  <2>3. fault' \in BOOLEAN
    BY DEF Clear, CallSource
  <2> QED BY <1>5, <2>1, <2>2, <2>3 DEF LoopInv, PassType, Clear, passVars
<1>7. FdsBelow'
  BY <1>1, <1>2, <1>4 DEF LoopInv, FdsBelow
<1>8. UNCHANGED <<slots, phase, slot, running, ready>>
  BY DEF Clear, passVars
<1>9. Linked' /\ InPass'
  BY <1>1, <1>4, <1>8 DEF LoopInv, Linked, InPass, CountInv
<1>10. Covered'
  <2>1. SUFFICES ASSUME NEW i \in 1 .. Slots, slots[i] # NULL
                 PROVE  /\ "read" \in src'[slots[i]].cbs => src'[slots[i]].fds["read"] \subseteq master'.fds["read"]
                        /\ "write" \in src'[slots[i]].cbs =>
                              \A e \in src'[slots[i]].fds["write"] :
                                 e \in master'.fds["write"] \/ (Pending(i) /\ e \in ready["write"])
    BY <1>8 DEF Covered, Pending
  <2>2. slots[i] \in Sources
    BY <2>1 DEF LoopInv, CountInv
  <2>3. /\ src'[slots[i]].cbs = src[slots[i]].cbs
        /\ \A k \in FdKinds : src'[slots[i]].fds[k] \subseteq src[slots[i]].fds[k]
    BY <1>1, <1>2, <1>4, <2>2
  <2>4. \A k \in FdKinds : \A e \in src'[slots[i]].fds[k] : e \in master.fds[k] => e \in master'.fds[k]
    BY <1>5, <2>1
  <2> QED BY <2>1, <2>3, <2>4 DEF LoopInv, Covered, FdKinds
<1> QED BY <1>6, <1>7, <1>9, <1>10

\* A step that asks for nothing, and forgets no write before its turn.
LEMMA NothingAsked ==
    ASSUME LoopInv,
           \A i \in 1 .. Slots : slots'[i] = slots[i] \/ slots'[i] = NULL,
           \A s \in Sources :
              /\ src'[s].fds = src[s].fds /\ src'[s].nfds = src[s].nfds
              /\ src'[s].loop = src[s].loop /\ src'[s].cbs \subseteq src[s].cbs,
           \A k \in FdKinds : master.fds[k] \subseteq master'.fds[k],
           InPass',
           \A i \in 1 .. Slots : Pending(i) => Pending(i)' /\ ready' = ready
    PROVE  FdsBelow' /\ Linked' /\ Covered'
<1>1. \A i \in 1 .. Slots : slots[i] # NULL => slots[i] \in Sources
  BY DEF LoopInv, CountInv
<1>2. FdsBelow'
  BY DEF LoopInv, FdsBelow
<1>3. Linked'
  BY <1>1 DEF LoopInv, Linked
<1>4. Covered'
  <2>1. SUFFICES ASSUME NEW i \in 1 .. Slots, slots'[i] # NULL
                 PROVE  /\ "read" \in src'[slots'[i]].cbs => src'[slots'[i]].fds["read"] \subseteq master'.fds["read"]
                        /\ "write" \in src'[slots'[i]].cbs =>
                              \A e \in src'[slots'[i]].fds["write"] :
                                 e \in master'.fds["write"] \/ (Pending(i)' /\ e \in ready'["write"])
    BY DEF Covered
  <2>2. slots'[i] = slots[i] /\ slots[i] \in Sources
    BY <1>1, <2>1
  <2> QED BY <2>1, <2>2 DEF LoopInv, Covered, FdKinds
<1> QED BY <1>2, <1>3, <1>4

\* A timeout is scheduled.
LEMMA TimeoutLoop ==
    ASSUME LoopInv, NEW s \in Sources, NEW time \in Times, MIDIRunloopSourceScheduleTimeout(s, time)
    PROVE  PassType' /\ FdsBelow' /\ Linked' /\ InPass' /\ Covered'
<1> DEFINE n == Larger(time, 1)
           t == [src[s] EXCEPT !.time = n, !.age = 0]
<1>0. src \in [Sources -> Timer] /\ master \in Timer
  BY DEF LoopInv, PassType
<1>1. n \in 0 .. MaxAge /\ 0 \in 0 .. MaxAge
  BY Bounds DEF Larger
<1>2. src' = [src EXCEPT ![s] = t]
  BY <1>0 DEF MIDIRunloopSourceScheduleTimeout
<1> HIDE DEF n
<1>3. t \in Timer /\ t.fds = src[s].fds /\ t.nfds = src[s].nfds /\ t.cbs = src[s].cbs /\ t.loop = src[s].loop
  BY <1>0, <1>1 DEF Timer
<1> HIDE DEF t
<1>4. src' \in [Sources -> Timer] /\ \A r \in Sources : src'[r] = IF r = s THEN t ELSE src[r]
  BY <1>0, <1>2, <1>3
<1>5. master' \in Timer /\ master'.fds = master.fds
  BY <1>0, ArmDoes DEF MIDIRunloopSourceScheduleTimeout
<1>6. ops' \in 0 .. MaxOps /\ fault' \in BOOLEAN
  BY CallCounted DEF LoopInv, MIDIRunloopSourceScheduleTimeout, CallSource
<1>7. UNCHANGED <<slots, loopRefs, active, passVars, readable>>
  BY DEF MIDIRunloopSourceScheduleTimeout
<1>8. PassType'
  BY <1>4, <1>5, <1>6, <1>7 DEF LoopInv, PassType, passVars
<1>9. InPass'
  BY <1>7 DEF LoopInv, InPass, passVars
<1>10. \A i \in 1 .. Slots : Pending(i) => Pending(i)' /\ ready' = ready
  BY <1>7 DEF passVars, Pending
<1> QED BY <1>3, <1>4, <1>5, <1>7, <1>8, <1>9, <1>10, NothingAsked

\* A source enters a slot, and the master takes over what it wants.
LEMMA AddLoop ==
    ASSUME LoopInv, NEW s \in Sources, MIDIRunloopAddSource(s), CountInv'
    PROVE  PassType' /\ FdsBelow' /\ Linked' /\ InPass' /\ Covered'
<1>0. src \in [Sources -> Timer] /\ master \in Timer
  BY DEF LoopInv, PassType
<1>1. ops' \in 0 .. MaxOps /\ UNCHANGED <<loopRefs, active, passVars, readable, fault>>
  BY CallCounted DEF LoopInv, MIDIRunloopAddSource
<1>2. InPass' /\ \A i : Pending(i)' <=> Pending(i)
  BY <1>1 DEF LoopInv, InPass, Pending, passVars
<1>3. CASE FreeSlots = {}
  <2>1. UNCHANGED <<src, slots, master>>
    BY <1>3 DEF MIDIRunloopAddSource
  <2> QED BY <1>1, <1>2, <2>1 DEF LoopInv, PassType, FdsBelow, Linked, Covered, passVars
<1>4. CASE FreeSlots # {}
  <2> DEFINE e == First(FreeSlots)
             t == [src[s] EXCEPT !.loop = TRUE]
  <2>1. slots' = [slots EXCEPT ![e] = s] /\ master' = Update(master, src[s]) /\ src' = [src EXCEPT ![s] = t]
    BY <1>0, <1>4 DEF MIDIRunloopAddSource
  <2>2. t \in Timer /\ t.fds = src[s].fds /\ t.nfds = src[s].nfds /\ t.cbs = src[s].cbs /\ t.loop
    BY <1>0 DEF Timer
  <2> HIDE DEF t
  <2>3. src' \in [Sources -> Timer] /\ \A r \in Sources : src'[r] = IF r = s THEN t ELSE src[r]
    BY <1>0, <2>1, <2>2
  <2>4. master' \in Timer
    BY <1>0, <2>1, UpdateDoes
  <2>5. Below(src[s].fds["read"], src[s]) = src[s].fds["read"] /\ Below(src[s].fds["write"], src[s]) = src[s].fds["write"]
    BY DEF LoopInv, FdsBelow, FdKinds, Below
  <2>6. \A k \in FdKinds : master'.fds[k] = master.fds[k] \cup src[s].fds[k]
    BY <1>0, <2>1, <2>5, UpdateDoes DEF FdKinds
  <2>7. PassType'
    BY <1>1, <2>3, <2>4 DEF LoopInv, PassType, passVars
  <2>8. \A i \in 1 .. Slots : slots'[i] = s \/ slots'[i] = slots[i]
    BY <2>1 DEF LoopInv, CountInv
  <2>9. \A i \in 1 .. Slots : slots[i] # NULL => slots[i] \in Sources
    BY DEF LoopInv, CountInv
  <2>10. FdsBelow'
    BY <2>2, <2>3 DEF LoopInv, FdsBelow
  <2>11. Linked'
    BY <2>2, <2>3, <2>8, <2>9 DEF LoopInv, Linked
  <2>12. Covered'
    <3>1. SUFFICES ASSUME NEW i \in 1 .. Slots, slots'[i] # NULL
                 PROVE  /\ "read" \in src'[slots'[i]].cbs => src'[slots'[i]].fds["read"] \subseteq master'.fds["read"]
                        /\ "write" \in src'[slots'[i]].cbs =>
                              \A d \in src'[slots'[i]].fds["write"] :
                                 d \in master'.fds["write"] \/ (Pending(i)' /\ d \in ready'["write"])
      BY DEF Covered
    <3>2. CASE slots'[i] = s
      BY <2>2, <2>3, <2>6, <3>2 DEF FdKinds
    <3>3. CASE slots'[i] # s
      <4>1. slots'[i] = slots[i] /\ slots[i] \in Sources /\ src'[slots[i]] = src[slots[i]]
        BY <2>3, <2>8, <2>9, <3>1, <3>3
      <4> QED BY <1>1, <1>2, <2>6, <3>1, <4>1 DEF LoopInv, Covered, FdKinds, passVars
    <3> QED BY <3>2, <3>3
  <2> QED BY <1>2, <2>7, <2>10, <2>11, <2>12
<1> QED BY <1>3, <1>4

\* The slots of a source become free one by one.
LEMMA UnslotFrees ==
    ASSUME NEW s \in Sources, Unslot(s), slots \in [1 .. Slots -> Sources \cup {NULL}]
    PROVE  \A i \in 1 .. Slots : slots'[i] = slots[i] \/ slots'[i] = NULL
BY DEF Unslot

\* The calls that take interest, slots or references away.
LEMMA QuietLoop ==
    ASSUME LoopInv, NEW s \in Sources,
           \/ MIDIRunloopSourceClearTimeout(s)
           \/ MIDIRunloopRemoveSource(s)
           \/ MIDIRunloopSourceInvalidate(s)
           \/ MIDIRunloopSourceRetain(s)
           \/ MIDIRunloopSourceRelease(s)
    PROVE  PassType' /\ FdsBelow' /\ Linked' /\ InPass' /\ Covered'
<1>0. src \in [Sources -> Timer] /\ slots \in [1 .. Slots -> Sources \cup {NULL}]
  BY DEF LoopInv, PassType, CountInv
<1>1. \A i \in 1 .. Slots : slots'[i] = slots[i] \/ slots'[i] = NULL
  BY <1>0, UnslotFrees
  DEF MIDIRunloopSourceClearTimeout, MIDIRunloopRemoveSource, MIDIRunloopSourceInvalidate,
      MIDIRunloopSourceRetain, MIDIRunloopSourceRelease
<1>2. /\ src' \in [Sources -> Timer]
      /\ \A r \in Sources :
              /\ src'[r].fds = src[r].fds /\ src'[r].nfds = src[r].nfds
              /\ src'[r].loop = src[r].loop /\ src'[r].cbs \subseteq src[r].cbs
  <2>1. CASE src' = src
    BY <1>0, <2>1
  <2>2. CASE MIDIRunloopSourceClearTimeout(s)
    <3> DEFINE t == [src[s] EXCEPT !.time = 0]
    <3>1. 0 \in 0 .. MaxAge
      BY Bounds
    <3>2. t \in Timer /\ t.fds = src[s].fds /\ t.nfds = src[s].nfds /\ t.cbs = src[s].cbs /\ t.loop = src[s].loop
      BY <1>0, <3>1 DEF Timer
    <3>3. src' = [src EXCEPT ![s] = t]
      BY <1>0, <2>2 DEF MIDIRunloopSourceClearTimeout
    <3> HIDE DEF t
    <3> QED BY <1>0, <3>2, <3>3
  <2>3. CASE MIDIRunloopSourceInvalidate(s)
    <3> DEFINE t == [src[s] EXCEPT !.cbs = {}]
    <3>2. t \in Timer /\ t.fds = src[s].fds /\ t.nfds = src[s].nfds /\ t.cbs = {} /\ t.loop = src[s].loop
      BY <1>0 DEF Timer
    <3>3. src' = [src EXCEPT ![s] = t]
      BY <1>0, <2>3 DEF MIDIRunloopSourceInvalidate
    <3> HIDE DEF t
    <3> QED BY <1>0, <3>2, <3>3
  <2> QED BY <2>1, <2>2, <2>3
          DEF MIDIRunloopRemoveSource, MIDIRunloopSourceRetain, MIDIRunloopSourceRelease
<1>3. ops' \in 0 .. MaxOps /\ fault' \in BOOLEAN
  BY CallCounted
  DEF LoopInv, PassType, MIDIRunloopSourceClearTimeout, MIDIRunloopRemoveSource, MIDIRunloopSourceInvalidate,
      MIDIRunloopSourceRetain, MIDIRunloopSourceRelease, CallSource
<1>4. UNCHANGED <<master, loopRefs, active, passVars, readable>>
  BY DEF MIDIRunloopSourceClearTimeout, MIDIRunloopRemoveSource, MIDIRunloopSourceInvalidate,
      MIDIRunloopSourceRetain, MIDIRunloopSourceRelease
<1>7. PassType'
  BY <1>2, <1>3, <1>4 DEF LoopInv, PassType, passVars
<1>8. InPass'
  BY <1>4 DEF LoopInv, InPass, passVars
<1>9. \A i \in 1 .. Slots : Pending(i) => Pending(i)' /\ ready' = ready
  BY <1>4 DEF Pending, passVars
<1> QED BY <1>1, <1>2, <1>4, <1>7, <1>8, <1>9, NothingAsked

\* The calls that start, step and stop the loop.
LEMMA ControlLoop ==
    ASSUME LoopInv, MIDIRunloopStart \/ MIDIRunloopStep \/ MIDIRunloopStop
    PROVE  PassType' /\ FdsBelow' /\ Linked' /\ InPass' /\ Covered'
<1>1. UNCHANGED <<src, slots, master, loopRefs, left, ready, slot, cb, running, call, readable, fault>>
  BY DEF MIDIRunloopStart, MIDIRunloopStep, MIDIRunloopStop, sourceVars, passVars
<1>2. /\ \/ UNCHANGED <<phase, failed>>
         \/ phase = "out" /\ phase' = "step" /\ failed' = FALSE
      /\ active' \in BOOLEAN
  BY DEF LoopInv, PassType, MIDIRunloopStart, MIDIRunloopStep, MIDIRunloopStop, passVars
<1>3. ops' \in 0 .. MaxOps
  BY CallCounted DEF LoopInv, MIDIRunloopStart, MIDIRunloopStep, MIDIRunloopStop
<1>4. PassType'
  BY <1>1, <1>2, <1>3 DEF LoopInv, PassType, Phases
<1>5. InPass' /\ \A i : Pending(i)' <=> Pending(i)
  BY <1>1, <1>2 DEF LoopInv, InPass, Pending, Kinds
<1> QED BY <1>1, <1>4, <1>5 DEF LoopInv, FdsBelow, Linked, Covered

\* The last reference to the runloop.
LEMMA DestroyLoop ==
    ASSUME LoopInv, MIDIRunloopRelease
    PROVE  PassType' /\ FdsBelow' /\ Linked' /\ InPass' /\ Covered'
<1>0. src \in [Sources -> Timer]
  BY DEF LoopInv, PassType
<1>1. /\ ops' \in 0 .. MaxOps /\ loopRefs' \in Nat
      /\ UNCHANGED <<master, active, passVars, readable, fault>>
  BY CallCounted DEF LoopInv, PassType, MIDIRunloopRelease
<1>2. /\ src' \in [Sources -> Timer]
      /\ \A r \in Sources : src'[r].fds = src[r].fds /\ src'[r].nfds = src[r].nfds
  <2>1. CASE loopRefs = 1
    <3>1. \A r \in Sources : LET t == [src[r] EXCEPT !.loop = FALSE] IN
             t \in Timer /\ t.fds = src[r].fds /\ t.nfds = src[r].nfds
      BY <1>0 DEF Timer
    <3>2. src' = [r \in Sources |-> IF Member(r) THEN [src[r] EXCEPT !.loop = FALSE] ELSE src[r]]
      BY <2>1 DEF MIDIRunloopRelease
    <3> QED BY <1>0, <3>1, <3>2
  <2>2. CASE loopRefs # 1
    BY <1>0, <2>2 DEF MIDIRunloopRelease
  <2> QED BY <2>1, <2>2
<1>3. PassType'
  BY <1>1, <1>2 DEF LoopInv, PassType, passVars
<1>4. FdsBelow' /\ InPass'
  BY <1>1, <1>2 DEF LoopInv, FdsBelow, InPass, passVars
<1>5. CASE loopRefs = 1
  <2>1. \A i \in 1 .. Slots : slots'[i] = NULL
    BY <1>5 DEF MIDIRunloopRelease
  <2> QED BY <1>3, <1>4, <2>1 DEF Linked, Covered
<1>6. CASE loopRefs # 1
  <2>1. UNCHANGED <<slots, src>>
    BY <1>6 DEF MIDIRunloopRelease
  <2> QED BY <1>1, <1>3, <1>4, <2>1 DEF LoopInv, Linked, Covered, Pending, passVars
<1> QED BY <1>5, <1>6

\* Any call of the application.
LEMMA ApplicationLoop ==
    ASSUME LoopInv, Application, CountInv'
    PROVE  PassType' /\ FdsBelow' /\ Linked' /\ InPass' /\ Covered'
<1>1. ASSUME NEW s \in Sources, NEW fd \in Fds,
             \/ MIDIRunloopSourceScheduleRead(s, fd)
             \/ MIDIRunloopSourceClearRead(s, fd)
             \/ MIDIRunloopSourceScheduleWrite(s, fd)
             \/ MIDIRunloopSourceClearWrite(s, fd)
      PROVE  PassType' /\ FdsBelow' /\ Linked' /\ InPass' /\ Covered'
  <2>1. PICK kind \in FdKinds : Schedule(kind, s, fd) \/ Clear(kind, s, fd)
    BY <1>1 DEF MIDIRunloopSourceScheduleRead, MIDIRunloopSourceClearRead,
                MIDIRunloopSourceScheduleWrite, MIDIRunloopSourceClearWrite, FdKinds
  <2> QED BY <2>1, ScheduleLoop, ClearLoop
<1> QED BY <1>1, TimeoutLoop, AddLoop, QuietLoop, ControlLoop, DestroyLoop DEF Application

\* A pass begins: the master loses the writes it hands out, and nothing else.
LEMMA EnterDoes ==
    ASSUME master \in Timer, NEW kind, Enter(kind)
    PROVE  /\ master' \in Timer
           /\ master'.fds["read"] = master.fds["read"]
           /\ \A fd \in master.fds["write"] :
                 fd \in master'.fds["write"] \/ (kind = "write" /\ fd \in ready'["write"])
<1> DEFINE r == Restart(master)
           W == IF kind = "write" THEN r.fds["write"] \ Below(ready'["write"], master) ELSE r.fds["write"]
<1>1. r \in Timer /\ r.fds = master.fds
  BY RestartDoes
<1>2. W \in SUBSET Fds
  BY <1>1, TimerFields DEF FdKinds
<1>3. master' = [r EXCEPT !.fds["write"] = W]
  BY <1>1 DEF Enter, Timer
<1>4. master' \in Timer /\ master'.fds["read"] = r.fds["read"] /\ master'.fds["write"] = W
  <2> HIDE DEF W, r
  <2> QED BY <1>1, <1>2, <1>3, WritesTaken
<1>5. master'.fds["read"] = master.fds["read"]
  BY <1>1, <1>4
<1> QED BY <1>1, <1>4, <1>5 DEF Below

\* The timeout of the master: a pass over the slots, or the next round.
LEMMA TimeoutDoes ==
    ASSUME LoopInv, Timeout, phase \in {"step", "wait"}
    PROVE  /\ master' \in Timer /\ \A k \in FdKinds : master.fds[k] \subseteq master'.fds[k]
           /\ phase' \in {"timeout", "step", "out"} /\ slot' = 1 /\ cb' = FALSE
           /\ running' = NULL /\ call' = call /\ active' \in BOOLEAN /\ failed' \in BOOLEAN
           /\ left' \in 0 .. 2 * MaxAge
           /\ ready' \in [read: SUBSET Fds, write: SUBSET Fds]
<1>0. master \in Timer /\ running = NULL
  BY DEF LoopInv, PassType, InPass, Kinds
<1>1. CASE "timeout" \in master.cbs
  <2>1. Enter("timeout") /\ UNCHANGED <<ready, failed, active>>
    BY <1>1 DEF Timeout
  <2>2. master' \in Timer /\ \A k \in FdKinds : master.fds[k] \subseteq master'.fds[k]
    BY <1>0, <2>1, EnterDoes DEF FdKinds
  <2> QED BY <1>0, <2>1, <2>2 DEF LoopInv, PassType, Enter
<1>2. CASE "timeout" \notin master.cbs
  <2>1. Loop(FALSE) /\ UNCHANGED master
    BY <1>2 DEF Timeout
  <2>2. 0 \in 0 .. 2 * MaxAge
    BY Bounds
  <2> QED BY <1>0, <2>1, <2>2 DEF LoopInv, PassType, Loop, NoFds
<1> QED BY <1>1, <1>2

\* The loop waits, or is woken without a descriptor.
LEMMA WaitLoop ==
    ASSUME LoopInv, Wait \/ Elapse \/ Interrupt
    PROVE  PassType' /\ FdsBelow' /\ Linked' /\ InPass' /\ Covered'
<1>0. master \in Timer
  BY DEF LoopInv, PassType
<1>1. phase \in {"step", "wait"} /\ UNCHANGED <<sourceVars, loopRefs, readable, fault>>
  BY DEF Wait, Elapse, Interrupt
<1>2. running = NULL
  BY <1>1 DEF LoopInv, InPass, Kinds
<1>3. ops' \in 0 .. MaxOps
  BY Bounds DEF LoopInv, PassType, Wait, Elapse, Interrupt
<1>4. /\ master' \in Timer /\ \A k \in FdKinds : master.fds[k] \subseteq master'.fds[k]
      /\ phase' \in Phases /\ slot' \in 1 .. Slots + 1 /\ cb' \in BOOLEAN
      /\ running' = NULL /\ call' = call /\ active' \in BOOLEAN /\ failed' \in BOOLEAN
      /\ left' \in 0 .. 2 * MaxAge
      /\ ready' \in [read: SUBSET Fds, write: SUBSET Fds]
  <2>1. CASE Timeout
    <3>1. 1 \in 1 .. Slots + 1
      BY Bounds
    <3> QED BY <1>1, <2>1, <3>1, TimeoutDoes DEF Phases
  <2>2. CASE ~Timeout
    <3>1. /\ UNCHANGED <<master, active>>
          /\ IF master.nfds > 0 \/ master.time # 0
             THEN /\ phase' = "wait" /\ left' = Remain(master)
                  /\ UNCHANGED <<ready, slot, cb, running, call, failed>>
             ELSE /\ phase' = IF active THEN "step" ELSE "out"
                  /\ UNCHANGED <<left, ready, slot, cb, running, call, failed>>
      BY <2>2 DEF Wait, Elapse, Interrupt
    <3>2. Remain(master) \in 0 .. 2 * MaxAge
      BY <1>0, Bounds, TimerFields DEF Remain
    <3>3. left' \in 0 .. 2 * MaxAge
      BY <3>1, <3>2 DEF LoopInv, PassType
    <3> QED BY <1>2, <3>1, <3>3 DEF LoopInv, PassType, Phases
  <2> QED BY <2>1, <2>2
<1>5. PassType'
  BY <1>1, <1>3, <1>4 DEF LoopInv, PassType, sourceVars
<1>6. InPass'
  BY <1>4 DEF InPass
<1>7. \A i \in 1 .. Slots : ~Pending(i)
  BY <1>1 DEF Pending
<1> QED BY <1>1, <1>4, <1>5, <1>6, <1>7, NothingAsked DEF sourceVars

\* A pass over the writes begins: every source still has its turn.
LEMMA WritesHandedOut ==
    ASSUME LoopInv, UNCHANGED <<src, slots>>, phase # "write" \/ slot = Slots + 1,
           phase' = "write", slot' = 1, running' = NULL,
           master.fds["read"] \subseteq master'.fds["read"],
           \A fd \in master.fds["write"] : fd \in master'.fds["write"] \/ fd \in ready'["write"]
    PROVE  FdsBelow' /\ Linked' /\ InPass' /\ Covered'
<1>1. \A i \in 1 .. Slots : ~Pending(i) /\ Pending(i)'
  <2> TAKE i \in 1 .. Slots
  <2>1. i \in Nat /\ 1 <= i /\ i <= Slots
    BY Bounds
  <2> QED BY <2>1, Bounds DEF Pending
<1>2. FdsBelow' /\ Linked' /\ InPass'
  BY DEF LoopInv, FdsBelow, Linked, InPass
<1>3. Covered'
  BY <1>1 DEF LoopInv, Covered
<1> QED BY <1>2, <1>3

\* select returns descriptors.
LEMMA SelectLoop ==
    ASSUME LoopInv, Select
    PROVE  PassType' /\ FdsBelow' /\ Linked' /\ InPass' /\ Covered'
<1>0. master \in Timer
  BY DEF LoopInv, PassType
<1>1. phase = "wait" /\ UNCHANGED <<sourceVars, loopRefs, readable, ops, fault>>
  BY DEF Select
<1>2. running = NULL
  BY <1>1 DEF LoopInv, InPass, Kinds
<1>3. PICK writable \in SUBSET Below(master.fds["write"], master) :
        /\ ready' = [read |-> Below(master.fds["read"], master) \cap readable, write |-> writable]
        /\ CASE Passes("read", ready'["read"]) -> Enter("read") /\ UNCHANGED <<active, failed>>
             [] ~Passes("read", ready'["read"]) /\ Passes("write", writable) ->
                    Enter("write") /\ UNCHANGED <<active, failed>>
             [] OTHER -> /\ phase' = IF active THEN "step" ELSE "out"
                         /\ left' = 0
                         /\ UNCHANGED <<master, active, failed, slot, cb, running, call>>
  BY DEF Select
<1>4. ready' \in [read: SUBSET Fds, write: SUBSET Fds]
  BY <1>0, <1>3, TimerFields DEF Below, FdKinds
<1>5. 1 \in 1 .. Slots + 1 /\ 0 \in 0 .. 2 * MaxAge
  BY Bounds
<1>6. ASSUME NEW kind \in FdKinds, Enter(kind), UNCHANGED <<active, failed>>
      PROVE  PassType' /\ FdsBelow' /\ Linked' /\ InPass' /\ Covered'
  <2>1. /\ master' \in Timer /\ master'.fds["read"] = master.fds["read"]
        /\ \A fd \in master.fds["write"] :
                 fd \in master'.fds["write"] \/ (kind = "write" /\ fd \in ready'["write"])
    BY <1>0, <1>6, EnterDoes
  <2>2. phase' = kind /\ slot' = 1 /\ cb' = FALSE /\ UNCHANGED <<left, running, call>>
    BY <1>6 DEF Enter
  <2>3. PassType'
    BY <1>1, <1>4, <1>5, <1>6, <2>1, <2>2 DEF LoopInv, PassType, sourceVars, Phases, FdKinds
  <2>4. CASE kind = "write"
    BY <1>1, <1>2, <2>1, <2>2, <2>3, <2>4, WritesHandedOut DEF sourceVars
  <2>5. CASE kind # "write"
    <3>1. InPass' /\ \A i \in 1 .. Slots : ~Pending(i)
      BY <1>1, <1>2, <2>2 DEF InPass, Pending
    <3>2. \A k \in FdKinds : master.fds[k] \subseteq master'.fds[k]
      BY <2>1, <2>5 DEF FdKinds
    <3> QED BY <1>1, <2>3, <3>1, <3>2, NothingAsked DEF sourceVars
  <2> QED BY <2>4, <2>5
<1>7. CASE /\ phase' = IF active THEN "step" ELSE "out"
           /\ left' = 0
           /\ UNCHANGED <<master, active, failed, slot, cb, running, call>>
  <2>1. PassType'
    BY <1>1, <1>4, <1>5, <1>7 DEF LoopInv, PassType, sourceVars, Phases
  <2>2. InPass' /\ \A i \in 1 .. Slots : ~Pending(i)
    BY <1>1, <1>2, <1>7 DEF InPass, Pending
  <2> QED BY <1>1, <1>7, <2>1, <2>2, NothingAsked DEF sourceVars
<1> QED BY <1>3, <1>6, <1>7 DEF FdKinds

\* The pass moves on from slot: its source has had its writes.
LEMMA SlotPassed ==
    ASSUME LoopInv, UNCHANGED <<src, slots, phase, ready>>, slot' = slot + 1, running' = NULL,
           master'.fds = master.fds,
           \/ running # NULL
           \/ slot \in 1 .. Slots => slots[slot] = NULL
           \/ /\ phase = "write" => /\ slots[slot] \in Sources
                                    /\ "write" \in src[slots[slot]].cbs
                                          => src[slots[slot]].fds["write"] \cap ready["write"] = {}
    PROVE  FdsBelow' /\ Linked' /\ InPass' /\ Covered'
<1>1. FdsBelow' /\ Linked' /\ InPass'
  BY DEF LoopInv, FdsBelow, Linked, InPass
<1>2. slot \in Nat
  BY Bounds DEF LoopInv, PassType
<1>3. Covered'
  <2>1. SUFFICES ASSUME NEW i \in 1 .. Slots, slots[i] # NULL
                 PROVE  /\ "read" \in src[slots[i]].cbs => src[slots[i]].fds["read"] \subseteq master.fds["read"]
                        /\ "write" \in src[slots[i]].cbs =>
                              \A fd \in src[slots[i]].fds["write"] :
                                 fd \in master.fds["write"] \/ (Pending(i)' /\ fd \in ready["write"])
    BY DEF Covered
  <2>2. i \in Nat
    BY Bounds
  <2>3. Pending(i) => Pending(i)' \/ (i = slot /\ phase = "write" /\ running = NULL)
    BY <1>2, <2>2 DEF Pending
  <2>4. CASE i = slot /\ phase = "write" /\ running = NULL
    BY <2>1, <2>4 DEF LoopInv, Covered
  <2>5. CASE ~(i = slot /\ phase = "write" /\ running = NULL)
    BY <2>1, <2>3, <2>5 DEF LoopInv, Covered
  <2> QED BY <2>4, <2>5
<1> QED BY <1>1, <1>3

\* A slot without a callback.
LEMMA SkipLoop ==
    ASSUME LoopInv, Skip
    PROVE  PassType' /\ FdsBelow' /\ Linked' /\ InPass' /\ Covered'
<1>1. /\ phase \in Kinds /\ running = NULL /\ slot <= Slots /\ slot' = slot + 1
      /\ UNCHANGED <<sourceVars, loopRefs, active, phase, left, ready, running, call, failed, readable, ops, fault>>
  BY DEF Skip
<1>2. slot \in 1 .. Slots /\ slot' \in 1 .. Slots + 1
  BY <1>1, Bounds DEF LoopInv, PassType
<1>3. src \in [Sources -> Timer] /\ master \in Timer
  BY DEF LoopInv, PassType
<1>4. CASE slots[slot] = NULL /\ UNCHANGED <<cb, master>>
  <2>1. PassType'
    BY <1>1, <1>2, <1>4 DEF LoopInv, PassType, sourceVars
  <2>2. FdsBelow' /\ Linked' /\ InPass' /\ Covered'
    BY <1>1, <1>4, SlotPassed DEF sourceVars
  <2> QED BY <2>1, <2>2
<1>5. ASSUME NEW s \in Sources, Reached(s), Due(s) = "none",
             cb' = (cb \/ phase \in src[s].cbs), master' = Rearm(master, s)
      PROVE  PassType' /\ FdsBelow' /\ Linked' /\ InPass' /\ Covered'
  <2>1. master' \in Timer /\ master'.fds = master.fds
    BY <1>3, <1>5, RearmDoes
  <2>2. cb' \in BOOLEAN
    BY <1>5 DEF LoopInv, PassType
  <2>3. PassType'
    BY <1>1, <1>2, <2>1, <2>2 DEF LoopInv, PassType, sourceVars
  <2>4. ASSUME phase = "write", "write" \in src[s].cbs PROVE src[s].fds["write"] \cap ready["write"] = {}
    <3>1. Below(src[s].fds["write"], src[s]) = src[s].fds["write"]
      BY DEF LoopInv, FdsBelow, Below, FdKinds
    <3> QED BY <1>5, <2>4, <3>1 DEF Due
  <2>5. slots[slot] = s
    BY <1>5 DEF Reached
  <2>6. FdsBelow' /\ Linked' /\ InPass' /\ Covered'
    BY <1>1, <2>1, <2>4, <2>5, SlotPassed DEF sourceVars
  <2> QED BY <2>3, <2>6
<1> QED BY <1>4, <1>5 DEF Skip

\* A callback begins: the writes of its source are done with.
LEMMA BeginLoop ==
    ASSUME LoopInv, NEW s \in Sources, Begin(s)
    PROVE  PassType' /\ FdsBelow' /\ Linked' /\ InPass' /\ Covered'
<1> DEFINE r == Restart(src[s])
           W == IF Due(s) = "write" THEN r.fds["write"] \ Below(ready["write"], src[s]) ELSE r.fds["write"]
           t == [r EXCEPT !.fds["write"] = W]
<1>0. src \in [Sources -> Timer]
  BY DEF LoopInv, PassType
<1>1. r \in Timer /\ r.fds = src[s].fds /\ r.nfds = src[s].nfds /\ r.cbs = src[s].cbs /\ r.loop = src[s].loop
  BY <1>0, RestartDoes
<1>2. W \in SUBSET Fds
  BY <1>1, TimerFields DEF FdKinds
<1>3. src' = [src EXCEPT ![s] = t]
  BY DEF Begin
<1>4. /\ t \in Timer /\ t.cbs = src[s].cbs /\ t.nfds = src[s].nfds /\ t.loop = src[s].loop
      /\ t.fds["read"] = src[s].fds["read"] /\ t.fds["write"] = W /\ W \subseteq src[s].fds["write"]
  <2>1. /\ t \in Timer /\ t.cbs = r.cbs /\ t.nfds = r.nfds /\ t.loop = r.loop
        /\ t.fds["read"] = r.fds["read"] /\ t.fds["write"] = W
    <3> HIDE DEF W, r
    <3> QED BY <1>1, <1>2, WritesTaken
  <2>2. W \subseteq src[s].fds["write"]
    BY <1>1
  <2> HIDE DEF W, t, r
  <2> QED BY <1>1, <2>1, <2>2
<1>5. phase = "write" /\ "write" \in src[s].cbs => W \cap ready["write"] = {}
  <2>1. SUFFICES ASSUME phase = "write", "write" \in src[s].cbs PROVE W \cap ready["write"] = {}
    OBVIOUS
  <2>2. Below(src[s].fds["write"], src[s]) = src[s].fds["write"]
    BY DEF LoopInv, FdsBelow, Below, FdKinds
  <2>3. CASE Due(s) = "write"
    <3>1. W = src[s].fds["write"] \ Below(ready["write"], src[s])
      BY <1>1, <2>3
    <3> QED BY <2>2, <3>1 DEF Below
  <2>4. CASE Due(s) # "write"
    <3>1. W = src[s].fds["write"]
      BY <1>1, <2>4
    <3> QED BY <2>1, <2>2, <2>4, <3>1 DEF Due
  <2> QED BY <2>3, <2>4
<1> HIDE DEF t, W, r
<1>6. src' \in [Sources -> Timer] /\ \A q \in Sources : src'[q] = IF q = s THEN t ELSE src[q]
  BY <1>0, <1>3, <1>4
<1>7. /\ phase \in Kinds /\ running = NULL /\ slots[slot] = s /\ running' = s /\ call' = Due(s)
      /\ cb' = (cb \/ phase \in src[s].cbs)
      /\ UNCHANGED <<refs, held, slots, master, loopRefs, active, phase, left, ready, slot, failed, readable, ops, fault>>
  BY DEF Begin, Reached
<1>8. PassType'
  <2>1. call' \in Kinds \cup {"none"}
    BY <1>7 DEF Due, Kinds
  <2>2. cb' \in BOOLEAN
    BY <1>7 DEF LoopInv, PassType
  <2> QED BY <1>6, <1>7, <2>1, <2>2 DEF LoopInv, PassType
<1>9. FdsBelow'
  BY <1>4, <1>6 DEF LoopInv, FdsBelow, FdKinds
<1>10. Linked'
  BY <1>4, <1>6, <1>7 DEF LoopInv, Linked, CountInv
<1>12. InPass'
  <2>1. slot \in 1 .. Slots
    BY Bounds DEF LoopInv, PassType, Begin, Reached
  <2> QED BY <1>7, <2>1 DEF InPass
<1>11. Covered'
  <2>1. SUFFICES ASSUME NEW i \in 1 .. Slots, slots[i] # NULL
                 PROVE  /\ "read" \in src'[slots[i]].cbs => src'[slots[i]].fds["read"] \subseteq master.fds["read"]
                        /\ "write" \in src'[slots[i]].cbs =>
                              \A fd \in src'[slots[i]].fds["write"] :
                                 fd \in master.fds["write"] \/ (Pending(i)' /\ fd \in ready["write"])
    BY <1>7 DEF Covered
  <2>2. slots[i] \in Sources
    BY <2>1 DEF LoopInv, CountInv
  <2>3. Pending(i) => Pending(i)' \/ (i = slot /\ phase = "write")
    <3>1. phase' = phase /\ slot' = slot
      BY <1>7
    <3> QED BY <3>1 DEF Pending
  <2>4. CASE slots[i] = s
    <3>1. "write" \in src[s].cbs =>
             \A fd \in W : fd \in master.fds["write"] \/ (Pending(i)' /\ fd \in ready["write"])
      BY <1>4, <1>5, <2>1, <2>3, <2>4 DEF LoopInv, Covered, Pending
    <3> QED BY <1>4, <1>6, <2>1, <2>2, <2>4, <3>1 DEF LoopInv, Covered
  <2>5. CASE slots[i] # s
    <3>1. src'[slots[i]] = src[slots[i]] /\ i # slot
      BY <1>6, <1>7, <2>2, <2>5
    <3> QED BY <2>1, <2>3, <3>1 DEF LoopInv, Covered
  <2> QED BY <2>4, <2>5
<1> QED BY <1>8, <1>9, <1>10, <1>11, <1>12

\* A callback returns.
LEMMA ReturnLoop ==
    ASSUME LoopInv, NEW err \in BOOLEAN, Return(err)
    PROVE  PassType' /\ FdsBelow' /\ Linked' /\ InPass' /\ Covered'
<1>1. /\ running # NULL /\ running' = NULL /\ call' = "none" /\ slot' = slot + 1
      /\ UNCHANGED <<sourceVars, loopRefs, active, phase, left, ready, cb>>
  BY DEF Return
<1>2. running \in Sources /\ src \in [Sources -> Timer] /\ master \in Timer
  BY <1>1 DEF LoopInv, PassType
<1>3. master' \in Timer /\ master'.fds = master.fds
  BY <1>2, RearmDoes DEF Return
<1>4. ops' \in 0 .. MaxOps
  BY Bounds DEF LoopInv, PassType, Return
<1>5. fault' \in BOOLEAN /\ failed' \in BOOLEAN /\ readable' \subseteq Fds
  BY DEF LoopInv, PassType, Return
<1>6. slot' \in 1 .. Slots + 1
  BY <1>1, Bounds DEF LoopInv, InPass
<1>7. PassType'
  BY <1>1, <1>3, <1>4, <1>5, <1>6 DEF LoopInv, PassType, sourceVars
<1>8. FdsBelow' /\ Linked' /\ InPass' /\ Covered'
  BY <1>1, <1>3, SlotPassed DEF sourceVars
<1> QED BY <1>7, <1>8

\* The end of a pass: the writes, the next round or the end of the loop.
LEMMA DoneLoop ==
    ASSUME LoopInv, Done
    PROVE  PassType' /\ FdsBelow' /\ Linked' /\ InPass' /\ Covered'
<1> DEFINE off == IF phase # "timeout" /\ ~cb THEN {phase} ELSE {}
           W == Restart(master).fds["write"] \ Below(ready["write"], master)
<1>0. master \in Timer
  BY DEF LoopInv, PassType
<1>1. /\ phase \in Kinds /\ running = NULL /\ slot = Slots + 1
      /\ UNCHANGED <<sourceVars, loopRefs, readable, ops, fault>>
  BY DEF Done
<1>2. off \in SUBSET Kinds
  BY <1>1
<1>3. 1 \in 1 .. Slots + 1 /\ 0 \in 0 .. 2 * MaxAge
  BY Bounds
<1>4. CASE phase = "read" /\ Passes("write", ready["write"])
  <2>1. /\ phase' = "write" /\ slot' = 1 /\ cb' = FALSE
        /\ master' = [Restart(master) EXCEPT !.cbs = @ \ off, !.fds["write"] = W]
        /\ UNCHANGED <<active, left, ready, running, call, failed>>
    BY <1>4 DEF Done
  <2>2. /\ Restart(master) \in Timer /\ Restart(master).fds = master.fds
    BY <1>0, RestartDoes
  <2>3. W \in SUBSET Fds
    BY <2>2, TimerFields DEF FdKinds
  <2>4. /\ master' \in Timer /\ master'.fds["read"] = Restart(master).fds["read"]
        /\ master'.fds["write"] = W
    <3> HIDE DEF W, off
    <3>1. master' = Rewritten(Restart(master), off, W)
      BY <2>1 DEF Rewritten
    <3> QED BY <2>2, <2>3, <3>1, SwitchedWrites
  <2>5. PassType'
    BY <1>1, <1>3, <2>1, <2>4 DEF LoopInv, PassType, sourceVars, Phases
  <2>6. \A fd \in master.fds["write"] : fd \in master'.fds["write"] \/ fd \in ready'["write"]
    BY <2>1, <2>2, <2>4 DEF Below
  <2>7. master.fds["read"] \subseteq master'.fds["read"]
    BY <2>2, <2>4
  <2> QED BY <1>1, <2>1, <2>5, <2>6, <2>7, WritesHandedOut DEF sourceVars
<1>5. CASE ~(phase = "read" /\ Passes("write", ready["write"]))
  <2>1. master' = [master EXCEPT !.cbs = @ \ off] /\ Loop(failed)
    BY <1>5 DEF Done
  <2>2. master' \in Timer /\ master'.fds = master.fds
    <3> HIDE DEF off
    <3>1. master' = Silenced(master, off)
      BY <2>1 DEF Silenced
    <3> QED BY <1>0, <3>1, SwitchedOff
  <2>3. PassType'
    BY <1>1, <1>3, <2>1, <2>2 DEF LoopInv, PassType, sourceVars, Loop, Phases, NoFds
  <2>4. InPass'
    BY <1>1, <2>1 DEF InPass, Loop
  <2>5. \A i \in 1 .. Slots : ~Pending(i)
    BY <1>1, Bounds DEF Pending
  <2> QED BY <1>1, <2>2, <2>3, <2>4, <2>5, NothingAsked DEF sourceVars
<1> QED BY <1>4, <1>5

\* Time passes and data arrives.
LEMMA EnvironmentLoop ==
    ASSUME LoopInv, Tick \/ \E fd \in Fds : Arrive(fd)
    PROVE  PassType' /\ FdsBelow' /\ Linked' /\ InPass' /\ Covered'
<1>0. src \in [Sources -> Timer] /\ master \in Timer
  BY DEF LoopInv, PassType
<1>1. CASE Tick
  <2>1. /\ master' = Older(master) /\ src' = [s \in Sources |-> Older(src[s])]
        /\ left' = IF left > 0 THEN left - 1 ELSE 0
        /\ UNCHANGED <<slots, loopRefs, active, phase, ready, slot, cb, running, call, failed, readable, ops, fault>>
    BY <1>1 DEF Tick
  <2>2. master' \in Timer /\ master'.fds = master.fds
    BY <1>0, <2>1, OlderDoes
  <2>3. /\ src' \in [Sources -> Timer]
        /\ \A s \in Sources :
              /\ src'[s].fds = src[s].fds /\ src'[s].nfds = src[s].nfds
              /\ src'[s].loop = src[s].loop /\ src'[s].cbs = src[s].cbs
    BY <1>0, <2>1, OlderDoes
  <2>4. left' \in 0 .. 2 * MaxAge
    BY <2>1, Bounds DEF LoopInv, PassType
  <2>5. PassType' 
    BY <2>1, <2>2, <2>3, <2>4 DEF LoopInv, PassType
  <2>6. InPass' /\ \A i \in 1 .. Slots : Pending(i) => Pending(i)' /\ ready' = ready
    BY <2>1 DEF LoopInv, InPass, Pending
  <2> QED BY <2>1, <2>2, <2>3, <2>5, <2>6, NothingAsked
<1>2. CASE \E fd \in Fds : Arrive(fd)
  BY <1>2 DEF LoopInv, PassType, FdsBelow, Linked, InPass, Covered, Pending, Arrive, sourceVars, passVars
<1> QED BY <1>1, <1>2

\* The initial state.
LEMMA InitLoop == Init => PassType /\ FdsBelow /\ Linked /\ InPass /\ Covered
<1> SUFFICES ASSUME Init PROVE PassType /\ FdsBelow /\ Linked /\ InPass /\ Covered
  OBVIOUS
<1>1. NoFds \in [read: SUBSET Fds, write: SUBSET Fds] /\ \A k \in FdKinds : NoFds[k] = {}
  BY DEF NoFds, FdKinds
<1>2. 0 \in 0 .. NumFds /\ 0 \in 0 .. MaxAge /\ MaxAge \in 0 .. MaxAge /\ 1 \in 1 .. Slots + 1
      /\ 0 \in 0 .. 2 * MaxAge /\ 0 \in 0 .. MaxOps
  BY Bounds
<1>3. src \in [Sources -> Timer] /\ \A s \in Sources : src[s].fds = NoFds
  <2>1. \A s \in Sources : Delegates[s] \in SUBSET Kinds
    BY DelegatesAssumption
  <2>2. src = [s \in Sources |->
                [fds |-> NoFds, nfds |-> 0, time |-> 0, age |-> MaxAge,
                 cbs |-> Delegates[s], loop |-> FALSE]]
    BY DEF Init
  <2>3. \A s \in Sources : [fds |-> NoFds, nfds |-> 0, time |-> 0, age |-> MaxAge,
                 cbs |-> Delegates[s], loop |-> FALSE] \in Timer
    BY <1>1, <1>2, <2>1 DEF Timer
  <2> QED BY <2>2, <2>3
<1>4. master \in Timer
  BY <1>1, <1>2 DEF Init, Timer
<1>5. PassType
  BY <1>1, <1>2, <1>3, <1>4 DEF Init, PassType, Phases
<1>6. FdsBelow
  BY <1>1, <1>3 DEF FdsBelow
<1>7. Linked /\ InPass /\ Covered
  BY DEF Init, Linked, InPass, Covered
<1> QED BY <1>5, <1>6, <1>7

\* The inductive invariant holds, whatever the callbacks schedule, clear, add,
\* remove and release in the middle of a pass.
THEOREM LoopInvariant == Spec => []LoopInv
<1>1. Init => LoopInv
  BY InitHolds, InitLoop DEF LoopInv
<1>2. LoopInv /\ [Next]_vars => LoopInv'
  <2> SUFFICES ASSUME LoopInv, [Next]_vars PROVE LoopInv'
    OBVIOUS
  <2>1. CountInv'
    BY NextHolds DEF LoopInv
  <2>2. CASE Application
    BY <2>1, <2>2, ApplicationLoop DEF LoopInv
  <2>3. CASE Running
    BY <2>1, <2>3, WaitLoop, SelectLoop, SkipLoop, DoneLoop, BeginLoop, ReturnLoop DEF LoopInv, Running
  <2>4. CASE Return(TRUE) \/ Interrupt
    BY <2>1, <2>4, WaitLoop, ReturnLoop DEF LoopInv
  <2>5. CASE Tick \/ \E fd \in Fds : Arrive(fd)
    BY <2>1, <2>5, EnvironmentLoop DEF LoopInv
  <2>6. CASE UNCHANGED vars
    BY <2>1, <2>6 DEF LoopInv, PassType, FdsBelow, Linked, InPass, Covered, Pending, vars
  <2> QED BY <2>2, <2>3, <2>4, <2>5, <2>6 DEF Next
<1> QED BY <1>1, <1>2, PTL DEF Spec

AwaitedType == awaited \subseteq Sources

\* What was scheduled and has not come is of the application's sources.
LEMMA NextAwaits == AwaitedType /\ [Next]_vars => AwaitedType'
<1> SUFFICES ASSUME awaited \subseteq Sources, [Next]_vars PROVE awaited' \subseteq Sources
  BY DEF AwaitedType
<1>1. CASE Application
  <2>1. CASE \E s \in Sources, fd \in Fds :
                \/ MIDIRunloopSourceScheduleRead(s, fd)
                \/ MIDIRunloopSourceClearRead(s, fd)
                \/ MIDIRunloopSourceScheduleWrite(s, fd)
                \/ MIDIRunloopSourceClearWrite(s, fd)
    BY <2>1 DEF MIDIRunloopSourceScheduleRead, MIDIRunloopSourceClearRead,
                MIDIRunloopSourceScheduleWrite, MIDIRunloopSourceClearWrite, Schedule, Clear
  <2>2. CASE \E s \in Sources, time \in Times : MIDIRunloopSourceScheduleTimeout(s, time)
    BY <2>2 DEF MIDIRunloopSourceScheduleTimeout
  <2>3. CASE \E s \in Sources :
                \/ MIDIRunloopSourceClearTimeout(s)
                \/ MIDIRunloopAddSource(s)
                \/ MIDIRunloopRemoveSource(s)
                \/ MIDIRunloopSourceInvalidate(s)
                \/ MIDIRunloopSourceRetain(s)
                \/ MIDIRunloopSourceRelease(s)
    BY <2>3 DEF MIDIRunloopSourceClearTimeout, MIDIRunloopAddSource, MIDIRunloopRemoveSource,
                MIDIRunloopSourceInvalidate, MIDIRunloopSourceRetain, MIDIRunloopSourceRelease
  <2>4. CASE MIDIRunloopRelease \/ MIDIRunloopStart \/ MIDIRunloopStep \/ MIDIRunloopStop
    BY <2>4 DEF MIDIRunloopRelease, MIDIRunloopStart, MIDIRunloopStep, MIDIRunloopStop
  <2> QED BY <1>1, <2>1, <2>2, <2>3, <2>4 DEF Application
<1>2. CASE Running \/ Return(TRUE)
  BY <1>2 DEF Running, Wait, Select, Elapse, Skip, Done, Begin, Return
<1>3. CASE Interrupt \/ Tick \/ \E fd \in Fds : Arrive(fd)
  BY <1>3 DEF Interrupt, Tick, Arrive
<1> QED BY <1>1, <1>2, <1>3 DEF Next, vars

\* The variables keep their types: no counter falls below zero, the pass stays
\* within the slots and the descriptors within the sets given to select.
THEOREM TypeCorrect == Spec => []TypeOK
<1>1. LoopInv /\ AwaitedType => TypeOK
  <2> SUFFICES ASSUME LoopInv, AwaitedType PROVE TypeOK
    OBVIOUS
  <2>1. refs \in [Sources -> Nat]
    <3>1. \A s \in Sources : refs[s] \in Nat
      BY Counts DEF LoopInv
    <3> QED BY <3>1 DEF LoopInv, CountInv
  <2> QED BY <2>1 DEF LoopInv, CountInv, PassType, AwaitedType, TypeOK
<1>2. Init => AwaitedType
  BY DEF Init, AwaitedType
<1>3. AwaitedType /\ [Next]_vars => AwaitedType'
  BY NextAwaits
<1> QED BY <1>1, <1>2, <1>3, LoopInvariant, PTL DEF Spec

\* The master has what each source in a slot has scheduled: a source that clears
\* a descriptor, is removed or has its writes handed out takes nothing from
\* another one (midi/runloop.c:641-776).
THEOREM SubscribedCorrect == Spec => []Subscribed
<1>1. LoopInv => Subscribed
  <2> SUFFICES ASSUME LoopInv, NEW i \in 1 .. Slots, NEW kind \in {"read", "write"},
                      slots[i] # NULL, kind \in src[slots[i]].cbs
               PROVE  Below(src[slots[i]].fds[kind], src[slots[i]])
                         \subseteq master.fds[kind]
                            \cup (IF phase = "write" /\ slot <= i THEN ready[kind] ELSE {})
    BY DEF Subscribed
  <2>1. Pending(i) => phase = "write" /\ slot <= i
    <3>1. slot \in Nat /\ i \in Nat
      BY Bounds DEF LoopInv, PassType
    <3> QED BY <3>1 DEF Pending
  <2> QED BY <2>1 DEF LoopInv, Covered, Below
<1> QED BY <1>1, LoopInvariant, PTL
=============================================================================
