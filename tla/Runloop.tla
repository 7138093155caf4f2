------------------------------ MODULE Runloop ------------------------------
(* The runloop of midi/runloop.c: sources with descriptor sets and a timeout,
   the master source that stands for all of them, and the loop that waits on
   the master and hands what happened to the sources in its slots. The callback
   of a source is application code: it may schedule, clear, add, remove and
   stop in the middle of a pass over the slots.

   The times in the code are absolute. Here a timer is the time since its
   start, "age", counted up to MaxAge. Time passes while the loop waits, while
   nobody runs, and after a pass (the time its callbacks took). *)
EXTENDS Integers, FiniteSets

CONSTANTS
    Sources,    \* the sources the application creates
    Delegates,  \* the callbacks each of them has: subsets of Kinds
    NumFds,     \* descriptors are 0 .. NumFds - 1
    Slots,      \* MAX_RUNLOOP_SOURCES
    Times,      \* the timeouts the application asks for
    MaxAge,     \* a timer counts up to this
    Ops,        \* what the application does from outside of the loop
    Reentrant,  \* what it does from callbacks
    MaxOps,     \* how many calls it makes
    NULL

Kinds == {"read", "write", "timeout"}
Fds == 0 .. NumFds - 1

ASSUME SlotsAssumption == Slots \in Nat \ {0}
ASSUME SourcesAssumption == NULL \notin Sources
ASSUME DelegatesAssumption == Delegates \in [Sources -> SUBSET Kinds]
ASSUME BoundsAssumption ==
    /\ NumFds \in Nat /\ MaxAge \in Nat \ {0} /\ MaxOps \in Nat
    /\ Times \subseteq 0 .. MaxAge - 1

VARIABLES
    src,      \* [Sources -> Timer]: the fields of each source
    refs,     \* its reference count; a source with none is freed
    held,     \* the references the application owns
    slots,    \* runloop->sources
    master,   \* runloop->master, a source itself
    loopRefs, \* references of the runloop
    active,   \* runloop->active
    phase,    \* where MIDIRunloopStart is, see Phases
    left,     \* how long select or nanosleep still waits
    ready,    \* the descriptors select returned
    slot,     \* the slot the pass is at
    cb,       \* whether the pass met a source with its callback
    running,  \* the source whose callback runs, or NULL
    call,     \* which of its callbacks
    failed,   \* whether a callback of this step returned an error
    readable, \* descriptors with data, the state of the sockets
    ops,      \* calls made so far
    fault,    \* freed memory was used, the model stops
    awaited   \* history: the sources whose timeout was scheduled and has not come since

vars == <<src, refs, held, slots, master, loopRefs, active, phase, left, ready,
          slot, cb, running, call, failed, readable, ops, fault, awaited>>
sourceVars == <<src, refs, held, slots>>
passVars == <<phase, left, ready, slot, cb, running, call, failed>>

Phases == {"out", "step", "wait", "read", "write", "timeout"}
NoFds == [read |-> {}, write |-> {}]
Larger(a, b) == IF a > b THEN a ELSE b
Smaller(a, b) == IF a < b THEN a ELSE b

Timer == [fds: [read: SUBSET Fds, write: SUBSET Fds], nfds: 0 .. NumFds,
          time: 0 .. MaxAge, age: 0 .. MaxAge, cbs: SUBSET Kinds, loop: BOOLEAN]

SlotsOf(t, s) == {i \in 1 .. Slots : t[i] = s}
Member(s) == SlotsOf(slots, s) # {}
FreeSlots == SlotsOf(slots, NULL)
First(S) == CHOOSE i \in S : \A j \in S : i <= j

\* the descriptors below nfds: all that the code's loops look at
Below(fds, t) == {fd \in fds : fd < t.nfds}
Expired(t) == t.time # 0 /\ t.age > t.time
Restart(t) == [t EXCEPT !.age = 0]

\* now + timeout_time - timeout_start
Remain(t) == IF t.time = 0 THEN 0 ELSE t.age + t.time

Init ==
    /\ src = [s \in Sources |->
                [fds |-> NoFds, nfds |-> 0, time |-> 0, age |-> MaxAge,
                 cbs |-> Delegates[s], loop |-> FALSE]]
    /\ refs = [s \in Sources |-> 1]
    /\ held = [s \in Sources |-> 1]
    /\ slots = [i \in 1 .. Slots |-> NULL]
    /\ master = [fds |-> NoFds, nfds |-> 0, time |-> 0, age |-> 0, cbs |-> {}, loop |-> FALSE]
    /\ loopRefs = 1
    /\ active = FALSE
    /\ phase = "out" /\ left = 0 /\ ready = NoFds /\ slot = 1
    /\ cb = FALSE /\ running = NULL /\ call = "none" /\ failed = FALSE
    /\ readable = {}
    /\ ops = 0
    /\ fault = FALSE
    /\ awaited = {}

\* The application calls op: from outside, or from a callback.
Call(op) ==
    /\ ~fault /\ ops < MaxOps
    /\ \/ phase = "out" /\ op \in Ops
       \/ running # NULL /\ op \in Reentrant
    /\ ops' = ops + 1

\* A call on a source of the application that goes on to its runloop.
CallSource(op, s) ==
    /\ Call(op)
    /\ held[s] > 0
    /\ fault' = (src[s].loop /\ loopRefs = 0)

(* ---- sources and their runloop ---- *)

\* Mutant of Watch: one too many.
Watch_OffByOne(t, kind, fd) ==
    [t EXCEPT !.fds[kind] = @ \cup {fd}, !.nfds = Larger(@, fd + 2), !.cbs = @ \cup {kind}]

\* _runloop_schedule_read, _runloop_schedule_write
Watch(t, kind, fd) ==
    [t EXCEPT !.fds[kind] = @ \cup {fd}, !.nfds = Larger(@, fd + 1), !.cbs = @ \cup {kind}]

\* Mutant of Unwatch: the other sources are not asked.
Unwatch_Selfish(t, kind, fd, after) ==
    [t EXCEPT !.fds[kind] = @ \ {fd}, !.nfds = IF fd = @ - 1 THEN fd ELSE @]

\* _runloop_clear_read, _runloop_clear_write: sees the sources after the call
Unwatch(t, kind, fd, after) ==
    IF \E i \in 1 .. Slots : slots[i] # NULL /\ fd \in after[slots[i]].fds[kind]
    THEN t
    ELSE [t EXCEPT !.fds[kind] = @ \ {fd}, !.nfds = IF fd = @ - 1 THEN fd ELSE @]

\* _runloop_schedule_timeout: the master keeps the shortest timeout it was given
Shorten(t, time) ==
    IF time # 0 /\ (t.time = 0 \/ time < t.time) THEN [t EXCEPT !.time = time, !.age = 0] ELSE t

Arm(t, time) ==
    IF time = 0 THEN t ELSE [Shorten(t, time) EXCEPT !.cbs = @ \cup {"timeout"}]

\* Mutant of Update: the master is not given the callback for timeouts.
Update_NoTimeout(t, s) ==
    [Shorten(t, s.time) EXCEPT
        !.fds = [k \in {"read", "write"} |-> @[k] \cup Below(s.fds[k], s)],
        !.nfds = Larger(@, s.nfds),
        !.cbs = @ \cup (s.cbs \ {"timeout"})]

\* _runloop_update_from_source
Update(t, s) ==
    [Shorten(t, s.time) EXCEPT
        !.fds = [k \in {"read", "write"} |-> @[k] \cup Below(s.fds[k], s)],
        !.nfds = Larger(@, s.nfds),
        !.cbs = @ \cup s.cbs]

Schedule(kind, s, fd) ==
    /\ CallSource("schedule", s)
    /\ kind \in Delegates[s]
    /\ src' = [src EXCEPT ![s].fds[kind] = @ \cup {fd}, ![s].nfds = Larger(@, fd + 1)]
    /\ master' = IF src[s].loop THEN Watch(master, kind, fd) ELSE master
    /\ UNCHANGED <<refs, held, slots, loopRefs, active, passVars, readable, awaited>>

Clear(kind, s, fd) ==
    /\ CallSource("clear", s)
    /\ kind \in Delegates[s]
    /\ src' = [src EXCEPT ![s].fds[kind] = @ \ {fd}]
    /\ master' = IF src[s].loop THEN Unwatch(master, kind, fd, src') ELSE master
    /\ UNCHANGED <<refs, held, slots, loopRefs, active, passVars, readable, awaited>>

MIDIRunloopSourceScheduleRead(s, fd) == Schedule("read", s, fd)
MIDIRunloopSourceClearRead(s, fd) == Clear("read", s, fd)
MIDIRunloopSourceScheduleWrite(s, fd) == Schedule("write", s, fd)
MIDIRunloopSourceClearWrite(s, fd) == Clear("write", s, fd)

\* An empty timeout is one unit in the source, but empty for the runloop.
MIDIRunloopSourceScheduleTimeout(s, time) ==
    /\ CallSource("timeout", s)
    /\ "timeout" \in Delegates[s]
    /\ src' = [src EXCEPT ![s].time = Larger(time, 1), ![s].age = 0]
    /\ master' = IF src[s].loop THEN Arm(master, time) ELSE master
    /\ awaited' = awaited \cup {s}
    /\ UNCHANGED <<refs, held, slots, loopRefs, active, passVars, readable>>

MIDIRunloopSourceClearTimeout(s) ==
    /\ Call("clear")
    /\ held[s] > 0 /\ "timeout" \in Delegates[s]
    /\ src' = [src EXCEPT ![s].time = 0]
    /\ awaited' = awaited \ {s}
    /\ UNCHANGED <<refs, held, slots, master, loopRefs, active, passVars, readable, fault>>

MIDIRunloopAddSource(s) ==
    /\ Call("add")
    /\ held[s] > 0 /\ loopRefs > 0 /\ src[s].cbs = Delegates[s]
    /\ IF FreeSlots = {}
       THEN UNCHANGED <<src, refs, slots, master>>
       ELSE /\ slots' = [slots EXCEPT ![First(FreeSlots)] = s]
            /\ src' = [src EXCEPT ![s].loop = TRUE]
            /\ refs' = [refs EXCEPT ![s] = @ + 1]
            /\ master' = Update(master, src[s])
    /\ UNCHANGED <<held, loopRefs, active, passVars, readable, fault, awaited>>

\* Mutant of Unslot: the source is not released.
Unslot_NoRelease(s) ==
    IF Member(s)
    THEN slots' = [slots EXCEPT ![First(SlotsOf(slots, s))] = NULL] /\ UNCHANGED refs
    ELSE UNCHANGED <<slots, refs>>

\* The first slot of s becomes free. The source keeps its pointer to the
\* runloop, and the master keeps the source's descriptors.
Unslot(s) ==
    IF Member(s)
    THEN /\ slots' = [slots EXCEPT ![First(SlotsOf(slots, s))] = NULL]
         /\ refs' = [refs EXCEPT ![s] = @ - 1]
    ELSE UNCHANGED <<slots, refs>>

MIDIRunloopRemoveSource(s) ==
    /\ Call("remove")
    /\ held[s] > 0 /\ loopRefs > 0
    /\ Unslot(s)
    /\ UNCHANGED <<src, held, master, loopRefs, active, passVars, readable, fault, awaited>>

MIDIRunloopSourceInvalidate(s) ==
    /\ CallSource("invalidate", s)
    /\ src' = [src EXCEPT ![s].cbs = {}]
    /\ IF src[s].loop /\ loopRefs > 0 THEN Unslot(s) ELSE UNCHANGED <<slots, refs>>
    /\ UNCHANGED <<held, master, loopRefs, active, passVars, readable, awaited>>

MIDIRunloopSourceRetain(s) ==
    /\ Call("retain")
    /\ held[s] > 0
    /\ held' = [held EXCEPT ![s] = @ + 1]
    /\ refs' = [refs EXCEPT ![s] = @ + 1]
    /\ UNCHANGED <<src, slots, master, loopRefs, active, passVars, readable, fault, awaited>>

MIDIRunloopSourceRelease(s) ==
    /\ Call("release")
    /\ held[s] > 0
    /\ held' = [held EXCEPT ![s] = @ - 1]
    /\ refs' = [refs EXCEPT ![s] = @ - 1]
    /\ UNCHANGED <<src, slots, master, loopRefs, active, passVars, readable, fault, awaited>>

\* The last reference: MIDIRunloopDestroy tells and releases who is in a slot.
MIDIRunloopRelease ==
    /\ Call("releaseLoop")
    /\ phase = "out" /\ loopRefs > 0
    /\ loopRefs' = loopRefs - 1
    /\ IF loopRefs = 1
       THEN /\ slots' = [i \in 1 .. Slots |-> NULL]
            /\ refs' = [s \in Sources |-> refs[s] - Cardinality(SlotsOf(slots, s))]
            /\ src' = [s \in Sources |-> IF Member(s) THEN [src[s] EXCEPT !.loop = FALSE] ELSE src[s]]
       ELSE UNCHANGED <<slots, refs, src>>
    /\ UNCHANGED <<held, master, active, passVars, readable, fault, awaited>>

(* ---- the loop ---- *)

MIDIRunloopStart ==
    /\ Call("start")
    /\ phase = "out" /\ loopRefs > 0
    /\ active' = TRUE /\ phase' = "step" /\ failed' = FALSE
    /\ UNCHANGED <<sourceVars, master, loopRefs, left, ready, slot, cb, running, call, readable, fault, awaited>>

\* One step without the loop: active stays as it is.
MIDIRunloopStep ==
    /\ Call("step")
    /\ phase = "out" /\ loopRefs > 0
    /\ phase' = "step" /\ failed' = FALSE
    /\ UNCHANGED <<sourceVars, master, loopRefs, active, left, ready, slot, cb, running, call, readable, fault, awaited>>

MIDIRunloopStop ==
    /\ Call("stop")
    /\ loopRefs > 0
    /\ active' = FALSE
    /\ UNCHANGED <<sourceVars, master, loopRefs, passVars, readable, fault, awaited>>

\* Mutant of Loop: the loop ends only with an error.
Loop_Forever(err) ==
    /\ active' = (active /\ ~err)
    /\ phase' = IF ~err THEN "step" ELSE "out"
    /\ failed' = FALSE /\ ready' = NoFds /\ slot' = 1 /\ cb' = FALSE /\ left' = 0
    /\ UNCHANGED <<running, call>>

\* The step returned err: MIDIRunloopStart goes on, or returns.
Loop(err) ==
    /\ active' = (active /\ ~err)
    /\ phase' = IF active' THEN "step" ELSE "out"
    /\ failed' = FALSE /\ ready' = NoFds /\ slot' = 1 /\ cb' = FALSE /\ left' = 0
    /\ UNCHANGED <<running, call>>

\* The pass of one kind over the slots begins: the master's own timer restarts
\* and a write is forgotten, before the delegate of the master runs.
Enter(kind) ==
    /\ phase' = kind /\ slot' = 1 /\ cb' = FALSE
    /\ master' = [Restart(master) EXCEPT
                    !.fds["write"] = IF kind = "write" THEN @ \ Below(ready'["write"], master) ELSE @]
    /\ UNCHANGED <<left, running, call>>

\* _runloop_source_timeout of the master
Timeout ==
    IF "timeout" \in master.cbs
    THEN Enter("timeout") /\ UNCHANGED <<ready, failed, active>>
    ELSE Loop(FALSE) /\ UNCHANGED master

\* MIDIRunloopSourceWait up to select, nanosleep, the timeout or the end
Wait ==
    /\ ~fault /\ phase = "step"
    /\ IF Expired(master) THEN Timeout
       ELSE /\ UNCHANGED <<master, active>>
            /\ IF master.nfds > 0 \/ master.time # 0
               THEN /\ phase' = "wait" /\ left' = Remain(master)
                    /\ UNCHANGED <<ready, slot, cb, running, call, failed>>
               ELSE /\ phase' = IF active THEN "step" ELSE "out"
                    /\ UNCHANGED <<left, ready, slot, cb, running, call, failed>>
    /\ UNCHANGED <<sourceVars, loopRefs, readable, ops, fault, awaited>>

\* The reads or writes of the master happen only with a delegate and something
\* below nfds, as it is now: a callback may have changed both.
Passes(kind, fds) == kind \in master.cbs /\ Below(fds, master) # {}

\* select returns descriptors: those with data, and some that can be written.
Select ==
    /\ ~fault /\ phase = "wait" /\ master.nfds > 0
    /\ \E writable \in SUBSET Below(master.fds["write"], master) :
        /\ ready' = [read |-> Below(master.fds["read"], master) \cap readable, write |-> writable]
        /\ ready' # NoFds
        /\ CASE Passes("read", ready'["read"]) -> Enter("read") /\ UNCHANGED <<active, failed>>
             [] ~Passes("read", ready'["read"]) /\ Passes("write", writable) ->
                    Enter("write") /\ UNCHANGED <<active, failed>>
             [] OTHER -> /\ phase' = IF active THEN "step" ELSE "out"
                         /\ left' = 0
                         /\ UNCHANGED <<master, active, failed, slot, cb, running, call>>
    /\ UNCHANGED <<sourceVars, loopRefs, readable, ops, fault, awaited>>

\* select or nanosleep is over without a descriptor
Elapse ==
    /\ ~fault /\ phase = "wait"
    /\ left = 0
    /\ Below(master.fds["read"], master) \cap readable = {}
    /\ Timeout
    /\ UNCHANGED <<sourceVars, loopRefs, readable, ops, fault, awaited>>

\* A signal ends select or nanosleep: the same as a timeout.
Interrupt ==
    /\ ~fault /\ phase = "wait" /\ "interrupt" \in Ops
    /\ ops < MaxOps /\ ops' = ops + 1
    /\ Timeout
    /\ UNCHANGED <<sourceVars, loopRefs, readable, fault, awaited>>

(* ---- the pass over the slots ---- *)

Reached(s) == running = NULL /\ slot <= Slots /\ slots[slot] = s

\* Mutant of Due: a timer that runs comes before the data.
Due_TimeoutFirst(s) ==
    IF src[s].time # 0 /\ "timeout" \in src[s].cbs THEN "timeout"
    ELSE IF phase \in src[s].cbs /\ phase # "timeout" /\ Below(src[s].fds[phase], src[s]) \cap ready[phase] # {}
    THEN phase ELSE "none"

\* What the code calls for the source at the slot; "none" if nothing.
Due(s) ==
    IF phase \in src[s].cbs /\ phase # "timeout" /\ Below(src[s].fds[phase], src[s]) \cap ready[phase] # {}
    THEN phase
    ELSE IF Expired(src[s]) /\ "timeout" \in src[s].cbs THEN "timeout" ELSE "none"

\* _runloop_master_timeout sets the master's delegates from each source.
Rearm(t, s) == IF phase = "timeout" THEN [t EXCEPT !.cbs = @ \cup (src[s].cbs \ {"timeout"})] ELSE t

Skip ==
    /\ ~fault /\ phase \in Kinds /\ running = NULL /\ slot <= Slots
    /\ \/ slots[slot] = NULL /\ UNCHANGED <<cb, master>>
       \/ \E s \in Sources : /\ Reached(s) /\ Due(s) = "none"
                             /\ cb' = (cb \/ phase \in src[s].cbs)
                             /\ master' = Rearm(master, s)
    /\ slot' = slot + 1
    /\ UNCHANGED <<sourceVars, loopRefs, active, phase, left, ready, running, call, failed, readable, ops, fault, awaited>>

\* The callback begins. A write is scheduled for one time only.
Begin(s) ==
    /\ ~fault /\ phase \in Kinds /\ Reached(s) /\ Due(s) # "none"
    /\ src' = [src EXCEPT ![s] =
                [Restart(src[s]) EXCEPT
                    !.fds["write"] = IF Due(s) = "write" THEN @ \ Below(ready["write"], src[s]) ELSE @]]
    /\ cb' = (cb \/ phase \in src[s].cbs)
    /\ running' = s /\ call' = Due(s)
    /\ awaited' = IF Due(s) = "timeout" THEN awaited \ {s} ELSE awaited
    /\ UNCHANGED <<refs, held, slots, master, loopRefs, active, phase, left, ready, slot, failed, readable, ops, fault>>

\* The callback returns; a read callback took the data of its descriptors. A
\* timeout pass goes on to read the source, which may be freed by now.
Return(err) ==
    /\ ~fault /\ running # NULL
    /\ err => "fail" \in Reentrant /\ ops < MaxOps
    /\ ops' = IF err THEN ops + 1 ELSE ops
    /\ failed' = (failed \/ err)
    /\ fault' = (phase = "timeout" /\ refs[running] = 0)
    /\ master' = IF fault' THEN master ELSE Rearm(master, running)
    /\ readable' = IF call = "read" THEN readable \ (src[running].fds["read"] \cap ready["read"]) ELSE readable
    /\ running' = NULL /\ call' = "none"
    /\ slot' = slot + 1
    /\ UNCHANGED <<sourceVars, loopRefs, active, phase, left, ready, cb, awaited>>

\* The end of a pass. A pass that met no source with its callback switches the
\* master's off; the writes come after the reads.
Done ==
    /\ ~fault /\ phase \in Kinds /\ running = NULL /\ slot = Slots + 1
    /\ LET off == IF phase # "timeout" /\ ~cb THEN {phase} ELSE {} IN
       IF phase = "read" /\ Passes("write", ready["write"])
       THEN /\ phase' = "write" /\ slot' = 1 /\ cb' = FALSE
            /\ master' = [Restart(master) EXCEPT !.cbs = @ \ off,
                                !.fds["write"] = @ \ Below(ready["write"], master)]
            /\ UNCHANGED <<active, left, ready, running, call, failed>>
       ELSE /\ master' = [master EXCEPT !.cbs = @ \ off]
            /\ Loop(failed)
    /\ UNCHANGED <<sourceVars, loopRefs, readable, ops, fault, awaited>>

(* ---- the environment ---- *)

\* Data arrives. Only select looks, so it arrives while the loop waits.
Arrive(fd) ==
    /\ ~fault /\ phase = "wait" /\ fd \notin readable
    /\ readable' = readable \cup {fd}
    /\ UNCHANGED <<sourceVars, master, loopRefs, active, passVars, ops, fault, awaited>>

\* Time passes for all timers. It also passes between the step of the loop
\* before and the next: callbacks are slow, and then the master may have expired
\* before the loop waits again.
Older(t) == [t EXCEPT !.age = Smaller(@ + 1, MaxAge)]
Tick ==
    /\ ~fault
    /\ phase \in {"out", "step"} \/ (phase = "wait" /\ left > 0)
    /\ master' = Older(master)
    /\ src' = [s \in Sources |-> Older(src[s])]
    /\ left' = IF left > 0 THEN left - 1 ELSE 0
    /\ UNCHANGED <<refs, held, slots, loopRefs, active, phase, ready, slot, cb, running, call, failed, readable, ops, fault, awaited>>

Application ==
    \/ \E s \in Sources, fd \in Fds :
        \/ MIDIRunloopSourceScheduleRead(s, fd)
        \/ MIDIRunloopSourceClearRead(s, fd)
        \/ MIDIRunloopSourceScheduleWrite(s, fd)
        \/ MIDIRunloopSourceClearWrite(s, fd)
    \/ \E s \in Sources, time \in Times : MIDIRunloopSourceScheduleTimeout(s, time)
    \/ \E s \in Sources :
        \/ MIDIRunloopSourceClearTimeout(s)
        \/ MIDIRunloopAddSource(s)
        \/ MIDIRunloopRemoveSource(s)
        \/ MIDIRunloopSourceInvalidate(s)
        \/ MIDIRunloopSourceRetain(s)
        \/ MIDIRunloopSourceRelease(s)
    \/ MIDIRunloopRelease
    \/ MIDIRunloopStart
    \/ MIDIRunloopStep
    \/ MIDIRunloopStop

Running ==
    \/ Wait \/ Select \/ Elapse \/ Skip \/ Done
    \/ \E s \in Sources : Begin(s)
    \/ Return(FALSE)

Next ==
    \/ Application
    \/ Running
    \/ Return(TRUE)
    \/ Interrupt
    \/ Tick
    \/ \E fd \in Fds : Arrive(fd)

Spec == Init /\ [][Next]_vars

\* The loop runs as long as it can, and time passes.
FairSpec == Spec /\ WF_vars(Running) /\ SF_vars(Tick)

(* ---- properties ---- *)

\* Type invariant of the sources, the runloop and the pass.
TypeOK ==
    /\ src \in [Sources -> Timer] /\ master \in Timer
    /\ refs \in [Sources -> Nat] /\ held \in [Sources -> Nat] /\ loopRefs \in Nat
    /\ slots \in [1 .. Slots -> Sources \cup {NULL}]
    /\ active \in BOOLEAN /\ cb \in BOOLEAN /\ failed \in BOOLEAN /\ fault \in BOOLEAN
    /\ phase \in Phases /\ slot \in 1 .. Slots + 1 /\ left \in 0 .. 2 * MaxAge
    /\ ready \in [read: SUBSET Fds, write: SUBSET Fds] /\ readable \subseteq Fds
    /\ running \in Sources \cup {NULL} /\ call \in Kinds \cup {"none"} /\ ops \in 0 .. MaxOps
    /\ awaited \subseteq Sources

\* A source is counted once for each of the application's references and each
\* slot (MIDIRunloopAddSource retains, MIDIRunloopRemoveSource and
\* MIDIRunloopDestroy release): a callback that removes sources in the middle of
\* a pass leaves no slot with a freed one.
RefsExact ==
    \A s \in Sources : refs[s] = held[s] + Cardinality(SlotsOf(slots, s))

\* Whatever was scheduled, cleared, added, removed and called in whatever order,
\* the master's sets contain the descriptors of every source in a slot: clearing
\* one source's interest never takes away another's. While a pass hands out
\* writes, the ones of sources it has yet to reach are already forgotten.
Subscribed ==
    \A i \in 1 .. Slots, kind \in {"read", "write"} :
        (slots[i] # NULL /\ kind \in src[slots[i]].cbs) =>
            Below(src[slots[i]].fds[kind], src[slots[i]])
                \subseteq master.fds[kind] \cup (IF phase = "write" /\ slot <= i THEN ready[kind] ELSE {})

\* "The callback will be invoked the next time any of the runloop source's read
\* file descriptors have new data" (midi/runloop.c:368): what a source in a slot
\* has scheduled for reading is among what the loop gives to select.
Watched ==
    \A i \in 1 .. Slots :
        (slots[i] # NULL /\ "read" \in src[slots[i]].cbs) =>
            src[slots[i]].fds["read"] \subseteq Below(master.fds["read"], master)

\* fd has data, and a source in a slot of the running loop reads it.
Heard(s, fd) ==
    /\ active /\ Member(s) /\ "read" \in src[s].cbs
    /\ fd \in src[s].fds["read"] /\ fd \in readable

\* Data reaches the source that reads it, whatever the other sources do in the
\* passes over the slots, as long as the loop comes to wait again and again and
\* the descriptor is among those it waits for. Neither is certain: a loop whose
\* master has expired before each wait never polls (midi/runloop.c:327-330), and
\* a cleared write can take the descriptor from select, see Watched.
ReadServed ==
    []<>(phase = "wait") =>
        \A s \in Sources, fd \in Fds :
            Heard(s, fd) ~> \/ ~Heard(s, fd)
                            \/ fd >= master.nfds
                            \/ running = s /\ call = "read" /\ fd \in ready["read"]

Idles(s) == active /\ Member(s) /\ src[s].time # 0 /\ "timeout" \in src[s].cbs

\* A timeout that was scheduled comes, or the source is called for something else
\* and its timer restarts, although the master has one timer for all the sources,
\* keeps the shortest of their timeouts, and restarts it with each read. An empty
\* timeout leaves a master that runs no timer without one (midi/runloop.c:457-466).
IdleServed ==
    \A s \in Sources :
        Idles(s) /\ s \in awaited /\ master.time # 0
            ~> ~Idles(s) \/ s \notin awaited \/ running = s

\* "The callback will be invoked the next time any of the runloop source's
\* timeout expired. After that the callback will be disabled until this function
\* is called again" (midi/runloop.c:445): without another call the callbacks end.
IdleOnce == \A s \in Sources : <>[](running # s \/ call # "timeout")

\* MIDIRunloopStop, or a callback that fails, ends the loop: from a callback it
\* ends once the pass is over.
Stops == (phase # "out" /\ ~active) ~> (phase = "out")

=============================================================================
