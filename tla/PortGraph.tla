----------------------------- MODULE PortGraph -----------------------------
(* Ports that are connected, pass messages and call the application, and the
   drivers that own some of them (midi/port.c, midi/driver.c). Calls nest: a
   port sends to its targets in turn, a target calls its application, which may
   send, connect, disconnect, invalidate or release in the middle. "stack"
   holds the sends and receipts that are under way. The heap below is PortHeap;
   what it does for a call is over before anything else happens. *)
EXTENDS PortHeap

CONSTANTS
    ModeOf,      \* the mode each port is created with
    Drivers,     \* ports that belong to a driver
    Loopback,    \* of these, the drivers made a loopback
    Careless,    \* does the application connect a port to itself, or an invalid one?
    Ops, Reentrant, MaxOps, \* calls from outside, from callbacks, and how many
    NULL

ASSUME PortsAssumption == NULL \notin Ports /\ Loopback \subseteq Drivers /\ Drivers \subseteq Ports
ASSUME ModeAssumption == ModeOf \in [Ports -> SUBSET {"in", "out", "thru"}]
ASSUME OpsAssumption == MaxOps \in Nat

VARIABLES
    held,       \* references of the application and, to its own port, of the driver
    driverRefs, \* driver->refs
    stack,      \* the sends and receipts under way, the last one on top
    bad,        \* a callback began for a target that is gone
    ops

vars == <<heap, held, driverRefs, stack, bad, ops>>

(* A frame of the stack is a MIDIListApply of _port_apply_send over the list of
   "port", with the source "src", at the entry "next"; "due" are the entries it
   began with and "got" those it handed on. Or it is the callback of "port". *)
Message(fn, p, src, next, due, got) ==
    [fn |-> fn, port |-> p, src |-> src, next |-> next, due |-> due, got |-> got]

Messages == [fn : {"send", "receive", "echo"}, port : Ports, src : Ports \cup {NULL},
             next : Nat, due : SUBSET Nat, got : Seq(Nat)]

Sending(p, src) == Message("send", p, src, FirstId(p), Ids(p), <<>>)
Receiving(p, src) == Message("receive", p, src, 0, {}, <<>>)
Echoing(p, src) == Message("echo", p, src, 0, {}, <<>>)

Push(m) == stack' = Append(stack, m)
Pop == stack' = Front(stack)
Replace(m) == stack' = Append(Front(stack), m)

Idle == crash = "none" /\ calls = <<>>
OnTop(fn) == stack # <<>> /\ Last(stack).fn = fn

Init ==
    /\ refs = [p \in Ports |-> 1] /\ mode = ModeOf /\ list = [p \in Ports |-> <<>>]
    /\ calls = <<>> /\ crash = "none"
    /\ held = [p \in Ports |-> 1]
    /\ driverRefs = [p \in Drivers |-> 1]
    /\ stack = <<>>
    /\ bad = FALSE
    /\ ops = 0

\* A port may be used by whoever has a reference to it, or to its driver, which
\* has one.
Usable(p) == held[p] > 0

\* The references to a port that are its driver's.
DriversOwn(p) == IF p \in Drivers /\ driverRefs[p] > 0 THEN 1 ELSE 0

Asks(op) ==
    /\ Idle /\ ops < MaxOps
    /\ \/ stack = <<>> /\ op \in Ops
       \/ OnTop("receive") /\ op \in Reentrant
    /\ ops' = ops + 1

\* malloc may hand out any entry that nobody remembers.
Remembered == UNION {m.due \cup {m.next} : m \in ToSet(stack)}
NewId == CHOOSE i \in 1 .. (Cardinality(AllIds \cup Remembered) + 1) : i \notin AllIds \cup Remembered

MIDIPortConnect(p, target) ==
    /\ Asks("connect")
    /\ Usable(p) /\ Usable(target)
    /\ Careless \/ (p # target /\ Valid(p) /\ Valid(target))
    /\ MIDIListAdd(p, target, NewId)
    /\ UNCHANGED <<mode, calls, held, driverRefs, stack, bad>>

MIDIPortDisconnect(p, target) ==
    /\ Asks("disconnect")
    /\ Usable(p) /\ Usable(target)
    /\ Goto(<<Removal(p, target)>>)
    /\ UNCHANGED <<refs, mode, list, held, driverRefs, stack, bad>>

MIDIPortDisconnectAll(p) ==
    /\ Asks("disconnect")
    /\ Usable(p)
    /\ Goto(<<Walk("disconnect", p)>>)
    /\ UNCHANGED <<refs, mode, list, held, driverRefs, stack, bad>>

\* Mutant of Disconnection: the targets stay connected.
Disconnection_Never(p) == <<>>

\* The last thing MIDIPortInvalidate does.
Disconnection(p) == <<Walk("disconnect", p)>>

MIDIPortInvalidate(p) ==
    /\ Asks("invalidate")
    /\ Usable(p)
    /\ mode' = [mode EXCEPT ![p] = {"invalid"}]
    /\ Goto(Disconnection(p))
    /\ UNCHANGED <<refs, list, held, driverRefs, stack, bad>>

Release(p) ==
    /\ Asks("release")
    /\ held[p] > DriversOwn(p)
    /\ held' = [held EXCEPT ![p] = @ - 1]
    /\ Goto(<<Call("release", p)>>)
    /\ UNCHANGED <<refs, mode, list, driverRefs, stack, bad>>

\* The application may keep the port of a driver longer than the driver
\* (midi/driver.c:180-200).
Retain(p) ==
    /\ Asks("retain")
    /\ Usable(p)
    /\ MIDIPortRetain(p)
    /\ held' = [held EXCEPT ![p] = @ + 1]
    /\ UNCHANGED <<mode, list, calls, crash, driverRefs, stack, bad>>

MIDIDriverRetain(p) ==
    /\ Asks("retain")
    /\ p \in Drivers /\ driverRefs[p] > 0
    /\ driverRefs' = [driverRefs EXCEPT ![p] = @ + 1]
    /\ UNCHANGED <<heap, held, stack, bad>>

\* Mutant of MIDIDriverDestroy: the port is released only.
MIDIDriverDestroy_StaysValid(p) ==
    Goto(<<Call("release", p)>>) /\ UNCHANGED mode

\* MIDIDriverDestroy: the port is invalidated, then released; it outlives the
\* driver where it is connected.
MIDIDriverDestroy(p) ==
    /\ mode' = [mode EXCEPT ![p] = {"invalid"}]
    /\ Goto(<<Call("release", p)>> \o Disconnection(p))

MIDIDriverRelease(p) ==
    /\ Asks("release")
    /\ p \in Drivers /\ driverRefs[p] > 0
    /\ driverRefs' = [driverRefs EXCEPT ![p] = @ - 1]
    /\ IF driverRefs[p] = 1
       THEN MIDIDriverDestroy(p) /\ held' = [held EXCEPT ![p] = @ - 1]
       ELSE UNCHANGED <<mode, calls, crash, held>>
    /\ UNCHANGED <<refs, list, stack, bad>>

(* ---- messages ---- *)

Has(p, m) == m \in mode[p]

\* The object that the receive function is called for.
Target(p) == p \in Drivers => driverRefs[p] > 0

\* MIDIPortReceiveFrom up to the callback, on top of the calls in rest. Reading
\* the target of a source needs the source.
ReceiveFrom(p, src, rest) ==
    IF ~Has(p, "in") THEN stack' = rest /\ UNCHANGED <<bad, crash>>
    ELSE IF src # NULL /\ ~Alive(src) THEN crash' = "freed" /\ UNCHANGED <<stack, bad>>
    ELSE /\ stack' = Append(rest, IF p \in Loopback THEN Echoing(p, src) ELSE Receiving(p, src))
         /\ bad' = (bad \/ ~Target(p))
         /\ UNCHANGED crash

MIDIPortReceive(p) ==
    /\ Asks("message")
    /\ Usable(p)
    /\ ReceiveFrom(p, NULL, stack)
    /\ UNCHANGED <<refs, mode, list, calls, held, driverRefs>>

MIDIPortSendTo(p, target) ==
    /\ Asks("message")
    /\ Usable(p) /\ Usable(target)
    /\ Has(p, "out")
    /\ ReceiveFrom(target, p, stack)
    /\ UNCHANGED <<refs, mode, list, calls, held, driverRefs>>

MIDIPortSend(p) ==
    /\ Asks("message")
    /\ Usable(p) /\ Has(p, "out")
    /\ Push(Sending(p, p))
    /\ UNCHANGED <<heap, held, driverRefs, bad>>

\* Mutant of Advance: the entry after the next one.
Advance_Skips(m) ==
    LET n == NextId(m.port, m.next)
    IN  Message("send", m.port, m.src, IF n = 0 THEN 0 ELSE NextId(m.port, n), m.due, Append(m.got, m.next))

\* The next entry is read before this one is handed on.
Advance(m) ==
    Message("send", m.port, m.src, NextId(m.port, m.next), m.due, Append(m.got, m.next))

\* Mutant of Own: nobody is left out.
Own_Never(item, m) == FALSE

\* The source of the message does not get it back.
Own(item, m) == item = m.src

\* An invalid target is dropped from the list of the source, and kept until then.
DropInvalid(src, item) ==
    IF src = NULL THEN Crash("null") /\ UNCHANGED refs
    ELSE IF ~Alive(src) THEN Crash("freed") /\ UNCHANGED refs
    ELSE MIDIPortRetain(item) /\ Goto(<<Call("release", item), Removal(src, item)>>)

\* One turn of MIDIListApply with _port_apply_send.
SendNext ==
    /\ Idle /\ OnTop("send") /\ Last(stack).next # 0
    /\ LET m == Last(stack)
           item == Item(m.port, m.next)
           rest == Append(Front(stack), Advance(m))
       IN IF m.next \notin Ids(m.port)
          THEN crash' = "freed" /\ UNCHANGED <<refs, calls, stack, bad>>
          ELSE IF ~Valid(item)
          THEN DropInvalid(m.src, item) /\ stack' = rest /\ UNCHANGED bad
          ELSE IF Own(item, m)
          THEN stack' = rest /\ UNCHANGED <<refs, calls, crash, bad>>
          ELSE ReceiveFrom(item, m.src, rest) /\ UNCHANGED <<refs, calls>>
    /\ UNCHANGED <<mode, list, held, driverRefs, ops>>

SendDone ==
    /\ Idle /\ OnTop("send") /\ Last(stack).next = 0
    /\ Pop
    /\ UNCHANGED <<heap, held, driverRefs, bad, ops>>

\* The driver of a loopback sends what it got (_port_receive, MIDIDriverReceive).
Echo ==
    /\ Idle /\ OnTop("echo")
    /\ LET p == Last(stack).port
           waiting == Append(Front(stack), Receiving(p, Last(stack).src))
       IN stack' = IF Has(p, "out") THEN Append(waiting, Sending(p, p)) ELSE waiting
    /\ UNCHANGED <<heap, held, driverRefs, bad, ops>>

\* _port_passthrough: the port's own targets get it, with the source of the message.
Passthrough(m) == Sending(m.port, m.src)

\* The callback is over. A port with THRU goes on to its own targets.
Return ==
    /\ Idle /\ OnTop("receive")
    /\ LET p == Last(stack).port IN
       IF ~Alive(p) THEN crash' = "freed" /\ UNCHANGED stack
       ELSE /\ IF Has(p, "thru") THEN Replace(Passthrough(Last(stack))) ELSE Pop
            /\ UNCHANGED crash
    /\ UNCHANGED <<refs, mode, list, calls, held, driverRefs, bad, ops>>

Delivery == SendNext \/ SendDone \/ Echo \/ Return

Application ==
    \/ \E p, t \in Ports : \/ MIDIPortConnect(p, t)
                           \/ MIDIPortDisconnect(p, t)
                           \/ MIDIPortSendTo(p, t)
    \/ \E p \in Ports : \/ MIDIPortDisconnectAll(p) \/ MIDIPortInvalidate(p)
                        \/ Release(p) \/ Retain(p)
                        \/ MIDIPortReceive(p) \/ MIDIPortSend(p)
                        \/ MIDIDriverRetain(p) \/ MIDIDriverRelease(p)

Beneath == Cascade /\ UNCHANGED <<held, driverRefs, stack, bad, ops>>

Next == Application \/ Delivery \/ Beneath

Spec == Init /\ [][Next]_vars

(* ---- properties ---- *)

\* Type invariant of the heap, the owners and the messages under way; the calls on
\* the heap nest no deeper than Depth.
TypeOK ==
    /\ HeapType
    /\ held \in [Ports -> Nat] /\ driverRefs \in [Drivers -> Nat]
    /\ stack \in Seq(Messages) /\ bad \in BOOLEAN /\ ops \in 0 .. MaxOps

\* The entries of the lists l that lead to p.
Links(l, p) == {e \in UNION {{q} \X ToSet(l[q]) : q \in Ports} : e[2].port = p}

\* A port is counted once for each owner and each entry of a list, also after
\* invalidations that released and removed ports in cascades, within the
\* callbacks of a message (midi/port.c:286, midi/list.c:190).
RefsExact == Idle => \A p \in Ports : refs[p] = held[p] + Cardinality(Links(list, p))

\* "A port that has been invalidated will never again dereference the target
\* pointer" (midi/port.c:344): no receive function is called for a driver that
\* was destroyed, though other ports still hold its port and messages are on
\* the way.
TargetAlive == ~bad

\* Each target that stays connected while a message is sent, and can receive,
\* gets it once, whatever callbacks connect and disconnect meanwhile; targets
\* connected meanwhile do not (MIDIListApply, MIDIListAdd).
EachOnce ==
    (Idle /\ OnTop("send")) =>
        LET m == Last(stack) IN
        /\ IsInjective(m.got)
        /\ ToSet(m.got) \subseteq m.due
        /\ m.next = 0 => m.due \cap Ids(m.port) \subseteq ToSet(m.got)

\* Once nobody outside holds a port, whatever is left is left with a cycle of
\* valid ports: "invalidating one port should suffice to break the retainment
\* cycle" (test/port.c:45).
Reclaimed ==
    (Idle /\ stack = <<>> /\ \A p \in Ports : held[p] = 0) =>
        \/ \A p \in Ports : ~Alive(p)
        \/ \E S \in SUBSET {p \in Ports : Alive(p) /\ Valid(p)} :
            S # {} /\ \A p \in S : \E q \in S : \E e \in ToSet(list[q]) : e.port = p

\* A message does not go round in circles: while a port deals with a message of
\* a source, the message does not come to it from this source again. This is so
\* for one THRU port and one loopback driver; two of a kind that are connected
\* to each other pass a message on for ever, as each knows its source only.
NoEcho ==
    LET Deals(m) == m.fn # "send" \/ m.port # m.src IN
    \A i, j \in DOMAIN stack :
        (Deals(stack[i]) /\ Deals(stack[j]) /\ i # j) =>
            <<stack[i].port, stack[i].src>> # <<stack[j].port, stack[j].src>>

\* "retain the port, before removing to avoid recursion" (midi/port.c:121): the
\* releases that a removal sets off come to an end, as long as nobody connects
\* a port to itself or an invalid one.
CascadeEnds == crash # "recursion"

=============================================================================
