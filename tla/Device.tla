------------------------------- MODULE Device -------------------------------
(* From one MIDIDevice to another over an AppleMIDI session: the sender's calls
   become messages, stamped by the clock of the driver and queued; packets of
   them reach the receiver, whose device calls its delegate and the controller
   of its base channel. Composes midi/device.c with Controller, RTPMIDI and
   Clock; MIDITimer (midi/timer.c) only counts references.

   The receiver has a delegate with all callbacks, and they do nothing. Ports
   and queues are those of PortGraph and Outgoing, reduced to what they do for
   one connection. Packets are lost or arrive; each stands for itself. *)
EXTENDS Clock, Controller, RTPMIDI

CONSTANTS
    Channels,     \* bound: the channels that are used, 0 .. 15 in the source
    Controllers, Timers,
    Garbage,      \* what malloc leaves in the first byte of a message
    Limits        \* bounds, one of them for a behaviour: the calls the sender makes and how
                  \* often, the calls to clocks and to devices, and the steps time takes

BASE == 16
ALL == 31
LongMax == 16383  \* of values of 14 bits

ASSUME DeviceAssumption ==
    /\ Channels \subseteq 0 .. 15 /\ 0 \in Channels
    /\ Batch \in 1 .. BufferSize \div 8
    /\ Garbage \subseteq 0 .. 255
    /\ NULL \notin Controllers \cup Timers

VARIABLES
    device,    \* the receiver: its counter, base channel, timer and controllers
    count,     \* the counters of controllers and timers
    held,      \* those the application owns a reference to
    controls,  \* the values of the controllers
    out,       \* driver->out_queue: messages, their times, and the calls they stand for
    heard,     \* what the delegate was told about the last packet
    meant,     \* history: the calls of that packet, with their times
    entry,     \* history: the 14-bit data entry value the calls add up to
    left       \* bound: what is left of the limits

deviceVars == <<device, count, held, controls, out, heard, meant, entry>>
vars == <<clockVars, deviceVars, left>>

Objects == Controllers \cup Timers
NoSlots == [c \in Channels |-> NULL]

\* MIDIDeviceCreate for the receiver. The application owns the other objects.
DeviceInit ==
    /\ device = [refs |-> 1, base |-> 0, timer |-> NULL, slot |-> NoSlots]
    /\ count = [o \in Objects |-> 1] /\ held = Objects
    /\ controls = [k \in Controllers |-> InitializeControls]
    /\ out = <<>> /\ heard = <<>> /\ meant = <<>>
    /\ entry = [k \in Controllers |-> LongControl(InitializeControls, DataEntry)]

-----------------------------------------------------------------------------
(* A kind of message: what its Send function sets, in this order, and its Receive
   function passes on. *)

Kind(status, properties) == [status |-> status, properties |-> properties]

NoteOff               == Kind(8, <<"channel", "key", "velocity">>)
NoteOn                == Kind(9, <<"channel", "key", "velocity">>)
PolyphonicKeyPressure == Kind(10, <<"channel", "key", "pressure">>)
ControlChange         == Kind(11, <<"channel", "control", "value">>)
ProgramChange         == Kind(12, <<"channel", "program">>)
ChannelPressure       == Kind(13, <<"channel", "pressure">>)
PitchWheelChange      == Kind(14, <<"channel", "value">>)
SystemExclusive       == Kind(240, <<"id", "size", "data", "fragment">>)
TimeCodeQuarterFrame  == Kind(241, <<"type", "value">>)
SongPositionPointer   == Kind(242, <<"value">>)
SongSelect            == Kind(243, <<"value">>)
TuneRequest           == Kind(246, <<>>)
EndOfExclusive        == Kind(247, <<>>)
RealTime(status)      == Kind(status, <<>>)

Kinds ==
    {NoteOff, NoteOn, PolyphonicKeyPressure, ControlChange, ProgramChange, ChannelPressure, PitchWheelChange,
     SystemExclusive, TimeCodeQuarterFrame, SongPositionPointer, SongSelect, TuneRequest, EndOfExclusive}
    \cup {RealTime(s) : s \in 248 .. 255}

KindOf(status) == CHOOSE k \in Kinds : k.status = status

\* A call of the kind of its status has a value for each property.
IsCall(call) ==
    LET kind == KindOf(call.status)
    IN  /\ kind \in Kinds /\ kind.status = call.status
        /\ call = [status |-> call.status, args |-> [p \in Range(kind.properties) |-> call.args[p]]]

\* What its properties are meant to have, the others are cut off: values of 14
\* bits, manufacturers of seven (zero stands for a longer one), and data of the
\* given size that is not a fragment and fits into a packet. The status of a tune
\* request is never set.
InRange(call) ==
    /\ call.status \in {PitchWheelChange.status, SongPositionPointer.status} => call.args.value \in 0 .. LongMax
    /\ call.status = SystemExclusive.status =>
           /\ call.args.id \in 1 .. 127 /\ call.args.fragment = 0
           /\ call.args.data \in Seq(0 .. 127) /\ call.args.size = Len(call.args.data)
           /\ Batch * (Len(call.args.data) + 8) <= BufferSize
    /\ call.status # TuneRequest.status

-----------------------------------------------------------------------------
(* The sender. *)

\* The message of a call: created, and its properties set.
Compose(call, byte) ==
    LET properties == KindOf(call.status).properties
        set[i \in 0 .. Len(properties)] ==
            IF i = 0 THEN MIDIMessageCreate(call.status, byte)
            ELSE MIDIMessageSet(set[i - 1], properties[i], call.args[properties[i]])
    IN  set[Len(properties)]

\* There is a format for it, and the setters take its properties.
Sendable(call) ==
    LET format == MIDIMessageFormatForStatus(call.status)
    IN  format # "none" /\ \A p \in DOMAIN call.args : Accepts(format, p, call.args[p])

ASSUME LimitsAssumption ==
    \A limit \in Limits :
        /\ DOMAIN limit = {"calls", "sends", "clocks", "devices", "waits", "steps"}
        /\ {limit.sends, limit.clocks, limit.devices, limit.waits} \subseteq Nat
        /\ \A call \in limit.calls : IsCall(call) /\ (Sendable(call) => InRange(call))
        /\ limit.steps \subseteq Nat

\* A call that is not sendable returns an error. A sendable one goes through the
\* out port to the driver, which stamps and queues the message.
Send(call) ==
    /\ driver # NULL
    /\ Sendable(call)
    /\ \E byte \in Garbage :
          out' = Append(out, [message |-> Compose(call, byte), time |-> Now(driver), call |-> call])
    /\ UNCHANGED <<device, count, held, controls, heard, meant, entry>>

-----------------------------------------------------------------------------
(* The receiver. *)

\* What _recv_msg reads from a message of each status. The id of a manufacturer
\* is read into a byte.
Recv(m) ==
    LET kind == KindOf(MIDIMessageGet(m, "status"))
    IN  [status |-> kind.status,
         args |-> [p \in Range(kind.properties) |-> IF p = "id" THEN MIDIMessageGet(m, p) % 256 ELSE MIDIMessageGet(m, p)]]

\* The controller that gets a control change: that of the base channel, when
\* it is the channel of the message.
Hearer(call) ==
    IF call.status # ControlChange.status \/ call.args.channel # device.base THEN {}
    ELSE {device.slot[device.base]} \ {NULL}

\* A controller that hears a call.
Hear(ks, call) ==
    [k \in Controllers |->
        IF k \in Hearer(call) THEN ReceiveControlChange(ks[k], call.args.control, call.args.value) ELSE ks[k]]

\* The controllers after some calls, one after the other.
RecvAll(k0, calls) ==
    LET after[i \in 0 .. Len(calls)] == IF i = 0 THEN k0 ELSE Hear(after[i - 1], calls[i])
    IN  after[Len(calls)]

\* History: what calls mean for data entry, as arithmetic.
Meaning(v, control, value) ==
    CASE control = DataIncrement -> (v + 1) % 16384
      [] control = DataDecrement -> (v - 1) % 16384
      [] control = DataEntry -> (value * 128) + (v % 128)
      [] control = DataEntryLow -> ((v \div 128) * 128) + value
      [] control = ResetAll -> LongMax
      [] OTHER -> v

\* The decoder gives a system exclusive message all that follows it in its
\* packet (message_format.c:193-220).
Swallows(calls, i) == calls[i].status = SystemExclusive.status /\ i < Len(calls)
Reaches(calls, i) == \A j \in 1 .. i - 1 : ~Swallows(calls, j)

\* History: data entry after the calls on the base channel that reach the
\* receiver. Control changes on other channels are not meant here, although the
\* comments of the source promise them to the controllers of those channels.
Enter(e, call) ==
    [k \in Controllers |->
        IF /\ call.status = ControlChange.status /\ call.args.channel = device.base
           /\ k = device.slot[device.base]
        THEN Meaning(e[k], call.args.control, call.args.value) ELSE e[k]]

Entries(e0, calls) ==
    LET after[i \in 0 .. Len(calls)] ==
            IF i = 0 THEN e0
            ELSE IF Reaches(calls, i) THEN Enter(after[i - 1], calls[i]) ELSE after[i - 1]
    IN  after[Len(calls)]

Fewer(a, b) == IF a < b THEN a ELSE b

\* A packet of the first messages of the queue. One that is lost, or finds the
\* device gone and its port invalid, tells nobody anything.
Transmit(arrives) ==
    /\ out # <<>>
    /\ LET n == Fewer(Len(out), Batch)
           packet == RTPMIDISessionSend(SubSeq(out, 1, n))
           received == RTPMIDISessionReceive(packet)
           calls == [i \in DOMAIN received |-> Recv(received[i].message)]
       IN  /\ out' = SubSeq(out, n + 1, Len(out))
           /\ IF arrives /\ device.refs > 0
              THEN /\ heard' = [i \in DOMAIN received |-> [call |-> calls[i], time |-> received[i].time]]
                   /\ meant' = [i \in 1 .. n |-> [call |-> out[i].call, time |-> out[i].time]]
                   /\ controls' = RecvAll(controls, calls)
                   /\ entry' = Entries(entry, [i \in 1 .. n |-> out[i].call])
              ELSE heard' = <<>> /\ meant' = <<>> /\ UNCHANGED <<controls, entry>>
    /\ UNCHANGED <<device, count, held>>

-----------------------------------------------------------------------------
(* The receiver's application. *)

Quiet == UNCHANGED <<out, heard, meant>>

MIDIDeviceSetBaseChannel(channel) ==
    /\ device.refs > 0
    /\ device' = [device EXCEPT !.base = channel]
    /\ Quiet /\ UNCHANGED <<count, held, controls, entry>>

\* How often the slots of the device hold o.
InSlots(o, slot) == Cardinality({c \in Channels : slot[c] = o})

\* Mutant of MIDIDeviceSetChannelController: the one it replaces keeps its reference.
SetController_Leaks(channel, k) ==
    /\ device.refs > 0 /\ k \in held
    /\ LET into == IF channel = ALL THEN Channels ELSE IF channel = BASE THEN {device.base} ELSE {channel}
           slot == [c \in Channels |-> IF c \in into THEN k ELSE device.slot[c]]
       IN  /\ device' = [device EXCEPT !.slot = slot]
           /\ count' = [count EXCEPT ![k] = @ + InSlots(k, slot) - InSlots(k, device.slot)]
    /\ Quiet /\ UNCHANGED <<held, controls, entry>>

\* One channel, that of the device, or all of them one after the other.
MIDIDeviceSetChannelController(channel, k) ==
    /\ device.refs > 0 /\ k \in held
    /\ LET into == IF channel = ALL THEN Channels ELSE IF channel = BASE THEN {device.base} ELSE {channel}
           slot == [c \in Channels |-> IF c \in into THEN k ELSE device.slot[c]]
       IN  /\ device' = [device EXCEPT !.slot = slot]
           /\ count' = [o \in Objects |-> count[o] + InSlots(o, slot) - InSlots(o, device.slot)]
    /\ Quiet /\ UNCHANGED <<held, controls, entry>>

\* The old timer is released before the new one is retained; the application
\* owns the new one, so it outlives that also when the two are the same.
MIDIDeviceSetTimer(t) ==
    /\ device.refs > 0 /\ t \in held
    /\ count' = [o \in Objects |-> count[o] + One(o = t) - One(o = device.timer)]
    /\ device' = [device EXCEPT !.timer = t]
    /\ Quiet /\ UNCHANGED <<held, controls, entry>>

\* The application gives up a controller or a timer.
ReleaseObject(o) ==
    /\ o \in held
    /\ count' = [count EXCEPT ![o] = @ - 1]
    /\ held' = held \ {o}
    /\ Quiet /\ UNCHANGED <<device, controls, entry>>

\* It gets a controller back from the device, and retains it.
MIDIDeviceGetChannelController(channel) ==
    LET o == device.slot[channel]
    IN  /\ device.refs > 0 /\ o \in Controllers \ held
        /\ count' = [count EXCEPT ![o] = @ + 1]
        /\ held' = held \cup {o}
        /\ Quiet /\ UNCHANGED <<device, controls, entry>>

MIDIDeviceRetain ==
    /\ device.refs = 1
    /\ device' = [device EXCEPT !.refs = @ + 1]
    /\ Quiet /\ UNCHANGED <<count, held, controls, entry>>

\* The last reference: the device releases its timer and its controllers.
MIDIDeviceRelease ==
    /\ device.refs > 0
    /\ IF device.refs > 1
       THEN device' = [device EXCEPT !.refs = @ - 1] /\ UNCHANGED count
       ELSE /\ device' = [refs |-> 0, base |-> 0, timer |-> NULL, slot |-> NoSlots]
            /\ count' = [o \in Objects |-> count[o] - InSlots(o, device.slot) - One(o = device.timer)]
    /\ Quiet /\ UNCHANGED <<held, controls, entry>>

\* The application moves a control of a controller it owns, in one byte or two.
MIDIControllerSetControl(k, control, value) ==
    /\ k \in held
    /\ controls' = [controls EXCEPT ![k] = SetControl(@, control, value)]
    /\ entry' = [entry EXCEPT ![k] = Meaning(@, control, value)]
    /\ Quiet /\ UNCHANGED <<device, count, held>>

MIDIControllerSetLongControl(k, control, value) ==
    /\ k \in held
    /\ controls' = [controls EXCEPT ![k] = SetLongControl(@, control, value)]
    /\ entry' = [entry EXCEPT ![k] = IF control = DataEntry THEN value ELSE @]
    /\ Quiet /\ UNCHANGED <<device, count, held>>

\* MIDIControllerSetRegisteredParameter and its twin: of the parameter they set
\* only the number.
SetParameter(k, parameter) ==
    \E number \in {Registered, NonRegistered} : MIDIControllerSetLongControl(k, number, parameter)

DeviceCall ==
    \/ \E channel \in Channels :
          \/ MIDIDeviceSetBaseChannel(channel) \/ MIDIDeviceGetChannelController(channel)
    \/ \E k \in Controllers :
          \/ \E channel \in Channels \cup {BASE, ALL} : MIDIDeviceSetChannelController(channel, k)
          \/ MIDIControllerSetControl(k, DataEntryLow, 127) \/ MIDIControllerSetLongControl(k, DataEntry, 0)
          \/ SetParameter(k, 0)
    \/ \E t \in Timers : MIDIDeviceSetTimer(t)
    \/ \E o \in Objects : ReleaseObject(o)
    \/ MIDIDeviceRetain \/ MIDIDeviceRelease

-----------------------------------------------------------------------------
(* The whole. The application also makes and drops the driver, with its queue. *)

Init == ClockInit /\ DeviceInit /\ left \in Limits

Spend(what) == left[what] > 0 /\ left' = [left EXCEPT ![what] = @ - 1]

Next ==
    \/ Spend("sends") /\ (\E call \in left.calls : Send(call)) /\ UNCHANGED clockVars
    \/ (\E arrives \in BOOLEAN : Transmit(arrives)) /\ UNCHANGED <<clockVars, left>>
    \/ Spend("devices") /\ DeviceCall /\ UNCHANGED clockVars
    \/ Spend("clocks") /\ ClockCall /\ UNCHANGED deviceVars
    \/ (\E c \in Clocks : MIDIDriverInit(c)) /\ UNCHANGED <<deviceVars, left>>
    \/ /\ Spend("clocks") /\ MIDIDriverDestroy /\ out' = <<>>
       /\ UNCHANGED <<device, count, held, controls, heard, meant, entry>>
    \/ Spend("waits") /\ (\E us \in left.steps : Elapse(us)) /\ UNCHANGED deviceVars

Spec == Init /\ [][Next]_vars

-----------------------------------------------------------------------------
(* Properties. *)

TypeOK ==
    /\ device.refs \in Nat /\ device.base \in Channels
    /\ device.timer \in Timers \cup {NULL} /\ device.slot \in [Channels -> Controllers \cup {NULL}]
    /\ count \in [Objects -> Nat] /\ held \subseteq Objects
    /\ controls \in [Controllers -> [Controls -> Byte]]
    /\ \A i \in DOMAIN out : \A b \in DOMAIN out[i].message.bytes : out[i].message.bytes[b] \in Byte
    /\ entry \in [Controllers -> 0 .. LongMax]

\* Controllers and timers are referenced by the application and once for every
\* channel of the device they serve, whatever is set, replaced, set for all
\* channels and released in between (device.c:385-394, 598-603, 693-711).
RefsExact ==
    \A o \in Objects : count[o] = One(o \in held) + InSlots(o, device.slot) + One(o = device.timer)

\* The delegate is told what the sender's calls said, in their order and none
\* left out: running status, the order of message bytes, nibbles and 14-bit
\* values come out of the packet as they went in. A system exclusive message is
\* excepted when something follows it in its packet, and so is what follows.
Delivered ==
    /\ Len(heard) <= Len(meant)
    /\ LET calls == [i \in DOMAIN meant |-> meant[i].call]
       IN  \A i \in DOMAIN meant :
              Reaches(calls, i) => /\ i \in DOMAIN heard
                                   /\ heard[i].call = calls[i] \/ Swallows(calls, i)

\* Messages that are less than 2^28 ticks apart keep their distances in a packet:
\* none of them gets an earlier time than the one before (rtpmidi.c:417,
\* util.c:24-69). The times are those the driver's clock gave as long as the first
\* one has 31 bits (rtp.c:759-762). From then on the receiver's are earlier.
TimesKept ==
    (\A i \in DOMAIN meant : i > 1 => meant[i].time - meant[i - 1].time < VarLens)
        => \A i \in DOMAIN heard : i \in DOMAIN meant =>
              /\ heard[i].time - heard[1].time = meant[i].time - meant[1].time
              /\ meant[1].time \in -SignBit .. SignBit - 1 => heard[i].time = meant[i].time

\* The two bytes of data entry in a controller are the number that increments,
\* decrements, entries and resets add up to, modulo 2^14: those of the application
\* and, in their order, those the sender made on what was the base channel when they
\* arrived (controller.c:513-537). It does not say that a controller hears its
\* channel, as device.c:175-178 and 676-678 do: on any channel but the base channel
\* none does (device.c:190-195).
EntryFollows ==
    \A k \in Controllers : LongControl(controls[k], DataEntry) = entry[k]
=============================================================================
