# A TLA+ verification of midikit

midikit is a C library for MIDI: messages, ports, devices and drivers. Its one
complete driver speaks AppleMIDI, the protocol that opens RTP sessions for MIDI
between hosts on a network. This directory models the parts of it that keep
state or compute something, checks the models with TLC and proves theorems about
them with TLAPS.

## 1. Inventory

| Component | State | Operations | Status |
|---|---|---|---|
| RTP session (`driver/common/rtp.c`) | table of 16 peers, a counter per peer, sequence numbers, a packet info of its own | create, retain and release peers; add, remove, find and walk them; send and receive packets | modelled without bytes (`RTPSession`) |
| AppleMIDI protocol (`driver/applemidi/applemidi.c`) | two sockets, token, `accept`, `peer`, `sync`, one `command` buffer, the outgoing queue | invite, accept, end, synchronize, data, idle; queue and send messages | modelled with fixed sockets (`AppleMIDI`, `Outgoing`) |
| RTP-MIDI payload (`driver/common/rtpmidi.c`) | buffers, the message list of a packet | encode and decode command sections, send to each peer, receive | the command section (`RTPMIDI`), its use of the session |
| Runloop (`midi/runloop.c`) | 16 sources, descriptor sets, timeouts, a master source | add, remove, schedule, clear, wait, step, start, stop | modelled without delegate (`Runloop`) |
| Ports and lists (`midi/port.c`, `midi/list.c`) | connection graph, reference counts, mode and validity | connect, disconnect, send, receive, pass through, invalidate, release | modelled without observers (`PortHeap`, `PortGraph`) |
| Driver base (`midi/driver.c`) | a port, a clock and an event delegate | create, retain, release, loopback, trigger events | in `PortGraph`, `Clock`, `AppleMIDI` |
| Message queue (`midi/message_queue.c`) | linked cells | push, peek, pop, length | modelled (`MessageQueue`) |
| Clock (`midi/clock.c`) | fraction, offset, rate; a global clock | create, provide, retain, release, set, read, convert | modelled (`Clock`) |
| Message formats (`midi/message_format.c`, `message.c`, `util.c`) | the bytes of a message | detect, set, get, encode, decode, running status, variable-length numbers | modelled (`MessageFormat`, `RTPMIDI`) |
| Controller (`midi/controller.c`) | 128 values, the selected parameter | control changes, resets, increments, parameter numbers | modelled (`Controller`) |
| Device (`midi/device.c`) | base channel, 16 controllers, timer, delegate | send and receive each kind of message, attach controllers and timer | modelled without ports of its own (`Device`) |
| Timer (`midi/timer.c`) | a counter | everything but the counter is empty | its counter, in `Device` |
| Events, OSC, CoreMIDI, CoreFoundation, `driver/rtpmidi/` | - | stubs, formatting or platform calls | not modelled |

How they interact. A device turns a call into a message and gives it to a port.
The port hands it to the ports it is connected to, which call their targets; the
target of a driver's port is the driver. The AppleMIDI driver queues the message
and sends the queue to each peer as packets of RTP-MIDI. On the other side the
runloop sees a readable socket and calls the driver, which parses a command and
answers it (`_applemidi_respond`), or passes data to the RTP-MIDI session, which
reads through the RTP session, which finds or creates the peer. The messages
leave through the driver's port and arrive at a device, which calls its delegate
and its controller. Three commands trigger an event (`MIDIDriverTriggerEvent`),
a callback into the application that may call the driver again. The runloop
also calls the driver's idle timer; messages are stamped by the driver's clock,
which may be the global clock of the process.

What is hard here. Nothing runs in parallel inside one process: the hard
behaviours are the order of datagrams between processes (lost, repeated, late
from before a restart, crossing because both sides act at once), application
code running in the middle of a handler, a pass or a list walk, pointers that
are kept across calls (`driver->peer`, `session->info.peer`, the peer of an
ended session, the port of a released driver), counters shared by owners that
come and go in any order, one timer and one `nfds` that stand for several
sources, and fixed tables that fill up. `PROJECT.json` lists them line by line
under "hazards".

What makes each component correct:

- RTP session: a peer lives exactly as long as somebody owns it; a source has
  one entry whatever holes removals leave; acknowledgements are true.
- AppleMIDI: an invitation accepted ends with both sides connected, at the
  right sockets, and only by consent; every synchronization ends and answers
  what was asked; leaving frees what was entered, once; queued messages leave in
  order, reach every member once, and do not wait for ever.
- Runloop: what a source schedules is watched; a source is called when it is
  ready, whatever the others do; the loop ends when told to.
- Ports: a message reaches each connected port once, callbacks may change the
  graph, nobody is called or freed wrongly, nothing circles.
- Formats and device: what one device sends is what the other one hears, at the
  times at which it was sent.
- Clock and controller: reducing a fraction loses nothing, a shared clock is
  never set under somebody else, two halves carry as one number.

## 2. Modules

    RTPPeerTable ---+--- RTPSession --- RTPSessionProofs
                    |        |  \------ MCRTPSession
                    |    PeerRegistry (implemented by RTPSession)
                    +--- AppleMIDI --- AppleMIDIProofs
                    |           \----- MCAppleMIDI
                    +--- Outgoing ---- OutgoingProofs
    MessageQueue ---------'  |  \----- MCOutgoing
                             FIFO (implemented by Outgoing)
    PortHeap --- PortGraph --- PortGraphProofs
                        \----- MCPortGraph
    Runloop --- RunloopProofs
        \------ MCRunloop
    MessageFormat --- RTPMIDI ---+     DeviceProofs (uses RTPMIDIProofs)
    Clock -----------------------+--- Device --- MCDevice
    Controller ------------------+

**RTPPeerTable** is pure: the probing of `RTPSessionAddPeer`,
`RTPSessionRemovePeer`, `RTPSessionFindPeerBySSRC` and `RTPSessionNextPeer` as
predicates on a table. The loops of the code run over
`(i + ssrc % 16) % 16`; "the first slot of the loop with P" becomes "the slot
with P and the least number of probes". The table holds addresses of cells.

**RTPSession** is one `RTPSession` and the code that calls it. A variable per
field (`peers`, `refs`, `ssrc`, `inSeq`, `outSeq`, `infoPeer`), `held` for the
references the callers own, `got` for what was really received. An action per
function. `RTPSessionSend` and `RTPSessionReceivePacket` are split into the
disjuncts their branches make: `SendBroadcast` and `SendToInfoPeer`,
`ReceiveKnown`, `ReceiveNew` and `ReceiveOverflow`. A cell that was freed may be
handed out by `malloc` again. A read of a freed cell is undefined: it sets
`fault` and the model stops.

**PeerRegistry** is the abstract specification: peers that exist while they are
owned or members, and a bag of at most `Capacity` members, counted as the set of
each peer's numbered memberships. No slots, probes or counters.
`RTPSession!ImplementsRegistry` is the refinement; it maps a peer's memberships to
the number of its slots.

**AppleMIDI** is the protocol. Each element of `Drivers` is one
`MIDIDriverAppleMIDICreate`, named by its SSRC, on a host. A restart on the same
ports is a second element on the same host, with another SSRC. Its token is the
reading of a clock that is started for the driver, or shared with the last one
(applemidi.c:316, clock.c:299-334), so drivers of fresh processes ordinarily have
equal tokens: about zero. Of the fields: `accept`, `table` (the RTP session's),
`heap` (the peers' cells), `cur` for `driver->peer`, `sync`. `net` is the
datagrams in flight, and `sent` the history of the invitations and data that the
applications sent. An action per public call, per command and per socket it
arrives at, per timer. The handlers of IN (control), OK (RTP) and BY trigger an
event half-way; they are a `Recv` action up to the event and an `After` action
from it, and `callback` keeps the locals and the part of `driver->command` that is
used afterwards. While an event runs the driver can do nothing but what the
application calls (`Reentrant`); `AddPeer` and `RemovePeer` compose into the same
command and so overwrite `callback`, as in the code. In this module a cell has an
owner when a slot or the waiting handler has it; that this agrees with the
counters is what RTPSession shows, and `Owned` checks that the two agree here.

**MessageQueue** is the linked list of `message_queue.c` as a record of cells,
one operator per function. **FIFO** is what it promises: messages leave in the
order they came, once. **Outgoing** composes the queue with the peer table and
the driver's runloop source: `MIDIDriverAppleMIDISendMessage`,
`_applemidi_write_fds` and `RTPMIDISessionSend`, whose loop over
`RTPSessionNextPeer` is a step per peer. `ImplementsFIFO` is the refinement, with
`waiting <- Contents(queue)`.

**Runloop** has the sources and the master as records of the same shape
(`Timer`: descriptor sets, `nfds`, timeout, age, callbacks). `phase` is where
`MIDIRunloopStart` is: before the wait, in `select` or `nanosleep`, or in the
pass over the slots for reads, writes or timeouts; `slot` is the position of
that pass and `running` the source whose callback runs. Deadlines are absolute
in the code and ages here.

**PortHeap** is the heap of ports: counters, modes and lists of entries. Releasing
a port walks its list and may release others, which walk theirs, and a removal
releases an item before it unlinks the entry. These calls are frames of `calls`,
the program's stack, and each turn of a loop is a step: `MIDIPortRelease` before
and after its check, `MIDIListDestroy`, `MIDIListApply` with the appliers that
check and disconnect, `MIDIListRemove` before and after the release. A step that
finds its port or its entry freed is `crash = "freed"`; more frames than `Depth`
are `crash = "recursion"`. **PortGraph** is the ports in use: a second stack of
the messages under way, a frame per list walk or callback, so that a callback
changes the lists that frames below it are walking. Nothing else happens while
`calls` is not empty, since the code runs no application code in between. A
driver is a port with a counter of its own; when it goes its port is invalidated
and released.

**MessageFormat** translates the formats to a layout: for each property the byte
and the part of it. Coding with running status is on bytes, since that is what the
properties tell apart. **RTPMIDI** is the command section: header, delta times,
and the loops of `_rtpmidi_encode_messages` and its decoder as functions of the
number of the round. **Controller** is the 128 values and what a received control
change does to them. **Clock** is the cells, the global clock and the fraction
arithmetic by primes, whose loops are recursive functions on fractions. **Device**
composes these four: a sender's calls become messages, stamped and queued; a
packet is decoded by the receiver's side, and each message is dispatched by status
and channel to the delegate and the controller.

The **MC** modules give the constants of the TLC runs. The **Proofs** modules
hold the theorems; **LeastNumber** has what they need about loops: a set of
numbers has a least one, for "the first slot", and a recursive function has the
values its equation asks for.

Assumptions made in the models, beside those named as ASSUME:

- RTP session: the SSRC of a received packet is what the decoder read. One of
  2^31 and more is extended with its sign there (rtp.c:764-767), so it is not the
  number its peer was added under. This library's own come from `random()` and
  are below; the AppleMIDI model takes SSRCs as they are.
- AppleMIDI: two drivers never have the same SSRC; two
  identical datagrams in flight are one element of `net`; `AcceptFromPeer` sets
  the same flag as `AcceptFromAny` in the code, and is that action here; the
  application does not destroy the driver from an event.
- Outgoing: one call at a time; peers join and leave between calls, each as a
  cell of its own, as the handlers of AppleMIDI add them; a driver whose runloop
  source was asked for.
- Runloop: the application schedules only what it has callbacks for, and does
  not release the runloop from a callback; in the runs callbacks do not release
  or invalidate sources either. Time passes while the loop waits, and before
  it waits again, by any amount: callbacks may be slow, and then the master
  has expired before the wait, which polls no descriptor (runloop.c:327-330).
  Data arrives while the loop waits, as nobody else looks.
- PortGraph: the application uses ports it or their drivers hold; it may keep the
  port of a driver longer than the driver, and invalidate it. It does not connect
  a port to itself or an invalid one (`Careless` turns that on; the stack then
  overflows, see 3); `malloc` does not return the address of a list entry that a
  walk remembers.
- Device: the receiver's delegate does nothing; a packet arrives whole or not at
  all. Clocks have unbounded numbers; the application uses clocks it owns, and
  does not set a clock's rate to 0, which stops it and divides by zero when the
  rate is set again. The timestamp of a packet has 32 bits (`SignBit` is the
  highest of them, 2^31 in the code) and is read back as a signed number. The
  calls are those of `device.h` with arguments in their range, as
  `LimitsAssumption` says: values of 7 and 14 bits, a manufacturer id from 1 to
  127, system exclusive messages that are not fragments. The data is such that a
  batch of messages fits the 512 bytes of the session's buffer, and no tune
  requests, whose status byte is never set (`InRange`).

## 3. Runs

| Run | Constants that matter | Shows |
|---|---|---|
| `rtp` | 3 cells, 2 slots, 3 SSRCs, 1 reference per peer; or 2 cells of one SSRC, 1 of them listed, and numbers modulo 3 | `TypeOK`, `RefsExact`, `OneEntryPerSender`, `ImplementsRegistry`, `CumulativeSeq` |
| `am_restart` | 4 drivers on 2 hosts, 3 of them with equal tokens, 3 calls, every datagram stays in flight forever | `TypeOK`, `EntriesReachable`, `Consent` |
| `am_leave` | 2 drivers, 1 slot, 2 calls, loss, idling, calls from events | `Owned` |
| `am_live` | 2 drivers, 2 slots, 3 invitations, no loss, fairness | `SessionOpens`, `SyncEnds` |
| `am_vSync` | 2 drivers, 1 invitation, idling, loss, fairness | `SyncEnds` fails |
| `loop` | 2 sources with timeouts of 2 and 1, 2 descriptors, 2 slots, 2 more calls from outside or callbacks, fairness | `TypeOK`, `RefsExact`, `Subscribed`, `ReadServed`, `IdleServed`, `Stops` |
| `loop_vWatched` | as `loop` | `Watched` fails |
| `loop_vOnce` | as `loop` | `IdleOnce` fails |
| `ports` | 3 ports (loopback driver, THRU, application), 4 calls, free or connected at first | `TypeOK`, `RefsExact`, `TargetAlive`, `EachOnce`, `Reclaimed`, `NoEcho`, `CascadeEnds` |
| `out` | 3 cells, 2 messages sent 4 times, 2 peers, 2 messages per packet, fairness | `TypeOK`, `RefsExact`, `Broadcast`, `Interested`, `ImplementsFIFO`, `SendEnds` |
| `out_vFlush` | as `out` | `Flushed` fails |
| `device` | five kinds of behaviour, see below | `TypeOK`, `RefsExact`, `ClockRefsExact`, `TickExact`, `ConvertExact`, `Delivered`, `TimesKept`, `EntryFollows`, `Steady` |

Why the bounds are enough.

- *RTP session*: a table of two slots with three SSRCs and three cells has every
  case of probing: a home slot that is taken, a wrap to slot 0, a hole before
  the entry, a full table, and a cell used again for another source. The
  sequence numbers are a scene of their own (`Scene` in MCRTPSession), as they
  and the table do not bear on each other: they need a number past the wrap and
  a gap, which numbers modulo 3 have. `refs` grows only with `MaxHeld` and the
  slots.
- *AppleMIDI*: a handshake is between two drivers; the third and fourth in
  `am_restart` are the next incarnations of the first, by a new process, whose
  clock starts again and so shows the same token, and by the same one, whose clock
  went on. Both are what a stale OK can meet. `MaxOps`
  counts the calls of all applications that add datagrams; datagrams, answers,
  idling and the accept flag are not counted. Three calls allow two sides to
  invite each other and one to leave or to repeat, or to restart, invite and send
  data. `am_restart` has no calls from events, and two calls in `am_leave` do not
  reach the removal of a peer between its lookup by a BY and its use when the table
  is full: for these see the proofs, which have any calls. `am_live` has no idling,
  so its synchronizations start when an invitation is accepted; with idling, one
  invitation or tables of one peer it still finishes and holds.
- *Runloop*: two sources that want the same descriptor and have different
  timeouts, the shorter of which the master keeps, two slots so that one source
  may be there twice. Half of the initial states are those after a program's first
  calls (`Prepared`), so that two more are enough to clear and stop, remove or
  schedule a timeout, an empty one too, in one pass. Ages count to 3, past both
  timeouts.
- *Ports*: three ports are a ring with a chord, one of each behaviour. Twenty
  nested calls of the heap are more than any cascade takes: that is
  `CascadeEnds`, and by `CascadeEndsCorrect` no cascade of three ports takes more than
  sixteen. Four calls suffice to disconnect, release and invalidate while a
  message is on its way (2.4 million states, 86 steps deep).
- *Outgoing*: a queue that holds more than a packet takes, with one cell less
  than the sends, so that `malloc` fails.
- *Device*: the limits are a set, one of them per behaviour: three calls of any
  kind, at once; three calls at times up to 2^21 ticks apart, at both sides of
  every length of a delta time; increments, decrements, entries and resets of one
  controller on two channels with two calls that attach and release it; more such
  calls; two calls while clocks are provided, replaced and set. A packet takes
  three messages, which is every pair of neighbours for running status, with one
  in between. `SignBit` is 2^22, which two waits of 2^21 ticks reach, so that
  first times on both sides of it are sent. A second has 10000 units of time:
  TLC's integers have 32 bits, and the primes are those of the source's 1000000.

Deadlock checking is off because the systems may stop: with all calls made and
all datagrams read nothing is left to do, and `fault` or `crash` ends a
behaviour.

What the violations show.

- `SyncEnds` with loss: nothing repeats a CK and nothing clears `sync` but the
  next CK. The run is fair, and the idle timer goes on for ever without effect.
- `Watched`: `nfds` of the master bounds the sets for reading and for writing.
  Clearing the highest descriptor for writing lowers it, and a source that reads
  this descriptor is not called any more, although it is still in the set
  (`Subscribed` holds).
- `IdleOnce`: `_runloop_source_timeout` restarts the timer of its source before it
  calls back, and nothing disables the callback, while runloop.c:445-447 promises a
  single call. `IdleServed` is what the code does keep: the timeout that was
  asked for comes.
- `Flushed`: `_applemidi_update_runloop_source` waits for the control socket to
  be writable, and `_applemidi_write_fds`, called with it, sends only when given
  the RTP socket. What was left in the queue goes out with the next message.

One more disagreement of the code with its comments has no run. A control change
goes to a controller only on the base channel (device.c:190-195), while
device.c:175-178 says that it goes to the controller registered for its channel,
device.c:676-678 that each channel can have one of its own, and controller.c:52-56
that a controller may be attached to any channel. With a controller on another
channel than the base channel it hears nothing of what is sent there. The run
`device` has such controllers and such control changes; `EntryFollows` counts only
what is sent on the base channel and so says nothing of the promise.

Observed while modelling and not in a run, because no text of the repository
promises otherwise, or because the case is outside of the models:

- RTP session: `RTPSessionSend` without a packet info sends to all members only
  while `session->info.peer` is null, and itself sets it; with 16 peers the packet
  of a 17th creates a peer that its release frees and that is read afterwards;
  a packet of an unknown source enters it in the table without an invitation;
  `in_seqnum` is wider than the sequence number, so it stops at the wrap;
  receiving without a packet info copies from a vector that was not filled when
  the receipt failed.
- AppleMIDI: an entry is added per handshake without a lookup by SSRC, so a
  repeated invitation has two; a driver whose token equals that of an earlier one
  at its ports completes that one's handshake and enters a peer it never invited;
  data sent to a control address, which a call from an event can bring into a table,
  is never read; `driver->peer` stays after its peer was removed,
  and `RTPSessionNextPeer` returns a pointer it does not find unchanged; the
  invitation being answered is in `driver->command`, which `AddPeer` from its
  event overwrites, so the answer goes elsewhere; `RemovePeer` looks up the
  address it is given while the table holds addresses of RTP ports; the RTP
  socket is closed by `_applemidi_disconnect` and again by `RTPSessionDestroy`;
  received messages are never released.
- Runloop: the remaining time of a source grows with its age; a timeout of zero is
  one tick in the source and none in the runloop, so it never fires if no other
  timeout runs; a master that has expired before each wait polls no descriptor, so
  a timeout shorter than a pass starves all readers; removing a source leaves its
  pointer to the runloop and the master's descriptors.
- Ports: a port connected to itself and then invalidated releases itself until the
  stack is full; a walk reads the next entry before it calls back, so a callback
  that frees this entry, or the port that is walked or checked, leaves the walk
  with freed memory (`crash = "freed"`); two THRU ports or loopback drivers that
  are connected to each other pass a message on for ever; the result of an
  interceptor is not looked at; the loops of `MIDIListContains` and `MIDIListFind`
  never advance, but nobody calls them.
- Packets: from 2^31 ticks of the sender's clock on the times of a packet are read
  as 2^32 ticks, or a multiple of that, too early, as the 32 bits of the timestamp are
  put together in an int (rtp.c:759-762).
- Formats: the setters of tune requests refuse everything, so the status byte
  stays as `malloc` left it; a send function whose property is refused leaks its
  message; the end of a system exclusive message has no format; encoding errors
  are ignored; lost packets are not recovered, as the journal is empty.
- Clock and controller: `MIDIClockSetSamplingRate` divides the reduced numerator
  by the old rate, which is zero for most rates: the clock stands still.
- Device and controller: the manufacturer id of a received system exclusive
  message is read into a `char`, and `MIDIControllerSetControl` does not check
  its index.

## 4. Fairness

`FairSpec` of AppleMIDI assumes weak fairness, per driver, of: returning from an
event; the idle timer; and the receipt of invitations, of acceptances and of CKs
with each count. The runloop selects on both sockets and calls back for whatever
is readable, a socket hands out its datagrams in order of arrival, callbacks
return, and the idle timer is scheduled again after each time it ran. Receipt
is fair per kind of datagram because `net` has no order: a queue could not leave
one kind waiting for ever. No fairness is assumed of the application or of loss.
When loss is possible (`am_vSync`) a lost datagram is simply gone; the failure
does not need a datagram that is lost again and again.

`FairSpec` of Runloop assumes weak fairness of the loop's own steps, which
includes that callbacks return, and strong fairness of time, which passes again
and again. How long a callback takes is not bounded. `ReadServed` therefore has a
premise, that the loop comes to wait again and again, which a program with
timeouts shorter than its callbacks does not satisfy. A descriptor that is
readable stays so until it is read. Nothing is assumed of the application: it need
not start the loop.

`FairSpec` of Outgoing assumes weak fairness of the loop over the peers (a call
runs until it returns), of the runloop's write callback while the watched socket
is writable, and of the network taking what is in a socket's buffer. Nobody has
to send anything.

## 5. Proofs

TLAPS checks what follows for every value of the constants that satisfies the
named assumptions of the modules, which TLC evaluates in each run. The
assumptions only say that sets are finite, that bounds are numbers, and that
`NULL` is none of the values it stands beside. Where a theorem needs more, it
says so in its ASSUME.

**RTPSessionProofs**: for every table size, every set of cells and SSRCs, every
width of the sequence number and every number of references,

- `TypeCorrect`: `Spec => []TypeOK`,
- `RefsCorrect`: `Spec => []RefsExact`,
- `AcknowledgementCorrect`: `Spec => []CumulativeSeq`,
- `OneEntryCorrect`: `Spec => OneEntryPerSender`, an action property,
- `RegistryImplemented`: `Spec => ImplementsRegistry`, the refinement of
  `PeerRegistry`.

The first three follow from `InvariantHolds`, for the inductive invariant
`SessionInv == TypeOK /\ RefsExact /\ CumulativeSeq`. `CumulativeSeq` speaks of
live peers only, and a received packet changes the peer in a slot: that this
peer is live, and that a cell just handed out is in no slot, is `RefsExact`
(lemmas `EntryLive` and `DeadUnowned`). `RefsExact` in turn counts slots, which
the lemmas `SlotFilled` and `SlotCleared` do for one changed slot, from the
facts about `Cardinality` in `FiniteSetTheorems`. The steps are grouped as
`OwnersStep`, `TableStep`, `SendStep` and `ReceiveStep`; `NextHolds` puts them
together.

`OneEntryCorrect` rests on `LookupFinds`: if a source is in the table at all, the
lookup finds an entry of it, whatever holes lie before the entry, because the
probing does not stop at a hole. So only a source without an entry is entered.
The steps of the refinement (`RegistryStep`) need the invariant twice: a peer
exists in the registry while its owners and memberships are more than none,
which is what its counter counts (`Settled`); and a registry with room is a table
with a free slot. For that `RoomForOne` maps the numbered memberships of all
peers one-to-one onto the occupied slots and compares the two cardinalities.

**AppleMIDIProofs**: for any drivers, hosts and tables, and any number of calls,
all of them also from events,

- `TypeCorrect`, `OwnedCorrect`: `TypeOK` and `Owned`, for any tokens, in a network
  that loses, repeats and reorders,
- `EntriesCorrect`, `ConsentCorrect`: `EntriesReachable` and `Consent`, in the same
  network, if `Straight`: tokens may be equal, as those of a driver and its successor,
  or of two fresh processes, ordinarily are, unless events invite or remove peers,
  where drivers of different hosts must have different ones.

All follow from `SafeInv == MailInv /\ SessionInv /\ RestInv`, the last together with
`ConsentInv`. That
an entry leads to an RTP socket is not inductive: the entry is the source
address of an OK, an invitation or data, so `Mailed` must say of every datagram
in flight from which port it comes and to which it goes. A call from an event
breaks even that. It overwrites the command an interrupted handler of an
invitation will answer with, and the answer goes from the control socket to any
port of another host. `Strays` describes such an answer: it carries its sender's
own token. The receiver compares the token with its own (applemidi.c:856), so it
ignores a stray answer if the tokens of the two hosts differ. Where no event
overwrites a command there are no stray answers, and the tokens do not matter.
`Straight` is needed: in an instance with two drivers that have one token TLC finds
a session that is removed, by its RTP address, from the event of a repeated
invitation, after which the other side enters a control address. `Owned` needs
`Sound`, which adds that no cell is in two slots and is proved slot by slot
(`SlotTaken`, `SlotLeft`, `CellKept`).

`ConsentInv` says of each datagram, of each handler that waits for its event and of
each entry which invitation or which data it goes back to. An entry of a driver that
refuses invitations was made by an acceptance at its RTP port, of an invitation
there, which an acceptance at its control port made it send, or by data. `sent`
keeps the first invitations and the data, so that the network may take
them. What `Consent` allows is what the code does: a token does not tell a driver from
an earlier one at its ports if both clocks showed the same, and data from a
source without an entry enters the source (`RTPSessionReceivePacket`).

**RunloopProofs**: for any sources, descriptors and slots,

- `RefsCorrect`: `Spec => []RefsExact`, from `CountInv`, which adds the types of
  counters and slots. A pass over the slots, the master and the descriptors do
  not enter into it (`LoopKeeps`): callbacks may change slots at any point of a
  pass.
- `TypeCorrect` and `SubscribedCorrect`: `TypeOK` and `Subscribed`, from
  `LoopInvariant`, `Spec => []LoopInv`.

`LoopInv` adds to `CountInv` that every descriptor of a source lies below its
`nfds` (`FdsBelow`), so that the loops of the code that hand its sets to the
master see all of it; that a source in a slot points to its runloop (`Linked`),
so that what it schedules reaches the master; that callbacks run only in a pass
at a slot (`InPass`); and `Covered`, the property for each kind by itself. While
the writes are handed out the master's set is what the pass has left, so
`Covered` excepts the slots the pass has not come to, exactly: a slot whose
callback runs has been taken care of, one where it has not begun has not.

**OutgoingProofs**: `InterestedCorrect` and `BroadcastCorrect`; `RefsCorrect` and
`TypeCorrect`; and `QueueImplemented`, the refinement of `FIFO`. Two theorems about
the queue come first: `PushAppends` and `PopTakesFirst`, what the operations of
the linked list do to the sequence of its messages, for any cells and messages.
`Chain` says that a sequence of cells is the list of a queue: each cell once,
each pointing to the next, `first` and `last` at the ends. The pointers are
followed by a recursive function; what it is for a chain is shown by giving the
function explicitly, and that it is the only solution by the least number where
a second one would differ (`ChainWalk`).

`Interested` is inductive by itself. `Broadcast` needs `RoundInv`: the peers that
got the packet are those in the slots before the loop's position, which is a
position only because no peer is in two slots (`Distinct`) and nobody leaves
while a packet goes round. `FirstPeer` and `PeerAfter` say what
`RTPSessionNextPeer` does to it. The others need `HoldInv`: the pointers of the
queue form a list, a packet exists only while it is sent, and a message is
counted once for the application and once for each place in the queue or the
packet. The write callback takes the packet by a loop of pops, a recursive
function again, so `PoppedContents` says what the loop has left and taken, and
`CountSplit` that nothing is counted twice or lost between the two. `HoldStep`
then shows of each step the invariant and the step of `FIFO` together.

**LeastNumber**: `Least`, and what makes the loops of Clock, MessageFormat, RTPMIDI
and Device tractable. TLA+ gives a recursive function by `CHOOSE`, so that its
equation holds is to be proved. `Recursion` does so for every function whose
calls are for something smaller: the function is the least set of pairs that is
closed under the equation, which is shown to have one value for each argument.
`Iteration` is the case of a loop that counts its rounds up, whose result is the
last of a sequence in which each round goes on from the one before; an invariant
of the loop is then one of the sequence (`UpTo`).

**RTPMIDIProofs**: `PacketKept`, for any messages whose encoding fits the 12 bits
of the length field. What `RTPMIDISessionSend` encodes is decoded to the same
messages at the same distances in time, in their order, up to the first system
exclusive message. All times are off by `Slip`, which is what the 32 bits of the
timestamp lose of the first one, and which is nothing (`NoSlip`) from -2^31 up to
2^31 - 1. One message is read back from its own bytes, given the running status
both ends agree on, and a variable-length number from its digits. The two loops
are then followed side by side. `Rounds` says that the encoder's loop is a
sequence of byte strings in which each extends the one before by its message's
item; `Splits` that what comes behind message i is the items of the others. The
decoder's invariant `Reader` is that after i messages it has left what the encoder
wrote behind these, and its status and time are the encoder's at that place. A
system exclusive message leaves the decoder with its data up to the end of the
packet.

**DeviceProofs**: each property of the run `device`, for any clocks, controllers,
timers and channels, any rates, any batch up to `BufferSize \div 8`, and any
sequence of calls in the range above.

- `ClockRefsCorrect`, `RefsCorrect`, `TypeCorrect`. The invariants add that the
  counters are numbers and that slots and pointers hold nothing else
  (`ObjectInv`, `HeldInv`). A controller that is attached to all channels, or
  replaced on one of them, is counted by `InSlots`, slot by slot.
- `DriverClockKept`: while a driver has a clock, no step changes that clock. The
  application can name it, as the global one that the driver shares, but then the
  clock has two owners (`NamedCounted`), and the calls that set a clock refuse.
- `TickCorrect`, `ConvertCorrect` and `SteadyCorrect`: `TickExact`, `ConvertExact`
  and `Steady`, from `CellInv`: a clock in use has a positive denominator and the
  fraction of its rate, or it stands still. Reducing divides a fraction by a prime
  of both as long as there is one; each round makes the fraction smaller, so the
  loop ends (`Recursion`), and keeps its value (`Reduced`, `Divided`). `Steady` then
  is that a positive fraction does not turn time back, and `DriverClockKept`.
- `CallSaid`: the message made of a call by the setters of its properties, read by
  the getters of the dispatch, is that call, for every kind of message and value.
- `DeliveryCorrect` and `TimesCorrect`: `Delivered` and `TimesKept`, from `QueueInv`.
  The queue holds, for the last calls made, messages that say them (`Says`), with
  stamps that do not decrease. A packet is the first of them, so with `PacketKept`
  and `CallSaid` the receiver hears what was meant (`Tells`). `TimesKept` speaks of
  behaviours in which two messages in a row are less than 2^28 ticks apart, as
  no delta time says more; there the message arrives early. It says that
  the distances within a packet stay, and that the times do if the first has 31 bits.
- `EntryCorrect`: `EntryFollows`, from `AllAgree`: of each controller the two bytes
  of data entry make the number of its history modulo 2^14, and the lower byte is
  below 128, without which the carry of an increment is wrong. A call that a
  system exclusive message in front of it swallows counts for neither, nor does one
  on another channel than the base channel.

**PortGraphProofs**: for any ports, drivers, modes and operations, from outside
and from callbacks,

- `TypeCorrect`: `Spec => []TypeOK`,
- `RefsCorrect`: `Spec => []RefsExact`,
- `TargetCorrect`: `Spec => []TargetAlive`,
- `EachOnceCorrect`: `Spec => []EachOnce`,
- `ReclaimedCorrect`: `Spec => []Reclaimed`, if the application is not careless.
  That it needs: with `Careless`, TLC finds seven calls that leave a cycle through a
  port that was invalid when it was connected. The four before hold for any
  application.
- `NoEchoCorrect`: `Spec => []NoEcho`, for one THRU port and one loopback driver, if
  callbacks do not send and the application is not careless. Two THRU ports in a
  circle pass a message on for ever, and so do two loopback drivers.
- `CascadeEndsCorrect`: `Spec => []CascadeEnds`, if there is room for 13 calls
  more than there are ports and the application is not careless.

`TargetCorrect` needs `Owned`: a driver that lives holds its port, and the port of
one that is gone is invalid, whoever else keeps it. `TypeCorrect` needs it too,
for the reference the driver gives back. `RefsExact` speaks of the moments between
the calls; within a cascade no counter is the number of owners and entries.
`Counted` says what it is then. `Balanced` adds to the owners and entries the
calls that have still to release the port, and takes away the removals that have
released the item of their entry but not unlinked the entry. That the entry is
still that item's when it is unlinked is `Promised`, which needs that addresses in
a list are distinct (`Unique`). Each step of a call changes a counter, a list and
the stack by amounts that cancel: `Weight` is what the calls hold less what they
owe, and the lemmas `BecomeOne`, `BecomeTwo` and `BecomeThree` say what a step
does to it. `EachOnceCorrect` follows from `Turns`. For each send under way, the
entries of the list before its next one were handed on, if it began with them, and
those from there on were not. This is about positions in a list from which
callbacks, and whatever they set off, may take entries at any place and to which
they may add at the front (`InTurnRemoved`, `InTurnAdded`).

`Reclaimed` follows from the counts once no list is left behind: a port that nobody
holds and that lives is in the list of another, which then must live and be valid.
Between the calls that is `Clean`, which holds in no cascade. What holds there is
that somebody is about to take the entries. A destroyed port that has entries is
being destroyed (`Dying`). An invalid port that has entries is being disconnected,
by a walk that has only those before it that the call on top of it removes; that
removal takes all of its item's, so what the walk has passed is gone (`Dissolving`,
`Covered`). `Tidy` says of each step of a cascade that it leaves no more behind than
this (`CascadeTidy`), wherever the releases of other ports take entries out of the
same list meanwhile (`CoveredShrinks`).

`NoEcho` needs to know which way a message has come, and `Route` says it in terms
of pairs of messages on the stack, whatever became of the connections meanwhile.
The source of a message changes at a loopback driver only (`Follows`); as long as
it stays, all who have the message send it on, so they are THRU ports, but for the
first, who may be the source. `NoSelf` is needed as well: no entry of a list leads
back to its own port.

`CascadeEnds` follows from `Nested`, which says of each call where it may stand. A
call is at most as deep as its kind allows (`Level`), one deeper for each
destruction below it, and four for each check. A port is destroyed once
(`Destroying`), so there are no more destructions than ports (`DestroyedFew`). A
check leads to invalid ports only and not to its own (`Over`), and an invalid port
has entries only while a walk disconnects it (`Dissolving`). There is one such
walk, as it is among the first two calls (`OneWalk`), so a check of an invalid
port can be above a check of a valid one, and no third one above both
(`CheckedFew`): that is the bound (`NestedFits`). A port whose last reference a
check drops is not one that is walked: its owner or the release that follows the
walk still has a reference, which the counts show (`WalkedWeight`).

Each safety property of a passing run is proved, and so are the two refinements,
step by step. Only model-checked is liveness: `SessionOpens`, `SyncEnds`,
`ReadServed`, `IdleServed`, `Stops` and `SendEnds`. Each rests on fairness, which
speaks of `ENABLED`, and on a measure that goes down along a behaviour; neither is
within reach of the prover.

## 6. Not modelled, and why

- Bytes of RTP and AppleMIDI headers, extensions and padding: written and read by
  one pair of functions each, without state. Buffers that are too small, and
  packet buffers, among them `info->iov` kept past the call it belongs to.
- Replacing a socket (`SetRTPSocket`, `SetControlSocket`, `SetPort`) and
  descriptors in general, queues of sockets, a datagram without signature that
  is never taken from the control socket.
- Receiver feedback, which this code parses but never sends; the arithmetic of
  synchronization timestamps, whose result nobody uses.
- The journal of RTP-MIDI, the timer, OSC: empty functions.
- The delegate of an external runloop, and the glue to CoreMIDI and
  CoreFoundation: calls into one platform's frameworks.
- The observer of a port; iterators over lists; omni and poly mode of a device;
  loading and storing of controller parameters: nothing in the repository calls
  or reads them.
- Events: a formatted string with a counter.
- Overflow of 64 bits in clocks, a clock whose rate is set to 0; deltas of 2^28
  ticks and more.

## 7. Plan

Done: the RTP session with its registry and proofs, the AppleMIDI protocol, the
runloop, ports, the way out, formats, clock, controller and device.

Left, in this order:

1. The RTP session with sockets: `RTPSessionSetSocket`, the descriptor the session
   keeps when the driver replaces its own, and the vector it keeps of a call.
2. The wire: queues of sockets, and headers with buffers of any size, for the
   length checks of `rtp.c` and `rtpmidi.c`.
3. Observers and iterators, if the repository comes to use them.
