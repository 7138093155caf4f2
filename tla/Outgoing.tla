------------------------------ MODULE Outgoing ------------------------------
(* The way out of an AppleMIDI driver: MIDIDriverAppleMIDISendMessage puts a
   message into the outgoing queue, and whoever finds the RTP socket writable
   sends the queue to every peer of the session, some messages per packet.
   Composes MessageQueue, the peer table of the session and the driver's runloop
   source.

   One thread runs all of it. A packet goes to one peer per step; between those
   steps nothing else runs. What sendmsg does with a packet is open. *)
EXTENDS MessageQueue, FiniteSetsExt, SequencesExt

CONSTANTS
    MaxPeers, Peers,  \* see RTPPeerTable
    Batch,    \* APPLEMIDI_MAX_MESSAGES_PER_PACKET, 16 in the source
    MaxSends  \* bound: calls of SendMessage

ASSUME OutgoingAssumption ==
    Batch \in Nat \ {0} /\ MaxPeers \in Nat \ {0} /\ NULL \notin Peers

INSTANCE RTPPeerTable

VARIABLES
    queue,     \* driver->out_queue
    refs,      \* message->refs, 0 for a freed message
    held,      \* the messages the application has a reference to
    table,     \* the session's peers
    phase,     \* "idle", "sending" inside RTPMIDISessionSend, "gone" after Destroy
    batch,     \* the messages of the packet
    peer,      \* the peer that gets it next
    source,    \* what the runloop source waits for
    writable,  \* the sockets that accept a datagram
    taken,     \* history: all messages that left the queue
    served     \* history: how often a peer got the current packet, up to twice

vars == <<queue, refs, held, table, phase, batch, peer, source, writable, taken, served>>

Sockets == {"control", "rtp"}
Count(m, s) == Cardinality({i \in DOMAIN s : s[i] = m})

TypeOK ==
    /\ queue \in Queues /\ WellFormed(queue)
    /\ refs \in [Messages -> Nat] /\ held \subseteq Messages
    /\ table \in [Slots -> Peers \cup {NULL}]
    /\ phase \in {"idle", "sending", "gone"}
    /\ batch \in Seq(Messages) /\ Len(batch) <= Batch /\ taken \in Seq(Messages)
    /\ peer \in Peers \cup {NULL} /\ served \in [Peers -> 0 .. 2]
    /\ source \in [write : BOOLEAN, timeout : BOOLEAN]
    /\ writable \subseteq Sockets

\* A driver whose source was fetched for a runloop, which fills it in.
Init ==
    /\ queue = MIDIMessageQueueCreate /\ table = EmptyTable
    /\ refs = [m \in Messages |-> 0] /\ held = {}
    /\ phase = "idle" /\ batch = <<>> /\ peer = NULL /\ taken = <<>> /\ served = [p \in Peers |-> 0]
    /\ source = [write |-> FALSE, timeout |-> TRUE]
    /\ writable = Sockets

\* Mutant of UpdateRunloopSource: a queue of one message does not count.
Update_MoreThanOne(q) == source' = [write |-> q.length > 1, timeout |-> q.length <= 1]

\* With messages left the control socket is scheduled for writing, otherwise the
\* timeout. The incoming queue is never used.
UpdateRunloopSource(q) == source' = [write |-> q.length > 0, timeout |-> q.length = 0]

\* The queue after n messages were popped.
Popped(q, n) == LET after[i \in 0 .. n] == IF i = 0 THEN q ELSE MIDIMessageQueuePop(after[i - 1])
                IN  after[n]

\* How many messages the next packet takes.
Share(q) == Min({q.length, Batch})

\* _applemidi_write_fds for the sockets in ready, with q as the queue: the packet
\* is made and its way to the peers begins, or nothing is left to do.
WriteFds(q, ready) ==
    IF "rtp" \in ready /\ q.length > 0
    THEN LET n == Share(q)
             out == [i \in 1 .. n |-> MIDIMessageQueuePeek(Popped(q, i - 1))]
         IN  /\ queue' = Popped(q, n)
             /\ batch' = out
             /\ taken' = taken \o out
             /\ phase' = "sending" /\ peer' = NextPeer(table, NULL) /\ served' = [p \in Peers |-> 0]
             /\ UNCHANGED source
    ELSE /\ queue' = q
         /\ UpdateRunloopSource(q)
         /\ UNCHANGED <<batch, taken, phase, peer, served>>

\* The application makes a message, or lets it go.
MIDIMessageCreate(m) ==
    /\ phase = "idle" /\ refs[m] = 0
    /\ refs' = [refs EXCEPT ![m] = 1] /\ held' = held \cup {m}
    /\ UNCHANGED <<queue, table, phase, batch, peer, source, writable, taken, served>>

MIDIMessageRelease(m) ==
    /\ phase = "idle" /\ m \in held
    /\ refs' = [refs EXCEPT ![m] = @ - 1] /\ held' = held \ {m}
    /\ UNCHANGED <<queue, table, phase, batch, peer, source, writable, taken, served>>

\* The result of the push is ignored: without memory the message is not sent,
\* but what waits is.
MIDIDriverAppleMIDISendMessage(m) ==
    /\ phase = "idle" /\ m \in held
    /\ Len(taken) + queue.length < MaxSends
    /\ \/ \E c \in Cells \ queue.items :
             /\ refs' = [refs EXCEPT ![m] = @ + 1]
             /\ WriteFds(MIDIMessageQueuePush(queue, m, c), writable)
       \/ /\ queue.items = Cells
          /\ WriteFds(queue, writable)
          /\ UNCHANGED refs
    /\ UNCHANGED <<held, table, writable>>

MIDIDriverAppleMIDISend ==
    /\ phase = "idle"
    /\ WriteFds(queue, writable)
    /\ UNCHANGED <<refs, held, table, writable>>

\* The runloop calls the write callback with the socket it watches, once.
RunloopWrite ==
    /\ phase = "idle" /\ source.write /\ "control" \in writable
    /\ WriteFds(queue, {"control"})
    /\ UNCHANGED <<refs, held, table, writable>>

\* Mutant of SendPacket: a packet that fails ends the loop.
SendPacket_StopsOnFailure ==
    /\ phase = "sending" /\ peer # NULL
    /\ served' = [served EXCEPT ![peer] = Min({@ + 1, 2})]
    /\ peer' \in {NextPeer(table, peer), NULL}
    /\ UNCHANGED <<queue, refs, held, table, phase, batch, source, writable, taken>>

\* RTPSessionSendPacket for one peer. The loop goes on whatever its result is.
SendPacket ==
    /\ phase = "sending" /\ peer # NULL
    /\ served' = [served EXCEPT ![peer] = Min({@ + 1, 2})]
    /\ peer' = NextPeer(table, peer)
    /\ UNCHANGED <<queue, refs, held, table, phase, batch, source, writable, taken>>

\* Mutant of SendDone: the messages of the packet are not released.
SendDone_Leaks ==
    /\ phase = "sending" /\ peer = NULL
    /\ batch' = <<>>
    /\ phase' = "idle"
    /\ UpdateRunloopSource(queue)
    /\ UNCHANGED <<refs, queue, held, table, peer, writable, taken, served>>

\* Every peer was served: the driver releases what it popped.
SendDone ==
    /\ phase = "sending" /\ peer = NULL
    /\ refs' = [m \in Messages |-> refs[m] - Count(m, batch)]
    /\ batch' = <<>>
    /\ phase' = "idle"
    /\ UpdateRunloopSource(queue)
    /\ UNCHANGED <<queue, held, table, peer, writable, taken, served>>

\* RTPSessionAddPeer and RTPSessionRemovePeer, from a handler of the protocol:
\* a peer is a new cell when it is added.
Join(p) ==
    /\ phase = "idle" /\ p \notin Members(table)
    /\ \E x \in Slots, s \in Slots : FreeSlot(table, x, s) /\ table' = [table EXCEPT ![s] = p]
    /\ UNCHANGED <<queue, refs, held, phase, batch, peer, source, writable, taken, served>>

Leave(p) ==
    /\ phase = "idle" /\ p \in Members(table)
    /\ table' = [s \in Slots |-> IF table[s] = p THEN NULL ELSE table[s]]
    /\ UNCHANGED <<queue, refs, held, phase, batch, peer, source, writable, taken, served>>

\* The session goes, and the queue with what it holds.
MIDIDriverAppleMIDIDestroy ==
    /\ phase = "idle"
    /\ phase' = "gone"
    /\ refs' = [m \in Messages |-> refs[m] - Count(m, Contents(queue))]
    /\ queue' = MIDIMessageQueueCreate /\ table' = EmptyTable
    /\ UNCHANGED <<held, batch, peer, source, writable, taken, served>>

\* The network takes what is in the buffer of a socket, or does not.
Drain == phase # "gone" /\ writable' = Sockets
         /\ UNCHANGED <<queue, refs, held, table, phase, batch, peer, source, taken, served>>

Fill(s) == phase # "gone" /\ writable' = writable \ {s}
           /\ UNCHANGED <<queue, refs, held, table, phase, batch, peer, source, taken, served>>

Application ==
    \/ \E m \in Messages : \/ MIDIMessageCreate(m) \/ MIDIMessageRelease(m)
                           \/ MIDIDriverAppleMIDISendMessage(m)
    \/ MIDIDriverAppleMIDISend \/ MIDIDriverAppleMIDIDestroy
    \/ \E p \in Peers : Join(p) \/ Leave(p)

Sending == SendPacket \/ SendDone

Next == Application \/ Sending \/ RunloopWrite \/ Drain \/ \E s \in Sockets : Fill(s)

Spec == Init /\ [][Next]_vars

\* A call goes on until it returns, the runloop runs, and the network takes what
\* it was given. Nobody has to call.
FairSpec == Spec /\ WF_vars(Sending) /\ WF_vars(RunloopWrite) /\ WF_vars(Drain)
-----------------------------------------------------------------------------
\* A message lives as long as the application, the queue or a packet needs it:
\* MIDIMessageQueuePop passes the queue's reference on, and whoever popped
\* releases it after the packet went out.
RefsExact ==
    \A m \in Messages :
        refs[m] = (IF m \in held THEN 1 ELSE 0) + Count(m, Contents(queue)) + Count(m, batch)

\* While a packet goes round, every peer before the loop's position got it once
\* and no other did; the loop ends after the last.
Broadcast ==
    phase = "sending" =>
        /\ \A p \in Peers : served[p] <= IF p \in Members(table) \ {peer} THEN 1 ELSE 0
        /\ peer = NULL => \A p \in Members(table) : served[p] = 1

\* Between calls the source waits to write exactly when messages are left, and
\* for its timeout exactly when none are (_applemidi_update_runloop_source).
Interested == phase = "idle" => source = [write |-> queue.length > 0, timeout |-> queue.length = 0]

\* The queue is a FIFO: whatever the capacity of the packets, the failures of
\* malloc and the sockets, messages leave in the order they entered, once each.
Queue == INSTANCE FIFO WITH waiting <- Contents(queue), taken <- taken
ImplementsFIFO == Queue!Spec

\* A packet that is under way reaches the end of the peer table.
SendEnds == phase = "sending" ~> phase # "sending"

\* "If the driver needs to write data, enable the write callback": while the RTP
\* socket accepts data, what was left in the queue is sent.
Flushed == queue.length > 0 ~> (queue.length = 0 \/ "rtp" \notin writable)
=============================================================================
