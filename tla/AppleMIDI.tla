------------------------------ MODULE AppleMIDI ------------------------------
(***************************************************************************)
(* The session protocol of driver/applemidi/applemidi.c: drivers that      *)
(* invite, accept, synchronize and leave one another over datagrams.       *)
(*                                                                         *)
(* A driver has a control socket and, one port above, an RTP socket.  Each *)
(* datagram is handled in one call, except that an invitation, an accepted *)
(* invitation and an end of session trigger an event, which runs code of   *)
(* the application in the middle of _applemidi_respond.  That code may     *)
(* call the driver again.  Such a handler is split at the event: a Recv    *)
(* action up to it, an After action from there; callback is what the       *)
(* handler keeps in between, in its locals and in driver->command, which   *)
(* the calls of the application overwrite.                                 *)
(*                                                                         *)
(* A driver that is destroyed and created again is two elements of Drivers *)
(* on one host: the second has another SSRC.  The token is the time of the *)
(* driver's clock when it is created, so the second may have the same one. *)
(*                                                                         *)
(* A cell of the peer table is owned by its slot, and for the time of an   *)
(* event by the handler: RTPSession has the counters.  A cell without an   *)
(* owner is free (NULL); to read it sets fault, where the model stops.     *)
(***************************************************************************)
EXTENDS RTPPeerTable

CONSTANTS
    Drivers,      \* a driver is named by its SSRC
    HostOf,       \* the host a driver runs on
    TokenOf,      \* driver->token
    FirstUp,      \* the drivers that exist at the start
    Acceptors,    \* the drivers whose application may accept invitations
    Ops,          \* the calls the applications and the idle timer make
    Reentrant,    \* the calls they also make from an event
    MaxOps,       \* bound: calls of the applications that are counted
    Duplicating,  \* the network may deliver a datagram again
    Lossy         \* the network may lose a datagram

ASSUME DriverAssumption ==
    /\ Drivers \subseteq Nat /\ IsFiniteSet(Drivers)
    /\ FirstUp \subseteq Drivers /\ Acceptors \subseteq Drivers
    /\ \A n, m \in FirstUp : HostOf[n] = HostOf[m] => n = m
    /\ Reentrant \subseteq Ops
    /\ MaxOps \in Nat
    /\ Duplicating \in BOOLEAN /\ Lossy \in BOOLEAN

VARIABLES
    net,       \* datagrams in flight; a copy of one in flight adds nothing
    status,    \* "new", "up" or "gone"
    accept,    \* driver->accept
    table,     \* driver->rtp_session->peers
    heap,      \* ssrc and address of the allocated cells
    cur,       \* driver->peer
    sync,      \* driver->sync
    callback,  \* the handler that waits for its event to return, or NULL
    fault,     \* a freed cell has been read
    ops,       \* calls made so far
    sent       \* history: the invitations and data the applications sent

session == <<table, heap>>
vars == <<net, status, accept, session, cur, sync, callback, fault, ops, sent>>

-----------------------------------------------------------------------------
(* Addresses, datagrams and cells.                                         *)

Control == 0
RTP     == 1

Hosts  == {HostOf[n] : n \in Drivers}
Tokens == {TokenOf[n] : n \in Drivers}
Addrs  == Hosts \X {Control, RTP}
Others(n) == Hosts \ {HostOf[n]}

Addr(n, port) == <<HostOf[n], port>>

\* Mutant of RtpAddr: the port is kept.
RtpAddr_SamePort(a) == a

RtpAddr(a) == <<a[1], a[2] + 1>>

\* Mutant of ControlAddr: the wrong neighbour.
ControlAddr_Above(a) == <<a[1], a[2] + 1>>

ControlAddr(a) == <<a[1], a[2] - 1>>

\* BY goes one port below an entry, which need not be an RTP address.
Datagrams ==
    [type : {"IN", "OK", "NO", "BY", "CK", "RTP"}, src : Addrs,
     dst : Addrs \cup (Hosts \X {Control - 1}),
     ssrc : Drivers, token : Tokens \cup {NULL}, count : 0 .. 2]

\* An allocated struct RTPPeer, and what a handler keeps during its event.
Cells == [ssrc : Drivers, addr : Addrs]
Callbacks ==
    [type : {"IN", "OK", "BY"}, from : Addrs, addr : Addrs, token : Tokens,
     peer : Peers \cup {NULL}]

ASSUME NullAssumption == NULL \notin Cells \cup Callbacks

\* A command of driver n, sent from its socket port to address a.
Command(type, n, port, a, token, count) ==
    [type |-> type, src |-> Addr(n, port), dst |-> a, ssrc |-> n,
     token |-> token, count |-> count]

\* The session commands carry a token, CK carries a count, data neither.
SessionCommand(type, n, port, a, token) == Command(type, n, port, a, token, 0)
SyncCommand(n, port, a, count) == Command("CK", n, port, a, NULL, count)
Data(n, a) == Command("RTP", n, RTP, a, NULL, 0)

Send(D) == net' = net \cup D

\* An application makes its driver send D.
Request(D) == Send(D) /\ sent' = sent \cup D

\* The datagram m is taken from the network and those of D are sent.
Consume(m, D) == net' = (IF Duplicating THEN net ELSE net \ {m}) \cup D

Up(n) == status[n] = "up"

\* Datagram m of the given type has arrived at a socket of n, which is not
\* inside an event.
Arrived(type, n, m) ==
    /\ m.type = type
    /\ m.dst \in {Addr(n, Control), Addr(n, RTP)}
    /\ Up(n) /\ callback[n] = NULL

AtRTP(m) == m.dst[2] = RTP

Ssrc(n) == [p \in Peers |-> IF heap[n][p] = NULL THEN 0 ELSE heap[n][p].ssrc]

\* RTPPeerCreate and RTPSessionAddPeer for the sender of m in cell p.  keep says
\* that the handler does not give its own reference back yet; without it a cell
\* the full table did not take is free again.
Enter(n, m, p, keep) ==
    LET cell == [ssrc |-> m.ssrc, addr |-> m.src] IN
    /\ heap[n][p] = NULL
    /\ \/ \E s \in Slots :
             /\ FreeSlot(table[n], m.ssrc, s)
             /\ table' = [table EXCEPT ![n][s] = p]
             /\ heap' = [heap EXCEPT ![n][p] = cell]
       \/ /\ Full(table[n])
          /\ heap' = IF keep THEN [heap EXCEPT ![n][p] = cell] ELSE heap
          /\ UNCHANGED table

\* RTPSessionRemovePeer for the cell in slot s.  driver->peer is left alone.
\* The handler of an accepted invitation may still own the cell.
Leave(n, s) ==
    LET p == table[n][s] IN
    /\ table' = [table EXCEPT ![n][s] = NULL]
    /\ heap' = IF callback[n] # NULL /\ callback[n].type = "OK"
                  /\ callback[n].peer = p
               THEN heap ELSE [heap EXCEPT ![n][p] = NULL]

\* The handler of m waits for its event.  The locals it goes on with are the
\* command and a peer.
Trigger(n, m, p) ==
    callback' = [callback EXCEPT ![n] =
        [type |-> m.type, from |-> m.src, addr |-> m.src, token |-> m.token,
         peer |-> p]]

\* The event has returned.
Resume(n, type) ==
    /\ callback[n] # NULL /\ callback[n].type = type
    /\ callback' = [callback EXCEPT ![n] = NULL]

Init ==
    /\ net = {}
    /\ status = [n \in Drivers |-> IF n \in FirstUp THEN "up" ELSE "new"]
    /\ accept = [n \in Drivers |-> FALSE]
    /\ table = [n \in Drivers |-> EmptyTable]
    /\ heap = [n \in Drivers |-> [p \in Peers |-> NULL]]
    /\ cur = [n \in Drivers |-> NULL]
    /\ sync = [n \in Drivers |-> 0]
    /\ callback = [n \in Drivers |-> NULL]
    /\ fault = FALSE
    /\ ops = 0
    /\ sent = {}

-----------------------------------------------------------------------------
(* Calls of the applications.                                              *)

May(op, n) ==
    /\ op \in Ops /\ Up(n)
    /\ callback[n] = NULL \/ op \in Reentrant

Call(op, n) ==
    /\ May(op, n)
    /\ ops < MaxOps
    /\ ops' = ops + 1

\* _applemidi_invite and _applemidi_endsession compose in driver->command, which
\* is also the command an interrupted handler answers with.
Overwrite(n, a) ==
    callback' = IF callback[n] = NULL THEN callback
                ELSE [callback EXCEPT ![n].addr = a, ![n].token = TokenOf[n]]

MIDIDriverAppleMIDIAcceptFromAny(n) ==
    /\ May("accept", n) /\ n \in Acceptors
    /\ accept' = [accept EXCEPT ![n] = TRUE]
    /\ UNCHANGED <<net, status, session, cur, sync, callback, fault, ops, sent>>

MIDIDriverAppleMIDIAcceptFromNone(n) ==
    /\ May("refuse", n)
    /\ accept' = [accept EXCEPT ![n] = FALSE]
    /\ UNCHANGED <<net, status, session, cur, sync, callback, fault, ops, sent>>

\* a is the control address of another host.
MIDIDriverAppleMIDIAddPeer(n, a) ==
    /\ Call("add", n)
    /\ Request({SessionCommand("IN", n, Control, a, TokenOf[n])})
    /\ Overwrite(n, a)
    /\ UNCHANGED <<status, accept, session, cur, sync, fault>>

\* RTPSessionFindPeerByAddress: the first entry with address a is in slot s.
HasAddr(n, s, a) == table[n][s] # NULL /\ heap[n][table[n][s]].addr = a
FirstAt(n, s, a) ==
    HasAddr(n, s, a) /\ \A u \in Slots : HasAddr(n, u, a) => s <= u

MIDIDriverAppleMIDIRemovePeer(n, a) ==
    /\ Call("remove", n)
    /\ \/ \E s \in Slots :
             /\ FirstAt(n, s, a)
             /\ Leave(n, s)
             /\ Send({SessionCommand("BY", n, Control, a, TokenOf[n])})
             /\ Overwrite(n, a)
       \/ /\ \A s \in Slots : ~HasAddr(n, s, a)
          /\ UNCHANGED <<net, session, callback>>
    /\ UNCHANGED <<status, accept, cur, sync, fault, sent>>

\* A message of the application goes to every entry of the table.
MIDIDriverAppleMIDISendMessage(n) ==
    /\ Call("send", n)
    /\ Request({Data(n, heap[n][p].addr) : p \in Members(table[n])})
    /\ UNCHANGED <<status, accept, session, cur, sync, callback, fault>>

MIDIDriverAppleMIDICreate(n) ==
    /\ "create" \in Ops /\ status[n] = "new"
    /\ \A m \in Drivers : HostOf[m] = HostOf[n] => ~Up(m)
    /\ status' = [status EXCEPT ![n] = "up"]
    /\ UNCHANGED <<net, accept, session, cur, sync, callback, fault, ops, sent>>

\* _applemidi_disconnect_peer says BY at the control port of an entry.
Farewells(n) ==
    {SessionCommand("BY", n, Control, ControlAddr(heap[n][p].addr), TokenOf[n]) :
        p \in Members(table[n])}

\* _applemidi_disconnect says BY to every entry and empties the table.
MIDIDriverAppleMIDIDestroy(n) ==
    /\ Call("destroy", n) /\ callback[n] = NULL
    /\ Send(Farewells(n))
    /\ status' = [status EXCEPT ![n] = "gone"]
    /\ accept' = [accept EXCEPT ![n] = FALSE]
    /\ table' = [table EXCEPT ![n] = EmptyTable]
    /\ heap' = [heap EXCEPT ![n] = [p \in Peers |-> NULL]]
    /\ cur' = [cur EXCEPT ![n] = NULL]
    /\ sync' = [sync EXCEPT ![n] = 0]
    /\ UNCHANGED <<callback, fault, sent>>

-----------------------------------------------------------------------------
(* Handlers of datagrams.                                                  *)

\* An invitation at the control socket: the application hears of it first.
RecvControlInvitation(n, m) ==
    /\ Arrived("IN", n, m) /\ ~AtRTP(m)
    /\ Trigger(n, m, NULL)
    /\ Consume(m, {})
    /\ UNCHANGED <<status, accept, session, cur, sync, fault, ops, sent>>

\* Mutant of Answer: the token of the driver that answers.
Answer_OwnToken(n, port, a, token) ==
    SessionCommand(IF accept[n] THEN "OK" ELSE "NO", n, port, a, TokenOf[n])

Answer(n, port, a, token) ==
    SessionCommand(IF accept[n] THEN "OK" ELSE "NO", n, port, a, token)

AfterInvitation(n) ==
    /\ Resume(n, "IN")
    /\ Send({Answer(n, Control, callback[n].addr, callback[n].token)})
    /\ UNCHANGED <<status, accept, session, cur, sync, fault, ops, sent>>

\* An invitation at the RTP socket: the sender is entered, if it fits, and
\* answered OK in any case.
RecvRTPInvitation(n, m) ==
    /\ Arrived("IN", n, m) /\ AtRTP(m)
    /\ Consume(m, {Answer(n, RTP, m.src, m.token)})
    /\ IF accept[n] THEN \E p \in Peers : Enter(n, m, p, FALSE)
                    ELSE UNCHANGED session
    /\ UNCHANGED <<status, accept, cur, sync, callback, fault, ops, sent>>

\* Mutant of RecvControlAccepted: the token is not compared.
RecvControlAccepted_AnyToken(n, m) ==
    /\ Arrived("OK", n, m) /\ ~AtRTP(m)
    /\ Consume(m, {SessionCommand("IN", n, RTP, RtpAddr(m.src), TokenOf[n])})
    /\ UNCHANGED <<status, accept, session, cur, sync, callback, fault, ops, sent>>

\* OK at the control socket: the RTP port is invited next.
RecvControlAccepted(n, m) ==
    /\ Arrived("OK", n, m) /\ ~AtRTP(m)
    /\ m.token = TokenOf[n]
    /\ Consume(m, {SessionCommand("IN", n, RTP, RtpAddr(m.src), TokenOf[n])})
    /\ UNCHANGED <<status, accept, session, cur, sync, callback, fault, ops, sent>>

\* OK at the RTP socket: the sender is entered and the application told.
RecvRTPAccepted(n, m) ==
    /\ Arrived("OK", n, m) /\ AtRTP(m)
    /\ m.token = TokenOf[n]
    /\ \E p \in Peers : Enter(n, m, p, TRUE) /\ Trigger(n, m, p)
    /\ Consume(m, {})
    /\ UNCHANGED <<status, accept, cur, sync, fault, ops, sent>>

\* _applemidi_start_sync with address a.
StartSync(n, a) ==
    /\ Send({SyncCommand(n, RTP, a, 0)})
    /\ sync' = [sync EXCEPT ![n] = 1]

\* Mutant of AfterAccepted: the reference of the handler is kept.
AfterAccepted_Leaks(n) ==
    /\ Resume(n, "OK")
    /\ StartSync(n, callback[n].addr)
    /\ UNCHANGED <<status, accept, session, cur, fault, ops, sent>>

\* The handler gives its reference back and synchronizes with the address that
\* is now in driver->command.
AfterAccepted(n) ==
    LET p == callback[n].peer IN
    /\ Resume(n, "OK")
    /\ heap' = IF p \in Members(table[n]) THEN heap
               ELSE [heap EXCEPT ![n][p] = NULL]
    /\ StartSync(n, callback[n].addr)
    /\ UNCHANGED <<status, accept, table, cur, fault, ops, sent>>

\* An OK with another token, or a rejection: nothing is kept.
RecvIgnored(n, m) ==
    /\ \/ Arrived("OK", n, m) /\ m.token # TokenOf[n]
       \/ Arrived("NO", n, m)
    /\ Consume(m, {})
    /\ UNCHANGED <<status, accept, session, cur, sync, callback, fault, ops, sent>>

\* BY: the entry is looked up before the event ...
RecvEndSession(n, m) ==
    /\ Arrived("BY", n, m)
    /\ \/ \E s \in Slots : MatchSlot(table[n], Ssrc(n), m.ssrc, s)
                              /\ Trigger(n, m, table[n][s])
       \/ /\ \A s \in Slots : ~MatchSlot(table[n], Ssrc(n), m.ssrc, s)
          /\ Trigger(n, m, NULL)
    /\ Consume(m, {})
    /\ UNCHANGED <<status, accept, session, cur, sync, fault, ops, sent>>

\* ... and removed after it, by an address that may be stale by then.
AfterEndSession(n) ==
    LET p == callback[n].peer IN
    /\ Resume(n, "BY")
    /\ \/ p = NULL /\ UNCHANGED <<session, fault>>
       \/ /\ p # NULL /\ heap[n][p] = NULL
          /\ fault' = TRUE
          /\ UNCHANGED session
       \/ \E s \in Slots : /\ table[n][s] = p /\ p # NULL
                           /\ Leave(n, s)
                           /\ UNCHANGED fault
    /\ UNCHANGED <<net, status, accept, cur, sync, ops, sent>>

\* Mutant of SyncAfter: the last CK does not end the synchronization.
SyncAfter_Stays(k) == IF k = 1 THEN 0 ELSE 2

\* driver->sync after CK number k.
SyncAfter(k) == IF k = 0 THEN 2 ELSE 0

\* The CK that answers m, from the socket that received it.
SyncAnswers(n, m) ==
    IF m.count = 2 THEN {} ELSE {SyncCommand(n, m.dst[2], m.src, m.count + 1)}

\* CK: the sender, if it has an entry, becomes driver->peer.  It is answered in
\* any case.
RecvSync(n, m) ==
    /\ Arrived("CK", n, m)
    /\ \/ \E s \in Slots : /\ MatchSlot(table[n], Ssrc(n), m.ssrc, s)
                           /\ cur' = [cur EXCEPT ![n] = table[n][s]]
       \/ /\ \A s \in Slots : ~MatchSlot(table[n], Ssrc(n), m.ssrc, s)
          /\ UNCHANGED cur
    /\ sync' = [sync EXCEPT ![n] = SyncAfter(m.count)]
    /\ Consume(m, SyncAnswers(n, m))
    /\ UNCHANGED <<status, accept, session, callback, fault, ops, sent>>

\* Data: RTPSessionReceivePacket enters a sender it does not know, and reads
\* the cell again, which is free if the table did not take it.
RecvData(n, m) ==
    /\ Arrived("RTP", n, m) /\ AtRTP(m)
    /\ Consume(m, {})
    /\ IF \E s \in Slots : MatchSlot(table[n], Ssrc(n), m.ssrc, s)
       THEN UNCHANGED <<session, fault>>
       ELSE /\ \E p \in Peers : Enter(n, m, p, FALSE)
            /\ fault' = Full(table[n])
    /\ UNCHANGED <<status, accept, cur, sync, callback, ops, sent>>

-----------------------------------------------------------------------------
(* The idle timer and the network.                                         *)

\* _applemidi_idle_timeout: driver->peer moves on, and is synchronized with if
\* no synchronization is under way.
MIDIDriverAppleMIDIIdle(n) ==
    LET p == NextPeer(table[n], cur[n]) IN
    /\ "idle" \in Ops /\ Up(n) /\ callback[n] = NULL
    /\ cur' = [cur EXCEPT ![n] = p]
    /\ \/ /\ p = NULL \/ sync[n] # 0
          /\ UNCHANGED <<net, sync, fault>>
       \/ /\ p # NULL /\ sync[n] = 0
          /\ heap[n][p] = NULL
          /\ fault' = TRUE
          /\ UNCHANGED <<net, sync>>
       \/ /\ p # NULL /\ sync[n] = 0
          /\ heap[n][p] # NULL
          /\ StartSync(n, heap[n][p].addr)
          /\ UNCHANGED fault
    /\ UNCHANGED <<status, accept, session, callback, ops, sent>>

\* A datagram is lost, or arrives where nobody listens.
Lose(m) ==
    /\ \/ Lossy
       \/ ~Duplicating /\ \A n \in Drivers :
             Up(n) => m.dst \notin {Addr(n, Control), Addr(n, RTP)}
    /\ net' = net \ {m}
    /\ UNCHANGED <<status, accept, session, cur, sync, callback, fault, ops, sent>>

-----------------------------------------------------------------------------
Application(n) ==
    \/ MIDIDriverAppleMIDIAcceptFromAny(n)
    \/ MIDIDriverAppleMIDIAcceptFromNone(n)
    \/ \E h \in Others(n) : MIDIDriverAppleMIDIAddPeer(n, <<h, Control>>)
    \/ \E h \in Others(n), port \in {Control, RTP} :
          MIDIDriverAppleMIDIRemovePeer(n, <<h, port>>)
    \/ MIDIDriverAppleMIDISendMessage(n)
    \/ MIDIDriverAppleMIDICreate(n)
    \/ MIDIDriverAppleMIDIDestroy(n)

RecvInvitation(n, m) == RecvControlInvitation(n, m) \/ RecvRTPInvitation(n, m)
RecvAccepted(n, m)   == RecvControlAccepted(n, m) \/ RecvRTPAccepted(n, m)

Receive(n, m) ==
    \/ RecvInvitation(n, m)
    \/ RecvAccepted(n, m)
    \/ RecvIgnored(n, m)
    \/ RecvEndSession(n, m)
    \/ RecvSync(n, m)
    \/ RecvData(n, m)

Return(n) == AfterInvitation(n) \/ AfterAccepted(n) \/ AfterEndSession(n)

Next ==
    /\ ~fault
    /\ \/ \E n \in Drivers :
             \/ Application(n)
             \/ Return(n)
             \/ MIDIDriverAppleMIDIIdle(n)
             \/ \E m \in net : Receive(n, m)
       \/ \E m \in net : Lose(m)

Spec == Init /\ [][Next]_vars

\* The runloop reads its sockets, returns from its callbacks and runs out of
\* other work (midi/runloop.c), and a socket is read in the order of arrival, so
\* no datagram that is not lost waits behind others forever.
Fairness ==
    \A n \in Drivers :
        /\ WF_vars(~fault /\ Return(n))
        /\ WF_vars(~fault /\ MIDIDriverAppleMIDIIdle(n))
        /\ WF_vars(~fault /\ \E m \in net : RecvInvitation(n, m))
        /\ WF_vars(~fault /\ \E m \in net : RecvAccepted(n, m))
        /\ \A k \in 0 .. 2 :
              WF_vars(~fault /\ \E m \in net : m.count = k /\ RecvSync(n, m))

FairSpec == Spec /\ Fairness
-----------------------------------------------------------------------------
(* Properties.                                                             *)

\* The values the variables take.
TypeOK ==
    /\ net \subseteq Datagrams
    /\ status \in [Drivers -> {"new", "up", "gone"}]
    /\ accept \in [Drivers -> BOOLEAN]
    /\ table \in [Drivers -> [Slots -> Peers \cup {NULL}]]
    /\ heap \in [Drivers -> [Peers -> Cells \cup {NULL}]]
    /\ cur \in [Drivers -> Peers \cup {NULL}]
    /\ sync \in [Drivers -> 0 .. 2]
    /\ callback \in [Drivers -> Callbacks \cup {NULL}]
    /\ fault \in BOOLEAN
    /\ ops \in 0 .. MaxOps
    /\ sent \subseteq Datagrams

\* The drivers n has an entry for.
Known(n) == {heap[n][p].ssrc : p \in Members(table[n])}

\* An entry is the address of an allocated cell, and every allocated cell is an
\* entry or belongs to the handler that waits for its event: the handlers leak
\* no peer and free none that is still listed.
Owned ==
    \A n \in Drivers, p \in Peers :
        heap[n][p] # NULL <=>
            \/ p \in Members(table[n])
            \/ callback[n] # NULL /\ callback[n].type = "OK" /\ callback[n].peer = p

\* Every entry is the RTP address of its driver: the handshake goes from port to
\* port (applemidi.c:772-791, 842-866), so data and CK reach the RTP socket and
\* BY, one port below, the control socket.
EntriesReachable ==
    \A n \in Drivers : \A p \in Members(table[n]) :
        heap[n][p].addr = Addr(heap[n][p].ssrc, RTP)

\* The application of n, or of an earlier driver at its ports whose clock showed
\* the same, has invited the host of x.
Invites(n, x) ==
    \E m \in sent : /\ m.type = "IN" /\ m.token = TokenOf[n]
                    /\ m.src = Addr(n, Control) /\ m.dst = Addr(x, Control)

\* An entry of x whose address is that of n was sent a message.
Speaks(x, n) ==
    \E m \in sent : m.type = "RTP" /\ m.ssrc = x /\ m.dst = Addr(n, RTP)

\* A driver whose application accepts no invitations has entries only for those
\* it has invited, and for those that sent it data (rtp.c:807-811).  Datagrams
\* that are left over from an earlier driver at the same ports open no session
\* unless that driver had the same token (applemidi.c:855): then, and it is
\* ordinary where each driver starts a clock of its own, a driver can enter a
\* peer that only its predecessor invited.
Consent ==
    \A n \in Drivers \ Acceptors : \A x \in Known(n) : Invites(n, x) \/ Speaks(x, n)

\* On a network that loses nothing, an accepting driver and one that invites it
\* come to know each other.
SessionOpens ==
    \A n \in Drivers : \A x \in Drivers \ {n} :
        (/\ SessionCommand("IN", n, Control, Addr(x, Control), TokenOf[n]) \in net
         /\ accept[x])
        ~> (x \in Known(n) /\ n \in Known(x))

\* applemidi.c:1168, of MIDIDriverAppleMIDIIdle: "keep in sync with connected
\* peers".  A synchronization that was begun ends, so that idling can begin the
\* next one.
SyncEnds == \A n \in Drivers : sync[n] # 0 ~> sync[n] = 0
=============================================================================
