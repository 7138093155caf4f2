-------------------------- MODULE AppleMIDIProofs --------------------------
(***************************************************************************)
(* The safety of AppleMIDI for any drivers, hosts and tables, any number   *)
(* of calls, from events as well, and a network that loses, repeats and    *)
(* reorders.                                                               *)
(*                                                                         *)
(* Whether an entry leads to an RTP socket depends on the datagram that    *)
(* entered it, which was composed by another driver from a datagram, and   *)
(* so on: Mailed says of each datagram which ports it comes from and leads *)
(* to.  A handler whose command was overwritten during its event breaks    *)
(* this order; Strays says what its answer looks like.                     *)
(*                                                                         *)
(* No token is assumed to differ from another, but Straight says what it   *)
(* takes that nobody takes an answer that went astray for the answer to an *)
(* invitation of its own: no event invites or removes a peer, or the       *)
(* drivers of different hosts have different tokens.                       *)
(***************************************************************************)
EXTENDS AppleMIDI, LeastNumber

\* The calls that overwrite driver->command are also made from events.
Overwriting == Reentrant \cap {"add", "remove"} # {}

Straight ==
    Overwriting => \A n, x \in Drivers : HostOf[n] # HostOf[x] => TokenOf[n] # TokenOf[x]

\* An acceptance that its sender composed as an invitation to somebody else.
Strays(ssrc, token, addr) ==
    Overwriting /\ token = TokenOf[ssrc] /\ addr[1] # HostOf[ssrc]

\* Sessions and data come from a socket of their sender; invitations go from
\* port to port of the same kind, and so do acceptances.
Mailed(m) ==
    /\ m \in Datagrams
    /\ m.type # "CK" => m.src = Addr(m.ssrc, m.src[2])
    /\ m.type \in {"IN", "OK", "NO", "BY"} => m.token \in Tokens
    /\ m.type = "IN" => m.src[2] = m.dst[2]
    /\ m.type = "OK" => \/ m.src[2] = m.dst[2]
                        \/ m.src[2] = Control /\ Strays(m.ssrc, m.token, m.dst)
    /\ m.type = "RTP" => m.src[2] = RTP

MailInv == \A m \in net : Mailed(m)

\* The address of a cell is one of its driver.
Placed(cell) == cell.addr = Addr(cell.ssrc, cell.addr[2]) /\ (Straight => cell.addr[2] = RTP)

\* The table, the cells and the waiting handler of driver n: no cell is in two
\* slots, each has an owner and its place, and the answer to an invitation
\* will go to a control port or astray.
Keeps(c, p) == c # NULL /\ c.type = "OK" /\ c.peer = p

Sound(n, t, h, c) ==
    /\ t \in [Slots -> Peers \cup {NULL}]
    /\ h \in [Peers -> Cells \cup {NULL}]
    /\ c \in Callbacks \cup {NULL}
    /\ \A s, u \in Slots : t[s] # NULL /\ t[s] = t[u] => s = u
    /\ \A p \in Peers : h[p] # NULL <=> (p \in Members(t) \/ Keeps(c, p))
    /\ \A p \in Peers : h[p] # NULL => Placed(h[p])
    /\ c # NULL /\ c.type = "IN" => c.addr[2] = Control \/ Strays(n, c.token, c.addr)

SessionInv ==
    /\ table \in [Drivers -> [Slots -> Peers \cup {NULL}]]
    /\ heap \in [Drivers -> [Peers -> Cells \cup {NULL}]]
    /\ callback \in [Drivers -> Callbacks \cup {NULL}]
    /\ \A n \in Drivers : Sound(n, table[n], heap[n], callback[n])

\* The other variables keep their types.
RestInv ==
    /\ status \in [Drivers -> {"new", "up", "gone"}]
    /\ accept \in [Drivers -> BOOLEAN]
    /\ cur \in [Drivers -> Peers \cup {NULL}]
    /\ sync \in [Drivers -> 0 .. 2]
    /\ fault \in BOOLEAN
    /\ ops \in 0 .. MaxOps
    /\ sent \subseteq Datagrams

SafeInv == MailInv /\ SessionInv /\ RestInv

-----------------------------------------------------------------------------
(* What the invariant says of the properties.                              *)

\* The invariant implies the properties.
LEMMA SafeProperties == SafeInv => TypeOK /\ Owned /\ (Straight => EntriesReachable)
<1> SUFFICES ASSUME SafeInv PROVE TypeOK /\ Owned /\ (Straight => EntriesReachable)
  OBVIOUS
<1>1. TypeOK
  BY DEF SafeInv, MailInv, Mailed, SessionInv, RestInv, TypeOK
<1>2. Owned
  BY DEF SafeInv, SessionInv, Sound, Keeps, Owned
<1>3. ASSUME Straight PROVE EntriesReachable
  <2> SUFFICES ASSUME NEW n \in Drivers, NEW p \in Members(table[n])
               PROVE  heap[n][p].addr = Addr(heap[n][p].ssrc, RTP)
    BY DEF EntriesReachable
  <2>1. Sound(n, table[n], heap[n], callback[n])
    BY DEF SafeInv, SessionInv
  <2>2. p \in Peers
    BY <2>1 DEF Sound, Members
  <2>3. p # NULL /\ heap[n][p] # NULL
    BY <2>1, <2>2, TableAssumption DEF Sound
  <2> QED BY <1>3, <2>1, <2>2, <2>3 DEF Sound, Placed
<1> QED BY <1>1, <1>2, <1>3

-----------------------------------------------------------------------------
(* The parts of a step.                                                    *)

\* A network that gained only datagrams that are all right.
LEMMA MailKept ==
    ASSUME MailInv, NEW D, net' \subseteq net \cup D, \A m \in D : Mailed(m)
    PROVE  MailInv'
BY DEF MailInv

\* Sending adds datagrams.
LEMMA Sent == ASSUME NEW D, Send(D) PROVE net' \subseteq net \cup D
BY DEF Send

\* Consuming one adds its answers at most.
LEMMA Consumed == ASSUME NEW D, NEW m, Consume(m, D) PROVE net' \subseteq net \cup D
BY DEF Consume

\* One driver's table, cells and handler change.
LEMMA SessionKept ==
    ASSUME SessionInv, NEW n \in Drivers, NEW t, NEW h, NEW c, Sound(n, t, h, c),
           table' = [table EXCEPT ![n] = t], heap' = [heap EXCEPT ![n] = h],
           callback' = [callback EXCEPT ![n] = c]
    PROVE  SessionInv'
<1>1. /\ t \in [Slots -> Peers \cup {NULL}]
      /\ h \in [Peers -> Cells \cup {NULL}]
      /\ c \in Callbacks \cup {NULL}
  BY DEF Sound
<1>2. /\ table' \in [Drivers -> [Slots -> Peers \cup {NULL}]]
      /\ heap' \in [Drivers -> [Peers -> Cells \cup {NULL}]]
      /\ callback' \in [Drivers -> Callbacks \cup {NULL}]
  BY <1>1 DEF SessionInv
<1>3. ASSUME NEW x \in Drivers PROVE Sound(x, table'[x], heap'[x], callback'[x])
  <2>1. CASE x = n
    <3>1. table'[x] = t /\ heap'[x] = h /\ callback'[x] = c
      BY <2>1 DEF SessionInv
    <3> QED BY <2>1, <3>1
  <2>2. CASE x # n
    <3>1. table'[x] = table[x] /\ heap'[x] = heap[x] /\ callback'[x] = callback[x]
      BY <2>2 DEF SessionInv
    <3> QED BY <3>1 DEF SessionInv
  <2> QED BY <2>1, <2>2
<1> QED BY <1>2, <1>3 DEF SessionInv

\* Nothing of a session changes.
LEMMA SessionSame == ASSUME SessionInv, UNCHANGED <<table, heap, callback>> PROVE SessionInv'
BY DEF SessionInv

\* Only the waiting handler changes, and does not come to own or lose a cell.
LEMMA HandlerKept ==
    ASSUME SessionInv, NEW n \in Drivers, UNCHANGED session, NEW c \in Callbacks \cup {NULL},
           callback' = [callback EXCEPT ![n] = c],
           \A p \in Peers : Keeps(c, p) <=> Keeps(callback[n], p),
           c # NULL /\ c.type = "IN" => c.addr[2] = Control \/ Strays(n, c.token, c.addr)
    PROVE  SessionInv'
<1>1. Sound(n, table[n], heap[n], callback[n])
  BY DEF SessionInv
<1>2. Sound(n, table[n], heap[n], c)
  BY <1>1 DEF Sound
<1>3. table' = [table EXCEPT ![n] = table[n]] /\ heap' = [heap EXCEPT ![n] = heap[n]]
  BY DEF session, SessionInv
<1> QED BY <1>2, <1>3, SessionKept

\* A free cell enters a free slot, for a handler that keeps a reference or not.
LEMMA SlotTaken ==
    ASSUME NEW n \in Drivers, NEW t, NEW h, NEW d \in Callbacks \cup {NULL},
           Sound(n, t, h, NULL), NEW p \in Peers, h[p] = NULL,
           NEW s \in Slots, t[s] = NULL, NEW cell \in Cells, Placed(cell),
           d = NULL \/ (d.type = "OK" /\ d.peer = p)
    PROVE  Sound(n, [t EXCEPT ![s] = p], [h EXCEPT ![p] = cell], d)
<1> DEFINE u == [t EXCEPT ![s] = p]
           g == [h EXCEPT ![p] = cell]
<1>1. t \in [Slots -> Peers \cup {NULL}] /\ h \in [Peers -> Cells \cup {NULL}] /\ p # NULL /\ cell # NULL
  BY TableAssumption, NullAssumption DEF Sound
<1>2. p \notin Members(t)
  BY <1>1 DEF Sound
<1>3. Members(u) = Members(t) \cup {p}
  BY <1>1 DEF Members
<1>4. \A i, j \in Slots : u[i] # NULL /\ u[i] = u[j] => i = j
  BY <1>1, <1>2 DEF Sound, Members
<1>5. \A q \in Peers : g[q] # NULL <=> (q \in Members(u) \/ Keeps(d, q))
  BY <1>1, <1>3 DEF Sound, Keeps
<1>6. \A q \in Peers : g[q] # NULL => Placed(g[q])
  BY <1>1 DEF Sound
<1>7. u \in [Slots -> Peers \cup {NULL}] /\ g \in [Peers -> Cells \cup {NULL}]
  BY <1>1
<1> QED BY <1>4, <1>5, <1>6, <1>7 DEF Sound

\* A cell that the full table did not take stays with the handler.
LEMMA CellKept ==
    ASSUME NEW n \in Drivers, NEW t, NEW h, NEW d \in Callbacks,
           Sound(n, t, h, NULL), NEW p \in Peers, h[p] = NULL,
           NEW cell \in Cells, Placed(cell),
           d.type = "OK", d.peer = p
    PROVE  Sound(n, t, [h EXCEPT ![p] = cell], d)
BY NullAssumption DEF Sound, Keeps

\* A slot is cleared: its cell is free, unless the handler has it.
LEMMA SlotLeft ==
    ASSUME NEW n \in Drivers, NEW t, NEW h, NEW c, Sound(n, t, h, c),
           NEW s \in Slots, t[s] # NULL
    PROVE  Sound(n, [t EXCEPT ![s] = NULL], IF Keeps(c, t[s]) THEN h ELSE [h EXCEPT ![t[s]] = NULL], c)
<1> DEFINE p == t[s]
           u == [t EXCEPT ![s] = NULL]
           g == IF Keeps(c, p) THEN h ELSE [h EXCEPT ![p] = NULL]
<1>1. t \in [Slots -> Peers \cup {NULL}] /\ h \in [Peers -> Cells \cup {NULL}] /\ p \in Peers
  BY DEF Sound
<1>2. Members(u) = Members(t) \ {p}
  <2>1. \A i \in Slots : t[i] = p => i = s
    BY DEF Sound
  <2>2. \A i \in Slots : u[i] = IF i = s THEN NULL ELSE t[i]
    BY <1>1
  <2> QED BY <1>1, <2>1, <2>2, TableAssumption DEF Members
<1>3. \A i, j \in Slots : u[i] # NULL /\ u[i] = u[j] => i = j
  BY <1>1 DEF Sound
<1>4. \A q \in Peers : g[q] # NULL <=> (q \in Members(u) \/ Keeps(c, q))
  <2>1. \A q \in Peers : g[q] = IF ~Keeps(c, p) /\ q = p THEN NULL ELSE h[q]
    BY <1>1
  <2>2. \A q \in Peers : h[q] # NULL <=> (q \in Members(t) \/ Keeps(c, q))
    BY DEF Sound
  <2>3. p \in Members(t)
    BY <1>1, TableAssumption DEF Members
  <2> HIDE DEF g, u, p
  <2> QED BY <1>2, <2>1, <2>2, <2>3
<1>5. \A q \in Peers : g[q] # NULL => Placed(g[q])
  BY <1>1 DEF Sound
<1>6. u \in [Slots -> Peers \cup {NULL}] /\ g \in [Peers -> Cells \cup {NULL}]
  BY <1>1
<1> QED BY <1>3, <1>4, <1>5, <1>6 DEF Sound

\* The next peer is one of the table, or the pointer that was given.
LEMMA NextPeerType ==
    ASSUME NEW t \in [Slots -> Peers \cup {NULL}], NEW p \in Peers \cup {NULL}
    PROVE  NextPeer(t, p) \in Peers \cup {NULL}
<1> DEFINE later == {s \in Slots : /\ t[s] # NULL
                                   /\ p # NULL => \E u \in SlotsOf(t, p) : u < s}
           first == CHOOSE s \in later : \A u \in later : s <= u
<1>1. CASE later # {}
  <2>1. later \subseteq Nat
    BY TableAssumption DEF Slots
  <2>2. \E s \in later : \A u \in later : s <= u
    <3> HIDE DEF later
    <3> QED BY <1>1, <2>1, Least
  <2>3. first \in later
    <3> HIDE DEF later
    <3> QED BY <2>2
  <2>4. first \in Slots
    BY <2>3
  <2>5. t[first] \in Peers \cup {NULL}
    <3> HIDE DEF first
    <3> QED BY <2>4
  <2>6. NextPeer(t, p) = p \/ NextPeer(t, p) = NULL \/ NextPeer(t, p) = t[first]
    BY DEF NextPeer
  <2> QED BY <2>5, <2>6
<1>2. CASE later = {}
  BY <1>2 DEF NextPeer
<1> QED BY <1>1, <1>2

-----------------------------------------------------------------------------
(* The initial state and the steps.                                        *)

\* The invariant holds at the start.
LEMMA InitHolds == Init => SafeInv
<1> SUFFICES ASSUME Init PROVE SafeInv
  OBVIOUS
<1>1. MailInv
  BY DEF Init, MailInv
<1>2. RestInv
  <2>1. 0 \in 0 .. MaxOps /\ 0 \in 0 .. 2
    BY DriverAssumption
  <2>2. status \in [Drivers -> {"new", "up", "gone"}]
    BY DEF Init
  <2> QED BY <2>1, <2>2 DEF Init, RestInv
<1>3. SessionInv
  <2>1. /\ table \in [Drivers -> [Slots -> Peers \cup {NULL}]]
        /\ heap \in [Drivers -> [Peers -> Cells \cup {NULL}]]
        /\ callback \in [Drivers -> Callbacks \cup {NULL}]
    BY DEF Init, EmptyTable
  <2>2. ASSUME NEW n \in Drivers PROVE Sound(n, EmptyTable, [p \in Peers |-> NULL], NULL)
    BY TableAssumption DEF Sound, EmptyTable, Members, Keeps
  <2>3. ASSUME NEW n \in Drivers PROVE Sound(n, table[n], heap[n], callback[n])
    BY <2>2 DEF Init
  <2> QED BY <2>1, <2>3 DEF SessionInv
<1> QED BY <1>1, <1>2, <1>3 DEF SafeInv

\* What a call leaves alone or counts.
LEMMA RestSame ==
    ASSUME RestInv, UNCHANGED <<status, accept, cur, sync, fault, ops, sent>>
    PROVE  RestInv'
BY DEF RestInv

\* The addresses of a driver and of the other hosts.
LEMMA Addresses ==
    ASSUME NEW n \in Drivers
    PROVE  /\ \A port \in {Control, RTP} : Addr(n, port) \in Addrs /\ Addr(n, port)[2] = port
           /\ \A h \in Others(n), port \in {Control, RTP} :
                 <<h, port>> \in Addrs /\ h # HostOf[n]
           /\ TokenOf[n] \in Tokens
BY DEF Addr, Addrs, Hosts, Others, Tokens

\* A session command of driver n.
LEMMA CommandMailed ==
    ASSUME NEW n \in Drivers, NEW type \in {"IN", "OK", "NO", "BY"}, NEW port \in {Control, RTP},
           NEW a, a \in Addrs \/ (type = "BY" /\ a \in Hosts \X {Control - 1}),
           NEW token \in Tokens,
           type = "IN" => a[2] = port,
           type = "OK" => a[2] = port \/ (port = Control /\ Strays(n, token, a))
    PROVE  Mailed(SessionCommand(type, n, port, a, token))
BY Addresses DEF Mailed, SessionCommand, Command, Datagrams

\* A CK of driver n, from either socket.
LEMMA SyncMailed ==
    ASSUME NEW n \in Drivers, NEW port \in {Control, RTP}, NEW a \in Addrs, NEW k \in 0 .. 2
    PROVE  Mailed(SyncCommand(n, port, a, k))
BY Addresses DEF Mailed, SyncCommand, Command, Datagrams

\* Data of driver n.
LEMMA DataMailed == ASSUME NEW n \in Drivers, NEW a \in Addrs PROVE Mailed(Data(n, a))
BY Addresses DEF Mailed, Data, Command, Datagrams

\* A call that composes for another host takes the waiting handler's answer
\* astray, and leaves its cell alone.
LEMMA Overwritten ==
    ASSUME SessionInv, NEW n \in Drivers, NEW a \in Addrs, a[1] # HostOf[n], Overwrite(n, a),
           callback[n] # NULL => Overwriting
    PROVE  \E c : /\ callback' = [callback EXCEPT ![n] = c]
                  /\ c # NULL => Strays(n, c.token, c.addr)
                  /\ \A t, h : Sound(n, t, h, callback[n]) => Sound(n, t, h, c)
<1>1. CASE callback[n] = NULL
  <2>1. callback' = [callback EXCEPT ![n] = callback[n]]
    BY <1>1 DEF Overwrite, SessionInv
  <2> QED BY <1>1, <2>1
<1>2. CASE callback[n] # NULL
  <2> DEFINE c == [callback[n] EXCEPT !.addr = a, !.token = TokenOf[n]]
  <2>1. callback' = [callback EXCEPT ![n] = c]
    BY <1>2 DEF Overwrite
  <2>2. callback[n] \in Callbacks
    BY <1>2 DEF SessionInv
  <2>3. /\ c \in Callbacks /\ c # NULL
        /\ c.type = callback[n].type /\ c.peer = callback[n].peer
        /\ Strays(n, c.token, c.addr)
    BY <1>2, <2>2, Addresses, NullAssumption DEF Callbacks, Strays
  <2>4. \A p : Keeps(c, p) <=> Keeps(callback[n], p)
    BY <1>2, <2>3 DEF Keeps
  <2> HIDE DEF c
  <2>5. ASSUME NEW t, NEW h, Sound(n, t, h, callback[n]) PROVE Sound(n, t, h, c)
    BY <2>3, <2>4, <2>5 DEF Sound
  <2> QED BY <2>1, <2>3, <2>5
<1> QED BY <1>1, <1>2

\* RTPSessionRemovePeer, by a call or by a handler.
LEMMA LeaveSound ==
    ASSUME SessionInv, NEW n \in Drivers, NEW s \in Slots, table[n][s] # NULL, Leave(n, s)
    PROVE  \E t, h : /\ table' = [table EXCEPT ![n] = t] /\ heap' = [heap EXCEPT ![n] = h]
                     /\ Sound(n, t, h, callback[n])
<1> DEFINE t == [table[n] EXCEPT ![s] = NULL]
           h == IF Keeps(callback[n], table[n][s]) THEN heap[n] ELSE [heap[n] EXCEPT ![table[n][s]] = NULL]
<1>1. Sound(n, t, h, callback[n])
  <2>1. Sound(n, table[n], heap[n], callback[n])
    BY DEF SessionInv
  <2> QED BY <2>1, SlotLeft
<1>2. table' = [table EXCEPT ![n] = t]
  BY DEF Leave
<1>3. heap' = [heap EXCEPT ![n] = h]
  <2>1. CASE Keeps(callback[n], table[n][s])
    <3>1. heap' = heap /\ heap = [heap EXCEPT ![n] = heap[n]]
      BY <2>1 DEF Leave, Keeps, SessionInv
    <3> QED BY <2>1, <3>1
  <2>2. CASE ~Keeps(callback[n], table[n][s])
    <3>1. heap' = [heap EXCEPT ![n][table[n][s]] = NULL]
      BY <2>2 DEF Leave, Keeps
    <3> QED BY <2>2, <3>1
  <2> QED BY <2>1, <2>2
<1> HIDE DEF t, h
<1> QED BY <1>1, <1>2, <1>3

\* An entry is a cell with an address.
LEMMA EntryAddress ==
    ASSUME SessionInv, NEW n \in Drivers, NEW p \in Members(table[n])
    PROVE  /\ p \in Peers /\ heap[n][p] \in Cells
           /\ heap[n][p].addr \in Addrs
<1>1. Sound(n, table[n], heap[n], callback[n])
  BY DEF SessionInv
<1>2. p \in Peers
  BY <1>1 DEF Sound, Members
<1>3. heap[n][p] \in Cells
  BY <1>1, <1>2 DEF Sound
<1> QED BY <1>2, <1>3 DEF Cells

\* The calls that overwrite the command of a waiting handler come from events.
LEMMA Reentered ==
    ASSUME NEW op \in {"add", "remove"}, NEW n, Call(op, n)
    PROVE  callback[n] # NULL => Overwriting
BY DEF Call, May, Overwriting

\* The call that invites.
LEMMA AddPeerStep ==
    ASSUME SafeInv, NEW n \in Drivers, NEW h \in Others(n), MIDIDriverAppleMIDIAddPeer(n, <<h, Control>>)
    PROVE  SafeInv'
<1> DEFINE a == <<h, Control>>
<1> USE DEF MIDIDriverAppleMIDIAddPeer
<1>1. a \in Addrs /\ a[1] # HostOf[n] /\ a[2] = Control
  BY Addresses
<1>0. Mailed(SessionCommand("IN", n, Control, a, TokenOf[n]))
  BY <1>1, Addresses, CommandMailed
<1>2. MailInv'
  <2> QED BY <1>0, Sent, MailKept DEF SafeInv, Request
<1>3. SessionInv'
  <2>1. PICK c : /\ callback' = [callback EXCEPT ![n] = c]
                 /\ \A t, g : Sound(n, t, g, callback[n]) => Sound(n, t, g, c)
    <3>1. callback[n] # NULL => Overwriting
      BY Reentered
    <3> QED BY <1>1, <3>1, Overwritten DEF SafeInv
  <2>2. Sound(n, table[n], heap[n], c)
    BY <2>1 DEF SafeInv, SessionInv
  <2>3. table' = [table EXCEPT ![n] = table[n]] /\ heap' = [heap EXCEPT ![n] = heap[n]]
    BY DEF session, SafeInv, SessionInv
  <2> QED BY <2>1, <2>2, <2>3, SessionKept DEF SafeInv
<1>4. RestInv'
  BY <1>0, DriverAssumption DEF Call, Request, Mailed, SafeInv, RestInv
<1> QED BY <1>2, <1>3, <1>4 DEF SafeInv

\* The call that ends a session.
LEMMA RemovePeerStep ==
    ASSUME SafeInv, NEW n \in Drivers, NEW h \in Others(n), NEW port \in {Control, RTP},
           MIDIDriverAppleMIDIRemovePeer(n, <<h, port>>)
    PROVE  SafeInv'
<1> DEFINE a == <<h, port>>
<1>1. a \in Addrs /\ a[1] # HostOf[n]
  BY Addresses
<1>2. RestInv'
  BY DriverAssumption DEF MIDIDriverAppleMIDIRemovePeer, Call, SafeInv, RestInv
<1>3. CASE UNCHANGED <<net, session, callback>>
  BY <1>2, <1>3, SessionSame DEF SafeInv, MailInv, session
<1>4. ASSUME NEW s \in Slots, FirstAt(n, s, a), Leave(n, s),
             Send({SessionCommand("BY", n, Control, a, TokenOf[n])}), Overwrite(n, a)
      PROVE  SafeInv'
  <2>1. MailInv'
    <3>1. Mailed(SessionCommand("BY", n, Control, a, TokenOf[n]))
      BY <1>1, Addresses, CommandMailed
    <3> QED BY <1>4, <3>1, Sent, MailKept DEF SafeInv
  <2>2. PICK c : /\ callback' = [callback EXCEPT ![n] = c]
                 /\ \A t, g : Sound(n, t, g, callback[n]) => Sound(n, t, g, c)
    <3>1. callback[n] # NULL => Overwriting
      BY Reentered DEF MIDIDriverAppleMIDIRemovePeer
    <3> QED BY <1>1, <1>4, <3>1, Overwritten DEF SafeInv
  <2>3. table[n][s] # NULL
    BY <1>4 DEF FirstAt, HasAddr
  <2>4. PICK t, g : /\ table' = [table EXCEPT ![n] = t] /\ heap' = [heap EXCEPT ![n] = g]
                    /\ Sound(n, t, g, callback[n])
    BY <1>4, <2>3, LeaveSound DEF SafeInv
  <2>5. Sound(n, t, g, c)
    BY <2>2, <2>4
  <2>6. SessionInv'
    BY <2>2, <2>4, <2>5, SessionKept DEF SafeInv
  <2> QED BY <1>2, <2>1, <2>6 DEF SafeInv
<1> QED BY <1>3, <1>4 DEF MIDIDriverAppleMIDIRemovePeer

\* The call that sends to every entry.
LEMMA SendMessageStep ==
    ASSUME SafeInv, NEW n \in Drivers, MIDIDriverAppleMIDISendMessage(n)
    PROVE  SafeInv'
<1> USE DEF MIDIDriverAppleMIDISendMessage
<1> DEFINE D == {Data(n, heap[n][p].addr) : p \in Members(table[n])}
<1>0. Send(D) /\ sent' = sent \cup D
  BY DEF Request
<1>1. \A m \in D : Mailed(m)
  <2>1. ASSUME NEW p \in Members(table[n]) PROVE Mailed(Data(n, heap[n][p].addr))
    <3>1. heap[n][p].addr \in Addrs
      BY EntryAddress DEF SafeInv
    <3> QED BY <3>1, DataMailed
  <2> QED BY <2>1
<1> HIDE DEF D
<1>2. SessionInv'
  BY SessionSame DEF SafeInv, session
<1>3. MailInv' /\ RestInv'
  <2>1. MailInv'
    BY <1>0, <1>1, Sent, MailKept DEF SafeInv
  <2>2. sent' \subseteq Datagrams
    BY <1>0, <1>1 DEF Mailed, SafeInv, RestInv
  <2> QED BY <2>1, <2>2, DriverAssumption DEF Call, SafeInv, RestInv
<1> QED BY <1>1, <1>2, <1>3 DEF SafeInv

\* The destruction of a driver.
LEMMA DestroyStep ==
    ASSUME SafeInv, NEW n \in Drivers, MIDIDriverAppleMIDIDestroy(n)
    PROVE  SafeInv'
<1> USE DEF MIDIDriverAppleMIDIDestroy
<1>1. MailInv'
  <2>1. ASSUME NEW p \in Members(table[n])
        PROVE  Mailed(SessionCommand("BY", n, Control, ControlAddr(heap[n][p].addr), TokenOf[n]))
    <3>1. heap[n][p].addr \in Addrs
      BY EntryAddress DEF SafeInv
    <3>2. ControlAddr(heap[n][p].addr) \in Addrs \cup (Hosts \X {Control - 1})
      BY <3>1 DEF ControlAddr, Addrs, Control, RTP
    <3> QED BY <3>2, Addresses, CommandMailed
  <2>2. \A m \in Farewells(n) : Mailed(m)
    BY <2>1 DEF Farewells
  <2> QED BY <2>2, Sent, MailKept DEF SafeInv
<1>2. SessionInv'
  <2>1. Sound(n, EmptyTable, [p \in Peers |-> NULL], callback[n])
    BY TableAssumption DEF Call, Sound, EmptyTable, Members, Keeps
  <2>2. callback' = [callback EXCEPT ![n] = callback[n]]
    BY DEF SafeInv, SessionInv
  <2> QED BY <2>1, <2>2, SessionKept DEF SafeInv
<1>3. RestInv'
  BY DriverAssumption DEF Call, SafeInv, RestInv
<1> QED BY <1>1, <1>2, <1>3 DEF SafeInv

\* Any call.
LEMMA ApplicationStep ==
    ASSUME SafeInv, NEW n \in Drivers, Application(n)
    PROVE  SafeInv'
<1>1. CASE \/ MIDIDriverAppleMIDIAcceptFromAny(n)
           \/ MIDIDriverAppleMIDIAcceptFromNone(n)
           \/ MIDIDriverAppleMIDICreate(n)
  <2>1. UNCHANGED <<net, session, callback>>
    BY <1>1 DEF MIDIDriverAppleMIDIAcceptFromAny, MIDIDriverAppleMIDIAcceptFromNone, MIDIDriverAppleMIDICreate
  <2>2. RestInv'
    BY <1>1 DEF MIDIDriverAppleMIDIAcceptFromAny, MIDIDriverAppleMIDIAcceptFromNone,
                MIDIDriverAppleMIDICreate, SafeInv, RestInv
  <2> QED BY <2>1, <2>2, SessionSame DEF SafeInv, MailInv, session
<1> QED BY <1>1, AddPeerStep, RemovePeerStep, SendMessageStep, DestroyStep DEF Application

-----------------------------------------------------------------------------
(* The handlers of datagrams.                                              *)

\* A datagram that arrived at a socket, from one or the other port of a host.
LEMMA Arrival ==
    ASSUME SafeInv, NEW n \in Drivers, NEW m \in net, NEW type, Arrived(type, n, m)
    PROVE  /\ Mailed(m) /\ m.type = type /\ callback[n] = NULL
           /\ m.src \in Addrs /\ m.dst \in Addrs /\ m.ssrc \in Drivers
           /\ m.src = <<m.src[1], m.src[2]>>
           /\ m.src[1] \in Hosts /\ m.src[2] \in {Control, RTP}
           /\ m.dst[1] = HostOf[n] /\ m.dst[2] \in {Control, RTP}
<1>1. Mailed(m) /\ m \in Datagrams
  BY DEF SafeInv, MailInv, Mailed
<1>2. m.src \in Addrs /\ m.dst \in Addrs /\ m.ssrc \in Drivers
  BY <1>1, Addresses DEF Datagrams, Arrived
<1>3. /\ m.src = <<m.src[1], m.src[2]>> /\ m.src[1] \in Hosts
      /\ m.src[2] \in {Control, RTP}
  BY <1>2 DEF Addrs
<1>4. m.dst[1] = HostOf[n] /\ m.dst[2] \in {Control, RTP}
  BY DEF Arrived, Addr
<1> QED BY <1>1, <1>2, <1>3, <1>4 DEF Arrived

\* The sender of m can be entered by the address the datagram came from.
Sender(m) ==
    /\ m.ssrc \in Drivers /\ m.src \in Addrs
    /\ m.src = Addr(m.ssrc, m.src[2])
    /\ Straight => m.src[2] = RTP

\* A sender that is entered, for a handler that keeps its reference or not.
LEMMA EnterSound ==
    ASSUME SessionInv, NEW n \in Drivers, NEW m, NEW p \in Peers, NEW keep \in BOOLEAN,
           Enter(n, m, p, keep), callback[n] = NULL,
           Sender(m),
           NEW d \in Callbacks \cup {NULL},
           IF keep THEN d # NULL /\ d.type = "OK" /\ d.peer = p ELSE d = NULL
    PROVE  \E t, h : /\ table' = [table EXCEPT ![n] = t]
                     /\ heap' = [heap EXCEPT ![n] = h]
                     /\ Sound(n, t, h, d)
<1> DEFINE cell == [ssrc |-> m.ssrc, addr |-> m.src]
<1>1. cell \in Cells /\ Placed(cell)
  BY DEF Cells, Sender, Placed
<1>2. Sound(n, table[n], heap[n], NULL) /\ heap[n][p] = NULL
  BY DEF SessionInv, Enter
<1>3. table = [table EXCEPT ![n] = table[n]] /\ heap = [heap EXCEPT ![n] = heap[n]]
  BY DEF SessionInv
<1>4. ASSUME NEW s \in Slots, FreeSlot(table[n], m.ssrc, s),
             table' = [table EXCEPT ![n][s] = p], heap' = [heap EXCEPT ![n][p] = cell]
      PROVE  \E t, h : /\ table' = [table EXCEPT ![n] = t]
                       /\ heap' = [heap EXCEPT ![n] = h]
                       /\ Sound(n, t, h, d)
  <2> DEFINE t == [table[n] EXCEPT ![s] = p]
             h == [heap[n] EXCEPT ![p] = cell]
  <2>1. table[n][s] = NULL
    BY <1>4 DEF FreeSlot
  <2>2. Sound(n, t, h, d)
    <3> HIDE DEF cell
    <3> QED BY <1>1, <1>2, <2>1, SlotTaken
  <2>3. table' = [table EXCEPT ![n] = t] /\ heap' = [heap EXCEPT ![n] = h]
    BY <1>4
  <2> HIDE DEF t, h
  <2> QED BY <2>2, <2>3
<1>5. CASE /\ table' = table
           /\ heap' = IF keep THEN [heap EXCEPT ![n][p] = cell] ELSE heap
  <2>1. CASE keep
    <3> DEFINE h == [heap[n] EXCEPT ![p] = cell]
    <3>1. Sound(n, table[n], h, d)
      <4> HIDE DEF cell
      <4> QED BY <1>1, <1>2, <2>1, CellKept
    <3>2. heap' = [heap EXCEPT ![n] = h]
      BY <1>5, <2>1
    <3> HIDE DEF h
    <3> QED BY <1>3, <1>5, <3>1, <3>2
  <2>2. CASE ~keep
    BY <1>2, <1>3, <1>5, <2>2
  <2> QED BY <2>1, <2>2
<1> QED BY <1>4, <1>5 DEF Enter

\* The sender is entered and the handler returns at once.
LEMMA Entered ==
    ASSUME SafeInv, NEW n \in Drivers, NEW m, NEW p \in Peers,
           Enter(n, m, p, FALSE), callback[n] = NULL, UNCHANGED callback,
           Sender(m)
    PROVE  SessionInv'
<1>1. PICK t, h : /\ table' = [table EXCEPT ![n] = t]
                  /\ heap' = [heap EXCEPT ![n] = h]
                  /\ Sound(n, t, h, NULL)
  BY EnterSound DEF SafeInv
<1>2. callback' = [callback EXCEPT ![n] = NULL]
  BY DEF SafeInv, SessionInv
<1> QED BY <1>1, <1>2, SessionKept DEF SafeInv

\* What a handler keeps during its event.
LEMMA Triggered ==
    ASSUME SafeInv, NEW n \in Drivers, NEW m \in net, NEW type \in {"IN", "OK", "BY"},
           Arrived(type, n, m), NEW p \in Peers \cup {NULL}, Trigger(n, m, p)
    PROVE  \E c \in Callbacks :
              /\ callback' = [callback EXCEPT ![n] = c]
              /\ c.type = type /\ c.addr = m.src /\ c.token = m.token /\ c.peer = p
<1> DEFINE c == [type |-> m.type, from |-> m.src, addr |-> m.src,
                 token |-> m.token, peer |-> p]
<1>1. /\ m.type = type /\ m.src \in Addrs
  BY Arrival
<1>2. m.token \in Tokens
  BY Arrival DEF Mailed
<1>3. c \in Callbacks
  BY <1>1, <1>2 DEF Callbacks
<1>4. callback' = [callback EXCEPT ![n] = c]
  BY DEF Trigger
<1>5. c.type = type /\ c.addr = m.src /\ c.token = m.token /\ c.peer = p
  BY <1>1
<1> HIDE DEF c
<1> QED BY <1>3, <1>4, <1>5

\* An invitation.
LEMMA InvitationStep ==
    ASSUME SafeInv, NEW n \in Drivers, NEW m \in net, RecvInvitation(n, m)
    PROVE  SafeInv'
<1>1. CASE RecvControlInvitation(n, m)
  <2> USE <1>1 DEF RecvControlInvitation
  <2>1. PICK c \in Callbacks :
            /\ callback' = [callback EXCEPT ![n] = c]
            /\ c.type = "IN" /\ c.addr = m.src /\ c.token = m.token /\ c.peer = NULL
    BY Triggered
  <2>2. c.addr[2] = Control /\ callback[n] = NULL
    BY <2>1, Arrival DEF Mailed, AtRTP
  <2>3. SessionInv'
    <3>1. \A p \in Peers : Keeps(c, p) <=> Keeps(callback[n], p)
      BY <2>1, <2>2 DEF Keeps
    <3> QED BY <2>1, <2>2, <3>1, HandlerKept DEF SafeInv
  <2>4. MailInv'
    BY Consumed, MailKept DEF SafeInv
  <2>5. RestInv'
    BY RestSame DEF SafeInv
  <2> QED BY <2>3, <2>4, <2>5 DEF SafeInv
<1>2. CASE RecvRTPInvitation(n, m)
  <2> USE <1>2 DEF RecvRTPInvitation
  <2>1. /\ m.src[2] = RTP /\ m.src = Addr(m.ssrc, RTP)
        /\ m.token \in Tokens /\ callback[n] = NULL
        /\ m.src \in Addrs /\ m.ssrc \in Drivers /\ Sender(m)
    BY Arrival DEF Mailed, AtRTP, Sender
  <2>2. Mailed(Answer(n, RTP, m.src, m.token))
    BY <2>1, CommandMailed DEF Answer
  <2>3. MailInv'
    BY <2>2, Consumed, MailKept DEF SafeInv
  <2>4. RestInv'
    BY RestSame DEF SafeInv
  <2>5. SessionInv'
    <3>1. CASE accept[n]
      BY <2>1, <3>1, Entered
    <3>2. CASE ~accept[n]
      BY <3>2, SessionSame DEF SafeInv, session
    <3> QED BY <3>1, <3>2
  <2> QED BY <2>3, <2>4, <2>5 DEF SafeInv
<1> QED BY <1>1, <1>2 DEF RecvInvitation

\* A driver does not take an answer that went astray for one to itself.
LEMMA NotAstray ==
    ASSUME Straight, NEW n \in Drivers, NEW m, m.ssrc \in Drivers,
           m.dst[1] = HostOf[n], m.token = TokenOf[n]
    PROVE  ~Strays(m.ssrc, m.token, m.dst)
BY DEF Straight, Strays

\* An acceptance: where the one that was composed for another host is recognized
\* by its token, the sender is entered by its RTP address.
LEMMA AcceptedStep ==
    ASSUME SafeInv, NEW n \in Drivers, NEW m \in net, RecvAccepted(n, m)
    PROVE  SafeInv'
<1>1. CASE RecvControlAccepted(n, m)
  <2> USE <1>1 DEF RecvControlAccepted
  <2>1. /\ m.src[2] = Control /\ m.src = <<m.src[1], m.src[2]>> /\ m.src[1] \in Hosts
    BY Arrival DEF Mailed, AtRTP
  <2>2. RtpAddr(m.src) \in Addrs /\ RtpAddr(m.src)[2] = RTP
    BY <2>1 DEF RtpAddr, Addrs, Control, RTP
  <2>3. Mailed(SessionCommand("IN", n, RTP, RtpAddr(m.src), TokenOf[n]))
    BY <2>2, Addresses, CommandMailed
  <2>4. MailInv'
    BY <2>3, Consumed, MailKept DEF SafeInv
  <2>5. RestInv' /\ SessionInv'
    BY RestSame, SessionSame DEF SafeInv, session
  <2> QED BY <2>4, <2>5 DEF SafeInv
<1>2. CASE RecvRTPAccepted(n, m)
  <2> USE <1>2 DEF RecvRTPAccepted
  <2>1. /\ Mailed(m) /\ m.type = "OK" /\ callback[n] = NULL /\ m.ssrc \in Drivers
        /\ m.dst[1] = HostOf[n] /\ m.dst[2] = RTP /\ m.src \in Addrs
    BY Arrival DEF AtRTP
  <2>2. Straight => ~Strays(m.ssrc, m.token, m.dst)
    BY <2>1, NotAstray
  <2>3. Sender(m)
    BY <2>1, <2>2 DEF Mailed, Sender
  <2>4. PICK p \in Peers : Enter(n, m, p, TRUE) /\ Trigger(n, m, p)
    OBVIOUS
  <2>5. PICK c \in Callbacks :
            /\ callback' = [callback EXCEPT ![n] = c]
            /\ c.type = "OK" /\ c.peer = p
    BY <2>4, Triggered
  <2>6. c # NULL
    BY NullAssumption
  <2>7. PICK t, h : /\ table' = [table EXCEPT ![n] = t]
                    /\ heap' = [heap EXCEPT ![n] = h]
                    /\ Sound(n, t, h, c)
    BY <2>1, <2>3, <2>4, <2>5, <2>6, EnterSound DEF SafeInv
  <2>8. SessionInv'
    BY <2>5, <2>7, SessionKept DEF SafeInv
  <2>9. MailInv' /\ RestInv'
    BY Consumed, MailKept, RestSame, <2>8 DEF SafeInv, RestInv
  <2> QED BY <2>8, <2>9 DEF SafeInv
<1> QED BY <1>1, <1>2 DEF RecvAccepted

\* The other datagrams.
LEMMA ReceiveStep ==
    ASSUME SafeInv, NEW n \in Drivers, NEW m \in net, Receive(n, m)
    PROVE  SafeInv'
<1>1. CASE RecvIgnored(n, m)
  <2> USE <1>1 DEF RecvIgnored
  <2>1. MailInv'
    BY Consumed, MailKept DEF SafeInv
  <2> QED BY <2>1, RestSame, SessionSame DEF SafeInv, session
<1>2. CASE RecvEndSession(n, m)
  <2> USE <1>2 DEF RecvEndSession
  <2>1. Arrived("BY", n, m) /\ callback[n] = NULL
    BY Arrival
  <2>2. PICK p \in Peers \cup {NULL} : Trigger(n, m, p)
    <3>1. \A s \in Slots : table[n][s] \in Peers \cup {NULL}
      BY DEF SafeInv, SessionInv
    <3> QED BY <3>1
  <2>3. PICK c \in Callbacks : callback' = [callback EXCEPT ![n] = c] /\ c.type = "BY"
    BY <2>1, <2>2, Triggered
  <2>4. SessionInv'
    <3>1. \A q \in Peers : Keeps(c, q) <=> Keeps(callback[n], q)
      BY <2>1, <2>3 DEF Keeps
    <3> QED BY <2>3, <3>1, HandlerKept DEF SafeInv
  <2>5. MailInv'
    BY Consumed, MailKept DEF SafeInv
  <2> QED BY <2>4, <2>5, RestSame DEF SafeInv
<1>3. CASE RecvSync(n, m)
  <2> USE <1>3 DEF RecvSync
  <2>1. m.src \in Addrs /\ m.dst[2] \in {Control, RTP} /\ m.count \in 0 .. 2
    BY Arrival DEF Mailed, Datagrams
  <2>2. \A k \in SyncAnswers(n, m) : Mailed(k)
    BY <2>1, SyncMailed DEF SyncAnswers
  <2>3. MailInv'
    BY <2>2, Consumed, MailKept DEF SafeInv
  <2>4. RestInv'
    <3>1. SyncAfter(m.count) \in 0 .. 2
      BY DEF SyncAfter
    <3>2. cur' \in [Drivers -> Peers \cup {NULL}]
      <4>1. \A s \in Slots : table[n][s] \in Peers \cup {NULL}
        BY DEF SafeInv, SessionInv
      <4> QED BY <4>1 DEF SafeInv, RestInv
    <3> QED BY <3>1, <3>2 DEF SafeInv, RestInv
  <2> QED BY <2>3, <2>4, SessionSame DEF SafeInv, session
<1>4. CASE RecvData(n, m)
  <2> USE <1>4 DEF RecvData
  <2>1. callback[n] = NULL /\ Sender(m)
    BY Arrival DEF Mailed, Sender
  <2>2. MailInv'
    BY Consumed, MailKept DEF SafeInv
  <2>3. CASE UNCHANGED <<session, fault>>
    BY <2>2, <2>3, RestSame, SessionSame DEF SafeInv, session
  <2>4. CASE (\E p \in Peers : Enter(n, m, p, FALSE)) /\ fault' = Full(table[n])
    <3>1. SessionInv'
      BY <2>1, <2>4, Entered
    <3>2. RestInv'
      BY <2>4 DEF Full, SafeInv, RestInv
    <3> QED BY <2>2, <3>1, <3>2 DEF SafeInv
  <2> QED BY <2>3, <2>4
<1> QED BY <1>1, <1>2, <1>3, <1>4, InvitationStep, AcceptedStep DEF Receive

-----------------------------------------------------------------------------
(* The events return.                                                      *)

\* A handler goes on after its event.
LEMMA Resumed ==
    ASSUME SessionInv, NEW n \in Drivers, NEW type, Resume(n, type)
    PROVE  /\ callback[n] \in Callbacks /\ callback[n] # NULL
           /\ callback[n].type = type
           /\ callback' = [callback EXCEPT ![n] = NULL]
BY DEF Resume, SessionInv

\* _applemidi_start_sync with the address of the command.
LEMMA SyncStarted ==
    ASSUME SafeInv, NEW n \in Drivers, NEW a \in Addrs, StartSync(n, a),
           UNCHANGED <<status, accept, fault, ops, sent>>,
           cur' \in [Drivers -> Peers \cup {NULL}]
    PROVE  MailInv' /\ RestInv'
<1>1. Mailed(SyncCommand(n, RTP, a, 0))
  BY SyncMailed
<1>2. MailInv'
  BY <1>1, Sent, MailKept DEF SafeInv, StartSync
<1>3. RestInv'
  <2>1. sync' \in [Drivers -> 0 .. 2]
    BY DEF StartSync, SafeInv, RestInv
  <2> QED BY <2>1 DEF SafeInv, RestInv
<1> QED BY <1>2, <1>3

\* The rest of the handlers.
LEMMA ReturnStep ==
    ASSUME SafeInv, NEW n \in Drivers, Return(n)
    PROVE  SafeInv'
<1> DEFINE c == callback[n]
<1>0. Sound(n, table[n], heap[n], c)
  BY DEF SafeInv, SessionInv
<1>1. CASE AfterInvitation(n)
  <2> USE <1>1 DEF AfterInvitation
  <2>1. /\ c \in Callbacks /\ c # NULL /\ c.type = "IN"
        /\ callback' = [callback EXCEPT ![n] = NULL]
    BY Resumed DEF SafeInv
  <2>2. Mailed(Answer(n, Control, c.addr, c.token))
    <3>1. c.addr \in Addrs /\ c.token \in Tokens
      BY <2>1 DEF Callbacks
    <3>2. c.addr[2] = Control \/ Strays(n, c.token, c.addr)
      BY <1>0, <2>1 DEF Sound
    <3> HIDE DEF c
    <3> QED BY <3>1, <3>2, CommandMailed DEF Answer
  <2>3. MailInv'
    BY <2>2, Sent, MailKept DEF SafeInv
  <2>4. SessionInv'
    <3>1. \A p \in Peers : Keeps(NULL, p) <=> Keeps(callback[n], p)
      BY <2>1 DEF Keeps
    <3> QED BY <2>1, <3>1, HandlerKept DEF SafeInv
  <2> QED BY <2>3, <2>4, RestSame DEF SafeInv
<1>2. CASE AfterAccepted(n)
  <2> USE <1>2 DEF AfterAccepted
  <2> DEFINE p == c.peer
             h == IF p \in Members(table[n]) THEN heap[n] ELSE [heap[n] EXCEPT ![p] = NULL]
  <2>1. /\ c \in Callbacks /\ c # NULL /\ c.type = "OK"
        /\ callback' = [callback EXCEPT ![n] = NULL]
    BY Resumed DEF SafeInv
  <2>2. heap' = [heap EXCEPT ![n] = h]
    BY DEF SafeInv, SessionInv
  <2>3. Sound(n, table[n], h, NULL)
    <3>1. \A q \in Peers : Keeps(c, q) <=> q = p
      BY <2>1 DEF Keeps
    <3>2. h \in [Peers -> Cells \cup {NULL}]
      BY <1>0 DEF Sound
    <3>3. \A q \in Peers : h[q] = IF q = p /\ p \notin Members(table[n]) THEN NULL ELSE heap[n][q]
      BY <1>0 DEF Sound
    <3> HIDE DEF h, c, p
    <3> QED BY <1>0, <3>1, <3>2, <3>3 DEF Sound, Keeps
  <2>4. SessionInv'
    <3>1. table' = [table EXCEPT ![n] = table[n]]
      BY DEF SafeInv, SessionInv
    <3> HIDE DEF h
    <3> QED BY <2>1, <2>2, <2>3, <3>1, SessionKept DEF SafeInv
  <2>5. MailInv' /\ RestInv'
    <3>1. c.addr \in Addrs
      BY <2>1 DEF Callbacks
    <3>2. cur' \in [Drivers -> Peers \cup {NULL}]
      BY DEF SafeInv, RestInv
    <3> QED BY <3>1, <3>2, SyncStarted
  <2> QED BY <2>4, <2>5 DEF SafeInv
<1>3. CASE AfterEndSession(n)
  <2> USE <1>3 DEF AfterEndSession
  <2>1. /\ c \in Callbacks /\ c # NULL /\ c.type = "BY"
        /\ callback' = [callback EXCEPT ![n] = NULL]
    BY Resumed DEF SafeInv
  <2>2. MailInv'
    BY DEF SafeInv, MailInv
  <2>3. RestInv'
    BY DEF SafeInv, RestInv
  <2>4. CASE UNCHANGED session
    <3>1. \A p \in Peers : Keeps(NULL, p) <=> Keeps(callback[n], p)
      BY <2>1 DEF Keeps
    <3>2. SessionInv'
      BY <2>1, <2>4, <3>1, HandlerKept DEF SafeInv
    <3> QED BY <2>2, <2>3, <3>2 DEF SafeInv
  <2>5. ASSUME NEW s \in Slots, table[n][s] # NULL, Leave(n, s) PROVE SafeInv'
    <3>1. PICK t, h : /\ table' = [table EXCEPT ![n] = t]
                      /\ heap' = [heap EXCEPT ![n] = h]
                      /\ Sound(n, t, h, c)
      BY <2>5, LeaveSound DEF SafeInv
    <3>2. Sound(n, t, h, NULL)
      <4>1. \A p \in Peers : Keeps(NULL, p) <=> Keeps(c, p)
        BY <2>1 DEF Keeps
      <4> HIDE DEF c
      <4> QED BY <3>1, <4>1 DEF Sound
    <3>3. SessionInv'
      BY <2>1, <3>1, <3>2, SessionKept DEF SafeInv
    <3> QED BY <2>2, <2>3, <3>3 DEF SafeInv
  <2> QED BY <2>4, <2>5
<1> QED BY <1>1, <1>2, <1>3 DEF Return

\* The idle timer.
LEMMA IdleStep ==
    ASSUME SafeInv, NEW n \in Drivers, MIDIDriverAppleMIDIIdle(n)
    PROVE  SafeInv'
<1> DEFINE p == NextPeer(table[n], cur[n])
<1> USE DEF MIDIDriverAppleMIDIIdle
<1>1. p \in Peers \cup {NULL}
  <2>1. table[n] \in [Slots -> Peers \cup {NULL}] /\ cur[n] \in Peers \cup {NULL}
    BY DEF SafeInv, SessionInv, RestInv
  <2> QED BY <2>1, NextPeerType
<1>2. cur' \in [Drivers -> Peers \cup {NULL}]
  <2> HIDE DEF p
  <2>1. cur' = [cur EXCEPT ![n] = p]
    BY DEF p
  <2> QED BY <1>1, <2>1 DEF SafeInv, RestInv
<1>3. SessionInv'
  BY SessionSame DEF SafeInv, session
<1>4. CASE net' = net /\ sync' = sync /\ fault' \in BOOLEAN
  BY <1>2, <1>3, <1>4 DEF SafeInv, MailInv, RestInv
<1>5. CASE /\ p # NULL /\ heap[n][p] # NULL
           /\ StartSync(n, heap[n][p].addr) /\ UNCHANGED fault
  <2>1. heap[n][p].addr \in Addrs
    <3>1. heap[n][p] \in Cells
      BY <1>1, <1>5 DEF SafeInv, SessionInv
    <3> QED BY <3>1 DEF Cells
  <2>2. MailInv' /\ RestInv'
    BY <1>2, <1>5, <2>1, SyncStarted
  <2> QED BY <1>3, <2>2 DEF SafeInv
<1>6. fault \in BOOLEAN
  BY DEF SafeInv, RestInv
<1> QED BY <1>4, <1>5, <1>6

\* Any step.
LEMMA NextHolds == ASSUME SafeInv, [Next]_vars PROVE SafeInv'
<1>1. CASE UNCHANGED vars
  BY <1>1, RestSame, SessionSame DEF vars, session, SafeInv, MailInv
<1>2. ASSUME NEW m \in net, Lose(m) PROVE SafeInv'
  <2>1. MailInv'
    BY <1>2 DEF Lose, SafeInv, MailInv
  <2> QED BY <1>2, <2>1, RestSame, SessionSame DEF Lose, session, SafeInv
<1> QED BY <1>1, <1>2, ApplicationStep, ReturnStep, IdleStep, ReceiveStep DEF Next

-----------------------------------------------------------------------------
(* The theorems.                                                           *)

\* In every behaviour: the datagrams come from and lead to the ports Mailed
\* says, and the sessions are sound.
LEMMA Safe == Spec => []SafeInv
<1>1. SafeInv /\ [Next]_vars => SafeInv'
  BY NextHolds
<1> QED BY InitHolds, <1>1, PTL DEF Spec

\* The variables keep their types: a handler never goes on with a command, a
\* peer or an address that is none, whatever its event did.
THEOREM TypeCorrect == Spec => []TypeOK
BY Safe, SafeProperties, PTL

\* The cells that are allocated are those listed in the table and the one of the
\* handler that waits for its event (applemidi.c, _applemidi_respond; rtp.c,
\* RTPSessionAddPeer and RTPSessionRemovePeer).
THEOREM OwnedCorrect == Spec => []Owned
BY Safe, SafeProperties, PTL

\* Every entry is the RTP address of its driver (applemidi.c:772-791, 842-866),
\* whatever the tokens are, if no event invites or removes a peer.  If one does
\* it overwrites the command of the handler that waits, and then the tokens of
\* different hosts have to differ.
THEOREM EntriesCorrect == ASSUME Straight PROVE Spec => []EntriesReachable
BY Safe, SafeProperties, PTL

(***************************************************************************)
(* Consent.                                                                *)
(*                                                                         *)
(* An entry of a driver that refuses invitations was made by data, or by   *)
(* an acceptance of an invitation to an RTP port, which an acceptance from *)
(* the control port made a driver on this host send.  Honest says of each  *)
(* datagram in the network which invitation it goes back to.  M is the set *)
(* of invitations and data the applications have sent.                     *)
(***************************************************************************)

\* A driver on host g has invited host h with this token.
Invited(M, g, token, h) ==
    \E k \in M : /\ k.type = "IN" /\ k.token = token
                 /\ k.src = <<g, Control>> /\ k.dst = <<h, Control>>

\* x has sent data to driver n, or one with the token of n has invited x.
Greeted(M, n, x) ==
    \/ Invited(M, HostOf[n], TokenOf[n], HostOf[x])
    \/ \E k \in M : k.type = "RTP" /\ k.ssrc = x /\ k.dst = Addr(n, RTP)

\* An acceptance of x with this token answers an invitation, or went astray.
Asked(M, x, token, addr) ==
    Strays(x, token, addr) \/ Invited(M, addr[1], token, HostOf[x])

\* An invitation to either port follows one to the control port.
Honest(M, m) ==
    /\ m.type = "IN" => Invited(M, m.src[1], m.token, m.dst[1])
    /\ m.type = "OK" => Asked(M, m.ssrc, m.token, m.dst)
    /\ m.type = "RTP" => m \in M

HonestMail == \A m \in net : Honest(sent, m)
HonestHandlers ==
    \A n \in Drivers : callback[n] # NULL /\ callback[n].type = "IN"
                       => Asked(sent, n, callback[n].token, callback[n].addr)
Refusing == \A n \in Drivers \ Acceptors : ~accept[n]
Welcome ==
    \A n \in Drivers \ Acceptors : \A p \in Members(table[n]) :
        Greeted(sent, n, heap[n][p].ssrc)

ConsentInv == HonestMail /\ HonestHandlers /\ Refusing /\ Welcome

\* The invariant implies the property.
LEMMA ConsentProperty == ASSUME ConsentInv PROVE Consent
<1> SUFFICES ASSUME NEW n \in Drivers \ Acceptors, NEW p \in Members(table[n])
             PROVE  Invites(n, heap[n][p].ssrc) \/ Speaks(heap[n][p].ssrc, n)
  BY DEF Consent, Known
<1>1. Greeted(sent, n, heap[n][p].ssrc)
  BY DEF ConsentInv, Welcome
<1> QED BY <1>1 DEF Greeted, Invited, Invites, Speaks, Addr

\* What was once said stays said.
LEMMA Grown ==
    ASSUME NEW M, NEW N, M \subseteq N
    PROVE  /\ \A g, t, h : Invited(M, g, t, h) => Invited(N, g, t, h)
           /\ \A n, x : Greeted(M, n, x) => Greeted(N, n, x)
           /\ \A x, t, a : Asked(M, x, t, a) => Asked(N, x, t, a)
           /\ \A m : Honest(M, m) => Honest(N, m)
BY DEF Invited, Greeted, Asked, Honest

\* New datagrams that are honest.
LEMMA MailGrown ==
    ASSUME HonestMail, NEW D, net' \subseteq net \cup D, sent \subseteq sent',
           \A d \in D : Honest(sent', d)
    PROVE  HonestMail'
<1>1. \A m \in net : Honest(sent', m)
  BY Grown DEF HonestMail
<1> QED BY <1>1 DEF HonestMail

\* One new datagram that is honest.
LEMMA OneMore ==
    ASSUME HonestMail, NEW d, net' \subseteq net \cup {d}, sent \subseteq sent', Honest(sent', d)
    PROVE  HonestMail'
<1> DEFINE D == {d}
<1>1. net' \subseteq net \cup D /\ \A e \in D : Honest(sent', e)
  OBVIOUS
<1> HIDE DEF D
<1> QED BY <1>1, MailGrown

\* Rejections, farewells and CKs say nothing about invitations.
LEMMA Harmless == ASSUME NEW M, NEW m, m.type \in {"NO", "BY", "CK"} PROVE Honest(M, m)
BY DEF Honest

\* What does not change stays right, whatever is sent.
LEMMA Unmoved ==
    ASSUME ConsentInv, sent \subseteq sent'
    PROVE  /\ UNCHANGED callback => HonestHandlers'
           /\ UNCHANGED accept => Refusing'
           /\ UNCHANGED session => Welcome'
<1>1. ASSUME UNCHANGED callback PROVE HonestHandlers'
  BY <1>1, Grown DEF ConsentInv, HonestHandlers
<1>2. ASSUME UNCHANGED accept PROVE Refusing'
  BY <1>2 DEF ConsentInv, Refusing
<1>3. ASSUME UNCHANGED session PROVE Welcome'
  BY <1>3, Grown DEF ConsentInv, Welcome, session
<1> QED BY <1>1, <1>2, <1>3

\* Only harmless datagrams are sent, and no driver's acceptance, entries or
\* handler change.
LEMMA ConsentSame ==
    ASSUME ConsentInv, NEW D, net' \subseteq net \cup D, \A d \in D : d.type \in {"NO", "BY", "CK"},
           UNCHANGED <<accept, session, callback, sent>>
    PROVE  ConsentInv'
<1>1. HonestMail'
  BY Harmless, MailGrown DEF ConsentInv
<1> QED BY <1>1, Unmoved DEF ConsentInv

\* A handler that waits after an invitation knows who asked.
LEMMA HandlersGrown ==
    ASSUME ConsentInv, SessionInv, sent \subseteq sent', NEW n \in Drivers, NEW c,
           callback' = [callback EXCEPT ![n] = c],
           c # NULL /\ c.type = "IN" => Asked(sent', n, c.token, c.addr)
    PROVE  HonestHandlers'
<1>1. \A x \in Drivers : callback'[x] = IF x = n THEN c ELSE callback[x]
  BY DEF SessionInv
<1>2. \A x \in Drivers : callback[x] # NULL /\ callback[x].type = "IN"
                         => Asked(sent', x, callback[x].token, callback[x].addr)
  BY Grown DEF ConsentInv, HonestHandlers
<1> QED BY <1>1, <1>2 DEF HonestHandlers

\* The command of a handler that is overwritten leads astray.
LEMMA HandlersAstray ==
    ASSUME ConsentInv, SessionInv, sent \subseteq sent', NEW n \in Drivers,
           NEW a \in Addrs, a[1] # HostOf[n], Overwrite(n, a),
           callback[n] # NULL => Overwriting
    PROVE  HonestHandlers'
<1>1. PICK c : /\ callback' = [callback EXCEPT ![n] = c]
               /\ c # NULL => Strays(n, c.token, c.addr)
  BY Overwritten
<1> QED BY <1>1, HandlersGrown DEF Asked

\* The entries of one driver change, and only a driver that was invited comes in
\* where no invitation is accepted.
LEMMA EntriesGrown ==
    ASSUME ConsentInv, sent \subseteq sent', NEW n \in Drivers,
           \A x \in Drivers \ {n} : table'[x] = table[x] /\ heap'[x] = heap[x],
           n \notin Acceptors =>
              \A p \in Members(table'[n]) :
                 \/ p \in Members(table[n]) /\ heap'[n][p] = heap[n][p]
                 \/ Greeted(sent', n, heap'[n][p].ssrc)
    PROVE  Welcome'
<1>1. \A x \in Drivers \ Acceptors : \A p \in Members(table[x]) :
          Greeted(sent', x, heap[x][p].ssrc)
  BY Grown DEF ConsentInv, Welcome
<1> SUFFICES ASSUME NEW x \in Drivers \ Acceptors, NEW p \in Members(table'[x])
             PROVE  Greeted(sent', x, heap'[x][p].ssrc)
  BY DEF Welcome
<1>2. CASE x = n
  BY <1>1, <1>2
<1>3. CASE x # n
  BY <1>1, <1>3
<1> QED BY <1>2, <1>3

\* An entry that goes takes none of the others with it.
LEMMA LeaveGrown ==
    ASSUME ConsentInv, SessionInv, sent \subseteq sent', NEW n \in Drivers,
           NEW s \in Slots, table[n][s] # NULL, Leave(n, s)
    PROVE  Welcome'
<1> DEFINE p == table[n][s]
<1>1. /\ table \in [Drivers -> [Slots -> Peers \cup {NULL}]]
      /\ heap \in [Drivers -> [Peers -> Cells \cup {NULL}]]
      /\ p \in Peers
  BY DEF SessionInv
<1>2. \A u \in Slots : table[n][u] = p => u = s
  BY DEF SessionInv, Sound
<1>3. /\ \A x \in Drivers \ {n} : table'[x] = table[x]
      /\ \A u \in Slots : table'[n][u] = IF u = s THEN NULL ELSE table[n][u]
  BY <1>1 DEF Leave
<1>4. heap' = heap \/ heap' = [heap EXCEPT ![n][p] = NULL]
  BY DEF Leave
<1> HIDE DEF p
<1>5. /\ \A x \in Drivers \ {n} : heap'[x] = heap[x]
      /\ \A q \in Peers : q # p => heap'[n][q] = heap[n][q]
  BY <1>1, <1>4
<1>6. \A q \in Members(table'[n]) : q \in Members(table[n]) /\ q # p
  BY <1>1, <1>2, <1>3, TableAssumption DEF Members
<1>7. \A q \in Members(table[n]) : q \in Peers
  BY <1>1 DEF Members
<1> QED BY <1>3, <1>5, <1>6, <1>7, EntriesGrown

\* The sender of m enters.
LEMMA EnterGrown ==
    ASSUME ConsentInv, SessionInv, sent \subseteq sent', NEW n \in Drivers, NEW m, NEW p \in Peers,
           NEW keep, Enter(n, m, p, keep),
           n \notin Acceptors => Greeted(sent', n, m.ssrc)
    PROVE  Welcome'
<1> DEFINE cell == [ssrc |-> m.ssrc, addr |-> m.src]
<1>1. /\ table \in [Drivers -> [Slots -> Peers \cup {NULL}]]
      /\ heap \in [Drivers -> [Peers -> Cells \cup {NULL}]]
  BY DEF SessionInv
<1>2. heap' = heap \/ heap' = [heap EXCEPT ![n][p] = cell]
  BY DEF Enter
<1>3. /\ \A x \in Drivers \ {n} : heap'[x] = heap[x]
      /\ \A q \in Peers : q # p => heap'[n][q] = heap[n][q]
  <2> HIDE DEF cell
  <2> QED BY <1>1, <1>2
<1>4. \A q \in Members(table[n]) : q \in Peers /\ q # p
  <2>1. heap[n][p] = NULL
    BY DEF Enter
  <2>2. p \notin Members(table[n])
    BY <2>1 DEF SessionInv, Sound
  <2> QED BY <1>1, <2>2 DEF Members
<1>5. ASSUME NEW s \in Slots, table' = [table EXCEPT ![n][s] = p],
             heap' = [heap EXCEPT ![n][p] = cell]
      PROVE  Welcome'
  <2>1. /\ \A x \in Drivers \ {n} : table'[x] = table[x]
        /\ \A u \in Slots : table'[n][u] = IF u = s THEN p ELSE table[n][u]
    BY <1>1, <1>5
  <2>2. heap'[n][p].ssrc = m.ssrc
    BY <1>1, <1>5
  <2>3. \A q \in Members(table'[n]) : q = p \/ q \in Members(table[n])
    BY <1>1, <2>1 DEF Members
  <2>4. n \notin Acceptors => Greeted(sent', n, heap'[n][p].ssrc)
    BY <2>2
  <2> HIDE DEF cell
  <2> QED BY <1>3, <1>4, <2>1, <2>3, <2>4, EntriesGrown
<1>6. CASE table' = table
  <2>1. \A q \in Members(table'[n]) : q \in Members(table[n]) /\ heap'[n][q] = heap[n][q]
    BY <1>3, <1>4, <1>6
  <2>2. \A x \in Drivers \ {n} : table'[x] = table[x]
    BY <1>6
  <2> HIDE DEF cell
  <2> QED BY <1>3, <2>1, <2>2, EntriesGrown
<1> QED BY <1>5, <1>6 DEF Enter

\* The calls.
LEMMA ConsentCall ==
    ASSUME ConsentInv, SafeInv, NEW n \in Drivers, Application(n)
    PROVE  ConsentInv'
<1>1. CASE MIDIDriverAppleMIDIAcceptFromAny(n)
  <2> USE <1>1 DEF MIDIDriverAppleMIDIAcceptFromAny
  <2>1. Refusing'
    BY DEF SafeInv, RestInv, ConsentInv, Refusing
  <2>2. HonestMail'
    BY DEF ConsentInv, HonestMail
  <2> QED BY <2>1, <2>2, Unmoved DEF ConsentInv
<1>2. CASE MIDIDriverAppleMIDIAcceptFromNone(n)
  <2> USE <1>2 DEF MIDIDriverAppleMIDIAcceptFromNone
  <2>1. Refusing'
    BY DEF SafeInv, RestInv, ConsentInv, Refusing
  <2>2. HonestMail'
    BY DEF ConsentInv, HonestMail
  <2> QED BY <2>1, <2>2, Unmoved DEF ConsentInv
<1>3. ASSUME NEW h \in Others(n), MIDIDriverAppleMIDIAddPeer(n, <<h, Control>>) PROVE ConsentInv'
  <2> DEFINE a == <<h, Control>>
             d == SessionCommand("IN", n, Control, a, TokenOf[n])
  <2> USE <1>3 DEF MIDIDriverAppleMIDIAddPeer
  <2>1. a \in Addrs /\ a[1] = h /\ a[1] # HostOf[n]
    BY Addresses
  <2>2. /\ d.type = "IN" /\ d.token = TokenOf[n]
        /\ d.src = <<HostOf[n], Control>> /\ d.src[1] = HostOf[n]
        /\ d.dst = <<h, Control>> /\ d.dst[1] = h
    BY DEF SessionCommand, Command, Addr
  <2>3. net' = net \cup {d} /\ sent' = sent \cup {d}
    BY DEF Request, Send
  <2>4. Honest(sent', d)
    <3> HIDE DEF d
    <3> QED BY <2>2, <2>3 DEF Honest, Invited
  <2>5. HonestMail' /\ sent \subseteq sent'
    <3> HIDE DEF d
    <3> QED BY <2>3, <2>4, OneMore DEF ConsentInv
  <2>6. HonestHandlers'
    <3>1. callback[n] # NULL => Overwriting
      BY Reentered
    <3> QED BY <2>1, <2>5, <3>1, HandlersAstray DEF SafeInv
  <2> QED BY <2>5, <2>6, Unmoved DEF ConsentInv
<1>4. ASSUME NEW h \in Others(n), NEW port \in {Control, RTP},
             MIDIDriverAppleMIDIRemovePeer(n, <<h, port>>)
      PROVE  ConsentInv'
  <2> DEFINE a == <<h, port>>
             d == SessionCommand("BY", n, Control, a, TokenOf[n])
  <2>1. a \in Addrs /\ a[1] # HostOf[n]
    BY Addresses
  <2>2. d.type = "BY"
    BY DEF SessionCommand, Command
  <2>3. UNCHANGED <<accept, sent>>
    BY <1>4 DEF MIDIDriverAppleMIDIRemovePeer
  <2>4. CASE UNCHANGED <<net, session, callback>>
    <3>1. HonestMail'
      BY <2>3, <2>4 DEF ConsentInv, HonestMail
    <3> QED BY <2>3, <2>4, <3>1, Unmoved DEF ConsentInv
  <2>5. ASSUME NEW s \in Slots, FirstAt(n, s, a), Leave(n, s), Send({d}), Overwrite(n, a)
        PROVE  ConsentInv'
    <3>1. net' = net \cup {d}
      BY <2>5 DEF Send
    <3>2. HonestMail'
      <4> HIDE DEF d
      <4> QED BY <2>2, <2>3, <3>1, Harmless, OneMore DEF ConsentInv
    <3>3. HonestHandlers'
      <4>1. callback[n] # NULL => Overwriting
        BY <1>4, Reentered DEF MIDIDriverAppleMIDIRemovePeer
      <4> QED BY <2>1, <2>3, <2>5, <4>1, HandlersAstray DEF SafeInv
    <3>4. table[n][s] # NULL
      BY <2>5 DEF FirstAt, HasAddr
    <3>5. Welcome'
      BY <2>3, <2>5, <3>4, LeaveGrown DEF SafeInv
    <3> QED BY <2>3, <3>2, <3>3, <3>5, Unmoved DEF ConsentInv
  <2> QED BY <1>4, <2>4, <2>5 DEF MIDIDriverAppleMIDIRemovePeer
<1>5. CASE MIDIDriverAppleMIDISendMessage(n)
  <2> USE <1>5 DEF MIDIDriverAppleMIDISendMessage
  <2> DEFINE D == {Data(n, heap[n][p].addr) : p \in Members(table[n])}
  <2>1. net' = net \cup D /\ sent' = sent \cup D
    BY DEF Request, Send
  <2>2. \A d \in D : d.type = "RTP"
    BY DEF Data, Command
  <2> HIDE DEF D
  <2>3. \A d \in D : Honest(sent', d)
    BY <2>1, <2>2 DEF Honest
  <2>4. HonestMail' /\ sent \subseteq sent'
    BY <2>1, <2>3, MailGrown DEF ConsentInv
  <2> QED BY <2>4, Unmoved DEF ConsentInv
<1>6. CASE MIDIDriverAppleMIDICreate(n)
  <2>1. UNCHANGED <<net, accept, session, callback, sent>>
    BY <1>6 DEF MIDIDriverAppleMIDICreate
  <2>2. HonestMail'
    BY <2>1 DEF ConsentInv, HonestMail
  <2> QED BY <2>1, <2>2, Unmoved DEF ConsentInv
<1>7. CASE MIDIDriverAppleMIDIDestroy(n)
  <2> USE <1>7 DEF MIDIDriverAppleMIDIDestroy
  <2>1. \A d \in Farewells(n) : d.type = "BY"
    BY DEF Farewells, SessionCommand, Command
  <2>2. HonestMail'
    <3>1. \A d \in Farewells(n) : Honest(sent', d)
      BY <2>1, Harmless
    <3>2. net' \subseteq net \cup Farewells(n) /\ sent \subseteq sent'
      BY Sent
    <3> QED BY <3>1, <3>2, MailGrown DEF ConsentInv
  <2>3. Welcome'
    <3>1. \A x \in Drivers \ {n} : table'[x] = table[x] /\ heap'[x] = heap[x]
      <4>1. DOMAIN table = Drivers /\ DOMAIN heap = Drivers
        BY DEF SafeInv, SessionInv
      <4>2. /\ table' = [table EXCEPT ![n] = EmptyTable]
            /\ heap' = [heap EXCEPT ![n] = [p \in Peers |-> NULL]]
        OBVIOUS
      <4> QED BY <4>1, <4>2
    <3>2. Members(table'[n]) = {}
      <4>1. table'[n] = EmptyTable
        BY DEF SafeInv, SessionInv
      <4> QED BY <4>1 DEF Members, EmptyTable
    <3> QED BY <2>2, <3>1, <3>2, EntriesGrown
  <2>4. Refusing'
    BY DEF SafeInv, RestInv, ConsentInv, Refusing
  <2> QED BY <2>2, <2>3, <2>4, Unmoved DEF ConsentInv
<1> QED BY <1>1, <1>2, <1>3, <1>4, <1>5, <1>6, <1>7 DEF Application

\* A datagram that is read was honest.
LEMMA Read ==
    ASSUME ConsentInv, NEW m \in net, NEW D, Consume(m, D)
    PROVE  net' \subseteq net \cup D /\ Honest(sent, m)
BY DEF Consume, ConsentInv, HonestMail

\* One that is read and not answered.
LEMMA OnlyRead ==
    ASSUME ConsentInv, NEW m, Consume(m, {}), UNCHANGED sent
    PROVE  HonestMail'
BY DEF Consume, ConsentInv, HonestMail

\* An acceptance with the token of the driver that receives it answers an
\* invitation with that token from its host.
LEMMA Answered ==
    ASSUME Straight, ConsentInv, SafeInv, NEW n \in Drivers, NEW m \in net,
           Arrived("OK", n, m), m.token = TokenOf[n]
    PROVE  Invited(sent, HostOf[n], TokenOf[n], HostOf[m.ssrc])
<1>1. m.type = "OK" /\ m.ssrc \in Drivers /\ m.dst[1] = HostOf[n]
  BY Arrival
<1>2. ~Strays(m.ssrc, m.token, m.dst)
  BY <1>1, NotAstray
<1>3. Asked(sent, m.ssrc, m.token, m.dst)
  BY <1>1 DEF ConsentInv, HonestMail, Honest
<1> QED BY <1>1, <1>2, <1>3 DEF Asked

\* The answer to an invitation.
LEMMA AnswerHonest ==
    ASSUME NEW M, NEW n \in Drivers, NEW port, NEW a, NEW token, Asked(M, n, token, a)
    PROVE  Honest(M, Answer(n, port, a, token))
BY DEF Answer, SessionCommand, Command, Honest

\* An invitation, at either port.
LEMMA ConsentInvitation ==
    ASSUME ConsentInv, SafeInv, NEW n \in Drivers, NEW m \in net, RecvInvitation(n, m)
    PROVE  ConsentInv'
<1>1. Arrived("IN", n, m) /\ UNCHANGED sent
  BY DEF RecvInvitation, RecvControlInvitation, RecvRTPInvitation
<1>2. m.type = "IN" /\ m.dst[1] = HostOf[n] /\ callback[n] = NULL
  BY <1>1, Arrival
<1>3. Invited(sent, m.src[1], m.token, HostOf[n])
  BY <1>2 DEF ConsentInv, HonestMail, Honest
<1>4. Asked(sent, n, m.token, m.src)
  BY <1>3 DEF Asked
<1>5. CASE RecvControlInvitation(n, m)
  <2> USE <1>5 DEF RecvControlInvitation
  <2>2. HonestMail'
    BY <1>1, OnlyRead
  <2>3. PICK c \in Callbacks :
            /\ callback' = [callback EXCEPT ![n] = c]
            /\ c.addr = m.src /\ c.token = m.token
    BY <1>1, Triggered
  <2>4. Asked(sent', n, c.token, c.addr)
    BY <1>1, <1>4, <2>3
  <2>5. HonestHandlers'
    BY <1>1, <2>3, <2>4, HandlersGrown DEF SafeInv
  <2> QED BY <1>1, <2>2, <2>5, Unmoved DEF ConsentInv
<1>6. CASE RecvRTPInvitation(n, m)
  <2> USE <1>6 DEF RecvRTPInvitation
  <2> DEFINE d == Answer(n, RTP, m.src, m.token)
  <2>1. net' \subseteq net \cup {d}
    BY Read
  <2>2. Asked(sent', n, m.token, m.src)
    BY <1>1, <1>4
  <2>3. Honest(sent', d)
    BY <2>2, AnswerHonest
  <2>4. HonestMail'
    <3> HIDE DEF d
    <3> QED BY <1>1, <2>1, <2>3, OneMore DEF ConsentInv
  <2>5. Welcome'
    <3>1. CASE accept[n]
      <4>1. n \in Acceptors
        BY <3>1 DEF ConsentInv, Refusing
      <4>2. PICK p \in Peers : Enter(n, m, p, FALSE)
        BY <3>1
      <4> QED BY <1>1, <4>1, <4>2, EnterGrown DEF SafeInv
    <3>2. CASE ~accept[n]
      BY <1>1, <3>2, Unmoved
    <3> QED BY <3>1, <3>2
  <2> QED BY <1>1, <2>4, <2>5, Unmoved DEF ConsentInv
<1> QED BY <1>5, <1>6 DEF RecvInvitation

\* An acceptance, at either port.
LEMMA ConsentAccepted ==
    ASSUME Straight, ConsentInv, SafeInv, NEW n \in Drivers, NEW m \in net, RecvAccepted(n, m)
    PROVE  ConsentInv'
<1>1. Arrived("OK", n, m) /\ m.token = TokenOf[n] /\ UNCHANGED sent
  BY DEF RecvAccepted, RecvControlAccepted, RecvRTPAccepted
<1>2. m.type = "OK" /\ m.ssrc \in Drivers /\ Mailed(m) /\ callback[n] = NULL
  BY <1>1, Arrival
<1>3. Invited(sent', HostOf[n], TokenOf[n], HostOf[m.ssrc])
  BY <1>1, Answered
<1>4. CASE RecvControlAccepted(n, m)
  <2> USE <1>4 DEF RecvControlAccepted
  <2> DEFINE d == SessionCommand("IN", n, RTP, RtpAddr(m.src), TokenOf[n])
  <2>1. net' \subseteq net \cup {d}
    BY Read
  <2>2. m.src[1] = HostOf[m.ssrc]
    BY <1>2 DEF Mailed, Addr
  <2>3. /\ d.type = "IN" /\ d.token = TokenOf[n] /\ d.src[1] = HostOf[n]
        /\ d.dst[1] = HostOf[m.ssrc]
    BY <2>2 DEF SessionCommand, Command, RtpAddr, Addr
  <2> HIDE DEF d
  <2>4. Honest(sent', d)
    BY <1>3, <2>3 DEF Honest
  <2>5. HonestMail'
    BY <1>1, <2>1, <2>4, OneMore DEF ConsentInv
  <2> QED BY <1>1, <2>5, Unmoved DEF ConsentInv
<1>5. CASE RecvRTPAccepted(n, m)
  <2> USE <1>5 DEF RecvRTPAccepted
  <2>1. HonestMail'
    BY <1>1, OnlyRead
  <2>2. PICK p \in Peers : Enter(n, m, p, TRUE) /\ Trigger(n, m, p)
    OBVIOUS
  <2>3. PICK c \in Callbacks : callback' = [callback EXCEPT ![n] = c] /\ c.type = "OK"
    BY <1>1, <2>2, Triggered
  <2>4. HonestHandlers'
    BY <1>1, <2>3, HandlersGrown DEF SafeInv
  <2>5. Welcome'
    BY <1>1, <1>3, <2>2, EnterGrown DEF SafeInv, Greeted
  <2> QED BY <1>1, <2>1, <2>4, <2>5, Unmoved DEF ConsentInv
<1> QED BY <1>4, <1>5 DEF RecvAccepted

\* The other datagrams.
LEMMA ConsentReceive ==
    ASSUME Straight, ConsentInv, SafeInv, NEW n \in Drivers, NEW m \in net, Receive(n, m)
    PROVE  ConsentInv'
<1>1. CASE RecvIgnored(n, m)
  <2>1. HonestMail'
    BY <1>1, OnlyRead DEF RecvIgnored
  <2> QED BY <1>1, <2>1, Unmoved DEF RecvIgnored, ConsentInv
<1>2. CASE RecvEndSession(n, m)
  <2> USE <1>2 DEF RecvEndSession
  <2>1. HonestMail'
    BY OnlyRead
  <2>2. PICK p \in Peers \cup {NULL} : Trigger(n, m, p)
    <3>1. \A s \in Slots : table[n][s] \in Peers \cup {NULL}
      BY DEF SafeInv, SessionInv
    <3> QED BY <3>1
  <2>3. PICK c \in Callbacks : callback' = [callback EXCEPT ![n] = c] /\ c.type = "BY"
    BY <2>2, Triggered
  <2>4. HonestHandlers'
    BY <2>3, HandlersGrown DEF SafeInv
  <2> QED BY <2>1, <2>4, Unmoved DEF ConsentInv
<1>3. CASE RecvSync(n, m)
  <2>1. net' \subseteq net \cup SyncAnswers(n, m)
    BY <1>3, Read DEF RecvSync
  <2>2. \A d \in SyncAnswers(n, m) : d.type = "CK"
    BY DEF SyncAnswers, SyncCommand, Command
  <2> QED BY <1>3, <2>1, <2>2, ConsentSame DEF RecvSync
<1>4. CASE RecvData(n, m)
  <2> USE <1>4 DEF RecvData
  <2>1. HonestMail'
    BY OnlyRead
  <2>2. Greeted(sent', n, m.ssrc)
    <3>1. m.type = "RTP" /\ m.dst = Addr(n, RTP)
      BY DEF Arrived, AtRTP, Addr, Control, RTP
    <3>2. m \in sent
      BY <3>1 DEF ConsentInv, HonestMail, Honest
    <3> QED BY <3>1, <3>2 DEF Greeted
  <2>3. Welcome'
    <3>1. CASE UNCHANGED session
      BY <3>1, Unmoved
    <3>2. ASSUME NEW p \in Peers, Enter(n, m, p, FALSE) PROVE Welcome'
      BY <2>2, <3>2, EnterGrown DEF SafeInv
    <3> QED BY <3>1, <3>2
  <2> QED BY <2>1, <2>3, Unmoved DEF ConsentInv
<1> QED BY <1>1, <1>2, <1>3, <1>4, ConsentInvitation, ConsentAccepted DEF Receive

\* The rest of the handlers.
LEMMA ConsentReturn ==
    ASSUME ConsentInv, SafeInv, NEW n \in Drivers, Return(n)
    PROVE  ConsentInv'
<1> DEFINE c == callback[n]
<1>1. ASSUME UNCHANGED sent, NEW type, Resume(n, type) PROVE HonestHandlers'
  <2>1. callback' = [callback EXCEPT ![n] = NULL]
    BY <1>1, Resumed DEF SafeInv
  <2> QED BY <1>1, <2>1, HandlersGrown DEF SafeInv
<1>2. CASE AfterInvitation(n)
  <2> USE <1>2 DEF AfterInvitation
  <2> DEFINE d == Answer(n, Control, c.addr, c.token)
  <2>1. net' = net \cup {d}
    BY DEF Send
  <2>2. c # NULL /\ c.type = "IN"
    BY DEF Resume
  <2>3. Asked(sent', n, c.token, c.addr)
    BY <2>2 DEF ConsentInv, HonestHandlers
  <2>4. Honest(sent', d)
    BY <2>3, AnswerHonest
  <2>5. HonestMail'
    <3> HIDE DEF d
    <3> QED BY <2>1, <2>4, OneMore DEF ConsentInv
  <2> QED BY <1>1, <2>5, Unmoved DEF ConsentInv
<1>3. CASE AfterAccepted(n)
  <2> USE <1>3 DEF AfterAccepted
  <2> DEFINE d == SyncCommand(n, RTP, c.addr, 0)
  <2>1. net' = net \cup {d} /\ d.type = "CK"
    BY DEF StartSync, Send, SyncCommand, Command
  <2>2. HonestMail'
    <3> HIDE DEF d
    <3> QED BY <2>1, Harmless, OneMore DEF ConsentInv
  <2>3. Welcome'
    <3>1. /\ \A x \in Drivers \ {n} : table'[x] = table[x] /\ heap'[x] = heap[x]
          /\ table' = table
      BY DEF SafeInv, SessionInv
    <3>2. \A q \in Members(table[n]) : heap'[n][q] = heap[n][q]
      BY DEF SafeInv, SessionInv
    <3> QED BY <2>2, <3>1, <3>2, EntriesGrown
  <2> QED BY <1>1, <2>2, <2>3, Unmoved DEF ConsentInv
<1>4. CASE AfterEndSession(n)
  <2> USE <1>4 DEF AfterEndSession
  <2>1. HonestMail'
    BY DEF ConsentInv, HonestMail
  <2>2. CASE UNCHANGED session
    BY <1>1, <2>1, <2>2, Unmoved DEF ConsentInv
  <2>3. ASSUME NEW s \in Slots, table[n][s] # NULL, Leave(n, s) PROVE ConsentInv'
    <3>1. Welcome'
      BY <2>3, LeaveGrown DEF SafeInv
    <3> QED BY <1>1, <2>1, <3>1, Unmoved DEF ConsentInv
  <2> QED BY <2>2, <2>3
<1> QED BY <1>2, <1>3, <1>4 DEF Return

\* Any step.
LEMMA ConsentStep ==
    ASSUME Straight, ConsentInv, SafeInv, [Next]_vars
    PROVE  ConsentInv'
<1>1. CASE UNCHANGED vars
  <2>1. HonestMail'
    BY <1>1 DEF ConsentInv, HonestMail, vars
  <2> QED BY <1>1, <2>1, Unmoved DEF ConsentInv, vars
<1>2. ASSUME NEW m \in net, Lose(m) PROVE ConsentInv'
  <2> USE <1>2 DEF Lose
  <2>1. HonestMail'
    BY DEF ConsentInv, HonestMail
  <2> QED BY <2>1, Unmoved DEF ConsentInv
<1>3. ASSUME NEW n \in Drivers, MIDIDriverAppleMIDIIdle(n) PROVE ConsentInv'
  <2>1. UNCHANGED <<accept, session, callback, sent>>
    BY <1>3 DEF MIDIDriverAppleMIDIIdle
  <2>2. CASE net' = net
    <3> DEFINE D == {}
    <3>1. net' = net \cup D /\ \A d \in D : d.type \in {"NO", "BY", "CK"}
      BY <2>2
    <3> HIDE DEF D
    <3> QED BY <2>1, <3>1, ConsentSame
  <2>3. ASSUME NEW a, StartSync(n, a) PROVE ConsentInv'
    <3> DEFINE D == {SyncCommand(n, RTP, a, 0)}
    <3>1. net' = net \cup D /\ \A d \in D : d.type \in {"NO", "BY", "CK"}
      BY <2>3 DEF StartSync, Send, SyncCommand, Command
    <3> HIDE DEF D
    <3> QED BY <2>1, <3>1, ConsentSame
  <2> QED BY <1>3, <2>2, <2>3 DEF MIDIDriverAppleMIDIIdle
<1> QED BY <1>1, <1>2, <1>3, ConsentCall, ConsentReturn, ConsentReceive DEF Next

\* A driver whose application accepts no invitations has entries only for those
\* that sent it data and those that were invited with its token from its host,
\* whatever else was meant for an earlier driver at its ports (applemidi.c:842-866)
\* and whatever the network does.
THEOREM ConsentCorrect == ASSUME Straight PROVE Spec => []Consent
<1>1. Init => ConsentInv
  <2> SUFFICES ASSUME Init PROVE ConsentInv
    OBVIOUS
  <2>1. Welcome
    BY DEF Init, Welcome, Members, EmptyTable
  <2> QED BY <2>1 DEF Init, ConsentInv, HonestMail, HonestHandlers, Refusing
<1>2. ConsentInv /\ SafeInv /\ [Next]_vars => ConsentInv'
  BY ConsentStep
<1> QED BY <1>1, <1>2, Safe, ConsentProperty, PTL DEF Spec
=============================================================================
