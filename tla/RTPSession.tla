----------------------------- MODULE RTPSession -----------------------------
(***************************************************************************)
(* One RTPSession of driver/common/rtp.c and its callers.                  *)
(*                                                                         *)
(* A peer is a reference-counted cell.  The callers own references (they   *)
(* got them from RTPPeerCreate and RTPPeerRetain), the session owns one    *)
(* for every slot of its table.  malloc may hand out any free cell again,  *)
(* so a stale pointer may meet another peer at the same address.           *)
(*                                                                         *)
(* The session also keeps a packet info of its own, which                  *)
(* RTPSessionSend and RTPSessionReceive use when the caller passes none.   *)
(* Its peer pointer survives from call to call and owns no reference.      *)
(*                                                                         *)
(* fault is TRUE once the code has read a freed cell.  What happens then   *)
(* is undefined, so the model stops there.                                 *)
(***************************************************************************)
EXTENDS RTPPeerTable

CONSTANTS
    SSRCs,     \* synchronization source identifiers in use
    SeqMod,    \* sequence numbers are taken modulo this, 2^16 in the source
    Seqs,      \* the sequence numbers a received packet may carry
    MaxHeld    \* bound: references the callers own on one peer

ASSUME SessionAssumption ==
    /\ SSRCs \subseteq Nat /\ SSRCs # {}
    /\ SeqMod \in Nat \ {0}
    /\ Seqs \subseteq 0 .. SeqMod - 1
    /\ MaxHeld \in Nat

VARIABLES
    peers,     \* session->peers
    refs,      \* peer->refs, 0 for a cell that is not allocated
    ssrc,      \* peer->address.ssrc
    inSeq,     \* peer->in_seqnum
    outSeq,    \* peer->out_seqnum
    infoPeer,  \* session->info.peer
    open,      \* the session has not been destroyed
    fault,     \* a freed cell has been read
    held,      \* references the callers own
    got        \* history: the sequence numbers received from a peer

cells == <<refs, ssrc, inSeq, outSeq>>
vars  == <<peers, cells, infoPeer, open, fault, held, got>>

Live(p) == refs[p] > 0

Init ==
    /\ peers = EmptyTable
    /\ refs = [p \in Peers |-> 0]
    /\ ssrc = [p \in Peers |-> CHOOSE x \in SSRCs : TRUE]
    /\ inSeq = [p \in Peers |-> 0]
    /\ outSeq = [p \in Peers |-> 0]
    /\ infoPeer = NULL
    /\ open = TRUE
    /\ fault = FALSE
    /\ held = [p \in Peers |-> 0]
    /\ got = [p \in Peers |-> {}]

-----------------------------------------------------------------------------
(* Peers: creation and reference counting by the callers.                  *)

\* What RTPPeerCreate writes into the cell malloc returned.
NewPeer(p, x) ==
    /\ ssrc' = [ssrc EXCEPT ![p] = x]
    /\ outSeq' = [outSeq EXCEPT ![p] = 0]

RTPPeerCreate(p, x) ==
    /\ ~Live(p) /\ MaxHeld > 0
    /\ NewPeer(p, x)
    /\ refs' = [refs EXCEPT ![p] = 1]
    /\ inSeq' = [inSeq EXCEPT ![p] = 0]
    /\ held' = [held EXCEPT ![p] = 1]
    /\ got' = [got EXCEPT ![p] = {}]
    /\ UNCHANGED <<peers, infoPeer, open, fault>>

RTPPeerRetain(p) ==
    /\ Live(p) /\ held[p] < MaxHeld
    /\ refs' = [refs EXCEPT ![p] = @ + 1]
    /\ held' = [held EXCEPT ![p] = @ + 1]
    /\ UNCHANGED <<peers, ssrc, inSeq, outSeq, infoPeer, open, fault, got>>

RTPPeerRelease(p) ==
    /\ held[p] > 0
    /\ refs' = [refs EXCEPT ![p] = @ - 1]
    /\ held' = [held EXCEPT ![p] = @ - 1]
    /\ UNCHANGED <<peers, ssrc, inSeq, outSeq, infoPeer, open, fault, got>>

-----------------------------------------------------------------------------
(* The table.  A caller passes a pointer it owns a reference to or has     *)
(* just looked up: a live cell.                                            *)

\* Mutant of RTPSessionAddPeer: the slot takes the pointer, not a reference.
AddPeer_NoRetain(p) ==
    /\ open /\ Live(p)
    /\ \E s \in Slots :
          /\ FreeSlot(peers, ssrc[p], s)
          /\ peers' = [peers EXCEPT ![s] = p]
    /\ UNCHANGED <<cells, infoPeer, open, fault, held, got>>

\* With no slot left RTPSessionAddPeer returns 1 and changes nothing.
RTPSessionAddPeer(p) ==
    /\ open /\ Live(p)
    /\ \E s \in Slots :
          /\ FreeSlot(peers, ssrc[p], s)
          /\ peers' = [peers EXCEPT ![s] = p]
    /\ refs' = [refs EXCEPT ![p] = @ + 1]
    /\ UNCHANGED <<ssrc, inSeq, outSeq, infoPeer, open, fault, held, got>>

\* Mutant of RTPSessionRemovePeer: the reference of the slot is forgotten.
RemovePeer_NoRelease(p) ==
    /\ open /\ Live(p)
    /\ \E s \in Slots :
          /\ HeldSlot(peers, ssrc[p], p, s)
          /\ peers' = [peers EXCEPT ![s] = NULL]
    /\ UNCHANGED <<cells, infoPeer, open, fault, held, got>>

\* With p not in the table RTPSessionRemovePeer returns 1 and changes nothing.
\* The reference goes after the slot is cleared; info.peer is left alone.
RTPSessionRemovePeer(p) ==
    /\ open /\ Live(p)
    /\ \E s \in Slots :
          /\ HeldSlot(peers, ssrc[p], p, s)
          /\ peers' = [peers EXCEPT ![s] = NULL]
    /\ refs' = [refs EXCEPT ![p] = @ - 1]
    /\ UNCHANGED <<ssrc, inSeq, outSeq, infoPeer, open, fault, held, got>>

\* RTPSessionRelease by the last owner: RTPSessionDestroy releases the peer of
\* every slot.
RTPSessionDestroy ==
    /\ open
    /\ open' = FALSE
    /\ refs' = [p \in Peers |-> refs[p] - Cardinality(SlotsOf(peers, p))]
    /\ peers' = EmptyTable
    /\ infoPeer' = NULL
    /\ UNCHANGED <<ssrc, inSeq, outSeq, fault, held, got>>

-----------------------------------------------------------------------------
(* Sending.  sendmsg may fail, and then the peer's number is not advanced. *)

\* Mutant of SeqAfter: the counter is not truncated to the 16-bit field.
SeqAfter_NoWrap(at, n) == at + n

\* The peer's number after n packets; sequence_number is an unsigned short.
SeqAfter(at, n) == (at + n) % SeqMod

\* RTPSessionSendPacket to every occupied slot; Ok are those for which sendmsg
\* took the whole packet.
SendPackets(Ok) ==
    outSeq' = [p \in Peers |-> SeqAfter(outSeq[p], Cardinality(Ok \cap SlotsOf(peers, p)))]

\* RTPSessionSendPacket with a packet info of the caller, to a live peer.
RTPSessionSendPacket(p) ==
    /\ open /\ Live(p)
    /\ \E sent \in {0, 1} : outSeq' = [outSeq EXCEPT ![p] = SeqAfter(@, sent)]
    /\ UNCHANGED <<peers, refs, ssrc, inSeq, infoPeer, open, fault, held, got>>

Occupied == {s \in Slots : peers[s] # NULL}

\* RTPSessionSend without an info while session->info.peer is NULL: a packet
\* to every slot.  The pointer is left at the last peer of the loop.
SendBroadcast ==
    /\ open /\ infoPeer = NULL
    /\ \E Ok \in SUBSET Occupied : SendPackets(Ok)
    /\ \/ Occupied = {} /\ infoPeer' = NULL
       \/ \E last \in Occupied :
             /\ \A s \in Occupied : s <= last
             /\ infoPeer' = peers[last]
    /\ UNCHANGED <<peers, refs, ssrc, inSeq, open, fault, held, got>>

\* RTPSessionSend without an info while session->info.peer is set: a packet to
\* that peer alone, or a read of a freed cell.
SendToInfoPeer ==
    /\ open /\ infoPeer # NULL
    /\ IF Live(infoPeer)
       THEN /\ \E sent \in {0, 1} :
                  outSeq' = [outSeq EXCEPT ![infoPeer] = SeqAfter(@, sent)]
            /\ UNCHANGED fault
       ELSE /\ fault' = TRUE
            /\ UNCHANGED outSeq
    /\ UNCHANGED <<peers, refs, ssrc, inSeq, infoPeer, open, held, got>>

RTPSessionSend == SendBroadcast \/ SendToInfoPeer

-----------------------------------------------------------------------------
(* Receiving a packet of source x with sequence number q, into the         *)
(* session's own info (own) or one of the caller.                          *)

\* Mutant of Advance: any later number is taken as the next one.
Advance_Jumps(at, q) == IF q > at THEN q ELSE at

\* in_seqnum is an unsigned long and follows only its direct successor.
Advance(at, q) == IF q = at + 1 THEN q ELSE at

ReceiveKnown(x, q, own) ==
    /\ open
    /\ \E s \in Slots :
          /\ MatchSlot(peers, ssrc, x, s)
          /\ inSeq' = [inSeq EXCEPT ![peers[s]] = Advance(@, q)]
          /\ got' = [got EXCEPT ![peers[s]] = @ \cup {q}]
          /\ infoPeer' = IF own THEN peers[s] ELSE infoPeer
    /\ UNCHANGED <<peers, refs, ssrc, outSeq, open, fault, held>>

Unknown(x) == \A s \in Slots : ~MatchSlot(peers, ssrc, x, s)

\* A peer is created for an unknown source, added and released: the table
\* keeps the only reference.
ReceiveNew(x, q, own) ==
    /\ open /\ Unknown(x)
    /\ \E p \in Peers, s \in Slots :
          /\ ~Live(p)
          /\ FreeSlot(peers, x, s)
          /\ peers' = [peers EXCEPT ![s] = p]
          /\ refs' = [refs EXCEPT ![p] = 1]
          /\ NewPeer(p, x)
          /\ inSeq' = [inSeq EXCEPT ![p] = Advance(0, q)]
          /\ got' = [got EXCEPT ![p] = {q}]
          /\ infoPeer' = IF own THEN p ELSE infoPeer
    /\ UNCHANGED <<open, fault, held>>

\* With the table full the new peer is freed by its release, and its in_seqnum
\* is read afterwards.  The info keeps pointing to the freed cell.
ReceiveOverflow(x, own) ==
    /\ open /\ Unknown(x) /\ Full(peers)
    /\ \E p \in Peers :
          /\ ~Live(p)
          /\ NewPeer(p, x)
          /\ inSeq' = [inSeq EXCEPT ![p] = 0]
          /\ got' = [got EXCEPT ![p] = {}]
          /\ infoPeer' = IF own THEN p ELSE infoPeer
    /\ fault' = TRUE
    /\ UNCHANGED <<peers, refs, open, held>>

\* x is the SSRC that _rtp_decode_header read. One of 2^31 and more is extended with
\* its sign (rtp.c:764-767), and so is not the number its peer was added under;
\* those of this library are below (random).
RTPSessionReceivePacket ==
    \E x \in SSRCs, q \in Seqs, own \in BOOLEAN :
        \/ ReceiveKnown(x, q, own)
        \/ ReceiveNew(x, q, own)
        \/ ReceiveOverflow(x, own)

-----------------------------------------------------------------------------
PeerStep ==
    \E p \in Peers :
        \/ \E x \in SSRCs : RTPPeerCreate(p, x)
        \/ RTPPeerRetain(p)
        \/ RTPPeerRelease(p)
        \/ RTPSessionAddPeer(p)
        \/ RTPSessionRemovePeer(p)
        \/ RTPSessionSendPacket(p)

Next ==
    /\ ~fault
    /\ \/ PeerStep
       \/ RTPSessionSend
       \/ RTPSessionReceivePacket
       \/ RTPSessionDestroy

Spec == Init /\ [][Next]_vars
-----------------------------------------------------------------------------
(* Properties.                                                             *)

\* The values the variables take.
TypeOK ==
    /\ peers \in [Slots -> Peers \cup {NULL}]
    /\ refs \in [Peers -> Nat]
    /\ ssrc \in [Peers -> SSRCs]
    /\ inSeq \in [Peers -> Nat]
    /\ outSeq \in [Peers -> 0 .. SeqMod - 1]
    /\ infoPeer \in Peers \cup {NULL}
    /\ open \in BOOLEAN
    /\ fault \in BOOLEAN
    /\ held \in [Peers -> 0 .. MaxHeld]
    /\ got \in [Peers -> SUBSET Seqs]

\* A peer's counter is the number of its owners: the references of the callers
\* and the slots of the table.  So no order of adding, removing, receiving and
\* releasing frees a peer of the table or leaks one (RTPPeerRetain,
\* RTPPeerRelease and their uses in rtp.c).
RefsExact ==
    \A p \in Peers : refs[p] = held[p] + Cardinality(SlotsOf(peers, p))

\* in_seqnum is a cumulative acknowledgement: every packet numbered up to it
\* has arrived from that peer, whatever was lost, repeated or reordered
\* (RTPSessionReceivePacket, rtp.c:1011).
CumulativeSeq ==
    \A p \in Peers : Live(p) => 1 .. inSeq[p] \subseteq got[p]

Entries(t, ssrcOf, x) == {s \in Slots : t[s] # NULL /\ ssrcOf[t[s]] = x}

\* A packet never gives a source a second entry: the lookup by ssrc finds the
\* first one even when removals left empty slots before it in the probe order
\* (RTPSessionFindPeerBySSRC against RTPSessionAddPeer).
OneEntryPerSender ==
    [][RTPSessionReceivePacket =>
         \A x \in SSRCs :
            LET old == Entries(peers, ssrc, x)
                new == Entries(peers', ssrc', x)
            IN old # {} => new = old]_vars

Registry == INSTANCE PeerRegistry WITH
    Capacity <- MaxPeers,
    alive    <- {p \in Peers : Live(p)},
    owned    <- held,
    members  <- [p \in Peers |-> Cardinality(SlotsOf(peers, p))]

\* Slots, probe order and counters implement the registry: a peer exists
\* exactly while a caller or the table owns it, and the table takes no more
\* than RTP_MAX_PEERS.
ImplementsRegistry == Registry!Spec
=============================================================================
