---------------------------- MODULE RTPPeerTable ----------------------------
(***************************************************************************)
(* The peer table of an RTP session (struct RTPSession.peers in            *)
(* driver/common/rtp.c): RTP_MAX_PEERS slots, probed linearly from slot    *)
(* ssrc % RTP_MAX_PEERS.  An entry is the address of a struct RTPPeer; the *)
(* table does not look at the content of a cell except for its ssrc.       *)
(* The same operators serve RTPSession (one session and its callers) and   *)
(* AppleMIDI (one table per driver).                                       *)
(***************************************************************************)
EXTENDS Integers, FiniteSets

CONSTANTS
    MaxPeers,   \* RTP_MAX_PEERS, 16 in the source
    Peers,      \* the memory cells malloc may return for a struct RTPPeer
    NULL

ASSUME TableAssumption ==
    /\ MaxPeers \in Nat \ {0}
    /\ IsFiniteSet(Peers)
    /\ NULL \notin Peers

Slots == 0 .. MaxPeers - 1

EmptyTable == [s \in Slots |-> NULL]

Members(t) == {t[s] : s \in Slots} \ {NULL}

SlotsOf(t, p) == {s \in Slots : t[s] = p}

\* How many probes of a lookup for ssrc x come before slot s: the loops run
\* p = (i + x % RTP_MAX_PEERS) % RTP_MAX_PEERS for i = 0, 1, ...
Probes(x, s) == (s - x) % MaxPeers

\* RTPSessionAddPeer stores the peer in s: the first empty slot it probes.
FreeSlot(t, x, s) ==
    /\ t[s] = NULL
    /\ \A u \in Slots : t[u] = NULL => Probes(x, s) <= Probes(x, u)

\* RTPSessionRemovePeer clears s: the first slot it probes that holds p.
HeldSlot(t, x, p, s) ==
    /\ t[s] = p
    /\ \A u \in Slots : t[u] = p => Probes(x, s) <= Probes(x, u)

\* Mutant of MatchSlot: an empty slot ends the search.
MatchSlot_StopsAtHole(t, ssrcOf, x, s) ==
    /\ t[s] # NULL /\ ssrcOf[t[s]] = x
    /\ \A u \in Slots : Probes(x, u) < Probes(x, s)
                           => t[u] # NULL /\ ssrcOf[t[u]] # x

\* RTPSessionFindPeerBySSRC returns the peer in s: the first occupied slot it
\* probes whose peer has ssrc x.  Empty slots do not end the search.
MatchSlot(t, ssrcOf, x, s) ==
    /\ t[s] # NULL /\ ssrcOf[t[s]] = x
    /\ \A u \in Slots : t[u] # NULL /\ ssrcOf[t[u]] = x
                           => Probes(x, s) <= Probes(x, u)

\* Mutant of NextPeer: the table is a ring.
NextPeer_Wraps(t, p) ==
    LET later == {s \in Slots : /\ t[s] # NULL
                                /\ p # NULL => \E u \in SlotsOf(t, p) : u < s}
        from  == IF later = {} THEN {s \in Slots : t[s] # NULL} ELSE later
    IN  IF from = {} THEN NULL ELSE t[CHOOSE s \in from : \A u \in from : s <= u]

\* RTPSessionNextPeer moves from p to the peer of the next occupied slot after
\* the first one that holds p, from NULL to the first peer and from the last one
\* to NULL.  A pointer that is not in the table stays as it is.
NextPeer(t, p) ==
    LET later == {s \in Slots : /\ t[s] # NULL
                                /\ p # NULL => \E u \in SlotsOf(t, p) : u < s}
    IN  IF p # NULL /\ p \notin Members(t) THEN p
        ELSE IF later = {} THEN NULL
        ELSE t[CHOOSE s \in later : \A u \in later : s <= u]

Full(t) == \A s \in Slots : t[s] # NULL
=============================================================================
