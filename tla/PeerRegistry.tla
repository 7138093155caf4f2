---------------------------- MODULE PeerRegistry ----------------------------
(***************************************************************************)
(* What an RTPSession promises about its peers, without slots, probes and  *)
(* counters: a bag of members of limited size, and peers that exist        *)
(* exactly as long as somebody owns them, be it a caller or a membership.  *)
(***************************************************************************)
EXTENDS Integers, FiniteSets

CONSTANTS Peers, Capacity

VARIABLES
    alive,    \* the peers that exist
    owned,    \* how many references the callers own on a peer
    members,  \* how many times a peer is a member of the session
    open      \* the session exists

registry == <<alive, owned, members, open>>

None == [p \in Peers |-> 0]

Init ==
    /\ alive = {}
    /\ owned = None
    /\ members = None
    /\ open = TRUE

\* The memberships, numbered for each peer, and how many there are.
Memberships == UNION {{p} \X (1 .. members[p]) : p \in Peers}

Size == Cardinality(Memberships)

\* A peer exists from its creation until its last owner lets it go.
Settle == alive' = {p \in Peers : owned'[p] + members'[p] > 0}

Create(p) ==
    /\ p \notin alive
    /\ owned' = [owned EXCEPT ![p] = 1]
    /\ UNCHANGED <<members, open>>

Retain(p) ==
    /\ p \in alive
    /\ owned' = [owned EXCEPT ![p] = @ + 1]
    /\ UNCHANGED <<members, open>>

Release(p) ==
    /\ owned[p] > 0
    /\ owned' = [owned EXCEPT ![p] = @ - 1]
    /\ UNCHANGED <<members, open>>

\* A peer the callers have, or one that is made for an unknown sender.
Join(p) ==
    /\ open /\ Size < Capacity
    /\ members' = [members EXCEPT ![p] = @ + 1]
    /\ UNCHANGED <<owned, open>>

Leave(p) ==
    /\ open /\ members[p] > 0
    /\ members' = [members EXCEPT ![p] = @ - 1]
    /\ UNCHANGED <<owned, open>>

Close ==
    /\ open
    /\ open' = FALSE
    /\ members' = None
    /\ UNCHANGED owned

Next ==
    /\ \/ \E p \in Peers : Create(p) \/ Retain(p) \/ Release(p) \/ Join(p) \/ Leave(p)
       \/ Close
    /\ Settle

Spec == Init /\ [][Next]_registry
=============================================================================
