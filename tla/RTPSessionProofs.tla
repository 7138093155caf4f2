-------------------------- MODULE RTPSessionProofs --------------------------
(***************************************************************************)
(* The invariants of RTPSession for every table size, every set of cells   *)
(* and sources, and every width of the sequence number.                    *)
(*                                                                         *)
(* None of the three is inductive alone: the destruction of the session    *)
(* keeps the counters natural numbers (TypeOK) because they count the      *)
(* slots (RefsExact), and a fresh cell gives its counter one owner because *)
(* a dead one has none.  Their conjunction is.                             *)
(***************************************************************************)
EXTENDS RTPSession, FiniteSetTheorems, LeastNumber, TLAPS

SessionInv == TypeOK /\ RefsExact /\ CumulativeSeq

-----------------------------------------------------------------------------
(* Arithmetic and counting.                                                *)

\* Sequence numbers stay in their field.
LEMMA SeqAfterRange ==
    ASSUME NEW at \in Nat, NEW n \in Nat
    PROVE  SeqAfter(at, n) \in 0 .. SeqMod - 1
<1>1. SeqMod \in Nat /\ SeqMod > 0
  BY SessionAssumption
<1> QED BY <1>1 DEF SeqAfter

\* The slots of a cell are finitely many.
LEMMA SlotCount ==
    ASSUME NEW t, NEW p
    PROVE  IsFiniteSet(SlotsOf(t, p)) /\ Cardinality(SlotsOf(t, p)) \in Nat
<1>1. IsFiniteSet(Slots)
  BY TableAssumption, FS_Interval DEF Slots
<1>2. IsFiniteSet(SlotsOf(t, p))
  BY <1>1, FS_Subset DEF SlotsOf
<1> QED BY <1>2, FS_CardinalityType

\* In the table t, slot s changes from a to b.
Puts(t, u, s, a, b) == t \in [Slots -> Peers \cup {NULL}] /\ t[s] = a /\ u = [t EXCEPT ![s] = b]

\* Filling an empty slot with a cell gives that cell one slot more, and leaves
\* the count of every other cell alone.
LEMMA SlotFilled ==
    ASSUME NEW t, NEW u, NEW s \in Slots, NEW p \in Peers, Puts(t, u, s, NULL, p), NEW q \in Peers
    PROVE  Cardinality(SlotsOf(u, q))
              = Cardinality(SlotsOf(t, q)) + (IF q = p THEN 1 ELSE 0)
<1>1. s \notin SlotsOf(t, q)
  BY TableAssumption DEF SlotsOf, Puts
<1>2. CASE q = p
  <2>1. SlotsOf(u, q) = SlotsOf(t, q) \cup {s}
    BY <1>2 DEF SlotsOf, Puts
  <2>2. Cardinality(SlotsOf(t, q) \cup {s}) = Cardinality(SlotsOf(t, q)) + 1
    BY <1>1, SlotCount, FS_AddElement
  <2> QED BY <2>1, <2>2, <1>2
<1>3. CASE q # p
  <2>1. SlotsOf(u, q) = SlotsOf(t, q)
    BY <1>3, TableAssumption DEF SlotsOf, Puts
  <2> QED BY <2>1, <1>3, SlotCount
<1> QED BY <1>2, <1>3

\* Clearing a slot takes one slot from the cell it held.
LEMMA SlotCleared ==
    ASSUME NEW t, NEW u, NEW s \in Slots, NEW p \in Peers, Puts(t, u, s, p, NULL), NEW q \in Peers
    PROVE  Cardinality(SlotsOf(u, q))
              = Cardinality(SlotsOf(t, q)) - (IF q = p THEN 1 ELSE 0)
<1>2. CASE q = p
  <2>1. SlotsOf(u, q) = SlotsOf(t, q) \ {s} /\ s \in SlotsOf(t, q)
    BY <1>2, TableAssumption DEF SlotsOf, Puts
  <2>2. Cardinality(SlotsOf(t, q) \ {s}) = Cardinality(SlotsOf(t, q)) - 1
    BY <2>1, SlotCount, FS_RemoveElement
  <2> QED BY <2>1, <2>2, <1>2
<1>3. CASE q # p
  <2>1. SlotsOf(u, q) = SlotsOf(t, q)
    BY <1>3, TableAssumption DEF SlotsOf, Puts
  <2> QED BY <2>1, <1>3, SlotCount
<1> QED BY <1>2, <1>3

\* An empty table counts no slots.
LEMMA NoSlots ==
    ASSUME NEW p \in Peers
    PROVE  Cardinality(SlotsOf(EmptyTable, p)) = 0
<1>1. SlotsOf(EmptyTable, p) = {}
  BY TableAssumption DEF SlotsOf, EmptyTable
<1> QED BY <1>1, FS_EmptySet

\* A cell that is not allocated has no owner.
LEMMA DeadUnowned ==
    ASSUME SessionInv, NEW p \in Peers, ~Live(p)
    PROVE  /\ refs[p] = 0 /\ held[p] = 0
           /\ Cardinality(SlotsOf(peers, p)) = 0
<1>1. refs[p] = held[p] + Cardinality(SlotsOf(peers, p))
  BY DEF SessionInv, RefsExact
<1>2. refs[p] \in Nat /\ held[p] \in Nat
  BY SessionAssumption DEF SessionInv, TypeOK
<1> QED BY <1>1, <1>2, SlotCount DEF Live

\* The cell in an occupied slot is allocated.
LEMMA EntryLive ==
    ASSUME SessionInv, NEW s \in Slots, peers[s] # NULL
    PROVE  peers[s] \in Peers /\ Live(peers[s])
<1> DEFINE p == peers[s]
<1>1. p \in Peers
  BY DEF SessionInv, TypeOK
<1>2. SlotsOf(peers, p) # {}
  BY DEF SlotsOf
<1>3. Cardinality(SlotsOf(peers, p)) # 0
  BY <1>2, SlotCount, FS_EmptySet
<1>4. refs[p] = held[p] + Cardinality(SlotsOf(peers, p)) /\ held[p] \in Nat
  BY <1>1, SessionAssumption DEF SessionInv, RefsExact, TypeOK
<1> QED BY <1>1, <1>3, <1>4, SlotCount DEF Live
-----------------------------------------------------------------------------
(* The initial state and the steps, one lemma for each of their kinds.     *)

\* An empty table, and no peer that anybody refers to.
LEMMA InitHolds == Init => SessionInv
<1> SUFFICES ASSUME Init PROVE SessionInv
  OBVIOUS
<1>1. TypeOK
  <2>1. ssrc \in [Peers -> SSRCs]
    <3>1. (CHOOSE x \in SSRCs : TRUE) \in SSRCs
      BY SessionAssumption
    <3> QED BY <3>1 DEF Init
  <2>2. peers \in [Slots -> Peers \cup {NULL}]
    BY DEF Init, EmptyTable
  <2>3. outSeq \in [Peers -> 0 .. SeqMod - 1] /\ held \in [Peers -> 0 .. MaxHeld]
    BY SessionAssumption DEF Init
  <2> QED BY <2>1, <2>2, <2>3 DEF Init, TypeOK
<1>2. RefsExact
  BY NoSlots DEF Init, RefsExact
<1>3. CumulativeSeq
  BY DEF Init, CumulativeSeq, Live
<1> QED BY <1>1, <1>2, <1>3 DEF SessionInv

\* A step that neither receives nor creates keeps the acknowledgements.
LEMMA CumulativeKept ==
    ASSUME CumulativeSeq, UNCHANGED <<inSeq, got>>,
           \A q \in Peers : Live(q)' => Live(q)
    PROVE  CumulativeSeq'
<1> QED BY DEF CumulativeSeq

\* The callers create, retain and release peers.
LEMMA OwnersStep ==
    ASSUME SessionInv, NEW p \in Peers, NEW x \in SSRCs,
           RTPPeerCreate(p, x) \/ RTPPeerRetain(p) \/ RTPPeerRelease(p)
    PROVE  SessionInv'
<1> USE SessionAssumption DEF SessionInv
<1>1. \A q \in Peers : refs[q] = held[q] + Cardinality(SlotsOf(peers, q))
  BY DEF RefsExact
<1>2. \A q \in Peers : Cardinality(SlotsOf(peers, q)) \in Nat
  BY SlotCount
<1>3. CASE RTPPeerCreate(p, x)
  <2>1. TypeOK'
    BY <1>3 DEF TypeOK, RTPPeerCreate, NewPeer
  <2>2. RefsExact'
    BY <1>1, <1>2, <1>3, DeadUnowned DEF TypeOK, RefsExact, RTPPeerCreate
  <2>3. CumulativeSeq'
    BY <1>3 DEF TypeOK, CumulativeSeq, RTPPeerCreate, Live
  <2> QED BY <2>1, <2>2, <2>3
<1>4. CASE RTPPeerRetain(p)
  <2>1. TypeOK'
    BY <1>4 DEF TypeOK, RTPPeerRetain
  <2>2. RefsExact'
    BY <1>1, <1>2, <1>4 DEF TypeOK, RefsExact, RTPPeerRetain
  <2>3. CumulativeSeq'
    BY <1>4 DEF TypeOK, CumulativeSeq, RTPPeerRetain, Live
  <2> QED BY <2>1, <2>2, <2>3
<1>5. CASE RTPPeerRelease(p)
  <2>1. TypeOK'
    BY <1>1, <1>2, <1>5 DEF TypeOK, RTPPeerRelease
  <2>2. RefsExact'
    BY <1>1, <1>2, <1>5 DEF TypeOK, RefsExact, RTPPeerRelease
  <2>3. CumulativeSeq'
    BY <1>5 DEF TypeOK, CumulativeSeq, RTPPeerRelease, Live
  <2> QED BY <2>1, <2>2, <2>3
<1> QED BY <1>3, <1>4, <1>5

\* Peers enter and leave the table; the session is destroyed.
LEMMA TableStep ==
    ASSUME SessionInv,
           \/ \E p \in Peers : RTPSessionAddPeer(p) \/ RTPSessionRemovePeer(p)
           \/ RTPSessionDestroy
    PROVE  SessionInv'
<1> USE SessionAssumption DEF SessionInv
<1>1. \A q \in Peers : refs[q] = held[q] + Cardinality(SlotsOf(peers, q))
  BY DEF RefsExact
<1>2. \A q \in Peers : Cardinality(SlotsOf(peers, q)) \in Nat
  BY SlotCount
<1>3. ASSUME NEW p \in Peers, RTPSessionAddPeer(p) PROVE SessionInv'
  <2>1. PICK s \in Slots : peers[s] = NULL /\ peers' = [peers EXCEPT ![s] = p]
    BY <1>3 DEF RTPSessionAddPeer, FreeSlot
  <2>2. TypeOK'
    BY <1>3, <2>1 DEF TypeOK, RTPSessionAddPeer
  <2>3. ASSUME NEW q \in Peers
        PROVE  Cardinality(SlotsOf(peers', q))
                  = Cardinality(SlotsOf(peers, q)) + (IF q = p THEN 1 ELSE 0)
    <3>1. Puts(peers, peers', s, NULL, p)
      BY <2>1 DEF TypeOK, Puts
    <3> QED BY <3>1, SlotFilled
  <2>4. RefsExact'
    <3>1. \A q \in Peers : refs'[q] = refs[q] + (IF q = p THEN 1 ELSE 0)
      BY <1>3 DEF TypeOK, RTPSessionAddPeer
    <3>2. \A q \in Peers : held'[q] = held[q] /\ held[q] \in Nat
      BY <1>3 DEF TypeOK, RTPSessionAddPeer
    <3> QED BY <1>1, <1>2, <2>3, <3>1, <3>2 DEF RefsExact
  <2>5. CumulativeSeq'
    BY <1>3 DEF TypeOK, CumulativeSeq, RTPSessionAddPeer, Live
  <2> QED BY <2>2, <2>4, <2>5
<1>4. ASSUME NEW p \in Peers, RTPSessionRemovePeer(p) PROVE SessionInv'
  <2>1. PICK s \in Slots : peers[s] = p /\ peers' = [peers EXCEPT ![s] = NULL]
    BY <1>4 DEF RTPSessionRemovePeer, HeldSlot
  <2>2. TypeOK'
    BY <1>4, <2>1 DEF TypeOK, RTPSessionRemovePeer, Live
  <2>3. ASSUME NEW q \in Peers
        PROVE  Cardinality(SlotsOf(peers', q))
                  = Cardinality(SlotsOf(peers, q)) - (IF q = p THEN 1 ELSE 0)
    <3>1. Puts(peers, peers', s, p, NULL)
      BY <2>1 DEF TypeOK, Puts
    <3> QED BY <3>1, SlotCleared
  <2>4. RefsExact'
    <3>1. \A q \in Peers : refs'[q] = refs[q] - (IF q = p THEN 1 ELSE 0)
      BY <1>4 DEF TypeOK, RTPSessionRemovePeer
    <3>2. \A q \in Peers : held'[q] = held[q] /\ held[q] \in Nat
      BY <1>4 DEF TypeOK, RTPSessionRemovePeer
    <3> QED BY <1>1, <1>2, <2>3, <3>1, <3>2 DEF RefsExact
  <2>5. CumulativeSeq'
    <3>1. \A q \in Peers : Live(q)' => Live(q)
      BY <1>4 DEF TypeOK, RTPSessionRemovePeer, Live
    <3> QED BY <1>4, <3>1, CumulativeKept DEF RTPSessionRemovePeer
  <2> QED BY <2>2, <2>4, <2>5
<1>5. CASE RTPSessionDestroy
  <2>1. \A q \in Peers : refs'[q] = held[q]
    BY <1>1, <1>2, <1>5 DEF TypeOK, RTPSessionDestroy
  <2>2. TypeOK'
    <3>1. refs' \in [Peers -> Nat]
      BY <1>5, <2>1 DEF TypeOK, RTPSessionDestroy
    <3>2. peers' \in [Slots -> Peers \cup {NULL}]
      BY <1>5 DEF RTPSessionDestroy, EmptyTable
    <3> QED BY <1>5, <3>1, <3>2 DEF TypeOK, RTPSessionDestroy
  <2>3. RefsExact'
    BY <1>5, <2>1, NoSlots DEF TypeOK, RefsExact, RTPSessionDestroy
  <2>4. CumulativeSeq'
    <3>1. \A q \in Peers : Live(q)' => Live(q)
      BY <1>1, <1>2, <2>1 DEF TypeOK, Live
    <3> QED BY <1>5, <3>1, CumulativeKept DEF RTPSessionDestroy
  <2> QED BY <2>2, <2>3, <2>4
<1> QED BY <1>3, <1>4, <1>5
\* Packets are sent; only sequence numbers and pointers change.
LEMMA SendStep ==
    ASSUME SessionInv,
           (\E p \in Peers : RTPSessionSendPacket(p)) \/ RTPSessionSend
    PROVE  SessionInv'
<1> USE SessionAssumption DEF SessionInv
<1>1. UNCHANGED <<peers, refs, ssrc, inSeq, open, held, got>>
  BY DEF RTPSessionSendPacket, RTPSessionSend, SendBroadcast, SendToInfoPeer
<1>2. RefsExact'
  BY <1>1 DEF RefsExact
<1>3. CumulativeSeq'
  BY <1>1, CumulativeKept DEF Live
<1>4. outSeq' \in [Peers -> 0 .. SeqMod - 1]
  <2>1. \A q \in Peers : outSeq[q] \in Nat
    BY DEF TypeOK
  <2>2. CASE \E p \in Peers : RTPSessionSendPacket(p)
    <3>1. PICK p \in Peers, sent \in {0, 1} :
             outSeq' = [outSeq EXCEPT ![p] = SeqAfter(@, sent)]
      BY <2>2 DEF RTPSessionSendPacket
    <3> QED BY <2>1, <3>1, SeqAfterRange DEF TypeOK
  <2>3. CASE SendBroadcast
    <3>1. PICK Ok \in SUBSET Occupied : SendPackets(Ok)
      BY <2>3 DEF SendBroadcast
    <3>2. ASSUME NEW q \in Peers
          PROVE  SeqAfter(outSeq[q], Cardinality(Ok \cap SlotsOf(peers, q)))
                    \in 0 .. SeqMod - 1
      <4>1. Cardinality(Ok \cap SlotsOf(peers, q)) \in Nat
        BY SlotCount, FS_Subset, FS_CardinalityType
      <4> QED BY <2>1, <4>1, SeqAfterRange
    <3> QED BY <3>1, <3>2 DEF SendPackets
  <2>4. CASE SendToInfoPeer
    <3>1. CASE Live(infoPeer)
      <4>1. PICK sent \in {0, 1} :
               outSeq' = [outSeq EXCEPT ![infoPeer] = SeqAfter(@, sent)]
        BY <2>4, <3>1 DEF SendToInfoPeer
      <4>2. infoPeer \in Peers
        BY <2>4 DEF SendToInfoPeer, TypeOK
      <4> QED BY <2>1, <4>1, <4>2, SeqAfterRange DEF TypeOK
    <3>2. CASE ~Live(infoPeer)
      BY <2>4, <3>2 DEF SendToInfoPeer, TypeOK
    <3> QED BY <3>1, <3>2
  <2> QED BY <2>2, <2>3, <2>4 DEF RTPSessionSend
<1>5. infoPeer' \in Peers \cup {NULL}
  <2>1. CASE SendBroadcast
    BY <2>1 DEF SendBroadcast, Occupied, TypeOK
  <2>2. CASE ~SendBroadcast
    BY <2>2 DEF RTPSessionSendPacket, RTPSessionSend, SendToInfoPeer, TypeOK
  <2> QED BY <2>1, <2>2
<1>6. fault' \in BOOLEAN
  BY DEF TypeOK, RTPSessionSendPacket, RTPSessionSend, SendBroadcast,
         SendToInfoPeer
<1>7. TypeOK'
  BY <1>1, <1>4, <1>5, <1>6 DEF TypeOK
<1> QED BY <1>2, <1>3, <1>7
\* A packet is received.
LEMMA ReceiveStep ==
    ASSUME SessionInv, NEW x \in SSRCs, NEW q \in Seqs, NEW own \in BOOLEAN,
           \/ ReceiveKnown(x, q, own)
           \/ ReceiveNew(x, q, own)
           \/ ReceiveOverflow(x, own)
    PROVE  SessionInv'
<1> USE SessionAssumption DEF SessionInv
<1>1. \A r \in Peers : refs[r] = held[r] + Cardinality(SlotsOf(peers, r))
  BY DEF RefsExact
<1>2. q \in Nat /\ (\A at \in Nat : Advance(at, q) \in Nat)
  BY DEF Advance
<1>3. CASE ReceiveKnown(x, q, own)
  <2>1. PICK s \in Slots :
           /\ peers[s] # NULL
           /\ inSeq' = [inSeq EXCEPT ![peers[s]] = Advance(@, q)]
           /\ got' = [got EXCEPT ![peers[s]] = @ \cup {q}]
           /\ infoPeer' = IF own THEN peers[s] ELSE infoPeer
    BY <1>3 DEF ReceiveKnown, MatchSlot
  <2> DEFINE p == peers[s]
  <2>2. p \in Peers
    BY <2>1 DEF TypeOK
  <2>3. TypeOK'
    BY <1>2, <1>3, <2>1, <2>2 DEF TypeOK, ReceiveKnown
  <2>4. RefsExact'
    BY <1>3 DEF RefsExact, ReceiveKnown
  <2>5. CumulativeSeq'
    <3>1. ASSUME NEW r \in Peers, Live(r)' PROVE 1 .. inSeq'[r] \subseteq got'[r]
      <4>1. 1 .. inSeq[r] \subseteq got[r]
        BY <1>3, <3>1 DEF CumulativeSeq, Live, ReceiveKnown
      <4>2. CASE r = p
        BY <1>2, <2>1, <2>2, <4>1, <4>2 DEF TypeOK, Advance
      <4>3. CASE r # p
        BY <2>1, <4>1, <4>3 DEF TypeOK
      <4> QED BY <4>2, <4>3
    <3> QED BY <3>1 DEF CumulativeSeq
  <2> QED BY <2>3, <2>4, <2>5
<1>4. CASE ReceiveNew(x, q, own)
  <2>1. PICK p \in Peers, s \in Slots :
           /\ ~Live(p) /\ peers[s] = NULL
           /\ peers' = [peers EXCEPT ![s] = p]
           /\ refs' = [refs EXCEPT ![p] = 1]
           /\ NewPeer(p, x)
           /\ inSeq' = [inSeq EXCEPT ![p] = Advance(0, q)]
           /\ got' = [got EXCEPT ![p] = {q}]
           /\ infoPeer' = IF own THEN p ELSE infoPeer
    BY <1>4 DEF ReceiveNew, FreeSlot
  <2>2. UNCHANGED <<open, fault, held>>
    BY <1>4 DEF ReceiveNew
  <2>3. TypeOK'
    BY <1>2, <2>1, <2>2 DEF TypeOK, NewPeer
  <2>4. RefsExact'
    <3>1. ASSUME NEW r \in Peers
          PROVE  Cardinality(SlotsOf(peers', r))
                    = Cardinality(SlotsOf(peers, r)) + (IF r = p THEN 1 ELSE 0)
      <4>1. Puts(peers, peers', s, NULL, p)
        BY <2>1 DEF TypeOK, Puts
      <4> QED BY <4>1, SlotFilled
    <3>2. \A r \in Peers : refs'[r] = (IF r = p THEN 1 ELSE refs[r])
      BY <2>1 DEF TypeOK
    <3>3. held[p] = 0 /\ Cardinality(SlotsOf(peers, p)) = 0
      BY <2>1, DeadUnowned
    <3>4. \A r \in Peers : held[r] \in Nat /\ Cardinality(SlotsOf(peers, r)) \in Nat
      BY SlotCount DEF TypeOK
    <3> QED BY <1>1, <2>2, <3>1, <3>2, <3>3, <3>4 DEF RefsExact
  <2>5. CumulativeSeq'
    <3>1. ASSUME NEW r \in Peers, Live(r)' PROVE 1 .. inSeq'[r] \subseteq got'[r]
      <4>1. CASE r = p
        BY <1>2, <2>1, <4>1 DEF TypeOK, Advance
      <4>2. CASE r # p
        BY <2>1, <3>1, <4>2 DEF TypeOK, CumulativeSeq, Live
      <4> QED BY <4>1, <4>2
    <3> QED BY <3>1 DEF CumulativeSeq
  <2> QED BY <2>3, <2>4, <2>5
<1>5. CASE ReceiveOverflow(x, own)
  <2>1. PICK p \in Peers :
           /\ ~Live(p)
           /\ NewPeer(p, x)
           /\ inSeq' = [inSeq EXCEPT ![p] = 0]
           /\ got' = [got EXCEPT ![p] = {}]
           /\ infoPeer' = IF own THEN p ELSE infoPeer
    BY <1>5 DEF ReceiveOverflow
  <2>2. UNCHANGED <<peers, refs, open, held>> /\ fault' = TRUE
    BY <1>5 DEF ReceiveOverflow
  <2>3. TypeOK'
    BY <2>1, <2>2 DEF TypeOK, NewPeer
  <2>4. RefsExact'
    BY <2>2 DEF RefsExact
  <2>5. CumulativeSeq'
    BY <2>1, <2>2 DEF TypeOK, CumulativeSeq, Live
  <2> QED BY <2>3, <2>4, <2>5
<1> QED BY <1>3, <1>4, <1>5

-----------------------------------------------------------------------------
(* The theorems.                                                           *)

\* Any step.
LEMMA NextHolds == SessionInv /\ [Next]_vars => SessionInv'
<1> SUFFICES ASSUME SessionInv, [Next]_vars PROVE SessionInv'
  OBVIOUS
<1>1. CASE PeerStep
  <2>1. PICK p \in Peers :
           \/ \E x \in SSRCs : RTPPeerCreate(p, x)
           \/ RTPPeerRetain(p)
           \/ RTPPeerRelease(p)
           \/ RTPSessionAddPeer(p)
           \/ RTPSessionRemovePeer(p)
           \/ RTPSessionSendPacket(p)
    BY <1>1 DEF PeerStep
  <2>2. PICK y \in SSRCs : TRUE
    BY SessionAssumption
  <2>3. CASE (\E x \in SSRCs : RTPPeerCreate(p, x)) \/ RTPPeerRetain(p)
                \/ RTPPeerRelease(p)
    BY <2>2, <2>3, OwnersStep
  <2>4. CASE RTPSessionAddPeer(p) \/ RTPSessionRemovePeer(p)
    BY <2>4, TableStep
  <2>5. CASE RTPSessionSendPacket(p)
    BY <2>5, SendStep
  <2> QED BY <2>1, <2>3, <2>4, <2>5
<1>2. CASE RTPSessionSend
  BY <1>2, SendStep
<1>3. CASE RTPSessionReceivePacket
  BY <1>3, ReceiveStep DEF RTPSessionReceivePacket
<1>4. CASE RTPSessionDestroy
  BY <1>4, TableStep
<1>5. CASE UNCHANGED vars
  BY <1>5 DEF SessionInv, TypeOK, RefsExact, CumulativeSeq, Live, vars, cells
<1> QED BY <1>1, <1>2, <1>3, <1>4, <1>5 DEF Next

\* Every reachable state of the session satisfies the inductive invariant.
THEOREM InvariantHolds == Spec => []SessionInv
BY InitHolds, NextHolds, PTL DEF Spec

\* The variables keep their types: no counter of references falls below zero
\* and no sequence number leaves its 16-bit field, for any number of peers.
THEOREM TypeCorrect == Spec => []TypeOK
<1>1. SessionInv => TypeOK
  BY DEF SessionInv
<1> QED BY <1>1, InvariantHolds, PTL

\* The counter of a peer is the number of its owners, whatever order peers are
\* created, added, removed, received and released in (rtp.c:285-331, 578-613).
THEOREM RefsCorrect == Spec => []RefsExact
<1>1. SessionInv => RefsExact
  BY DEF SessionInv
<1> QED BY <1>1, InvariantHolds, PTL

\* in_seqnum acknowledges only what has arrived (rtp.c:1005-1014).
THEOREM AcknowledgementCorrect == Spec => []CumulativeSeq
<1>1. SessionInv => CumulativeSeq
  BY DEF SessionInv
<1> QED BY <1>1, InvariantHolds, PTL

-----------------------------------------------------------------------------
(* Lookups: one entry for each sender.                                     *)

\* A lookup finds a source that has an entry, whatever slots are empty: among
\* its entries one comes first in the probe order.
LEMMA LookupFinds ==
    ASSUME NEW x \in SSRCs, Entries(peers, ssrc, x) # {}
    PROVE  ~Unknown(x)
<1> DEFINE found == {Probes(x, s) : s \in Entries(peers, ssrc, x)}
<1>1. \A s \in Slots : Probes(x, s) \in Nat
  BY TableAssumption, SessionAssumption DEF Probes, Slots
<1>2. found \subseteq Nat /\ found # {}
  BY <1>1 DEF Entries
<1>3. PICK n \in found : \A m \in found : n <= m
  <2> HIDE DEF found
  <2> QED BY <1>2, Least
<1>4. PICK s \in Entries(peers, ssrc, x) :
         \A u \in Entries(peers, ssrc, x) : Probes(x, s) <= Probes(x, u)
  BY <1>3
<1>5. MatchSlot(peers, ssrc, x, s)
  BY <1>4 DEF Entries, MatchSlot
<1> QED BY <1>4, <1>5 DEF Unknown, Entries

\* A cell that is in no slot may be written, and moved into an empty slot,
\* without touching the entries of a source it is not written for.
LEMMA EntriesKept ==
    ASSUME SessionInv, NEW x \in SSRCs, NEW y \in SSRCs, y # x,
           NEW p \in Peers, ~Live(p), NewPeer(p, x),
           \/ UNCHANGED peers
           \/ \E s \in Slots : peers[s] = NULL /\ peers' = [peers EXCEPT ![s] = p]
    PROVE  Entries(peers', ssrc', y) = Entries(peers, ssrc, y)
<1>1. peers \in [Slots -> Peers \cup {NULL}] /\ ssrc \in [Peers -> SSRCs]
  BY DEF SessionInv, TypeOK
<1>2. \A s \in Slots : peers[s] # p
  <2>1. SUFFICES ASSUME NEW s \in Slots, peers[s] = p PROVE FALSE
    OBVIOUS
  <2>2. peers[s] # NULL
    BY <2>1, TableAssumption
  <2> QED BY <2>1, <2>2, EntryLive
<1>3. ssrc' = [ssrc EXCEPT ![p] = x]
  BY DEF NewPeer
<1>4. \A r \in Peers : ssrc'[r] = IF r = p THEN x ELSE ssrc[r]
  BY <1>1, <1>3
<1>5. CASE UNCHANGED peers
  BY <1>1, <1>2, <1>4, <1>5 DEF Entries
<1>6. ASSUME NEW s \in Slots, peers[s] = NULL, peers' = [peers EXCEPT ![s] = p]
      PROVE  Entries(peers', ssrc', y) = Entries(peers, ssrc, y)
  <2>1. \A u \in Slots : peers'[u] = IF u = s THEN p ELSE peers[u]
    BY <1>1, <1>6
  <2> QED BY <1>1, <1>2, <1>4, <1>6, <2>1 DEF Entries
<1> QED BY <1>5, <1>6

\* Receiving a packet leaves the entries of every source that has one.
LEMMA ReceiveKeepsEntries ==
    ASSUME SessionInv, RTPSessionReceivePacket,
           NEW y \in SSRCs, Entries(peers, ssrc, y) # {}
    PROVE  Entries(peers', ssrc', y) = Entries(peers, ssrc, y)
<1>1. PICK x \in SSRCs, q \in Seqs, own \in BOOLEAN :
         \/ ReceiveKnown(x, q, own)
         \/ ReceiveNew(x, q, own)
         \/ ReceiveOverflow(x, own)
  BY DEF RTPSessionReceivePacket
<1>2. CASE ReceiveKnown(x, q, own)
  BY <1>2 DEF ReceiveKnown, Entries
<1>3. CASE ReceiveNew(x, q, own)
  <2>1. y # x
    BY <1>3, LookupFinds DEF ReceiveNew
  <2> QED BY <1>3, <2>1, EntriesKept DEF ReceiveNew, FreeSlot
<1>4. CASE ReceiveOverflow(x, own)
  <2>1. y # x
    BY <1>4, LookupFinds DEF ReceiveOverflow
  <2> QED BY <1>4, <2>1, EntriesKept DEF ReceiveOverflow
<1> QED BY <1>1, <1>2, <1>3, <1>4

\* A packet never gives a source a second entry, with holes anywhere in the
\* table and a cell that was freed and handed out again (rtp.c:985-1014).
THEOREM OneEntryCorrect == Spec => OneEntryPerSender
<1>1. SessionInv /\ [Next]_vars =>
        [RTPSessionReceivePacket =>
           \A x \in SSRCs :
              LET old == Entries(peers, ssrc, x)
                  new == Entries(peers', ssrc', x)
              IN old # {} => new = old]_vars
  BY ReceiveKeepsEntries
<1> QED BY <1>1, InvariantHolds, PTL DEF Spec, OneEntryPerSender

-----------------------------------------------------------------------------
(* The session implements the registry of PeerRegistry.                    *)

\* The memberships of the registry and the occupied slots are the same number:
\* numbering the slots of each peer maps one onto the other.  So a table with an
\* empty slot has room for another member.
LEMMA RoomForOne ==
    ASSUME SessionInv, NEW e \in Slots, peers[e] = NULL
    PROVE  Registry!Size < MaxPeers
<1> DEFINE count(p) == Cardinality(SlotsOf(peers, p))
           M == UNION {{p} \X (1 .. count(p)) : p \in Peers}
           f == [p \in Peers |-> CHOOSE b : b \in Bijection(1 .. count(p), SlotsOf(peers, p))]
           g == [m \in M |-> f[m[1]][m[2]]]
           T == Slots \ {e}
<1>1. \A p \in Peers : f[p] \in Bijection(1 .. count(p), SlotsOf(peers, p))
  <2> TAKE p \in Peers
  <2>1. ExistsBijection(1 .. count(p), SlotsOf(peers, p))
    BY SlotCount, FS_CardinalityType
  <2>2. \E b : b \in Bijection(1 .. count(p), SlotsOf(peers, p))
    BY <2>1 DEF ExistsBijection
  <2> QED BY <2>2
<1>2. \A p \in Peers : \A i \in 1 .. count(p) : f[p][i] \in SlotsOf(peers, p)
  BY <1>1 DEF Bijection, Injection
<1>3. \A p \in Peers : \A i, j \in 1 .. count(p) : f[p][i] = f[p][j] => i = j
  BY <1>1 DEF Bijection, Injection, IsInjective
<1> HIDE DEF f, count
<1>4. \A m \in M : \E p \in Peers : \E i \in 1 .. count(p) : m = <<p, i>>
  OBVIOUS
<1>5. \A m \in M : g[m] \in T /\ peers[g[m]] = m[1]
  <2> TAKE m \in M
  <2>1. PICK p \in Peers, i \in Nat : i \in 1 .. count(p) /\ m = <<p, i>>
    BY <1>4
  <2>2. g[m] = f[p][i]
    BY <2>1
  <2>3. g[m] \in Slots /\ peers[g[m]] = p
    BY <1>2, <2>1, <2>2 DEF SlotsOf
  <2> QED BY <2>1, <2>3, TableAssumption
<1>6. g \in [M -> T]
  BY <1>5
<1>7. ASSUME NEW m \in M, NEW n \in M, g[m] = g[n] PROVE m = n
  <2>1. PICK p \in Peers, i \in Nat : i \in 1 .. count(p) /\ m = <<p, i>>
    BY <1>4
  <2>2. PICK r \in Peers, j \in Nat : j \in 1 .. count(r) /\ n = <<r, j>>
    BY <1>4
  <2>3. p = r
    <3>1. peers[g[m]] = m[1] /\ peers[g[n]] = n[1]
      BY <1>5
    <3>2. m[1] = p /\ n[1] = r
      BY <2>1, <2>2
    <3> HIDE DEF g
    <3> QED BY <1>7, <3>1, <3>2
  <2>4. f[p][i] = f[p][j]
    BY <1>7, <2>1, <2>2, <2>3
  <2> QED BY <1>3, <2>1, <2>2, <2>3, <2>4
<1>8. g \in Injection(M, T)
  BY <1>6, <1>7 DEF Injection, IsInjective
<1>9. IsFiniteSet(T) /\ Cardinality(T) = MaxPeers - 1
  <2>1. MaxPeers \in Nat /\ MaxPeers > 0
    BY TableAssumption
  <2>2. IsFiniteSet(Slots) /\ Cardinality(Slots) = MaxPeers
    <3>1. PICK a, b \in Int : a = 0 /\ b = MaxPeers - 1
      BY <2>1
    <3>2. IsFiniteSet(a .. b) /\ Cardinality(a .. b) = IF a > b THEN 0 ELSE b - a + 1
      BY FS_Interval
    <3> QED BY <2>1, <3>1, <3>2 DEF Slots
  <2> QED BY <2>1, <2>2, FS_RemoveElement
<1>10. Cardinality(M) <= Cardinality(T) /\ IsFiniteSet(M)
  <2> HIDE DEF M, T, g
  <2> QED BY <1>8, <1>9, FS_Injection
<1>11. Registry!Size = Cardinality(M)
  <2>1. Registry!Memberships = M
    BY DEF Registry!Memberships, count
  <2>2. \A S : Registry!Cardinality(S) = Cardinality(S)
    BY Zenon DEF Registry!Cardinality, Cardinality
  <2> QED BY <2>1, <2>2 DEF Registry!Size
<1> QED
  <2>1. Cardinality(M) \in Nat /\ MaxPeers \in Nat
    BY <1>10, FS_CardinalityType, TableAssumption
  <2> QED BY <1>9, <1>10, <1>11, <2>1

\* What the registry sees of the state.
membersNow == [p \in Peers |-> Cardinality(SlotsOf(peers, p))]
aliveNow   == {p \in Peers : Live(p)}

\* A peer is alive exactly when somebody owns it.
LEMMA Settled == SessionInv' => Registry!Settle
<1> SUFFICES ASSUME SessionInv' PROVE Registry!Settle
  OBVIOUS
<1>1. \A p \in Peers : refs'[p] = held'[p] + Cardinality(SlotsOf(peers', p))
  BY DEF SessionInv, RefsExact
<1> QED BY <1>1 DEF Registry!Settle, Live

\* The initial table is the empty registry.
LEMMA RegistryInit == Init => Registry!Init
BY NoSlots DEF Init, Live, Registry!Init, Registry!None

\* The memberships after a slot is filled or cleared.
LEMMA MembersFilled ==
    ASSUME SessionInv, NEW p \in Peers, NEW s \in Slots,
           peers[s] = NULL, peers' = [peers EXCEPT ![s] = p]
    PROVE  membersNow' = [membersNow EXCEPT ![p] = @ + 1]
<1>1. peers \in [Slots -> Peers \cup {NULL}]
  BY DEF SessionInv, TypeOK
<1>2. \A q \in Peers : Cardinality(SlotsOf(peers', q))
                          = Cardinality(SlotsOf(peers, q)) + (IF q = p THEN 1 ELSE 0)
  <2>1. Puts(peers, peers', s, NULL, p)
    BY <1>1 DEF Puts
  <2> QED BY <2>1, SlotFilled
<1>3. \A q \in Peers : Cardinality(SlotsOf(peers, q)) \in Nat
  BY SlotCount
<1>4. membersNow' = [q \in Peers |-> membersNow[q] + (IF q = p THEN 1 ELSE 0)]
  BY <1>2 DEF membersNow
<1>5. membersNow \in [Peers -> Nat]
  BY <1>3 DEF membersNow
<1>6. \A q \in Peers : membersNow[q] + (IF q = p THEN 1 ELSE 0)
                       = IF q = p THEN membersNow[p] + 1 ELSE membersNow[q]
  BY <1>5
<1> QED BY <1>4, <1>5, <1>6

\* A cleared slot is one membership less of the peer that was in it.
LEMMA MembersCleared ==
    ASSUME SessionInv, NEW p \in Peers, NEW s \in Slots,
           peers[s] = p, peers' = [peers EXCEPT ![s] = NULL]
    PROVE  /\ membersNow' = [membersNow EXCEPT ![p] = @ - 1]
           /\ membersNow[p] > 0
<1>1. peers \in [Slots -> Peers \cup {NULL}]
  BY DEF SessionInv, TypeOK
<1>2. \A q \in Peers : Cardinality(SlotsOf(peers', q))
                          = Cardinality(SlotsOf(peers, q)) - (IF q = p THEN 1 ELSE 0)
  <2>1. Puts(peers, peers', s, p, NULL)
    BY <1>1 DEF Puts
  <2> QED BY <2>1, SlotCleared
<1>3. \A q \in Peers : Cardinality(SlotsOf(peers, q)) \in Nat
  BY SlotCount
<1>4. Cardinality(SlotsOf(peers, p)) # 0
  <2>1. s \in SlotsOf(peers, p)
    BY DEF SlotsOf
  <2> QED BY <2>1, SlotCount, FS_EmptySet
<1>5. membersNow' = [q \in Peers |-> membersNow[q] - (IF q = p THEN 1 ELSE 0)]
  BY <1>2 DEF membersNow
<1>6. membersNow \in [Peers -> Nat] /\ membersNow[p] # 0
  BY <1>3, <1>4 DEF membersNow
<1>7. \A q \in Peers : membersNow[q] - (IF q = p THEN 1 ELSE 0)
                       = IF q = p THEN membersNow[p] - 1 ELSE membersNow[q]
  BY <1>6
<1>8. membersNow[p] > 0
  BY <1>6
<1> QED BY <1>5, <1>6, <1>7, <1>8

\* Every step of the session is a step of the registry, or leaves it alone.
LEMMA RegistryStep ==
    ASSUME SessionInv, SessionInv', [Next]_vars
    PROVE  [Registry!Next]_(Registry!registry)
<1>0. Registry!Settle
  BY Settled
<1>1. ASSUME NEW p \in Peers, NEW x \in SSRCs, RTPPeerCreate(p, x)
      PROVE  Registry!Create(p)
  BY <1>1 DEF RTPPeerCreate, Registry!Create, Live
<1>2. ASSUME NEW p \in Peers, RTPPeerRetain(p) PROVE Registry!Retain(p)
  BY <1>2 DEF RTPPeerRetain, Registry!Retain, Live
<1>3. ASSUME NEW p \in Peers, RTPPeerRelease(p) PROVE Registry!Release(p)
  BY <1>3 DEF RTPPeerRelease, Registry!Release
<1>4. ASSUME NEW p \in Peers, RTPSessionAddPeer(p) PROVE Registry!Join(p)
  <2>1. PICK s \in Slots : peers[s] = NULL /\ peers' = [peers EXCEPT ![s] = p]
    BY <1>4 DEF RTPSessionAddPeer, FreeSlot
  <2>2. membersNow' = [membersNow EXCEPT ![p] = @ + 1]
    BY <2>1, MembersFilled
  <2>3. Registry!Size < MaxPeers
    BY <2>1, RoomForOne
  <2> QED BY <1>4, <2>2, <2>3 DEF RTPSessionAddPeer, Registry!Join, membersNow
<1>5. ASSUME NEW p \in Peers, RTPSessionRemovePeer(p) PROVE Registry!Leave(p)
  <2>1. PICK s \in Slots : peers[s] = p /\ peers' = [peers EXCEPT ![s] = NULL]
    BY <1>5 DEF RTPSessionRemovePeer, HeldSlot
  <2>2. membersNow' = [membersNow EXCEPT ![p] = @ - 1] /\ membersNow[p] > 0
    BY <2>1, MembersCleared
  <2> QED BY <1>5, <2>2 DEF RTPSessionRemovePeer, Registry!Leave, membersNow
<1>6. ASSUME NEW x \in SSRCs, NEW q \in Seqs, NEW own \in BOOLEAN,
             ReceiveNew(x, q, own)
      PROVE  \E p \in Peers : Registry!Join(p)
  <2>1. PICK p \in Peers, s \in Slots :
           peers[s] = NULL /\ peers' = [peers EXCEPT ![s] = p]
    BY <1>6 DEF ReceiveNew, FreeSlot
  <2>2. membersNow' = [membersNow EXCEPT ![p] = @ + 1]
    BY <2>1, MembersFilled
  <2>3. Registry!Size < MaxPeers
    BY <2>1, RoomForOne
  <2> QED BY <1>6, <2>2, <2>3 DEF ReceiveNew, Registry!Join, membersNow
<1>7. CASE RTPSessionDestroy
  <2>1. membersNow' = [p \in Peers |-> 0]
    BY <1>7, NoSlots DEF RTPSessionDestroy, membersNow
  <2>2. Registry!Close
    BY <1>7, <2>1 DEF RTPSessionDestroy, Registry!Close, Registry!None, membersNow
  <2> QED BY <1>0, <2>2 DEF Registry!Next
<1>8. CASE UNCHANGED <<peers, refs, held, open>>
  BY <1>8 DEF Registry!registry, Live
<1>9. CASE PeerStep
  <2>1. PICK p \in Peers :
           \/ \E x \in SSRCs : RTPPeerCreate(p, x)
           \/ RTPPeerRetain(p)
           \/ RTPPeerRelease(p)
           \/ RTPSessionAddPeer(p)
           \/ RTPSessionRemovePeer(p)
           \/ RTPSessionSendPacket(p)
    BY <1>9 DEF PeerStep
  <2>2. CASE RTPSessionSendPacket(p)
    BY <1>8, <2>2 DEF RTPSessionSendPacket
  <2>3. CASE ~RTPSessionSendPacket(p)
    BY <1>0, <1>1, <1>2, <1>3, <1>4, <1>5, <2>1, <2>3 DEF Registry!Next
  <2> QED BY <2>2, <2>3
<1>10. CASE RTPSessionSend
  BY <1>8, <1>10 DEF RTPSessionSend, SendBroadcast, SendToInfoPeer
<1>11. CASE RTPSessionReceivePacket
  <2>1. PICK x \in SSRCs, q \in Seqs, own \in BOOLEAN :
           \/ ReceiveKnown(x, q, own)
           \/ ReceiveNew(x, q, own)
           \/ ReceiveOverflow(x, own)
    BY <1>11 DEF RTPSessionReceivePacket
  <2>2. CASE ReceiveNew(x, q, own)
    BY <1>0, <1>6, <2>2 DEF Registry!Next
  <2>3. CASE ReceiveKnown(x, q, own) \/ ReceiveOverflow(x, own)
    BY <1>8, <2>3 DEF ReceiveKnown, ReceiveOverflow
  <2> QED BY <2>1, <2>2, <2>3
<1>12. CASE UNCHANGED vars
  BY <1>8, <1>12 DEF vars, cells
<1> QED BY <1>7, <1>9, <1>10, <1>11, <1>12 DEF Next

\* Slots, probes and counters implement the registry: a peer exists exactly
\* while the callers or the table own it, and a slot is taken only while there
\* are less than RTP_MAX_PEERS members (rtp.c:285-331, 475-613).
THEOREM RegistryImplemented == Spec => ImplementsRegistry
<1>1. SessionInv /\ SessionInv' /\ [Next]_vars => [Registry!Next]_(Registry!registry)
  BY RegistryStep
<1> QED BY <1>1, RegistryInit, InvariantHolds, PTL
           DEF Spec, ImplementsRegistry, Registry!Spec
=============================================================================
