---------------------------- MODULE MCRTPSession ----------------------------
(* A small instance of RTPSession for TLC, in one of two scenes: three cells
   come and go in the table and packets carry no numbers, or two cells of one
   source take turns at one slot and count. *)
EXTENDS RTPSession, TLC

VARIABLE counting

\* The cells malloc returns are interchangeable.
CellSymmetry == Permutations(Peers)

Unnumbered(p) == outSeq[p] = 0 /\ got[p] \subseteq {0}
Used(p) == ssrc[p] = 1

Scene ==
    IF counting
    THEN /\ \A p \in Peers : ssrc[p] = (IF Used(p) \/ Live(p) THEN 1 ELSE 0)
         /\ Cardinality({p \in Peers : Used(p)}) <= 2
         /\ Cardinality(Occupied) <= 1
    ELSE \A p \in Peers : Unnumbered(p)

MCInit == Init /\ counting \in BOOLEAN
MCNext == Next /\ UNCHANGED counting /\ Scene'
MCSpec == MCInit /\ [][MCNext]_<<vars, counting>>
=============================================================================
