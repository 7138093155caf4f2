----------------------------- MODULE MCOutgoing -----------------------------
(* Model checking of Outgoing: the constants are model values. *)
EXTENDS Outgoing
=============================================================================
