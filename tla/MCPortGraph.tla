---------------------------- MODULE MCPortGraph ----------------------------
(* Model checking of PortGraph: the port of a driver, one that passes messages
   through, and one of an application; unconnected at first, or connected to
   each other in a ring, with the driver also back to the one before it. *)
EXTENDS PortGraph
CONSTANTS d, t, a

ThreeModes == (d :> {"in", "out"}) @@ (t :> {"in", "thru"}) @@ (a :> {"in", "out"})

To(id, p) == [id |-> id, port |-> p]
Ring == (a :> <<To(1, t)>>) @@ (t :> <<To(2, d)>>) @@ (d :> <<To(4, t), To(3, a)>>)

MCInit ==
    /\ \/ refs = [p \in Ports |-> 1] /\ list = [p \in Ports |-> <<>>]
       \/ refs = (a :> 2) @@ (t :> 3) @@ (d :> 2) /\ list = Ring
    /\ mode = ModeOf /\ calls = <<>> /\ crash = "none"
    /\ held = [p \in Ports |-> 1] /\ driverRefs = [p \in Drivers |-> 1]
    /\ stack = <<>> /\ bad = FALSE /\ ops = 0

MCSpec == MCInit /\ [][Next]_vars
=============================================================================
