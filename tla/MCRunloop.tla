----------------------------- MODULE MCRunloop -----------------------------
(* Model checking of Runloop: two sources, two descriptors. Runs start with
   nothing done, or after the calls that a program makes first: both sources
   schedule what they want and are added. *)
EXTENDS Runloop, TLC
CONSTANTS s1, s2

TwoSources == (s1 :> {"read", "write", "timeout"}) @@ (s2 :> {"read", "timeout"})

\* s1 reads 0 and writes 1; s2 reads both and idles.
Wanted(s) ==
    [fds |-> IF s = s1 THEN [read |-> {0}, write |-> {1}] ELSE [read |-> {0, 1}, write |-> {}],
     nfds |-> 2, time |-> IF s = s1 THEN 2 ELSE 1,
     age |-> 0, cbs |-> Delegates[s], loop |-> FALSE]

Prepared ==
    /\ src = [s \in Sources |-> [Wanted(s) EXCEPT !.loop = TRUE]]
    /\ slots = [i \in 1 .. Slots |-> CASE i = 1 -> s1 [] i = 2 -> s2 [] OTHER -> NULL]
    /\ refs = [s \in Sources |-> 2]
    /\ master = Update(Update([fds |-> NoFds, nfds |-> 0, time |-> 0, age |-> 0, cbs |-> {},
                               loop |-> FALSE], Wanted(s1)), Wanted(s2))
    /\ held = [s \in Sources |-> 1]
    /\ loopRefs = 1 /\ active = FALSE
    /\ phase = "out" /\ left = 0 /\ ready = NoFds /\ slot = 1
    /\ cb = FALSE /\ running = NULL /\ call = "none" /\ failed = FALSE
    /\ readable = {} /\ ops = 0 /\ fault = FALSE /\ awaited = {s1, s2}

MCInit == Init \/ Prepared
MCSpec == MCInit /\ [][Next]_vars
MCFairSpec == MCSpec /\ WF_vars(Running) /\ SF_vars(Tick)
=============================================================================
