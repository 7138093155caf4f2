---------------------------- MODULE MCAppleMIDI ----------------------------
(***************************************************************************)
(* Small instances of AppleMIDI: two hosts, and where restarts matter two  *)
(* more drivers that follow one another on the first of them.              *)
(***************************************************************************)
EXTENDS AppleMIDI, TLC

CONSTANTS a, b

Host4 == 1 :> a @@ 2 :> b @@ 3 :> a @@ 4 :> a
Host2 == 1 :> a @@ 2 :> b

\* The token of a driver is the time of its clock when it is created: zero, or
\* little more, for the first driver of a process and what has passed since for
\* the next one, which shares the global clock (driver.c:108, clock.c:309-331).
\* Driver 3 is created by a new process on the host of 1, driver 4 by the
\* process of its predecessor.
Tokens4 == 1 :> 0 @@ 2 :> 0 @@ 3 :> 0 @@ 4 :> 1
Tokens2 == 1 :> 0 @@ 2 :> 1

\* The history of requests does not bear on what happens next.
NoHistory == <<net, status, accept, session, cur, sync, callback, fault, ops>>

CellSymmetry == Permutations(Peers)
=============================================================================
