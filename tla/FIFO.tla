-------------------------------- MODULE FIFO --------------------------------
(* What the outgoing queue of a driver promises: messages leave it in the order
   they entered, up to Batch of them at a time, each once; destroying the
   driver drops what waits. *)
EXTENDS Naturals, SequencesExt

CONSTANTS Messages, Batch

VARIABLES
    waiting,  \* the messages in the queue
    taken     \* all messages that left it, in that order

fifo == <<waiting, taken>>

Init == waiting = <<>> /\ taken = <<>>

Put(m) == waiting' = Append(waiting, m) /\ UNCHANGED taken

Take(n) ==
    /\ n <= Len(waiting)
    /\ taken' = taken \o SubSeq(waiting, 1, n)
    /\ waiting' = SubSeq(waiting, n + 1, Len(waiting))

\* A message may enter and the queue be emptied in the same call.
PutTake(m, n) ==
    /\ n <= Len(waiting) + 1
    /\ LET all == Append(waiting, m)
       IN  taken' = taken \o SubSeq(all, 1, n) /\ waiting' = SubSeq(all, n + 1, Len(all))

Drop == waiting' = <<>> /\ UNCHANGED taken

Next ==
    \/ \E m \in Messages : Put(m)
    \/ \E n \in 1 .. Batch : Take(n)
    \/ \E m \in Messages, n \in 1 .. Batch : PutTake(m, n)
    \/ Drop

Spec == Init /\ [][Next]_fifo
=============================================================================
