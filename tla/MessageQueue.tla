---------------------------- MODULE MessageQueue ----------------------------
(* MIDIMessageQueue (midi/message_queue.c): a singly linked list with a pointer
   to its last item and a counter. The items are memory cells; the references
   the queue holds on its messages are in the caller's hands. *)
EXTENDS Naturals, Sequences, FiniteSets

CONSTANTS
    Cells,     \* the memory malloc may return for an item
    Messages,  \* the message objects
    NULL

ASSUME QueueAssumption == IsFiniteSet(Cells) /\ NULL \notin Cells \cup Messages

Queues == [first : Cells \cup {NULL}, last : Cells \cup {NULL}, length : Nat, items : SUBSET Cells,
           next : [Cells -> Cells \cup {NULL}], message : [Cells -> Messages \cup {NULL}]]

MIDIMessageQueueCreate ==
    [first |-> NULL, last |-> NULL, length |-> 0, items |-> {},
     next |-> [c \in Cells |-> NULL], message |-> [c \in Cells |-> NULL]]

\* Mutant of MIDIMessageQueuePush: the last item is not linked to the new one.
Push_Unlinked(q, m, c) ==
    [q EXCEPT !.items = @ \cup {c}, !.next[c] = NULL, !.message[c] = m, !.length = @ + 1,
              !.first = IF q.last = NULL THEN c ELSE @, !.last = c]

\* m goes to the end, in the cell c that malloc returns.
MIDIMessageQueuePush(q, m, c) ==
    LET linked == IF q.last = NULL THEN [q EXCEPT !.first = c] ELSE [q EXCEPT !.next[q.last] = c]
    IN  [linked EXCEPT !.items = @ \cup {c}, !.next[c] = NULL, !.message[c] = m,
                       !.length = @ + 1, !.last = c]

\* The message of the first item, NULL without one.
MIDIMessageQueuePeek(q) == IF q.first = NULL THEN NULL ELSE q.message[q.first]

\* Mutant of MIDIMessageQueuePop: last keeps pointing to the freed item.
Pop_KeepsLast(q) ==
    IF q.first = NULL THEN q
    ELSE [q EXCEPT !.items = @ \ {q.first}, !.first = q.next[q.first], !.length = @ - 1,
                   !.next[q.first] = NULL, !.message[q.first] = NULL]

\* The queue without its first item; the caller gets what Peek shows, with the
\* reference that the queue had. A freed cell keeps nothing.
MIDIMessageQueuePop(q) ==
    IF q.first = NULL THEN q
    ELSE [q EXCEPT !.items = @ \ {q.first}, !.first = q.next[q.first], !.length = @ - 1,
                   !.last = IF @ = q.first THEN NULL ELSE @,
                   !.next[q.first] = NULL, !.message[q.first] = NULL]

MIDIMessageQueueGetLength(q) == q.length

\* The n-th item from the first one, NULL behind the last.
ItemAt(q) ==
    LET at[n \in 1 .. Cardinality(Cells)] ==
            IF n = 1 THEN q.first ELSE IF at[n - 1] = NULL THEN NULL ELSE q.next[at[n - 1]]
    IN  at

\* The messages from the first item to the last.
Contents(q) ==
    [i \in 1 .. Cardinality({n \in DOMAIN ItemAt(q) : ItemAt(q)[n] # NULL}) |-> q.message[ItemAt(q)[i]]]

\* first, next, last, the counter and the allocated items tell the same story.
WellFormed(q) ==
    LET at == ItemAt(q)
        n  == Len(Contents(q))
    IN  /\ q.length = n
        /\ q.items = {at[i] : i \in 1 .. n}
        /\ Cardinality(q.items) = n
        /\ q.last = IF n = 0 THEN NULL ELSE at[n]
=============================================================================
