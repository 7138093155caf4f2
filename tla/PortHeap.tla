------------------------------ MODULE PortHeap ------------------------------
(* Ports and the lists of their targets as they lie in memory: midi/list.c and
   the part of midi/port.c that counts references. A list holds a reference to
   each of its items; releasing a port walks its list, which may release other
   ports, which walk theirs. No application code runs in between. "calls" is
   the stack of the functions that do this, each a step at a time. *)
EXTENDS Integers, FiniteSets, SequencesExt

CONSTANTS Ports, Depth \* calls nest no deeper, or the program's stack is full

ASSUME HeapAssumption == IsFiniteSet(Ports) /\ Depth \in Nat \ {0}

VARIABLES
    refs,  \* port->refs, 0 once the port is destroyed
    mode,  \* port->mode
    list,  \* the entries of port->ports, first to last; of a destroyed port
           \* those that MIDIListDestroy has not come to
    calls, \* the calls under way, the last one on top
    crash  \* what stopped the program: a freed port or entry was used, a null
           \* pointer, or calls that nest too deep

heap == <<refs, mode, list, calls, crash>>

Steps == {"release", "drop", "destroy", "check", "disconnect", "remove", "unlink"}
Modes == {"in", "out", "thru", "invalid"}
Crashes == {"none", "freed", "null", "recursion"}

Entry == [id : Nat \ {0}, port : Ports]

Alive(p) == refs[p] > 0
Valid(p) == "invalid" \notin mode[p]

\* What can be read of a list, and its entries by address. 0 is a null pointer.
Entries(p) == IF Alive(p) THEN list[p] ELSE <<>>
Ids(p) == {e.id : e \in ToSet(Entries(p))}
AllIds == UNION {Ids(p) : p \in Ports}
At(p, id) == CHOOSE i \in DOMAIN list[p] : list[p][i].id = id
Item(p, id) == list[p][At(p, id)].port
FirstId(p) == IF Entries(p) = <<>> THEN 0 ELSE list[p][1].id
NextId(p, id) == IF At(p, id) = Len(list[p]) THEN 0 ELSE list[p][At(p, id) + 1].id
PrevId(p, id) == IF At(p, id) = 1 THEN 0 ELSE list[p][At(p, id) - 1].id

(* A call works on the list of "port": "release" and "drop" are MIDIPortRelease
   before and after the check, "destroy" is MIDIListDestroy, "check" and
   "disconnect" are MIDIListApply at "entry" with that applier. "remove" is
   MIDIListRemove looking for "item"; as "unlink" it has found "entry" behind
   "prev", and the item was released. *)
Frame(do, p, item, entry, prev) == [do |-> do, port |-> p, item |-> item, entry |-> entry, prev |-> prev]

Frames == [do : Steps, port : Ports, item : Ports, entry : Nat, prev : Nat]

Call(do, p) == Frame(do, p, p, 0, 0)
Walk(do, p) == Frame(do, p, p, FirstId(p), 0)
Removal(p, item) == Frame("remove", p, item, 0, 0)

Goto(s) ==
    IF Len(s) <= Depth THEN calls' = s /\ UNCHANGED crash
    ELSE crash' = "recursion" /\ UNCHANGED calls

Crash(why) == crash' = why /\ UNCHANGED calls

\* The call on top becomes the calls s, or is over if there are none.
Become(s) == Goto(Front(calls) \o s)

Working == crash = "none" /\ calls # <<>>
Top(do) == Working /\ Last(calls).do = do

MIDIPortRetain(p) == refs' = [refs EXCEPT ![p] = @ + 1]

\* The item becomes the first.
MIDIListAdd(p, item, id) ==
    IF Alive(item)
    THEN /\ MIDIPortRetain(item)
         /\ list' = [list EXCEPT ![p] = <<[id |-> id, port |-> item]>> \o @]
         /\ UNCHANGED crash
    ELSE crash' = "freed" /\ UNCHANGED <<refs, list>>

\* Before the last reference goes, invalid targets are dropped.
MIDIPortRelease ==
    /\ Top("release")
    /\ LET p == Last(calls).port IN
       IF ~Alive(p) THEN Crash("freed")
       ELSE Become(IF refs[p] > 1 THEN <<Call("drop", p), Walk("check", p)>> ELSE <<Call("drop", p)>>)
    /\ UNCHANGED <<refs, mode, list>>

\* Mutant of Decrement: the log line counts down, too.
Decrement_Twice(p) == [refs EXCEPT ![p] = @ - 2]

Decrement(p) == [refs EXCEPT ![p] = @ - 1]

\* With the last reference goes the list (MIDIPortDestroy).
Drop ==
    /\ Top("drop")
    /\ LET p == Last(calls).port IN
       IF ~Alive(p) THEN Crash("freed") /\ UNCHANGED refs
       ELSE /\ refs' = Decrement(p)
            /\ Become(IF refs[p] = 1 THEN <<Call("destroy", p)>> ELSE <<>>)
    /\ UNCHANGED <<mode, list>>

\* Mutant of Freed: the entry is freed, its reference stays.
Freed_Leaks(p) == <<Last(calls)>>

\* MIDIListDestroy releases the first item, and goes on.
Freed(p) == <<Last(calls), Call("release", Head(list[p]).port)>>

Destroy ==
    /\ Top("destroy")
    /\ LET p == Last(calls).port IN
       IF list[p] = <<>> THEN Become(<<>>) /\ UNCHANGED list
       ELSE Become(Freed(p)) /\ list' = [list EXCEPT ![p] = Tail(@)]
    /\ UNCHANGED <<refs, mode>>

\* _port_apply_disconnect
DisconnectItem(p, item, next) ==
    Become(<<next, Removal(p, item)>>) /\ UNCHANGED refs

\* _port_apply_check: an invalid target is kept until it is out of the list.
CheckItem(p, item, next) ==
    IF ~Alive(item) THEN Crash("freed") /\ UNCHANGED refs
    ELSE IF Valid(item) THEN Become(<<next>>) /\ UNCHANGED refs
    ELSE MIDIPortRetain(item) /\ Become(<<next, Call("release", item), Removal(p, item)>>)

\* One turn of MIDIListApply, which reads the next entry before the call.
Apply(do) ==
    /\ Top(do)
    /\ LET p == Last(calls).port
           id == Last(calls).entry
           item == Item(p, id)
           next == Frame(do, p, p, NextId(p, id), 0)
       IN IF id = 0 THEN Become(<<>>) /\ UNCHANGED refs
          ELSE IF id \notin Ids(p) THEN Crash("freed") /\ UNCHANGED refs
          ELSE IF do = "check" THEN CheckItem(p, item, next)
          ELSE DisconnectItem(p, item, next)
    /\ UNCHANGED <<mode, list>>

\* Mutant of Found: the entry goes, its reference stays.
Found_NoRelease(f, id) == <<Frame("unlink", f.port, f.item, id, PrevId(f.port, id))>>

\* MIDIListRemove releases the item of an entry before it unlinks it.
Found(f, id) ==
    <<Frame("unlink", f.port, f.item, id, PrevId(f.port, id)), Call("release", f.item)>>

MIDIListRemove ==
    /\ Top("remove")
    /\ LET f == Last(calls)
           found == {i \in DOMAIN Entries(f.port) : list[f.port][i].port = f.item}
       IN Become(IF found = {} THEN <<>> ELSE Found(f, list[f.port][Min(found)].id))
    /\ UNCHANGED <<refs, mode, list>>

\* The release may have freed the entry, or the one before it that points to it.
Unlink ==
    /\ Top("unlink")
    /\ LET f == Last(calls) IN
       IF f.entry \in Ids(f.port) /\ f.prev \in Ids(f.port) \cup {0}
       THEN /\ list' = [list EXCEPT ![f.port] = RemoveAt(@, At(f.port, f.entry))]
            /\ Become(<<Removal(f.port, f.item)>>)
       ELSE Crash("freed") /\ UNCHANGED list
    /\ UNCHANGED <<refs, mode>>

Cascade == MIDIPortRelease \/ Drop \/ Destroy \/ Apply("check") \/ Apply("disconnect") \/ MIDIListRemove \/ Unlink

HeapType ==
    /\ refs \in [Ports -> Nat] /\ mode \in [Ports -> SUBSET Modes] /\ crash \in Crashes
    /\ list \in [Ports -> Seq(Entry)]
    /\ calls \in Seq(Frames) /\ Len(calls) <= Depth

=============================================================================
