------------------------------- MODULE Clock -------------------------------
(* The clocks of midi/clock.c: reference-counted cells that turn the system's
   microseconds into ticks of a sampling rate, and the global clock, which
   MIDIClockProvide shares between all who ask for its rate. One of them is a
   driver (MIDIDriverInit, midi/driver.c); the others are the application.

   The application only uses clocks it owns a reference to, or the global one
   by passing NULL. It is one thread. Numbers are unbounded here; the source's
   have 64 bits. *)
EXTENDS Integers

CONSTANTS
    Clocks,      \* the cells malloc returns
    NULL,
    UsecPerSec,  \* USEC_PER_SEC
    DriverRate,  \* the rate the driver asks for
    Rates,       \* the rates the application asks for; 0 is MIDI_SAMPLING_RATE_DEFAULT
    Nows,        \* the times the application sets
    MaxOwned     \* bound: the application's references to one clock

ASSUME ClockAssumption ==
    /\ NULL \notin Clocks
    /\ UsecPerSec \in Nat \ {0} /\ DriverRate \in Nat \ {0}
    /\ Rates \subseteq Nat /\ Nows \subseteq Int
    /\ MaxOwned \in Nat

VARIABLES
    refs,    \* clock->refs, 0 for a cell that is free
    clock,   \* the other members of a clock
    global,  \* _midi_global_clock
    driver,  \* driver->clock, NULL while there is no driver
    owned,   \* the references the application owns
    time     \* what gettimeofday says, in microseconds

clockVars == <<refs, clock, global, driver, owned, time>>

-----------------------------------------------------------------------------
(* Fractions. The denominator is positive. *)

Fractions == [numer : Nat, denom : Nat \ {0}]

\* The loop for one prime: while it divides both parts, both are divided.
Reduce(p, f) ==
    LET loop[g \in Fractions] ==
            IF g.numer % p = 0 /\ g.denom % p = 0
            THEN loop[[numer |-> g.numer \div p, denom |-> g.denom \div p]]
            ELSE g
    IN  loop[f]

\* Takes out the common factors, those with a prime above 7 excepted.
NormalizeFrac(f) == Reduce(2, Reduce(3, Reduce(5, Reduce(7, f))))

\* A fraction, and what is left of the factor it is divided by.
Divisions == [numer : Nat, denom : Nat \ {0}, fac : Nat \ {0}]

\* The loop for one prime: while it divides the factor, it goes into the
\* numerator if it can, otherwise to the denominator.
Divide(p, f) ==
    LET loop[g \in Divisions] ==
            IF g.fac % p = 0
            THEN loop[IF g.numer % p = 0
                      THEN [numer |-> g.numer \div p, denom |-> g.denom, fac |-> g.fac \div p]
                      ELSE [numer |-> g.numer, denom |-> g.denom * p, fac |-> g.fac \div p]]
            ELSE g
    IN  loop[f]

DivideAll(f, fac) ==
    Divide(2, Divide(3, Divide(5, Divide(7, [numer |-> f.numer, denom |-> f.denom, fac |-> fac]))))

\* Mutant of DivideFrac: what is left of the factor is forgotten.
DivideFrac_DropsRest(f, fac) ==
    LET r == DivideAll(f, fac) IN [numer |-> r.numer, denom |-> r.denom]

DivideFrac(f, fac) ==
    LET r == DivideAll(f, fac) IN [numer |-> r.numer, denom |-> r.denom * r.fac]

MultiplyFrac(f, fac) ==
    LET g == DivideFrac([numer |-> f.denom, denom |-> f.numer], fac)
    IN  [numer |-> g.denom, denom |-> g.numer]

-----------------------------------------------------------------------------
(* One clock. *)

GetRealTime(k) == (time * k.numer) \div k.denom

\* A new clock starts at zero. The build uses gettimeofday.
NewClock(rate) ==
    LET r == IF rate = 0 THEN UsecPerSec ELSE rate
        f == NormalizeFrac(MultiplyFrac([numer |-> 1, denom |-> UsecPerSec], r))
    IN  [rate |-> r, numer |-> f.numer, denom |-> f.denom, offset |-> -GetRealTime(f)]

\* MIDIClockGetNow.
Now(c) == GetRealTime(clock[c]) + clock[c].offset

\* Mutant of ConvertTimestamp: the ticks of the source are taken for its time.
Convert_NoOffset(c, s, timestamp) ==
    LET f == NormalizeFrac([numer |-> clock[c].numer * clock[s].denom, denom |-> clock[c].denom * clock[s].numer])
    IN  ((timestamp * f.numer) \div f.denom) + clock[c].offset

\* A time of clock s, as a time of clock c. Neither of them stands still: that
\* would divide by zero.
ConvertTimestamp(c, s, timestamp) ==
    LET f == NormalizeFrac([numer |-> clock[c].numer * clock[s].denom, denom |-> clock[c].denom * clock[s].numer])
    IN  IF c = s THEN timestamp
        ELSE (((timestamp - clock[s].offset) * f.numer) \div f.denom) + clock[c].offset

-----------------------------------------------------------------------------
(* The calls. c is the clock they are about; a free cell is the one malloc
   returns. *)

NoClock == [rate |-> 1, numer |-> 1, denom |-> 1, offset |-> 0]

ClockInit ==
    /\ refs = [c \in Clocks |-> 0] /\ clock = [c \in Clocks |-> NoClock]
    /\ global = NULL /\ driver = NULL
    /\ owned = [c \in Clocks |-> 0]
    /\ time = 0

\* The member values after a release: of no interest once the cell is free.
Freed(c) == IF refs'[c] = 0 THEN [clock EXCEPT ![c] = NoClock] ELSE clock

MIDIClockCreate(c, rate) ==
    /\ refs[c] = 0 /\ MaxOwned > 0
    /\ refs' = [refs EXCEPT ![c] = 1]
    /\ clock' = [clock EXCEPT ![c] = NewClock(rate)]
    /\ owned' = [owned EXCEPT ![c] = 1]
    /\ UNCHANGED <<global, driver, time>>

\* There is a global clock of this rate.
Offered(rate) == \E g \in Clocks : g = global /\ clock[g].rate = rate

\* Mutant of MIDIClockProvide: the first to ask shares the reference of the
\* global clock.
Provide_OneReference(c, rate) ==
    \/ /\ refs[c] = 0 /\ ~Offered(rate)
       /\ refs' = [refs EXCEPT ![c] = 1]
       /\ clock' = [clock EXCEPT ![c] = NewClock(rate)]
       /\ global' = IF global = NULL THEN c ELSE global
    \/ /\ c = global /\ clock[c].rate = rate
       /\ refs' = [refs EXCEPT ![c] = @ + 1]
       /\ UNCHANGED <<clock, global>>

\* The global clock if it has this rate, otherwise a new clock; it becomes the
\* global clock, with a reference of its own, if there was none.
MIDIClockProvide(c, rate) ==
    \/ /\ refs[c] = 0 /\ ~Offered(rate)
       /\ refs' = [refs EXCEPT ![c] = IF global = NULL THEN 2 ELSE 1]
       /\ clock' = [clock EXCEPT ![c] = NewClock(rate)]
       /\ global' = IF global = NULL THEN c ELSE global
    \/ /\ c = global /\ clock[c].rate = rate
       /\ refs' = [refs EXCEPT ![c] = @ + 1]
       /\ UNCHANGED <<clock, global>>

Provide(c, rate) ==
    /\ MIDIClockProvide(c, rate)
    /\ owned[c] < MaxOwned /\ owned' = [owned EXCEPT ![c] = @ + 1]
    /\ UNCHANGED <<driver, time>>

MIDIDriverInit(c) ==
    /\ driver = NULL
    /\ MIDIClockProvide(c, DriverRate)
    /\ driver' = c
    /\ UNCHANGED <<owned, time>>

MIDIDriverDestroy ==
    /\ driver # NULL
    /\ refs' = [refs EXCEPT ![driver] = @ - 1]
    /\ clock' = Freed(driver)
    /\ driver' = NULL
    /\ UNCHANGED <<global, owned, time>>

MIDIClockRetain(c) ==
    /\ owned[c] > 0 \/ c = global
    /\ owned[c] < MaxOwned
    /\ refs' = [refs EXCEPT ![c] = @ + 1]
    /\ owned' = [owned EXCEPT ![c] = @ + 1]
    /\ UNCHANGED <<clock, global, driver, time>>

MIDIClockRelease(c) ==
    /\ owned[c] > 0
    /\ refs' = [refs EXCEPT ![c] = @ - 1]
    /\ clock' = Freed(c)
    /\ owned' = [owned EXCEPT ![c] = @ - 1]
    /\ UNCHANGED <<global, driver, time>>

\* The clock that was global loses that reference; it may have been the last. With
\* NULL there is no global clock any more.
MIDIClockSetGlobalClock(c) ==
    /\ c # NULL => owned[c] > 0
    /\ c # global
    /\ refs' = [d \in Clocks |-> IF d = c THEN refs[d] + 1 ELSE IF d = global THEN refs[d] - 1 ELSE refs[d]]
    /\ clock' = IF global = NULL THEN clock ELSE Freed(global)
    /\ global' = c
    /\ UNCHANGED <<driver, owned, time>>

\* The clock an argument stands for. The first use of NULL makes a global clock.
Argument(arg, c) ==
    \/ arg = c /\ owned[c] > 0 /\ UNCHANGED <<refs, global>>
    \/ arg = NULL /\ c = global /\ UNCHANGED <<refs, global>>
    \/ /\ arg = NULL /\ global = NULL /\ refs[c] = 0
       /\ refs' = [refs EXCEPT ![c] = 1]
       /\ global' = c

Members(c) == IF refs[c] = 0 THEN NewClock(0) ELSE clock[c]

MIDIClockGetGlobalClock(c) ==
    /\ global = NULL
    /\ Argument(NULL, c)
    /\ clock' = [clock EXCEPT ![c] = Members(c)]
    /\ UNCHANGED <<driver, owned, time>>

\* Mutant of MIDIClockSetNow: the clock may be referenced elsewhere.
SetNow_Shared(arg, c, now) ==
    /\ Argument(arg, c)
    /\ clock' = [clock EXCEPT ![c] = [Members(c) EXCEPT !.offset = now - GetRealTime(Members(c))]]
    /\ UNCHANGED <<driver, owned, time>>

MIDIClockSetNow(arg, c, now) ==
    /\ Argument(arg, c) /\ refs'[c] = 1
    /\ clock' = [clock EXCEPT ![c] = [Members(c) EXCEPT !.offset = now - GetRealTime(Members(c))]]
    /\ UNCHANGED <<driver, owned, time>>

\* The numerator is reduced already, so the quotient is 0 unless the old rate
\* has no divisor in common with UsecPerSec: the clock stands still.
MIDIClockSetSamplingRate(arg, c, rate) ==
    /\ Argument(arg, c) /\ refs'[c] = 1
    /\ clock' = [clock EXCEPT ![c] =
                     [Members(c) EXCEPT !.numer = (@ \div Members(c).rate) * rate, !.rate = rate]]
    /\ UNCHANGED <<driver, owned, time>>

\* Time passes. Nothing else changes.
Elapse(us) ==
    /\ time' = time + us
    /\ UNCHANGED <<refs, clock, global, driver, owned>>

\* A rate of 0 is left out where a clock has one: it stops the clock, and the next
\* change of the rate divides by it.
ClockCall ==
    \E c \in Clocks :
        \/ \E rate \in Rates : MIDIClockCreate(c, rate) \/ Provide(c, rate)
        \/ MIDIClockRetain(c) \/ MIDIClockRelease(c)
        \/ MIDIClockGetGlobalClock(c)
        \/ \E arg \in {c, NULL} :
              \/ MIDIClockSetGlobalClock(arg)
              \/ \E now \in Nows : MIDIClockSetNow(arg, c, now)
              \/ \E rate \in Rates \ {0} : MIDIClockSetSamplingRate(arg, c, rate)

-----------------------------------------------------------------------------
(* Properties. *)

Live(c) == refs[c] > 0
Runs(c) == Live(c) /\ clock[c].numer > 0
One(b) == IF b THEN 1 ELSE 0

\* A clock's counter is the number of its owners: the application, the driver
\* and the global pointer. So none of them is left with a freed clock, however
\* the global clock is provided, replaced and released (clock.c:285-310).
ClockRefsExact ==
    \A c \in Clocks : refs[c] = owned[c] + One(c = global) + One(c = driver)

\* A clock that runs makes exactly its rate of ticks per second: reducing the
\* fraction loses nothing (clock.c:73-119, 320-334).
TickExact ==
    \A c \in Clocks : Runs(c) => clock[c].numer * UsecPerSec = clock[c].denom * clock[c].rate

\* The time of one clock, converted to another one, is what that one says, up
\* to the length of a tick of either, also after one was set (clock.c:484-504).
ConvertExact ==
    \A c, s \in {k \in Clocks : Runs(k)} :
        LET error == ConvertTimestamp(c, s, Now(s)) - Now(c)
        IN  /\ error * clock[s].rate <= clock[s].rate
            /\ -error * clock[s].rate <= clock[c].rate + clock[s].rate

\* The driver's clock never goes back and keeps its rate, whatever the
\* application does with the clocks it can name: it shares the driver's clock as
\* the global one, but may set a clock only while nobody else has a reference
\* (clock.c:391, 422).
Steady ==
    [][driver # NULL /\ driver' = driver =>
          /\ Now(driver)' >= Now(driver)
          /\ clock'[driver].rate = clock[driver].rate]_clockVars
=============================================================================
