------------------------------ MODULE MCDevice ------------------------------
(* A small instance of Device. Every behaviour has one of five limits: calls of
   every kind; times far apart; control changes with a few calls of the
   receiver's; more of these; or clocks. A second has 10000 units of time here,
   and a tick of the driver's clock TICK of them. *)
EXTENDS Device

Plain(kind, args) == [status |-> kind.status, args |-> args]
None == <<>>

Note(ch, key) == Plain(NoteOn, [channel |-> ch, key |-> key, velocity |-> 64])
Control(ch, control, value) == Plain(ControlChange, [channel |-> ch, control |-> control, value |-> value])
Exclusive(id, n) ==
    Plain(SystemExclusive, [id |-> id, size |-> n, data |-> [i \in 1 .. n |-> i], fragment |-> 0])

\* Tune requests are left out: their status byte is never set.
AllKinds == {
    Note(0, 60), Note(1, 60), Note(0, 0),
    Plain(NoteOff, [channel |-> 0, key |-> 127, velocity |-> 0]),
    Plain(PolyphonicKeyPressure, [channel |-> 1, key |-> 60, pressure |-> 127]),
    Plain(ProgramChange, [channel |-> 0, program |-> 5]),
    Plain(ProgramChange, [channel |-> 0, program |-> 128]),
    Plain(ChannelPressure, [channel |-> 0, pressure |-> 5]),
    Plain(PitchWheelChange, [channel |-> 0, value |-> 8192]),
    Control(1, ChannelVolume, 99), Control(0, AllSoundOff, 0),
    Exclusive(125, 0), Exclusive(125, 13), Exclusive(5, 14),
    Plain(TimeCodeQuarterFrame, [type |-> 7, value |-> 9]),
    Plain(SongPositionPointer, [value |-> 129]),
    Plain(SongSelect, [value |-> 3]),
    Plain(EndOfExclusive, None),
    Plain(RealTime(248), None), Plain(RealTime(255), None)}

ControlCalls == {
    Control(0, DataIncrement, 0), Control(0, DataDecrement, 0), Control(1, DataIncrement, 0),
    Control(0, DataEntry, 5), Control(0, DataEntryLow, 127), Control(0, ResetAll, 0)}

TICK == 100
MCLimits == {
    [calls |-> AllKinds, sends |-> 3, clocks |-> 0, devices |-> 0, waits |-> 0, steps |-> {}],
    [calls |-> {Note(0, 60), Exclusive(5, 3), Plain(RealTime(248), None)}, sends |-> 3, clocks |-> 0, devices |-> 0,
     waits |-> 2, steps |-> {TICK * t : t \in {127, 128, 16383, 16384, 2^21}}],
    [calls |-> ControlCalls, sends |-> 3, clocks |-> 0, devices |-> 2, waits |-> 0, steps |-> {}],
    [calls |-> {Control(0, DataIncrement, 0)}, sends |-> 1, clocks |-> 0, devices |-> 4, waits |-> 0, steps |-> {}],
    [calls |-> {Note(0, 60)}, sends |-> 2, clocks |-> 3, devices |-> 0, waits |-> 2, steps |-> {50, 13000}]}

\* Cells are interchangeable, and so are controllers.
Symmetry == Permutations(Clocks) \cup Permutations(Controllers)
=============================================================================
