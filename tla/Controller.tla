----------------------------- MODULE Controller -----------------------------
(* The values of a MIDIController, midi/controller.c: a byte for each control.
   The parameter it selects and the values of registered parameters are left
   out: they have the same values for ever, as nothing calls the functions that
   load and store them. *)
EXTENDS Integers

CONSTANT Controls  \* the controls that are looked at

\* Those that the code treats specially.
ModulationWheel == 1
DataEntry       == 6
ChannelVolume   == 7
Pan             == 10
Expression      == 11
DataEntryLow    == DataEntry + 32
Pedals          == 64 .. 67
DataIncrement   == 96
DataDecrement   == 97
NonRegistered   == 98   \* the high half of the parameter number; the low half is next
Registered      == 100
AllSoundOff     == 120  \* from here on, controls are commands
ResetAll        == 121

ASSUME ControlsAssumption ==
    /\ {ModulationWheel, DataEntry, ChannelVolume, Pan, Expression, DataEntryLow} \subseteq Controls
    /\ Pedals \cup (DataIncrement .. Registered + 1) \subseteq Controls
    /\ Controls \subseteq 0 .. AllSoundOff - 1

Byte == 0 .. 255

ResetControls(k) ==
    [c \in Controls |->
        CASE c \in Pedals \cup {ModulationWheel} -> 0
          [] c \in {Expression, DataEntry, DataEntryLow} \cup (NonRegistered .. Registered + 1) -> 127
          [] OTHER -> k[c]]

InitializeControls ==
    [ResetControls([c \in Controls |-> 0]) EXCEPT ![ChannelVolume] = 100, ![Expression] = 127, ![Pan] = 64]

\* Mutant of DataEntryStep: the high byte does not take the carry.
Step_NoCarry(k, d) == [k EXCEPT ![DataEntryLow] = (@ + d) % 128]

\* Mutant of DataEntryStep: the high byte is a signed number.
Step_Signed(k, d) ==
    LET low == (k[DataEntryLow] + d) % 256
    IN  [k EXCEPT ![DataEntryLow] = low % 128, ![DataEntry] = IF low >= 128 THEN @ + d ELSE @]

\* Increment and decrement: seven bits in the low byte, and a carry into the
\* high byte, which has eight.
DataEntryStep(k, d) ==
    LET low == (k[DataEntryLow] + d) % 256
    IN  [k EXCEPT ![DataEntryLow] = low % 128,
                  ![DataEntry] = IF low >= 128 THEN (@ + d) % 256 ELSE @]

\* The value goes to the control itself as well. Of the commands only the reset
\* does something.
ReceiveControlChange(k, control, value) ==
    LET stepped == CASE control = DataIncrement -> DataEntryStep(k, 1)
                     [] control = DataDecrement -> DataEntryStep(k, -1)
                     [] OTHER -> k
    IN  IF control = ResetAll THEN ResetControls(k)
        ELSE IF control < AllSoundOff THEN [stepped EXCEPT ![control] = value]
        ELSE k

\* Where a value of two bytes goes: high and low half.
Halves(control) == <<control, IF control < 32 THEN control + 32 ELSE control + 1>>
IsLong(control) == control < 32 \/ control \in {NonRegistered, Registered}

\* SetControl with one byte, and with two; the latter is refused for a control
\* that has no halves.
SetControl(k, control, value) == [k EXCEPT ![control] = value]
SetLongControl(k, control, value) ==
    IF ~IsLong(control) THEN k
    ELSE LET half == Halves(control)
         IN  SetControl(SetControl(k, half[1], (value \div 128) % 128), half[2], value % 128)

\* GetControl with two bytes.
LongControl(k, control) == ((k[Halves(control)[1]] % 128) * 128) + (k[Halves(control)[2]] % 128)
=============================================================================
