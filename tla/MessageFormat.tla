--------------------------- MODULE MessageFormat ---------------------------
(* MIDI messages and their bytes: midi/message_format.c and the coding part of
   midi/message.c. A message is a record: its format, the four bytes of struct
   MIDIMessageData, and the data of a system exclusive message. Bytes are
   numbers below 256. *)
EXTENDS Integers, SequencesExt

\* The first bytes each format's test accepts.
Tests == [
    note_off_on             |-> 128 .. 159,
    polyphonic_key_pressure |-> 160 .. 175,
    control_change          |-> 176 .. 191,
    program_change          |-> 192 .. 207,
    channel_pressure        |-> 208 .. 223,
    pitch_wheel_change      |-> 224 .. 239,
    system_exclusive        |-> {240},
    time_code_quarter_frame |-> {241},
    song_position_pointer   |-> {242},
    song_select             |-> {243},
    tune_request            |-> {246},
    real_time               |-> {248, 250, 251, 252, 254, 255}]

Formats == DOMAIN Tests

MIDIMessageFormatDetect(byte) ==
    IF \E f \in Formats : byte \in Tests[f] THEN CHOOSE f \in Formats : byte \in Tests[f] ELSE "none"

MIDIMessageFormatDetectRunningStatus(byte, status) ==
    IF byte >= 128 THEN MIDIMessageFormatDetect(byte)
    ELSE IF status # 0 THEN MIDIMessageFormatDetect(status) ELSE "none"

\* A channel status is given without its channel.
MIDIMessageFormatForStatus(status) ==
    LET byte == IF status >= 128 THEN status ELSE (status * 16) % 256
    IN  IF byte < 128 \/ (status >= 128 /\ byte < 240) THEN "none" ELSE MIDIMessageFormatDetect(byte)

\* The bytes of a message that is not system exclusive.
Size(format) ==
    CASE format \in {"tune_request", "real_time"} -> 1
      [] format \in {"program_change", "channel_pressure", "time_code_quarter_frame", "song_select"} -> 2
      [] OTHER -> 3

-----------------------------------------------------------------------------
(* Properties: where a format keeps each of them, as byte and part. *)

Whole == [status |-> <<1, "whole">>]

NoteLayout ==
    [status |-> <<1, "high">>, channel |-> <<1, "low">>, key |-> <<2, "byte">>, velocity |-> <<3, "byte">>]
KeyPressureLayout ==
    [status |-> <<1, "high">>, channel |-> <<1, "low">>, key |-> <<2, "byte">>, pressure |-> <<3, "byte">>]
ControlChangeLayout ==
    [status |-> <<1, "high">>, channel |-> <<1, "low">>, control |-> <<2, "byte">>, value |-> <<3, "byte">>]
ProgramChangeLayout == [status |-> <<1, "high">>, channel |-> <<1, "low">>, program |-> <<2, "byte">>]
ChannelPressureLayout == [status |-> <<1, "high">>, channel |-> <<1, "low">>, pressure |-> <<2, "byte">>]
PitchWheelLayout ==
    [status |-> <<1, "high">>, channel |-> <<1, "low">>,
     value |-> <<2, "long">>, value_lsb |-> <<2, "byte">>, value_msb |-> <<3, "byte">>]
ExclusiveLayout ==
    [status |-> <<1, "whole">>, id |-> <<2, "id">>, fragment |-> <<4, "fragment">>,
     size |-> <<0, "size">>, data |-> <<0, "data">>]
QuarterFrameLayout == [status |-> <<1, "whole">>, type |-> <<2, "high">>, value |-> <<2, "low">>]
SongPositionLayout ==
    [status |-> <<1, "whole">>, value |-> <<2, "long">>, value_lsb |-> <<2, "byte">>, value_msb |-> <<3, "byte">>]
SongSelectLayout == [status |-> <<1, "whole">>, value |-> <<2, "byte">>]

Layout == [
    note_off_on             |-> NoteLayout,
    polyphonic_key_pressure |-> KeyPressureLayout,
    control_change          |-> ControlChangeLayout,
    program_change          |-> ProgramChangeLayout,
    channel_pressure        |-> ChannelPressureLayout,
    pitch_wheel_change      |-> PitchWheelLayout,
    system_exclusive        |-> ExclusiveLayout,
    time_code_quarter_frame |-> QuarterFrameLayout,
    song_position_pointer   |-> SongPositionLayout,
    song_select             |-> SongSelectLayout,
    tune_request            |-> Whole,
    real_time               |-> Whole]

\* What a setter takes. The parts without a limit cut the value off. The setter
\* of tune requests takes nothing, not even the status.
Accepts(format, p, v) ==
    LET part == IF format = "tune_request" THEN "none" ELSE Layout[format][p][2]
    IN  CASE part = "none" -> FALSE
          [] part = "high" -> v \in 0 .. (IF p = "status" THEN 15 ELSE 7)
          [] part = "low" -> v \in 0 .. 15
          [] part \in {"byte", "size"} -> v \in 0 .. 127
          [] OTHER -> TRUE

\* m with property p set to v, which its format accepts.
MIDIMessageSet(m, p, v) ==
    LET at == Layout[m.format][p][1]  part == Layout[m.format][p][2]
    IN  CASE part = "high" -> [m EXCEPT !.bytes[at] = (v * 16) + (@ % 16)]
          [] part = "low" -> [m EXCEPT !.bytes[at] = ((@ \div 16) * 16) + v]
          [] part \in {"byte", "whole"} -> [m EXCEPT !.bytes[at] = v]
          [] part = "long" -> [m EXCEPT !.bytes[2] = v % 128, !.bytes[3] = (v \div 128) % 128]
          [] part = "id" -> [m EXCEPT !.bytes[2] = (v \div 256) % 256, !.bytes[3] = v % 256]
          [] part = "fragment" -> [m EXCEPT !.bytes[4] = (@ % 2) + (2 * v)]
          [] part = "data" -> [m EXCEPT !.data = v]
          [] part = "size" -> m

MIDIMessageGet(m, p) ==
    LET at == Layout[m.format][p][1]  part == Layout[m.format][p][2]
    IN  CASE part = "high" -> m.bytes[at] \div 16
          [] part = "low" -> m.bytes[at] % 16
          [] part \in {"byte", "whole"} -> m.bytes[at]
          [] part = "long" -> ((m.bytes[3] % 128) * 128) + (m.bytes[2] % 128)
          [] part = "id" -> (m.bytes[2] * 256) + m.bytes[3]
          [] part = "fragment" -> m.bytes[4] \div 2
          [] part = "data" -> m.data
          [] part = "size" -> Len(m.data)

\* A new message. Its first byte is not initialized before the status is set.
\* That leaves the channel of a channel message open, and the whole byte of a
\* tune request, whose setter fails.
MIDIMessageCreate(status, uninitialized) ==
    LET m == [format |-> MIDIMessageFormatForStatus(status), bytes |-> <<uninitialized, 0, 0, 0>>, data |-> <<>>]
    IN  IF Accepts(m.format, "status", status) THEN MIDIMessageSet(m, "status", status) ELSE m

-----------------------------------------------------------------------------
(* Coding with running status, 0 for none. *)

\* Channel messages set it, system common messages end it, real time messages
\* leave it.
RunningStatusAfter(byte, status) ==
    IF byte \in 128 .. 239 THEN byte ELSE IF byte \in 240 .. 247 THEN 0 ELSE status

\* Mutant of Omits: the channel is not compared.
Omits_AnyChannel(m, status) ==
    /\ Size(m.format) > 1 /\ m.format # "system_exclusive"
    /\ status # 0 /\ m.bytes[1] \in 128 .. 239 /\ m.bytes[1] \div 16 = status \div 16

\* The encoder leaves the first byte out.
Omits(m, status) ==
    /\ Size(m.format) > 1 /\ m.format # "system_exclusive"
    /\ status # 0 /\ m.bytes[1] \in 128 .. 239 /\ m.bytes[1] = status

Fragment(m) == m.bytes[4] > 1
Extended(m) == m.bytes[3] >= 128 \/ m.bytes[2] # 0

\* The bytes of m behind messages with this running status.
MIDIMessageEncodeRunningStatus(m, status) ==
    IF m.format = "system_exclusive"
    THEN IF Fragment(m) THEN m.data
         ELSE IF Extended(m) THEN <<m.bytes[1], 0, m.bytes[2] % 128, m.bytes[3] % 128>> \o m.data
         ELSE <<m.bytes[1], m.bytes[3]>> \o m.data
    ELSE SubSeq(m.bytes, IF Omits(m, status) THEN 2 ELSE 1, Size(m.format))

\* The first message of a buffer that holds encoded messages, of a format that was detected, and the
\* number of bytes read. A system exclusive message takes all that is left.
MIDIMessageDecodeRunningStatus(buffer, status) ==
    LET format == MIDIMessageFormatDetectRunningStatus(buffer[1], status)
        bytes  == IF buffer[1] < 128 THEN <<status>> \o buffer ELSE buffer
        n      == Size(format)
        long   == bytes[2] = 0
    IN  IF format = "system_exclusive"
        THEN [read |-> Len(buffer),
              message |-> [format |-> format,
                           bytes |-> IF long THEN <<bytes[1], bytes[3], bytes[4] + 128, 1>>
                                     ELSE <<bytes[1], 0, bytes[2], 1>>,
                           data |-> SubSeq(bytes, IF long THEN 5 ELSE 3, Len(bytes))]]
        ELSE [read |-> n - (IF buffer[1] < 128 THEN 1 ELSE 0),
              message |-> [format |-> format, bytes |-> [i \in 1 .. 4 |-> IF i <= n THEN bytes[i] ELSE 0],
                           data |-> <<>>]]
=============================================================================
