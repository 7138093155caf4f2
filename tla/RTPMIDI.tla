------------------------------ MODULE RTPMIDI ------------------------------
(* The command section of an RTP-MIDI packet: driver/common/rtpmidi.c with the
   variable-length numbers of midi/util.c. It holds a header of one or two
   bytes, and messages with running status and the time since the one before.
   Packets are as the encoder makes them: they fit into its buffer of 512
   bytes, and nothing of them is lost. *)
EXTENDS MessageFormat

BufferSize == 512  \* of a session

CONSTANTS
    Batch,   \* APPLEMIDI_MAX_MESSAGES_PER_PACKET: what a receiver has room for
    SignBit  \* the highest bit of the timestamp of a packet, 2^31 in the source

ASSUME TimestampAssumption == SignBit \in Nat \ {0}

\* Seven bits of a number behind the lowest ones, and those with bit 7 set.
Digit(v, weight) == (v \div weight) % 128
Leading(v, weight) == 128 + Digit(v, weight)

\* Mutant of MIDIUtilWriteVarLen: three bytes only.
WriteVarLen_ThreeBytes(value) ==
    IF value < 128 THEN <<value>>
    ELSE IF value < 16384 THEN <<Leading(value, 128), Digit(value, 1)>>
    ELSE <<Leading(value, 16384), Leading(value, 128), Digit(value, 1)>>

VarLens == 268435456  \* 2^28

\* 28 bits, seven to a byte, the highest first; all but the last have bit 7 set.
MIDIUtilWriteVarLen(value) ==
    LET v == value % VarLens
    IN  IF v < 128 THEN <<v>>
        ELSE IF v < 16384 THEN <<Leading(v, 128), Digit(v, 1)>>
        ELSE IF v < 2097152 THEN <<Leading(v, 16384), Leading(v, 128), Digit(v, 1)>>
        ELSE <<Leading(v, 2097152), Leading(v, 16384), Leading(v, 128), Digit(v, 1)>>

\* Up to the first byte without bit 7.
MIDIUtilReadVarLen(buffer) ==
    LET n == CHOOSE i \in DOMAIN buffer : buffer[i] < 128 /\ \A j \in 1 .. i - 1 : buffer[j] >= 128
        value[i \in 0 .. n] == IF i = 0 THEN 0 ELSE ((value[i - 1] * 128) + (buffer[i] % 128)) % VarLens
    IN  [read |-> n, value |-> value[n]]

\* Short up to 15 bytes; the bit zero says that the first message has a time of
\* its own. Journal and phantom bits are never set.
EncodeHeader(len, zero) ==
    IF len > 15 THEN <<128 + (32 * zero) + (len \div 256), len % 256>> ELSE <<(32 * zero) + len>>

DecodeHeader(buffer) ==
    LET long == buffer[1] >= 128
    IN  [read |-> IF long THEN 2 ELSE 1,
         zero |-> (buffer[1] \div 32) % 2,
         len  |-> IF long THEN ((buffer[1] % 16) * 256) + buffer[2] ELSE buffer[1] % 16]

\* A time that lies before the last one counts as the same.
Delta(time, before) == IF time > before THEN time - before ELSE 0

\* Round i of the encoder's loop. The first message has no delta.
EncodeNext(acc, m, i) ==
    [bytes  |-> acc.bytes
                \o (IF i = 1 THEN <<>> ELSE MIDIUtilWriteVarLen(Delta(m.time, acc.time)))
                \o MIDIMessageEncodeRunningStatus(m.message, acc.status),
     status |-> RunningStatusAfter(m.message.bytes[1], acc.status),
     time   |-> m.time]

\* The messages, each with its time, behind a packet timestamp: the time of the
\* first one.
EncodeMessages(messages) ==
    LET round[i \in 0 .. Len(messages)] ==
            IF i = 0 THEN [bytes |-> <<>>, status |-> 0, time |-> 0]
            ELSE EncodeNext(round[i - 1], messages[i], i)
    IN  round[Len(messages)].bytes

\* _rtp_encode_header writes the lowest 32 bits of a timestamp.
WriteTimestamp(time) == time % (2 * SignBit)

\* _rtp_decode_header puts them together in an int, and so the highest one is
\* the sign of what the receiver takes for the time.
ReadTimestamp(t) == IF t < SignBit THEN t ELSE t - (2 * SignBit)

\* The packet for a list of messages.
RTPMIDISessionSend(messages) ==
    LET section == EncodeMessages(messages)
    IN  [timestamp |-> WriteTimestamp(messages[1].time), payload |-> EncodeHeader(Len(section), 0) \o section]

\* One round of the decoder's loop. r is what is left of the buffer.
DecodeNext(acc, zero) ==
    LET delta == IF acc.out # <<>> \/ zero = 1 THEN MIDIUtilReadVarLen(acc.rest) ELSE [read |-> 0, value |-> 0]
        body  == SubSeq(acc.rest, delta.read + 1, Len(acc.rest))
        next  == MIDIMessageDecodeRunningStatus(body, acc.status)
        time  == acc.time + delta.value
    IN  [rest   |-> SubSeq(body, next.read + 1, Len(body)),
         status |-> RunningStatusAfter(next.message.bytes[1], acc.status),
         time   |-> time,
         out    |-> Append(acc.out, [message |-> next.message, time |-> time])]

\* What a receiver gets out of the packet: at most Batch messages.
RTPMIDISessionReceive(packet) ==
    LET header == DecodeHeader(packet.payload)
        all    == SubSeq(packet.payload, header.read + 1, Len(packet.payload))
        round[i \in 0 .. Batch] ==
            IF i = 0 THEN [rest |-> all, status |-> 0, time |-> ReadTimestamp(packet.timestamp), out |-> <<>>]
            ELSE IF round[i - 1].rest = <<>> \/ Len(all) - Len(round[i - 1].rest) >= header.len THEN round[i - 1]
            ELSE DecodeNext(round[i - 1], header.zero)
    IN  round[Batch].out
=============================================================================
