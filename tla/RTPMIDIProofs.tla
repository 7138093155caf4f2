--------------------------- MODULE RTPMIDIProofs ---------------------------
(* A packet keeps its messages, for any number of them that fits and any bytes in
   them (PacketKept).

   A message is read back from its own bytes, with the running status that both
   ends agree on, a number of up to 28 bits from its digits. The decoder's
   loop is then followed along the encoder's: behind the messages it has read, it
   has left what the encoder wrote for the others, and its status and time are
   those the encoder had there. A system exclusive message ends it (Reader). *)
EXTENDS RTPMIDI, LeastNumber, SequenceTheorems

-----------------------------------------------------------------------------
(* Messages. *)

Octet == 0 .. 255

\* An octet, by its bounds.
LEMMA OctetRange == \A x : x \in Octet <=> (x \in Int /\ 0 <= x /\ x <= 255)
<1>1. \A a, b \in Int : \A x : x \in a .. b <=> (x \in Int /\ a <= x /\ x <= b)
  OBVIOUS
<1>2. 0 \in Int /\ 255 \in Int
  OBVIOUS
<1> QED BY <1>1, <1>2, ZenonT(30) DEF Octet

\* A message that the coding keeps: its first byte is of its format, the others
\* are below 128, and a system exclusive message is not a fragment and has a
\* manufacturer of one byte.
Valid(m) ==
    /\ m.format \in Formats \ {"tune_request"}
    /\ m.bytes \in [1 .. 4 -> Octet] /\ m.bytes[1] \in Tests[m.format]
    /\ m.bytes[2] < 128 /\ m.bytes[3] < 128 /\ m.bytes[4] < 128
    /\ m.format = "system_exclusive" =>
           m.bytes[2] = 0 /\ m.bytes[3] > 0 /\ m.bytes[4] <= 1 /\ m.data \in Seq(Octet)

Statuses == {0} \cup 128 .. 239

\* A first byte belongs to one format.
LEMMA DetectOne == ASSUME NEW f \in Formats, NEW b \in Tests[f] PROVE MIDIMessageFormatDetect(b) = f
<1>1. ASSUME NEW g \in Formats, b \in Tests[g] PROVE g = f
  BY <1>1, SMTT(30) DEF Formats, Tests
<1> QED BY <1>1 DEF MIDIMessageFormatDetect

\* First bytes have bit 7 set.
LEMMA FirstByte == ASSUME NEW f \in Formats, NEW b \in Tests[f] PROVE b \in 128 .. 255
BY DEF Formats, Tests

\* Messages of other formats have one to three bytes.
LEMMA FormatSize == ASSUME NEW f \in Formats PROVE Size(f) \in 1 .. 3
BY DEF Size

\* The bytes of a message, as a sequence.
LEMMA FourBytes ==
    ASSUME NEW S, NEW b \in [1 .. 4 -> S]
    PROVE  b \in Seq(S) /\ Len(b) = 4
<1>1. b \in Seq(S)
  BY SeqDef
<1>2. DOMAIN b = 1 .. Len(b) /\ Len(b) \in Nat /\ DOMAIN b = 1 .. 4
  BY <1>1, LenProperties
<1> QED BY <1>1, <1>2

\* What is written of a message that is not system exclusive.
LEMMA EncodePlain ==
    ASSUME NEW m, Valid(m), m.format # "system_exclusive", NEW s \in Statuses
    PROVE  LET p == MIDIMessageEncodeRunningStatus(m, s)
               o == IF Omits(m, s) THEN 1 ELSE 0
           IN  /\ p \in Seq(Octet) /\ Len(p) = Size(m.format) - o /\ Len(p) \in Int /\ 1 <= Len(p) /\ Len(p) <= 3
               /\ \A i \in 1 .. Len(p) : p[i] = m.bytes[i + o]
<1> DEFINE p == MIDIMessageEncodeRunningStatus(m, s)
           o == IF Omits(m, s) THEN 1 ELSE 0
           n == Size(m.format)
           b == m.bytes
<1>1. n \in 1 .. 3 /\ (Omits(m, s) => n > 1)
  BY FormatSize DEF Valid, Omits
<1>2. p = SubSeq(b, IF Omits(m, s) THEN 2 ELSE 1, n)
  BY DEF MIDIMessageEncodeRunningStatus
<1>3. p = SubSeq(b, o + 1, n)
  <2>1. (IF Omits(m, s) THEN 2 ELSE 1) = o + 1
    OBVIOUS
  <2> QED BY <1>2, <2>1
<1>4. b \in [1 .. 4 -> Octet]
  BY DEF Valid
<1>5. o \in 0 .. 1 /\ o + 1 <= n
  BY <1>1
<1> HIDE DEF o, n, p, b
<1>6. p \in Seq(Octet) /\ Len(p) = n - o /\ \A i \in 1 .. n - o : p[i] = b[i + o]
  <2>1. o + 1 \in Int /\ n \in Int /\ \A i \in o + 1 .. n : b[i] \in Octet
    BY <1>1, <1>4, <1>5
  <2> DEFINE k == o + 1
  <2>2. p = SubSeq(b, k, n)
    BY <1>3
  <2>3. k \in Int /\ \A i \in k .. n : b[i] \in Octet
    BY <2>1
  <2> HIDE DEF k
  <2>4. /\ SubSeq(b, k, n) \in Seq(Octet)
        /\ Len(SubSeq(b, k, n)) = IF k <= n THEN n - k + 1 ELSE 0
        /\ \A i \in 1 .. n - k + 1 : SubSeq(b, k, n)[i] = b[k + i - 1]
    BY <2>1, <2>3, SubSeqProperties
  <2> QED BY <1>1, <1>5, <2>2, <2>4 DEF k
<1> QED BY <1>1, <1>5, <1>6 DEF o, n, p, b

\* What a receiver gets of such a message.
Carried(m) ==
    [format |-> m.format, bytes |-> [i \in 1 .. 4 |-> IF i <= Size(m.format) THEN m.bytes[i] ELSE 0],
     data |-> <<>>]

\* It is read back from what was written, whatever follows.
LEMMA DecodePlain ==
    ASSUME NEW m, Valid(m), m.format # "system_exclusive", NEW s \in Statuses, NEW tail \in Seq(Octet)
    PROVE  LET p == MIDIMessageEncodeRunningStatus(m, s)
           IN  MIDIMessageDecodeRunningStatus(p \o tail, s) = [read |-> Len(p), message |-> Carried(m)]
<1> DEFINE f == m.format
           b == m.bytes
           p == MIDIMessageEncodeRunningStatus(m, s)
           o == IF Omits(m, s) THEN 1 ELSE 0
           n == Size(f)
           buffer == p \o tail
           bytes == IF buffer[1] < 128 THEN <<s>> \o buffer ELSE buffer
           d == MIDIMessageDecodeRunningStatus(buffer, s)
<1>1. /\ p \in Seq(Octet) /\ Len(p) = n - o /\ Len(p) \in Int /\ 1 <= Len(p) /\ Len(p) <= 3
      /\ \A i \in 1 .. Len(p) : p[i] = b[i + o]
  BY EncodePlain
<1>2. n \in 1 .. 3 /\ o \in 0 .. 1 /\ (o = 1 <=> Omits(m, s)) /\ (o = 1 => n > 1)
  <2>1. n \in 1 .. 3
    BY FormatSize DEF Valid
  <2>2. Omits(m, s) => n > 1
    BY DEF Omits
  <2> QED BY <2>1, <2>2
<1>3. f \in Formats /\ b \in [1 .. 4 -> Octet] /\ b[1] \in Tests[f] /\ b[2] < 128
  BY DEF Valid
<1>4. f # "system_exclusive"
  OBVIOUS
<1>5. o = 1 => s # 0 /\ b[1] = s
  BY <1>2 DEF Omits
<1>6. /\ d = LET g == MIDIMessageFormatDetectRunningStatus(buffer[1], s)
                 k == Size(g)
             IN  IF g = "system_exclusive" THEN d
                 ELSE [read |-> k - (IF buffer[1] < 128 THEN 1 ELSE 0),
                       message |-> [format |-> g, bytes |-> [i \in 1 .. 4 |-> IF i <= k THEN bytes[i] ELSE 0],
                                    data |-> <<>>]]
  BY DEF MIDIMessageDecodeRunningStatus
<1>7. Carried(m) = [format |-> f, bytes |-> [i \in 1 .. 4 |-> IF i <= n THEN b[i] ELSE 0], data |-> <<>>]
  BY DEF Carried
<1> HIDE DEF n, p, o, f, b
<1>8. f # "none"
  BY <1>3 DEF Formats, Tests
<1>9. MIDIMessageFormatDetect(b[1]) = f
  <2> DEFINE x == b[1]
  <2>1. x \in Tests[f]
    BY <1>3
  <2> HIDE DEF x
  <2>2. MIDIMessageFormatDetect(x) = f
    BY <1>3, <2>1, DetectOne
  <2> QED BY <2>2 DEF x
<1>10. b[1] \in 128 .. 255
  <2> DEFINE x == b[1]
  <2>1. x \in Tests[f]
    BY <1>3
  <2> HIDE DEF x
  <2>2. x \in 128 .. 255
    BY <1>3, <2>1, FirstByte
  <2> QED BY <2>2 DEF x
<1>11. Len(tail) \in Nat
  BY LenProperties
<1>12. buffer \in Seq(Octet) /\ Len(buffer) = Len(p) + Len(tail) /\ \A i \in 1 .. Len(p) : buffer[i] = p[i]
  <2>1. /\ p \o tail \in Seq(Octet) /\ Len(p \o tail) = Len(p) + Len(tail)
        /\ \A i \in 1 .. Len(p) + Len(tail) : (p \o tail)[i] = IF i <= Len(p) THEN p[i] ELSE tail[i - Len(p)]
    BY <1>1, ConcatProperties
  <2>2. \A i \in 1 .. Len(p) : i \in 1 .. Len(p) + Len(tail) /\ i <= Len(p)
    BY <1>1, <1>11
  <2> QED BY <2>1, <2>2
<1>13. \A i \in 1 .. Len(p) : buffer[i] = b[i + o]
  BY <1>1, <1>12
<1>14. 1 \in 1 .. Len(p)
  BY <1>1
<1> HIDE DEF buffer
<1>15. /\ (buffer[1] < 128 <=> o = 1)
       /\ MIDIMessageFormatDetectRunningStatus(buffer[1], s) = f
       /\ \A i \in 1 .. n : bytes[i] = b[i]
  <2>1. CASE o = 1
    <3>1. buffer[1] = b[2] /\ buffer[1] < 128
      <4>1. buffer[1] = b[1 + 1]
        BY <1>13, <1>14, <2>1
      <4> QED BY <1>3, <4>1
    <3>2. bytes = <<s>> \o buffer
      BY <3>1
    <3>3. MIDIMessageFormatDetectRunningStatus(buffer[1], s) = f
      <4> DEFINE x == buffer[1]
      <4>1. x < 128 /\ x \in 0 .. 255
        <5>1. b[2] \in 0 .. 255
          BY <1>3 DEF Octet
        <5> QED BY <3>1, <5>1
      <4> HIDE DEF x
      <4>2. ~(x >= 128)
        BY <4>1
      <4>3. MIDIMessageFormatDetectRunningStatus(x, s) = MIDIMessageFormatDetect(s)
        BY <1>5, <2>1, <4>2 DEF MIDIMessageFormatDetectRunningStatus
      <4> QED BY <1>5, <1>9, <2>1, <4>3 DEF x
    <3>4. \A i \in 1 .. n : bytes[i] = b[i]
      <4> DEFINE l == <<s>>
      <4>1. l \in Seq(Octet) /\ Len(l) = 1 /\ l[1] = s
        <5>1. s \in Octet
          BY DEF Octet, Statuses
        <5> QED BY <5>1
      <4> HIDE DEF l
      <4>2. /\ l \o buffer \in Seq(Octet) /\ Len(l \o buffer) = Len(l) + Len(buffer)
            /\ \A i \in 1 .. Len(l) + Len(buffer) :
                  (l \o buffer)[i] = IF i <= Len(l) THEN l[i] ELSE buffer[i - Len(l)]
        <5>1. l \in Seq(Octet) /\ buffer \in Seq(Octet)
          BY <1>12, <4>1
        <5> QED BY ONLY <5>1, ConcatProperties
      <4>3. ASSUME NEW i \in 1 .. n PROVE (l \o buffer)[i] = b[i]
        <5>1. i \in 1 .. Len(l) + Len(buffer) /\ Len(l) = 1
          BY <1>1, <1>2, <1>11, <1>12, <2>1, <4>1
        <5>2. (l \o buffer)[i] = IF i <= 1 THEN l[i] ELSE buffer[i - 1]
          BY <4>2, <5>1
        <5>3. CASE i = 1
          BY <1>5, <2>1, <4>1, <5>2, <5>3
        <5>4. CASE i > 1
          <6>1. i - 1 \in 1 .. Len(p) /\ (i - 1) + o = i
            BY <1>1, <1>2, <2>1, <5>4
          <6>2. buffer[i - 1] = b[(i - 1) + o]
            BY <1>13, <6>1
          <6> QED BY <5>2, <5>4, <6>1, <6>2
        <5>5. i = 1 \/ i > 1
          BY <1>2
        <5> QED BY <5>3, <5>4, <5>5
      <4> QED BY <3>2, <4>3 DEF l
    <3> QED BY <2>1, <3>1, <3>3, <3>4
  <2>2. CASE o = 0
    <3>1. buffer[1] = b[1]
      <4>1. buffer[1] = b[1 + 0]
        BY <1>13, <1>14, <2>2
      <4> QED BY <4>1
    <3>2. buffer[1] >= 128 /\ ~(buffer[1] < 128)
      <4> DEFINE x == b[1]
      <4>1. x \in 128 .. 255
        BY <1>10
      <4> HIDE DEF x
      <4>2. x >= 128 /\ ~(x < 128)
        BY <4>1
      <4> QED BY <3>1, <4>2 DEF x
    <3>3. bytes = buffer
      BY <3>2
    <3>4. MIDIMessageFormatDetectRunningStatus(buffer[1], s) = f
      BY <1>9, <3>1, <3>2 DEF MIDIMessageFormatDetectRunningStatus
    <3>5. ASSUME NEW i \in 1 .. n PROVE bytes[i] = b[i]
      <4>1. i \in 1 .. Len(p) /\ i + o = i
        BY <1>1, <1>2, <2>2
      <4>2. buffer[i] = b[i + o]
        BY <1>13, <4>1
      <4> QED BY <3>3, <4>1, <4>2
    <3> QED BY <2>2, <3>2, <3>4, <3>5
  <2>3. o = 0 \/ o = 1
    BY <1>2
  <2> QED BY <2>1, <2>2, <2>3
<1> HIDE DEF bytes, d
<1>16. d = [read |-> n - (IF buffer[1] < 128 THEN 1 ELSE 0),
            message |-> [format |-> f, bytes |-> [i \in 1 .. 4 |-> IF i <= n THEN bytes[i] ELSE 0], data |-> <<>>]]
  BY <1>4, <1>6, <1>15 DEF n, f
<1>17. n - (IF buffer[1] < 128 THEN 1 ELSE 0) = Len(p)
  BY <1>1, <1>2, <1>15
<1>18. [i \in 1 .. 4 |-> IF i <= n THEN bytes[i] ELSE 0] = [i \in 1 .. 4 |-> IF i <= n THEN b[i] ELSE 0]
  BY <1>2, <1>15
<1> QED BY <1>7, <1>16, <1>17, <1>18 DEF d, buffer, p
-----------------------------------------------------------------------------
(* Sequences. *)

\* Behind the first part of a sequence is the second one.
LEMMA BehindFirst ==
    ASSUME NEW S, NEW a \in Seq(S), NEW b \in Seq(S)
    PROVE  SubSeq(a \o b, Len(a) + 1, Len(a \o b)) = b
<1>1. Len(a) \in Nat /\ Len(b) \in Nat
  BY LenProperties
<1>2. a \o b \in Seq(S) /\ Len(a \o b) = Len(a) + Len(b)
  BY ConcatProperties
<1>3. CASE Len(b) = 0
  <2>1. b = <<>>
    BY <1>3, EmptySeq
  <2> DEFINE w == a \o b
             i == Len(a) + 1
             j == Len(w)
  <2>2. i \in Int /\ j \in Int /\ j < i
    BY <1>1, <1>2, <1>3
  <2> HIDE DEF w, i, j
  <2>3. SubSeq(w, i, j) = <<>>
    BY <2>2, SubSeqEmpty
  <2> QED BY <2>1, <2>3 DEF w, i, j
<1>4. CASE Len(b) > 0
  <2> DEFINE i == Len(a) + 1
             j == Len(a) + Len(b)
  <2>1. i \in Len(a) + 1 .. Len(a) + Len(b) /\ j \in Len(a) + 1 .. Len(a) + Len(b)
        /\ i - Len(a) = 1 /\ j - Len(a) = Len(b)
    BY <1>1, <1>4
  <2> HIDE DEF i, j
  <2>2. SubSeq(a \o b, i, j) = SubSeq(b, i - Len(a), j - Len(a))
    BY <2>1, SubSeqOfConcat2
  <2>3. SubSeq(b, 1, Len(b)) = b
    BY SubSeqFull
  <2> QED BY <1>2, <2>1, <2>2, <2>3 DEF i, j
<1> QED BY <1>1, <1>3, <1>4

-----------------------------------------------------------------------------
(* System exclusive messages. *)

\* What is written of one.
LEMMA EncodeExclusive ==
    ASSUME NEW m, Valid(m), m.format = "system_exclusive", NEW s
    PROVE  MIDIMessageEncodeRunningStatus(m, s) = <<240, m.bytes[3]>> \o m.data
<1>1. m.bytes[1] = 240
  BY DEF Valid, Tests
<1>2. m.bytes[2] = 0 /\ m.bytes[3] < 128 /\ m.bytes[3] \in 0 .. 255 /\ m.bytes[4] <= 1 /\ m.bytes[4] \in 0 .. 255
  BY DEF Valid, Octet
<1>3. ~Fragment(m)
  BY <1>2 DEF Fragment
<1>4. ~Extended(m)
  BY <1>2 DEF Extended
<1> QED BY <1>1, <1>3, <1>4 DEF MIDIMessageEncodeRunningStatus

\* It is read back with all that follows.
LEMMA DecodeExclusive ==
    ASSUME NEW m, Valid(m), m.format = "system_exclusive", NEW s, NEW tail \in Seq(Octet)
    PROVE  LET buffer == MIDIMessageEncodeRunningStatus(m, s) \o tail
           IN  MIDIMessageDecodeRunningStatus(buffer, s) =
                  [read |-> Len(buffer),
                   message |-> [format |-> "system_exclusive", bytes |-> <<240, 0, m.bytes[3], 1>>,
                                data |-> m.data \o tail]]
<1> DEFINE id == m.bytes[3]
           h == <<240, id>>
           b == m.data \o tail
           buffer == MIDIMessageEncodeRunningStatus(m, s) \o tail
           f == MIDIMessageFormatDetectRunningStatus(buffer[1], s)
           d == MIDIMessageDecodeRunningStatus(buffer, s)
<1>1. id \in 1 .. 127 /\ m.data \in Seq(Octet)
  <2>1. m.bytes \in [1 .. 4 -> 0 .. 255] /\ id < 128 /\ id > 0 /\ m.data \in Seq(Octet)
    BY DEF Valid, Octet
  <2>2. id \in 0 .. 255
    BY <2>1
  <2> HIDE DEF id
  <2> QED BY <2>1, <2>2
<1>2. b \in Seq(Octet)
  BY <1>1, ConcatProperties
<1> HIDE DEF id, b
<1>3. h \in Seq(Octet) /\ Len(h) = 2 /\ h[1] = 240 /\ h[2] = id
  BY <1>1 DEF Octet
<1> HIDE DEF h
<1>4. buffer = h \o b
  <2>1. MIDIMessageEncodeRunningStatus(m, s) = h \o m.data
    BY EncodeExclusive DEF h, id
  <2> DEFINE x == m.data
  <2>2. x \in Seq(Octet)
    BY <1>1
  <2> HIDE DEF x
  <2>3. (h \o x) \o tail = h \o (x \o tail)
    BY <1>3, <2>2, ConcatAssociative
  <2> QED BY <2>1, <2>3 DEF x, b
<1> HIDE DEF buffer
<1>5. buffer[1] = 240 /\ buffer[2] = id
  <2>1. /\ h \o b \in Seq(Octet) /\ Len(h \o b) = Len(h) + Len(b)
        /\ \A i \in 1 .. Len(h) + Len(b) : (h \o b)[i] = IF i <= Len(h) THEN h[i] ELSE b[i - Len(h)]
    <3>1. h \in Seq(Octet) /\ b \in Seq(Octet)
      BY <1>2, <1>3
    <3> QED BY ONLY <3>1, ConcatProperties
  <2>2. Len(b) \in Nat
    BY <1>2, LenProperties
  <2>3. 1 \in 1 .. Len(h) + Len(b) /\ 2 \in 1 .. Len(h) + Len(b)
    BY <1>3, <2>2
  <2> QED BY <1>3, <1>4, <2>1, <2>3
<1>6. f = "system_exclusive"
  <2>1. MIDIMessageFormatDetect(240) = "system_exclusive"
    <3>1. "system_exclusive" \in Formats /\ 240 \in Tests["system_exclusive"]
      BY DEF Formats, Tests
    <3> QED BY <3>1, DetectOne
  <2> QED BY <1>5, <2>1 DEF MIDIMessageFormatDetectRunningStatus
<1> HIDE DEF f
<1>7. SubSeq(buffer, 3, Len(buffer)) = b
  <2>1. SubSeq(h \o b, Len(h) + 1, Len(h \o b)) = b
    BY <1>2, <1>3, BehindFirst
  <2> QED BY <1>3, <1>4, <2>1
<1>8. d = [read |-> Len(buffer),
           message |-> [format |-> f, bytes |-> <<buffer[1], 0, buffer[2], 1>>, data |-> SubSeq(buffer, 3, Len(buffer))]]
  <2>1. ~(buffer[1] < 128) /\ buffer[2] # 0
    BY <1>1, <1>5
  <2> QED BY <1>6, <2>1 DEF MIDIMessageDecodeRunningStatus, f
<1> HIDE DEF d
<1> QED BY <1>5, <1>6, <1>7, <1>8 DEF d, buffer, b, id
-----------------------------------------------------------------------------
(* Variable-length numbers. *)

\* What is read up to a byte without bit 7, the first one: a recursive function
\* of the bytes.
LEMMA ReadTo ==
    ASSUME NEW buffer \in Seq(Octet), NEW k \in 1 .. Len(buffer), buffer[k] < 128,
           \A j \in 1 .. k - 1 : buffer[j] >= 128
    PROVE  \E value : /\ value[0] = 0
                      /\ \A i \in 1 .. k : value[i] = ((value[i - 1] * 128) + (buffer[i] % 128)) % VarLens
                      /\ MIDIUtilReadVarLen(buffer) = [read |-> k, value |-> value[k]]
<1> DEFINE n == CHOOSE i \in DOMAIN buffer : buffer[i] < 128 /\ \A j \in 1 .. i - 1 : buffer[j] >= 128
           Body(h) == [i \in 0 .. n |->
                          IF i = 0 THEN 0 ELSE ((h[i - 1] * 128) + (buffer[i] % 128)) % VarLens]
           value == CHOOSE h : h = Body(h)
<1>1. MIDIUtilReadVarLen(buffer) = [read |-> n, value |-> value[n]]
  BY DEF MIDIUtilReadVarLen
<1>2. DOMAIN buffer = 1 .. Len(buffer) /\ Len(buffer) \in Nat /\ \A i \in 1 .. Len(buffer) : buffer[i] \in 0 .. 255
  BY LenProperties, ElementOfSeq DEF Octet
<1>3. n = k
  <2>1. n \in 1 .. Len(buffer) /\ buffer[n] < 128 /\ \A j \in 1 .. n - 1 : buffer[j] >= 128
    BY <1>2
  <2> HIDE DEF n
  <2>2. ~(n < k)
    <3>1. ASSUME n < k PROVE FALSE
      <4>1. n \in 1 .. k - 1
        BY <1>2, <2>1, <3>1
      <4> DEFINE x == buffer[n]
      <4>2. x >= 128 /\ x < 128 /\ x \in 0 .. 255
        BY <1>2, <2>1, <4>1
      <4> HIDE DEF x
      <4> QED BY <4>2
    <3> QED BY <3>1
  <2>3. ~(k < n)
    <3>1. ASSUME k < n PROVE FALSE
      <4>1. k \in 1 .. n - 1
        BY <1>2, <2>1, <3>1
      <4> DEFINE x == buffer[k]
      <4>2. x >= 128 /\ x < 128 /\ x \in 0 .. 255
        BY <1>2, <2>1, <4>1
      <4> HIDE DEF x
      <4> QED BY <4>2
    <3> QED BY <3>1
  <2> QED BY <1>2, <2>1, <2>2, <2>3
<1> HIDE DEF n
<1>4. \E h : h = Body(h)
  <2> DEFINE Inv == [i \in 0 .. n |-> Int]
             F == [x \in (1 .. n) \X Int |-> ((x[2] * 128) + (buffer[x[1]] % 128)) % VarLens]
  <2>1. n \in Nat /\ 0 \in Inv[0]
    BY <1>3
  <2>2. ASSUME NEW i \in 1 .. n, NEW s \in Int
        PROVE  F[<<i, s>>] = ((s * 128) + (buffer[i] % 128)) % VarLens /\ F[<<i, s>>] \in Int
    <3>1. F[<<i, s>>] = ((s * 128) + (buffer[i] % 128)) % VarLens
      OBVIOUS
    <3>2. buffer[i] \in Int
      <4>1. i \in 1 .. Len(buffer)
        BY <1>2, <1>3
      <4>2. buffer[i] \in 0 .. 255
        BY <1>2, <4>1
      <4> DEFINE b == buffer[i]
      <4> HIDE DEF b
      <4>3. b \in 0 .. 255 => b \in Int
        OBVIOUS
      <4> QED BY <4>2, <4>3 DEF b
    <3> DEFINE b == buffer[i]
    <3>3. b \in Int
      BY <3>2
    <3> HIDE DEF b, F
    <3>4. ((s * 128) + (b % 128)) % VarLens \in Int
      BY <3>3 DEF VarLens
    <3> QED BY <3>1, <3>4 DEF b
  <2>3. \A i \in 1 .. n : \A s \in Inv[i - 1] : F[<<i, s>>] \in Inv[i]
    <3>1. \A i \in 1 .. n : Inv[i - 1] = Int /\ Inv[i] = Int
      BY <2>1
    <3> HIDE DEF Inv, F
    <3> QED BY <2>2, <3>1, ZenonT(30)
  <2>4. PICK g : Iterates(g, n, 0, F) /\ \A i \in 0 .. n : g[i] \in Inv[i]
    <3> HIDE DEF Inv, F
    <3> QED BY <2>1, <2>3, Iteration
  <2>5. g = [i \in 0 .. n |-> IF i = 0 THEN 0 ELSE F[<<i, g[i - 1]>>]]
    <3> HIDE DEF F
    <3> QED BY <2>4 DEF Iterates
  <2>6. ASSUME NEW i \in 1 .. n PROVE F[<<i, g[i - 1]>>] = ((g[i - 1] * 128) + (buffer[i] % 128)) % VarLens
    <3>1. i - 1 \in 0 .. n /\ Inv[i - 1] = Int
      BY <2>1
    <3>2. g[i - 1] \in Int
      BY <2>4, <3>1
    <3> HIDE DEF F, Inv
    <3> QED BY <2>2, <3>2
  <2>7. [i \in 0 .. n |-> IF i = 0 THEN 0 ELSE F[<<i, g[i - 1]>>]] = Body(g)
    <3>1. \A i \in 0 .. n : i # 0 => i \in 1 .. n
      BY <2>1
    <3> HIDE DEF F, Inv
    <3> QED BY <2>6, <3>1
  <2> QED BY <2>5, <2>7
<1>5. value = Body(value)
  BY <1>4
<1>6. value[0] = 0 /\ \A i \in 1 .. k : value[i] = ((value[i - 1] * 128) + (buffer[i] % 128)) % VarLens
  <2> HIDE DEF value
  <2>1. value = [i \in 0 .. k |-> IF i = 0 THEN 0 ELSE ((value[i - 1] * 128) + (buffer[i] % 128)) % VarLens]
    BY <1>3, <1>5
  <2>2. \A i \in 0 .. k :
            value[i] = IF i = 0 THEN 0 ELSE ((value[i - 1] * 128) + (buffer[i] % 128)) % VarLens
    BY <2>1
  <2>3. 0 \in 0 .. k /\ \A i \in 1 .. k : i \in 0 .. k /\ i # 0
    OBVIOUS
  <2> QED BY <2>2, <2>3
<1> HIDE DEF value
<1> QED BY <1>1, <1>3, <1>6

\* Dividing twice.
LEMMA DivDiv ==
    ASSUME NEW v \in Nat
    PROVE  /\ v \div 16384 = (v \div 128) \div 128
           /\ v \div 2097152 = ((v \div 128) \div 128) \div 128
OBVIOUS

\* A number and its last seven bits.
LEMMA LastSeven ==
    ASSUME NEW v \in Nat
    PROVE  v \div 128 \in Nat /\ v % 128 \in 0 .. 127 /\ ((v \div 128) * 128) + (v % 128) = v
OBVIOUS

\* Reading stops behind the bytes of the number, whatever follows.
LEMMA ReadWritten ==
    ASSUME NEW w \in Seq(Octet), NEW k \in Nat \ {0}, Len(w) = k, w[k] < 128,
           \A j \in 1 .. k - 1 : w[j] >= 128, NEW tail \in Seq(Octet)
    PROVE  \E value : /\ value[0] = 0
                      /\ \A i \in 1 .. k : value[i] = ((value[i - 1] * 128) + (w[i] % 128)) % VarLens
                      /\ MIDIUtilReadVarLen(w \o tail) = [read |-> k, value |-> value[k]]
<1> DEFINE buffer == w \o tail
<1>1. /\ buffer \in Seq(Octet) /\ Len(buffer) = Len(w) + Len(tail)
      /\ \A i \in 1 .. Len(w) + Len(tail) : buffer[i] = IF i <= Len(w) THEN w[i] ELSE tail[i - Len(w)]
  BY ConcatProperties
<1>2. Len(tail) \in Nat
  BY LenProperties
<1>3. \A i \in 1 .. k : i \in 1 .. Len(buffer) /\ buffer[i] = w[i]
  BY <1>1, <1>2
<1>4. k \in 1 .. Len(buffer) /\ buffer[k] < 128 /\ \A j \in 1 .. k - 1 : buffer[j] >= 128
  <2>1. k \in 1 .. k /\ \A j \in 1 .. k - 1 : j \in 1 .. k
    OBVIOUS
  <2> HIDE DEF buffer
  <2> QED BY <1>3, <2>1
<1> HIDE DEF buffer
<1>5. PICK value : /\ value[0] = 0
                   /\ \A i \in 1 .. k : value[i] = ((value[i - 1] * 128) + (buffer[i] % 128)) % VarLens
                   /\ MIDIUtilReadVarLen(buffer) = [read |-> k, value |-> value[k]]
  <2>1. buffer \in Seq(Octet)
    BY <1>1
  <2> QED BY ONLY <2>1, <1>4, ReadTo
<1>6. \A i \in 1 .. k : value[i] = ((value[i - 1] * 128) + (w[i] % 128)) % VarLens
  <2>1. ASSUME NEW i \in 1 .. k PROVE value[i] = ((value[i - 1] * 128) + (w[i] % 128)) % VarLens
    <3>1. value[i] = ((value[i - 1] * 128) + (buffer[i] % 128)) % VarLens
      BY <1>5
    <3>2. buffer[i] = w[i]
      BY <1>3
    <3> QED BY <3>1, <3>2
  <2> QED BY <2>1
<1> QED BY <1>5, <1>6 DEF buffer

\* The bytes of a number are read back to it, modulo 2^28.
LEMMA VarLenKept ==
    ASSUME NEW number \in Nat, NEW tail \in Seq(Octet)
    PROVE  LET w == MIDIUtilWriteVarLen(number)
           IN  /\ w \in Seq(Octet) /\ Len(w) >= 1 /\ Len(w) <= 4
               /\ MIDIUtilReadVarLen(w \o tail) = [read |-> Len(w), value |-> number % VarLens]
<1> DEFINE v == number % VarLens
           w == MIDIUtilWriteVarLen(number)
           q1 == v \div 128
           q2 == q1 \div 128
           q3 == q2 \div 128
           d1 == q1 % 128
           d2 == q2 % 128
           d3 == q3 % 128
           d0 == v % 128
<1>1. v \in Nat /\ v < VarLens
  BY DEF VarLens
<1>2. /\ w = IF v < 128 THEN <<v>>
             ELSE IF v < 16384 THEN <<Leading(v, 128), Digit(v, 1)>>
             ELSE IF v < 2097152 THEN <<Leading(v, 16384), Leading(v, 128), Digit(v, 1)>>
             ELSE <<Leading(v, 2097152), Leading(v, 16384), Leading(v, 128), Digit(v, 1)>>
  BY DEF MIDIUtilWriteVarLen
<1> HIDE DEF v, w
<1>3. v \div 16384 = q2 /\ v \div 2097152 = q3
  BY <1>1, DivDiv
<1>4. Digit(v, 1) = d0 /\ Leading(v, 128) = 128 + d1 /\ Leading(v, 16384) = 128 + d2 /\ Leading(v, 2097152) = 128 + d3
  <2>1. v \div 1 = v
    BY <1>1
  <2> QED BY <1>3, <2>1 DEF Digit, Leading
<1>5. q1 \in Nat /\ d0 \in 0 .. 127 /\ (q1 * 128) + d0 = v
  BY <1>1, LastSeven
<1> HIDE DEF q1, d0
<1>6. q2 \in Nat /\ d1 \in 0 .. 127 /\ (q2 * 128) + d1 = q1
  BY <1>5, LastSeven
<1> HIDE DEF q2, d1
<1>7. q3 \in Nat /\ d2 \in 0 .. 127 /\ (q3 * 128) + d2 = q2
  BY <1>6, LastSeven
<1> HIDE DEF q3, d2
<1>8. q3 < 128
  BY <1>1, <1>5, <1>6, <1>7 DEF VarLens
<1>9. d3 = q3 /\ d3 \in 0 .. 127
  BY <1>7, <1>8
<1> HIDE DEF d3
<1>10. q1 < VarLens /\ q2 < VarLens /\ q3 < VarLens
  BY <1>1, <1>5, <1>6, <1>7 DEF VarLens
<1>11. /\ ((q1 * 128) + (d0 % 128)) % VarLens = v /\ ((q2 * 128) + ((128 + d1) % 128)) % VarLens = q1
       /\ ((q3 * 128) + ((128 + d2) % 128)) % VarLens = q2 /\ ((0 * 128) + ((128 + d3) % 128)) % VarLens = q3
  <2>1. d0 % 128 = d0 /\ (128 + d1) % 128 = d1 /\ (128 + d2) % 128 = d2 /\ (128 + d3) % 128 = d3
    BY <1>5, <1>6, <1>7, <1>9
  <2>2. v % VarLens = v /\ q1 % VarLens = q1 /\ q2 % VarLens = q2 /\ q3 % VarLens = q3
    BY <1>1, <1>5, <1>6, <1>7, <1>10 DEF VarLens
  <2>3. (0 * 128) + d3 = q3
    BY <1>9
  <2>4. /\ ((q1 * 128) + (d0 % 128)) = v /\ ((q2 * 128) + ((128 + d1) % 128)) = q1
        /\ ((q3 * 128) + ((128 + d2) % 128)) = q2 /\ ((0 * 128) + ((128 + d3) % 128)) = q3
    BY <1>5, <1>6, <1>7, <2>1, <2>3
  <2> QED BY <2>2, <2>4
<1>12. /\ 128 + d1 \in 128 .. 255 /\ 128 + d2 \in 128 .. 255 /\ 128 + d3 \in 128 .. 255
       /\ d0 < 128 /\ 128 + d1 >= 128 /\ 128 + d2 >= 128 /\ 128 + d3 >= 128
  BY <1>5, <1>6, <1>7, <1>9
<1>13. CASE v < 128
  <2>1. w = <<d0>> /\ q1 = 0 /\ d0 = v
    BY <1>1, <1>2, <1>5, <1>13
  <2>2. w \in Seq(Octet) /\ Len(w) = 1 /\ w[1] = d0 /\ w[1] < 128
    BY <1>5, <2>1 DEF Octet
  <2>3. PICK value : /\ value[0] = 0
                     /\ \A i \in 1 .. 1 : value[i] = ((value[i - 1] * 128) + (w[i] % 128)) % VarLens
                     /\ MIDIUtilReadVarLen(w \o tail) = [read |-> 1, value |-> value[1]]
    BY <2>2, ReadWritten
  <2>4. value[1] = ((value[0] * 128) + (w[1] % 128)) % VarLens
    BY <2>3
  <2>5. value[1] = v
    BY <1>11, <2>1, <2>2, <2>3, <2>4
  <2> QED BY <2>2, <2>3, <2>5 DEF v, w
<1>14. CASE v >= 128 /\ v < 16384
  <2>1. w = <<128 + d1, d0>> /\ q2 = 0 /\ d1 = q1
    <3>1. w = <<128 + d1, d0>>
      BY <1>1, <1>2, <1>4, <1>14
    <3>2. q1 < 128
      BY <1>1, <1>5, <1>14
    <3>3. q2 = 0
      BY <1>5, <1>6, <3>2
    <3> QED BY <1>5, <1>6, <3>1, <3>3
  <2>2. w \in Seq(Octet) /\ Len(w) = 2 /\ w[1] = 128 + d1 /\ w[2] = d0
    BY <1>5, <1>12, <2>1 DEF Octet
  <2>3. w[2] < 128 /\ \A j \in 1 .. 1 : w[j] >= 128
    <3>1. w[2] < 128 /\ w[1] >= 128
      BY <1>12, <2>2
    <3> QED BY <3>1
  <2>4. PICK value : /\ value[0] = 0
                     /\ \A i \in 1 .. 2 : value[i] = ((value[i - 1] * 128) + (w[i] % 128)) % VarLens
                     /\ MIDIUtilReadVarLen(w \o tail) = [read |-> 2, value |-> value[2]]
    BY <2>2, <2>3, ReadWritten
  <2>5. /\ value[1] = ((value[0] * 128) + (w[1] % 128)) % VarLens
        /\ value[2] = ((value[1] * 128) + (w[2] % 128)) % VarLens
    BY <2>4
  <2>6. value[1] = q1
    BY <1>11, <1>12, <2>1, <2>2, <2>4, <2>5
  <2>7. value[2] = v
    BY <1>11, <2>2, <2>5, <2>6
  <2> QED BY <2>2, <2>4, <2>7 DEF v, w
<1>15. CASE v >= 16384 /\ v < 2097152
  <2>1. w = <<128 + d2, 128 + d1, d0>> /\ q3 = 0 /\ d2 = q2
    <3>1. w = <<128 + d2, 128 + d1, d0>>
      BY <1>1, <1>2, <1>4, <1>15
    <3>2. q1 < 16384
      BY <1>1, <1>5, <1>15
    <3>3. q2 < 128
      BY <1>5, <1>6, <3>2
    <3>4. q3 = 0
      BY <1>6, <1>7, <3>3
    <3> QED BY <1>6, <1>7, <3>1, <3>4
  <2>2. w \in Seq(Octet) /\ Len(w) = 3 /\ w[1] = 128 + d2 /\ w[2] = 128 + d1 /\ w[3] = d0
    BY <1>5, <1>12, <2>1 DEF Octet
  <2>3. w[3] < 128 /\ \A j \in 1 .. 2 : w[j] >= 128
    <3>1. w[3] < 128 /\ w[1] >= 128 /\ w[2] >= 128
      BY <1>12, <2>2
    <3> QED BY <3>1
  <2>4. PICK value : /\ value[0] = 0
                     /\ \A i \in 1 .. 3 : value[i] = ((value[i - 1] * 128) + (w[i] % 128)) % VarLens
                     /\ MIDIUtilReadVarLen(w \o tail) = [read |-> 3, value |-> value[3]]
    <3>1. w \in Seq(Octet) /\ Len(w) = 3 /\ w[3] < 128 /\ \A j \in 1 .. 3 - 1 : w[j] >= 128
      BY <2>2, <2>3
    <3> QED BY <3>1, ReadWritten
  <2>5. /\ value[1] = ((value[0] * 128) + (w[1] % 128)) % VarLens
        /\ value[2] = ((value[1] * 128) + (w[2] % 128)) % VarLens
        /\ value[3] = ((value[2] * 128) + (w[3] % 128)) % VarLens
    BY <2>4
  <2>6. value[1] = q2
    BY <1>11, <1>12, <2>1, <2>2, <2>4, <2>5
  <2>7. value[2] = q1
    BY <1>11, <1>12, <2>2, <2>5, <2>6
  <2>8. value[3] = v
    BY <1>11, <2>2, <2>5, <2>7
  <2> QED BY <2>2, <2>4, <2>8 DEF v, w
<1>16. CASE v >= 2097152
  <2>1. w = <<128 + d3, 128 + d2, 128 + d1, d0>>
    BY <1>1, <1>2, <1>4, <1>16
  <2>2. w \in Seq(Octet) /\ Len(w) = 4 /\ w[1] = 128 + d3 /\ w[2] = 128 + d2 /\ w[3] = 128 + d1 /\ w[4] = d0
    BY <1>5, <1>12, <2>1 DEF Octet
  <2>3. w[4] < 128 /\ \A j \in 1 .. 3 : w[j] >= 128
    <3>1. w[4] < 128 /\ w[1] >= 128 /\ w[2] >= 128 /\ w[3] >= 128
      BY <1>12, <2>2
    <3> QED BY <3>1
  <2>4. PICK value : /\ value[0] = 0
                     /\ \A i \in 1 .. 4 : value[i] = ((value[i - 1] * 128) + (w[i] % 128)) % VarLens
                     /\ MIDIUtilReadVarLen(w \o tail) = [read |-> 4, value |-> value[4]]
    BY <2>2, <2>3, ReadWritten
  <2>5. /\ value[1] = ((value[0] * 128) + (w[1] % 128)) % VarLens
        /\ value[2] = ((value[1] * 128) + (w[2] % 128)) % VarLens
        /\ value[3] = ((value[2] * 128) + (w[3] % 128)) % VarLens
        /\ value[4] = ((value[3] * 128) + (w[4] % 128)) % VarLens
    BY <2>4
  <2>6. value[1] = q3
    BY <1>11, <1>12, <2>2, <2>4, <2>5
  <2>7. value[2] = q2
    BY <1>11, <1>12, <2>2, <2>5, <2>6
  <2>8. value[3] = q1
    BY <1>11, <1>12, <2>2, <2>5, <2>7
  <2>9. value[4] = v
    BY <1>11, <2>2, <2>5, <2>8
  <2> QED BY <2>2, <2>4, <2>9 DEF v, w
<1> QED BY <1>1, <1>13, <1>14, <1>15, <1>16 DEF v, w
-----------------------------------------------------------------------------
(* The header of a section. *)

\* The number of bytes of a section up to 4095 is read back.
LEMMA HeaderKept ==
    ASSUME NEW len \in Nat, len <= 4095, NEW section \in Seq(Octet)
    PROVE  LET h == EncodeHeader(len, 0)
           IN  /\ h \in Seq(Octet)
               /\ DecodeHeader(h \o section).read = Len(h) /\ DecodeHeader(h \o section).len = len
               /\ DecodeHeader(h \o section).zero = 0
<1> DEFINE h == EncodeHeader(len, 0)
           buffer == h \o section
           b1 == buffer[1]
           b2 == buffer[2]
           q == len \div 256
           r == len % 256
           d == DecodeHeader(buffer)
<1>1. q \in Nat /\ q <= 15 /\ r \in Nat /\ r <= 255 /\ (q * 256) + r = len
  OBVIOUS
<1>2. h = IF len > 15 THEN <<128 + (32 * 0) + q, r>> ELSE <<(32 * 0) + len>>
  BY DEF EncodeHeader
<1>3. /\ d.read = IF b1 >= 128 THEN 2 ELSE 1
      /\ d.len = IF b1 >= 128 THEN ((b1 % 16) * 256) + b2 ELSE b1 % 16
      /\ d.zero = (b1 \div 32) % 2
  <2>1. d = [read |-> IF b1 >= 128 THEN 2 ELSE 1, zero |-> (b1 \div 32) % 2,
             len |-> IF b1 >= 128 THEN ((b1 % 16) * 256) + b2 ELSE b1 % 16]
    BY DEF DecodeHeader
  <2> HIDE DEF b1, b2, d
  <2> QED BY <2>1
<1>4. ASSUME h \in Seq(Octet) PROVE \A i \in 1 .. Len(h) : buffer[i] = h[i]
  <2> HIDE DEF h
  <2>1. /\ h \o section \in Seq(Octet) /\ Len(h \o section) = Len(h) + Len(section)
        /\ \A i \in 1 .. Len(h) + Len(section) :
              (h \o section)[i] = IF i <= Len(h) THEN h[i] ELSE section[i - Len(h)]
    BY <1>4, ConcatProperties
  <2>2. Len(section) \in Nat /\ Len(h) \in Nat
    BY <1>4, LenProperties
  <2>3. \A i \in 1 .. Len(h) : i \in 1 .. Len(h) + Len(section) /\ i <= Len(h)
    BY <2>2
  <2> QED BY <2>1, <2>3
<1> HIDE DEF h, q, r, d, buffer
<1>5. CASE len > 15
  <2> DEFINE c == 128 + q
  <2>1. c \in Octet /\ r \in Octet
    BY <1>1, OctetRange
  <2>2. h = <<c, r>>
    <3>1. 128 + (32 * 0) + q = c
      BY <1>1
    <3> QED BY <1>2, <1>5, <3>1
  <2>3. c >= 128 /\ c % 16 = q /\ (c \div 32) % 2 = 0
    BY <1>1
  <2> HIDE DEF c
  <2>4. h \in Seq(Octet) /\ Len(h) = 2 /\ h[1] = c /\ h[2] = r
    BY <2>1, <2>2
  <2>5. b1 = c /\ b2 = r
    BY <1>4, <2>4
  <2> HIDE DEF b1, b2
  <2>6. b1 >= 128 /\ ((b1 % 16) * 256) + b2 = len /\ (b1 \div 32) % 2 = 0
    BY <1>1, <2>3, <2>5
  <2>7. d.read = Len(h) /\ d.len = len /\ d.zero = 0
    BY <1>3, <2>4, <2>6
  <2> QED BY <2>4, <2>7 DEF h, d, buffer
<1>6. CASE ~(len > 15)
  <2>1. len \in Octet /\ len <= 15
    BY <1>6, OctetRange
  <2>2. h = <<len>>
    <3>1. (32 * 0) + len = len
      OBVIOUS
    <3> QED BY <1>2, <1>6, <3>1
  <2>3. ~(len >= 128) /\ len % 16 = len /\ (len \div 32) % 2 = 0
    BY <2>1
  <2>4. h \in Seq(Octet) /\ Len(h) = 1 /\ h[1] = len
    BY <2>1, <2>2
  <2>5. b1 = len
    BY <1>4, <2>4
  <2> HIDE DEF b1, b2
  <2>6. ~(b1 >= 128) /\ b1 % 16 = len /\ (b1 \div 32) % 2 = 0
    BY <2>3, <2>5
  <2>7. d.read = Len(h) /\ d.len = len /\ d.zero = 0
    BY <1>3, <2>4, <2>6
  <2> QED BY <2>4, <2>7 DEF h, d, buffer
<1> QED BY <1>5, <1>6

-----------------------------------------------------------------------------
(* The section: what the rounds of the encoder's loop write. *)

States == [bytes : Seq(Octet), status : Statuses, time : Int]

\* What a round adds.
Piece(acc, x, i) ==
    (IF i = 1 THEN <<>> ELSE MIDIUtilWriteVarLen(Delta(x.time, acc.time)))
        \o MIDIMessageEncodeRunningStatus(x.message, acc.status)

\* A message that is written: a valid one with a time; system exclusive ones are
\* short enough.
Item(x, size) ==
    /\ Valid(x.message) /\ x.time \in Int
    /\ x.message.format = "system_exclusive" => Len(x.message.data) + 8 <= size

\* The bytes of a message.
LEMMA EncodedSize ==
    ASSUME NEW size \in Nat, size >= 8, NEW x, Item(x, size), NEW s \in Statuses
    PROVE  LET p == MIDIMessageEncodeRunningStatus(x.message, s)
           IN  p \in Seq(Octet) /\ Len(p) >= 1 /\ Len(p) + 4 <= size
<1> DEFINE m == x.message
           p == MIDIMessageEncodeRunningStatus(m, s)
<1>1. Valid(m)
  BY DEF Item
<1>2. CASE m.format # "system_exclusive"
  <2>1. p \in Seq(Octet) /\ Len(p) \in Int /\ 1 <= Len(p) /\ Len(p) <= 3
    BY <1>1, <1>2, EncodePlain
  <2> HIDE DEF p
  <2>2. Len(p) + 4 <= size
    BY <2>1
  <2> QED BY <2>1, <2>2 DEF p
<1>3. CASE m.format = "system_exclusive"
  <2> DEFINE d == m.data
             h == <<240, m.bytes[3]>>
  <2>1. d \in Seq(Octet) /\ Len(d) + 8 <= size /\ m.bytes[3] \in Octet
    BY <1>1, <1>3 DEF Valid, Item
  <2>2. h \in Seq(Octet) /\ Len(h) = 2
    BY <2>1 DEF Octet
  <2>3. p = h \o d
    BY <1>1, <1>3, EncodeExclusive
  <2> HIDE DEF d, h, p
  <2>4. Len(d) \in Nat /\ p \in Seq(Octet) /\ Len(p) = Len(h) + Len(d)
    <3>1. h \in Seq(Octet) /\ d \in Seq(Octet)
      BY <2>1, <2>2
    <3> QED BY <2>3, <3>1, ConcatProperties, LenProperties
  <2>5. Len(p) >= 1 /\ Len(p) + 4 <= size
    BY <2>1, <2>2, <2>4
  <2> QED BY <2>4, <2>5 DEF p
<1> QED BY <1>2, <1>3

\* The status after a message.
LEMMA StatusAfter == ASSUME NEW b, NEW s \in Statuses PROVE RunningStatusAfter(b, s) \in Statuses
BY DEF RunningStatusAfter, Statuses

\* The bytes for the time between two messages.
LEMMA DeltaBytes ==
    ASSUME NEW t \in Int, NEW before \in Int
    PROVE  /\ Delta(t, before) \in Nat
           /\ MIDIUtilWriteVarLen(Delta(t, before)) \in Seq(Octet)
           /\ Len(MIDIUtilWriteVarLen(Delta(t, before))) <= 4
<1> DEFINE d == Delta(t, before)
<1>1. d \in Nat
  BY DEF Delta
<1> HIDE DEF d
<1>2. <<>> \in Seq(Octet)
  BY EmptySeq
<1> QED BY <1>1, <1>2, VarLenKept DEF d

\* A round adds its piece, which has at least one byte and not too many.
LEMMA EncodeRound ==
    ASSUME NEW size \in Nat, size >= 8, NEW acc \in States, NEW x, Item(x, size), NEW i
    PROVE  LET p == Piece(acc, x, i)
               next == EncodeNext(acc, x, i)
           IN  /\ p \in Seq(Octet) /\ Len(p) \in 1 .. size
               /\ next \in States /\ next.bytes = acc.bytes \o p
               /\ next.status = RunningStatusAfter(x.message.bytes[1], acc.status) /\ next.time = x.time
<1> DEFINE d == IF i = 1 THEN <<>> ELSE MIDIUtilWriteVarLen(Delta(x.time, acc.time))
           e == MIDIMessageEncodeRunningStatus(x.message, acc.status)
           p == Piece(acc, x, i)
           b == acc.bytes
<1>1. x.time \in Int /\ acc.time \in Int /\ acc.status \in Statuses /\ b \in Seq(Octet)
  BY DEF Item, States
<1>2. d \in Seq(Octet) /\ Len(d) <= 4
  <2>1. CASE i = 1
    BY <2>1, EmptySeq
  <2>2. CASE i # 1
    <3> DEFINE t == x.time
               u == acc.time
    <3> HIDE DEF t, u
    <3>1. t \in Int /\ u \in Int
      BY <1>1 DEF t, u
    <3>2. /\ MIDIUtilWriteVarLen(Delta(t, u)) \in Seq(Octet)
          /\ Len(MIDIUtilWriteVarLen(Delta(t, u))) <= 4
      BY <3>1, DeltaBytes
    <3> QED BY <2>2, <3>2 DEF t, u
  <2> QED BY <2>1, <2>2
<1>3. e \in Seq(Octet) /\ Len(e) >= 1 /\ Len(e) + 4 <= size
  <2> DEFINE s == acc.status
  <2>1. s \in Statuses
    BY <1>1
  <2> HIDE DEF s
  <2>2. LET z == MIDIMessageEncodeRunningStatus(x.message, s)
        IN  z \in Seq(Octet) /\ Len(z) >= 1 /\ Len(z) + 4 <= size
    BY <2>1, EncodedSize
  <2> QED BY <2>2 DEF s
<1>4. p = d \o e
  BY DEF Piece
<1>5. EncodeNext(acc, x, i) =
         [bytes |-> (b \o d) \o e, status |-> RunningStatusAfter(x.message.bytes[1], acc.status), time |-> x.time]
  BY DEF EncodeNext
<1> HIDE DEF d, e, p
<1>6. (b \o d) \o e = b \o p
  <2> HIDE DEF b
  <2>1. b \in Seq(Octet) /\ d \in Seq(Octet) /\ e \in Seq(Octet)
    BY <1>1, <1>2, <1>3
  <2>2. (b \o d) \o e = b \o (d \o e)
    BY ONLY <2>1, ConcatAssociative
  <2> QED BY <1>4, <2>2
<1>7. p \in Seq(Octet) /\ Len(p) = Len(d) + Len(e)
  BY <1>2, <1>3, <1>4, ConcatProperties
<1>8. Len(p) \in 1 .. size
  <2>1. Len(e) \in Nat /\ Len(d) \in Nat
    BY <1>2, <1>3, LenProperties
  <2> QED BY <1>2, <1>3, <1>7, <2>1
<1>9. b \o p \in Seq(Octet)
  <2> HIDE DEF b
  <2> QED BY <1>1, <1>7, ConcatProperties
<1>10. RunningStatusAfter(x.message.bytes[1], acc.status) \in Statuses
  <2> DEFINE s == acc.status
             y == x.message.bytes[1]
  <2> HIDE DEF s, y
  <2>1. s \in Statuses
    BY <1>1 DEF s
  <2>2. RunningStatusAfter(y, s) \in Statuses
    BY <2>1, StatusAfter
  <2> QED BY <2>2 DEF s, y
<1>11. EncodeNext(acc, x, i) \in States
  BY <1>1, <1>5, <1>6, <1>9, <1>10 DEF States
<1> QED BY <1>5, <1>6, <1>7, <1>8, <1>11 DEF p

\* The rounds of the encoder.
Rounds(round, messages, n, size) ==
    /\ round[0] = [bytes |-> <<>>, status |-> 0, time |-> 0]
    /\ \A i \in 0 .. n : round[i] \in States /\ Len(round[i].bytes) <= i * size
    /\ \A i \in 1 .. n : round[i] = EncodeNext(round[i - 1], messages[i], i)
    /\ EncodeMessages(messages) = round[n].bytes

\* What the lengths of i - 1 pieces, and of one more, may be.
LEMMA OneMore == \A i, size \in Nat : i > 0 => ((i - 1) * size) + size = i * size
OBVIOUS

\* The loop has such rounds.
LEMMA Encoded ==
    ASSUME NEW size \in Nat, size >= 8, NEW messages, NEW n \in Nat, Len(messages) = n,
           \A i \in 1 .. n : Item(messages[i], size)
    PROVE  \E round : Rounds(round, messages, n, size)
<1> DEFINE base == [bytes |-> <<>>, status |-> 0, time |-> 0]
           Body(h) == [i \in 0 .. n |-> IF i = 0 THEN base ELSE EncodeNext(h[i - 1], messages[i], i)]
           round == CHOOSE h : h = Body(h)
           Inv == [i \in 0 .. n |-> {s \in States : Len(s.bytes) <= i * size}]
           F == [x \in (1 .. n) \X States |-> EncodeNext(x[2], messages[x[1]], x[1])]
<1>1. EncodeMessages(messages) = round[n].bytes
  BY DEF EncodeMessages
<1>2. base \in States /\ Len(base.bytes) <= 0 * size
  <2>1. <<>> \in Seq(Octet) /\ Len(<<>>) = 0
    BY EmptySeq
  <2> QED BY <2>1 DEF States, Statuses
<1>3. \A i \in 0 .. n : Inv[i] = {s \in States : Len(s.bytes) <= i * size}
  OBVIOUS
<1> HIDE DEF base, Inv
<1>4. ASSUME NEW i \in 1 .. n, NEW s \in Inv[i - 1] PROVE s \in States /\ EncodeNext(s, messages[i], i) \in Inv[i]
  <2> DEFINE x == messages[i]
             p == Piece(s, x, i)
             next == EncodeNext(s, x, i)
  <2>1. i - 1 \in 0 .. n /\ i \in 0 .. n /\ i \in Nat /\ i > 0
    OBVIOUS
  <2>2. s \in States /\ Len(s.bytes) <= (i - 1) * size
    BY <1>3, <2>1
  <2>3. Item(x, size)
    OBVIOUS
  <2> HIDE DEF x
  <2>4. p \in Seq(Octet) /\ Len(p) <= size /\ next \in States /\ next.bytes = s.bytes \o p
    BY <2>2, <2>3, EncodeRound
  <2> HIDE DEF p, next
  <2> DEFINE b == s.bytes
  <2>5. b \in Seq(Octet)
    BY <2>2 DEF States
  <2> HIDE DEF b
  <2>6. Len(b \o p) = Len(b) + Len(p) /\ Len(b) \in Nat /\ Len(p) \in Nat
    BY <2>4, <2>5, ConcatProperties, LenProperties
  <2> DEFINE u == (i - 1) * size
             v == i * size
  <2>7. u \in Int /\ v \in Int /\ u + size = v
    BY <2>1, OneMore
  <2> HIDE DEF u, v
  <2>8. Len(next.bytes) <= v
    <3>1. Len(b) <= u
      BY <2>2 DEF b, u
    <3>2. Len(b) + Len(p) <= v
      BY <2>4, <2>6, <2>7, <3>1
    <3> QED BY <2>4, <2>6, <3>2 DEF b
  <2> QED BY <1>3, <2>1, <2>2, <2>4, <2>8 DEF next, x, v
<1>5. \A i \in 1 .. n : \A s \in States : F[<<i, s>>] = EncodeNext(s, messages[i], i)
  OBVIOUS
<1> HIDE DEF F
<1>6. \E h : h = Body(h)
  <2>1. base \in Inv[0]
    BY <1>2, <1>3
  <2>2. \A i \in 1 .. n : \A s \in Inv[i - 1] : F[<<i, s>>] \in Inv[i]
    BY <1>4, <1>5
  <2>3. PICK g : Iterates(g, n, base, F) /\ \A i \in 0 .. n : g[i] \in Inv[i]
    BY <2>1, <2>2, Iteration
  <2>4. g = [i \in 0 .. n |-> IF i = 0 THEN base ELSE F[<<i, g[i - 1]>>]]
    BY <2>3 DEF Iterates
  <2>5. ASSUME NEW i \in 1 .. n PROVE F[<<i, g[i - 1]>>] = EncodeNext(g[i - 1], messages[i], i)
    <3>1. i - 1 \in 0 .. n
      OBVIOUS
    <3>2. g[i - 1] \in States
      BY <1>4, <2>3, <3>1
    <3> QED BY <1>5, <3>2
  <2>6. [i \in 0 .. n |-> IF i = 0 THEN base ELSE F[<<i, g[i - 1]>>]] = Body(g)
    <3>1. \A i \in 0 .. n : i # 0 => i \in 1 .. n
      OBVIOUS
    <3> QED BY <2>5, <3>1
  <2> QED BY <2>4, <2>6
<1>7. round = Body(round)
  BY <1>6
<1> HIDE DEF round
<1>8. round[0] = base /\ \A i \in 1 .. n : round[i] = EncodeNext(round[i - 1], messages[i], i)
  <2>1. \A i \in 0 .. n : round[i] = IF i = 0 THEN base ELSE EncodeNext(round[i - 1], messages[i], i)
    BY <1>7
  <2>2. 0 \in 0 .. n /\ \A i \in 1 .. n : i \in 0 .. n /\ i # 0
    OBVIOUS
  <2> QED BY <2>1, <2>2
<1>9. \A i \in 0 .. n : round[i] \in Inv[i]
  <2> DEFINE P == {i \in 0 .. n : round[i] \in Inv[i]}
  <2>1. 0 \in P
    BY <1>2, <1>3, <1>8
  <2>2. \A i \in 1 .. n : i - 1 \in P => i \in P
    BY <1>4, <1>8
  <2> HIDE DEF P
  <2>3. \A i \in 0 .. n : i \in P
    BY <2>1, <2>2, UpTo
  <2> QED BY <2>3 DEF P
<1> QED BY <1>1, <1>3, <1>8, <1>9 DEF Rounds, base

\* What is written behind the first i messages.
Rest(round, n, i) == SubSeq(round[n].bytes, Len(round[i].bytes) + 1, Len(round[n].bytes))

\* The section is what was written up to a message, and the rest; each piece is in
\* front of the rest behind it.
Splits(round, messages, n) ==
    /\ \A i \in 0 .. n : Rest(round, n, i) \in Seq(Octet)
    /\ \A i \in 1 .. n : Rest(round, n, i - 1) = Piece(round[i - 1], messages[i], i) \o Rest(round, n, i)
    /\ Rest(round, n, n) = <<>> /\ Rest(round, n, 0) = round[n].bytes

Items(messages, n, size) == \A i \in 1 .. n : Item(messages[i], size)

\* What is left behind the messages written so far is the next message and what is
\* left behind that.
LEMMA Rests ==
    ASSUME NEW size \in Nat, size >= 8, NEW messages, NEW n \in Nat, Items(messages, n, size),
           NEW round, Rounds(round, messages, n, size)
    PROVE  Splits(round, messages, n)
<1> DEFINE w == round[n].bytes
           b(i) == round[i].bytes
           p(i) == Piece(round[i - 1], messages[i], i)
           r(i) == Rest(round, n, i)
<1>1. \A i \in 0 .. n : round[i] \in States
  BY DEF Rounds
<1>2. \A i \in 0 .. n : b(i) \in Seq(Octet)
  BY <1>1 DEF States
<1>3. ASSUME NEW i \in 1 .. n PROVE p(i) \in Seq(Octet) /\ b(i) = b(i - 1) \o p(i)
  <2> DEFINE s == round[i - 1]
             x == messages[i]
  <2>1. i - 1 \in 0 .. n
    OBVIOUS
  <2>2. s \in States /\ Item(x, size)
    BY <1>1, <2>1 DEF Items
  <2>3. round[i] = EncodeNext(s, x, i)
    BY DEF Rounds
  <2> HIDE DEF s, x
  <2>4. Piece(s, x, i) \in Seq(Octet) /\ EncodeNext(s, x, i).bytes = s.bytes \o Piece(s, x, i)
    BY <2>2, EncodeRound
  <2> QED BY <2>3, <2>4 DEF s, x
<1>4. w \in Seq(Octet) /\ w = b(n)
  BY <1>2
<1> HIDE DEF w, b, p
<1>5. ASSUME NEW i \in 0 .. n PROVE \E tail \in Seq(Octet) : w = b(i) \o tail
  <2> DEFINE P == {j \in 0 .. n : \E tail \in Seq(Octet) : w = b(n - j) \o tail}
  <2>1. 0 \in P
    <3>1. n - 0 = n /\ 0 \in 0 .. n
      OBVIOUS
    <3>2. <<>> \in Seq(Octet) /\ w = w \o <<>>
      BY <1>4, EmptySeq, ConcatEmptySeq
    <3>3. \E tail \in Seq(Octet) : w = b(n - 0) \o tail
      BY <1>4, <3>1, <3>2
    <3> QED BY <3>1, <3>3
  <2>2. ASSUME NEW j \in 1 .. n, j - 1 \in P PROVE j \in P
    <3> DEFINE k == n - j
    <3>1. PICK tail \in Seq(Octet) : w = b(n - (j - 1)) \o tail
      BY <2>2
    <3>2. k \in 0 .. n /\ k + 1 \in 1 .. n /\ n - (j - 1) = k + 1 /\ (k + 1) - 1 = k
      OBVIOUS
    <3> HIDE DEF k
    <3>3. b(k) \in Seq(Octet) /\ p(k + 1) \in Seq(Octet) /\ b(k + 1) = b(k) \o p(k + 1)
      BY <1>2, <1>3, <3>2
    <3>4. (b(k) \o p(k + 1)) \o tail = b(k) \o (p(k + 1) \o tail) /\ p(k + 1) \o tail \in Seq(Octet)
      BY <3>3, ConcatAssociative, ConcatProperties, SMTT(30)
    <3>5. w = b(k) \o (p(k + 1) \o tail)
      BY <3>1, <3>2, <3>3, <3>4
    <3>6. \E z \in Seq(Octet) : w = b(k) \o z
      BY <3>4, <3>5
    <3>7. \E z \in Seq(Octet) : w = b(n - j) \o z
      BY <3>6 DEF k
    <3>8. j \in 0 .. n
      OBVIOUS
    <3> QED BY <3>7, <3>8
  <2> HIDE DEF P
  <2>3. \A j \in 0 .. n : j \in P
    BY <2>1, <2>2, UpTo
  <2>4. n - i \in 0 .. n /\ n - (n - i) = i
    OBVIOUS
  <2>5. n - i \in P
    BY <2>3, <2>4
  <2>6. \E tail \in Seq(Octet) : w = b(n - (n - i)) \o tail
    BY <2>5 DEF P
  <2> QED BY <2>4, <2>6
<1>6. ASSUME NEW i \in 0 .. n, NEW tail \in Seq(Octet), w = b(i) \o tail PROVE r(i) = tail
  <2>1. r(i) = SubSeq(b(i) \o tail, Len(b(i)) + 1, Len(b(i) \o tail))
    BY <1>6 DEF Rest, w, b
  <2>2. b(i) \in Seq(Octet)
    BY <1>2
  <2> DEFINE a == b(i)
  <2> HIDE DEF a
  <2>3. SubSeq(a \o tail, Len(a) + 1, Len(a \o tail)) = tail
    BY <2>2, BehindFirst DEF a
  <2> QED BY <2>1, <2>3 DEF a
<1> HIDE DEF r
<1>7. ASSUME NEW i \in 0 .. n PROVE r(i) \in Seq(Octet) /\ w = b(i) \o r(i)
  BY <1>5, <1>6
<1>8. ASSUME NEW i \in 1 .. n PROVE r(i - 1) = p(i) \o r(i)
  <2>1. i - 1 \in 0 .. n /\ i \in 0 .. n
    OBVIOUS
  <2>2. r(i) \in Seq(Octet) /\ w = b(i) \o r(i) /\ b(i - 1) \in Seq(Octet) /\ p(i) \in Seq(Octet)
    BY <1>2, <1>3, <1>7, <2>1
  <2>3. w = (b(i - 1) \o p(i)) \o r(i)
    BY <1>3, <2>2
  <2>4. (b(i - 1) \o p(i)) \o r(i) = b(i - 1) \o (p(i) \o r(i)) /\ p(i) \o r(i) \in Seq(Octet)
    <3> DEFINE u == b(i - 1)
               v == p(i)
               z == r(i)
    <3>1. u \in Seq(Octet) /\ v \in Seq(Octet) /\ z \in Seq(Octet)
      BY <2>2
    <3> HIDE DEF u, v, z
    <3>2. (u \o v) \o z = u \o (v \o z)
      BY ONLY <3>1, ConcatAssociative
    <3>3. v \o z \in Seq(Octet)
      BY <3>1, ConcatProperties
    <3> QED BY <3>2, <3>3 DEF u, v, z
  <2>5. w = b(i - 1) \o (p(i) \o r(i))
    BY <2>3, <2>4
  <2> QED BY <1>6, <2>1, <2>4, <2>5
<1>9. r(n) = <<>>
  <2>1. n \in 0 .. n /\ <<>> \in Seq(Octet) /\ w = w \o <<>>
    BY <1>4, EmptySeq, ConcatEmptySeq
  <2> QED BY <1>4, <1>6, <2>1
<1>10. r(0) = w
  <2>1. 0 \in 0 .. n
    OBVIOUS
  <2>2. b(0) = <<>>
    BY DEF Rounds, b
  <2>3. w = <<>> \o w
    BY <1>4, ConcatEmptySeq
  <2> QED BY <1>4, <1>6, <2>1, <2>2, <2>3
<1> QED BY <1>7, <1>8, <1>9, <1>10 DEF r, p, w, Splits
-----------------------------------------------------------------------------
(* Reading it. *)

Messages == [format : Formats, bytes : [1 .. 4 -> Octet], data : Seq(Octet)]

\* What a receiver gets of a message with this behind it.
Got(m, tail) ==
    IF m.format = "system_exclusive"
    THEN [format |-> "system_exclusive", bytes |-> <<240, 0, m.bytes[3], 1>>, data |-> m.data \o tail]
    ELSE Carried(m)

\* It is a message with the same first byte.
LEMMA GotType ==
    ASSUME NEW m, Valid(m), NEW tail \in Seq(Octet)
    PROVE  Got(m, tail) \in Messages /\ Got(m, tail).bytes[1] = m.bytes[1]
<1> DEFINE b == m.bytes
           f == m.format
<1>1. f \in Formats /\ b \in [1 .. 4 -> Octet] /\ b[1] \in Tests[f] /\ (f = "system_exclusive" => m.data \in Seq(Octet))
  BY DEF Valid
<1>2. Got(m, tail) = IF f = "system_exclusive"
                     THEN [format |-> "system_exclusive", bytes |-> <<240, 0, b[3], 1>>, data |-> m.data \o tail]
                     ELSE [format |-> f, bytes |-> [i \in 1 .. 4 |-> IF i <= Size(f) THEN b[i] ELSE 0], data |-> <<>>]
  BY DEF Got, Carried
<1> HIDE DEF b, f
<1>3. 0 \in Octet /\ 1 \in Octet /\ 240 \in Octet
  BY OctetRange
<1>4. CASE f = "system_exclusive"
  <2>1. b[1] = 240
    BY <1>1, <1>4 DEF Tests
  <2>2. <<240, 0, b[3], 1>> \in [1 .. 4 -> Octet]
    BY <1>1, <1>3
  <2> DEFINE d == m.data
  <2>3. d \in Seq(Octet)
    BY <1>1, <1>4
  <2> HIDE DEF d
  <2>4. d \o tail \in Seq(Octet)
    BY <2>3, ConcatProperties
  <2> QED BY <1>1, <1>2, <1>4, <2>1, <2>2, <2>4 DEF Messages, b, d
<1>5. CASE f # "system_exclusive"
  <2> DEFINE c == [i \in 1 .. 4 |-> IF i <= Size(f) THEN b[i] ELSE 0]
  <2>1. c \in [1 .. 4 -> Octet]
    BY <1>1, <1>3
  <2>2. c[1] = b[1]
    <3>1. Size(f) \in Int /\ 1 <= Size(f)
      BY <1>1, FormatSize
    <3> QED BY <3>1
  <2>3. <<>> \in Seq(Octet)
    BY EmptySeq
  <2> HIDE DEF c
  <2>4. Got(m, tail) = [format |-> f, bytes |-> c, data |-> <<>>]
    BY <1>2, <1>5 DEF c
  <2> QED BY <1>1, <2>1, <2>2, <2>3, <2>4 DEF Messages, b
<1> QED BY <1>4, <1>5

\* A message is read as what it is, and if it is system exclusive with all that follows.
LEMMA ReadMessage ==
    ASSUME NEW m, Valid(m), NEW s \in Statuses, NEW tail \in Seq(Octet)
    PROVE  LET p == MIDIMessageEncodeRunningStatus(m, s)
           IN  MIDIMessageDecodeRunningStatus(p \o tail, s) =
                  [read |-> IF m.format = "system_exclusive" THEN Len(p \o tail) ELSE Len(p),
                   message |-> Got(m, tail)]
<1>1. CASE m.format = "system_exclusive"
  BY <1>1, DecodeExclusive DEF Got
<1>2. CASE m.format # "system_exclusive"
  BY <1>2, DecodePlain DEF Got
<1> QED BY <1>1, <1>2

\* The time of a message, as it is read.
ReadTime(t, s, x, i) == t + (IF i = 1 THEN 0 ELSE Delta(x.time, s.time) % VarLens)

\* The state of the decoder after a message.
Read(acc, s, x, i, tail) ==
    [rest   |-> IF x.message.format = "system_exclusive" THEN <<>> ELSE tail,
     status |-> RunningStatusAfter(x.message.bytes[1], s.status),
     time   |-> ReadTime(acc.time, s, x, i),
     out    |-> Append(acc.out, [message |-> Got(x.message, tail), time |-> ReadTime(acc.time, s, x, i)])]

\* The decoder in front of the piece that the encoder wrote in state s.
Facing(acc, s, x, i, tail) ==
    acc.rest = Piece(s, x, i) \o tail /\ acc.status = s.status /\ (acc.out = <<>> <=> i = 1)

\* A round reads the piece that is in front, which the encoder wrote in state s.
LEMMA DecodeRound ==
    ASSUME NEW size \in Nat, size >= 8, NEW s \in States, NEW x, Item(x, size), NEW i, NEW tail \in Seq(Octet),
           NEW acc, Facing(acc, s, x, i, tail)
    PROVE  DecodeNext(acc, 0) = Read(acc, s, x, i, tail)
<1> USE DEF Facing
<1> DEFINE m == x.message
           st == s.status
           d == IF i = 1 THEN <<>> ELSE MIDIUtilWriteVarLen(Delta(x.time, s.time))
           e == MIDIMessageEncodeRunningStatus(m, st)
           delta == IF acc.out # <<>> \/ 0 = 1 THEN MIDIUtilReadVarLen(acc.rest) ELSE [read |-> 0, value |-> 0]
           body == SubSeq(acc.rest, delta.read + 1, Len(acc.rest))
           next == MIDIMessageDecodeRunningStatus(body, acc.status)
           v == IF i = 1 THEN 0 ELSE Delta(x.time, s.time) % VarLens
           all == e \o tail
<1>1. Valid(m) /\ x.time \in Int /\ s.time \in Int /\ st \in Statuses
  BY DEF Item, States
<1>2. e \in Seq(Octet) /\ Len(e) >= 1
  <2> HIDE DEF st
  <2>1. LET z == MIDIMessageEncodeRunningStatus(x.message, st)
        IN  z \in Seq(Octet) /\ Len(z) >= 1 /\ Len(z) + 4 <= size
    BY <1>1, EncodedSize
  <2> QED BY <2>1
<1>3. acc.rest = (d \o e) \o tail
  BY DEF Piece
<1>4. DecodeNext(acc, 0) =
         [rest |-> SubSeq(body, next.read + 1, Len(body)), status |-> RunningStatusAfter(next.message.bytes[1], acc.status),
          time |-> acc.time + delta.value,
          out |-> Append(acc.out, [message |-> next.message, time |-> acc.time + delta.value])]
  BY DEF DecodeNext
<1> HIDE DEF e, next, body, delta
<1>5. d \in Seq(Octet) /\ \A z \in Seq(Octet) : i # 1 => MIDIUtilReadVarLen(d \o z) = [read |-> Len(d), value |-> v]
  <2>1. CASE i = 1
    BY <2>1, EmptySeq
  <2>2. CASE i # 1
    <3> DEFINE g == Delta(x.time, s.time)
    <3>1. g \in Nat
      <4> DEFINE t == x.time
                 u == s.time
      <4>1. t \in Int /\ u \in Int
        BY <1>1
      <4> HIDE DEF t, u
      <4>2. Delta(t, u) \in Nat
        BY <4>1, DeltaBytes
      <4> QED BY <4>2 DEF t, u
    <3> HIDE DEF g
    <3>2. ASSUME NEW z \in Seq(Octet)
          PROVE  LET w == MIDIUtilWriteVarLen(g)
                 IN  /\ w \in Seq(Octet)
                     /\ MIDIUtilReadVarLen(w \o z) = [read |-> Len(w), value |-> g % VarLens]
      BY <3>1, VarLenKept
    <3>3. d = MIDIUtilWriteVarLen(g) /\ v = g % VarLens
      BY <2>2 DEF g
    <3>4. tail \in Seq(Octet)
      OBVIOUS
    <3> HIDE DEF d, v
    <3> QED BY <3>2, <3>3, <3>4
  <2> QED BY <2>1, <2>2
<1>6. i = 1 => d = <<>> /\ v = 0
  OBVIOUS
<1> HIDE DEF d, v
<1>7. all \in Seq(Octet) /\ acc.rest = d \o all
  <2>1. (d \o e) \o tail = d \o (e \o tail)
    <3>1. d \in Seq(Octet) /\ e \in Seq(Octet) /\ tail \in Seq(Octet)
      BY <1>2, <1>5
    <3> QED BY ONLY <3>1, ConcatAssociative
  <2>2. e \o tail \in Seq(Octet)
    BY <1>2, ConcatProperties
  <2> QED BY <1>3, <2>1, <2>2
<1>8. delta.read = Len(d) /\ delta.value = v
  <2>1. CASE i = 1
    <3>1. delta = [read |-> 0, value |-> 0]
      BY <2>1 DEF delta
    <3>2. Len(d) = 0 /\ v = 0
      BY <1>6, <2>1, EmptySeq
    <3> QED BY <3>1, <3>2
  <2>2. CASE i # 1
    <3>1. delta = MIDIUtilReadVarLen(acc.rest)
      BY <2>2 DEF delta
    <3>2. MIDIUtilReadVarLen(d \o all) = [read |-> Len(d), value |-> v]
      BY <1>5, <1>7, <2>2
    <3> QED BY <1>7, <3>1, <3>2
  <2> QED BY <2>1, <2>2
<1> HIDE DEF all
<1>9. body = all
  <2>1. body = SubSeq(d \o all, Len(d) + 1, Len(d \o all))
    BY <1>7, <1>8 DEF body
  <2>2. SubSeq(d \o all, Len(d) + 1, Len(d \o all)) = all
    BY <1>5, <1>7, BehindFirst
  <2> QED BY <2>1, <2>2
<1>10. next = [read |-> IF m.format = "system_exclusive" THEN Len(all) ELSE Len(e), message |-> Got(m, tail)]
  <2> HIDE DEF st
  <2>1. MIDIMessageDecodeRunningStatus(e \o tail, st) =
           [read |-> IF m.format = "system_exclusive" THEN Len(e \o tail) ELSE Len(e), message |-> Got(m, tail)]
    BY <1>1, ReadMessage DEF e
  <2>2. acc.status = st
    BY DEF st
  <2> QED BY <1>9, <2>1, <2>2 DEF next, all
<1>11. SubSeq(body, next.read + 1, Len(body)) = IF m.format = "system_exclusive" THEN <<>> ELSE tail
  <2>1. CASE m.format = "system_exclusive"
    <3> DEFINE j == Len(all) + 1
               k == Len(all)
    <3>1. j \in Int /\ k \in Int /\ k < j
      BY <1>7, LenProperties
    <3>2. next.read + 1 = j /\ Len(body) = k
      BY <1>9, <1>10, <2>1
    <3> HIDE DEF j, k
    <3>3. SubSeq(body, j, k) = <<>>
      BY <3>1, SubSeqEmpty
    <3> QED BY <2>1, <3>2, <3>3
  <2>2. CASE m.format # "system_exclusive"
    <3>1. SubSeq(body, next.read + 1, Len(body)) = SubSeq(e \o tail, Len(e) + 1, Len(e \o tail))
      BY <1>9, <1>10, <2>2 DEF all
    <3>2. SubSeq(e \o tail, Len(e) + 1, Len(e \o tail)) = tail
      BY <1>2, BehindFirst
    <3> QED BY <2>2, <3>1, <3>2
  <2> QED BY <2>1, <2>2
<1>12. next.message = Got(m, tail) /\ next.message.bytes[1] = m.bytes[1]
  <2>1. Got(m, tail).bytes[1] = m.bytes[1]
    BY <1>1, GotType
  <2> QED BY <1>10, <2>1
<1>13. acc.time + delta.value = ReadTime(acc.time, s, x, i)
  BY <1>8 DEF ReadTime, v
<1> QED BY <1>4, <1>11, <1>12, <1>13 DEF Read

Outs == [message : Messages, time : Int]
Accs == [rest : Seq(Octet), status : Statuses, time : Int, out : Seq(Outs)]

\* The times of the first messages go up, by less than 2^28 each.
Near(messages, i) ==
    \A j \in 1 .. i : j > 1 => /\ messages[j - 1].time <= messages[j].time
                               /\ messages[j].time - messages[j - 1].time < VarLens

IsExclusive(x) == x.message.format = "system_exclusive"

\* The decoder after round i, with a first time that is off by some ticks: it has read some messages, a system exclusive one at
\* most as the last one, and stops early only when nothing is left.
Reader(acc, i, round, messages, n, off) ==
    LET k == Len(acc.out)
    IN  /\ acc \in Accs /\ k <= n /\ k <= i
        /\ acc.status = round[k].status
        /\ acc.rest = IF k >= 1 /\ IsExclusive(messages[k]) THEN <<>> ELSE Rest(round, n, k)
        /\ Near(messages, k) => acc.time = off + (IF k = 0 THEN messages[1].time ELSE messages[k].time)
        /\ \A j \in 1 .. k :
              /\ acc.out[j].message = Got(messages[j].message, Rest(round, n, j))
              /\ Near(messages, j) => acc.out[j].time = off + messages[j].time
        /\ \A j \in 1 .. k : j < k => ~IsExclusive(messages[j])
        /\ k < i => acc.rest = <<>>

\* A round that finds something left reads one message more.
LEMMA ReaderNext ==
    ASSUME NEW size \in Nat, size >= 8, NEW messages, NEW n \in Nat, Items(messages, n, size),
           NEW round, Rounds(round, messages, n, size), NEW i \in Nat, i >= 1,
           NEW off \in Int, NEW acc, Reader(acc, i - 1, round, messages, n, off), acc.rest # <<>>
    PROVE  Reader(DecodeNext(acc, 0), i, round, messages, n, off)
<1> DEFINE k == Len(acc.out)
           s == round[k]
           x == messages[i]
           tail == Rest(round, n, i)
           t == ReadTime(acc.time, s, x, i)
           o == [message |-> Got(x.message, tail), time |-> t]
           next == Read(acc, s, x, i, tail)
<1>1. /\ acc \in Accs /\ k <= n /\ k <= i - 1
      /\ acc.status = s.status
      /\ acc.rest = IF k >= 1 /\ IsExclusive(messages[k]) THEN <<>> ELSE Rest(round, n, k)
      /\ Near(messages, k) => acc.time = off + (IF k = 0 THEN messages[1].time ELSE messages[k].time)
      /\ \A j \in 1 .. k :
            /\ acc.out[j].message = Got(messages[j].message, Rest(round, n, j))
            /\ Near(messages, j) => acc.out[j].time = off + messages[j].time
      /\ \A j \in 1 .. k : j < k => ~IsExclusive(messages[j])
      /\ k < i - 1 => acc.rest = <<>>
  BY DEF Reader
<1>2. acc.out \in Seq(Outs) /\ k \in Nat /\ acc.time \in Int
  BY <1>1, LenProperties DEF Accs
<1> HIDE DEF k
<1>3. k = i - 1 /\ acc.rest = Rest(round, n, k) /\ ~(k >= 1 /\ IsExclusive(messages[k]))
  BY <1>1, <1>2
<1>4. /\ \A j \in 0 .. n : Rest(round, n, j) \in Seq(Octet)
      /\ \A j \in 1 .. n : Rest(round, n, j - 1) = Piece(round[j - 1], messages[j], j) \o Rest(round, n, j)
      /\ Rest(round, n, n) = <<>> /\ Rest(round, n, 0) = round[n].bytes
  <2>1. Splits(round, messages, n)
    BY Rests
  <2> QED BY <2>1 DEF Splits
<1>5. k < n
  BY <1>1, <1>2, <1>3, <1>4
<1>6. i \in 1 .. n /\ i \in 0 .. n /\ i - 1 = k /\ i = k + 1 /\ k \in 0 .. n
  BY <1>1, <1>2, <1>3, <1>5
<1>7. s \in States /\ Item(x, size) /\ round[i] = EncodeNext(s, x, i) /\ tail \in Seq(Octet)
  BY <1>4, <1>6 DEF Rounds, Items
<1>8. acc.rest = Piece(s, x, i) \o tail
  BY <1>3, <1>4, <1>6
<1>9. acc.out = <<>> <=> i = 1
  <2>1. acc.out = <<>> <=> k = 0
    <3>1. acc.out # <<>> => k \in Nat \ {0}
      BY <1>2, EmptySeq DEF k
    <3>2. acc.out = <<>> => k = 0
      BY EmptySeq DEF k
    <3> QED BY <3>1, <3>2
  <2> QED BY <1>2, <1>6, <2>1
<1>10. DecodeNext(acc, 0) = next
  <2> HIDE DEF s, x, tail
  <2>1. size \in Nat /\ size >= 8 /\ s \in States /\ Item(x, size) /\ tail \in Seq(Octet)
    BY <1>7
  <2>2. Facing(acc, s, x, i, tail)
    BY <1>1, <1>8, <1>9 DEF Facing
  <2>3. DecodeNext(acc, 0) = Read(acc, s, x, i, tail)
    BY ONLY <2>1, <2>2, DecodeRound
  <2> QED BY <2>3
<1>11. /\ next.rest = IF IsExclusive(x) THEN <<>> ELSE tail
       /\ next.status = RunningStatusAfter(x.message.bytes[1], s.status)
       /\ next.time = t
       /\ next.out = Append(acc.out, o)
       /\ next = [rest |-> next.rest, status |-> next.status, time |-> next.time, out |-> next.out]
  BY DEF Read, IsExclusive
<1>12. round[i].status = RunningStatusAfter(x.message.bytes[1], s.status) /\ round[i] \in States
  <2> HIDE DEF s, x
  <2>1. LET y == EncodeNext(s, x, i)
        IN  /\ y \in States
            /\ y.status = RunningStatusAfter(x.message.bytes[1], s.status) /\ y.time = x.time
    BY <1>7, EncodeRound
  <2> QED BY <1>7, <2>1
<1>13. k >= 1 => s.time = messages[k].time
  <2>1. ASSUME k >= 1 PROVE s.time = messages[k].time
    <3> DEFINE u == round[k - 1]
               y == messages[k]
    <3>1. k \in 1 .. n /\ k - 1 \in 0 .. n
      BY <1>2, <1>6, <2>1
    <3>2. u \in States /\ Item(y, size) /\ s = EncodeNext(u, y, k)
      BY <3>1 DEF Rounds, Items
    <3>3. EncodeNext(u, y, k).time = y.time
      BY DEF EncodeNext
    <3> QED BY <3>2, <3>3
  <2> QED BY <2>1
<1>14. t \in Int /\ x.time \in Int /\ Valid(x.message)
  <2>1. x.time \in Int /\ s.time \in Int /\ Valid(x.message)
    BY <1>7 DEF Item, States
  <2> DEFINE a == x.time
             b == s.time
             c == acc.time
  <2>2. a \in Int /\ b \in Int /\ c \in Int
    BY <1>2, <2>1
  <2>3. t = c + (IF i = 1 THEN 0 ELSE Delta(a, b) % VarLens)
    BY DEF ReadTime
  <2> HIDE DEF a, b, c, t
  <2>4. t \in Int
    <3> DEFINE d == Delta(a, b)
    <3>1. d \in Nat
      BY <2>2, DeltaBytes
    <3> HIDE DEF d
    <3>2. d % VarLens \in Int
      BY <3>1 DEF VarLens
    <3> QED BY <2>2, <2>3, <3>2 DEF d
  <2> QED BY <2>1, <2>4
<1>15. Near(messages, i) => Near(messages, k)
  BY <1>2, <1>6 DEF Near
<1>16. Near(messages, i) => t = off + x.time
  <2> SUFFICES ASSUME Near(messages, i) PROVE t = off + x.time
    OBVIOUS
  <2> DEFINE a == x.time
             b == s.time
             c == acc.time
  <2>1. t = c + (IF i = 1 THEN 0 ELSE Delta(a, b) % VarLens)
    BY DEF ReadTime
  <2>2. c = off + (IF k = 0 THEN messages[1].time ELSE messages[k].time)
    BY <1>1, <1>15
  <2>3. CASE i = 1
    <3>1. k = 0 /\ c = off + a
      <4>1. k = 0
        BY <1>2, <1>6, <2>3
      <4>2. c = off + messages[1].time
        BY <2>2, <4>1
      <4>3. a = messages[1].time
        BY <2>3
      <4> QED BY <4>1, <4>2, <4>3
    <3> HIDE DEF a, c, t
    <3>2. c \in Int
      BY <1>2 DEF c
    <3> QED BY <2>1, <2>3, <3>1, <3>2 DEF a
  <2>4. CASE i # 1
    <3>1. k >= 1 /\ k # 0
      BY <1>2, <1>6, <2>4
    <3>2. c = off + b
      BY <1>13, <2>2, <3>1
    <3>3. messages[i - 1].time <= messages[i].time /\ messages[i].time - messages[i - 1].time < VarLens
      <4>1. i \in 1 .. i /\ i > 1
        BY <2>4
      <4> QED BY <4>1 DEF Near
    <3>4. messages[i - 1].time = b
      BY <1>6, <1>13, <3>1
    <3>5. b <= a /\ a - b < VarLens
      BY <3>3, <3>4
    <3>6. a \in Int /\ b \in Int
      BY <1>7, <1>14 DEF Item, States
    <3> HIDE DEF a, b, c, t
    <3>7. Delta(a, b) = a - b
      BY <3>5, <3>6 DEF Delta
    <3>8. (a - b) % VarLens = a - b
      BY <3>5, <3>6 DEF VarLens
    <3>9. t = off + a
      BY <2>1, <2>4, <3>2, <3>6, <3>7, <3>8
    <3> QED BY <3>9 DEF a
  <2> QED BY <2>3, <2>4
<1>17. o \in Outs
  <2> DEFINE m == x.message
  <2>1. Valid(m)
    BY <1>14
  <2> HIDE DEF m, tail
  <2>2. Got(m, tail) \in Messages
    BY <1>7, <2>1, GotType
  <2> QED BY <1>14, <2>2 DEF Outs, m
<1> HIDE DEF t, s, x, tail, o, next
<1> DEFINE out == Append(acc.out, o)
<1>18. out \in Seq(Outs) /\ Len(out) = i /\ out[i] = o /\ \A j \in 1 .. k : out[j] = acc.out[j]
  <2>1. /\ Append(acc.out, o) \in Seq(Outs) /\ Len(Append(acc.out, o)) = Len(acc.out) + 1
        /\ \A j \in 1 .. Len(acc.out) : Append(acc.out, o)[j] = acc.out[j]
        /\ Append(acc.out, o)[Len(acc.out) + 1] = o
    BY <1>2, <1>17, AppendProperties
  <2> QED BY <1>6, <2>1 DEF k
<1> HIDE DEF out
<1>19. next.out = out /\ next \in Accs
  <2>1. next.out = out
    BY <1>11 DEF out
  <2>2. next.rest \in Seq(Octet)
    BY <1>7, <1>11, EmptySeq
  <2>3. next.status \in Statuses
    BY <1>11, <1>12 DEF States
  <2> QED BY <1>11, <1>14, <1>18, <2>1, <2>2, <2>3 DEF Accs
<1>20. Reader(next, i, round, messages, n, off)
  <2>1. next.status = round[i].status
    BY <1>11, <1>12
  <2>2. next.rest = IF i >= 1 /\ IsExclusive(messages[i]) THEN <<>> ELSE Rest(round, n, i)
    BY <1>11 DEF x, tail
  <2>3. Near(messages, i) => next.time = off + (IF i = 0 THEN messages[1].time ELSE messages[i].time)
    BY <1>11, <1>16 DEF x
  <2>4. ASSUME NEW j \in 1 .. i
        PROVE  /\ out[j].message = Got(messages[j].message, Rest(round, n, j))
               /\ Near(messages, j) => out[j].time = off + messages[j].time
               /\ j < i => ~IsExclusive(messages[j])
    <3>1. CASE j = i
      BY <1>16, <1>18, <3>1 DEF o, x, tail
    <3>2. CASE j # i
      <4>1. j \in 1 .. k /\ (j < k \/ j = k)
        BY <1>6, <3>2
      <4>2. ~IsExclusive(messages[j])
        BY <1>1, <1>3, <4>1
      <4> QED BY <1>1, <1>18, <4>1, <4>2
    <3> QED BY <3>1, <3>2
  <2>5. Len(next.out) = i /\ i <= n
    BY <1>6, <1>18, <1>19
  <2> QED BY <1>19, <2>1, <2>2, <2>3, <2>4, <2>5 DEF Reader
<1> QED BY <1>10, <1>20

\* A round of the decoder: it stops when nothing is left, or all was read.
Decoding(acc, w) == IF acc.rest = <<>> \/ Len(w) - Len(acc.rest) >= Len(w) THEN acc ELSE DecodeNext(acc, 0)

\* Either way, the decoder has read as many messages as it could.
LEMMA ReaderRound ==
    ASSUME NEW size \in Nat, size >= 8, NEW messages, NEW n \in Nat, Items(messages, n, size),
           NEW round, Rounds(round, messages, n, size), NEW i \in Nat, i >= 1,
           NEW off \in Int, NEW acc, Reader(acc, i - 1, round, messages, n, off), NEW w \in Seq(Octet)
    PROVE  acc \in Accs /\ Reader(Decoding(acc, w), i, round, messages, n, off)
<1> DEFINE k == Len(acc.out)
<1>1. acc \in Accs
  BY DEF Reader
<1>2. acc.rest \in Seq(Octet) /\ acc.out \in Seq(Outs) /\ k \in Nat
  BY <1>1, LenProperties DEF Accs
<1>3. Len(acc.rest) \in Nat /\ Len(w) \in Nat /\ (Len(acc.rest) = 0 <=> acc.rest = <<>>)
  BY <1>2, EmptySeq, LenProperties
<1>4. CASE acc.rest = <<>>
  <2>1. Decoding(acc, w) = acc
    BY <1>4 DEF Decoding
  <2>2. k <= i - 1 /\ k <= i
    BY <1>2 DEF Reader
  <2>3. Reader(acc, i, round, messages, n, off)
    BY <1>4, <2>2 DEF Reader
  <2> QED BY <1>1, <2>1, <2>3
<1>5. CASE acc.rest # <<>>
  <2>1. ~(Len(w) - Len(acc.rest) >= Len(w))
    BY <1>3, <1>5
  <2>2. Decoding(acc, w) = DecodeNext(acc, 0)
    BY <1>5, <2>1 DEF Decoding
  <2>3. Reader(DecodeNext(acc, 0), i, round, messages, n, off)
    BY <1>5, ReaderNext
  <2> QED BY <1>1, <2>2, <2>3
<1> QED BY <1>4, <1>5

\* A packet that holds the section w, read as of this time.
Holds(packet, w, time) ==
    LET header == DecodeHeader(packet.payload)
    IN  /\ header.zero = 0 /\ header.len = Len(w) /\ ReadTimestamp(packet.timestamp) = time
        /\ SubSeq(packet.payload, header.read + 1, Len(packet.payload)) = w

\* The decoder has rounds, and the last one has read as many messages as it could.
LEMMA Decoded ==
    ASSUME Batch \in Nat, NEW size \in Nat, size >= 8, NEW messages, NEW n \in Nat, n >= 1, Items(messages, n, size),
           NEW round, Rounds(round, messages, n, size), NEW off \in Int, NEW packet, Holds(packet, round[n].bytes, off + messages[1].time)
    PROVE  \E acc : Reader(acc, Batch, round, messages, n, off) /\ RTPMIDISessionReceive(packet) = acc.out
<1> DEFINE w == round[n].bytes
           base == [rest |-> w, status |-> 0, time |-> off + messages[1].time, out |-> <<>>]
           Body(h) == [i \in 0 .. Batch |-> IF i = 0 THEN base ELSE Decoding(h[i - 1], w)]
           step == CHOOSE h : h = Body(h)
           Inv == [i \in 0 .. Batch |-> {acc \in Accs : Reader(acc, i, round, messages, n, off)}]
           F == [x \in (1 .. Batch) \X Accs |-> Decoding(x[2], w)]
<1>1. RTPMIDISessionReceive(packet) = step[Batch].out
  <2> DEFINE Reading(all, len, zero, time) ==
                LET h[i \in 0 .. Batch] ==
                        IF i = 0 THEN [rest |-> all, status |-> 0, time |-> time, out |-> <<>>]
                        ELSE IF h[i - 1].rest = <<>> \/ Len(all) - Len(h[i - 1].rest) >= len THEN h[i - 1]
                        ELSE DecodeNext(h[i - 1], zero)
                IN  h[Batch].out
             header == DecodeHeader(packet.payload)
             section == SubSeq(packet.payload, header.read + 1, Len(packet.payload))
  <2>1. RTPMIDISessionReceive(packet) = Reading(section, header.len, header.zero, ReadTimestamp(packet.timestamp))
    BY DEF RTPMIDISessionReceive
  <2>2. Reading(w, Len(w), 0, off + messages[1].time) = step[Batch].out
    BY DEF Decoding
  <2>3. section = w /\ header.len = Len(w) /\ header.zero = 0 /\ ReadTimestamp(packet.timestamp) = off + messages[1].time
    BY DEF Holds
  <2> HIDE DEF Reading, header, section, step, w
  <2> QED BY <2>1, <2>2, <2>3
<1>2. Splits(round, messages, n)
  BY Rests
<1>3. w \in Seq(Octet)
  <2>1. 0 \in 0 .. n
    OBVIOUS
  <2> QED BY <1>2, <2>1 DEF Splits
<1>4. base \in Accs /\ Reader(base, 0, round, messages, n, off)
  <2>1. <<>> \in Seq(Outs) /\ Len(<<>>) = 0
    BY EmptySeq
  <2>2. messages[1].time \in Int
    <3>1. 1 \in 1 .. n
      OBVIOUS
    <3> QED BY <3>1 DEF Items, Item
  <2>3. base \in Accs
    BY <1>3, <2>1, <2>2 DEF Accs, Statuses
  <2>4. /\ base.rest = Rest(round, n, 0) /\ base.status = round[0].status
        /\ base.time = off + messages[1].time /\ base.out = <<>>
    BY <1>2 DEF Splits, Rounds
  <2> HIDE DEF base
  <2> QED BY <2>1, <2>3, <2>4 DEF Reader
<1>5. \A i \in 0 .. Batch : Inv[i] = {acc \in Accs : Reader(acc, i, round, messages, n, off)}
  OBVIOUS
<1> HIDE DEF base, Inv, w
<1>6. ASSUME NEW i \in 1 .. Batch, NEW s \in Inv[i - 1] PROVE s \in Accs /\ Decoding(s, w) \in Inv[i]
  <2>1. i - 1 \in 0 .. Batch /\ i \in 0 .. Batch /\ i \in Nat /\ i >= 1
    OBVIOUS
  <2>2. s \in Accs /\ Reader(s, i - 1, round, messages, n, off)
    BY <1>5, <2>1
  <2>3. Reader(Decoding(s, w), i, round, messages, n, off)
    BY <1>3, <2>1, <2>2, ReaderRound
  <2>4. Decoding(s, w) \in Accs
    BY <2>3 DEF Reader
  <2> QED BY <1>5, <2>1, <2>2, <2>3, <2>4
<1>7. \A i \in 1 .. Batch : \A s \in Accs : F[<<i, s>>] = Decoding(s, w)
  OBVIOUS
<1> HIDE DEF F
<1>8. \E h : h = Body(h)
  <2>1. base \in Inv[0]
    BY <1>4, <1>5
  <2>2. \A i \in 1 .. Batch : \A s \in Inv[i - 1] : F[<<i, s>>] \in Inv[i]
    BY <1>6, <1>7
  <2>3. PICK g : Iterates(g, Batch, base, F) /\ \A i \in 0 .. Batch : g[i] \in Inv[i]
    BY <2>1, <2>2, Iteration
  <2>4. g = [i \in 0 .. Batch |-> IF i = 0 THEN base ELSE F[<<i, g[i - 1]>>]]
    BY <2>3 DEF Iterates
  <2>5. ASSUME NEW i \in 1 .. Batch PROVE F[<<i, g[i - 1]>>] = Decoding(g[i - 1], w)
    <3>1. i - 1 \in 0 .. Batch
      OBVIOUS
    <3>2. g[i - 1] \in Accs
      BY <1>6, <2>3, <3>1
    <3> QED BY <1>7, <3>2
  <2>6. [i \in 0 .. Batch |-> IF i = 0 THEN base ELSE F[<<i, g[i - 1]>>]] = Body(g)
    <3>1. \A i \in 0 .. Batch : i # 0 => i \in 1 .. Batch
      OBVIOUS
    <3> QED BY <2>5, <3>1
  <2> QED BY <2>4, <2>6
<1>9. step = Body(step)
  BY <1>8
<1> HIDE DEF step
<1>10. step[0] = base /\ \A i \in 1 .. Batch : step[i] = Decoding(step[i - 1], w)
  <2>1. \A i \in 0 .. Batch : step[i] = IF i = 0 THEN base ELSE Decoding(step[i - 1], w)
    BY <1>9
  <2>2. 0 \in 0 .. Batch /\ \A i \in 1 .. Batch : i \in 0 .. Batch /\ i # 0
    OBVIOUS
  <2> QED BY <2>1, <2>2
<1>11. \A i \in 0 .. Batch : step[i] \in Inv[i]
  <2> DEFINE P == {i \in 0 .. Batch : step[i] \in Inv[i]}
  <2>1. 0 \in P
    BY <1>4, <1>5, <1>10
  <2>2. \A i \in 1 .. Batch : i - 1 \in P => i \in P
    BY <1>6, <1>10
  <2> HIDE DEF P
  <2>3. \A i \in 0 .. Batch : i \in P
    BY <2>1, <2>2, UpTo
  <2> QED BY <2>3 DEF P
<1>12. Reader(step[Batch], Batch, round, messages, n, off)
  <2>1. Batch \in 0 .. Batch
    OBVIOUS
  <2> QED BY <1>5, <1>11, <2>1
<1> QED BY <1>1, <1>12

\* What a receiver keeps of n messages: it hears of the first ones, and each is
\* what it was, with all the times moved by off; a system exclusive one may have taken data of those
\* behind it. It hears of all but those behind a system exclusive one.
Kept(received, messages, n, off) ==
    /\ received \in Seq(Outs) /\ Len(received) <= n
    /\ \A j \in 1 .. Len(received) :
          /\ \E tail \in Seq(Octet) :
                received[j].message = Got(messages[j].message, tail) /\ (j = n => tail = <<>>)
          /\ Near(messages, j) => received[j].time = off + messages[j].time
    /\ \A j \in 1 .. n : j <= Len(received) <=> \A h \in 1 .. j - 1 : ~IsExclusive(messages[h])

\* What the decoder read in as many rounds as there are messages.
LEMMA ReaderKeeps ==
    ASSUME NEW size \in Nat, size >= 8, NEW messages, NEW n \in Nat, n >= 1, Items(messages, n, size),
           NEW round, Rounds(round, messages, n, size), NEW i \in Nat, i >= n,
           NEW off \in Int, NEW acc, Reader(acc, i, round, messages, n, off)
    PROVE  Kept(acc.out, messages, n, off)
<1> DEFINE k == Len(acc.out)
<1>1. /\ acc \in Accs /\ k <= n
      /\ acc.rest = IF k >= 1 /\ IsExclusive(messages[k]) THEN <<>> ELSE Rest(round, n, k)
      /\ \A j \in 1 .. k :
            /\ acc.out[j].message = Got(messages[j].message, Rest(round, n, j))
            /\ Near(messages, j) => acc.out[j].time = off + messages[j].time
      /\ \A j \in 1 .. k : j < k => ~IsExclusive(messages[j])
      /\ k < i => acc.rest = <<>>
  BY DEF Reader
<1>2. acc.out \in Seq(Outs) /\ k \in Nat
  BY <1>1, LenProperties DEF Accs
<1>3. Splits(round, messages, n)
  BY Rests
<1>4. ASSUME k < n PROVE k >= 1 /\ IsExclusive(messages[k])
  <2> SUFFICES ASSUME ~(k >= 1 /\ IsExclusive(messages[k])) PROVE FALSE
    OBVIOUS
  <2> DEFINE r == Rest(round, n, k)
             s == round[k]
             x == messages[k + 1]
             p == Piece(s, x, k + 1)
             tail == Rest(round, n, k + 1)
  <2>1. r = <<>>
    BY <1>1, <1>2, <1>4
  <2> HIDE DEF k
  <2>2. k + 1 \in 1 .. n /\ k + 1 \in 0 .. n /\ k \in 0 .. n /\ (k + 1) - 1 = k
    BY <1>2, <1>4
  <2>3. s \in States /\ Item(x, size) /\ tail \in Seq(Octet) /\ r = p \o tail
    BY <1>3, <2>2 DEF Rounds, Items, Splits
  <2> HIDE DEF s, x, r
  <2>4. p \in Seq(Octet) /\ Len(p) \in 1 .. size
    BY <2>3, EncodeRound
  <2> HIDE DEF p, tail
  <2>5. Len(p \o tail) = Len(p) + Len(tail) /\ Len(tail) \in Nat /\ Len(p) \in Int /\ Len(p) >= 1
    BY <2>3, <2>4, ConcatProperties, LenProperties
  <2>6. Len(r) = 0
    BY <2>1, EmptySeq
  <2> QED BY <2>3, <2>5, <2>6
<1>5. ASSUME NEW j \in 1 .. k
      PROVE  \E tail \in Seq(Octet) : acc.out[j].message = Got(messages[j].message, tail) /\ (j = n => tail = <<>>)
  <2> DEFINE tail == Rest(round, n, j)
  <2>1. j \in 0 .. n
    BY <1>1, <1>2
  <2>2. tail \in Seq(Octet) /\ (j = n => tail = <<>>)
    BY <1>3, <2>1 DEF Splits
  <2>3. acc.out[j].message = Got(messages[j].message, tail)
    BY <1>1
  <2> HIDE DEF tail
  <2> QED BY <2>2, <2>3
<1>6. ASSUME NEW j \in 1 .. n, \A h \in 1 .. j - 1 : ~IsExclusive(messages[h]) PROVE j <= k
  <2> SUFFICES ASSUME k < j PROVE FALSE
    BY <1>2
  <2> HIDE DEF k
  <2>1. k < n
    BY <1>2
  <2>2. k >= 1 /\ IsExclusive(messages[k])
    BY <1>4, <2>1
  <2>3. k \in 1 .. j - 1
    BY <1>2, <2>2
  <2> QED BY <1>6, <2>2, <2>3
<1>7. ASSUME NEW j \in 1 .. n, j <= k, NEW h \in 1 .. j - 1 PROVE ~IsExclusive(messages[h])
  <2> HIDE DEF k
  <2>1. h \in 1 .. k /\ h < k
    BY <1>2, <1>7
  <2> QED BY <1>1, <2>1 DEF k
<1> QED BY <1>1, <1>2, <1>5, <1>6, <1>7 DEF Kept

\* By how much the receiver's time of a packet is off.
Slip(time) == ReadTimestamp(WriteTimestamp(time)) - time

Slips(time) == Slip(time) \in Int /\ (time \in -SignBit .. SignBit - 1 => Slip(time) = 0)

\* It is not while the time has 31 bits and a sign.
LEMMA NoSlip ==
    ASSUME NEW time \in Int
    PROVE  Slip(time) \in Int /\ (time \in -SignBit .. SignBit - 1 => Slip(time) = 0)
<1> DEFINE m == 2 * SignBit
           t == time % m
<1>1. m \in Nat /\ m > 0 /\ m - SignBit = SignBit /\ SignBit \in Nat /\ SignBit > 0
  BY TimestampAssumption
<1>2. Slip(time) = (IF t < SignBit THEN t ELSE t - m) - time
  BY DEF Slip, ReadTimestamp, WriteTimestamp
<1> HIDE DEF m
<1>3. t \in 0 .. m - 1
  BY <1>1
<1>4. ASSUME time \in 0 .. SignBit - 1 PROVE t = time
  BY <1>1, <1>4
<1>5. ASSUME time \in -SignBit .. -1 PROVE t = time + m
  BY <1>1, <1>5
<1> HIDE DEF t
<1> QED BY <1>1, <1>2, <1>3, <1>4, <1>5

\* Messages in a packet come out of it as they went in: running status, the bytes
\* in their order, the deltas and the length in the header are read as they were
\* written, for as many messages as a packet may have and whatever they are
\* (rtpmidi.c:363-467, 482-621, message_format.c:50-220, util.c:24-69). Their times
\* are all off by the same number of ticks, which is none as long as the first of
\* them has 31 bits (rtp.c:720-723, 759-762).
THEOREM PacketKept ==
    ASSUME Batch \in Nat, NEW size \in Nat, size >= 8, NEW messages, NEW n \in Nat, Len(messages) = n,
           n >= 1, n <= Batch, n * size <= 4095, Items(messages, n, size)
    PROVE  /\ Kept(RTPMIDISessionReceive(RTPMIDISessionSend(messages)), messages, n, Slip(messages[1].time))
           /\ messages[1].time \in -SignBit .. SignBit - 1 => Slip(messages[1].time) = 0
<1> DEFINE packet == RTPMIDISessionSend(messages)
           off == Slip(messages[1].time)
<1>0. /\ messages[1].time \in Int /\ off \in Int
      /\ messages[1].time \in -SignBit .. SignBit - 1 => off = 0
  <2>1. 1 \in 1 .. n
    OBVIOUS
  <2>2. messages[1].time \in Int
    BY <2>1 DEF Items, Item
  <2>3. \A time \in Int : Slips(time)
    BY NoSlip DEF Slips
  <2>4. Slips(messages[1].time)
    BY ONLY <2>2, <2>3
  <2> HIDE DEF off
  <2>5. off = Slip(messages[1].time)
    BY DEF off
  <2> QED BY ONLY <2>2, <2>4, <2>5 DEF Slips
<1>1. PICK round : Rounds(round, messages, n, size)
  BY Encoded DEF Items
<1> DEFINE w == round[n].bytes
           len == Len(w)
           h == EncodeHeader(len, 0)
<1>2. w \in Seq(Octet) /\ len <= n * size /\ EncodeMessages(messages) = w
  <2>1. n \in 0 .. n
    OBVIOUS
  <2> QED BY <1>1, <2>1 DEF Rounds, States
<1>3. len \in Nat /\ len <= 4095
  <2>1. len \in Nat
    BY <1>2, LenProperties
  <2> DEFINE most == n * size
  <2>2. most \in Int /\ most <= 4095 /\ len <= most
    BY <1>2
  <2> HIDE DEF most, len
  <2> QED BY <2>1, <2>2
<1>4. packet.timestamp = WriteTimestamp(messages[1].time) /\ packet.payload = h \o w
  <2> DEFINE section == EncodeMessages(messages)
  <2>1. packet = [timestamp |-> WriteTimestamp(messages[1].time), payload |-> EncodeHeader(Len(section), 0) \o section]
    BY DEF RTPMIDISessionSend
  <2> HIDE DEF packet
  <2>2. packet.timestamp = WriteTimestamp(messages[1].time) /\ packet.payload = EncodeHeader(Len(section), 0) \o section
    BY <2>1
  <2>3. section = w
    BY <1>2
  <2> HIDE DEF section, w
  <2> QED BY <2>2, <2>3
<1> HIDE DEF packet, w, len
<1>5. /\ h \in Seq(Octet) /\ DecodeHeader(h \o w).read = Len(h)
      /\ DecodeHeader(h \o w).len = len /\ DecodeHeader(h \o w).zero = 0
  BY <1>2, <1>3, HeaderKept
<1> HIDE DEF h
<1>6. SubSeq(h \o w, Len(h) + 1, Len(h \o w)) = w
  BY <1>2, <1>5, BehindFirst
<1>7. Holds(packet, round[n].bytes, off + messages[1].time)
  <2>1. ReadTimestamp(packet.timestamp) = off + messages[1].time
    <3> DEFINE time == messages[1].time
               r == ReadTimestamp(WriteTimestamp(time))
    <3>1. r - time \in Int /\ time \in Int /\ off = r - time
      BY <1>0 DEF Slip
    <3>2. r \in Int
      BY <1>0, TimestampAssumption DEF ReadTimestamp, WriteTimestamp
    <3>3. ReadTimestamp(packet.timestamp) = r
      BY <1>4
    <3> HIDE DEF r, time
    <3> QED BY <3>1, <3>2, <3>3 DEF time
  <2> HIDE DEF off
  <2> QED BY <1>4, <1>5, <1>6, <2>1 DEF Holds, len, w
<1>8. PICK acc : Reader(acc, Batch, round, messages, n, off) /\ RTPMIDISessionReceive(packet) = acc.out
  BY <1>0, <1>1, <1>7, Decoded
<1>9. Kept(acc.out, messages, n, off)
  <2>1. Batch >= n
    OBVIOUS
  <2> QED BY <1>0, <1>1, <1>8, <2>1, ReaderKeeps
<1> QED BY <1>0, <1>8, <1>9 DEF packet
=============================================================================
