------------------------------ MODULE WireCodec ------------------------------
(***************************************************************************)
(* The wire format of the tunnel between gateway and server:               *)
(* internal/msg/msg.go (frames) and internal/msg/payload.go (payloads).    *)
(*                                                                         *)
(* A byte is a digit in base Base (256 in the code; small here, so that    *)
(* the 16-bit length of a payload can overflow in a small instance).  A    *)
(* string is a sequence of characters, a character any natural number.     *)
(* Every payload is described by its layout, the list of its fields in     *)
(* wire order; one reader and one writer of fields do for all of them what *)
(* the code spells out per type.  A loop of the code over bytes, fields or *)
(* readings is a function of how far the loop has come.  The checksum is   *)
(* idealised: it keeps its two places in the frame, and the different      *)
(* sequences of an instance never agree.                                   *)
(***************************************************************************)
EXTENDS Integers, Sequences

CONSTANTS
    Base,           \* how many values a byte has (256)
    MagicNumber     \* the first two bytes of every frame

ASSUME BaseAssumption == Base \in Nat /\ Base > 7
ASSUME MagicAssumption == MagicNumber \in 0..(Base * Base - 1)

-----------------------------------------------------------------------------
(* Numbers, strings and layouts.                                           *)

\* How many numbers fit in w bytes.
Power(w) ==
    LET power[i \in 0..w] == IF i = 0 THEN 1 ELSE Base * power[i - 1]
    IN  power[w]

\* binary.BigEndian: n in w bytes, the most significant first; what does not
\* fit is cut off, as by the conversions uint16(...), uint32(...).
BigEndian(n, w) ==
    LET rest[i \in 0..w] == IF i = 0 THEN n ELSE rest[i - 1] \div Base
    IN  [i \in 1..w |-> rest[w - i] % Base]

NumberOf(bytes) ==
    LET num[i \in 0..Len(bytes)] == IF i = 0 THEN 0 ELSE num[i - 1] * Base + bytes[i]
    IN  num[Len(bytes)]

\* A number of w bytes, a string behind its length of w bytes, and a string
\* whose length the encoder does not check.
Num(name, w) == [name |-> name, w |-> w, str |-> FALSE, checked |-> FALSE]
Str(name, w) == [name |-> name, w |-> w, str |-> TRUE, checked |-> TRUE]
Raw(name, w) == [name |-> name, w |-> w, str |-> TRUE, checked |-> FALSE]

HandshakeLayout == <<Num("FirmwareVersion", 1), Str("Sn", 1), Str("Token", 1)>>

AckLayout == <<Num("MsgID", 2), Num("Code", 1)>>

ReadingLayout ==
    <<Num("ID", 8), Str("Device", 2), Str("DeviceName", 2), Str("Point", 2),
      Str("PointName", 2), Str("DataType", 2), Str("Value", 2),
      Num("Quality", 1), Str("Unit", 2), Num("Timestamp", 8)>>

NotifyLayout ==
    <<Num("EventCode", 1), Str("DeviceHash", 1), Num("Timestamp", 4),
      Num("Severity", 1), Str("Message", 1), Raw("RawData", 2)>>

HeaderLayout ==
    <<Num("Magic", 2), Num("Version", 1), Num("Flags", 1), Num("Type", 1),
      Num("MsgID", 2), Num("PayloadLen", 2), Num("Timestamp", 4)>>

\* The bytes of a layout whose strings are empty (minReadingLen, HeaderSize).
MinLen(layout) ==
    LET sum[i \in 0..Len(layout)] == IF i = 0 THEN 0 ELSE sum[i - 1] + layout[i].w
    IN  sum[Len(layout)]

-----------------------------------------------------------------------------
(* Writing and reading the fields of a layout.                             *)

\* The encoders refuse a string whose length does not fit its prefix.
Encodable(layout, rec) ==
    \A i \in DOMAIN layout :
        layout[i].checked => Len(rec[layout[i].name]) < Power(layout[i].w)

EncodeField(f, v) ==
    IF f.str THEN BigEndian(Len(v), f.w) \o v ELSE BigEndian(v, f.w)

EncodeFields(layout, rec) ==
    LET bytes[i \in 0..Len(layout)] ==
            IF i = 0 THEN <<>>
            ELSE bytes[i - 1] \o EncodeField(layout[i], rec[layout[i].name])
    IN  bytes[Len(layout)]

\* The number in the w bytes behind the place off, and whether they are there.
NumberAt(data, off, w) == NumberOf(SubSeq(data, off + 1, off + w))
Reaches(data, end) == end <= Len(data)

\* Where a field behind off ends: after a number, or after a length and that
\* many characters; beyond the data if the data ends before.
FieldEnd(data, off, f) ==
    IF f.str /\ Reaches(data, off + f.w) THEN off + f.w + NumberAt(data, off, f.w)
    ELSE off + f.w

ValueAt(data, off, f) ==
    IF f.str THEN SubSeq(data, off + f.w + 1, FieldEnd(data, off, f))
    ELSE NumberAt(data, off, f.w)

\* The ends of the fields of a layout behind off; the fields begin there too.
FieldEnds(layout, data, off) ==
    LET end[i \in 0..Len(layout)] ==
            IF i = 0 THEN off ELSE FieldEnd(data, end[i - 1], layout[i])
    IN  end

NamesOf(layout) == {layout[i].name : i \in DOMAIN layout}
PlaceOf(layout, name) == CHOOSE i \in DOMAIN layout : layout[i].name = name

\* All fields, and where they end; what follows the last one is not looked at.
\* It is an error if the data ends before.
DecodeFields(layout, data, off) ==
    LET end == FieldEnds(layout, data, off)
    IN  IF Reaches(data, end[Len(layout)])
        THEN [ok |-> TRUE,
              rec |-> [name \in NamesOf(layout) |->
                          LET i == PlaceOf(layout, name)
                          IN  ValueAt(data, end[i - 1], layout[i])]]
        ELSE [ok |-> FALSE, rec |-> <<>>]

-----------------------------------------------------------------------------
(* UploadPayload: a count and so many readings.                            *)

EncodableReadings(rs) == \A i \in DOMAIN rs : Encodable(ReadingLayout, rs[i])

EncodeReadings(rs) ==
    LET bytes[i \in 0..Len(rs)] ==
            IF i = 0 THEN BigEndian(Len(rs), 4)
            ELSE bytes[i - 1] \o EncodeFields(ReadingLayout, rs[i])
    IN  bytes[Len(rs)]

\* Faulty variant of CountFits: the guard forgets that the division rounds.
CountFits_Tight(count, data) == count < Len(data) \div MinLen(ReadingLayout)

\* More readings than the data could hold are refused before allocating.
CountFits(count, data) == count <= Len(data) \div MinLen(ReadingLayout) + 1

\* The ends of the first count readings.
ReadingEnds(data, count) ==
    LET end[i \in 0..count] ==
            IF i = 0 THEN 4
            ELSE FieldEnds(ReadingLayout, data, end[i - 1])[Len(ReadingLayout)]
    IN  end

DecodeReadings(data) ==
    LET count == NumberAt(data, 0, 4)
        end   == ReadingEnds(data, count)
    IN  IF Reaches(data, 4) /\ CountFits(count, data) /\ Reaches(data, end[count])
        THEN [ok |-> TRUE,
              rs |-> [i \in 1..count |-> DecodeFields(ReadingLayout, data, end[i - 1]).rec]]
        ELSE [ok |-> FALSE, rs |-> <<>>]

-----------------------------------------------------------------------------
(* Message types, their payloads and the registry of decoders.             *)

Handshake == 1
HandshakeAck == 2
Upload == 3
UploadAck == 4
Heartbeat == 5
HeartbeatAck == 6
Notify == 7

\* init registers one decoder per type; the acknowledgements share theirs.
Registered == Handshake..Notify

LayoutOf(type) ==
    CASE type = Handshake -> HandshakeLayout
      [] type = Notify -> NotifyLayout
      [] type = Heartbeat -> <<>>
      [] type \in {HandshakeAck, UploadAck, HeartbeatAck} -> AckLayout

CanEncode(type, p) ==
    IF type = Upload THEN EncodableReadings(p) ELSE Encodable(LayoutOf(type), p)

EncodePayload(type, p) ==
    IF type = Upload THEN EncodeReadings(p) ELSE EncodeFields(LayoutOf(type), p)

\* ParseMsg: the payload a received frame stands for, or an error.  A
\* heartbeat must be empty, every other decoder ignores what it did not read.
ParseMsg(m) ==
    IF m.Type \notin Registered THEN [ok |-> FALSE, p |-> <<>>]
    ELSE IF m.Type = Upload
         THEN LET d == DecodeReadings(m.Payload) IN [ok |-> d.ok, p |-> d.rs]
    ELSE LET d == DecodeFields(LayoutOf(m.Type), m.Payload, 0)
         IN  [ok |-> d.ok /\ (m.Type = Heartbeat => m.Payload = <<>>), p |-> d.rec]

-----------------------------------------------------------------------------
(* Frames.                                                                 *)

\* atomicIdGenerator.Next: the number after n, of 16 bits.
NextMsgID(n) == (n + 1) % (Base * Base)

\* Milliseconds since the custom epoch, in 32 bits.
NewTimestamp(now) == now % Power(4)

\* MsgFactory.NewMsg: PayloadLen keeps 16 bits of the length of the payload.
NewMsg(type, p, id, now) ==
    LET payload == EncodePayload(type, p)
    IN  [Magic |-> MagicNumber, Version |-> 1, Flags |-> 0, Type |-> type,
         MsgID |-> id, PayloadLen |-> Len(payload) % (Base * Base),
         Timestamp |-> NewTimestamp(now), Payload |-> payload]

\* The bytes mixed pairwise, half by half.
Mixed(bytes) ==
    LET mix[i, j \in 0..Len(bytes)] ==
            IF i >= j THEN 7
            ELSE IF i + 1 = j THEN bytes[j]
            ELSE (mix[i, (i + j) \div 2] * 31 + mix[(i + j) \div 2, j] * 17 + 3) % 32749
    IN  mix[0, Len(bytes)]

\* Stands for CalChecksum: two places, different for the different sequences
\* of an instance.
Checksum(bytes) == <<Len(bytes), Mixed(bytes)>>

\* Msg.Encode: header, payload, checksum over both.
EncodeFrame(m) ==
    LET covered == EncodeFields(HeaderLayout, m) \o m.Payload
    IN  covered \o Checksum(covered)

HeaderSize == MinLen(HeaderLayout)

\* DecodeFrame on the bytes that have come in: io.ReadFull waits while there
\* are fewer than it needs ("short"); a wrong magic number or checksum is an
\* error; otherwise the frame, and the number of bytes it took.
DecodeFrame(in) ==
    LET h    == DecodeFields(HeaderLayout, in, 0).rec
        full == HeaderSize + h.PayloadLen
    IN  IF Len(in) < HeaderSize THEN [res |-> "short"]
        ELSE IF h.Magic # MagicNumber THEN [res |-> "badMagic"]
        ELSE IF Len(in) < full + 2 THEN [res |-> "short"]
        ELSE IF SubSeq(in, full + 1, full + 2) # Checksum(SubSeq(in, 1, full))
             THEN [res |-> "badChecksum"]
        ELSE [res |-> "ok", size |-> full + 2,
              m |-> [k \in NamesOf(HeaderLayout) \cup {"Payload"} |->
                        IF k = "Payload" THEN SubSeq(in, HeaderSize + 1, full) ELSE h[k]]]
=============================================================================
