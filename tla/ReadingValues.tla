---------------------------- MODULE ReadingValues ----------------------------
(***************************************************************************)
(* What happens to a value between a device and the sinks of the server:   *)
(* the conversions of internal/client/modbus.go and modbus_runtime.go, the *)
(* extraction of MQTT payloads in internal/client/mqtt.go, the serialised  *)
(* form of internal/model/reading.go, and what the broker                  *)
(* (internal/server/publisher.go) and the ThingsBoard formatter            *)
(* (internal/output/formatter_tb.go) make of it.                           *)
(*                                                                         *)
(* Numbers are counted in parts of 1/One.  A float64 is a floating-point   *)
(* number of smaller width: the smaller it is the closer are its           *)
(* neighbours, and every operation rounds to the nearest of them.  Two     *)
(* codes stand for the numbers that are not finite.  A value of Go's type  *)
(* any is a pair of its kind and itself.  A text is a string of WireCodec; *)
(* the decimal text of a number is one character, so are the texts of      *)
(* dates, and the words true and false.                                    *)
(***************************************************************************)
EXTENDS WireCodec
LOCAL INSTANCE SequencesExt

CONSTANTS
    Kilo,           \* milliseconds in a second (1000)
    MsThreshold,    \* a greater timestamp is in milliseconds (1e12)
    One,            \* how many parts the number 1 has
    Largest,        \* the largest finite float64, in these parts
    Ulp64,          \* the distance of neighbouring float64s at each magnitude
    Largest32,      \* the same of float32
    Ulp32

ASSUME WidthAssumption == Base >= 10
ASSUME TimeAssumption == Kilo \in Nat \ {0} /\ MsThreshold \in Nat

\* Every integer of four bytes is a float64, and so is every float32.
ASSUME FloatAssumption ==
    /\ One \in Nat \ {0} /\ Largest \in Nat /\ Largest32 \in Nat
    /\ Power(4) * One <= Largest
    /\ 2 * Largest32 + 2 < Power(4)
    /\ Ulp64 \in [0..Largest -> Nat \ {0}] /\ Ulp32 \in [0..Largest32 -> Nat \ {0}]
    /\ \A m \in 1..Largest : Ulp64[m] <= m
    /\ \A m \in 0..(Power(4) * One) : One % Ulp64[m] = 0
    /\ \A m \in 0..Largest32 : Ulp32[m] % Ulp64[m] = 0

-----------------------------------------------------------------------------
(* Floating-point numbers.                                                 *)

Inf == Largest + 1
NaN == Largest + 2
Finite(n) == n \notin {NaN, Inf}
Floats == -Largest..Largest \cup {Inf, NaN}

Abs(n) == IF n >= 0 THEN n ELSE -n

\* The integer nearest to n/d, for d > 0; the even one of two.
NearestEven(n, d) ==
    LET q == n \div d
        r == n % d
    IN  IF 2 * r < d \/ (2 * r = d /\ q % 2 = 0) THEN q ELSE q + 1

\* The floating-point number nearest to n/d, for d > 0.
RoundedTo(n, d, ulp, largest) ==
    LET m == Abs(n) \div d
        near == ulp[m] * NearestEven(n, d * ulp[m])
    IN  IF m > largest THEN Inf ELSE IF Abs(near) > largest THEN Inf ELSE near

Rounded(n, d) == RoundedTo(n, d, Ulp64, Largest)

\* float32(n)
Narrow(n) == IF Finite(n) THEN RoundedTo(n, 1, Ulp32, Largest32) ELSE n

\* a * b, a + b and a / b in float64, for a finite b.
Product(a, b) ==
    IF Finite(a) THEN Rounded(a * b, One) ELSE IF b = 0 THEN NaN ELSE a
Sum(a, b) == IF Finite(a) THEN Rounded(a + b, 1) ELSE a
Quotient(a, b) ==
    IF a = NaN \/ (a = 0 /\ b = 0) THEN NaN
    ELSE IF a = Inf \/ b = 0 THEN Inf
    ELSE IF b > 0 THEN Rounded(a * One, b) ELSE Rounded(-a * One, -b)

\* f == math.Trunc(f): false for NaN, true for an infinity.
Integral(n) == n # NaN /\ (n = Inf \/ n % One = 0)

\* The conversion of a finite float64 to an integer.
TowardZero(n) == IF n >= 0 THEN n \div One ELSE -((-n) \div One)

-----------------------------------------------------------------------------
(* Texts.                                                                  *)

NumText(n) == <<1000 + (IF n >= 0 THEN 2 * n ELSE -2 * n - 1)>>
DateText(ms) == <<100 + ms>>
TrueText == <<1>>
FalseText == <<2>>
IsNumText(s) == Len(s) = 1 /\ s[1] >= 1000
IsDateText(s) == Len(s) = 1 /\ s[1] \in 100..999
NumberIn(s) == LET c == s[1] - 1000 IN IF c % 2 = 0 THEN c \div 2 ELSE -((c + 1) \div 2)

\* strconv.ParseBool also takes "1" and "0".
BoolTexts == {TrueText, FalseText, NumText(One), NumText(0)}
BoolIn(s) == s \in {TrueText, NumText(One)}

\* model.DataType; on the wire a data type is a string.
Bool == <<20>>
Int16 == <<21>>
Uint16 == <<22>>
Int32 == <<23>>
Uint32 == <<24>>
Float32 == <<25>>
Float64 == <<26>>
JSON == <<27>>
OneRegister == {Int16, Uint16}
TwoRegisters == {Int32, Uint32, Float32}
IntegerTypes == {Int16, Uint16, Int32, Uint32}
Numeric == IntegerTypes \cup {Float32, Float64}
Signed == {Int16, Int32}

Missing == <<"none", 0>>

-----------------------------------------------------------------------------
(* Modbus.  A point has a function code fc, a quantity of registers or     *)
(* coils, a data type dt, a byte order, scale, offset and access.          *)

\* ByteOrderConversion; every order is its own inverse.
ByteOrderConversion(b, order) ==
    CASE order = "dcba" -> <<b[4], b[3], b[2], b[1]>>
      [] order = "badc" -> <<b[2], b[1], b[4], b[3]>>
      [] order = "cdab" -> <<b[3], b[4], b[1], b[2]>>
      [] OTHER -> b

\* The finite float32 numbers.
IsFloat32(n) == Abs(n) <= Largest32 /\ n % Ulp32[Abs(n)] = 0

\* math.Float32bits and its inverse: the positive numbers, the negative ones,
\* and at the end what is not finite.
FloatBits(n) ==
    CASE n = NaN -> Power(4) - 1
      [] n = Inf -> Power(4) - 2
      [] n < 0 -> Largest32 - n
      [] OTHER -> n

FloatOf(u) ==
    LET n == IF u <= Largest32 THEN u ELSE Largest32 - u
    IN  IF u = Power(4) - 2 THEN Inf ELSE IF IsFloat32(n) THEN n ELSE NaN

\* The integer in the first w bytes, in two's complement if the type is.
IntegerOf(bytes, w, dt) ==
    LET u == NumberOf(SubSeq(bytes, 1, w))
    IN  IF dt \in Signed /\ 2 * u >= Power(w) THEN u - Power(w) ELSE u

\* v*point.Scale + point.Offset
Scaled(n, point) == Sum(Product(n, point.scale), point.offset)

\* parsePointValue: a response that is too short is an index out of range,
\* except for float32, where it is no value.
ParsePointValue(point, res) ==
    CASE point.dt = Bool ->
            IF Len(res) < 1 THEN <<"panic", 0>> ELSE <<"bool", res[1] # 0>>
      [] point.dt \in OneRegister ->
            IF Len(res) < 2 THEN <<"panic", 0>>
            ELSE <<"num", Scaled(One * IntegerOf(res, 2, point.dt), point)>>
      [] point.dt \in {Int32, Uint32} ->
            IF Len(res) < 4 THEN <<"panic", 0>>
            ELSE <<"num", Scaled(One * IntegerOf(res, 4, point.dt), point)>>
      [] OTHER ->
            IF Len(res) < 4 THEN Missing
            ELSE <<"num", Scaled(FloatOf(NumberOf(ByteOrderConversion(
                            SubSeq(res, 1, 4), point.order))), point)>>

\* The points pollOnce reads.
Polled(point) == point.access # "wo" /\ point.fc \in {1, 2, 3, 4}

\* raw := (value - offset) / scale
Unscaled(v, point) == Quotient(Sum(v, -point.offset), point.scale)

\* The conversion of a float64 to an integer of w bytes: the fraction is cut
\* off, then what does not fit; out of range it is up to the implementation.
ToInteger(n, w) == IF Finite(n) THEN BigEndian(TowardZero(n) % Power(w), w)
                   ELSE BigEndian(0, w)

\* executeWrite: the function codes and data types it goes on with.
Writable(point) ==
    \/ point.fc = 1 /\ point.dt = Bool
    \/ point.fc = 3 /\ point.dt \in OneRegister \cup TwoRegisters

\* Faulty variant of WriteBytes: the byte order is not applied.
WriteBytes_NoOrder(point, v) == ToInteger(Unscaled(v, point), 4)

\* writeCoil, writeSingleReg, writeMultiReg: what goes to the device (a coil
\* is on when raw # 0, and NaN is not 0).
WriteBytes(point, v) ==
    LET raw == Unscaled(v, point)
    IN  CASE point.dt = Bool -> <<IF raw # 0 THEN 1 ELSE 0>>
          [] point.dt \in OneRegister -> ToInteger(raw, 2)
          [] point.dt \in {Int32, Uint32} ->
                ByteOrderConversion(ToInteger(raw, 4), point.order)
          [] OTHER -> ByteOrderConversion(BigEndian(FloatBits(Narrow(raw)), 4), point.order)

-----------------------------------------------------------------------------
(* A device that follows its data sheet: the raw number it holds, in the   *)
(* byte order of the point.  A coil is 0 or 1; the one beside it is on.     *)

\* The numbers that the registers of a type can say; a coil is off or on.
Width(dt) == Power(IF dt \in OneRegister THEN 2 ELSE 4)
Lowest(dt) == IF dt \in Signed THEN -(Width(dt) \div 2) ELSE 0
Highest(dt) == IF dt \in Signed THEN (Width(dt) - 1) \div 2 ELSE Width(dt) - 1

InRegisters(dt, n) ==
    CASE dt = Bool -> n \in {0, One}
      [] dt \in IntegerTypes -> n % One = 0 /\ n \div One \in Lowest(dt)..Highest(dt)
      [] OTHER -> ~Finite(n) \/ IsFloat32(n)

Registers(point, n) ==
    CASE point.dt = Bool -> <<0, n \div One, 0, 0>>
      [] point.dt \in OneRegister -> BigEndian((n \div One) % Power(2), 2) \o <<0, 0>>
      [] point.dt = Float32 -> ByteOrderConversion(BigEndian(FloatBits(n), 4), point.order)
      [] OTHER -> ByteOrderConversion(BigEndian((n \div One) % Power(4), 4), point.order)

Response(point, n) ==
    IF point.fc \in {1, 2}
    THEN <<n \div One + (IF point.quantity > 1 THEN 2 ELSE 0)>>
    ELSE SubSeq(Registers(point, n), 1, 2 * point.quantity)

HeldAfter(point, bytes) ==
    CASE point.dt = Bool -> One * bytes[1]
      [] point.dt \in OneRegister -> One * IntegerOf(bytes, 2, point.dt)
      [] point.dt = Float32 -> FloatOf(NumberOf(ByteOrderConversion(bytes, point.order)))
      [] OTHER -> One * IntegerOf(ByteOrderConversion(bytes, point.order), 4, point.dt)

-----------------------------------------------------------------------------
(* MQTT payloads.  A source is a format and, for json and kv, a path.  A   *)
(* payload is a JSON value (or one that does not parse), a text, or the    *)
(* list of its well-formed key=value pairs.                                *)

\* A number first, then a bool, then a string.
ScalarOf(s) ==
    IF IsNumText(s) THEN <<"num", NumberIn(s)>>
    ELSE IF s \in BoolTexts THEN <<"bool", BoolIn(s)>>
    ELSE <<"str", s>>

\* extractJSONValue: one object after the other along the path.
JSONLeaf(root, path) ==
    FoldLeft(LAMBDA cur, part :
                IF cur[1] = "obj" /\ part \in DOMAIN cur[2] THEN cur[2][part]
                ELSE Missing, root, path)

\* The first pair with one of these keys; Len(pairs) + 1 if there is none.
FirstWith(pairs, keys) ==
    CHOOSE i \in 1..(Len(pairs) + 1) :
        /\ i <= Len(pairs) => pairs[i][1] \in keys
        /\ \A j \in 1..(i - 1) : pairs[j][1] \notin keys

ExtractValue(source, payload) ==
    CASE source.format = "json" -> JSONLeaf(payload, source.path)
      [] source.format = "plain" -> IF payload = <<>> THEN Missing ELSE ScalarOf(payload)
      [] source.format = "kv" ->
            LET i == FirstWith(payload, {source.path[1]})
            IN  IF i > Len(payload) THEN Missing ELSE ScalarOf(payload[i][2])

\* Faulty variant of CheckDataType: an integer may have a fraction.
CheckDataType_AnyNumber(v, dt) ==
    /\ dt \in Numeric => v[1] = "num"
    /\ dt = Bool => v[1] = "bool"

\* checkDataType
CheckDataType(v, dt) ==
    /\ dt \in Numeric => v[1] = "num"
    /\ dt \in IntegerTypes => Integral(v[2])
    /\ dt = Bool => v[1] = "bool"

NoTime == 0
BadTime == -1

\* The threshold between seconds and milliseconds, for an integer and a float64.
InMilliseconds(k) == IF k > MsThreshold THEN k ELSE k * Kilo
MillisecondsOf(n) ==
    TowardZero(IF n > One * MsThreshold THEN n ELSE Product(n, One * Kilo))

\* detectTimestampString
TimeOfText(s) ==
    IF s = <<>> THEN NoTime
    ELSE IF IsNumText(s) /\ Finite(NumberIn(s)) /\ NumberIn(s) % One = 0
         THEN InMilliseconds(NumberIn(s) \div One)
    ELSE IF IsDateText(s) THEN s[1] - 100
    ELSE BadTime

\* detectTimestamp
TimeOfValue(v) ==
    CASE v[1] = "num" -> MillisecondsOf(v[2])
      [] v[1] = "str" -> TimeOfText(v[2])
      [] OTHER -> BadTime

\* extractTimestamp: the first of the known names that is there; the system
\* time (NoTime) without one.
ExtractTimestamp(source, payload) ==
    CASE source.format = "json" ->
            IF payload[1] # "obj" THEN NoTime
            ELSE LET names == SelectSeq(<<"ts", "timestamp", "time">>,
                                        LAMBDA name : name \in DOMAIN payload[2])
                 IN  IF names = <<>> THEN NoTime ELSE TimeOfValue(payload[2][names[1]])
      [] source.format = "kv" ->
            LET i == FirstWith(payload, {"ts", "tS", "Ts", "TS"})
            IN  IF i > Len(payload) THEN NoTime ELSE TimeOfText(payload[i][2])
      [] OTHER -> NoTime

-----------------------------------------------------------------------------
(* The serialised form, and what the sinks make of it.                     *)

\* SerializeValue: the empty text for a value the data type does not expect.
SerializeValue(dt, v) ==
    CASE dt = Bool /\ v[1] = "bool" -> IF v[2] THEN TrueText ELSE FalseText
      [] dt \in Numeric /\ v[1] = "num" -> NumText(v[2])
      [] dt = JSON /\ v[1] = "str" -> v[2]
      [] OTHER -> <<>>

\* serializeReadings: a text that does not parse counts as false or zero.
BrokerValue(r) ==
    CASE r.DataType = Bool -> <<"bool", r.Value \in BoolTexts /\ BoolIn(r.Value)>>
      [] r.DataType = JSON -> <<"str", r.Value>>
      [] OTHER -> <<"num", IF IsNumText(r.Value) THEN NumberIn(r.Value) ELSE 0>>

\* What a text is as JSON; the raw text if it is none.
JSONIn(s) ==
    IF IsNumText(s) /\ Finite(NumberIn(s)) THEN <<"num", NumberIn(s)>>
    ELSE IF s \in {TrueText, FalseText} THEN <<"bool", s = TrueText>>
    ELSE <<"str", s>>

\* parseReadingValue: a text that does not parse is an error; int64 of a
\* number that is not finite is the smallest integer.
MinInt64 == -One * (Largest + 1)

SinkValue(r) ==
    CASE r.DataType = Bool -> <<"bool", r.Value = TrueText>>
      [] r.DataType = JSON -> JSONIn(r.Value)
      [] OTHER ->
            IF ~IsNumText(r.Value) THEN Missing
            ELSE IF r.DataType \notin IntegerTypes THEN <<"num", NumberIn(r.Value)>>
            ELSE <<"num", IF Finite(NumberIn(r.Value)) THEN One * TowardZero(NumberIn(r.Value))
                          ELSE MinInt64>>

\* json.Marshal refuses a document with a number that is not finite.
Marshals(values) ==
    \A i \in DOMAIN values : values[i][1] = "num" => Finite(values[i][2])

Entry(r, v) == [point |-> r.PointName, value |-> v, ts |-> r.Timestamp]

\* The document for the broker, and the one for ThingsBoard: one entry per
\* reading, or none at all if one of them cannot be written.
BrokerDocument(rs) ==
    IF Marshals([i \in DOMAIN rs |-> BrokerValue(rs[i])])
    THEN [i \in DOMAIN rs |-> Entry(rs[i], BrokerValue(rs[i]))] ELSE <<>>

SinkDocument(rs) ==
    LET values == [i \in DOMAIN rs |-> SinkValue(rs[i])]
    IN  IF Marshals(values) /\ \A i \in DOMAIN rs : values[i] # Missing
        THEN [i \in DOMAIN rs |-> Entry(rs[i], values[i])] ELSE <<>>
=============================================================================
