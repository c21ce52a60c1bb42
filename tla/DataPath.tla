------------------------------ MODULE DataPath ------------------------------
(***************************************************************************)
(* The path of the data: a configuration is loaded and validated, points   *)
(* of a Modbus device are polled and written, MQTT payloads come in, the   *)
(* readings are cached, framed, carried over a connection that may break   *)
(* after any byte, decoded by the server and written into the documents    *)
(* for the broker and for ThingsBoard.                                     *)
(*                                                                         *)
(* It composes GatewayConfig, ReadingValues and WireCodec: what the three  *)
(* say about one value has to fit together.  The retries around them are   *)
(* the matter of UploadTunnel and GatewaySession; here a connection is     *)
(* used once, and the devices are let go of when it is opened.             *)
(***************************************************************************)
EXTENDS GatewayConfig, ReadingValues

CONSTANTS
    Keys,           \* the settings whose sources vary
    Words,          \* what a source may say of one of them
    Points,         \* configured Modbus points
    RawNumbers,     \* numbers the device may hold
    WriteValues,    \* values that are written
    Topics,         \* configured MQTT topics
    DeviceNames,    \* lists of names the configured Modbus devices may have
    Outputs,        \* configured outputs of the server
    Payloads,       \* payloads that arrive, with what their device meant by
                    \* each of its points
    ModbusName,     \* names of the two devices
    MqttName,
    MaxReadings,    \* bound: readings in the cache
    MaxFrames,      \* bound: frames written on the connection
    CutPoints       \* the connection breaks after so many bytes, or one short of all

ASSUME BoundsAssumption == MaxReadings \in Nat \ {0} /\ MaxFrames \in Nat \ {0}
ASSUME CutsAssumption == CutPoints \subseteq Nat
ASSUME WordsAssumption == \A w \in Words : IsText(w)
ASSUME PointsAssumption ==
    Points \subseteq [named : BOOLEAN, fc : Nat, quantity : 0..2, dt : Seq(Nat),
                      order : STRING, scale : Int, offset : Int, access : STRING]
ASSUME NumbersAssumption == RawNumbers \subseteq Int /\ WriteValues \subseteq Int
ASSUME NamesAssumption ==
    /\ {ModbusName, MqttName} \subseteq Seq(Nat) \ {<<>>} /\ MqttName # ModbusName
    /\ DeviceNames \subseteq Seq(STRING) \ {<<>>}

VARIABLES
    phase,      \* "off", "refused", "configured", "running", "online",
                \* "crashed"; "serving" for a server
    conf,       \* the setting that was looked at: its key, sources and value
    point,      \* the Modbus point in use, as validated, or none
    topic,      \* the MQTT topic in use, or none
    dev,        \* the raw number its device holds
    asked,      \* the value of the last write that succeeded, or none
    cache,      \* readings, each with what its device meant
    uploaded,   \* how many of them have been sent
    sent,       \* history: the messages written on the connection
    wire,       \* bytes written and not yet read
    link,       \* "up", "cut", "refused" by DecodeFrame, "closed"
    got,        \* history: the messages decoded from the connection
    docs        \* what the server published of each upload

vars == <<phase, conf, point, topic, dev, asked, cache, uploaded, sent, wire,
          link, got, docs>>

None == <<>>
NoPoint == [fc |-> 0]
NoTopic == [topic |-> "none"]

Init ==
    /\ phase = "off"
    /\ conf = None
    /\ point = NoPoint
    /\ topic = NoTopic
    /\ dev = 0
    /\ asked = None
    /\ cache = <<>>
    /\ uploaded = 0
    /\ sent = <<>>
    /\ wire = <<>>
    /\ link = "up"
    /\ got = <<>>
    /\ docs = <<>>

-----------------------------------------------------------------------------
(* Configuration.                                                          *)

\* What the sources say: one key varies, the credentials are where they
\* should be, everything else is left to the defaults.
Says(fields, key, file, dotenv, env, flag, loads) ==
    [k \in DOMAIN fields |->
        [default |-> fields[k].default,
         env |-> IF k = key THEN env ELSE Unset,
         file |-> IF k = key THEN FileSays(file, dotenv, loads)
                  ELSE IF k \in {"sn", "token"} THEN FileSays(<<"word", "id">>, Unset, loads)
                  ELSE Unset,
         flag |-> IF k = key THEN FlagSays(key, flag) ELSE Unset]]

\* PopulateFromProvider and the guards; the phase that follows if they and
\* the rest of the file, where it is read, are accepted.  (The command line
\* refuses a port that is no integer.)
LoadSettings(fields, rest, next) ==
    /\ phase = "off"
    /\ \E key \in Keys \cap DOMAIN fields, file, dotenv, env, flag \in Words, loads \in BOOLEAN :
          LET says == Says(fields, key, file, dotenv, env, flag, loads)
              settings == [k \in DOMAIN fields |-> Populated(fields[k], says[k])]
          IN  /\ fields[key].kind = "int" => flag[1] # "word"
              /\ IF ValidSettings(fields, settings) /\ (loads => rest)
                 THEN /\ phase' = next
                      /\ conf' = [field |-> fields[key], says |-> says[key],
                                  value |-> settings[key]]
                 ELSE /\ phase' = "refused"
                      /\ conf' = None
    /\ UNCHANGED <<point, topic, dev, asked, cache, uploaded, sent, wire, link, got, docs>>

\* InitClientConfig; its devices follow in LoadDevices.
LoadClientSettings == LoadSettings(ClientFields, TRUE, "configured")

\* InitServerConfig
LoadServerSettings ==
    \E o \in Outputs : LoadSettings(ServerFields, ValidOutput(o), "serving")

OneWide == {Bool} \cup OneRegister
DataTypes == OneWide \cup TwoRegisters \cup {Float64, JSON}

\* What the topics take from the payloads are values of Go, and instants that
\* a timestamp of 8 bytes can say.
ASSUME PayloadsAssumption ==
    \A t \in Topics, p \in Payloads :
        ValidTopic(t, DataTypes) /\ t.source.format = p.format =>
            LET v  == ExtractValue(t.source, p.payload)
                ts == ExtractTimestamp(t.source, p.payload)
            IN  /\ v = <<v[1], v[2]>>
                /\ v[1] = "num" => v[2] \in Floats
                /\ v[1] = "bool" => v[2] \in BOOLEAN
                /\ v[1] = "str" => v[2] \in Seq(Nat)
                /\ ts = BadTime \/ ts \in 0..(Power(8) - 1)

\* The numbers a device may hold for a point.
CanHold(p, n) == InRegisters(p.dt, n) /\ (p.dt \in IntegerTypes => Finite(n))

\* The device list of InitClientConfig, every Modbus device with the same
\* point and one MQTT device with one topic.
LoadDevices ==
    /\ phase = "configured"
    /\ \E p \in Points, t \in Topics, n \in RawNumbers, names \in DeviceNames :
          LET devices == [i \in DOMAIN names |->
                            [name |-> names[i], type |-> "tcp", sections |-> {"tcp"},
                             slave |-> 1, points |-> <<p>>]]
              mqtt == [broker_addr |-> ":1883",
                       devices |-> <<[name |-> "m", topics |-> <<t>>]>>]
          IN  /\ CanHold(p, n)
              /\ IF /\ \A i \in DOMAIN names : ValidDevice(devices[i], OneWide, TwoRegisters)
                    /\ Distinct(devices)
                    /\ ValidMqtt(mqtt, DataTypes)
                 THEN /\ phase' = "running"
                      /\ point' = Normalised(p, TwoRegisters)
                      /\ topic' = t
                      /\ dev' = n
                 ELSE /\ phase' = "refused"
                      /\ UNCHANGED <<point, topic, dev>>
    /\ conf' = None
    /\ UNCHANGED <<asked, cache, uploaded, sent, wire, link, got, docs>>

-----------------------------------------------------------------------------
(* Readings.                                                               *)

Reading(device, name, dt, text, ts) ==
    [ID |-> 0, Device |-> <<1>>, DeviceName |-> device, Point |-> <<1>>,
     PointName |-> name, DataType |-> dt, Value |-> text, Quality |-> 0,
     Unit |-> <<>>, Timestamp |-> ts]

Now == 37

\* What the point stands for when the device holds n.
Physical(p, n) == IF p.dt = Bool THEN <<"bool", n # 0>> ELSE <<"num", Scaled(n, p)>>

\* pollOnce for one point: read, parse, serialise, send on.
PollOnce ==
    /\ phase = "running"
    /\ Len(cache) < MaxReadings
    /\ Polled(point)
    /\ LET v == ParsePointValue(point, Response(point, dev))
           r == Reading(ModbusName, <<30>>, point.dt, SerializeValue(point.dt, v), Now)
       IN  \/ /\ v[1] = "panic"
              /\ phase' = "crashed"
              /\ UNCHANGED cache
           \/ /\ v[1] \notin {"panic", "none"}
              /\ cache' = Append(cache, [r |-> r, at |-> Now,
                                         read |-> v, meant |-> Physical(point, dev)])
              /\ UNCHANGED phase
    /\ UNCHANGED <<conf, point, topic, dev, asked, uploaded, sent, wire, link, got, docs>>

\* executeWrite, of a command that Write has let pass.
ExecuteWrite ==
    /\ phase = "running"
    /\ cache = <<>>
    /\ point.access # "ro"
    /\ Writable(point)
    /\ \E v \in WriteValues :
          /\ dev' = HeldAfter(point, WriteBytes(point, v))
          /\ asked' = <<v>>
    /\ UNCHANGED <<phase, conf, point, topic, cache, uploaded, sent, wire, link, got, docs>>

\* handleMqttReading: value, type, timestamp; what fails is dropped.
HandleMqttReading ==
    /\ phase = "running"
    /\ Len(cache) < MaxReadings
    /\ \E p \in Payloads :
          LET v  == ExtractValue(topic.source, p.payload)
              ts == ExtractTimestamp(topic.source, p.payload)
              r  == Reading(MqttName, <<31>>, topic.data_type,
                            SerializeValue(topic.data_type, v),
                            IF ts = NoTime THEN Now ELSE ts)
          IN  /\ topic.source.format = p.format
              /\ v # Missing /\ CheckDataType(v, topic.data_type) /\ ts # BadTime
              /\ cache' = Append(cache, [r |-> r, at |-> p.at, read |-> v,
                                         meant |-> p.meant[topic.point_name]])
    /\ UNCHANGED <<phase, conf, point, topic, dev, asked, uploaded, sent, wire, link, got, docs>>

-----------------------------------------------------------------------------
(* The gateway's side of the connection.                                   *)

\* NewMsg, Encode and Write of one message.
Write(type, p, entries) ==
    LET id == NextMsgID(Len(sent))
    IN  /\ Len(sent) < MaxFrames
        /\ link = "up"
        /\ CanEncode(type, p)
        /\ sent' = Append(sent, [type |-> type, id |-> id, p |-> p, entries |-> entries])
        /\ wire' = wire \o EncodeFrame(NewMsg(type, p, id, Now))

\* performHandshake.  From here on the devices are of no interest.
WriteHandshake ==
    /\ phase = "running"
    /\ cache # <<>>
    /\ phase' = "online"
    /\ point' = NoPoint /\ topic' = NoTopic /\ dev' = 0 /\ asked' = None
    /\ Write(Handshake, [FirmwareVersion |-> 1, Sn |-> <<5, 6>>, Token |-> <<7>>], <<>>)
    /\ UNCHANGED <<conf, cache, uploaded, link, got, docs>>

\* uploadReadings: one batch.  PayloadLen has 16 bits, so that it is never
\* greater than maxPayloadSize and no batch is split.
WriteUpload ==
    /\ phase = "online"
    /\ \E n \in 1..(Len(cache) - uploaded) :
          LET entries == SubSeq(cache, uploaded + 1, uploaded + n)
          IN  /\ Write(Upload, [i \in 1..n |-> entries[i].r], entries)
              /\ uploaded' = uploaded + n
    /\ UNCHANGED <<phase, conf, point, topic, dev, asked, cache, link, got, docs>>

\* sendHeartbeat; sendNotify of a device that went offline.
WriteHeartbeat ==
    /\ phase = "online"
    /\ Write(Heartbeat, <<>>, <<>>)
    /\ UNCHANGED <<phase, conf, point, topic, dev, asked, cache, uploaded, link, got, docs>>

WriteNotify ==
    /\ phase = "online"
    /\ Write(Notify, [EventCode |-> 2, DeviceHash |-> <<1>>, Timestamp |-> Now,
                      Severity |-> 0, Message |-> <<8, 9>>, RawData |-> <<>>], <<>>)
    /\ UNCHANGED <<phase, conf, point, topic, dev, asked, cache, uploaded, link, got, docs>>

\* The connection breaks: the server still gets the first n bytes.
Cut ==
    /\ link = "up"
    /\ wire # <<>>
    /\ \E n \in {c \in CutPoints \cup {Len(wire) - 1} : c < Len(wire)} :
          wire' = SubSeq(wire, 1, n)
    /\ link' = "cut"
    /\ UNCHANGED <<phase, conf, point, topic, dev, asked, cache, uploaded, sent, got, docs>>

-----------------------------------------------------------------------------
(* The server's side.                                                      *)

\* groupReadingsByDeviceName, groupReadingsPrealloc: the readings of each device.
Grouped(rs) ==
    LET group[i \in 0..Len(rs)] ==
            IF i = 0 THEN [name \in {rs[j].DeviceName : j \in DOMAIN rs} |-> <<>>]
            ELSE [group[i - 1] EXCEPT ![rs[i].DeviceName] = Append(@, rs[i])]
    IN  group[Len(rs)]

\* handleUpload after the save: the batch for the broker, the groups for the
\* sinks.  entries (a history) are what was sent in this frame.
Published(parsed, entries) ==
    IF parsed.ok
    THEN <<[broker |-> BrokerDocument(parsed.p),
            sinks |-> LET group == Grouped(parsed.p)
                      IN  {SinkDocument(group[name]) : name \in DOMAIN group},
            entries |-> entries]>>
    ELSE <<>>

\* DecodeFrame, and what HandleConnection does with the frame.
ReadFrame ==
    /\ link \in {"up", "cut"}
    /\ LET d == DecodeFrame(wire)
       IN  \/ /\ d.res = "ok"
              /\ wire' = SubSeq(wire, d.size + 1, Len(wire))
              /\ LET parsed == ParseMsg(d.m)
                 IN  /\ got' = Append(got, [type |-> d.m.Type, id |-> d.m.MsgID,
                                            p |-> IF parsed.ok THEN parsed.p ELSE Missing])
                     /\ docs' = IF d.m.Type = Upload
                                THEN docs \o Published(parsed, sent[Len(got) + 1].entries)
                                ELSE docs
              /\ UNCHANGED link
           \/ /\ d.res \in {"badMagic", "badChecksum"}
              /\ link' = "refused"
              /\ UNCHANGED <<wire, got, docs>>
           \/ /\ d.res = "short" /\ link = "cut"
              /\ link' = "closed"
              /\ UNCHANGED <<wire, got, docs>>
    /\ UNCHANGED <<phase, conf, point, topic, dev, asked, cache, uploaded, sent>>

Next ==
    \/ LoadClientSettings \/ LoadServerSettings \/ LoadDevices
    \/ PollOnce \/ ExecuteWrite \/ HandleMqttReading
    \/ WriteHandshake \/ WriteUpload \/ WriteHeartbeat \/ WriteNotify
    \/ Cut \/ ReadFrame

Spec == Init /\ [][Next]_vars

-----------------------------------------------------------------------------
(* Properties.                                                             *)

\* The whole text of a source is what it says of a field of this kind.
Spells(raw, field, value) ==
    IF field.kind = "int" THEN raw = value ELSE raw = value \/ raw[1] = "int"

\* Of a setting in an accepted configuration (PopulateFromProvider, Validate)
\* a source that its tag allows says exactly that, and no source that is
\* asked before says anything; unless no source says anything of it, or the
\* text is no integer and the field may be zero.
AcceptedIsMeant ==
    conf # None =>
        LET f == conf.field
            set == {s \in f.sources : IsSet(s, conf.says[s])}
        IN  \/ set = {} /\ conf.value \in {<<"int", 0>>, Empty}
            \/ \E s \in set :
                  /\ \A other \in set : other = s \/ <<other, s>> \in
                        {<<"default", "env">>, <<"default", "file">>, <<"default", "flag">>,
                         <<"env", "file">>, <<"env", "flag">>, <<"file", "flag">>}
                  /\ \/ Spells(conf.says[s], f, conf.value)
                     \/ /\ f.kind = "int" /\ conf.says[s][1] # "int"
                        /\ conf.value = <<"int", 0>>
                        /\ f.guard \in {"nonneg", "any"}

\* A point as docs/config/modbus-config.md has it: bool on one coil, a
\* number on the registers it needs.  An integer of two registers is read
\* as abcd whatever its byte order.
Documented(p) ==
    \/ p.fc \in {1, 2} /\ p.dt = Bool /\ p.quantity = 1
    \/ p.fc \in {3, 4} /\ p.dt \in OneRegister /\ p.quantity = 1
    \/ p.fc \in {3, 4} /\ p.dt \in TwoRegisters /\ p.quantity = 2
ReadInOrder(p) == p.dt \in {Int32, Uint32} => p.order = "abcd"

\* d stands for value - offset, as executeWrite computes it.  A register can
\* take it if d / scale lies in the range of its integers, or is a float32; a
\* coil if d is no switch value below one step.
InReach(p, d) ==
    LET n == IF p.scale > 0 THEN d ELSE -d
        step == Abs(p.scale)
    IN  /\ p.scale # 0
        /\ CASE p.dt = Bool -> d = 0 \/ Abs(d) >= step
             [] p.dt \in IntegerTypes ->
                    Lowest(p.dt) * step <= n /\ n <= Highest(p.dt) * step
             [] OTHER -> (n * One) % step = 0 /\ IsFloat32((n * One) \div step)

\* The raw number n stands for d: less than one step of an integer beside it.
Follows(p, d, n) ==
    CASE p.dt = Bool -> n = IF d = 0 THEN 0 ELSE One
      [] p.dt \in IntegerTypes -> Abs(n * p.scale - d * One) < Abs(p.scale) * One
      [] OTHER -> n * p.scale = d * One

\* What is polled is what the device holds, scaled (parsePointValue); after a
\* write that succeeded and that the register can take the device holds a raw
\* number less than one step beside what was asked for, in its range and never
\* wrapped around (executeWrite divides and cuts the fraction off); and a poll
\* panics only for a point whose quantity is too small for its data type.
ReadsTheDevice ==
    /\ phase = "running" /\ Documented(point) /\ ReadInOrder(point) =>
          \A i \in DOMAIN cache :
              cache[i].r.DeviceName = ModbusName => cache[i].read = cache[i].meant
    /\ phase = "running" /\ asked # None /\ Finite(asked[1]) =>
          LET d == Sum(asked[1], -point.offset)
          IN  Finite(d) /\ InReach(point, d) => Follows(point, d, dev)
    /\ phase = "crashed" => ~Documented(point)

\* What DecodeFrame and ParseMsg return is what NewMsg and Encode were given,
\* message by message and in order, also when the connection breaks in the
\* middle of a frame; a frame is refused only if its payload is longer than
\* its length field can say.
StreamIsFaithful ==
    /\ Len(got) <= Len(sent)
    /\ \A i \in DOMAIN got :
          /\ got[i].type = sent[i].type
          /\ got[i].id = sent[i].id
          /\ got[i].p = sent[i].p
    /\ link = "refused" =>
          LET next == sent[Len(got) + 1]
          IN  Len(EncodePayload(next.type, next.p)) >= Base * Base

\* What an entry of the cache says: a Modbus value is judged as it was read
\* (ReadsTheDevice says how that fits the device).
Said(e) == IF e.r.DeviceName = ModbusName THEN e.read ELSE e.meant

\* What becomes of it on the way: a JSON value that is not a string is lost,
\* one that is a string is parsed for the sinks, and there a Modbus point of an
\* integer type has no fraction.
ForBroker(e) ==
    IF e.r.DataType = JSON /\ Said(e)[1] # "str" THEN <<"str", <<>> >> ELSE Said(e)
ForSink(e) ==
    CASE e.r.DataType = JSON -> JSONIn(ForBroker(e)[2])
      [] e.r.DataType \in IntegerTypes /\ e.r.DeviceName = ModbusName ->
            <<"num", One * TowardZero(Said(e)[2])>>
      [] OTHER -> Said(e)

\* An entry of a document shows the value, and the instant its device meant.
Shows(entry, e, value) == entry.ts = e.at /\ entry.value = value

AllFinite(entries) ==
    \A i \in DOMAIN entries : entries[i].read[1] = "num" => Finite(entries[i].read[2])

\* The places of the entries of one device, in their order.
PlacesOf(es, name, at) ==
    /\ {at[j] : j \in DOMAIN at} = {i \in DOMAIN es : es[i].r.DeviceName = name}
    /\ \A j, l \in DOMAIN at : j < l => at[j] < at[l]

\* The documents of an upload (serializeReadings, Format) show every reading
\* of the batch with the value and the instant its device meant
\* (extractJSONValue, detectTimestamp, SerializeValue, parseReadingValue);
\* the batch is left out only if a number in it is not finite.  ThingsBoard is
\* shown what was polled without its fraction if the data type is an integer
\* (int64 in parseReadingValue).
ArrivesAsMeant ==
    \A k \in DOMAIN docs :
        LET es == docs[k].entries
        IN  AllFinite(es) =>
              /\ Len(docs[k].broker) = Len(es)
              /\ \A i \in DOMAIN es : Shows(docs[k].broker[i], es[i], ForBroker(es[i]))
              /\ \A name \in {es[i].r.DeviceName : i \in DOMAIN es} :
                    \E doc \in docs[k].sinks : \E at \in [DOMAIN doc -> DOMAIN es] :
                        /\ PlacesOf(es, name, at)
                        /\ \A i \in DOMAIN doc : Shows(doc[i], es[at[i]], ForSink(es[at[i]]))

\* Every frame that is written on a working connection is accepted.
FramesAreAccepted == link # "refused"
=============================================================================
