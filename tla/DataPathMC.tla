----------------------------- MODULE DataPathMC -----------------------------
(***************************************************************************)
(* Small instances of DataPath.                                            *)
(***************************************************************************)
EXTENDS DataPath

\* Floating-point numbers with so few digits that the product of 3/16 and a
\* raw number above 5461 is rounded, as that of 0.1 and 43 is in float64.
DoubleUlps ==
    [m \in 0..Largest |-> CASE m < 16384 -> 1 [] m < 32768 -> 2 [] m < 65536 -> 4
                            [] m < 131072 -> 8 [] OTHER -> 16]
SingleUlps ==
    [m \in 0..Largest32 |-> CASE m < 128 -> 1 [] m < 256 -> 2 [] m < 512 -> 4
                              [] m < 1024 -> 8 [] m < 2048 -> 16 [] OTHER -> 32]

\* Names of three characters, and one that is long enough for two readings
\* to overflow the length field in base 10.
ShortName == <<61, 62, 63>>
OtherName == <<64>>
LongName == [i \in 1..24 |-> 60 + i]

IntWords == {Unset, Empty, <<"int", 0>>, <<"int", 9>>, <<"word", "abc">>}

Point(fc, quantity, dt, order, scale, offset, access) ==
    [named |-> TRUE, fc |-> fc, quantity |-> quantity, dt |-> dt, order |-> order,
     scale |-> scale, offset |-> offset, access |-> access]

AllPoints ==
    {Point(1, 1, Bool, "", 16, 0, "rw"), Point(2, 2, Bool, "", 16, 0, "ro"),
     Point(3, 1, Bool, "", 16, 0, "ro"),
     Point(3, 1, Int16, "", 2, 16, "rw"), Point(4, 1, Uint16, "", 16, 0, "ro"),
     Point(3, 2, Int32, "", -16, 3, "rw"), Point(3, 2, Uint32, "cdab", 3, 0, "rw"),
     Point(3, 1, Uint32, "abcd", 16, 0, "ro"),
     Point(3, 2, Float32, "dcba", 16, 16, "rw"), Point(3, 2, Float32, "badc", 0, 48, "rw"),
     Point(3, 1, Float32, "cdab", 16, 0, "rw"),
     Point(3, 2, Float64, "", 16, 0, "ro"), Point(6, 1, Int16, "", 16, 0, "rw")}

Topic(format, path, dt, name) ==
    [topic |-> "t", point_name |-> name, qos |-> 1, data_type |-> dt,
     source |-> [format |-> format, path |-> path]]

AllTopics ==
    {Topic("json", <<"a", "v">>, Float64, "temp"), Topic("json", <<"v">>, Int32, "count"),
     Topic("json", <<"v">>, JSON, "count"), Topic("json", <<"on">>, Bool, "state"),
     Topic("plain", <<>>, Bool, "state"), Topic("plain", <<>>, JSON, "state"),
     Topic("kv", <<"v">>, Int16, "count"), Topic("kv", <<>>, Int16, "count")}

OnePoint == {Point(3, 1, Int16, "", 2, 0, "ro")}

FewWords == {Unset, <<"int", 9>>}

OneTopic == {Topic("json", <<"v">>, Int32, "count")}

Object(temp, count, on, ts) ==
    <<"obj", [a |-> <<"obj", [v |-> temp]>>, v |-> count, on |-> on, ts |-> ts]>>

Meant(temp, count, state) == [temp |-> temp, count |-> count, state |-> state]

Payload(format, payload, at, meant) ==
    [format |-> format, payload |-> payload, at |-> at, meant |-> meant]

\* Two seconds, 35 milliseconds, a date, no timestamp and one that is none.
AllPayloads ==
    {Payload("json", Object(<<"num", 24>>, <<"num", 32>>, <<"bool", TRUE>>, <<"num", 32>>), 20,
             Meant(<<"num", 24>>, <<"num", 32>>, <<"bool", TRUE>>)),
     Payload("json", Object(<<"num", -16>>, <<"num", 24>>, <<"bool", FALSE>>,
                            <<"str", NumText(560)>>), 35,
             Meant(<<"num", -16>>, <<"num", 24>>, <<"bool", FALSE>>)),
     Payload("json", Object(Missing, <<"str", <<9, 9>> >>, <<"str", <<8>> >>,
                            <<"str", DateText(26)>>), 26,
             Meant(Missing, <<"str", <<9, 9>> >>, <<"str", <<8>> >>)),
     Payload("json", <<"obj", [v |-> <<"num", -32>>, time |-> <<"bool", TRUE>>]>>, Now,
             Meant(Missing, <<"num", -32>>, Missing)),
     Payload("plain", TrueText, Now, Meant(Missing, Missing, <<"bool", TRUE>>)),
     Payload("plain", <<8, 9>>, Now, Meant(Missing, Missing, <<"str", <<8, 9>> >>)),
     Payload("plain", <<>>, Now, Meant(Missing, Missing, Missing)),
     Payload("kv", << <<"TS", NumText(16)>>, <<"v", NumText(48)>>, <<"v", NumText(64)>> >>, 10,
             Meant(Missing, <<"num", 48>>, Missing)),
     Payload("kv", << <<"w", NumText(48)>> >>, Now, Meant(Missing, Missing, Missing))}

OnePayload ==
    {Payload("json", <<"obj", [v |-> <<"num", 32>>]>>, Now,
             Meant(Missing, <<"num", 32>>, Missing))}

AnOutput(type, token) ==
    [name |-> "o", type |-> type, host |-> "h", token |-> token]

AllOutputs ==
    {AnOutput("thingsboard-mqtt", "k"), AnOutput("thingsboard-http", ""),
     AnOutput("kafka", "k")}

Numbers == {0, 16, -32, NaN}
Written == {0, 16, -48, 5, 16388}

Names == {<<"d">>, <<"d", "e">>, <<"d", "e", "d">>}
OneName == {<<"d">>}
=============================================================================
