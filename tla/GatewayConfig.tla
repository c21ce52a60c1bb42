---------------------------- MODULE GatewayConfig ----------------------------
(***************************************************************************)
(* The configuration of gateway and server: the chain of providers and how *)
(* it fills the fields (internal/config), the fields with their allowed    *)
(* sources and guards (internal/client/config.go, internal/server/         *)
(* config.go, internal/output/output.go), and the validation of devices,   *)
(* points and MQTT topics.                                                 *)
(*                                                                         *)
(* What a source says of a key is Unset, Empty, an integer <<"int", n>> or *)
(* a word <<"word", w>>.  The bounds of a port are those of the code; the  *)
(* settings no guard mentions (log rotation, addresses, users) are one     *)
(* field of each kind.                                                     *)
(***************************************************************************)
EXTENDS Integers, Sequences, FiniteSets

Unset == <<"unset", 0>>
Empty == <<"word", "">>

\* What a source may say of a key.
IsText(raw) ==
    \/ raw = Unset
    \/ raw = <<"int", raw[2]>> /\ raw[2] \in Int
    \/ raw = <<"word", raw[2]>>

-----------------------------------------------------------------------------
(* The providers.                                                          *)

\* Faulty variant of Chain: the environment is asked before the file.
Chain_EnvFirst == <<"default", "file", "env", "flag">>

\* NewProviders: the order of the chain, the last one is asked first.
Chain == <<"default", "env", "file", "flag">>

Rank(src) == CHOOSE i \in DOMAIN Chain : Chain[i] = src

\* FileProvider: a file that cannot be read or parsed counts as empty; the
\* entries of .env are put over those of the file.
FileSays(file, dotenv, loads) ==
    IF dotenv # Unset THEN dotenv ELSE IF loads THEN file ELSE Unset

\* The run commands pass on two flags, unless they are left at zero or empty.
FlagSays(key, given) ==
    IF key \in {"port", "server"} /\ given \notin {<<"int", 0>>, Empty} THEN given ELSE Unset

\* IsSet: a variable of the environment that is empty is not set.
IsSet(src, raw) == raw # Unset /\ (src = "env" => raw # Empty)

\* GetInt: what is not an integer counts as zero, in every provider.
IntOf(raw) == IF raw[1] = "int" THEN raw[2] ELSE 0

\* GetString: the text of the value.
WordOf(raw) == IF raw[1] = "word" THEN raw[2] ELSE "a number"

\* A field: its type, its guard, its default (Unset if it has none) and the
\* sources of its tag.
Field(kind, guard, default, sources) ==
    [kind |-> kind, guard |-> guard, default |-> default, sources |-> sources]

NoFlag == {"file", "env", "default"}
Credential == {"file", "env"}
All == {"file", "flag", "env", "default"}

\* parseSources
Allowed(field) == field.sources

\* populateField, setFromDefaultTag, ExtractDefaults: the allowed source of
\* the highest rank in which the key is set; zero or "" without one.
Populated(field, says) ==
    LET set == {src \in Allowed(field) : IsSet(src, says[src])}
        top == CHOOSE src \in set : \A other \in set : Rank(other) <= Rank(src)
        raw == IF set = {} THEN Unset ELSE says[top]
    IN  IF field.kind = "int" THEN <<"int", IntOf(raw)>>
        ELSE IF raw = Unset THEN Empty ELSE <<"word", WordOf(raw)>>

-----------------------------------------------------------------------------
(* The fields and their guards.                                            *)

ClientFields ==
    [server |-> Field("word", "any", <<"word", "http://localhost">>, All),
     port |-> Field("int", "port", <<"int", 8883>>, All),
     log_level |-> Field("word", "level", <<"word", "info">>, NoFlag),
     sn |-> Field("word", "nonempty", Unset, Credential),
     token |-> Field("word", "nonempty", Unset, Credential),
     max_retry |-> Field("int", "nonneg", <<"int", 10>>, NoFlag),
     retry_interval |-> Field("int", "nonneg", <<"int", 5000>>, NoFlag),
     buffer_size |-> Field("int", "positive", <<"int", 1000>>, NoFlag),
     upload_batch_size |-> Field("int", "positive", <<"int", 100>>, NoFlag),
     upload_interval |-> Field("int", "positive", <<"int", 5000>>, NoFlag),
     data_path |-> Field("word", "nonempty", <<"word", "./data/data.db">>, NoFlag),
     log_max_size |-> Field("int", "any", <<"int", 10>>, NoFlag)]

ServerFields ==
    [port |-> Field("int", "port", <<"int", 8883>>, All),
     log_level |-> Field("word", "level", <<"word", "info">>, NoFlag),
     redis_password |-> Field("word", "any", Unset, Credential),
     redis_db |-> Field("int", "any", <<"int", 0>>, NoFlag),
     pg_host |-> Field("word", "nonempty", <<"word", "127.0.0.1">>, NoFlag),
     pg_dbname |-> Field("word", "nonempty", <<"word", "lepgs">>, NoFlag)]

Levels == {"debug", "info", "warn", "error"}

\* The guards of ClientConfig.Validate and ServerConfig.Validate.
Meets(guard, v) ==
    CASE guard = "port" -> v[2] > 0 /\ v[2] <= 65535
      [] guard = "positive" -> v[2] > 0
      [] guard = "nonneg" -> v[2] >= 0
      [] guard = "nonempty" -> v # Empty
      [] guard = "level" -> v[2] \in Levels
      [] OTHER -> TRUE

\* All errors are collected; one is enough to refuse.
ValidSettings(fields, settings) ==
    \A key \in DOMAIN fields : Meets(fields[key].guard, settings[key])

-----------------------------------------------------------------------------
(* Devices, points, topics, outputs.                                       *)

FunctionCodes == {1, 2, 3, 4, 5, 6, 16}
WriteCodes == {5, 6, 16}
Orders == {"abcd", "dcba", "badc", "cdab"}

\* ModbusPointConfig.Validate: the byte order of a type of two registers is
\* filled in; neither the scale nor how many registers the type needs is
\* looked at.  one and two are the sets of types of one and of two registers.
ValidPoint(p, one, two) ==
    /\ p.named
    /\ p.fc \in FunctionCodes
    /\ ~(p.access = "ro" /\ p.fc \in WriteCodes)
    /\ p.dt \in one \cup two
    /\ p.dt \in two => p.order \in Orders \cup {""}
    /\ p.dt \notin two => p.order \in {"", "abcd"}
    /\ p.quantity > 0

\* The point as the validation leaves it.
Normalised(p, two) ==
    IF p.dt \in two /\ p.order = "" THEN [p EXCEPT !.order = "abcd"] ELSE p

\* DeviceConfig.Validate
ValidDevice(d, one, two) ==
    /\ d.name # ""
    /\ d.type \in {"rtu", "tcp"}
    /\ d.type \in d.sections
    /\ d.slave \in 1..247
    /\ d.points # <<>>
    /\ \A i \in DOMAIN d.points : ValidPoint(d.points[i], one, two)

\* The names of one list are unique; the other list is not looked at.
Distinct(list) ==
    Cardinality({list[i].name : i \in DOMAIN list}) = Len(list)

\* TopicConfig.Validate, validateSource, validateDataType.
ValidTopic(t, types) ==
    /\ t.topic # "" /\ t.point_name # ""
    /\ t.qos <= 2
    /\ t.source.format \in {"json", "plain", "kv"}
    /\ t.source.format # "plain" => t.source.path # <<>>
    /\ t.data_type \in types

\* MqttConfig.Validate, MQTTDeviceConfig.Validate.
ValidMqtt(m, types) ==
    /\ m.broker_addr # ""
    /\ m.devices # <<>>
    /\ \A i \in DOMAIN m.devices :
          /\ m.devices[i].name # ""
          /\ m.devices[i].topics # <<>>
          /\ \A j \in DOMAIN m.devices[i].topics :
                ValidTopic(m.devices[i].topics[j], types)
    /\ Distinct(m.devices)

\* OutputConfig.Validate
ValidOutput(o) ==
    /\ o.name # ""
    /\ o.type \in {"thingsboard-mqtt", "thingsboard-http"}
    /\ o.host # "" /\ o.token # ""
=============================================================================
