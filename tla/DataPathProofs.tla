--------------------------- MODULE DataPathProofs ---------------------------
(***************************************************************************)
(* Proofs about DataPath, for every value of its constants:                *)
(*   - what is loaded with GatewayConfig, whatever the sources say;        *)
(*   - the texts of values, which both readers of them take back;          *)
(*   - the stream of frames, with WireCodecProofs (StreamInv);             *)
(*   - what is read of a Modbus device and written to it (DeviceInv);      *)
(*   - the readings that are cached and sent (PathInv), and the documents  *)
(*     that the server makes of them (DocsInv).                            *)
(* Inv, their conjunction, is inductive; the theorems follow from it.      *)
(***************************************************************************)
EXTENDS DataPath, WireCodecProofs

(* Settings                                                                *)

Sources == {"default", "env", "file", "flag"}

\* The place of each source in the chain: the command line is asked first, the
\* default last.
LEMMA Ranks ==
    Rank("default") = 1 /\ Rank("env") = 2 /\ Rank("file") = 3 /\ Rank("flag") = 4
  <1>1. /\ DOMAIN Chain = 1..4
        /\ Chain[1] = "default" /\ Chain[2] = "env" /\ Chain[3] = "file" /\ Chain[4] = "flag"
    BY DEF Chain
  <1>2. /\ (CHOOSE i \in 1..4 : Chain[i] = "default") = 1
        /\ (CHOOSE i \in 1..4 : Chain[i] = "env") = 2
        /\ (CHOOSE i \in 1..4 : Chain[i] = "file") = 3
        /\ (CHOOSE i \in 1..4 : Chain[i] = "flag") = 4
    BY <1>1
  <1> QED BY <1>1, <1>2 DEF Rank

\* Among sources one was asked before all others.
LEMMA FirstAsked ==
    ASSUME NEW set \in SUBSET Sources, set # {}
    PROVE  \E s \in set : \A other \in set : Rank(other) <= Rank(s)
  <1>1. CASE "flag" \in set
    BY <1>1, Ranks DEF Sources
  <1>2. CASE "flag" \notin set /\ "file" \in set
    BY <1>2, Ranks DEF Sources
  <1>3. CASE "flag" \notin set /\ "file" \notin set /\ "env" \in set
    BY <1>3, Ranks DEF Sources
  <1>4. CASE "flag" \notin set /\ "file" \notin set /\ "env" \notin set
    <2>1. PICK s \in set : TRUE
      OBVIOUS
    <2>2. \A other \in set : other = "default"
      BY <1>4 DEF Sources
    <2> QED BY <2>1, <2>2, Ranks
  <1> QED BY <1>1, <1>2, <1>3, <1>4

\* The sources with a lower rank, as AcceptedIsMeant lists them.
LEMMA AskedLater ==
    ASSUME NEW s \in Sources, NEW other \in Sources, Rank(other) <= Rank(s)
    PROVE  other = s \/ <<other, s>> \in
             {<<"default", "env">>, <<"default", "file">>, <<"default", "flag">>,
              <<"env", "file">>, <<"env", "flag">>, <<"file", "flag">>}
  BY Ranks DEF Sources

\* What populateField makes of a field of which some allowed source says
\* something: the text of the one that is asked first, as a value of its kind.
LEMMA PopulatedIs ==
    ASSUME NEW f, NEW says, f.sources \subseteq Sources,
           {s \in f.sources : IsSet(s, says[s])} # {}
    PROVE  \E s \in {src \in f.sources : IsSet(src, says[src])} :
             /\ \A other \in {src \in f.sources : IsSet(src, says[src])} :
                    Rank(other) <= Rank(s)
             /\ Populated(f, says) =
                  IF f.kind = "int" THEN <<"int", IntOf(says[s])>>
                  ELSE <<"word", WordOf(says[s])>>
  <1> DEFINE set == {src \in f.sources : IsSet(src, says[src])}
             top == CHOOSE src \in set : \A other \in set : Rank(other) <= Rank(src)
  <1>1. top \in set /\ \A other \in set : Rank(other) <= Rank(top)
    <2>1. \E s \in set : \A other \in set : Rank(other) <= Rank(s)
      BY FirstAsked
    <2> QED BY <2>1
  <1>2. says[top] # Unset
    BY <1>1 DEF IsSet
  <1>3. Populated(f, says) =
          IF f.kind = "int" THEN <<"int", IntOf(says[top])>>
          ELSE IF says[top] = Unset THEN Empty ELSE <<"word", WordOf(says[top])>>
    <2>1. Populated(f, says) =
            LET raw == IF set = {} THEN Unset ELSE says[top]
            IN  IF f.kind = "int" THEN <<"int", IntOf(raw)>>
                ELSE IF raw = Unset THEN Empty ELSE <<"word", WordOf(raw)>>
      BY DEF Populated, Allowed
    <2>2. set # {}
      OBVIOUS
    <2> HIDE DEF set, top
    <2> QED BY <2>1, <2>2
  <1> QED BY <1>1, <1>2, <1>3

\* What it makes of a field of which none says anything.
LEMMA PopulatedFromNothing ==
    ASSUME NEW f, NEW says, {s \in f.sources : IsSet(s, says[s])} = {}
    PROVE  Populated(f, says) \in {<<"int", 0>>, Empty}
  BY DEF Populated, Allowed, IntOf, Unset

\* The fields of both programs have their sources in the chain, a default that
\* the provider can say, and a guard that fits their kind.
WellFormed(f) ==
    /\ f.sources \subseteq Sources
    /\ IsText(f.default)
    /\ f.kind = "int" => f.guard \in {"port", "positive", "nonneg", "any"}

\* Every field of the gateway fits.
LEMMA ClientFieldsFit == \A key \in DOMAIN ClientFields : WellFormed(ClientFields[key])
  <1>1. /\ WellFormed(ClientFields.server)
        /\ WellFormed(ClientFields.port)
        /\ WellFormed(ClientFields.log_level)
    BY DEF ClientFields, Field, All, NoFlag, Credential, WellFormed, Sources, IsText, Unset
  <1>2. /\ WellFormed(ClientFields.sn)
        /\ WellFormed(ClientFields.token)
        /\ WellFormed(ClientFields.max_retry)
    BY DEF ClientFields, Field, All, NoFlag, Credential, WellFormed, Sources, IsText, Unset
  <1>3. /\ WellFormed(ClientFields.retry_interval)
        /\ WellFormed(ClientFields.buffer_size)
        /\ WellFormed(ClientFields.upload_batch_size)
    BY DEF ClientFields, Field, All, NoFlag, Credential, WellFormed, Sources, IsText, Unset
  <1>4. /\ WellFormed(ClientFields.upload_interval)
        /\ WellFormed(ClientFields.data_path)
        /\ WellFormed(ClientFields.log_max_size)
    BY DEF ClientFields, Field, All, NoFlag, Credential, WellFormed, Sources, IsText, Unset
  <1>5. DOMAIN ClientFields =
          {"server", "port", "log_level", "sn", "token", "max_retry", "retry_interval",
           "buffer_size", "upload_batch_size", "upload_interval", "data_path",
           "log_max_size"}
    BY DEF ClientFields
  <1> QED BY <1>1, <1>2, <1>3, <1>4, <1>5

\* Every field of the server fits.
LEMMA ServerFieldsFit == \A key \in DOMAIN ServerFields : WellFormed(ServerFields[key])
  <1>1. /\ WellFormed(ServerFields.port)
        /\ WellFormed(ServerFields.log_level)
        /\ WellFormed(ServerFields.redis_password)
    BY DEF ServerFields, Field, All, NoFlag, Credential, WellFormed, Sources, IsText, Unset
  <1>2. /\ WellFormed(ServerFields.redis_db)
        /\ WellFormed(ServerFields.pg_host)
        /\ WellFormed(ServerFields.pg_dbname)
    BY DEF ServerFields, Field, All, NoFlag, Credential, WellFormed, Sources, IsText, Unset
  <1>3. DOMAIN ServerFields =
          {"port", "log_level", "redis_password", "redis_db", "pg_host", "pg_dbname"}
    BY DEF ServerFields
  <1> QED BY <1>1, <1>2, <1>3

\* Loading the settings of either program keeps AcceptedIsMeant.
LEMMA LoadIsMeant ==
    ASSUME WordsAssumption, NEW fields, \A key \in DOMAIN fields : WellFormed(fields[key]),
           NEW rest \in BOOLEAN, NEW next, LoadSettings(fields, rest, next)
    PROVE  AcceptedIsMeant'
  <1>1. PICK key \in Keys \cap DOMAIN fields, file \in Words, dotenv \in Words,
             env \in Words, flag \in Words, loads \in BOOLEAN :
          LET says == Says(fields, key, file, dotenv, env, flag, loads)
              settings == [k \in DOMAIN fields |-> Populated(fields[k], says[k])]
          IN  \/ conf' = None
              \/ /\ ValidSettings(fields, settings)
                 /\ conf' = [field |-> fields[key], says |-> says[key], value |-> settings[key]]
    <2>1. PICK key \in Keys \cap DOMAIN fields, file \in Words, dotenv \in Words,
               env \in Words, flag \in Words, loads \in BOOLEAN :
               LET says == Says(fields, key, file, dotenv, env, flag, loads)
                   settings == [k \in DOMAIN fields |-> Populated(fields[k], says[k])]
               IN  /\ fields[key].kind = "int" => flag[1] # "word"
                   /\ IF ValidSettings(fields, settings) /\ (loads => rest)
                      THEN /\ phase' = next
                           /\ conf' = [field |-> fields[key], says |-> says[key],
                                       value |-> settings[key]]
                      ELSE /\ phase' = "refused"
                           /\ conf' = None
      BY DEF LoadSettings
    <2> QED BY <2>1
  <1> DEFINE f == fields[key]
             raws == Says(fields, key, file, dotenv, env, flag, loads)[key]
             value == Populated(f, raws)
             set == {s \in f.sources : IsSet(s, raws[s])}
  <1>2. CASE conf' = None
    BY <1>2 DEF AcceptedIsMeant
  <1>3. CASE conf' # None
    <2>1. /\ conf'.field = f /\ conf'.says = raws /\ conf'.value = value
          /\ Meets(f.guard, value)
      BY <1>1, <1>3 DEF ValidSettings
    <2>2. WellFormed(f)
      OBVIOUS
    <2>3. \A s \in Sources : IsText(raws[s])
      <3>1. raws = [default |-> f.default, env |-> env, file |-> FileSays(file, dotenv, loads),
                    flag |-> FlagSays(key, flag)]
        BY DEF Says
      <3>2. /\ IsText(f.default) /\ IsText(env)
            /\ IsText(FileSays(file, dotenv, loads)) /\ IsText(FlagSays(key, flag))
        BY <2>2 DEF WellFormed, WordsAssumption, FileSays, FlagSays, IsText
      <3> QED BY <3>1, <3>2 DEF Sources
    <2> HIDE DEF raws, f
    <2>4. CASE set = {}
      <3>1. value \in {<<"int", 0>>, Empty}
        BY <2>4, PopulatedFromNothing
      <3> QED BY <2>1, <2>4, <3>1 DEF AcceptedIsMeant
    <2>5. CASE set # {}
      <3>1. PICK s \in set :
              /\ \A other \in set : Rank(other) <= Rank(s)
              /\ value = IF f.kind = "int" THEN <<"int", IntOf(raws[s])>>
                         ELSE <<"word", WordOf(raws[s])>>
        BY <2>2, <2>5, PopulatedIs DEF WellFormed
      <3>2. \A other \in set : other = s \/ <<other, s>> \in
               {<<"default", "env">>, <<"default", "file">>, <<"default", "flag">>,
                <<"env", "file">>, <<"env", "flag">>, <<"file", "flag">>}
        BY <2>2, <3>1, AskedLater DEF WellFormed
      <3>3. \/ raws[s] = <<"int", raws[s][2]>>
            \/ raws[s] = <<"word", raws[s][2]>>
        BY <2>2, <2>3 DEF WellFormed, IsSet, IsText
      <3>4. \/ Spells(raws[s], f, value)
            \/ /\ f.kind = "int" /\ raws[s][1] # "int" /\ value = <<"int", 0>>
               /\ f.guard \in {"nonneg", "any"}
        <4>1. CASE f.kind # "int"
          <5>1. CASE raws[s][1] = "int"
            BY <4>1, <5>1 DEF Spells
          <5>2. CASE raws[s][1] # "int"
            <6>1. raws[s] = <<"word", raws[s][2]>> /\ raws[s][1] = "word"
              BY <3>3, <5>2
            <6> QED BY <3>1, <4>1, <6>1 DEF Spells, WordOf
          <5> QED BY <5>1, <5>2
        <4>2. CASE f.kind = "int" /\ raws[s][1] = "int"
          BY <3>1, <3>3, <4>2 DEF Spells, IntOf
        <4>3. CASE f.kind = "int" /\ raws[s][1] # "int"
          <5>1. value = <<"int", 0>>
            BY <3>1, <4>3 DEF IntOf
          <5>2. f.guard \notin {"port", "positive"}
            BY <2>1, <5>1 DEF Meets
          <5> QED BY <2>2, <4>3, <5>1, <5>2 DEF WellFormed
        <4> QED BY <4>1, <4>2, <4>3
      <3> QED BY <2>1, <3>1, <3>2, <3>4 DEF AcceptedIsMeant
    <2> QED BY <2>4, <2>5
  <1> QED BY <1>2, <1>3

\* A setting of an accepted configuration is exactly what the source says that
\* its tag allows and that is asked first, whatever the others say; a text that
\* is no integer counts as zero only where the guard lets zero pass.
THEOREM SettingsAreMeant == Spec => []AcceptedIsMeant
  <1>1. Init => AcceptedIsMeant
    BY DEF Init, AcceptedIsMeant
  <1>2. AcceptedIsMeant /\ [Next]_vars => AcceptedIsMeant'
    <2> SUFFICES ASSUME AcceptedIsMeant, [Next]_vars PROVE AcceptedIsMeant'
      OBVIOUS
    <2>1. CASE LoadClientSettings
      BY <2>1, LoadIsMeant, ClientFieldsFit, WordsAssumption DEF LoadClientSettings
    <2>2. CASE LoadServerSettings
      <3>1. PICK o \in Outputs : LoadSettings(ServerFields, ValidOutput(o), "serving")
        BY <2>2 DEF LoadServerSettings
      <3>2. ValidOutput(o) \in BOOLEAN
        BY DEF ValidOutput
      <3> QED BY <3>1, <3>2, LoadIsMeant, ServerFieldsFit, WordsAssumption
    <2>3. CASE LoadDevices
      BY <2>3 DEF LoadDevices, AcceptedIsMeant
    <2>4. CASE UNCHANGED conf
      BY <2>4 DEF AcceptedIsMeant
    <2> QED BY <2>1, <2>2, <2>3, <2>4
            DEF Next, vars, PollOnce, ExecuteWrite, HandleMqttReading, WriteHandshake, WriteUpload,
                WriteHeartbeat, WriteNotify, Cut, ReadFrame
  <1> QED BY <1>1, <1>2, PTL DEF Spec

-----------------------------------------------------------------------------
(* Numbers in parts of 1/One and their operations                          *)

\* Two bytes, and four, hold more than the codes of the numbers that are not
\* finite.
LEMMA Widths ==
    /\ Power(2) \in Nat /\ Power(2) >= 100
    /\ Power(4) \in Nat /\ Power(4) >= 10000 /\ Power(2) <= Power(4)
  <1>0. Base \in Nat /\ Base >= 10
    BY BaseAssumption, WidthAssumption
  <1>1. ASSUME NEW a \in Nat, NEW b \in Nat, a >= b PROVE Base * a \in Nat /\ Base * a >= 10 * b
    <2>1. PICK c \in Nat : Base = 10 + c
      <3>1. Base - 10 \in Nat /\ Base = 10 + (Base - 10)
        BY <1>0
      <3> QED BY <3>1
    <2>2. (10 + c) * a = 10 * a + c * a /\ c * a \in Nat
      OBVIOUS
    <2> QED BY <1>1, <2>1, <2>2
  <1>2. PICK power \in [0..4 -> Nat] :
           power[0] = 1 /\ (\A i \in 1..4 : power[i] = Base * power[i - 1]) /\ Power(4) = power[4]
    BY PowerIs
  <1>3. /\ power[1] = Base * power[0] /\ power[2] = Base * power[1]
        /\ power[3] = Base * power[2] /\ power[4] = Base * power[3]
    <2>1. 1 - 1 = 0 /\ 2 - 1 = 1 /\ 3 - 1 = 2 /\ 4 - 1 = 3
      OBVIOUS
    <2>2. 1 \in 1..4 /\ 2 \in 1..4 /\ 3 \in 1..4 /\ 4 \in 1..4
      OBVIOUS
    <2> QED BY <1>2, <2>1, <2>2
  <1>4. power[1] \in Nat /\ power[1] >= 10
    BY <1>1, <1>2, <1>3, <1>0
  <1>5. power[2] \in Nat /\ power[2] >= 100
    BY <1>1, <1>3, <1>4
  <1>6. power[3] \in Nat /\ power[3] >= 1000
    BY <1>1, <1>3, <1>5
  <1>7. power[4] \in Nat /\ power[4] >= 10000
    BY <1>1, <1>3, <1>6
  <1>8. PICK two \in [0..2 -> Nat] :
           two[0] = 1 /\ (\A i \in 1..2 : two[i] = Base * two[i - 1]) /\ Power(2) = two[2]
    BY PowerIs
  <1>9. two[1] = power[1] /\ two[2] = power[2]
    <2>1. 1 - 1 = 0 /\ 2 - 1 = 1
      OBVIOUS
    <2>2. 1 \in 1..2 /\ 2 \in 1..2
      OBVIOUS
    <2> QED BY <1>2, <1>3, <1>8, <2>1, <2>2
  <1>10. power[2] <= power[4]
    <2>1. power[3] >= 10 * power[2] /\ power[4] >= 10 * power[3]
      BY <1>1, <1>3, <1>5, <1>6
    <2> QED BY <1>5, <1>6, <1>7, <2>1
  <1> QED BY <1>2, <1>5, <1>7, <1>8, <1>9, <1>10

\* A multiple is its quotient times the divisor.
LEMMA Divides ==
    ASSUME NEW s \in Nat, s > 0, NEW a \in Int, a % s = 0
    PROVE  a = (a \div s) * s
  <1>1. a = (a \div s) * s + (a % s)
    OBVIOUS
  <1>2. PICK x \in Int : x = (a \div s) * s
    OBVIOUS
  <1> QED BY <1>1, <1>2

\* The quotient and the remainder are the only ones.
LEMMA Quotients ==
    ASSUME NEW s \in Nat, s > 0, NEW a \in Int, NEW q \in Int, NEW r \in Int,
           a = q * s + r, r >= 0, r < s
    PROVE  a \div s = q /\ a % s = r
  <1>1. PICK x \in Int : x = a \div s
    OBVIOUS
  <1>2. PICK y \in Int : y = a % s /\ y >= 0 /\ y < s
    OBVIOUS
  <1>3. a = x * s + y
    <2>1. a = s * (a \div s) + (a % s)
      OBVIOUS
    <2>2. s * x = x * s
      OBVIOUS
    <2> QED BY <1>1, <1>2, <2>1, <2>2
  <1>4. ~(x > q)
    <2>1. SUFFICES ASSUME x > q PROVE FALSE
      OBVIOUS
    <2>2. PICK c \in Nat : x = q + 1 + c
      <3>1. x - q - 1 \in Nat /\ x = q + 1 + (x - q - 1)
        BY <2>1
      <3> QED BY <3>1
    <2>3. x * s = q * s + s + c * s /\ c * s \in Nat
      BY <2>2
    <2>4. PICK u \in Int, z \in Nat : u = q * s /\ z = c * s
      BY <2>3
    <2> QED BY <1>2, <1>3, <2>3, <2>4
  <1>5. ~(x < q)
    <2>1. SUFFICES ASSUME x < q PROVE FALSE
      OBVIOUS
    <2>2. PICK c \in Nat : q = x + 1 + c
      <3>1. q - x - 1 \in Nat /\ q = x + 1 + (q - x - 1)
        BY <2>1
      <3> QED BY <3>1
    <2>3. q * s = x * s + s + c * s /\ c * s \in Nat
      BY <2>2
    <2>4. PICK u \in Int, z \in Nat : u = x * s /\ z = c * s
      BY <2>3
    <2> QED BY <1>2, <1>3, <2>3, <2>4
  <1>6. x = q
    BY <1>4, <1>5
  <1>7. y = r
    <2>1. PICK u \in Int : u = q * s
      OBVIOUS
    <2> QED BY <1>3, <1>6, <2>1
  <1> QED BY <1>1, <1>2, <1>6, <1>7

\* A whole number in parts of 1/One.
LEMMA WholeNumber ==
    ASSUME NEW k \in Int
    PROVE  /\ One * k \in Int /\ (One * k) % One = 0 /\ (One * k) \div One = k
           /\ TowardZero(One * k) = k
  <1>1. One \in Nat /\ One > 0
    BY FloatAssumption
  <1>2. ASSUME NEW i \in Int PROVE (One * i) % One = 0 /\ (One * i) \div One = i
    <2>1. One * i \in Int /\ One * i = i * One + 0
      BY <1>1
    <2> QED BY <1>1, <2>1, Quotients
  <1>3. CASE k >= 0
    <2>1. One * k >= 0
      BY <1>1, <1>3
    <2> QED BY <1>1, <1>2, <2>1 DEF TowardZero
  <1>4. CASE k < 0
    <2>1. PICK i \in Nat : i = -k /\ i > 0
      BY <1>4
    <2>2. One * k = -(One * i) /\ One * i > 0
      BY <1>1, <2>1
    <2>3. PICK x \in Int : x = One * k /\ -x = One * i /\ x < 0
      BY <1>1, <2>2
    <2>4. TowardZero(x) = -((One * i) \div One)
      BY <2>3 DEF TowardZero
    <2>5. TowardZero(x) = -i
      BY <1>2, <2>1, <2>4
    <2> QED BY <1>1, <1>2, <2>1, <2>3, <2>5
  <1> QED BY <1>3, <1>4

\* What is rounded to the nearest integer is at most half of one away from it.
LEMMA NearestIs ==
    ASSUME NEW n \in Int, NEW d \in Nat, d > 0
    PROVE  /\ NearestEven(n, d) \in Int
           /\ 2 * (NearestEven(n, d) * d) - 2 * n <= d
           /\ 2 * n - 2 * (NearestEven(n, d) * d) <= d
  <1>1. PICK q \in Int, r \in Int : q = n \div d /\ r = n % d /\ r >= 0 /\ r < d
    OBVIOUS
  <1>2. n = q * d + r
    <2>1. n = d * (n \div d) + (n % d)
      OBVIOUS
    <2>2. d * q = q * d
      OBVIOUS
    <2> QED BY <1>1, <2>1, <2>2
  <1>3. NearestEven(n, d) = IF 2 * r < d \/ (2 * r = d /\ q % 2 = 0) THEN q ELSE q + 1
    BY <1>1 DEF NearestEven
  <1>4. PICK x \in Int : x = q * d /\ (q + 1) * d = x + d
    OBVIOUS
  <1>5. CASE NearestEven(n, d) = q /\ 2 * r <= d
    BY <1>1, <1>2, <1>4, <1>5
  <1>6. CASE NearestEven(n, d) = q + 1 /\ 2 * r >= d
    BY <1>1, <1>2, <1>4, <1>6
  <1> QED BY <1>1, <1>3, <1>5, <1>6

\* An integer is its own nearest.
LEMMA NearestToItself ==
    ASSUME NEW j \in Int, NEW d \in Nat, d > 0
    PROVE  NearestEven(j * d, d) = j
  <1>1. PICK n \in Int : n = j * d
    OBVIOUS
  <1>2. n \div d = j /\ n % d = 0
    BY <1>1, Quotients
  <1> QED BY <1>1, <1>2 DEF NearestEven

\* The floating-point numbers of a format are integers, and so is what an
\* operation makes of them.
LEMMA RoundedIs ==
    ASSUME NEW n \in Int, NEW d \in Nat, d > 0,
           NEW largest \in Nat, NEW ulp \in [0..largest -> Nat \ {0}]
    PROVE  RoundedTo(n, d, ulp, largest) \in Int
  <1> DEFINE m == Abs(n) \div d
  <1>0. Inf \in Int
    BY FloatAssumption DEF Inf
  <1>1. m \in Nat
    <2>1. Abs(n) \in Nat
      BY DEF Abs
    <2> QED BY <2>1
  <1>2. CASE m > largest
    BY <1>0, <1>2 DEF RoundedTo
  <1>3. CASE ~(m > largest)
    <2>1. ulp[m] \in Nat /\ ulp[m] > 0
      BY <1>1, <1>3
    <2>2. d * ulp[m] \in Nat /\ d * ulp[m] > 0
      BY <2>1
    <2>3. NearestEven(n, d * ulp[m]) \in Int
      BY <2>2, NearestIs
    <2>4. ulp[m] * NearestEven(n, d * ulp[m]) \in Int
      BY <2>1, <2>3
    <2> QED BY <1>0, <1>3, <2>4 DEF RoundedTo
  <1> QED BY <1>2, <1>3

LEMMA OperationsAre ==
    ASSUME NEW a \in Int, NEW b \in Int
    PROVE  Product(a, b) \in Int /\ Sum(a, b) \in Int /\ Quotient(a, b) \in Int /\ Narrow(a) \in Int
  <1>1. /\ One \in Nat /\ One > 0 /\ Largest \in Nat /\ Largest32 \in Nat
        /\ Ulp64 \in [0..Largest -> Nat \ {0}] /\ Ulp32 \in [0..Largest32 -> Nat \ {0}]
    BY FloatAssumption
  <1>2. Inf \in Int /\ NaN \in Int
    BY <1>1 DEF Inf, NaN
  <1>3. ASSUME NEW n \in Int, NEW d \in Nat, d > 0 PROVE Rounded(n, d) \in Int
    BY <1>1, <1>3, RoundedIs DEF Rounded
  <1>4. Product(a, b) \in Int
    <2>1. a * b \in Int
      OBVIOUS
    <2> QED BY <1>1, <1>2, <1>3, <2>1 DEF Product
  <1>5. Sum(a, b) \in Int
    <2>1. a + b \in Int
      OBVIOUS
    <2> QED BY <1>1, <1>2, <1>3, <2>1 DEF Sum
  <1>6. Quotient(a, b) \in Int
    <2>1. a * One \in Int /\ -a * One \in Int
      BY <1>1
    <2>2. CASE b > 0
      <3>1. Rounded(a * One, b) \in Int
        BY <1>3, <2>1, <2>2
      <3> QED BY <1>2, <2>2, <3>1 DEF Quotient
    <2>3. CASE b < 0
      <3>1. Rounded(-a * One, -b) \in Int
        BY <1>3, <2>1, <2>3
      <3> QED BY <1>2, <2>3, <3>1 DEF Quotient
    <2>4. CASE b = 0
      BY <1>2, <2>4 DEF Quotient
    <2> QED BY <2>2, <2>3, <2>4
  <1>7. Narrow(a) \in Int
    <2>1. RoundedTo(a, 1, Ulp32, Largest32) \in Int
      <3>1. 1 \in Nat /\ 1 > 0
        OBVIOUS
      <3> QED BY <1>1, <3>1, RoundedIs, Zenon
    <2> QED BY <2>1 DEF Narrow
  <1> QED BY <1>4, <1>5, <1>6, <1>7

\* Integers are compared by what they are multiplied to.
LEMMA Factor ==
    ASSUME NEW a \in Int, NEW b \in Int, NEW s \in Nat, s > 0
    PROVE  /\ a <= b => a * s <= b * s
           /\ a * s < b * s => a < b
  <1>1. ASSUME a <= b PROVE a * s <= b * s
    <2>1. PICK c \in Nat : b = a + c
      <3>1. b - a \in Nat /\ b = a + (b - a)
        BY <1>1
      <3> QED BY <3>1
    <2>2. b * s = a * s + c * s /\ c * s \in Nat /\ a * s \in Int
      BY <2>1
    <2> QED BY <2>2
  <1>2. ASSUME b <= a PROVE b * s <= a * s
    <2>1. PICK c \in Nat : a = b + c
      <3>1. a - b \in Nat /\ a = b + (a - b)
        BY <1>2
      <3> QED BY <3>1
    <2>2. a * s = b * s + c * s /\ c * s \in Nat /\ b * s \in Int
      BY <2>1
    <2> QED BY <2>2
  <1>3. a * s \in Int /\ b * s \in Int
    OBVIOUS
  <1>4. a < b \/ b <= a
    OBVIOUS
  <1> QED BY <1>1, <1>2, <1>3, <1>4

\* n / d rounded, for a quotient that float64s around it are the parts u of.
LEMMA RoundedNear ==
    ASSUME NEW n \in Int, NEW d \in Nat, d > 0, NEW u \in Nat, u > 0,
           Abs(n) \div d \in 0..Largest, u = Ulp64[Abs(n) \div d]
    PROVE  LET j == NearestEven(n, d * u)
           IN  /\ j \in Int /\ 2 * (j * (d * u)) - 2 * n <= d * u
               /\ 2 * n - 2 * (j * (d * u)) <= d * u
               /\ Abs(u * j) <= Largest => Rounded(n, d) = u * j
  <1>1. d * u \in Nat /\ d * u > 0
    OBVIOUS
  <1>2. PICK m \in 0..Largest : m = Abs(n) \div d
    OBVIOUS
  <1>3. Largest \in Nat
    BY FloatAssumption
  <1>4. ~(m > Largest)
    BY <1>3
  <1>5. ASSUME Abs(u * NearestEven(n, d * u)) <= Largest
        PROVE  Rounded(n, d) = u * NearestEven(n, d * u)
    <2>1. u * NearestEven(n, d * u) \in Int
      <3>1. NearestEven(n, d * u) \in Int
        BY <1>1, NearestIs
      <3> QED BY <3>1
    <2>2. ~(Abs(u * NearestEven(n, d * u)) > Largest)
      BY <1>3, <1>5, <2>1 DEF Abs
    <2> QED BY <1>2, <1>4, <2>2, Zenon DEF Rounded, RoundedTo
  <1> QED BY <1>1, <1>5, NearestIs

\* i / k cut off, if i * b is at most b/2 beside n * k.
LEMMA Cuts ==
    ASSUME NEW n \in Int, NEW b \in Nat, b > 0, NEW k \in Nat, k > 0,
           NEW hi \in Nat, NEW j \in Nat, j <= hi * k,
           2 * (j * b) - 2 * (n * k) <= b, 2 * (n * k) - 2 * (j * b) <= b
    PROVE  /\ j \div k \in 0..hi
           /\ (j \div k) * b - n < b /\ n - (j \div k) * b < b
  <1>1. PICK q \in Nat, r \in Nat : q = j \div k /\ r < k /\ j = q * k + r
    <2>1. j = k * (j \div k) + (j % k) /\ j \div k \in Nat /\ j % k \in 0..(k - 1)
      OBVIOUS
    <2>2. k * (j \div k) = (j \div k) * k
      BY <2>1
    <2> QED BY <2>1, <2>2
  <1>2. q <= hi
    <2>1. SUFFICES ASSUME hi + 1 <= q PROVE FALSE
      OBVIOUS
    <2>2. (hi + 1) * k <= q * k /\ (hi + 1) * k = hi * k + k /\ hi * k \in Int /\ q * k \in Int
      BY <2>1, Factor
    <2> QED BY <1>1, <2>2
  <1>3. j * b = (q * b) * k + r * b
    BY <1>1
  <1>4. r * b >= 0 /\ r * b \in Int /\ r * b + b <= b * k /\ b * k \in Int
    <2>1. (r + 1) * b <= k * b /\ (r + 1) * b = r * b + b /\ k * b = b * k
      BY <1>1, Factor
    <2> QED BY <1>1, <2>1
  <1>5. PICK y \in Int : y = q * b
    OBVIOUS
  <1>6. PICK e \in Int, f \in Int, g \in Int : e = r * b /\ f = y * k /\ g = n * k
    BY <1>4
  <1>7. 2 * f + 2 * e - 2 * g <= b /\ 2 * g - 2 * f - 2 * e <= b
    <2>1. j * b = f + e
      BY <1>3, <1>5, <1>6
    <2> QED BY <1>6, <2>1
  <1>8. ~(n + b <= y)
    <2>1. SUFFICES ASSUME n + b <= y PROVE FALSE
      OBVIOUS
    <2>2. (n + b) * k <= y * k /\ (n + b) * k = n * k + b * k
      BY <2>1, Factor
    <2> QED BY <1>4, <1>6, <1>7, <2>2
  <1>9. ~(y + b <= n)
    <2>1. SUFFICES ASSUME y + b <= n PROVE FALSE
      OBVIOUS
    <2>2. (y + b) * k <= n * k /\ (y + b) * k = y * k + b * k
      BY <2>1, Factor
    <2> QED BY <1>4, <1>6, <1>7, <2>2
  <1> QED BY <1>1, <1>2, <1>5, <1>8, <1>9

\* Cut off to an integer, the quotient n / b in float64 is less than 1 beside
\* it, and in every range lo..hi of integers that it was in itself.
LEMMA CutOff ==
    ASSUME NEW n \in Int, NEW b \in Nat, b > 0,
           NEW lo \in -Power(4)..0, NEW hi \in 0..Power(4), lo * b <= n, n <= hi * b
    PROVE  LET raw == Rounded(n * One, b)
               w == TowardZero(raw)
           IN  /\ Finite(raw) /\ w \in lo..hi
               /\ w * b - n < b /\ n - w * b < b
  <1> DEFINE P == Power(4)
             N == n * One
             m == Abs(N) \div b
             u == Ulp64[m]
             k == One \div u
             j == NearestEven(N, b * u)
             raw == u * j
             w == TowardZero(raw)
  <1>1. /\ One \in Nat /\ One > 0 /\ Largest \in Nat /\ P \in Nat /\ P * One <= Largest
        /\ Ulp64 \in [0..Largest -> Nat \ {0}]
    BY FloatAssumption, Widths
  <1>2. N \in Int /\ P * One \in Nat
    BY <1>1
  <1>0. /\ lo \in Int /\ hi \in Int /\ -P \in Int /\ P \in Int /\ lo <= 0 /\ 0 <= hi
        /\ hi <= P /\ -P <= lo
    BY <1>1
  <1> HIDE DEF P
  \* The quotient is no greater than what four bytes can say.
  <1>3. m \in 0..(P * One)
    <2>1. Abs(N) <= (P * One) * b /\ Abs(N) \in Nat
      <3>1. hi * b <= P * b /\ (-P) * b <= lo * b
        BY <1>0, Factor
      <3>2. PICK x \in Int : x = P * b /\ -x <= n /\ n <= x /\ (-P) * b = -x
        <4>1. P * b \in Int /\ (-P) * b = -(P * b) /\ hi * b \in Int /\ lo * b \in Int
          BY <1>0
        <4> QED BY <3>1, <4>1
      <3>3. n * One <= x * One /\ (-x) * One <= n * One
        <4>1. -x \in Int
          OBVIOUS
        <4> QED BY <1>1, <3>2, <4>1, Factor
      <3>4. (-x) * One = -(x * One) /\ x * One \in Int /\ (P * One) * b = x * One
        BY <1>1, <3>2
      <3> QED BY <1>2, <3>3, <3>4 DEF Abs
    <2>2. PICK a \in Nat, t \in Nat : a = Abs(N) /\ t = P * One /\ a <= t * b
      BY <1>2, <2>1
    <2>3. PICK q \in Int, r \in Int : q = a \div b /\ r = a % b /\ r >= 0 /\ r < b
      OBVIOUS
    <2>4. a = q * b + r
      <3>1. a = b * (a \div b) + (a % b)
        OBVIOUS
      <3> QED BY <2>3, <3>1
    <2>5. q >= 0
      BY <2>3
    <2>6. ~(q > t)
      <3>1. SUFFICES ASSUME t + 1 <= q PROVE FALSE
        BY <2>2, <2>3
      <3>2. (t + 1) * b <= q * b
        BY <3>1, Factor
      <3>3. (t + 1) * b = t * b + b /\ t * b \in Int /\ q * b \in Int
        OBVIOUS
      <3> QED BY <2>2, <2>3, <2>4, <3>2, <3>3
    <2> QED BY <2>2, <2>3, <2>5, <2>6
  \* There the neighbours of a float64 are u apart, and One is k times that.
  <1>4. m \in 0..Largest /\ u \in Nat /\ u > 0
    BY <1>1, <1>2, <1>3
  <1>5. One % u = 0
    BY <1>3, FloatAssumption DEF P
  <1> HIDE DEF m
  <1> HIDE DEF u
  <1>6. k \in Nat /\ k > 0 /\ One = k * u
    <2>1. One = u * (One \div u) + (One % u) /\ One \div u \in Nat
      BY <1>1, <1>4
    <2>2. One = k * u /\ k \in Nat
      BY <1>4, <1>5, <2>1
    <2>3. k # 0
      BY <1>1, <1>4, <2>2
    <2> QED BY <2>2, <2>3
  <1>7. /\ j \in Int /\ 2 * (j * (b * u)) - 2 * N <= b * u /\ 2 * N - 2 * (j * (b * u)) <= b * u
        /\ Abs(raw) <= Largest => Rounded(N, b) = raw
    BY <1>2, <1>4, RoundedNear DEF m, u
  <1> HIDE DEF k, j
  <1>r. raw = u * j /\ w = TowardZero(raw)
    OBVIOUS
  <1> HIDE DEF raw, w
  \* Without the factor u.
  <1>8. 2 * (j * b) - 2 * (n * k) <= b /\ 2 * (n * k) - 2 * (j * b) <= b
    <2>1. PICK x \in Int : x = 2 * (j * b) - 2 * (n * k)
      <3>1. 2 * (j * b) - 2 * (n * k) \in Int
        BY <1>6, <1>7
      <3> QED BY <3>1
    <2>2. x * u = 2 * (j * (b * u)) - 2 * N
      <3>1. N = n * k * u
        BY <1>4, <1>6
      <3>2. (2 * (j * b) - 2 * (n * k)) * u = 2 * (j * (b * u)) - 2 * (n * k * u)
        BY <1>4, <1>6, <1>7
      <3> QED BY <2>1, <3>1, <3>2
    <2>3. x * u <= b * u /\ (-x) * u <= b * u /\ x * u \in Int /\ b * u \in Int
      BY <1>2, <1>4, <1>7, <2>1, <2>2
    <2>4. ~(b < x) /\ ~(b < -x)
      <3>1. ASSUME b + 1 <= x PROVE FALSE
        <4>1. (b + 1) * u <= x * u /\ (b + 1) * u = b * u + u
          BY <1>4, <2>1, <3>1, Factor
        <4> QED BY <1>4, <2>3, <4>1
      <3>2. ASSUME b + 1 <= -x PROVE FALSE
        <4>1. (b + 1) * u <= (-x) * u /\ (b + 1) * u = b * u + u
          BY <1>4, <2>1, <3>2, Factor
        <4> QED BY <1>4, <2>3, <4>1
      <3> QED BY <2>1, <3>1, <3>2
    <2>5. x <= b /\ -x <= b
      BY <2>4
    <2>6. PICK y \in Int, z \in Int : y = j * b /\ z = n * k
      BY <1>6, <1>7
    <2> QED BY <2>1, <2>5, <2>6
  \* j is between the ends of the range, which are multiples of k.
  <1>9. lo * k <= j /\ j <= hi * k
    <2>1. (lo * b) * k <= n * k /\ n * k <= (hi * b) * k
      BY <1>6, Factor
    <2>2. (lo * b) * k = (lo * k) * b /\ (hi * b) * k = (hi * k) * b
      BY <1>6
    <2>3. PICK l \in Int, h \in Int, z \in Int : l = lo * k /\ h = hi * k /\ z = n * k
      BY <1>6
    <2>4. l * b <= z /\ z <= h * b /\ l * b \in Int /\ h * b \in Int
      BY <2>1, <2>2, <2>3
    <2>5. ~(j < l)
      <3>1. SUFFICES ASSUME j + 1 <= l PROVE FALSE
        BY <1>7, <2>3
      <3>2. (j + 1) * b <= l * b /\ (j + 1) * b = j * b + b /\ j * b \in Int
        BY <1>7, <2>3, <3>1, Factor
      <3> QED BY <1>8, <2>3, <2>4, <3>2
    <2>6. ~(j > h)
      <3>1. SUFFICES ASSUME h + 1 <= j PROVE FALSE
        BY <1>7, <2>3
      <3>2. (h + 1) * b <= j * b /\ (h + 1) * b = h * b + b /\ j * b \in Int
        BY <1>7, <2>3, <3>1, Factor
      <3> QED BY <1>8, <2>3, <2>4, <3>2
    <2> QED BY <1>7, <2>3, <2>5, <2>6
  <1>10. raw \in Int /\ Abs(raw) <= Largest
    <2>1. raw = j * u /\ raw \in Int
      BY <1>4, <1>7, <1>r
    <2>2. (-P) * k <= j /\ j <= P * k
      <3>1. hi * k <= P * k /\ (-P) * k <= lo * k /\ hi * k \in Int /\ lo * k \in Int
        BY <1>0, <1>6, Factor
      <3>2. P * k \in Int /\ (-P) * k \in Int
        BY <1>0, <1>6
      <3> QED BY <1>7, <1>9, <3>1, <3>2
    <2>3. PICK l \in Int, h \in Int : l = (-P) * k /\ h = P * k
      BY <1>0, <1>6
    <2>5. l * u <= j * u /\ j * u <= h * u
      BY <1>4, <1>7, <2>2, <2>3, Factor
    <2>4. h * u = P * One /\ l * u = -(P * One)
      BY <1>0, <1>4, <1>6, <2>3
    <2> QED BY <1>1, <1>2, <2>1, <2>4, <2>5 DEF Abs
  \* Whole numbers are multiples of One, so that w is j / k cut off.
  <1>11. ASSUME NEW i \in Nat PROVE (i * u) \div One = i \div k
    <2>1. PICK q \in Int, r \in Int : q = i \div k /\ r = i % k /\ r >= 0 /\ r < k
      BY <1>6
    <2>2. i = q * k + r
      <3>1. i = k * (i \div k) + (i % k)
        BY <1>6
      <3> QED BY <1>6, <2>1, <3>1
    <2>3. i * u = q * One + r * u
      BY <1>4, <1>6, <2>1, <2>2
    <2>4. r * u >= 0 /\ r * u < One /\ r * u \in Int
      <3>1. (r + 1) * u <= k * u /\ (r + 1) * u = r * u + u
        BY <1>4, <1>6, <2>1, Factor
      <3>2. r * u \in Int /\ r * u >= 0
        BY <1>4, <2>1
      <3> QED BY <1>1, <1>4, <1>6, <3>1, <3>2
    <2>5. i * u \in Int
      BY <1>4
    <2> QED BY <1>1, <2>1, <2>3, <2>4, <2>5, Quotients
  <1>12. ASSUME j >= 0 PROVE w \in lo..hi /\ w * b - n < b /\ n - w * b < b
    <2>1. raw = j * u /\ raw >= 0 /\ j \in Nat
      BY <1>4, <1>7, <1>12, <1>r
    <2>2. w = j \div k
      BY <1>11, <2>1, <1>r DEF TowardZero
    <2>3. w \in 0..hi /\ w * b - n < b /\ n - w * b < b
      BY <1>0, <1>6, <1>8, <1>9, <2>1, <2>2, Cuts
    <2> QED BY <1>0, <2>3
  <1>13. ASSUME j < 0 PROVE w \in lo..hi /\ w * b - n < b /\ n - w * b < b
    <2>1. PICK i \in Nat : i = -j /\ i > 0
      BY <1>7, <1>13
    <2>2. raw = -(i * u) /\ raw < 0 /\ i * u \in Int
      <3>1. i * u > 0 /\ i * u \in Int
        BY <1>4, <2>1
      <3>2. u * j = -(i * u)
        BY <1>4, <1>7, <2>1
      <3> QED BY <1>r, <3>1, <3>2
    <2>3. w = -(i \div k)
      <3>1. w = -((-raw) \div One) /\ -raw = i * u
        BY <1>r, <1>10, <2>2 DEF TowardZero
      <3> QED BY <1>11, <3>1
    <2>4. PICK z \in Int, h \in Nat : z = -n /\ h = -lo
      BY <1>0
    <2>5. 2 * (i * b) - 2 * (z * k) <= b /\ 2 * (z * k) - 2 * (i * b) <= b
      <3>1. i * b = -(j * b) /\ z * k = -(n * k) /\ j * b \in Int /\ n * k \in Int
        BY <1>6, <1>7, <2>1, <2>4
      <3> QED BY <1>8, <3>1
    <2>6. i <= h * k
      <3>1. h * k = -(lo * k) /\ lo * k \in Int
        BY <1>0, <1>6, <2>4
      <3> QED BY <1>7, <1>9, <2>1, <3>1
    <2>7. PICK q \in 0..h : q = i \div k /\ q * b - z < b /\ z - q * b < b
      BY <1>6, <2>5, <2>6, Cuts
    <2>8. w = -q /\ w * b = -(q * b) /\ q * b \in Int
      BY <2>3, <2>7
    <2> QED BY <1>0, <2>4, <2>7, <2>8
  <1>14. Finite(raw) /\ raw = Rounded(n * One, b)
    BY <1>1, <1>7, <1>10 DEF Finite, Inf, NaN, Abs
  <1> QED BY <1>7, <1>12, <1>13, <1>14, <1>r

\* n / b in float64 is not 0 when the quotient is 1 or more.
LEMMA StaysAbove ==
    ASSUME NEW n \in Int, NEW b \in Nat, b > 0, Abs(n) >= b
    PROVE  Rounded(n * One, b) # 0
  <1> DEFINE N == n * One
             m == Abs(N) \div b
             u == Ulp64[m]
             j == NearestEven(N, b * u)
  <1>1. /\ One \in Nat /\ One > 0 /\ Largest \in Nat /\ Ulp64 \in [0..Largest -> Nat \ {0}]
        /\ Inf # 0
    BY FloatAssumption DEF Inf
  <1>2. N \in Int /\ Abs(N) \in Nat /\ Abs(N) >= b
    <2>1. CASE n >= b
      <3>1. b * 1 <= b * One /\ b * One <= n * One
        <4>1. 1 * b <= One * b
          BY <1>1, Factor
        <4>2. b * One <= n * One
          BY <1>1, <2>1, Factor
        <4> QED BY <1>1, <4>1, <4>2
      <3> QED BY <1>1, <3>1 DEF Abs
    <2>2. CASE -n >= b
      <3>1. b * One <= (-n) * One /\ 1 * b <= One * b
        <4>1. -n \in Int
          OBVIOUS
        <4> QED BY <1>1, <2>2, <4>1, Factor
      <3>2. (-n) * One = -(n * One) /\ n * One \in Int
        BY <1>1
      <3> QED BY <1>1, <3>1, <3>2 DEF Abs
    <2> QED BY <2>1, <2>2 DEF Abs
  <1>3. m \in Nat /\ m >= 1 /\ m * b <= Abs(N)
    <2>1. PICK a \in Nat : a = Abs(N) /\ a >= b
      BY <1>2
    <2>2. a = b * (a \div b) + (a % b) /\ a \div b \in Nat /\ a % b \in 0..(b - 1)
      OBVIOUS
    <2>3. a \div b # 0
      <3>1. ASSUME a \div b = 0 PROVE FALSE
        <4>1. a = b * 0 + (a % b)
          BY <2>2, <3>1
        <4> QED BY <2>1, <2>2, <4>1
      <3> QED BY <3>1
    <2>4. PICK q \in Nat, r \in Nat : q = a \div b /\ r = a % b
      BY <2>2
    <2>5. a = q * b + r /\ q >= 1
      BY <2>2, <2>3, <2>4
    <2>6. q * b <= a
      BY <2>5
    <2> QED BY <2>1, <2>4, <2>5, <2>6
  <1> HIDE DEF m, N
  <1>4. CASE m > Largest
    <2>1. Rounded(N, b) = Inf
      BY <1>4 DEF Rounded, RoundedTo, m
    <2> QED BY <1>1, <2>1 DEF N
  <1>5. CASE ~(m > Largest)
    <2>1. m \in 1..Largest /\ u \in Nat /\ u > 0 /\ u <= m
      BY <1>1, <1>3, <1>5, FloatAssumption
    <2> HIDE DEF u
    <2>2. b * u \in Nat /\ b * u > 0 /\ b * u <= Abs(N)
      <3>1. u * b <= m * b /\ u * b = b * u /\ b * u \in Nat /\ b * u > 0 /\ m * b \in Int
        BY <2>1, Factor
      <3> QED BY <1>2, <1>3, <3>1
    <2>3. j # 0 /\ j \in Int
      <3>1. /\ j \in Int /\ 2 * (j * (b * u)) - 2 * N <= b * u
            /\ 2 * N - 2 * (j * (b * u)) <= b * u
        BY <1>2, <2>2, NearestIs
      <3>2. ASSUME j = 0 PROVE FALSE
        <4>1. j * (b * u) = 0
          BY <2>2, <3>2
        <4> QED BY <1>2, <2>2, <3>1, <4>1 DEF Abs
      <3> QED BY <3>1, <3>2
    <2>4. u * j # 0
      BY <2>1, <2>3
    <2>5. Rounded(N, b) \in {Inf, u * j}
      BY <1>5 DEF Rounded, RoundedTo, m, u
    <2> QED BY <1>1, <2>4, <2>5 DEF N
  <1> QED BY <1>4, <1>5

\* Zero divided is zero.
LEMMA ZeroStays ==
    ASSUME NEW b \in Nat, b > 0
    PROVE  Rounded(0, b) = 0
  <1>1. 0 \in 0..Largest /\ Ulp64[0] \in Nat /\ Ulp64[0] > 0 /\ Largest \in Nat
    BY FloatAssumption
  <1>2. Abs(0) = 0 /\ Abs(0) \div b = 0
    BY DEF Abs
  <1>3. PICK u \in Nat : u = Ulp64[0] /\ u > 0
    BY <1>1
  <1>4. NearestEven(0, b * u) = 0
    <2>1. b * u \in Nat /\ b * u > 0 /\ 0 * (b * u) = 0
      BY <1>3
    <2> QED BY <2>1, NearestToItself
  <1>5. u * 0 = 0 /\ ~(0 > Largest)
    BY <1>1
  <1> QED BY <1>2, <1>3, <1>4, <1>5 DEF Rounded, RoundedTo

\* A float32 that is the quotient of n and b is what the division returns, and
\* what the conversion to float32 leaves of it.
LEMMA SingleStays ==
    ASSUME NEW n \in Int, NEW b \in Nat, b > 0, NEW q \in Int, n * One = q * b, IsFloat32(q)
    PROVE  Rounded(n * One, b) = q /\ Finite(q) /\ Narrow(q) = q
  <1>1. /\ Largest \in Nat /\ Largest32 \in Nat /\ Largest32 <= Largest
        /\ Ulp64 \in [0..Largest -> Nat \ {0}] /\ Ulp32 \in [0..Largest32 -> Nat \ {0}]
    <2>1. PICK P \in Nat : P = Power(4) /\ P > 0
      BY Widths
    <2>2. /\ One \in Int /\ 1 \in Int /\ 1 <= One /\ Largest \in Nat /\ Largest32 \in Nat
          /\ P * One <= Largest /\ 2 * Largest32 + 2 < P
          /\ Ulp64 \in [0..Largest -> Nat \ {0}] /\ Ulp32 \in [0..Largest32 -> Nat \ {0}]
      BY <2>1, FloatAssumption
    <2>3. 1 * P <= One * P
      BY <2>1, <2>2, Factor
    <2> QED BY <2>1, <2>2, <2>3
  <1>2. PICK m \in 0..Largest32 : m = Abs(q) /\ q % Ulp32[m] = 0
    BY <1>1 DEF IsFloat32, Abs
  <1>3. PICK s \in Nat, u \in Nat : s = Ulp32[m] /\ u = Ulp64[m] /\ s > 0 /\ u > 0 /\ s % u = 0
    <2>1. Ulp32[m] \in Nat \ {0} /\ Ulp64[m] \in Nat \ {0}
      BY <1>1, <1>2
    <2>2. Ulp32[m] % Ulp64[m] = 0
      BY <1>2, FloatAssumption
    <2> QED BY <2>1, <2>2
  <1>4. PICK i \in Int : q = i * s
    <2>1. q = (q \div s) * s
      BY <1>2, <1>3, Divides
    <2>2. q \div s \in Int
      BY <1>3
    <2> QED BY <2>1, <2>2
  <1>5. PICK j \in Int : q = j * u
    <2>1. PICK t \in Int : s = t * u
      <3>1. s = (s \div u) * u
        BY <1>3, Divides
      <3>2. s \div u \in Int
        BY <1>3
      <3> QED BY <3>1, <3>2
    <2>2. i * s = (i * t) * u /\ i * t \in Int
      BY <1>3, <2>1
    <2> QED BY <1>4, <2>2
  <1>6. ~(m > Largest) /\ ~(m > Largest32) /\ Abs(q) = m
    BY <1>1, <1>2
  <1>7. Rounded(q * b, b) = q
    <2>1. Abs(q * b) \div b = m
      <3>1. Abs(q * b) = m * b /\ m * b \in Int
        <4>1. CASE q >= 0
          <5>1. q * b >= 0
            BY <4>1
          <5> QED BY <1>2, <4>1, <5>1 DEF Abs
        <4>2. CASE q < 0
          <5>1. (-q) * b = -(q * b) /\ (-q) * b > 0 /\ q * b \in Int
            BY <4>2
          <5> QED BY <1>2, <4>2, <5>1 DEF Abs
        <4> QED BY <4>1, <4>2
      <3>2. m * b = m * b + 0
        BY <3>1
      <3> QED BY <3>1, <3>2, Quotients
    <2>2. NearestEven(q * b, b * u) = j
      <3>1. q * b = j * (b * u) /\ b * u \in Nat /\ b * u > 0
        BY <1>3, <1>5
      <3> QED BY <3>1, NearestToItself
    <2>3. u * j = q
      BY <1>3, <1>5
    <2> QED BY <1>3, <1>6, <2>1, <2>2, <2>3 DEF Rounded, RoundedTo
  <1>8. Finite(q)
    BY <1>1, <1>2 DEF Finite, NaN, Inf, Abs
  <1>9. Narrow(q) = q
    <2>1. Abs(q) \div 1 = m
      BY <1>2
    <2>2. NearestEven(q, 1 * s) = i
      <3>1. 1 * s = s
        OBVIOUS
      <3> QED BY <1>3, <1>4, <3>1, NearestToItself
    <2>3. s * i = q
      BY <1>3, <1>4
    <2> QED BY <1>3, <1>6, <1>8, <2>1, <2>2, <2>3 DEF Narrow, RoundedTo
  <1> QED BY <1>7, <1>8, <1>9

\* The quotient of a finite number and a scale, in the signs of its division.
LEMMA QuotientIs ==
    ASSUME NEW d \in Int, Finite(d), NEW s \in Int, s # 0
    PROVE  Quotient(d, s) = Rounded((IF s > 0 THEN d ELSE -d) * One, Abs(s))
  <1>1. d # NaN /\ d # Inf
    BY DEF Finite
  <1>2. CASE s > 0
    <2>1. Abs(s) = s
      BY <1>2 DEF Abs
    <2> QED BY <1>1, <1>2, <2>1 DEF Quotient
  <1>3. CASE ~(s > 0)
    <2>1. Abs(s) = -s
      BY <1>3 DEF Abs
    <2>2. Quotient(d, s) = Rounded(-d * One, -s)
      BY <1>1, <1>3 DEF Quotient
    <2>3. -d * One = (-d) * One
      BY FloatAssumption
    <2> QED BY <1>3, <2>1, <2>2, <2>3
  <1> QED BY <1>2, <1>3

-----------------------------------------------------------------------------
(* Values and their texts                                                  *)

\* The texts of the two truth values, as both readers of texts take them.
LEMMA BoolTextsAre ==
    /\ TrueText \in BoolTexts /\ FalseText \in BoolTexts
    /\ BoolIn(TrueText) /\ ~BoolIn(FalseText) /\ TrueText # FalseText
  <1>1. NumText(One) = <<1000 + 2 * One>>
    BY FloatAssumption DEF NumText
  <1>2. NumText(0) = <<1000>>
    BY DEF NumText
  <1>3. <<1>> # <<2>> /\ <<2>> # <<1000 + 2 * One>> /\ <<2>> # <<1000>>
    BY FloatAssumption
  <1> QED BY <1>1, <1>2, <1>3 DEF BoolTexts, BoolIn, TrueText, FalseText

\* Both sinks show the text of a truth value as that truth value.
LEMMA BoolIsShown ==
    ASSUME NEW r, r.DataType = Bool, NEW b \in BOOLEAN,
           r.Value = IF b THEN TrueText ELSE FalseText
    PROVE  BrokerValue(r) = <<"bool", b>> /\ SinkValue(r) = <<"bool", b>>
  <1>1. Bool # JSON
    BY DEF Bool, JSON
  <1>2. SinkValue(r) = <<"bool", r.Value = TrueText>>
    BY <1>1, Zenon DEF SinkValue
  <1>3. BrokerValue(r) = <<"bool", r.Value \in BoolTexts /\ BoolIn(r.Value)>>
    BY <1>1, Zenon DEF BrokerValue
  <1>4. (r.Value = TrueText) = b /\ (r.Value \in BoolTexts /\ BoolIn(r.Value)) = b
    BY BoolTextsAre
  <1> QED BY <1>2, <1>3, <1>4, Zenon

\* The text of a number is one, and says the number.
LEMMA NumberText ==
    ASSUME NEW n \in Int
    PROVE  /\ IsNumText(NumText(n)) /\ NumberIn(NumText(n)) = n
           /\ NumText(n) \in Seq(Nat) /\ NumText(n) \notin {TrueText, FalseText}
  <1>1. PICK c \in Nat : c = IF n >= 0 THEN 2 * n ELSE -2 * n - 1
    OBVIOUS
  <1>2. NumText(n) = <<1000 + c>>
    BY <1>1 DEF NumText
  <1>3. NumberIn(<<1000 + c>>) = IF c % 2 = 0 THEN c \div 2 ELSE -((c + 1) \div 2)
    <2>1. <<1000 + c>>[1] - 1000 = c
      OBVIOUS
    <2> QED BY <2>1 DEF NumberIn
  <1>4. CASE n >= 0
    <2>1. c % 2 = 0 /\ c \div 2 = n
      BY <1>1, <1>4
    <2> QED BY <1>2, <1>3, <2>1 DEF IsNumText, TrueText, FalseText
  <1>5. CASE n < 0
    <2>1. c % 2 # 0 /\ (c + 1) \div 2 = -n
      BY <1>1, <1>5
    <2> QED BY <1>2, <1>3, <2>1 DEF IsNumText, TrueText, FalseText
  <1> QED BY <1>4, <1>5

\* What the gateway keeps of a value that passed checkDataType, a truth value or
\* a finite number, is shown by both sinks as that value: SerializeValue and the
\* readers of its text (serializeReadings, parseReadingValue) lose nothing.
THEOREM ValueSurvivesText ==
    ASSUME NEW dt \in {Bool} \cup Numeric, NEW v,
           \/ \E b \in BOOLEAN : v = <<"bool", b>>
           \/ \E n \in Int : v = <<"num", n>> /\ Finite(n),
           CheckDataType(v, dt),
           NEW r, r.DataType = dt, r.Value = SerializeValue(dt, v)
    PROVE  BrokerValue(r) = v /\ SinkValue(r) = v
  <1>t. /\ Bool \notin Numeric /\ JSON \notin {Bool} \cup Numeric
        /\ IntegerTypes \subseteq Numeric
    BY DEF Bool, JSON, Numeric, IntegerTypes, Int16, Uint16, Int32, Uint32, Float32, Float64
  <1>1. CASE dt = Bool
    <2>1. PICK b \in BOOLEAN : v = <<"bool", b>>
      BY <1>1, <1>t DEF CheckDataType
    <2>2. r.Value = IF b THEN TrueText ELSE FalseText
      BY <1>1, <2>1 DEF SerializeValue
    <2> QED BY <1>1, <2>1, <2>2, BoolIsShown
  <1>2. CASE dt \in Numeric
    <2>1. PICK n \in Int : v = <<"num", n>> /\ Finite(n)
      BY <1>2, <1>t DEF CheckDataType
    <2>2. r.Value = NumText(n) /\ NumberIn(r.Value) = n /\ IsNumText(r.Value)
      <3>1. r.Value = NumText(n)
        BY <1>2, <1>t, <2>1 DEF SerializeValue
      <3> QED BY <3>1, NumberText
    <2>3. BrokerValue(r) = <<"num", n>>
      BY <1>2, <1>t, <2>1, <2>2 DEF BrokerValue
    <2>4. CASE dt \notin IntegerTypes
      <3>1. SinkValue(r) = <<"num", NumberIn(r.Value)>>
        BY <1>2, <1>t, <2>1, <2>2, <2>4 DEF SinkValue
      <3> QED BY <2>1, <2>2, <2>3, <3>1
    <2>5. CASE dt \in IntegerTypes
      <3>1. SinkValue(r) = <<"num", One * TowardZero(n)>>
        BY <1>2, <1>t, <2>1, <2>2, <2>5 DEF SinkValue
      <3>2. n % One = 0
        <4>1. v[2] = n
          BY <2>1
        <4>2. Integral(v[2])
          BY <2>5 DEF CheckDataType
        <4> QED BY <2>1, <4>1, <4>2 DEF Integral, Finite
      <3>3. One * TowardZero(n) = n
        <4>1. PICK k \in Int : n = One * k
          <5>1. One \in Nat /\ One > 0
            BY FloatAssumption
          <5>2. n = (n \div One) * One /\ n \div One \in Int
            BY <3>2, <5>1, Divides
          <5> QED BY <5>1, <5>2
        <4> QED BY <4>1, WholeNumber
      <3> QED BY <2>1, <2>3, <3>1, <3>3
    <2> QED BY <2>4, <2>5
  <1> QED BY <1>1, <1>2

-----------------------------------------------------------------------------
(* The stream of frames                                                    *)

\* A reading as the types of model.Reading have it: its fields, each a string or
\* a number that its bytes can say.
Typed(r) ==
    /\ r = [name \in NamesOf(ReadingLayout) |-> r[name]]
    /\ \A i \in 1..Len(ReadingLayout) :
          LET v == r[ReadingLayout[i].name]
          IN  IF ReadingLayout[i].str THEN v \in Seq(Int)
              ELSE v \in Nat /\ v < Power(ReadingLayout[i].w)

OfType(msg) == msg.type = Upload => \A i \in 1..Len(msg.p) : Typed(msg.p[i])

\* A message whose payload the 16-bit PayloadLen can count.
Counted(msg) == Len(EncodePayload(msg.type, msg.p)) < Base * Base

IsSeq(s) == \E S : s \in Seq(S)

\* Appending to a sequence, whatever its elements are.
LEMMA Appended ==
    ASSUME NEW s, IsSeq(s), NEW e
    PROVE  /\ IsSeq(Append(s, e)) /\ Len(s) \in Nat
           /\ Len(Append(s, e)) = Len(s) + 1 /\ Append(s, e)[Len(s) + 1] = e
           /\ \A i \in 1..Len(s) : Append(s, e)[i] = s[i]
  <1>1. PICK S : s \in Seq(S)
    BY DEF IsSeq
  <1>2. s \in Seq(S \cup {e})
    BY <1>1, SeqGrows
  <1>3. Append(s, e) \in Seq(S \cup {e})
    BY <1>2
  <1>4. /\ Len(s) \in Nat /\ Len(Append(s, e)) = Len(s) + 1 /\ Append(s, e)[Len(s) + 1] = e
        /\ \A i \in 1..Len(s) : Append(s, e)[i] = s[i]
    BY <1>2
  <1> QED BY <1>3, <1>4 DEF IsSeq

\* The messages of the gateway.  What handshakes, heartbeats and notifications
\* say always fits; of an upload the encoder has checked the strings.
Valid(msg) ==
    /\ msg.id \in 0..(Base * Base - 1)
    /\ OfType(msg) => Sendable(msg.type, msg.p)

LEMMA HandshakeIsSendable ==
    Sendable(Handshake, [FirmwareVersion |-> 1, Sn |-> <<5, 6>>, Token |-> <<7>>])
  <1> DEFINE p == [FirmwareVersion |-> 1, Sn |-> <<5, 6>>, Token |-> <<7>>]
  <1>1. LayoutOf(Handshake) = HandshakeLayout /\ Handshake \in Registered \ {Upload, Heartbeat}
    BY DEF LayoutOf, Registered, Handshake, HandshakeAck, Upload, UploadAck, Heartbeat,
           HeartbeatAck, Notify
  <1>2. /\ Len(HandshakeLayout) = 3
        /\ HandshakeLayout[1] = Num("FirmwareVersion", 1)
        /\ HandshakeLayout[2] = Str("Sn", 1) /\ HandshakeLayout[3] = Str("Token", 1)
    BY DEF HandshakeLayout
  <1>3. NamesOf(HandshakeLayout) = {"FirmwareVersion", "Sn", "Token"}
    BY DEF NamesOf, HandshakeLayout, Num, Str
  <1>4. Power(1) = Base /\ Base \in Nat /\ Base > 7
    BY Powers, BaseAssumption
  <1>5. /\ FitsField(Num("FirmwareVersion", 1), 1) /\ FitsField(Str("Sn", 1), <<5, 6>>)
        /\ FitsField(Str("Token", 1), <<7>>)
    BY <1>4 DEF FitsField, Num, Str
  <1>6. Fits(HandshakeLayout, p)
    <2>1. SUFFICES ASSUME NEW i \in 1..3
          PROVE  FitsField(HandshakeLayout[i], p[HandshakeLayout[i].name])
      BY <1>2 DEF Fits
    <2>2. \A name, w : Num(name, w).name = name /\ Str(name, w).name = name
      BY DEF Num, Str
    <2>3. p.FirmwareVersion = 1 /\ p.Sn = <<5, 6>> /\ p.Token = <<7>>
      OBVIOUS
    <2> HIDE DEF p
    <2>4. i = 1 \/ i = 2 \/ i = 3
      OBVIOUS
    <2> QED BY <1>2, <1>5, <2>2, <2>3, <2>4
  <1>7. p = [name \in NamesOf(HandshakeLayout) |-> p[name]]
    BY <1>3
  <1> QED BY <1>1, <1>6, <1>7 DEF Sendable

LEMMA NotifyIsSendable ==
    Sendable(Notify, [EventCode |-> 2, DeviceHash |-> <<1>>, Timestamp |-> Now,
                      Severity |-> 0, Message |-> <<8, 9>>, RawData |-> <<>>])
  <1> DEFINE p == [EventCode |-> 2, DeviceHash |-> <<1>>, Timestamp |-> Now,
                   Severity |-> 0, Message |-> <<8, 9>>, RawData |-> <<>>]
  <1>1. LayoutOf(Notify) = NotifyLayout /\ Notify \in Registered \ {Upload, Heartbeat}
    BY DEF LayoutOf, Registered, Handshake, HandshakeAck, Upload, UploadAck, Heartbeat,
           HeartbeatAck, Notify
  <1>2. /\ Len(NotifyLayout) = 6
        /\ NotifyLayout[1] = Num("EventCode", 1) /\ NotifyLayout[2] = Str("DeviceHash", 1)
        /\ NotifyLayout[3] = Num("Timestamp", 4) /\ NotifyLayout[4] = Num("Severity", 1)
        /\ NotifyLayout[5] = Str("Message", 1) /\ NotifyLayout[6] = Raw("RawData", 2)
    BY DEF NotifyLayout
  <1>3. NamesOf(NotifyLayout) =
          {"EventCode", "DeviceHash", "Timestamp", "Severity", "Message", "RawData"}
    BY DEF NamesOf, NotifyLayout, Num, Str, Raw
  <1>4. /\ Power(1) = Base /\ Base \in Nat /\ Base > 7
        /\ 0 < Power(2) /\ 37 < Power(4)
    <2>1. PICK b \in Nat : b = Base * Base
      BY Powers
    <2> QED BY <2>1, Powers, BaseAssumption
  <1>5. /\ FitsField(Num("EventCode", 1), 2) /\ FitsField(Str("DeviceHash", 1), <<1>>)
        /\ FitsField(Num("Timestamp", 4), Now) /\ FitsField(Num("Severity", 1), 0)
    BY <1>4 DEF FitsField, Num, Str, Now
  <1>6. FitsField(Str("Message", 1), <<8, 9>>) /\ FitsField(Raw("RawData", 2), <<>>)
    BY <1>4 DEF FitsField, Str, Raw
  <1>7. Fits(NotifyLayout, p)
    <2>1. SUFFICES ASSUME NEW i \in 1..6
          PROVE  FitsField(NotifyLayout[i], p[NotifyLayout[i].name])
      BY <1>2 DEF Fits
    <2>2. \A name, w : /\ Num(name, w).name = name /\ Str(name, w).name = name
                       /\ Raw(name, w).name = name
      BY DEF Num, Str, Raw
    <2>3. /\ p.EventCode = 2 /\ p.DeviceHash = <<1>> /\ p.Timestamp = Now
          /\ p.Severity = 0 /\ p.Message = <<8, 9>> /\ p.RawData = <<>>
      OBVIOUS
    <2> HIDE DEF p
    <2>4. i = 1 \/ i = 2 \/ i = 3 \/ i = 4 \/ i = 5 \/ i = 6
      OBVIOUS
    <2> QED BY <1>2, <1>5, <1>6, <2>2, <2>3, <2>4
  <1>8. p = [name \in NamesOf(NotifyLayout) |-> p[name]]
    BY <1>3
  <1> QED BY <1>1, <1>7, <1>8 DEF Sendable

LEMMA UploadIsSendable ==
    ASSUME NEW n \in Nat, NEW p, p = [i \in 1..n |-> p[i]], CanEncode(Upload, p),
           \A i \in 1..n : Typed(p[i])
    PROVE  Sendable(Upload, p)
  <1>1. Len(p) = n
    OBVIOUS
  <1>2. ASSUME NEW k \in 1..n PROVE IsReading(p[k])
    <2>1. Encodable(ReadingLayout, p[k])
      BY DEF CanEncode, EncodableReadings
    <2>2. DOMAIN ReadingLayout = 1..Len(ReadingLayout)
      BY LayoutsAre
    <2>3. \A i \in 1..Len(ReadingLayout) :
             ReadingLayout[i].str => ReadingLayout[i].checked
      BY DEF ReadingLayout, Num, Str
    <2>4. Fits(ReadingLayout, p[k])
      BY <2>1, <2>2, <2>3 DEF Fits, FitsField, Encodable, Typed
    <2> QED BY <2>4 DEF IsReading, Typed
  <1> QED BY <1>1, <1>2 DEF Sendable, Uploadable

\* The frame of a message, and all that has ever been written on the connection:
\* the frames of the messages sent, each behind the one before.
Frame(msg) == EncodeFrame(NewMsg(msg.type, msg.p, msg.id, Now))

Written(msgs, all, off) ==
    /\ all \in Seq(Cell)
    /\ off \in [0..Len(msgs) -> Nat] /\ off[0] = 0 /\ off[Len(msgs)] = Len(all)
    /\ \A i \in 1..Len(msgs) :
          /\ Frame(msgs[i]) \in Seq(Cell)
          /\ off[i] = off[i - 1] + Len(Frame(msgs[i]))
          /\ Holds(all, off[i - 1], Frame(msgs[i]))

\* Data that is part of what was written behind the place at.
PartOf(data, all, at) ==
    /\ data \in Seq(Cell)
    /\ at + Len(data) <= Len(all)
    /\ \A j \in 1..Len(data) : data[j] = all[at + j]

\* Writing one more message.
LEMMA WrittenGrows ==
    ASSUME NEW msgs, IsSeq(msgs), NEW all, NEW off, Written(msgs, all, off),
           NEW msg, Frame(msg) \in Seq(Cell)
    PROVE  \E more : /\ Written(Append(msgs, msg), all \o Frame(msg), more)
                     /\ \A i \in 0..Len(msgs) : more[i] = off[i]
  <1> DEFINE n     == Len(msgs)
             frame == Frame(msg)
             grown == Append(msgs, msg)
             data  == all \o frame
             more  == [i \in 0..(n + 1) |-> IF i <= n THEN off[i] ELSE Len(all) + Len(frame)]
  <1>1. n \in Nat /\ Len(grown) = n + 1 /\ grown[n + 1] = msg /\ \A i \in 1..n : grown[i] = msgs[i]
    BY Appended
  <1>2. /\ all \in Seq(Cell) /\ off \in [0..n -> Nat] /\ off[0] = 0 /\ off[n] = Len(all)
        /\ \A i \in 1..n : /\ Frame(msgs[i]) \in Seq(Cell)
                           /\ off[i] = off[i - 1] + Len(Frame(msgs[i]))
                           /\ Holds(all, off[i - 1], Frame(msgs[i]))
    BY DEF Written
  <1>3. frame \in Seq(Cell)
    OBVIOUS
  <1> HIDE DEF n, frame, grown
  <1>4. /\ data \in Seq(Cell) /\ Len(data) = Len(all) + Len(frame)
        /\ Len(all) \in Nat /\ Len(frame) \in Nat
        /\ \A j \in 1..Len(all) : data[j] = all[j]
        /\ \A j \in 1..Len(frame) : data[Len(all) + j] = frame[j]
    BY <1>2, <1>3
  <1> HIDE DEF data
  <1>5. /\ more \in [0..(n + 1) -> Nat] /\ more[n + 1] = Len(data) /\ more[0] = 0
        /\ \A i \in 0..n : more[i] = off[i]
    BY <1>1, <1>2, <1>4
  <1> HIDE DEF more
  <1>6. ASSUME NEW i \in 1..(n + 1)
        PROVE  /\ Frame(grown[i]) \in Seq(Cell)
               /\ more[i] = more[i - 1] + Len(Frame(grown[i]))
               /\ Holds(data, more[i - 1], Frame(grown[i]))
    <2>1. CASE i = n + 1
      <3>1. Frame(grown[i]) = frame /\ i - 1 = n /\ more[i - 1] = Len(all)
        BY <1>1, <1>2, <1>5, <2>1 DEF frame
      <3>2. Holds(data, Len(all), frame)
        BY <1>4 DEF Holds
      <3> QED BY <1>3, <1>4, <1>5, <2>1, <3>1, <3>2
    <2>2. CASE i # n + 1
      <3> DEFINE f == Frame(msgs[i])
      <3>1. i \in 1..n /\ i - 1 \in 0..n /\ i \in 0..n
        BY <1>1, <2>2
      <3>2. grown[i] = msgs[i] /\ more[i] = off[i] /\ more[i - 1] = off[i - 1]
        BY <1>1, <1>5, <3>1
      <3>3. /\ f \in Seq(Cell) /\ off[i] = off[i - 1] + Len(f)
            /\ Holds(all, off[i - 1], f) /\ off[i - 1] \in Nat
        BY <1>2, <3>1
      <3> HIDE DEF f
      <3>4. Holds(data, off[i - 1], f)
        <4>1. off[i - 1] + Len(f) <= Len(all) /\ Len(f) \in Nat
          BY <3>3 DEF Holds
        <4>2. ASSUME NEW j \in 1..Len(f) PROVE data[off[i - 1] + j] = f[j]
          <5>1. off[i - 1] + j \in 1..Len(all)
            BY <1>4, <3>3, <4>1
          <5>2. all[off[i - 1] + j] = f[j]
            BY <3>3 DEF Holds
          <5> QED BY <1>4, <5>1, <5>2
        <4>3. off[i - 1] + Len(f) <= Len(data)
          BY <1>4, <3>3, <4>1
        <4> QED BY <4>2, <4>3 DEF Holds
      <3> QED BY <3>2, <3>3, <3>4 DEF f
    <2> QED BY <2>1, <2>2
  <1>7. Written(grown, data, more)
    BY <1>1, <1>4, <1>5, <1>6 DEF Written
  <1> QED BY <1>5, <1>7 DEF grown, data, frame, n

\* What DecodeFrame makes of data from the place of a frame on: the message, or
\* nothing yet.
LEMMA NextFrame ==
    ASSUME NEW msg, Valid(msg), OfType(msg), Counted(msg), NEW all \in Seq(Cell), NEW at \in Nat,
           Holds(all, at, Frame(msg)), NEW data, PartOf(data, all, at)
    PROVE  LET d == DecodeFrame(data)
           IN  \/ Len(data) < Len(Frame(msg)) /\ d.res = "short"
               \/ /\ Len(data) >= Len(Frame(msg))
                  /\ d.res = "ok" /\ d.size = Len(Frame(msg))
                  /\ d.m.Type = msg.type /\ d.m.MsgID = msg.id
                  /\ ParseMsg(d.m) = [ok |-> TRUE, p |-> msg.p]
  <1> DEFINE frame == Frame(msg)
             m == NewMsg(msg.type, msg.p, msg.id, Now)
             d == DecodeFrame(data)
  <1>1. Fitting(msg.type, msg.p) /\ msg.id \in 0..(Base * Base - 1) /\ Now \in Nat
    BY DEF Valid, Counted, Fitting, Now
  <1>2. Framed(m) /\ frame \in Seq(Cell) /\ frame = EncodeFrame(m)
    BY <1>1, FrameIs DEF Frame, Fitting
  <1> HIDE DEF frame
  <1>3. /\ data \in Seq(Cell) /\ Len(data) \in Nat /\ Len(frame) \in Nat
        /\ \A j \in 1..Len(data) : data[j] = all[at + j]
        /\ \A j \in 1..Len(frame) : all[at + j] = frame[j]
    BY <1>2 DEF PartOf, Holds, frame
  <1>4. CASE Len(data) < Len(frame)
    <2>1. \A j \in 1..Len(data) : data[j] = frame[j]
      BY <1>3, <1>4
    <2>2. d = [res |-> "short"]
      <3> HIDE DEF m
      <3> QED BY <1>2, <1>3, <1>4, <2>1, PartialFrame
    <2> QED BY <1>4, <2>2 DEF frame
  <1>5. CASE ~(Len(data) < Len(frame))
    <2>1. Holds(data, 0, EncodeFrame(m))
      BY <1>2, <1>3, <1>5 DEF Holds
    <2>2. /\ d.res = "ok" /\ d.size = Len(EncodeFrame(m))
          /\ d.m.Type = msg.type /\ d.m.MsgID = msg.id
          /\ ParseMsg(d.m) = [ok |-> TRUE, p |-> msg.p]
      BY <1>1, <1>3, <2>1, MessageRoundTrip
    <2> QED BY <1>2, <1>3, <1>5, <2>2 DEF frame
  <1> QED BY <1>4, <1>5

\* A part that reaches the end grows with what is written; without its
\* beginning, or its end, it is still a part.
LEMMA PartGrows ==
    ASSUME NEW all \in Seq(Cell), NEW at \in Nat, NEW data, PartOf(data, all, at),
           at + Len(data) = Len(all), NEW more \in Seq(Cell)
    PROVE  PartOf(data \o more, all \o more, at)
           /\ at + Len(data \o more) = Len(all \o more)
  <1>1. data \in Seq(Cell) /\ \A j \in 1..Len(data) : data[j] = all[at + j]
    BY DEF PartOf
  <1>2. /\ data \o more \in Seq(Cell) /\ Len(data \o more) = Len(data) + Len(more)
        /\ Len(all \o more) = Len(all) + Len(more)
        /\ Len(data) \in Nat /\ Len(more) \in Nat /\ Len(all) \in Nat
    BY <1>1
  <1>3. ASSUME NEW j \in 1..Len(data \o more) PROVE (data \o more)[j] = (all \o more)[at + j]
    <2>1. CASE j <= Len(data)
      <3>1. j \in 1..Len(data) /\ at + j \in 1..Len(all)
        BY <1>2, <2>1
      <3>2. (data \o more)[j] = data[j] /\ (all \o more)[at + j] = all[at + j]
        BY <1>1, <3>1
      <3> QED BY <1>1, <3>1, <3>2
    <2>2. CASE ~(j <= Len(data))
      <3>1. PICK k \in 1..Len(more) : j = Len(data) + k /\ at + j = Len(all) + k
        <4>1. j - Len(data) \in 1..Len(more) /\ j = Len(data) + (j - Len(data))
              /\ at + j = Len(all) + (j - Len(data))
          BY <1>2, <2>2, SMTT(60)
        <4> QED BY <4>1
      <3>2. (data \o more)[Len(data) + k] = more[k]
        BY <1>1, <1>2
      <3>3. (all \o more)[Len(all) + k] = more[k]
        BY <1>2
      <3> QED BY <3>1, <3>2, <3>3
    <2> QED BY <2>1, <2>2
  <1>4. at + Len(data \o more) = Len(all \o more) /\ Len(all \o more) \in Nat
    BY <1>2
  <1>5. at + Len(data \o more) <= Len(all \o more)
    BY <1>4
  <1> QED BY <1>2, <1>3, <1>4, <1>5 DEF PartOf

LEMMA PartShrinks ==
    ASSUME NEW all \in Seq(Cell), NEW at \in Nat, NEW data, PartOf(data, all, at),
           NEW k \in Nat, k <= Len(data)
    PROVE  /\ PartOf(SubSeq(data, k + 1, Len(data)), all, at + k)
           /\ Len(SubSeq(data, k + 1, Len(data))) = Len(data) - k
           /\ PartOf(SubSeq(data, 1, k), all, at)
  <1>1. /\ data \in Seq(Cell) /\ Len(data) \in Nat /\ at + Len(data) <= Len(all)
        /\ \A j \in 1..Len(data) : data[j] = all[at + j]
    BY DEF PartOf
  <1> DEFINE tail == SubSeq(data, k + 1, Len(data))
             start == SubSeq(data, 1, k)
  <1>2. /\ tail \in Seq(Cell) /\ Len(tail) = Len(data) - k
        /\ \A j \in 1..Len(tail) : tail[j] = data[k + j]
    BY <1>1
  <1>3. /\ start \in Seq(Cell) /\ Len(start) = k
        /\ \A j \in 1..Len(start) : start[j] = data[j]
    BY <1>1
  <1> HIDE DEF tail, start
  <1>4. PartOf(tail, all, at + k)
    <2>1. \A j \in 1..Len(tail) : k + j \in 1..Len(data) /\ (at + k) + j = at + (k + j)
      BY <1>1, <1>2
    <2>2. (at + k) + Len(tail) <= Len(all)
      BY <1>1, <1>2
    <2> QED BY <1>1, <1>2, <2>1, <2>2 DEF PartOf
  <1>5. PartOf(start, all, at)
    BY <1>1, <1>3, SMTT(60) DEF PartOf
  <1> QED BY <1>2, <1>4, <1>5 DEF tail, start

AllOfType == \A i \in 1..Len(sent) : OfType(sent[i])

\* The first k messages are counted.
Sized(k) == \A i \in 1..Len(sent) : i <= k => Counted(sent[i])

SentInv ==
    /\ IsSeq(sent) /\ IsSeq(got) /\ IsSeq(cache) /\ uploaded \in Nat
    /\ \A i \in 1..Len(sent) : Valid(sent[i])

\* Up to the first message that PayloadLen cannot count everything is read as it
\* was sent, and only at such a message a frame is refused.
FaithfulUpToOversized ==
    /\ \A i \in DOMAIN got :
          Sized(i) => /\ i <= Len(sent)
                      /\ got[i].type = sent[i].type
                      /\ got[i].id = sent[i].id
                      /\ got[i].p = sent[i].p
    /\ link = "refused" => ~Sized(Len(got) + 1)

\* What is on the wire is what was written behind the messages read, all of it
\* as long as the connection is up.
Behind(all, off) ==
    Sized(Len(got)) =>
        /\ Len(got) <= Len(sent)
        /\ PartOf(wire, all, off[Len(got)])
        /\ link = "up" => off[Len(got)] + Len(wire) = Len(all)

StreamInv ==
    /\ SentInv
    /\ AllOfType =>
          /\ FaithfulUpToOversized
          /\ \E all, off : Written(sent, all, off) /\ Behind(all, off)

\* A message is written.
LEMMA WriteKeeps ==
    ASSUME StreamInv, NEW type, NEW p, NEW entries, Write(type, p, entries),
           OfType([type |-> type, p |-> p]) => Sendable(type, p),
           UNCHANGED <<link, got>>, IsSeq(cache'), uploaded' \in Nat
    PROVE  StreamInv'
  <1> DEFINE id    == NextMsgID(Len(sent))
             msg   == [type |-> type, id |-> id, p |-> p, entries |-> entries]
             frame == Frame(msg)
  <1>1. /\ sent' = Append(sent, msg) /\ wire' = wire \o frame /\ link = "up"
        /\ msg.type = type /\ msg.p = p /\ msg.id = id
    BY DEF Write, Frame
  <1>2. /\ IsSeq(sent') /\ Len(sent) \in Nat /\ Len(sent') = Len(sent) + 1
        /\ sent'[Len(sent) + 1] = msg /\ \A i \in 1..Len(sent) : sent'[i] = sent[i]
    BY <1>1, Appended DEF StreamInv, SentInv
  <1>3. msg.id \in 0..(Base * Base - 1)
    <2>1. PICK b \in Nat : b = Base * Base /\ b > 0
      <3>1. PICK b \in Nat : b = Base * Base
        BY Powers
      <3> QED BY <3>1, Powers
    <2>2. (Len(sent) + 1) % b \in 0..(b - 1)
      BY <1>2, <2>1
    <2> QED BY <1>1, <2>1, <2>2 DEF NextMsgID
  <1>4. OfType(msg) => Sendable(msg.type, msg.p)
    BY <1>1 DEF OfType
  <1> HIDE DEF msg, id
  <1>5. Valid(msg)
    BY <1>3, <1>4 DEF Valid
  <1>6. SentInv'
    <2>1. ASSUME NEW i \in 1..Len(sent') PROVE Valid(sent'[i])
      <3>1. i = Len(sent) + 1 \/ i \in 1..Len(sent)
        BY <1>2
      <3> QED BY <1>2, <1>5, <3>1 DEF StreamInv, SentInv
    <2>2. IsSeq(got')
      BY DEF StreamInv, SentInv
    <2> QED BY <1>2, <2>1, <2>2 DEF SentInv
  <1>7. SUFFICES ASSUME AllOfType'
        PROVE  /\ FaithfulUpToOversized'
               /\ \E all, off : Written(sent', all, off) /\ Behind(all, off)'
    BY <1>6 DEF StreamInv
  <1>8. AllOfType /\ OfType(msg)
    <2>1. \A i \in 1..Len(sent) : i \in 1..Len(sent')
      BY <1>2
    <2>2. Len(sent) + 1 \in 1..Len(sent')
      BY <1>2
    <2>3. \A i \in 1..Len(sent') : OfType(sent'[i])
      BY <1>7 DEF AllOfType
    <2>4. \A i \in 1..Len(sent) : OfType(sent[i])
      BY <1>2, <2>1, <2>3
    <2>5. OfType(msg)
      BY <1>2, <2>2, <2>3
    <2> QED BY <2>4, <2>5 DEF AllOfType
  <1>9. PICK all, off : Written(sent, all, off) /\ Behind(all, off)
    BY <1>8 DEF StreamInv
  <1>10. frame \in Seq(Cell)
    BY <1>3, <1>4, <1>8, FrameIs DEF Frame, Now
  <1>11. ASSUME NEW k, Sized(k)' PROVE Sized(k)
    <2>1. \A i \in 1..Len(sent) : i \in 1..Len(sent') /\ sent'[i] = sent[i]
      BY <1>2
    <2> QED BY <1>11, <2>1 DEF Sized
  <1>0. PICK grown : grown = all \o frame
    OBVIOUS
  <1>12. PICK more : /\ Written(sent', grown, more)
                     /\ \A i \in 0..Len(sent) : more[i] = off[i]
    BY <1>0, <1>1, <1>9, <1>10, WrittenGrows DEF StreamInv, SentInv
  <1>13. Behind(grown, more)'
    <2> SUFFICES ASSUME Sized(Len(got))'
                 PROVE  /\ Len(got') <= Len(sent')
                        /\ PartOf(wire', grown, more[Len(got')])
                        /\ link' = "up" => more[Len(got')] + Len(wire') = Len(grown)
      BY DEF Behind
    <2>0. got' = got /\ Len(got) \in Nat
      <3>1. \A s : IsSeq(s) => Len(s) \in Nat
        BY Appended
      <3> QED BY <3>1 DEF StreamInv, SentInv
    <2>1. Sized(Len(got))
      BY <1>11, <2>0
    <2>2. /\ Len(got) <= Len(sent) /\ PartOf(wire, all, off[Len(got)])
          /\ off[Len(got)] + Len(wire) = Len(all)
      BY <1>1, <1>9, <2>1 DEF Behind
    <2>3. Len(got) \in 0..Len(sent) /\ Len(got) <= Len(sent')
      BY <1>2, <2>0, <2>2
    <2>4. off[Len(got)] \in Nat /\ all \in Seq(Cell) /\ more[Len(got)] = off[Len(got)]
      BY <1>9, <1>12, <2>3 DEF Written
    <2>5. /\ PartOf(wire \o frame, all \o frame, off[Len(got)])
          /\ off[Len(got)] + Len(wire \o frame) = Len(all \o frame)
      <3> HIDE DEF frame
      <3> QED BY <1>10, <2>2, <2>4, PartGrows
    <2> HIDE DEF frame
    <2> QED BY <1>0, <1>1, <2>0, <2>3, <2>4, <2>5
  <1>14. FaithfulUpToOversized'
    <2>1. FaithfulUpToOversized
      BY <1>8 DEF StreamInv
    <2>2. ASSUME NEW i \in DOMAIN got, Sized(i)'
          PROVE  /\ i <= Len(sent') /\ got[i].type = sent'[i].type
                 /\ got[i].id = sent'[i].id /\ got[i].p = sent'[i].p
      <3>1. Sized(i)
        BY <1>11, <2>2
      <3>2. /\ i <= Len(sent) /\ got[i].type = sent[i].type
            /\ got[i].id = sent[i].id /\ got[i].p = sent[i].p
        BY <2>1, <3>1 DEF FaithfulUpToOversized
      <3>3. i \in 1..Len(got) /\ Len(got) \in Nat
        <4>1. PICK S : got \in Seq(S)
          BY DEF StreamInv, SentInv, IsSeq
        <4> QED BY <4>1
      <3>4. i \in 1..Len(sent)
        BY <1>2, <3>2, <3>3
      <3> QED BY <1>2, <3>2, <3>4
    <2>3. link' # "refused" /\ got' = got
      BY <1>1
    <2> QED BY <2>2, <2>3 DEF FaithfulUpToOversized
  <1> QED BY <1>12, <1>13, <1>14

\* The connection breaks after some of the bytes on it.
LEMMA CutKeeps ==
    ASSUME StreamInv, Cut
    PROVE  StreamInv'
  <1>1. /\ UNCHANGED <<sent, got, cache, uploaded>> /\ link' = "cut" /\ wire # <<>>
        /\ \E n \in CutPoints \cup {Len(wire) - 1} :
              n < Len(wire) /\ wire' = SubSeq(wire, 1, n)
    BY DEF Cut
  <1>2. SentInv'
    BY <1>1 DEF StreamInv, SentInv
  <1>3. ASSUME AllOfType
        PROVE  /\ FaithfulUpToOversized'
               /\ \E all, off : Written(sent', all, off) /\ Behind(all, off)'
    <2>1. FaithfulUpToOversized'
      BY <1>1, <1>3 DEF StreamInv, FaithfulUpToOversized, Sized
    <2>2. PICK all, off : Written(sent, all, off) /\ Behind(all, off)
      BY <1>3 DEF StreamInv
    <2>3. ASSUME Sized(Len(got))
          PROVE  Len(got) <= Len(sent) /\ PartOf(wire', all, off[Len(got)])
      <3>1. Len(got) <= Len(sent) /\ PartOf(wire, all, off[Len(got)])
        BY <2>2, <2>3 DEF Behind
      <3>2. all \in Seq(Cell) /\ off[Len(got)] \in Nat
        <4>1. Len(got) \in Nat /\ Len(sent) \in Nat
          BY Appended DEF StreamInv, SentInv
        <4> QED BY <2>2, <3>1, <4>1 DEF Written
      <3>3. wire \in Seq(Cell)
        BY <3>1 DEF PartOf
      <3>4. PICK n \in CutPoints \cup {Len(wire) - 1} : n < Len(wire) /\ wire' = SubSeq(wire, 1, n)
        BY <1>1
      <3>5. Len(wire) \in Nat /\ Len(wire) # 0
        BY <1>1, <3>3
      <3>6. n \in Nat /\ n <= Len(wire)
        BY <3>4, <3>5, CutsAssumption
      <3> QED BY <3>1, <3>2, <3>4, <3>6, PartShrinks
    <2>4. Behind(all, off)'
      BY <1>1, <2>3 DEF Behind, Sized
    <2> QED BY <1>1, <2>1, <2>2, <2>4
  <1>4. AllOfType' => AllOfType
    BY <1>1 DEF AllOfType
  <1> QED BY <1>2, <1>3, <1>4 DEF StreamInv

\* A frame is decoded, refused, or found cut off.
LEMMA ReadKeeps ==
    ASSUME StreamInv, ReadFrame
    PROVE  StreamInv'
  <1>n. PICK n : n = Len(got)
    OBVIOUS
  <1> DEFINE d == DecodeFrame(wire)
             parsed == ParseMsg(d.m)
             new == [type |-> d.m.Type, id |-> d.m.MsgID,
                     p |-> IF parsed.ok THEN parsed.p ELSE Missing]
  <1>0. IsSeq(sent) /\ IsSeq(got) /\ n \in Nat /\ Len(sent) \in Nat /\ DOMAIN got = 1..n
    <2>1. IsSeq(sent) /\ IsSeq(got)
      BY DEF StreamInv, SentInv
    <2>2. \A s : IsSeq(s) => DOMAIN s = 1..Len(s)
      BY DEF IsSeq
    <2> QED BY <1>n, <2>1, <2>2, Appended
  <1>1. /\ UNCHANGED <<sent, cache, uploaded>> /\ link \in {"up", "cut"}
        /\ \/ /\ d.res = "ok" /\ wire' = SubSeq(wire, d.size + 1, Len(wire))
              /\ got' = Append(got, new) /\ link' = link
           \/ /\ d.res \in {"badMagic", "badChecksum"} /\ link' = "refused"
              /\ UNCHANGED <<wire, got>>
           \/ d.res = "short" /\ link = "cut" /\ link' = "closed" /\ UNCHANGED <<wire, got>>
    BY DEF ReadFrame
  <1> HIDE DEF d, new, parsed
  <1>3. SentInv'
    <2>1. IsSeq(Append(got, new))
      BY <1>0, Appended
    <2>2. IsSeq(got')
      BY <1>0, <1>1, <2>1
    <2> QED BY <1>1, <2>2 DEF StreamInv, SentInv
  <1>4. SUFFICES ASSUME AllOfType
        PROVE  /\ FaithfulUpToOversized'
               /\ \E all, off : Written(sent', all, off) /\ Behind(all, off)'
    <2>1. AllOfType' => AllOfType
      BY <1>1 DEF AllOfType
    <2> QED BY <1>3, <2>1 DEF StreamInv
  <1>5. PICK all, off : Written(sent, all, off) /\ Behind(all, off)
    BY <1>4 DEF StreamInv
  <1>6. /\ all \in Seq(Cell) /\ off \in [0..Len(sent) -> Nat] /\ off[Len(sent)] = Len(all)
        /\ \A i \in 1..Len(sent) : /\ Frame(sent[i]) \in Seq(Cell)
                                   /\ off[i] = off[i - 1] + Len(Frame(sent[i]))
                                   /\ Holds(all, off[i - 1], Frame(sent[i]))
    BY <1>5 DEF Written
  <1>7. \A k \in Nat : /\ Sized(k)' = Sized(k)
                       /\ Sized(k + 1) => Sized(k)
    <2>1. \A k : Sized(k)' = Sized(k)
      BY <1>1 DEF Sized
    <2>2. ASSUME NEW k \in Nat, Sized(k + 1) PROVE Sized(k)
      <3>1. \A i \in 1..Len(sent) : i <= k => i <= k + 1
        OBVIOUS
      <3> QED BY <2>2, <3>1 DEF Sized
    <2> QED BY <2>1, <2>2
  <1>8. ASSUME Sized(n + 1), d.res # "short"
        PROVE  /\ n + 1 <= Len(sent)
               /\ d.res = "ok"
               /\ new.type = sent[n + 1].type /\ new.id = sent[n + 1].id
               /\ new.p = sent[n + 1].p
               /\ d.size = Len(Frame(sent[n + 1])) /\ d.size <= Len(wire)
               /\ PartOf(wire, all, off[n])
               /\ link = "up" => off[n] + Len(wire) = Len(all)
    <2>1. /\ n <= Len(sent) /\ PartOf(wire, all, off[n])
          /\ link = "up" => off[n] + Len(wire) = Len(all)
      BY <1>n, <1>0, <1>5, <1>7, <1>8 DEF Behind
    <2>2. wire \in Seq(Cell) /\ off[n] \in Nat /\ Len(wire) \in Nat
      BY <1>0, <1>6, <2>1 DEF PartOf
    <2>3. n # Len(sent)
      <3>1. SUFFICES ASSUME n = Len(sent) PROVE FALSE
        OBVIOUS
      <3>2. Len(wire) = 0
        BY <1>6, <2>1, <2>2, <3>1 DEF PartOf
      <3>3. 0 < HeaderSize
        BY HeaderSizeIs
      <3>4. d = [res |-> "short"]
        BY <3>2, <3>3 DEF d, DecodeFrame
      <3> QED BY <1>8, <3>4
    <2>4. n + 1 \in 1..Len(sent) /\ (n + 1) - 1 = n
      BY <1>0, <2>1, <2>3
    <2> DEFINE msg == sent[n + 1]
    <2>5. Valid(msg) /\ OfType(msg) /\ Counted(msg)
      BY <1>4, <1>8, <2>4 DEF StreamInv, SentInv, AllOfType, Sized
    <2>6. Holds(all, off[n], Frame(msg)) /\ Frame(msg) \in Seq(Cell)
      BY <1>6, <2>4
    <2> HIDE DEF msg
    <2>7. \/ Len(wire) < Len(Frame(msg)) /\ d.res = "short"
          \/ /\ Len(wire) >= Len(Frame(msg))
             /\ d.res = "ok" /\ d.size = Len(Frame(msg))
             /\ d.m.Type = msg.type /\ d.m.MsgID = msg.id
             /\ ParseMsg(d.m) = [ok |-> TRUE, p |-> msg.p]
      BY <1>6, <2>1, <2>2, <2>5, <2>6, NextFrame DEF d
    <2>8. /\ Len(wire) >= Len(Frame(msg)) /\ d.res = "ok" /\ d.size = Len(Frame(msg))
          /\ d.m.Type = msg.type /\ d.m.MsgID = msg.id /\ parsed = [ok |-> TRUE, p |-> msg.p]
      BY <1>8, <2>7 DEF parsed
    <2>9. new.type = msg.type /\ new.id = msg.id /\ new.p = msg.p
      BY <2>8 DEF new
    <2>10. d.size <= Len(wire)
      BY <2>2, <2>6, <2>8
    <2> QED BY <1>0, <2>1, <2>4, <2>8, <2>9, <2>10 DEF msg
  <1>9. CASE /\ d.res = "ok" /\ wire' = SubSeq(wire, d.size + 1, Len(wire))
             /\ got' = Append(got, new) /\ link' = link
    <2>1. /\ Len(got') = n + 1 /\ got'[n + 1] = new /\ DOMAIN got' = 1..(n + 1)
          /\ \A i \in 1..n : got'[i] = got[i]
      <3>1. /\ Len(got') = n + 1 /\ got'[n + 1] = new /\ IsSeq(got')
            /\ \A i \in 1..n : got'[i] = got[i]
        BY <1>n, <1>0, <1>9, Appended
      <3>2. DOMAIN got' = 1..Len(got')
        BY <3>1 DEF IsSeq
      <3> QED BY <3>1, <3>2
    <2>2. d.res # "short"
      BY <1>9
    <2>3. FaithfulUpToOversized'
      <3>1. ASSUME NEW i \in 1..(n + 1), Sized(i)'
            PROVE  /\ i <= Len(sent') /\ got'[i].type = sent'[i].type
                   /\ got'[i].id = sent'[i].id /\ got'[i].p = sent'[i].p
        <4>1. Sized(i)
          BY <1>0, <1>7, <3>1
        <4>2. CASE i = n + 1
          BY <1>0, <1>1, <1>8, <2>1, <2>2, <4>1, <4>2
        <4>3. CASE i # n + 1
          <5>1. i \in DOMAIN got /\ got'[i] = got[i]
            BY <1>0, <2>1, <4>3
          <5> QED BY <1>1, <1>4, <4>1, <5>1 DEF StreamInv, FaithfulUpToOversized
        <4> QED BY <4>2, <4>3
      <3>2. link' # "refused"
        BY <1>1, <1>9
      <3> QED BY <2>1, <3>1, <3>2 DEF FaithfulUpToOversized
    <2>4. Behind(all, off)'
      <3>0. Sized(Len(got))' => Sized(n + 1)
        BY <1>1, <2>1 DEF Sized
      <3> SUFFICES ASSUME Sized(n + 1)
                   PROVE  /\ n + 1 <= Len(sent) /\ PartOf(wire', all, off[n + 1])
                          /\ link = "up" => off[n + 1] + Len(wire') = Len(all)
        BY <1>1, <1>9, <2>1, <3>0 DEF Behind
      <3>1. /\ n + 1 <= Len(sent) /\ d.size = Len(Frame(sent[n + 1])) /\ d.size <= Len(wire)
            /\ PartOf(wire, all, off[n])
            /\ link = "up" => off[n] + Len(wire) = Len(all)
        BY <1>8, <2>2
      <3>2. n + 1 \in 1..Len(sent) /\ (n + 1) - 1 = n /\ n \in 0..Len(sent)
        BY <1>0, <3>1
      <3>3. off[n + 1] = off[n] + d.size /\ d.size \in Nat /\ off[n] \in Nat
        <4>1. Frame(sent[n + 1]) \in Seq(Cell) /\ off[n + 1] = off[n] + Len(Frame(sent[n + 1]))
          BY <1>6, <3>2
        <4>2. Len(Frame(sent[n + 1])) \in Nat
          BY <4>1
        <4> QED BY <1>6, <3>1, <3>2, <4>1, <4>2
      <3>4. PICK k \in Nat : k = d.size
        BY <3>3
      <3>5. PICK at \in Nat : at = off[n]
        BY <3>3
      <3>6. /\ PartOf(SubSeq(wire, k + 1, Len(wire)), all, at + k)
            /\ Len(SubSeq(wire, k + 1, Len(wire))) = Len(wire) - k
        <4>1. PartOf(wire, all, at) /\ k <= Len(wire) /\ all \in Seq(Cell)
          BY <1>6, <3>1, <3>4, <3>5
        <4> QED BY <4>1, PartShrinks
      <3>7. wire' = SubSeq(wire, k + 1, Len(wire)) /\ off[n + 1] = at + k
        BY <1>9, <3>3, <3>4, <3>5
      <3>8. Len(wire) \in Nat
        <4>1. wire \in Seq(Cell)
          BY <3>1 DEF PartOf
        <4> QED BY <4>1
      <3>9. ASSUME link = "up" PROVE off[n + 1] + Len(wire') = Len(all)
        <4>1. at + Len(wire) = Len(all)
          BY <3>1, <3>5, <3>9
        <4>2. Len(wire') = Len(wire) - k
          BY <3>6, <3>7
        <4>3. (at + k) + (Len(wire) - k) = at + Len(wire)
          BY <3>8
        <4> QED BY <3>7, <4>1, <4>2, <4>3
      <3> QED BY <3>1, <3>6, <3>7, <3>9
    <2> QED BY <1>1, <1>5, <2>3, <2>4
  <1>10. CASE UNCHANGED <<wire, got>> /\ link' \in {"refused", "closed"}
    <2>1. FaithfulUpToOversized'
      <3>1. FaithfulUpToOversized
        BY <1>4 DEF StreamInv
      <3>2. \A i \in DOMAIN got : i \in Nat /\ Sized(i)' = Sized(i)
        BY <1>0, <1>7
      <3>3. link' = "refused" => ~Sized(n + 1)
        BY <1>1, <1>8, <1>10
      <3>4. Sized(n + 1)' = Sized(n + 1)
        BY <1>0, <1>7
      <3> QED BY <1>n, <1>1, <1>10, <3>1, <3>2, <3>3, <3>4 DEF FaithfulUpToOversized
    <2>2. Behind(all, off)'
      <3>1. Sized(n)' = Sized(n)
        BY <1>0, <1>7
      <3> QED BY <1>n, <1>1, <1>5, <1>10, <3>1 DEF Behind
    <2> QED BY <1>1, <1>5, <2>1, <2>2
  <1> QED BY <1>1, <1>9, <1>10

\* Nothing is written before the first message.
LEMMA StreamStart == Init => StreamInv
  <1> SUFFICES ASSUME Init PROVE StreamInv
    OBVIOUS
  <1>1. sent = <<>> /\ got = <<>> /\ cache = <<>> /\ uploaded = 0 /\ wire = <<>> /\ link = "up"
    BY DEF Init
  <1>2. <<>> \in Seq({}) /\ Len(<<>>) = 0 /\ <<>> \in Seq(Cell)
    OBVIOUS
  <1>3. SentInv
    BY <1>1, <1>2 DEF SentInv, IsSeq
  <1>4. FaithfulUpToOversized
    BY <1>1, <1>2 DEF FaithfulUpToOversized
  <1> DEFINE none == [i \in 0..0 |-> 0]
  <1>5. Written(sent, <<>>, none)
    BY <1>1, <1>2 DEF Written
  <1>6. Behind(<<>>, none)
    BY <1>1, <1>2 DEF Behind, PartOf
  <1> QED BY <1>3, <1>4, <1>5, <1>6 DEF StreamInv

\* Every step keeps it.
LEMMA StreamStep == StreamInv /\ [Next]_vars => StreamInv'
  <1> SUFFICES ASSUME StreamInv, [Next]_vars PROVE StreamInv'
    OBVIOUS
  <1>1. IsSeq(cache) /\ uploaded \in Nat /\ Len(cache) \in Nat
    BY Appended DEF StreamInv, SentInv
  <1>2. ASSUME UNCHANGED <<sent, wire, link, got, uploaded>>, IsSeq(cache') PROVE StreamInv'
    <2>1. SentInv'
      BY <1>2 DEF StreamInv, SentInv
    <2>2. \A all, off : Behind(all, off)' = Behind(all, off)
      BY <1>2 DEF Behind, Sized
    <2>3. FaithfulUpToOversized' = FaithfulUpToOversized
      BY <1>2 DEF FaithfulUpToOversized, Sized
    <2>4. AllOfType' = AllOfType
      BY <1>2 DEF AllOfType
    <2> QED BY <1>2, <2>1, <2>2, <2>3, <2>4 DEF StreamInv
  <1>3. CASE LoadClientSettings \/ LoadServerSettings \/ LoadDevices \/ ExecuteWrite \/ UNCHANGED vars
    BY <1>1, <1>2, <1>3 DEF LoadClientSettings, LoadServerSettings, LoadSettings, LoadDevices,
                            ExecuteWrite, vars
  <1>4. CASE PollOnce \/ HandleMqttReading
    <2>1. UNCHANGED <<sent, wire, link, got, uploaded>>
      BY <1>4 DEF PollOnce, HandleMqttReading
    <2>2. cache' = cache \/ \E e : cache' = Append(cache, e)
      BY <1>4 DEF PollOnce, HandleMqttReading
    <2> QED BY <1>1, <1>2, <2>1, <2>2, Appended
  <1>5. CASE WriteHandshake
    <2>1. /\ Write(Handshake, [FirmwareVersion |-> 1, Sn |-> <<5, 6>>, Token |-> <<7>>], <<>>)
          /\ UNCHANGED <<link, got, cache, uploaded>>
      BY <1>5 DEF WriteHandshake
    <2> QED BY <1>1, <2>1, HandshakeIsSendable, WriteKeeps
  <1>6. CASE WriteUpload
    <2>1. PICK n \in 1..(Len(cache) - uploaded) :
             LET entries == SubSeq(cache, uploaded + 1, uploaded + n)
             IN  /\ Write(Upload, [i \in 1..n |-> entries[i].r], entries)
                 /\ uploaded' = uploaded + n
      BY <1>6 DEF WriteUpload
    <2> DEFINE entries == SubSeq(cache, uploaded + 1, uploaded + n)
    <2>2. PICK p : p = [i \in 1..n |-> entries[i].r]
      OBVIOUS
    <2>w. Write(Upload, [i \in 1..n |-> entries[i].r], entries) /\ uploaded' = uploaded + n
      BY <2>1
    <2> HIDE DEF entries
    <2>3. n \in Nat /\ p = [i \in 1..n |-> p[i]] /\ Len(p) = n
      BY <1>1, <2>2
    <2>4. Write(Upload, p, entries) /\ uploaded' \in Nat
      <3>1. Write(Upload, p, entries)
        BY <2>2, <2>w, Zenon
      <3>2. uploaded' \in Nat
        BY <1>1, <2>w, <2>3
      <3> QED BY <3>1, <3>2
    <2>5. CanEncode(Upload, p)
      BY <2>4 DEF Write
    <2>6. OfType([type |-> Upload, p |-> p]) => Sendable(Upload, p)
      <3>1. ASSUME OfType([type |-> Upload, p |-> p]) PROVE \A i \in 1..n : Typed(p[i])
        BY <2>3, <3>1 DEF OfType
      <3> QED BY <2>3, <2>5, <3>1, UploadIsSendable
    <2>7. UNCHANGED <<link, got, cache>>
      BY <1>6 DEF WriteUpload
    <2>8. IsSeq(cache')
      BY <1>1, <2>7
    <2> QED BY <2>4, <2>6, <2>7, <2>8, WriteKeeps
  <1>7. CASE WriteHeartbeat
    <2>1. Write(Heartbeat, <<>>, <<>>) /\ UNCHANGED <<link, got, cache, uploaded>>
      BY <1>7 DEF WriteHeartbeat
    <2>2. Sendable(Heartbeat, <<>>)
      BY DEF Sendable
    <2> QED BY <1>1, <2>1, <2>2, WriteKeeps
  <1>8. CASE WriteNotify
    <2>1. /\ Write(Notify, [EventCode |-> 2, DeviceHash |-> <<1>>, Timestamp |-> Now,
                            Severity |-> 0, Message |-> <<8, 9>>, RawData |-> <<>>], <<>>)
          /\ UNCHANGED <<link, got, cache, uploaded>>
      BY <1>8 DEF WriteNotify
    <2> QED BY <1>1, <2>1, NotifyIsSendable, WriteKeeps
  <1> QED BY <1>3, <1>4, <1>5, <1>6, <1>7, <1>8, CutKeeps, ReadKeeps DEF Next

-----------------------------------------------------------------------------
(* The device: points that are read and written                            *)

\* A list of digits says a number that as many bytes can hold.
LEMMA DigitsAreNumber ==
    ASSUME NEW bytes \in Seq(0..(Base - 1))
    PROVE  NumberOf(bytes) \in Nat /\ NumberOf(bytes) < Power(Len(bytes))
  <1> DEFINE n == Len(bytes)
  <1>1. n \in Nat /\ Base \in Nat /\ Base > 7 /\ 0..(Base - 1) \subseteq Nat
    BY BaseAssumption
  <1>2. bytes \in Seq(Nat)
    BY <1>1, SeqGrows
  <1>3. PICK num \in [0..n -> Nat] :
           /\ num[0] = 0
           /\ \A i \in 1..n : num[i] = num[i - 1] * Base + bytes[i]
           /\ NumberOf(bytes) = num[n]
    BY <1>2, NumberOfIs
  <1>4. PICK power \in [0..n -> Nat] :
           /\ power[0] = 1
           /\ \A i \in 1..n : power[i] = Base * power[i - 1]
           /\ Power(n) = power[n]
    BY <1>1, PowerIs
  <1>5. ASSUME NEW a \in Nat, NEW b \in Nat, NEW d \in 0..(Base - 1), a < b
        PROVE  a * Base + d < Base * b
    <2>1. PICK c \in Nat : b = a + 1 + c
      <3>1. b - a - 1 \in Nat /\ b = a + 1 + (b - a - 1)
        BY <1>5
      <3> QED BY <3>1
    <2>2. Base * b = a * Base + Base + Base * c
      BY <2>1, <1>1
    <2>3. Base * c \in Nat /\ a * Base \in Nat
      BY <1>1
    <2> QED BY <1>1, <2>2, <2>3
  <1> DEFINE P == {k \in Nat : k <= n => num[k] < power[k]}
  <1>6. 0 \in P
    BY <1>3, <1>4
  <1>7. ASSUME NEW k \in Nat, k \in P PROVE k + 1 \in P
    <2>1. SUFFICES ASSUME k + 1 <= n PROVE num[k + 1] < power[k + 1]
      OBVIOUS
    <2>2. k + 1 \in 1..n /\ k \in 0..n /\ (k + 1) - 1 = k
      BY <1>1, <2>1
    <2>3. num[k] \in Nat /\ power[k] \in Nat /\ num[k] < power[k]
      BY <1>7, <2>2
    <2>4. bytes[k + 1] \in 0..(Base - 1)
      <3>1. PICK D : D = 0..(Base - 1)
        OBVIOUS
      <3>2. bytes \in Seq(D)
        BY <3>1
      <3>3. \A i \in 1..Len(bytes) : bytes[i] \in D
        BY <3>2
      <3> QED BY <2>2, <3>1, <3>3
    <2>5. num[k + 1] = num[k] * Base + bytes[k + 1] /\ power[k + 1] = Base * power[k]
      BY <1>3, <1>4, <2>2
    <2> QED BY <1>5, <2>3, <2>4, <2>5
  <1> HIDE DEF P
  <1>8. n \in P
    BY <1>1, <1>6, <1>7, SetInduction
  <1>9. num[n] < power[n] /\ num[n] \in Nat
    BY <1>1, <1>8 DEF P
  <1> QED BY <1>3, <1>4, <1>9

\* What is written in w bytes are w digits, also when the number does not fit.
LEMMA BytesAreDigits ==
    ASSUME NEW w \in Nat, NEW n \in Nat
    PROVE  BigEndian(n, w) \in Seq(0..(Base - 1)) /\ Len(BigEndian(n, w)) = w
  <1>1. PICK rest \in [0..w -> Nat] : BigEndian(n, w) = [i \in 1..w |-> rest[w - i] % Base]
    BY BigEndianIs
  <1>2. \A i \in 1..w : rest[w - i] % Base \in 0..(Base - 1)
    <2> TAKE i \in 1..w
    <2>1. w - i \in 0..w
      OBVIOUS
    <2>2. rest[w - i] \in Nat
      BY <2>1
    <2> QED BY <2>2, Digits
  <1>3. [i \in 1..w |-> rest[w - i] % Base] \in [1..w -> 0..(Base - 1)]
    BY <1>2
  <1> QED BY <1>1, <1>3

LEMMA BytesAreNumbers ==
    ASSUME NEW w \in Nat, NEW n \in Nat
    PROVE  BigEndian(n, w) \in Seq(Nat) /\ Len(BigEndian(n, w)) = w
  <1>1. 0..(Base - 1) \subseteq Nat
    BY BaseAssumption
  <1> QED BY <1>1, BytesAreDigits, SeqGrows

\* The remainder of a number that is at most half the modulus away from zero is
\* the number in two's complement.
LEMMA Complement ==
    ASSUME NEW m \in Nat, m > 0, NEW k \in Int, -m <= 2 * k, 2 * k < m
    PROVE  /\ k % m \in Nat /\ k % m < m
           /\ 2 * (k % m) >= m => (k % m) - m = k
           /\ ~(2 * (k % m) >= m) => k % m = k
  <1>1. CASE k >= 0
    <2>1. k % m = k
      BY <1>1
    <2> QED BY <1>1, <2>1
  <1>2. CASE k < 0
    <2>1. k % m = k + m
      BY <1>2
    <2> QED BY <1>2, <2>1
  <1> QED BY <1>1, <1>2

LEMMA Remainder ==
    ASSUME NEW m \in Nat, m > 0, NEW k \in Int
    PROVE  /\ k % m \in Nat /\ k % m < m
           /\ (k >= 0 /\ k < m) => k % m = k
  <1>1. k % m \in 0..(m - 1)
    OBVIOUS
  <1>2. k >= 0 /\ k < m => k % m = k
    OBVIOUS
  <1> QED BY <1>1, <1>2

\* Every byte order is its own inverse.
LEMMA OrderTwice ==
    ASSUME NEW S, NEW b \in Seq(S), Len(b) = 4, NEW order
    PROVE  /\ ByteOrderConversion(b, order) \in Seq(S)
           /\ Len(ByteOrderConversion(b, order)) = 4
           /\ ByteOrderConversion(ByteOrderConversion(b, order), order) = b
  <1>1. b = <<b[1], b[2], b[3], b[4]>> /\ b[1] \in S /\ b[2] \in S /\ b[3] \in S /\ b[4] \in S
    OBVIOUS
  <1>2. CASE order = "dcba"
    BY <1>1, <1>2 DEF ByteOrderConversion
  <1>3. CASE order = "badc"
    BY <1>1, <1>3 DEF ByteOrderConversion
  <1>4. CASE order = "cdab"
    BY <1>1, <1>4 DEF ByteOrderConversion
  <1>5. CASE order \notin {"dcba", "badc", "cdab"}
    BY <1>5 DEF ByteOrderConversion
  <1> QED BY <1>2, <1>3, <1>4, <1>5

\* The bits of any number.
LEMMA BitsAre == \A n \in Int : FloatBits(n) \in Nat
  BY FloatAssumption, Widths DEF FloatBits

\* What registers of a float32 say.
LEMMA SingleIs ==
    ASSUME NEW n \in Int
    PROVE  /\ InRegisters(Float32, n) <=> (n = NaN \/ n = Inf \/ IsFloat32(n))
           /\ IsFloat32(n) => -Largest32 <= n /\ n <= Largest32
           /\ NaN # Inf /\ Inf > Largest32 /\ NaN > Largest32 /\ Inf \in Int /\ NaN \in Int
           /\ Largest32 \in Nat
  <1>1. Float32 # Bool /\ Float32 \notin IntegerTypes
    BY DEF IntegerTypes, Bool, Int16, Uint16, Int32, Uint32, Float32
  <1>2. InRegisters(Float32, n) <=> (n = NaN \/ n = Inf \/ IsFloat32(n))
    BY <1>1 DEF InRegisters, Finite
  <1>3. /\ One \in Nat /\ One >= 1 /\ Largest \in Nat /\ Largest32 \in Nat
        /\ Power(4) * One <= Largest /\ Largest32 <= Power(4)
    BY FloatAssumption, Widths
  <1>4. Largest32 <= Largest
    <2>1. PICK P \in Nat : P = Power(4)
      BY Widths
    <2>2. 1 * P <= One * P
      BY <1>3, Factor
    <2> QED BY <1>3, <2>1, <2>2
  <1> QED BY <1>2, <1>3, <1>4 DEF IsFloat32, Abs, NaN, Inf

\* The bits of a float32 are a number of four bytes, and say the float32 again.
LEMMA FloatRoundTrip ==
    ASSUME NEW n \in Int, InRegisters(Float32, n)
    PROVE  /\ FloatBits(n) \in Nat /\ FloatBits(n) < Power(4)
           /\ FloatOf(FloatBits(n)) = n
  <1>1. Power(4) \in Nat /\ 2 * Largest32 + 2 < Power(4)
    BY FloatAssumption, Widths
  <1>2. CASE n = NaN
    <2>1. FloatBits(n) = Power(4) - 1
      BY <1>2, SingleIs DEF FloatBits
    <2>2. ~IsFloat32(Largest32 - (Power(4) - 1))
      <3>1. ~(-Largest32 <= Largest32 - (Power(4) - 1)) /\ Largest32 - (Power(4) - 1) \in Int
        BY <1>1, SingleIs
      <3> QED BY <3>1, SingleIs
    <2>3. ~(Power(4) - 1 <= Largest32) /\ Power(4) - 1 # Power(4) - 2
      BY <1>1, SingleIs
    <2>4. FloatOf(Power(4) - 1) = NaN
      BY <2>2, <2>3 DEF FloatOf
    <2> QED BY <1>1, <1>2, <2>1, <2>4, Widths
  <1>3. CASE n = Inf
    <2>1. FloatBits(n) = Power(4) - 2
      BY <1>3, SingleIs DEF FloatBits
    <2> QED BY <1>1, <1>3, <2>1, Widths DEF FloatOf
  <1>4. CASE IsFloat32(n) /\ n # NaN /\ n # Inf
    <2>1. -Largest32 <= n /\ n <= Largest32 /\ Largest32 \in Nat
      BY <1>4, SingleIs
    <2>2. CASE n < 0
      <3>1. FloatBits(n) = Largest32 - n
        BY <1>4, <2>2 DEF FloatBits
      <3>2. ~(Largest32 - n <= Largest32) /\ Largest32 - (Largest32 - n) = n
            /\ Largest32 - n # Power(4) - 2 /\ Largest32 - n \in Nat /\ Largest32 - n < Power(4)
        BY <1>1, <2>1, <2>2
      <3> QED BY <1>4, <3>1, <3>2 DEF FloatOf
    <2>3. CASE ~(n < 0)
      <3>1. FloatBits(n) = n
        BY <1>4, <2>3 DEF FloatBits
      <3>2. n <= Largest32 /\ n # Power(4) - 2 /\ n \in Nat /\ n < Power(4)
        BY <1>1, <2>1, <2>3
      <3> QED BY <1>4, <3>1, <3>2 DEF FloatOf
    <2> QED BY <2>2, <2>3
  <1> QED BY <1>2, <1>3, <1>4, SingleIs

\* Four bytes say a float32 that four bytes can say.
LEMMA FloatsFit ==
    ASSUME NEW u \in Nat, u < Power(4)
    PROVE  FloatOf(u) \in Int /\ InRegisters(Float32, FloatOf(u))
  <1>1. PICK n : n = IF u <= Largest32 THEN u ELSE Largest32 - u
    OBVIOUS
  <1>0. n \in Int
    <2>1. Largest32 \in Nat
      BY FloatAssumption
    <2> QED BY <1>1, <2>1
  <1>2. FloatOf(u) \in {Inf, NaN} \/ (FloatOf(u) = n /\ IsFloat32(n))
    BY <1>1 DEF FloatOf
  <1>3. FloatOf(u) \in Int
    BY <1>0, <1>2, SingleIs
  <1> QED BY <1>2, <1>3, SingleIs

\* How many bytes a number of a type takes.
BytesOf(dt) == IF dt \in OneRegister THEN 2 ELSE 4

\* The first bytes of a list that is no longer than them.
LEMMA AllOfIt ==
    ASSUME NEW S, NEW s \in Seq(S), NEW w \in Nat, Len(s) = w
    PROVE  SubSeq(s, 1, w) = s
  <1>1. SubSeq(s, 1, w) \in Seq(S) /\ Len(SubSeq(s, 1, w)) = w
    OBVIOUS
  <1>2. \A i \in 1..w : SubSeq(s, 1, w)[i] = s[i]
    OBVIOUS
  <1> QED BY <1>1, <1>2

\* The first bytes of a list are the bytes that it begins with.
LEMMA FirstPart ==
    ASSUME NEW S, NEW s \in Seq(S), NEW t \in Seq(S)
    PROVE  /\ SubSeq(s \o t, 1, Len(s)) = s
           /\ s \o t \in Seq(S) /\ Len(s \o t) = Len(s) + Len(t)
  <1>1. /\ s \o t \in Seq(S) /\ Len(s \o t) = Len(s) + Len(t) /\ Len(t) \in Nat
        /\ Len(s) \in Nat /\ \A i \in 1..Len(s) : (s \o t)[i] = s[i]
    OBVIOUS
  <1>2. /\ SubSeq(s \o t, 1, Len(s)) \in Seq(S) /\ Len(SubSeq(s \o t, 1, Len(s))) = Len(s)
        /\ \A i \in 1..Len(s) : SubSeq(s \o t, 1, Len(s))[i] = (s \o t)[i]
    BY <1>1
  <1> QED BY <1>1, <1>2

\* The ends of what the registers of a type can say, in two's complement.
LEMMA RangeEnds ==
    ASSUME NEW dt \in IntegerTypes
    PROVE  /\ Power(BytesOf(dt)) \in Nat /\ Power(BytesOf(dt)) > 0
           /\ Lowest(dt) \in Int /\ -Power(4) <= Lowest(dt) /\ Lowest(dt) <= 0
           /\ Highest(dt) \in Int /\ 0 <= Highest(dt) /\ Highest(dt) <= Power(4)
  <1>0. Power(4) \in Nat /\ Power(4) > 0
    BY Widths
  <1>1. PICK P \in Nat, m \in Nat :
           P = Power(4) /\ m = Power(BytesOf(dt)) /\ m > 0 /\ m <= P /\ m = Width(dt)
    BY <1>0, Widths DEF BytesOf, Width
  <1>2. PICK lo \in Int, hi \in Int :
           /\ lo = Lowest(dt) /\ -P <= lo /\ lo <= 0
           /\ hi = Highest(dt) /\ 0 <= hi /\ hi <= P
    <2>1. CASE dt \in Signed
      <3>1. Lowest(dt) = -(m \div 2) /\ Highest(dt) = (m - 1) \div 2
        BY <1>1, <2>1 DEF Lowest, Highest
      <3> QED BY <1>1, <3>1
    <2>2. CASE dt \notin Signed
      <3>1. Lowest(dt) = 0 /\ Highest(dt) = m - 1
        BY <1>1, <2>2 DEF Lowest, Highest
      <3> QED BY <1>1, <3>1
    <2> QED BY <2>1, <2>2
  <1> QED BY <1>1, <1>2

LEMMA Within ==
    ASSUME NEW dt \in IntegerTypes, NEW m \in Nat, m = Power(BytesOf(dt)), NEW k \in Int
    PROVE  k \in Lowest(dt)..Highest(dt) <=>
              IF dt \in Signed THEN -m <= 2 * k /\ 2 * k < m ELSE 0 <= k /\ k < m
  <1>1. m > 0 /\ m = Width(dt)
    BY Widths DEF BytesOf, Width
  <1>2. CASE dt \in Signed
    <2>1. Lowest(dt) = -(m \div 2) /\ Highest(dt) = (m - 1) \div 2
      BY <1>1, <1>2 DEF Lowest, Highest
    <2> QED BY <1>1, <1>2, <2>1
  <1>3. CASE dt \notin Signed
    <2>1. Lowest(dt) = 0 /\ Highest(dt) = m - 1
      BY <1>1, <1>3 DEF Lowest, Highest
    <2> QED BY <1>1, <1>3, <2>1
  <1> QED BY <1>2, <1>3

\* An integer that the registers of its type can say comes back from them.
LEMMA IntegerComesBack ==
    ASSUME NEW dt \in IntegerTypes, NEW k \in Int, k \in Lowest(dt)..Highest(dt), NEW bytes,
           SubSeq(bytes, 1, BytesOf(dt)) = BigEndian(k % Power(BytesOf(dt)), BytesOf(dt))
    PROVE  IntegerOf(bytes, BytesOf(dt), dt) = k
  <1> DEFINE w == BytesOf(dt)
  <1>1. w \in Nat /\ Power(w) \in Nat /\ Power(w) > 0
    BY Widths DEF BytesOf
  <1>4. PICK m \in Nat : m = Power(w) /\ m > 0
    BY <1>1
  <1>r. IF dt \in Signed THEN -m <= 2 * k /\ 2 * k < m ELSE 0 <= k /\ k < m
    BY <1>4, Within
  <1>5. PICK u \in Nat : u = k % m /\ u < m
    BY <1>4, Remainder
  <1>6. NumberOf(SubSeq(bytes, 1, w)) = u
    <2>1. SubSeq(bytes, 1, w) = BigEndian(u, w)
      BY <1>4, <1>5
    <2> HIDE DEF w
    <2> QED BY <1>1, <1>4, <1>5, <2>1, NumberRoundTrip, ZenonT(60)
  <1> HIDE DEF w
  <1>7. IntegerOf(bytes, w, dt) = IF dt \in Signed /\ 2 * u >= m THEN u - m ELSE u
    BY <1>4, <1>6 DEF IntegerOf
  <1>8. CASE dt \in Signed
    <2>1. (2 * u >= m => u - m = k) /\ (~(2 * u >= m) => u = k)
      BY <1>4, <1>5, <1>8, <1>r, Complement
    <2>2. IntegerOf(bytes, w, dt) = k
      BY <1>7, <1>8, <2>1
    <2> QED BY <2>2 DEF w
  <1>9. CASE dt \notin Signed
    <2>1. u = k
      BY <1>4, <1>5, <1>9, <1>r, Remainder
    <2>2. IntegerOf(bytes, w, dt) = k
      BY <1>7, <1>9, <2>1
    <2> QED BY <2>2 DEF w
  <1> QED BY <1>8, <1>9

\* What a coil says.
LEMMA CoilSays == \A n : InRegisters(Bool, n) <=> n \in {0, One}
  <1>1. Bool \notin IntegerTypes
    BY DEF IntegerTypes, Bool, Int16, Uint16, Int32, Uint32
  <1> QED BY <1>1 DEF InRegisters

\* What registers of an integer type say is whole and in its range.
LEMMA InRange ==
    ASSUME NEW dt \in IntegerTypes, NEW n
    PROVE  InRegisters(dt, n) <=> n % One = 0 /\ n \div One \in Lowest(dt)..Highest(dt)
  <1>1. dt # Bool
    BY DEF IntegerTypes, Bool, Int16, Uint16, Int32, Uint32
  <1> QED BY <1>1 DEF InRegisters

LEMMA WholeInRange ==
    ASSUME NEW dt \in IntegerTypes, NEW n \in Int, InRegisters(dt, n)
    PROVE  /\ n \div One \in Int /\ n \div One \in Lowest(dt)..Highest(dt)
           /\ n = One * (n \div One)
  <1>1. One \in Nat /\ One > 0
    BY FloatAssumption
  <1>2. n % One = 0 /\ n \div One \in Lowest(dt)..Highest(dt) /\ n \div One \in Int
    BY <1>1, InRange
  <1>3. n = (n \div One) * One
    BY <1>1, <1>2, Divides
  <1> QED BY <1>1, <1>2, <1>3

\* Registers say an integer that the registers of its type can say.
LEMMA IntegersFit ==
    ASSUME NEW dt \in IntegerTypes, NEW bytes \in Seq(0..(Base - 1)),
           Len(bytes) = BytesOf(dt)
    PROVE  /\ IntegerOf(bytes, BytesOf(dt), dt) \in Int
           /\ InRegisters(dt, One * IntegerOf(bytes, BytesOf(dt), dt))
  <1> DEFINE w == BytesOf(dt)
             i == IntegerOf(bytes, w, dt)
  <1>1. w \in Nat /\ Power(w) \in Nat /\ Power(w) > 0
    BY Widths DEF BytesOf
  <1>2. SubSeq(bytes, 1, w) = bytes
    BY <1>1, AllOfIt
  <1>3. PICK u \in Nat : u = NumberOf(bytes) /\ u < Power(w)
    BY DigitsAreNumber
  <1>4. i = IF dt \in Signed /\ 2 * u >= Power(w) THEN u - Power(w) ELSE u
    BY <1>2, <1>3 DEF IntegerOf
  <1>5. PICK m \in Nat : m = Power(w) /\ m > 0
    BY <1>1
  <1>r. \A k \in Int : k \in Lowest(dt)..Highest(dt) <=>
           IF dt \in Signed THEN -m <= 2 * k /\ 2 * k < m ELSE 0 <= k /\ k < m
    <2> TAKE k \in Int
    <2> QED BY <1>5, Within
  <1> HIDE DEF w, i
  <1>6. i \in Int /\ i \in Lowest(dt)..Highest(dt)
    <2>1. CASE dt \in Signed
      <3>1. i \in Int /\ -m <= 2 * i /\ 2 * i < m
        BY <1>3, <1>4, <1>5, <2>1
      <3> QED BY <1>r, <2>1, <3>1
    <2>2. CASE dt \notin Signed
      <3>1. i \in Int /\ 0 <= i /\ i < m
        BY <1>3, <1>4, <1>5, <2>2
      <3> QED BY <1>r, <2>2, <3>1
    <2> QED BY <2>1, <2>2
  <1>7. (One * i) % One = 0 /\ (One * i) \div One = i
    BY <1>6, WholeNumber
  <1>8. InRegisters(dt, One * i)
    BY <1>6, <1>7, InRange
  <1> QED BY <1>6, <1>8 DEF i, w

\* A point that is in use, whatever its function code and quantity.
PointInUse(p) ==
    p.scale \in Int /\ p.offset \in Int /\ p.dt \in OneWide \cup TwoRegisters

\* The registers of a point are four bytes, and begin with the bytes of its number.
LEMMA RegistersAre ==
    ASSUME NEW p, p.dt \in OneRegister \cup TwoRegisters, NEW n \in Int
    PROVE  /\ Registers(p, n) \in Seq(Nat) /\ Len(Registers(p, n)) = 4
           /\ p.dt \in OneRegister =>
                 SubSeq(Registers(p, n), 1, 2) = BigEndian((n \div One) % Power(2), 2)
           /\ p.dt \in {Int32, Uint32} =>
                 Registers(p, n) = ByteOrderConversion(
                                       BigEndian((n \div One) % Power(4), 4), p.order)
           /\ p.dt = Float32 =>
                 Registers(p, n) = ByteOrderConversion(BigEndian(FloatBits(n), 4), p.order)
  <1>1. n \div One \in Int
    BY FloatAssumption
  <1>2. (n \div One) % Power(2) \in Nat /\ (n \div One) % Power(4) \in Nat /\ FloatBits(n) \in Nat
    <2>1. Power(2) \in Nat /\ Power(2) > 0 /\ Power(4) \in Nat /\ Power(4) > 0
      BY Widths
    <2>2. (n \div One) % Power(2) \in Nat /\ (n \div One) % Power(4) \in Nat
      BY <1>1, <2>1, Remainder
    <2> QED BY <2>2, BitsAre
  <1>3. CASE p.dt \in OneRegister
    <2>1. PICK b : b = BigEndian((n \div One) % Power(2), 2) /\ b \in Seq(Nat) /\ Len(b) = 2
      BY <1>2, BytesAreNumbers
    <2>2. Registers(p, n) = b \o <<0, 0>> /\ p.dt \notin {Int32, Uint32, Float32}
      BY <1>3, <2>1 DEF Registers, OneRegister, Bool, Int16, Uint16, Int32, Uint32, Float32
    <2>3. PICK t : t = <<0, 0>> /\ t \in Seq(Nat) /\ Len(t) = 2
      <3>1. <<0, 0>> \in Seq(Nat) /\ Len(<<0, 0>>) = 2
        OBVIOUS
      <3> QED BY <3>1
    <2>4. SubSeq(b \o t, 1, 2) = b /\ b \o t \in Seq(Nat) /\ Len(b \o t) = Len(b) + Len(t)
      <3>1. b \in Seq(Nat) /\ t \in Seq(Nat)
        BY <2>1, <2>3
      <3>2. SubSeq(b \o t, 1, Len(b)) = b /\ b \o t \in Seq(Nat) /\ Len(b \o t) = Len(b) + Len(t)
        BY <3>1, FirstPart
      <3> QED BY <2>1, <3>2, Zenon
    <2>5. Len(b \o t) = 2 + 2
      BY <2>1, <2>3, <2>4, Zenon
    <2>6. Len(b \o t) = 4
      BY <2>5
    <2> QED BY <1>3, <2>1, <2>2, <2>3, <2>4, <2>6
  <1>4. CASE p.dt = Float32
    <2>1. PICK b : b = BigEndian(FloatBits(n), 4) /\ b \in Seq(Nat) /\ Len(b) = 4
      BY <1>2, BytesAreNumbers
    <2>2. Registers(p, n) = ByteOrderConversion(b, p.order)
          /\ p.dt \notin OneRegister \cup {Int32, Uint32}
      BY <1>4, <2>1 DEF Registers, OneRegister, Bool, Int16, Uint16, Int32, Uint32, Float32
    <2> QED BY <2>1, <2>2, OrderTwice
  <1>5. CASE p.dt \in {Int32, Uint32}
    <2>1. PICK b : b = BigEndian((n \div One) % Power(4), 4) /\ b \in Seq(Nat) /\ Len(b) = 4
      BY <1>2, BytesAreNumbers
    <2>2. Registers(p, n) = ByteOrderConversion(b, p.order)
          /\ p.dt \notin OneRegister \cup {Float32}
      BY <1>5, <2>1 DEF Registers, OneRegister, Bool, Int16, Uint16, Int32, Uint32, Float32
    <2> QED BY <2>1, <2>2, OrderTwice
  <1> QED BY <1>3, <1>4, <1>5 DEF TwoRegisters

\* The answer to a documented request is a coil, or the registers of the type.
LEMMA ResponseIs ==
    ASSUME NEW p, Documented(p), NEW n \in Int
    PROVE  /\ p.dt = Bool => Response(p, n) = <<n \div One>>
           /\ p.dt \in OneRegister =>
                 Len(Response(p, n)) = 2 /\ Response(p, n) = SubSeq(Registers(p, n), 1, 2)
           /\ p.dt \in TwoRegisters =>
                 Len(Response(p, n)) = 4 /\ Response(p, n) = Registers(p, n)
           /\ p.dt \in {Bool} \cup OneRegister \cup TwoRegisters
  <1>1. CASE p.fc \in {1, 2} /\ p.dt = Bool /\ p.quantity = 1
    <2>0. n \div One \in Int
      BY FloatAssumption
    <2>1. Response(p, n) = <<n \div One + 0>> /\ n \div One + 0 = n \div One
      BY <1>1, <2>0 DEF Response
    <2> QED BY <1>1, <2>1 DEF OneRegister, TwoRegisters, Bool, Int16, Uint16, Int32, Uint32, Float32
  <1>2. CASE p.fc \in {3, 4} /\ p.dt \in OneRegister /\ p.quantity = 1
    <2>1. Response(p, n) = SubSeq(Registers(p, n), 1, 2)
      BY <1>2 DEF Response
    <2>2. Registers(p, n) \in Seq(Nat) /\ Len(Registers(p, n)) = 4
      BY <1>2, RegistersAre
    <2>3. Len(SubSeq(Registers(p, n), 1, 2)) = 2
      BY <2>2
    <2> QED BY <1>2, <2>1, <2>3 DEF OneRegister, TwoRegisters, Bool, Int16, Uint16, Int32, Uint32, Float32
  <1>3. CASE p.fc \in {3, 4} /\ p.dt \in TwoRegisters /\ p.quantity = 2
    <2>1. Response(p, n) = SubSeq(Registers(p, n), 1, 4)
      BY <1>3 DEF Response
    <2>2. Registers(p, n) \in Seq(Nat) /\ Len(Registers(p, n)) = 4
      BY <1>3, RegistersAre
    <2>3. SubSeq(Registers(p, n), 1, 4) = Registers(p, n)
      BY <2>2, AllOfIt
    <2> QED BY <1>3, <2>1, <2>2, <2>3 DEF OneRegister, TwoRegisters, Bool, Int16, Uint16, Int32, Uint32, Float32
  <1> QED BY <1>1, <1>2, <1>3 DEF Documented

\* The data types of a Modbus point are different words.
LEMMA TypesDiffer ==
    /\ Bool \notin OneRegister /\ Bool \notin {Int32, Uint32} /\ Bool # Float32
    /\ \A dt \in OneRegister : dt # Bool /\ dt \notin {Int32, Uint32} /\ dt # Float32
    /\ \A dt \in {Int32, Uint32} : dt # Bool /\ dt \notin OneRegister /\ dt # Float32
    /\ Float32 \notin OneRegister /\ Float32 \notin {Int32, Uint32}
    /\ OneRegister \cup {Int32, Uint32} = IntegerTypes
    /\ {Int32, Uint32} \cup {Float32} = TwoRegisters
  BY DEF OneRegister, TwoRegisters, IntegerTypes, Bool, Int16, Uint16, Int32, Uint32, Float32

\* What parsePointValue makes of an answer that is long enough.
LEMMA Parsed ==
    ASSUME NEW p, NEW res, Len(res) \in Nat
    PROVE  /\ p.dt = Bool /\ Len(res) >= 1 =>
                 ParsePointValue(p, res) = <<"bool", res[1] # 0>>
           /\ p.dt \in OneRegister /\ Len(res) >= 2 =>
                 ParsePointValue(p, res) = <<"num", Scaled(One * IntegerOf(res, 2, p.dt), p)>>
           /\ p.dt \in {Int32, Uint32} /\ Len(res) >= 4 =>
                 ParsePointValue(p, res) = <<"num", Scaled(One * IntegerOf(res, 4, p.dt), p)>>
           /\ p.dt = Float32 /\ Len(res) >= 4 =>
                 ParsePointValue(p, res) =
                    <<"num", Scaled(FloatOf(NumberOf(ByteOrderConversion(
                                SubSeq(res, 1, 4), p.order))), p)>>
  <1>1. ASSUME p.dt = Bool, Len(res) >= 1
        PROVE  ParsePointValue(p, res) = <<"bool", res[1] # 0>>
    <2>1. ~(Len(res) < 1)
      BY <1>1
    <2> QED BY <1>1, <2>1, TypesDiffer, Zenon DEF ParsePointValue
  <1>2. ASSUME p.dt \in OneRegister, Len(res) >= 2
        PROVE  ParsePointValue(p, res) = <<"num", Scaled(One * IntegerOf(res, 2, p.dt), p)>>
    <2>1. ~(Len(res) < 2)
      BY <1>2
    <2> QED BY <1>2, <2>1, TypesDiffer, Zenon DEF ParsePointValue
  <1>3. ASSUME p.dt \in {Int32, Uint32}, Len(res) >= 4
        PROVE  ParsePointValue(p, res) = <<"num", Scaled(One * IntegerOf(res, 4, p.dt), p)>>
    <2>1. ~(Len(res) < 4)
      BY <1>3
    <2> QED BY <1>3, <2>1, TypesDiffer, Zenon DEF ParsePointValue
  <1>4. ASSUME p.dt = Float32, Len(res) >= 4
        PROVE  ParsePointValue(p, res) =
                  <<"num", Scaled(FloatOf(NumberOf(ByteOrderConversion(
                              SubSeq(res, 1, 4), p.order))), p)>>
    <2>1. ~(Len(res) < 4)
      BY <1>4
    <2> QED BY <1>4, <2>1, TypesDiffer, Zenon DEF ParsePointValue
  <1> QED BY <1>1, <1>2, <1>3, <1>4

\* parsePointValue finds what it indexes in the answer to a documented request.
LEMMA DocumentedIsRead ==
    ASSUME NEW p, Documented(p), NEW n \in Int
    PROVE  ParsePointValue(p, Response(p, n))[1] # "panic"
  <1> DEFINE res == Response(p, n)
  <1>1. CASE p.dt = Bool
    <2>1. Len(res) \in Nat /\ Len(res) >= 1
      <3>1. res = <<n \div One>>
        BY <1>1, ResponseIs
      <3> QED BY <3>1
    <2>2. ParsePointValue(p, res) = <<"bool", res[1] # 0>>
      BY <1>1, <2>1, Parsed
    <2>3. ParsePointValue(p, res)[1] = "bool"
      BY <2>2
    <2> QED BY <2>3
  <1>2. CASE p.dt \in OneRegister
    <2>1. Len(res) = 2
      BY <1>2, ResponseIs
    <2>4. Len(res) \in Nat /\ Len(res) >= 2
      BY <2>1
    <2> HIDE DEF res
    <2>2. ParsePointValue(p, res) = <<"num", Scaled(One * IntegerOf(res, 2, p.dt), p)>>
      BY <1>2, <2>4, Parsed, Zenon
    <2>3. ParsePointValue(p, res)[1] = "num"
      BY <2>2
    <2> QED BY <2>3 DEF res
  <1>3. CASE p.dt \in TwoRegisters
    <2>1. Len(res) = 4
      BY <1>3, ResponseIs
    <2>2. p.dt \in {Int32, Uint32} \/ p.dt = Float32
      BY <1>3, TypesDiffer
    <2>5. Len(res) \in Nat /\ Len(res) >= 4
      BY <2>1
    <2> HIDE DEF res
    <2>3. \E x : ParsePointValue(p, res) = <<"num", x>>
      BY <2>2, <2>5, Parsed, Zenon
    <2>4. ParsePointValue(p, res)[1] = "num"
      BY <2>3
    <2> QED BY <2>4 DEF res
  <1> QED BY <1>1, <1>2, <1>3, ResponseIs

\* What is read of a documented point, its integers in the order abcd, is what
\* the device holds, scaled.
LEMMA ReadIsMeant ==
    ASSUME NEW p, Documented(p), ReadInOrder(p), NEW n \in Int, InRegisters(p.dt, n)
    PROVE  ParsePointValue(p, Response(p, n)) = Physical(p, n)
  <1>1. CASE p.dt = Bool
    <2>1. Response(p, n) = <<n \div One>> /\ n \in {0, One}
      <3>1. InRegisters(Bool, n) => n \in {0, One}
        BY CoilSays
      <3> QED BY <1>1, <3>1, ResponseIs
    <2>2. n \div One # 0 <=> n # 0
      <3>1. One \in Nat /\ One > 0 /\ 0 \div One = 0 /\ One \div One = 1
        BY FloatAssumption
      <3> QED BY <2>1, <3>1
    <2>3. ParsePointValue(p, <<n \div One>>) = <<"bool", n \div One # 0>>
      <3>0. PICK res : res = <<n \div One>>
        OBVIOUS
      <3>1. Len(res) \in Nat /\ Len(res) >= 1 /\ res[1] = n \div One
        BY <3>0
      <3>2. ParsePointValue(p, res) = <<"bool", res[1] # 0>>
        BY <1>1, <3>1, Parsed
      <3> QED BY <3>0, <3>1, <3>2
    <2>4. Physical(p, n) = <<"bool", n # 0>>
      BY <1>1 DEF Physical
    <2>5. (n \div One # 0) = (n # 0)
      BY <2>2
    <2> QED BY <2>1, <2>3, <2>4, <2>5
  <1>2. CASE p.dt \in OneRegister
    <2>0. p.dt \in IntegerTypes /\ BytesOf(p.dt) = 2 /\ p.dt # Bool
      BY <1>2 DEF IntegerTypes, OneRegister, BytesOf, Bool, Int16, Uint16
    <2>1. /\ Len(Response(p, n)) = 2
          /\ Response(p, n) = BigEndian((n \div One) % Power(2), 2)
      BY <1>2, ResponseIs, RegistersAre
    <2>2. SubSeq(Response(p, n), 1, 2) = BigEndian((n \div One) % Power(2), 2)
      <3>1. (n \div One) % Power(2) \in Nat
        <4>1. n \div One \in Int /\ Power(2) \in Nat /\ Power(2) > 0
          BY FloatAssumption, Widths
        <4> QED BY <4>1, Remainder
      <3>2. PICK b : b = BigEndian((n \div One) % Power(2), 2) /\ b \in Seq(Int) /\ Len(b) = 2
        BY <3>1, NumberIs
      <3> QED BY <2>1, <3>2, AllOfIt
    <2>3. One * IntegerOf(Response(p, n), 2, p.dt) = n
      BY <2>0, <2>2, WholeInRange, IntegerComesBack
    <2>4. ParsePointValue(p, Response(p, n)) =
             <<"num", Scaled(One * IntegerOf(Response(p, n), 2, p.dt), p)>>
      <3>1. Len(Response(p, n)) \in Nat /\ Len(Response(p, n)) >= 2
        BY <2>1
      <3> QED BY <1>2, <3>1, Parsed, Zenon
    <2> QED BY <2>0, <2>3, <2>4 DEF Physical
  <1>3. CASE p.dt \in {Int32, Uint32}
    <2>0. /\ p.dt \in IntegerTypes /\ BytesOf(p.dt) = 4 /\ p.dt # Bool
          /\ p.dt \notin OneRegister /\ p.dt \in TwoRegisters
      BY <1>3 DEF IntegerTypes, OneRegister, TwoRegisters, BytesOf, Bool, Int16, Uint16, Int32, Uint32
    <2>1. (n \div One) % Power(4) \in Nat
      <3>1. n \div One \in Int /\ Power(4) \in Nat /\ Power(4) > 0
        BY FloatAssumption, Widths
      <3> QED BY <3>1, Remainder
    <2>2. PICK b : b = BigEndian((n \div One) % Power(4), 4) /\ b \in Seq(Int) /\ Len(b) = 4
      BY <2>1, NumberIs
    <2>3. ByteOrderConversion(b, p.order) = b
      BY <1>3 DEF ReadInOrder, ByteOrderConversion
    <2>4. Response(p, n) = b
      BY <1>3, <2>0, <2>2, <2>3, ResponseIs, RegistersAre
    <2>5. SubSeq(Response(p, n), 1, 4) = b
      BY <2>2, <2>4, AllOfIt
    <2>6. One * IntegerOf(Response(p, n), 4, p.dt) = n
      <3>1. PICK k \in Int : k = n \div One /\ k \in Lowest(p.dt)..Highest(p.dt) /\ n = One * k
        BY <2>0, WholeInRange
      <3>2. IntegerOf(Response(p, n), 4, p.dt) = k
        <4>1. SubSeq(Response(p, n), 1, BytesOf(p.dt)) = BigEndian(k % Power(BytesOf(p.dt)), BytesOf(p.dt))
          BY <2>0, <2>2, <2>5, <3>1
        <4>2. IntegerOf(Response(p, n), BytesOf(p.dt), p.dt) = k
          BY <2>0, <3>1, <4>1, IntegerComesBack
        <4> QED BY <2>0, <4>2
      <3> QED BY <3>1, <3>2
    <2>7. ParsePointValue(p, Response(p, n)) =
             <<"num", Scaled(One * IntegerOf(Response(p, n), 4, p.dt), p)>>
      <3>1. Len(Response(p, n)) \in Nat /\ Len(Response(p, n)) >= 4
        <4>1. Len(Response(p, n)) = 4
          BY <2>2, <2>4, Zenon
        <4> QED BY <4>1
      <3> QED BY <1>3, <3>1, Parsed, Zenon
    <2> QED BY <2>0, <2>6, <2>7 DEF Physical
  <1>4. CASE p.dt = Float32
    <2>0. /\ p.dt # Bool /\ p.dt \notin OneRegister \cup {Int32, Uint32} /\ p.dt \in TwoRegisters
      BY <1>4 DEF OneRegister, TwoRegisters, Bool, Int16, Uint16, Int32, Uint32, Float32
    <2>1. /\ FloatBits(n) \in Nat /\ FloatBits(n) < Power(4)
          /\ FloatOf(FloatBits(n)) = n
      BY <1>4, FloatRoundTrip
    <2>2. PICK b : /\ b = BigEndian(FloatBits(n), 4) /\ b \in Seq(Int) /\ Len(b) = 4
                   /\ NumberOf(b) = FloatBits(n)
      <3>1. BigEndian(FloatBits(n), 4) \in Seq(Int) /\ Len(BigEndian(FloatBits(n), 4)) = 4
        BY <2>1, NumberIs
      <3>2. NumberOf(BigEndian(FloatBits(n), 4)) = FloatBits(n)
        BY <2>1, NumberRoundTrip
      <3> QED BY <3>1, <3>2
    <2>3. PICK c : c = ByteOrderConversion(b, p.order)
      OBVIOUS
    <2>4. c \in Seq(Int) /\ Len(c) = 4 /\ ByteOrderConversion(c, p.order) = b
      BY <2>2, <2>3, OrderTwice
    <2>5. Response(p, n) = c
      BY <1>4, <2>0, <2>2, <2>3, ResponseIs, RegistersAre
    <2>6. SubSeq(c, 1, 4) = c
      BY <2>4, AllOfIt
    <2>7. ParsePointValue(p, c) = <<"num", Scaled(FloatOf(NumberOf(ByteOrderConversion(
                                       SubSeq(c, 1, 4), p.order))), p)>>
      <3>1. Len(c) \in Nat /\ Len(c) >= 4
        BY <2>4
      <3> QED BY <1>4, <3>1, Parsed, Zenon
    <2> QED BY <2>0, <2>1, <2>2, <2>4, <2>5, <2>6, <2>7 DEF Physical
  <1> QED BY <1>1, <1>2, <1>3, <1>4, ResponseIs DEF TwoRegisters

\* The bytes of an integer that is written, cut off as they may be, are digits.
LEMMA IntegerBytes ==
    ASSUME NEW n \in Int, NEW w \in {2, 4}
    PROVE  ToInteger(n, w) \in Seq(0..(Base - 1)) /\ Len(ToInteger(n, w)) = w
  <1>1. w \in Nat /\ Power(w) \in Nat /\ Power(w) > 0
    BY Widths
  <1>2. CASE Finite(n)
    <2>1. TowardZero(n) \in Int
      BY FloatAssumption DEF TowardZero
    <2>2. TowardZero(n) % Power(w) \in Nat
      BY <1>1, <2>1, Remainder
    <2>3. ToInteger(n, w) = BigEndian(TowardZero(n) % Power(w), w)
      BY <1>2 DEF ToInteger
    <2> QED BY <1>1, <2>2, <2>3, BytesAreDigits
  <1>3. CASE ~Finite(n)
    <2>1. ToInteger(n, w) = BigEndian(0, w) /\ 0 \in Nat
      BY <1>3 DEF ToInteger
    <2> QED BY <1>1, <2>1, BytesAreDigits
  <1> QED BY <1>2, <1>3

\* What executeWrite divides by the scale is a number.
LEMMA UnscaledIs ==
    ASSUME NEW p, PointInUse(p), NEW v \in Int
    PROVE  Unscaled(v, p) \in Int
  <1>1. p.scale \in Int /\ -p.offset \in Int
    BY DEF PointInUse
  <1>2. Sum(v, -p.offset) \in Int
    BY <1>1, OperationsAre
  <1> QED BY <1>1, <1>2, OperationsAre DEF Unscaled

\* What the device holds after a write.
LEMMA HeldIs ==
    ASSUME NEW p, PointInUse(p), NEW v \in Int, NEW raw, raw = Unscaled(v, p)
    PROVE  /\ p.dt = Bool =>
                 HeldAfter(p, WriteBytes(p, v)) = IF raw # 0 THEN One ELSE 0
           /\ p.dt \in OneRegister =>
                 HeldAfter(p, WriteBytes(p, v)) = One * IntegerOf(ToInteger(raw, 2), 2, p.dt)
           /\ p.dt \in {Int32, Uint32} =>
                 HeldAfter(p, WriteBytes(p, v)) = One * IntegerOf(ToInteger(raw, 4), 4, p.dt)
           /\ p.dt = Float32 =>
                 HeldAfter(p, WriteBytes(p, v)) = FloatOf(NumberOf(BigEndian(FloatBits(Narrow(raw)), 4)))
  <1>0. raw \in Int
    BY UnscaledIs
  <1>1. ASSUME p.dt = Bool
        PROVE  HeldAfter(p, WriteBytes(p, v)) = IF raw # 0 THEN One ELSE 0
    <2>1. WriteBytes(p, v) = <<IF raw # 0 THEN 1 ELSE 0>>
      BY <1>1, TypesDiffer, Zenon DEF WriteBytes
    <2>2. HeldAfter(p, WriteBytes(p, v)) = One * WriteBytes(p, v)[1]
      BY <1>1, TypesDiffer, Zenon DEF HeldAfter
    <2>3. WriteBytes(p, v)[1] = IF raw # 0 THEN 1 ELSE 0
      BY <2>1
    <2>4. One * 1 = One /\ One * 0 = 0
      BY FloatAssumption
    <2> QED BY <2>2, <2>3, <2>4
  <1>2. ASSUME p.dt \in OneRegister
        PROVE  HeldAfter(p, WriteBytes(p, v)) = One * IntegerOf(ToInteger(raw, 2), 2, p.dt)
    <2>1. WriteBytes(p, v) = ToInteger(raw, 2)
      BY <1>2, TypesDiffer, Zenon DEF WriteBytes
    <2>2. HeldAfter(p, WriteBytes(p, v)) = One * IntegerOf(WriteBytes(p, v), 2, p.dt)
      BY <1>2, TypesDiffer, Zenon DEF HeldAfter
    <2> QED BY <2>1, <2>2
  <1>3. ASSUME p.dt \in {Int32, Uint32}
        PROVE  HeldAfter(p, WriteBytes(p, v)) = One * IntegerOf(ToInteger(raw, 4), 4, p.dt)
    <2>1. WriteBytes(p, v) = ByteOrderConversion(ToInteger(raw, 4), p.order)
      BY <1>3, TypesDiffer, Zenon DEF WriteBytes
    <2>2. HeldAfter(p, WriteBytes(p, v)) =
             One * IntegerOf(ByteOrderConversion(WriteBytes(p, v), p.order), 4, p.dt)
      BY <1>3, TypesDiffer, Zenon DEF HeldAfter
    <2>3. ByteOrderConversion(ByteOrderConversion(ToInteger(raw, 4), p.order), p.order)
             = ToInteger(raw, 4)
      BY <1>0, IntegerBytes, OrderTwice
    <2> QED BY <2>1, <2>2, <2>3
  <1>4. ASSUME p.dt = Float32
        PROVE  HeldAfter(p, WriteBytes(p, v)) = FloatOf(NumberOf(BigEndian(FloatBits(Narrow(raw)), 4)))
    <2>1. WriteBytes(p, v) = ByteOrderConversion(BigEndian(FloatBits(Narrow(raw)), 4), p.order)
      BY <1>4, TypesDiffer, Zenon DEF WriteBytes
    <2>2. HeldAfter(p, WriteBytes(p, v)) =
             FloatOf(NumberOf(ByteOrderConversion(WriteBytes(p, v), p.order)))
      BY <1>4, TypesDiffer, Zenon DEF HeldAfter
    <2>3. PICK b : b = BigEndian(FloatBits(Narrow(raw)), 4) /\ b \in Seq(Int) /\ Len(b) = 4
      <3>1. FloatBits(Narrow(raw)) \in Nat
        BY <1>0, OperationsAre, BitsAre
      <3> QED BY <3>1, NumberIs
    <2>4. ByteOrderConversion(ByteOrderConversion(b, p.order), p.order) = b
      BY <2>3, OrderTwice
    <2> QED BY <2>1, <2>2, <2>3, <2>4
  <1> QED BY <1>1, <1>2, <1>3, <1>4

\* After a write the device holds what its registers can say.
LEMMA HeldFits ==
    ASSUME NEW p, PointInUse(p), NEW v \in Int
    PROVE  /\ HeldAfter(p, WriteBytes(p, v)) \in Int
           /\ InRegisters(p.dt, HeldAfter(p, WriteBytes(p, v)))
  <1>0. PICK raw \in Int : raw = Unscaled(v, p)
    BY UnscaledIs
  <1> DEFINE held == HeldAfter(p, WriteBytes(p, v))
  <1>1. CASE p.dt = Bool
    <2>1. held = IF raw # 0 THEN One ELSE 0
      BY <1>0, <1>1, HeldIs
    <2> HIDE DEF held
    <2>2. held \in {0, One}
      BY <2>1
    <2>3. InRegisters(Bool, held) <=> held \in {0, One}
      BY CoilSays
    <2>4. held \in Int
      BY <2>2, FloatAssumption
    <2> QED BY <1>1, <2>2, <2>3, <2>4 DEF held
  <1>2. CASE p.dt \in OneRegister
    <2>1. p.dt \in IntegerTypes /\ BytesOf(p.dt) = 2
      BY <1>2, TypesDiffer DEF BytesOf
    <2>2. PICK b : b = ToInteger(raw, 2) /\ b \in Seq(0..(Base - 1)) /\ Len(b) = 2
      BY IntegerBytes
    <2>3. IntegerOf(b, 2, p.dt) \in Int /\ InRegisters(p.dt, One * IntegerOf(b, 2, p.dt))
      BY <2>1, <2>2, IntegersFit
    <2>4. held = One * IntegerOf(b, 2, p.dt)
      BY <1>0, <1>2, <2>2, HeldIs
    <2>5. One * IntegerOf(b, 2, p.dt) \in Int
      BY <2>3, WholeNumber
    <2> QED BY <2>3, <2>4, <2>5
  <1>3. CASE p.dt \in {Int32, Uint32}
    <2>1. p.dt \in IntegerTypes /\ BytesOf(p.dt) = 4
      BY <1>3, TypesDiffer DEF BytesOf
    <2>2. PICK b : b = ToInteger(raw, 4) /\ b \in Seq(0..(Base - 1)) /\ Len(b) = 4
      BY IntegerBytes
    <2>3. IntegerOf(b, 4, p.dt) \in Int /\ InRegisters(p.dt, One * IntegerOf(b, 4, p.dt))
      BY <2>1, <2>2, IntegersFit
    <2>4. held = One * IntegerOf(b, 4, p.dt)
      BY <1>0, <1>3, <2>2, HeldIs
    <2>5. One * IntegerOf(b, 4, p.dt) \in Int
      BY <2>3, WholeNumber
    <2> QED BY <2>3, <2>4, <2>5
  <1>4. CASE p.dt = Float32
    <2>1. FloatBits(Narrow(raw)) \in Nat
      BY OperationsAre, BitsAre
    <2>2. PICK b : /\ b = BigEndian(FloatBits(Narrow(raw)), 4)
                   /\ b \in Seq(0..(Base - 1)) /\ Len(b) = 4
      BY <2>1, BytesAreDigits
    <2>3. NumberOf(b) \in Nat /\ NumberOf(b) < Power(4)
      BY <2>2, DigitsAreNumber
    <2>4. held = FloatOf(NumberOf(b))
      BY <1>0, <1>4, <2>2, HeldIs
    <2> QED BY <1>4, <2>3, <2>4, FloatsFit
  <1> QED BY <1>1, <1>2, <1>3, <1>4, TypesDiffer DEF PointInUse, OneWide

\* What is written to an integer register and in its reach is less than one
\* step beside what was asked for.
LEMMA IntegerFollows ==
    ASSUME NEW dt \in IntegerTypes, NEW d \in Int, Finite(d), NEW scale \in Int, scale # 0,
           Lowest(dt) * Abs(scale) <= (IF scale > 0 THEN d ELSE -d),
           (IF scale > 0 THEN d ELSE -d) <= Highest(dt) * Abs(scale),
           NEW raw, raw = Quotient(d, scale)
    PROVE  LET n == One * IntegerOf(ToInteger(raw, BytesOf(dt)), BytesOf(dt), dt)
           IN  Abs(n * scale - d * One) < Abs(scale) * One
  <1>1. PICK n \in Int, b \in Nat :
           n = (IF scale > 0 THEN d ELSE -d) /\ b = Abs(scale) /\ b > 0
    BY DEF Abs
  <1>2. raw = Rounded(n * One, b)
    BY <1>1, QuotientIs
  <1>3. PICK lo \in -Power(4)..0, hi \in 0..Power(4) : lo = Lowest(dt) /\ hi = Highest(dt)
    <2>1. PICK P \in Nat : P = Power(4)
      BY Widths
    <2>2. /\ Lowest(dt) \in Int /\ -P <= Lowest(dt) /\ Lowest(dt) <= 0
          /\ Highest(dt) \in Int /\ 0 <= Highest(dt) /\ Highest(dt) <= P
      BY <2>1, RangeEnds
    <2>3. Lowest(dt) \in -P..0 /\ Highest(dt) \in 0..P
      BY <2>1, <2>2
    <2> QED BY <2>1, <2>3
  <1>4. lo * b <= n /\ n <= hi * b
    BY <1>1, <1>3
  <1>5. PICK w \in lo..hi : /\ Finite(raw) /\ w = TowardZero(raw)
                            /\ w * b - n < b /\ n - w * b < b
    BY <1>1, <1>2, <1>3, <1>4, CutOff
  <1>6. w \in Int
    BY <1>5, <1>3, Widths
  <1>7. raw \in Int
    BY <1>1, OperationsAre
  <1>8. PICK bytes : /\ bytes = ToInteger(raw, BytesOf(dt))
                     /\ SubSeq(bytes, 1, BytesOf(dt)) = bytes
    <2>1. BytesOf(dt) \in {2, 4}
      BY DEF BytesOf
    <2>2. ToInteger(raw, BytesOf(dt)) \in Seq(0..(Base - 1))
          /\ Len(ToInteger(raw, BytesOf(dt))) = BytesOf(dt) /\ BytesOf(dt) \in Nat
      <3>1. BytesOf(dt) \in Nat
        BY <2>1
      <3>2. \A k \in {2, 4} : ToInteger(raw, k) \in Seq(0..(Base - 1)) /\ Len(ToInteger(raw, k)) = k
        BY <1>7, IntegerBytes
      <3> QED BY <2>1, <3>1, <3>2
    <2> QED BY <2>2, AllOfIt
  <1>9. bytes = BigEndian(w % Power(BytesOf(dt)), BytesOf(dt))
    BY <1>5, <1>8 DEF ToInteger
  <1>10. IntegerOf(bytes, BytesOf(dt), dt) = w
    BY <1>3, <1>6, <1>8, <1>9, IntegerComesBack
  <1>11. Abs((One * w) * scale - d * One) < Abs(scale) * One
    <2>0. One \in Nat /\ One > 0
      BY FloatAssumption
    <2>1. PICK x \in Int : x = w * b - n /\ -b < x /\ x < b
      <3>1. w * b \in Int
        BY <1>6
      <3> QED BY <1>5, <3>1
    <2>2. x * One < b * One /\ (-x) * One < b * One
      <3>1. x + 1 <= b /\ -x + 1 <= b
        BY <2>1
      <3>2. (x + 1) * One <= b * One /\ (-x + 1) * One <= b * One
        <4>1. x + 1 \in Int /\ -x + 1 \in Int
          OBVIOUS
        <4> QED BY <2>0, <3>1, <4>1, Factor
      <3>3. (x + 1) * One = x * One + One /\ (-x + 1) * One = (-x) * One + One
        BY <2>0
      <3>4. x * One \in Int /\ (-x) * One \in Int /\ b * One \in Int
        BY <2>0
      <3> QED BY <2>0, <3>2, <3>3, <3>4
    <2>3. (-x) * One = -(x * One) /\ x * One \in Int
      BY <2>0
    <2>4. x * One = (IF scale > 0 THEN 1 ELSE -1) * ((One * w) * scale - d * One)
      <3>1. CASE scale > 0
        <4>1. b = scale /\ n = d
          BY <1>1, <3>1 DEF Abs
        <4>2. (w * scale - d) * One = (One * w) * scale - d * One
          BY <1>6, <2>0
        <4>3. (One * w) * scale - d * One \in Int
          BY <1>6, <2>0
        <4> QED BY <2>1, <3>1, <4>1, <4>2, <4>3
      <3>2. CASE ~(scale > 0)
        <4>1. b = -scale /\ n = -d
          BY <1>1, <3>2 DEF Abs
        <4>2. (w * (-scale) - (-d)) * One = -((One * w) * scale - d * One)
          BY <1>6, <2>0
        <4>3. (One * w) * scale - d * One \in Int
          BY <1>6, <2>0
        <4> QED BY <2>1, <3>2, <4>1, <4>2, <4>3
      <3> QED BY <3>1, <3>2
    <2>5. PICK y \in Int : y = (One * w) * scale - d * One
      BY <1>6, <2>0
    <2>6. x * One = y \/ x * One = -y
      BY <2>4, <2>5
    <2>7. Abs(y) < b * One
      BY <2>0, <2>2, <2>3, <2>6 DEF Abs
    <2> QED BY <1>1, <2>5, <2>7
  <1> QED BY <1>8, <1>10, <1>11

\* The sign of a product.
LEMMA Signs ==
    ASSUME NEW a \in Int, NEW b \in Int
    PROVE  /\ (-a) * b = -(a * b) /\ a * (-b) = -(a * b)
           /\ a * b \in Int
  OBVIOUS

\* After a write that the register can take the device follows.
LEMMA WrittenIsHeld ==
    ASSUME NEW p, PointInUse(p), NEW v \in Int, Finite(v), NEW d, d = Sum(v, -p.offset),
           Finite(d), InReach(p, d)
    PROVE  Follows(p, d, HeldAfter(p, WriteBytes(p, v)))
  <1>0. PICK raw \in Int : raw = Unscaled(v, p) /\ raw = Quotient(d, p.scale)
    BY UnscaledIs DEF Unscaled
  <1>1. /\ p.scale \in Int /\ p.scale # 0 /\ d \in Int
        /\ p.dt \in {Bool} \cup OneRegister \cup {Int32, Uint32} \cup {Float32}
    <2>1. -p.offset \in Int
      BY DEF PointInUse
    <2>2. d \in Int
      BY <2>1, OperationsAre
    <2> QED BY <2>2, TypesDiffer DEF PointInUse, OneWide, InReach
  <1>2. PICK n \in Int, b \in Nat :
           n = (IF p.scale > 0 THEN d ELSE -d) /\ b = Abs(p.scale) /\ b > 0
    BY <1>1 DEF Abs
  <1>3. raw = Rounded(n * One, b)
    BY <1>0, <1>1, <1>2, QuotientIs
  <1>4. CASE p.dt = Bool
    <2>1. HeldAfter(p, WriteBytes(p, v)) = IF raw # 0 THEN One ELSE 0
      BY <1>0, <1>4, HeldIs
    <2>2. d = 0 \/ Abs(d) >= b
      BY <1>2, <1>4, TypesDiffer DEF InReach
    <2>3. ASSUME d = 0 PROVE raw = 0
      <3>1. n * One = 0
        BY <1>2, <2>3, FloatAssumption
      <3> QED BY <1>2, <1>3, <3>1, ZeroStays
    <2>4. ASSUME d # 0 PROVE raw # 0
      <3>1. Abs(n) >= b
        BY <1>1, <1>2, <2>2, <2>4 DEF Abs
      <3> QED BY <1>2, <1>3, <3>1, StaysAbove
    <2>5. HeldAfter(p, WriteBytes(p, v)) = IF d = 0 THEN 0 ELSE One
      BY <2>1, <2>3, <2>4
    <2>6. Bool \notin IntegerTypes
      BY TypesDiffer
    <2> QED BY <1>4, <2>5, <2>6 DEF Follows
  <1>5. ASSUME p.dt \in IntegerTypes PROVE Follows(p, d, HeldAfter(p, WriteBytes(p, v)))
    <2>1. HeldAfter(p, WriteBytes(p, v))
             = One * IntegerOf(ToInteger(raw, BytesOf(p.dt)), BytesOf(p.dt), p.dt)
      BY <1>0, <1>5, HeldIs, TypesDiffer DEF BytesOf
    <2>2. p.dt # Bool
      BY <1>5, TypesDiffer
    <2>3. Lowest(p.dt) * Abs(p.scale) <= n /\ n <= Highest(p.dt) * Abs(p.scale)
      BY <1>2, <1>5, <2>2 DEF InReach
    <2>4. PICK h : /\ h = HeldAfter(p, WriteBytes(p, v))
                   /\ Abs(h * p.scale - d * One) < Abs(p.scale) * One
      BY <1>0, <1>1, <1>2, <1>5, <2>1, <2>3, IntegerFollows
    <2> QED BY <1>5, <2>2, <2>4, Zenon DEF Follows
  <1>6. CASE p.dt = Float32
    <2>0. p.dt # Bool /\ p.dt \notin IntegerTypes
      BY <1>6, TypesDiffer
    <2>1. (n * One) % b = 0 /\ IsFloat32((n * One) \div b)
      BY <1>2, <2>0 DEF InReach
    <2>2. PICK q \in Int : q = (n * One) \div b /\ n * One = q * b
      <3>1. n * One \in Int
        BY FloatAssumption
      <3>2. n * One = ((n * One) \div b) * b /\ (n * One) \div b \in Int
        BY <1>2, <2>1, <3>1, Divides
      <3> QED BY <3>2
    <2>3. raw = q /\ Narrow(raw) = q /\ IsFloat32(q) /\ Finite(q)
      BY <1>2, <1>3, <2>1, <2>2, SingleStays
    <2>4. InRegisters(Float32, q)
      BY <2>3, SingleIs
    <2>5. /\ FloatBits(q) \in Nat /\ FloatBits(q) < Power(4)
          /\ FloatOf(FloatBits(q)) = q
      BY <2>4, FloatRoundTrip
    <2>6. NumberOf(BigEndian(FloatBits(q), 4)) = FloatBits(q)
      BY <2>5, NumberRoundTrip
    <2>7. HeldAfter(p, WriteBytes(p, v)) = q
      <3>1. HeldAfter(p, WriteBytes(p, v)) = FloatOf(NumberOf(BigEndian(FloatBits(Narrow(raw)), 4)))
        BY <1>0, <1>6, HeldIs
      <3> QED BY <2>3, <2>5, <2>6, <3>1
    <2>8. q * p.scale = d * One
      <3>1. CASE p.scale > 0
        BY <1>1, <1>2, <2>2, <3>1 DEF Abs
      <3>2. CASE ~(p.scale > 0)
        <4>1. b = -p.scale /\ n = -d
          BY <1>1, <1>2, <3>2 DEF Abs
        <4>2. (-d) * One = q * (-p.scale)
          BY <2>2, <4>1
        <4>3. (-d) * One = -(d * One) /\ q * (-p.scale) = -(q * p.scale)
              /\ d * One \in Int /\ q * p.scale \in Int
          <5>1. One \in Int
            BY FloatAssumption
          <5> QED BY <1>1, <5>1, Signs
        <4> QED BY <4>2, <4>3
      <3> QED BY <3>1, <3>2
    <2> QED BY <2>0, <2>7, <2>8, Zenon DEF Follows
  <1> QED BY <1>1, <1>4, <1>5, <1>6, TypesDiffer

\* What of an entry of the cache has to hold for a point.
Faithful(p, e) ==
    Documented(p) /\ ReadInOrder(p) => (e.r.DeviceName = ModbusName => e.read = e.meant)

\* A device follows what was written with success, if the register can take it.
Kept(p, n, a) ==
    a # None /\ Finite(a[1]) =>
        LET d == Sum(a[1], -p.offset)
        IN  Finite(d) /\ InReach(p, d) => Follows(p, d, n)

\* Before the devices are there nothing is cached and nothing written; then the
\* point has been validated, its device holds what registers can say, and
\* what was read and written is as ReadsTheDevice has it.
DeviceInv ==
    /\ IsSeq(cache)
    /\ phase \in {"off", "configured"} => cache = <<>> /\ asked = None
    /\ phase = "running" =>
          /\ PointInUse(point)
          /\ dev \in Int /\ InRegisters(point.dt, dev)
          /\ \A i \in 1..Len(cache) : Faithful(point, cache[i])
          /\ Kept(point, dev, asked)
    /\ phase = "crashed" => ~Documented(point)

LEMMA DeviceInvSays == DeviceInv => ReadsTheDevice
  <1> SUFFICES ASSUME DeviceInv PROVE ReadsTheDevice
    OBVIOUS
  <1>1. DOMAIN cache = 1..Len(cache)
    BY DEF DeviceInv, IsSeq
  <1>2. ASSUME phase = "running", Documented(point), ReadInOrder(point),
               NEW i \in DOMAIN cache, cache[i].r.DeviceName = ModbusName
        PROVE  cache[i].read = cache[i].meant
    BY <1>1, <1>2 DEF DeviceInv, Faithful
  <1>3. ASSUME phase = "running", asked # None, Finite(asked[1])
        PROVE  LET d == Sum(asked[1], -point.offset)
               IN  Finite(d) /\ InReach(point, d) => Follows(point, d, dev)
    BY <1>3 DEF DeviceInv, Kept
  <1>4. phase = "crashed" => ~Documented(point)
    BY DEF DeviceInv
  <1> QED BY <1>2, <1>3, <1>4 DEF ReadsTheDevice

\* A point that is accepted for a device is one to work with.
LEMMA AcceptedIsInUse ==
    ASSUME NEW p \in Points, ValidPoint(p, OneWide, TwoRegisters)
    PROVE  /\ PointInUse(Normalised(p, TwoRegisters))
           /\ Normalised(p, TwoRegisters).dt = p.dt
  <1>1. p \in [named : BOOLEAN, fc : Nat, quantity : Nat, dt : Seq(Nat),
               order : STRING, scale : Int, offset : Int, access : STRING]
    BY PointsAssumption
  <1>2. p.scale \in Int /\ p.offset \in Int /\ p.dt \in OneWide \cup TwoRegisters
    BY <1>1 DEF ValidPoint
  <1>3. /\ [p EXCEPT !.order = "abcd"].scale = p.scale
        /\ [p EXCEPT !.order = "abcd"].offset = p.offset
        /\ [p EXCEPT !.order = "abcd"].dt = p.dt
    BY <1>1
  <1> QED BY <1>2, <1>3 DEF PointInUse, Normalised

LEMMA DeviceStart == Init => DeviceInv
  <1> SUFFICES ASSUME Init PROVE DeviceInv
    OBVIOUS
  <1>1. phase = "off" /\ cache = <<>> /\ asked = None
    BY DEF Init
  <1>2. IsSeq(cache)
    <2>1. <<>> \in Seq({})
      OBVIOUS
    <2> QED BY <1>1, <2>1 DEF IsSeq
  <1> QED BY <1>1, <1>2 DEF DeviceInv

LEMMA LoadKeeps ==
    ASSUME DeviceInv, LoadDevices
    PROVE  DeviceInv'
  <1>1. cache = <<>> /\ asked = None /\ cache' = cache /\ asked' = asked
    BY DEF DeviceInv, LoadDevices
  <1>2. IsSeq(cache)'
    BY <1>1 DEF DeviceInv, IsSeq
  <1>3. phase' \in {"running", "refused"}
    BY DEF LoadDevices
  <1>4. ASSUME phase' = "running"
        PROVE  PointInUse(point') /\ dev' \in Int /\ InRegisters(point'.dt, dev')
    <2>1. PICK p \in Points, t \in Topics, n \in RawNumbers, names \in DeviceNames :
             /\ CanHold(p, n)
             /\ \A i \in DOMAIN names :
                   ValidDevice([name |-> names[i], type |-> "tcp", sections |-> {"tcp"},
                                slave |-> 1, points |-> <<p>>], OneWide, TwoRegisters)
             /\ point' = Normalised(p, TwoRegisters)
             /\ dev' = n
      BY <1>4 DEF LoadDevices
    <2>2. 1 \in DOMAIN names
      <3>1. names \in Seq(STRING) /\ names # <<>>
        BY NamesAssumption
      <3> QED BY <3>1
    <2>3. ValidPoint(p, OneWide, TwoRegisters)
      <3>1. PICK d : /\ d = [name |-> names[1], type |-> "tcp", sections |-> {"tcp"},
                             slave |-> 1, points |-> <<p>>]
                     /\ ValidDevice(d, OneWide, TwoRegisters)
        BY <2>1, <2>2
      <3>2. \A i \in DOMAIN d.points : ValidPoint(d.points[i], OneWide, TwoRegisters)
        BY <3>1 DEF ValidDevice
      <3>3. d.points = <<p>> /\ 1 \in DOMAIN <<p>> /\ <<p>>[1] = p
        BY <3>1
      <3> QED BY <3>2, <3>3
    <2>4. n \in Int /\ InRegisters(p.dt, n)
      BY <2>1, NumbersAssumption DEF CanHold
    <2> QED BY <2>1, <2>3, <2>4, AcceptedIsInUse
  <1>5. \A i \in 1..Len(cache') : Faithful(point', cache'[i])
    <2>1. Len(cache') = 0
      BY <1>1
    <2> QED BY <2>1
  <1>6. Kept(point', dev', asked')
    BY <1>1 DEF Kept
  <1> QED BY <1>1, <1>2, <1>3, <1>4, <1>5, <1>6 DEF DeviceInv

LEMMA WriteIsKept ==
    ASSUME DeviceInv, ExecuteWrite
    PROVE  DeviceInv'
  <1>1. PICK v \in WriteValues :
           dev' = HeldAfter(point, WriteBytes(point, v)) /\ asked' = <<v>>
    BY DEF ExecuteWrite
  <1>2. /\ phase = "running" /\ cache = <<>> /\ phase' = phase /\ cache' = cache
        /\ point' = point /\ PointInUse(point) /\ IsSeq(cache)
    BY DEF ExecuteWrite, DeviceInv
  <1>3. v \in Int
    BY NumbersAssumption
  <1>4. dev' \in Int /\ InRegisters(point.dt, dev')
    BY <1>1, <1>2, <1>3, HeldFits
  <1>5. Kept(point, dev', asked')
    <2>1. asked'[1] = v
      BY <1>1
    <2>2. ASSUME Finite(v), Finite(Sum(v, -point.offset)), InReach(point, Sum(v, -point.offset))
          PROVE  Follows(point, Sum(v, -point.offset), dev')
      BY <1>1, <1>2, <1>3, <2>2, WrittenIsHeld
    <2> QED BY <2>1, <2>2 DEF Kept
  <1>6. Len(cache') = 0 /\ IsSeq(cache')
    BY <1>2
  <1>7. \A i \in 1..Len(cache') : Faithful(point', cache'[i])
    BY <1>6
  <1> QED BY <1>2, <1>4, <1>5, <1>6, <1>7 DEF DeviceInv, IsSeq

\* A reading that is added leaves the others as they are.
LEMMA ReadingAdded ==
    ASSUME DeviceInv, phase = "running", phase' = "running", NEW e, Faithful(point, e),
           cache' = Append(cache, e), UNCHANGED <<point, dev, asked>>
    PROVE  DeviceInv'
  <1>1. IsSeq(cache) /\ \A i \in 1..Len(cache) : Faithful(point, cache[i])
    BY DEF DeviceInv
  <1>2. /\ IsSeq(cache') /\ Len(cache') = Len(cache) + 1
        /\ \A i \in 1..Len(cache) : cache'[i] = cache[i]
        /\ cache'[Len(cache) + 1] = e
    BY <1>1, Appended
  <1>3. \A i \in 1..Len(cache') : Faithful(point, cache'[i])
    <2> TAKE i \in 1..Len(cache')
    <2>1. i \in 1..Len(cache) \/ i = Len(cache) + 1
      BY <1>1, <1>2 DEF IsSeq
    <2> QED BY <1>1, <1>2, <2>1
  <1> QED BY <1>2, <1>3 DEF DeviceInv, IsSeq

LEMMA PollKeeps ==
    ASSUME DeviceInv, PollOnce
    PROVE  DeviceInv'
  <1> DEFINE v == ParsePointValue(point, Response(point, dev))
             r == Reading(ModbusName, <<30>>, point.dt, SerializeValue(point.dt, v), Now)
             e == [r |-> r, at |-> Now, read |-> v, meant |-> Physical(point, dev)]
  <1>1. /\ phase = "running" /\ PointInUse(point) /\ IsSeq(cache)
        /\ dev \in Int /\ InRegisters(point.dt, dev)
        /\ UNCHANGED <<point, dev, asked>>
    BY DEF PollOnce, DeviceInv
  <1>2. ASSUME v[1] = "panic", phase' = "crashed", cache' = cache
        PROVE  DeviceInv'
    <2>1. ~Documented(point)
      BY <1>1, <1>2, DocumentedIsRead
    <2> QED BY <1>1, <1>2, <2>1 DEF DeviceInv, IsSeq
  <1>3. ASSUME cache' = Append(cache, e), phase' = phase
        PROVE  DeviceInv'
    <2>1. e.read = v /\ e.meant = Physical(point, dev)
      OBVIOUS
    <2>2. Documented(point) /\ ReadInOrder(point) => v = Physical(point, dev)
      BY <1>1, ReadIsMeant
    <2>3. Faithful(point, e)
      BY <2>1, <2>2 DEF Faithful
    <2> HIDE DEF e
    <2> QED BY <1>1, <1>3, <2>3, ReadingAdded
  <1> QED BY <1>2, <1>3 DEF PollOnce

LEMMA MqttKeeps ==
    ASSUME DeviceInv, HandleMqttReading
    PROVE  DeviceInv'
  <1>1. phase = "running" /\ phase' = phase /\ UNCHANGED <<point, dev, asked>>
    BY DEF HandleMqttReading
  <1>2. PICK r, at, v, meant : /\ r.DeviceName = MqttName
                               /\ cache' = Append(cache, [r |-> r, at |-> at, read |-> v,
                                                          meant |-> meant])
    BY DEF HandleMqttReading, Reading
  <1> DEFINE e == [r |-> r, at |-> at, read |-> v, meant |-> meant]
  <1>3. e.r.DeviceName # ModbusName
    BY <1>2, NamesAssumption
  <1>4. Faithful(point, e)
    BY <1>3 DEF Faithful
  <1> HIDE DEF e
  <1> QED BY <1>1, <1>2, <1>4, ReadingAdded DEF e

LEMMA DeviceStep == DeviceInv /\ [Next]_vars => DeviceInv'
  <1> SUFFICES ASSUME DeviceInv, [Next]_vars PROVE DeviceInv'
    OBVIOUS
  <1>1. ASSUME UNCHANGED <<phase, point, dev, asked, cache>> PROVE DeviceInv'
    BY <1>1 DEF DeviceInv, IsSeq
  <1>2. ASSUME phase = "off", phase' \in {"configured", "serving", "refused"},
               UNCHANGED <<asked, cache>>
        PROVE  DeviceInv'
    BY <1>2 DEF DeviceInv, IsSeq
  <1>3. CASE LoadClientSettings
    BY <1>2, <1>3 DEF LoadClientSettings, LoadSettings
  <1>4. CASE LoadServerSettings
    BY <1>2, <1>4 DEF LoadServerSettings, LoadSettings
  <1>5. CASE LoadDevices
    BY <1>5, LoadKeeps
  <1>6. CASE PollOnce
    BY <1>6, PollKeeps
  <1>7. CASE ExecuteWrite
    BY <1>7, WriteIsKept
  <1>8. CASE HandleMqttReading
    BY <1>8, MqttKeeps
  <1>9. CASE WriteHandshake
    <2>1. phase' = "online" /\ cache' = cache
      BY <1>9 DEF WriteHandshake
    <2> QED BY <2>1 DEF DeviceInv, IsSeq
  <1>10. CASE WriteUpload \/ WriteHeartbeat \/ WriteNotify \/ Cut \/ ReadFrame \/ UNCHANGED vars
    BY <1>1, <1>10 DEF WriteUpload, WriteHeartbeat, WriteNotify, Cut, ReadFrame, vars
  <1> QED BY <1>3, <1>4, <1>5, <1>6, <1>7, <1>8, <1>9, <1>10 DEF Next

\* What is polled is what the device holds, scaled; after a write that the
\* register can take it holds a number less than one step beside what was asked
\* for; and no poll of a documented point panics: for every point, whatever its
\* scale and its offset, every number, value and width of the floating-point
\* numbers (parsePointValue, executeWrite).
THEOREM DeviceIsRead == Spec => []ReadsTheDevice
  <1>1. Init => DeviceInv
    BY DeviceStart
  <1>2. DeviceInv /\ [Next]_vars => DeviceInv'
    BY DeviceStep
  <1>3. DeviceInv => ReadsTheDevice
    BY DeviceInvSays
  <1> QED BY <1>1, <1>2, <1>3, PTL DEF Spec

-----------------------------------------------------------------------------
(* What is cached and sent                                                 *)

\* A value as a data type expects it.
ValueOf(dt, v) ==
    \/ dt = Bool /\ \E b \in BOOLEAN : v = <<"bool", b>>
    \/ dt \in Numeric /\ \E n \in Floats : v = <<"num", n>>
    \/ dt = JSON /\ (v[1] = "str" => \E s \in Seq(Nat) : v = <<"str", s>>)

\* Rounding ends at a float64, and so does scaling.
LEMMA FloatsAre == Floats \subseteq Int /\ Inf \in Floats /\ NaN \in Floats
  BY FloatAssumption DEF Floats, Inf, NaN

LEMMA RoundedIsFloat ==
    ASSUME NEW n \in Int, NEW d \in Nat, d > 0
    PROVE  Rounded(n, d) \in Floats
  <1>1. PICK x : x = Rounded(n, d)
    OBVIOUS
  <1>2. /\ Largest \in Nat /\ Ulp64 \in [0..Largest -> Nat \ {0}]
    BY FloatAssumption
  <1>3. x \in Int
    BY <1>1, <1>2, RoundedIs DEF Rounded
  <1>4. x = Inf \/ ~(Abs(x) > Largest)
    BY <1>1, Zenon DEF Rounded, RoundedTo
  <1>5. ~(Abs(x) > Largest) => x \in -Largest..Largest
    BY <1>2, <1>3 DEF Abs
  <1> QED BY <1>1, <1>4, <1>5, FloatsAre DEF Floats

LEMMA ScaledIs ==
    ASSUME NEW p, PointInUse(p), NEW n \in Int
    PROVE  Scaled(n, p) \in Floats
  <1>1. p.scale \in Int /\ p.offset \in Int /\ One \in Nat /\ One > 0
    BY FloatAssumption DEF PointInUse
  <1>2. \A x : Finite(x) \/ x \in Floats
    BY FloatsAre DEF Finite
  <1>3. PICK x : x = Product(n, p.scale)
    OBVIOUS
  <1>4. x \in Floats
    <2>1. n * p.scale \in Int
      BY <1>1
    <2>2. Rounded(n * p.scale, One) \in Floats
      BY <1>1, <2>1, RoundedIsFloat
    <2> QED BY <1>2, <1>3, <2>2, FloatsAre, Zenon DEF Product
  <1>5. Sum(x, p.offset) \in Floats
    <2>1. x + p.offset \in Int /\ 1 \in Nat /\ 1 > 0
      BY <1>1, <1>4, FloatsAre
    <2>2. Rounded(x + p.offset, 1) \in Floats
      BY <2>1, RoundedIsFloat
    <2> QED BY <1>4, <2>2, Zenon DEF Sum
  <1> QED BY <1>3, <1>5 DEF Scaled

\* Bytes say a number, and an integer.
LEMMA NumberIsNat ==
    ASSUME NEW s \in Seq(Nat)
    PROVE  NumberOf(s) \in Nat
  <1>1. PICK num \in [0..Len(s) -> Nat] : NumberOf(s) = num[Len(s)]
    BY NumberOfIs
  <1>2. Len(s) \in 0..Len(s)
    OBVIOUS
  <1> QED BY <1>1, <1>2

LEMMA IntegerIs ==
    ASSUME NEW bytes, NEW w \in {2, 4}, SubSeq(bytes, 1, w) \in Seq(Nat), NEW dt
    PROVE  IntegerOf(bytes, w, dt) \in Int
  <1>1. NumberOf(SubSeq(bytes, 1, w)) \in Nat
    BY NumberIsNat
  <1>2. Power(w) \in Nat
    BY Widths
  <1> QED BY <1>1, <1>2 DEF IntegerOf

LEMMA BeginningIs ==
    ASSUME NEW S, NEW s \in Seq(S), NEW w \in Nat, w <= Len(s)
    PROVE  SubSeq(s, 1, w) \in Seq(S) /\ Len(SubSeq(s, 1, w)) = w
  OBVIOUS

\* The answer to a request for a number of registers; one for coils is a byte.
LEMMA AnswerIs ==
    ASSUME NEW p, p.dt \in OneRegister \cup TwoRegisters, p.quantity \in {1, 2},
           NEW n \in Int
    PROVE  \/ Len(Response(p, n)) = 1
           \/ Response(p, n) \in Seq(Nat) /\ Len(Response(p, n)) \in {2, 4}
  <1>1. CASE p.fc \in {1, 2}
    <2>1. Response(p, n) = <<n \div One + (IF p.quantity > 1 THEN 2 ELSE 0)>>
      BY <1>1 DEF Response
    <2> QED BY <2>1
  <1>2. CASE p.fc \notin {1, 2}
    <2>1. PICK regs : regs = Registers(p, n) /\ regs \in Seq(Nat) /\ Len(regs) = 4
      BY RegistersAre
    <2>2. Response(p, n) = SubSeq(regs, 1, 2 * p.quantity)
      BY <1>2, <2>1 DEF Response
    <2>3. SubSeq(regs, 1, 2) \in Seq(Nat) /\ Len(SubSeq(regs, 1, 2)) = 2
      <3>1. 2 \in Nat /\ 2 <= Len(regs)
        BY <2>1
      <3> QED BY <2>1, <3>1, BeginningIs, Zenon
    <2>4. SubSeq(regs, 1, 4) \in Seq(Nat) /\ Len(SubSeq(regs, 1, 4)) = 4
      <3>1. 4 \in Nat /\ 4 <= Len(regs)
        BY <2>1
      <3> QED BY <2>1, <3>1, BeginningIs, Zenon
    <2>5. p.quantity = 1 \/ p.quantity = 2
      OBVIOUS
    <2>6. 2 * 1 = 2 /\ 2 * 2 = 4
      OBVIOUS
    <2> QED BY <2>2, <2>3, <2>4, <2>5, <2>6, Zenon
  <1> QED BY <1>1, <1>2

\* An answer with bytes enough begins with those.
LEMMA LongEnough ==
    ASSUME NEW res, Len(res) = 1 \/ (res \in Seq(Nat) /\ Len(res) \in {2, 4}),
           NEW w \in {2, 4}, ~(Len(res) < w)
    PROVE  SubSeq(res, 1, w) \in Seq(Nat) /\ Len(SubSeq(res, 1, w)) = w
  <1>1. PICK n : n = Len(res)
    OBVIOUS
  <1>2. n # 1
    <2>1. ASSUME n = 1 PROVE n < w
      BY <2>1
    <2> QED BY <1>1, <2>1
  <1>3. res \in Seq(Nat) /\ n \in {2, 4}
    BY <1>1, <1>2
  <1>4. w \in Nat /\ w <= n
    BY <1>1, <1>3
  <1> QED BY <1>1, <1>3, <1>4, BeginningIs

\* What is read of a point, documented or not, is a value of its data type, if
\* the answer is long enough for one.
LEMMA PolledIsValue ==
    ASSUME NEW p, PointInUse(p), p.quantity \in {1, 2}, NEW n \in Int, NEW v,
           v = ParsePointValue(p, Response(p, n)), v[1] \notin {"panic", "none"}
    PROVE  ValueOf(p.dt, v)
  <1> DEFINE res == Response(p, n)
  <1>0. v # <<"panic", 0>> /\ v # Missing
    BY DEF Missing
  <1>1. CASE p.dt = Bool
    <2>1. v = IF Len(res) < 1 THEN <<"panic", 0>> ELSE <<"bool", res[1] # 0>>
      BY <1>1, TypesDiffer, Zenon DEF ParsePointValue
    <2>2. v = <<"bool", res[1] # 0>>
      BY <1>0, <2>1, Zenon
    <2>3. (res[1] # 0) \in BOOLEAN
      BY Zenon
    <2> QED BY <1>1, <2>2, <2>3, Zenon DEF ValueOf
  <1>2. CASE p.dt \in OneRegister
    <2>1. v = IF Len(res) < 2 THEN <<"panic", 0>>
              ELSE <<"num", Scaled(One * IntegerOf(res, 2, p.dt), p)>>
      BY <1>2, TypesDiffer, Zenon DEF ParsePointValue
    <2>2. ~(Len(res) < 2) /\ v = <<"num", Scaled(One * IntegerOf(res, 2, p.dt), p)>>
      BY <1>0, <2>1, Zenon
    <2>4. SubSeq(res, 1, 2) \in Seq(Nat) /\ Len(SubSeq(res, 1, 2)) = 2
      <3>1. Len(res) = 1 \/ (res \in Seq(Nat) /\ Len(res) \in {2, 4})
        BY <1>2, AnswerIs
      <3>2. ~(Len(res) < 2) /\ 2 \in {2, 4}
        BY <2>2, Zenon
      <3> HIDE DEF res
      <3> QED BY <3>1, <3>2, LongEnough, Zenon
    <2> HIDE DEF res
    <2>5. PICK k \in Int : k = IntegerOf(res, 2, p.dt)
      BY <2>4, IntegerIs
    <2>6. One * k \in Int
      BY WholeNumber
    <2>7. Scaled(One * k, p) \in Floats
      BY <2>6, ScaledIs
    <2>8. p.dt \in Numeric
      BY <1>2, TypesDiffer DEF Numeric
    <2> QED BY <2>2, <2>5, <2>7, <2>8, Zenon DEF ValueOf
  <1>3. CASE p.dt \in {Int32, Uint32}
    <2>1. v = IF Len(res) < 4 THEN <<"panic", 0>>
              ELSE <<"num", Scaled(One * IntegerOf(res, 4, p.dt), p)>>
      BY <1>3, TypesDiffer, Zenon DEF ParsePointValue
    <2>2. ~(Len(res) < 4) /\ v = <<"num", Scaled(One * IntegerOf(res, 4, p.dt), p)>>
      BY <1>0, <2>1, Zenon
    <2>4. SubSeq(res, 1, 4) \in Seq(Nat) /\ Len(SubSeq(res, 1, 4)) = 4
      <3>1. Len(res) = 1 \/ (res \in Seq(Nat) /\ Len(res) \in {2, 4})
        BY <1>3, TypesDiffer, AnswerIs
      <3>2. ~(Len(res) < 4) /\ 4 \in {2, 4}
        BY <2>2, Zenon
      <3> HIDE DEF res
      <3> QED BY <3>1, <3>2, LongEnough, Zenon
    <2> HIDE DEF res
    <2>5. PICK k \in Int : k = IntegerOf(res, 4, p.dt)
      BY <2>4, IntegerIs
    <2>6. One * k \in Int
      BY WholeNumber
    <2>7. Scaled(One * k, p) \in Floats
      BY <2>6, ScaledIs
    <2>8. p.dt \in Numeric
      BY <1>3, TypesDiffer DEF Numeric
    <2> QED BY <2>2, <2>5, <2>7, <2>8, Zenon DEF ValueOf
  <1>4. CASE p.dt = Float32
    <2>1. v = IF Len(res) < 4 THEN Missing
              ELSE <<"num", Scaled(FloatOf(NumberOf(ByteOrderConversion(
                                SubSeq(res, 1, 4), p.order))), p)>>
      BY <1>4, TypesDiffer, Zenon DEF ParsePointValue
    <2>2. /\ ~(Len(res) < 4)
          /\ v = <<"num", Scaled(FloatOf(NumberOf(ByteOrderConversion(
                                SubSeq(res, 1, 4), p.order))), p)>>
      BY <1>0, <2>1, Zenon
    <2>4. SubSeq(res, 1, 4) \in Seq(Nat) /\ Len(SubSeq(res, 1, 4)) = 4
      <3>1. Len(res) = 1 \/ (res \in Seq(Nat) /\ Len(res) \in {2, 4})
        BY <1>4, TypesDiffer, AnswerIs
      <3>2. ~(Len(res) < 4) /\ 4 \in {2, 4}
        BY <2>2, Zenon
      <3> HIDE DEF res
      <3> QED BY <3>1, <3>2, LongEnough, Zenon
    <2> HIDE DEF res
    <2>5. ByteOrderConversion(SubSeq(res, 1, 4), p.order) \in Seq(Nat)
      BY <2>4, OrderTwice
    <2>6. PICK u \in Nat : u = NumberOf(ByteOrderConversion(SubSeq(res, 1, 4), p.order))
      BY <2>5, NumberIsNat
    <2>7. FloatOf(u) \in Int
      BY SingleIs DEF FloatOf
    <2>8. Scaled(FloatOf(u), p) \in Floats
      BY <2>7, ScaledIs
    <2>9. p.dt \in Numeric /\ p.dt \notin IntegerTypes
      BY <1>4, TypesDiffer DEF Numeric
    <2> QED BY <2>2, <2>6, <2>8, <2>9, Zenon DEF ValueOf
  <1> QED BY <1>1, <1>2, <1>3, <1>4, TypesDiffer DEF PointInUse, OneWide

LEMMA PowerGrows ==
    ASSUME NEW w \in Nat
    PROVE  Power(w) \in Nat /\ Power(w) > 9 * w
  <1>0. Base \in Nat /\ Base >= 10
    BY BaseAssumption, WidthAssumption
  <1>1. PICK power \in [0..w -> Nat] :
           /\ power[0] = 1
           /\ \A i \in 1..w : power[i] = Base * power[i - 1]
           /\ Power(w) = power[w]
    BY PowerIs
  <1>2. ASSUME NEW a \in Nat PROVE Base * a >= 10 * a
    <2>1. PICK c \in Nat : Base = 10 + c
      <3>1. Base - 10 \in Nat /\ Base = 10 + (Base - 10)
        BY <1>0
      <3> QED BY <3>1
    <2>2. (10 + c) * a = 10 * a + c * a /\ c * a \in Nat
      OBVIOUS
    <2> QED BY <2>1, <2>2
  <1> DEFINE P == {k \in Nat : k <= w => power[k] > 9 * k}
  <1>3. 0 \in P
    BY <1>1
  <1>4. ASSUME NEW k \in Nat, k \in P PROVE k + 1 \in P
    <2>1. SUFFICES ASSUME k + 1 <= w PROVE power[k + 1] > 9 * (k + 1)
      OBVIOUS
    <2>2. k + 1 \in 1..w /\ k \in 0..w /\ (k + 1) - 1 = k /\ k + 1 \in 0..w
      BY <2>1
    <2>3. power[k + 1] \in Nat
      BY <2>2
    <2>4. PICK a \in Nat : a = power[k] /\ a > 9 * k
      BY <1>4, <2>1, <2>2
    <2>5. power[k + 1] = Base * a
      BY <1>1, <2>2, <2>4
    <2>6. power[k + 1] >= 10 * a
      BY <1>2, <2>5
    <2> QED BY <2>3, <2>4, <2>6
  <1> HIDE DEF P
  <1>5. w \in P
    BY <1>3, <1>4, SetInduction
  <1>6. w \in 0..w
    OBVIOUS
  <1> QED BY <1>1, <1>5, <1>6 DEF P

\* The data types are texts, and different ones.
LEMMA TypeTexts ==
    /\ DataTypes \subseteq Seq(Nat)
    /\ DataTypes = {Bool} \cup Numeric \cup {JSON}
    /\ Bool \notin Numeric /\ JSON \notin {Bool} \cup Numeric
    /\ IntegerTypes \subseteq Numeric
  <1>1. DataTypes = {Bool} \cup Numeric \cup {JSON}
    BY DEF DataTypes, OneWide, OneRegister, TwoRegisters, Numeric, IntegerTypes
  <1>2. DataTypes \subseteq Seq(Nat)
    <2>1. /\ Bool \in Seq(Nat) /\ Int16 \in Seq(Nat) /\ Uint16 \in Seq(Nat) /\ Int32 \in Seq(Nat)
          /\ Uint32 \in Seq(Nat) /\ Float32 \in Seq(Nat) /\ Float64 \in Seq(Nat) /\ JSON \in Seq(Nat)
      BY DEF Bool, Int16, Uint16, Int32, Uint32, Float32, Float64, JSON
    <2> QED BY <2>1 DEF DataTypes, OneWide, OneRegister, TwoRegisters
  <1>3. Bool \notin Numeric /\ JSON \notin {Bool} \cup Numeric /\ IntegerTypes \subseteq Numeric
    BY DEF Bool, JSON, Numeric, IntegerTypes, Int16, Uint16, Int32, Uint32, Float32, Float64
  <1> QED BY <1>1, <1>2, <1>3

\* The serialised form of a value of its data type.
LEMMA SerializedIs ==
    ASSUME NEW dt \in DataTypes, NEW v, ValueOf(dt, v)
    PROVE  /\ SerializeValue(dt, v) \in Seq(Nat)
           /\ \A b \in BOOLEAN : dt = Bool /\ v = <<"bool", b>> =>
                 SerializeValue(dt, v) = IF b THEN TrueText ELSE FalseText
           /\ \A n \in Int : dt \in Numeric /\ v = <<"num", n>> => SerializeValue(dt, v) = NumText(n)
           /\ dt = JSON => SerializeValue(dt, v) = IF v[1] = "str" THEN v[2] ELSE <<>>
  <1>1. CASE dt = Bool
    <2>1. PICK b \in BOOLEAN : v = <<"bool", b>>
      BY <1>1, TypeTexts DEF ValueOf
    <2>2. v[1] = "bool" /\ v[2] = b
      BY <2>1
    <2>3. SerializeValue(dt, v) = IF b THEN TrueText ELSE FalseText
      BY <1>1, <2>2, TypeTexts, Zenon DEF SerializeValue
    <2>4. TrueText \in Seq(Nat) /\ FalseText \in Seq(Nat)
      BY DEF TrueText, FalseText
    <2>5. \A c \in BOOLEAN : v = <<"bool", c>> => c = b
      BY <2>2
    <2>6. SerializeValue(dt, v) \in Seq(Nat)
      BY <2>3, <2>4, Zenon
    <2> QED BY <1>1, <2>3, <2>5, <2>6, TypeTexts, Zenon
  <1>2. CASE dt \in Numeric
    <2>1. PICK n \in Int : v = <<"num", n>>
      BY <1>2, TypeTexts, FloatsAre DEF ValueOf
    <2>2. v[1] = "num" /\ v[2] = n
      BY <2>1
    <2>3. SerializeValue(dt, v) = NumText(n)
      BY <1>2, <2>2, TypeTexts, Zenon DEF SerializeValue
    <2>4. NumText(n) \in Seq(Nat)
      BY NumberText
    <2>5. \A m \in Int : v = <<"num", m>> => m = n
      BY <2>2
    <2> QED BY <1>2, <2>3, <2>4, <2>5, TypeTexts, Zenon
  <1>3. CASE dt = JSON
    <2>1. v[1] = "str" => v[2] \in Seq(Nat)
      <3>1. v[1] = "str" => \E s \in Seq(Nat) : v = <<"str", s>>
        BY <1>3, TypeTexts DEF ValueOf
      <3> QED BY <3>1
    <2>2. v[1] = "str" => SerializeValue(dt, v) = v[2]
      BY <1>3, TypeTexts, Zenon DEF SerializeValue
    <2>3. v[1] # "str" => SerializeValue(dt, v) = <<>>
      BY <1>3, TypeTexts, Zenon DEF SerializeValue
    <2>4. <<>> \in Seq(Nat)
      OBVIOUS
    <2> QED BY <1>3, <2>1, <2>2, <2>3, <2>4, TypeTexts, Zenon
  <1> QED BY <1>1, <1>2, <1>3, TypeTexts

\* A reading is of the types of model.Reading.
LEMMA ReadingIsTyped ==
    ASSUME NEW device \in Seq(Nat), NEW name \in Seq(Nat), NEW dt \in Seq(Nat),
           NEW text \in Seq(Nat), NEW ts \in 0..(Power(8) - 1)
    PROVE  Typed(Reading(device, name, dt, text, ts))
  <1> DEFINE r == Reading(device, name, dt, text, ts)
  <1>1. /\ r.ID = 0 /\ r.Device = <<1>> /\ r.DeviceName = device /\ r.Point = <<1>>
        /\ r.PointName = name /\ r.DataType = dt /\ r.Value = text /\ r.Quality = 0
        /\ r.Unit = <<>> /\ r.Timestamp = ts
    BY DEF Reading
  <1>2. /\ Len(ReadingLayout) = 10
        /\ ReadingLayout[1] = Num("ID", 8) /\ ReadingLayout[2] = Str("Device", 2)
        /\ ReadingLayout[3] = Str("DeviceName", 2) /\ ReadingLayout[4] = Str("Point", 2)
        /\ ReadingLayout[5] = Str("PointName", 2) /\ ReadingLayout[6] = Str("DataType", 2)
        /\ ReadingLayout[7] = Str("Value", 2) /\ ReadingLayout[8] = Num("Quality", 1)
        /\ ReadingLayout[9] = Str("Unit", 2) /\ ReadingLayout[10] = Num("Timestamp", 8)
    BY DEF ReadingLayout
  <1>3. NamesOf(ReadingLayout) = {"ID", "Device", "DeviceName", "Point", "PointName", "DataType",
                                  "Value", "Quality", "Unit", "Timestamp"}
    BY DEF NamesOf, ReadingLayout, Num, Str
  <1>4. r = [n \in NamesOf(ReadingLayout) |-> r[n]]
    BY <1>3 DEF Reading
  <1> HIDE DEF r
  <1>5. \A n, w : /\ Num(n, w).name = n /\ Num(n, w).w = w /\ Num(n, w).str = FALSE
                  /\ Str(n, w).name = n /\ Str(n, w).w = w /\ Str(n, w).str = TRUE
    BY DEF Num, Str
  <1>6. /\ Power(8) \in Nat /\ 0 < Power(8) /\ Power(1) \in Nat /\ 0 < Power(1)
    <2>1. /\ Power(8) \in Nat /\ Power(8) > 9 * 8
          /\ Power(1) \in Nat /\ Power(1) > 9 * 1
      BY PowerGrows
    <2> QED BY <2>1
  <1>7. ts \in Nat /\ ts < Power(8)
    BY <1>6
  <1>8. \A s \in Seq(Nat) : s \in Seq(Int)
    BY SeqGrows
  <1>9. r.Device \in Seq(Int) /\ r.Point \in Seq(Int) /\ r.Unit \in Seq(Int)
    <2>1. <<1>> \in Seq(Int) /\ <<>> \in Seq(Int)
      OBVIOUS
    <2> QED BY <1>1, <2>1
  <1>10. ASSUME NEW i \in 1..Len(ReadingLayout)
         PROVE  IF ReadingLayout[i].str THEN r[ReadingLayout[i].name] \in Seq(Int)
                ELSE /\ r[ReadingLayout[i].name] \in Nat
                     /\ r[ReadingLayout[i].name] < Power(ReadingLayout[i].w)
    <2>1. i = 1 \/ i = 2 \/ i = 3 \/ i = 4 \/ i = 5 \/ i = 6 \/ i = 7 \/ i = 8 \/ i = 9 \/ i = 10
      BY <1>2
    <2>2. CASE i = 1
      BY <1>1, <1>2, <1>5, <1>6, <2>2
    <2>3. CASE i = 2
      BY <1>2, <1>5, <1>9, <2>3
    <2>4. CASE i = 3
      BY <1>1, <1>2, <1>5, <1>8, <2>4, SMTT(60)
    <2>5. CASE i = 4
      BY <1>2, <1>5, <1>9, <2>5
    <2>6. CASE i = 5
      BY <1>1, <1>2, <1>5, <1>8, <2>6
    <2>7. CASE i = 6
      BY <1>1, <1>2, <1>5, <1>8, <2>7
    <2>8. CASE i = 7
      BY <1>1, <1>2, <1>5, <1>8, <2>8
    <2>9. CASE i = 8
      BY <1>1, <1>2, <1>5, <1>6, <2>9
    <2>10. CASE i = 9
      BY <1>2, <1>5, <1>9, <2>10
    <2>11. CASE i = 10
      BY <1>1, <1>2, <1>5, <1>7, <2>11
    <2> QED BY <2>1, <2>2, <2>3, <2>4, <2>5, <2>6, <2>7, <2>8, <2>9, <2>10, <2>11
  <1> QED BY <1>4, <1>10 DEF r, Typed

\* The payloads of the instance mean what extractValue and extractTimestamp
\* take from them.
ExtractsAsMeant ==
    \A t \in Topics, p \in Payloads :
        ValidTopic(t, DataTypes) /\ t.source.format = p.format =>
            LET v  == ExtractValue(t.source, p.payload)
                ts == ExtractTimestamp(t.source, p.payload)
            IN  v # Missing /\ CheckDataType(v, t.data_type) /\ ts # BadTime =>
                    /\ v = p.meant[t.point_name]
                    /\ (IF ts = NoTime THEN Now ELSE ts) = p.at

\* An entry of the cache: a reading that says in text the value that was read.
Good(e) ==
    /\ Typed(e.r)
    /\ e.r.DataType \in DataTypes /\ ValueOf(e.r.DataType, e.read)
    /\ e.r.Value = SerializeValue(e.r.DataType, e.read)
    /\ e.r.DeviceName # ModbusName => CheckDataType(e.read, e.r.DataType)
    /\ ExtractsAsMeant => /\ e.r.Timestamp = e.at
                          /\ e.r.DeviceName # ModbusName => e.read = e.meant

\* An upload that was sent consists of such entries.
Batch(m) ==
    m.type = Upload =>
        /\ IsSeq(m.entries)
        /\ m.p = [j \in 1..Len(m.entries) |-> m.entries[j].r]
        /\ \A j \in 1..Len(m.entries) : Good(m.entries[j])

PathInv ==
    /\ phase = "running" => /\ point.quantity \in {1, 2}
                            /\ topic \in Topics /\ ValidTopic(topic, DataTypes)
    /\ \A i \in 1..Len(cache) : Good(cache[i])
    /\ \A i \in 1..Len(sent) : Batch(sent[i])

LEMMA NowFits == Now \in 0..(Power(8) - 1)
  <1>1. Power(8) \in Nat /\ Power(8) > 9 * 8
    BY PowerGrows
  <1> QED BY <1>1 DEF Now

\* What pollOnce adds to the cache for the value v of the point p.
PolledEntry(p, v, meant) ==
    [r |-> Reading(ModbusName, <<30>>, p.dt, SerializeValue(p.dt, v), Now),
     at |-> Now, read |-> v, meant |-> meant]

\* It is a reading that arrives as it is.
LEMMA PolledIsGood ==
    ASSUME NEW p, PointInUse(p), p.quantity \in {1, 2}, NEW n \in Int, NEW v,
           v = ParsePointValue(p, Response(p, n)), v[1] \notin {"panic", "none"},
           NEW meant
    PROVE  Good(PolledEntry(p, v, meant))
  <1>1. ValueOf(p.dt, v)
    BY PolledIsValue
  <1>2. p.dt \in DataTypes /\ p.dt \in Seq(Nat)
    <2>1. p.dt \in DataTypes
      BY DEF PointInUse, DataTypes
    <2> QED BY <2>1, TypeTexts
  <1>3. SerializeValue(p.dt, v) \in Seq(Nat)
    BY <1>1, <1>2, SerializedIs
  <1> DEFINE r == Reading(ModbusName, <<30>>, p.dt, SerializeValue(p.dt, v), Now)
  <1>4. Typed(r)
    <2>1. ModbusName \in Seq(Nat) /\ <<30>> \in Seq(Nat)
      BY NamesAssumption
    <2> QED BY <1>2, <1>3, <2>1, NowFits, ReadingIsTyped
  <1>5. /\ r.DataType = p.dt /\ r.Value = SerializeValue(p.dt, v)
        /\ r.DeviceName = ModbusName /\ r.Timestamp = Now
    BY DEF Reading
  <1> HIDE DEF r
  <1> DEFINE e == PolledEntry(p, v, meant)
  <1>6. e.r = r /\ e.read = v /\ e.at = Now
    BY DEF r, PolledEntry
  <1> HIDE DEF e
  <1> QED BY <1>1, <1>2, <1>4, <1>5, <1>6, Zenon DEF Good, e

\* A value that passed checkDataType is one of its data type.
LEMMA CheckedIsValue ==
    ASSUME NEW dt \in DataTypes, NEW v, v = <<v[1], v[2]>>,
           v[1] = "num" => v[2] \in Floats, v[1] = "bool" => v[2] \in BOOLEAN,
           v[1] = "str" => v[2] \in Seq(Nat), CheckDataType(v, dt)
    PROVE  ValueOf(dt, v)
  <1>1. CASE dt = Bool
    <2>1. v[1] = "bool" /\ v[2] \in BOOLEAN
      BY <1>1, Zenon DEF CheckDataType
    <2>2. v = <<"bool", v[2]>>
      BY <2>1, Zenon
    <2> QED BY <1>1, <2>1, <2>2, Zenon DEF ValueOf
  <1>2. CASE dt \in Numeric
    <2>1. v[1] = "num" /\ v[2] \in Floats
      BY <1>2, Zenon DEF CheckDataType
    <2>2. PICK n \in Floats : n = v[2]
      BY <2>1
    <2>3. v = <<"num", n>>
      BY <2>1, <2>2, Zenon
    <2> QED BY <1>2, <2>3, Zenon DEF ValueOf
  <1>3. CASE dt = JSON
    <2>1. v[1] = "str" => v[2] \in Seq(Nat) /\ v = <<"str", v[2]>>
      BY Zenon
    <2> QED BY <1>3, <2>1, Zenon DEF ValueOf
  <1> QED BY <1>1, <1>2, <1>3, TypeTexts

\* What handleMqttReading adds to the cache for the value v and the time ts.
MqttEntry(t, p, v, ts) ==
    [r |-> Reading(MqttName, <<31>>, t.data_type, SerializeValue(t.data_type, v),
                   IF ts = NoTime THEN Now ELSE ts),
     at |-> p.at, read |-> v, meant |-> p.meant[t.point_name]]

\* It is a reading that arrives as it is.
LEMMA MqttIsGood ==
    ASSUME NEW t \in Topics, ValidTopic(t, DataTypes), NEW p \in Payloads,
           t.source.format = p.format, NEW v, v = ExtractValue(t.source, p.payload),
           NEW ts, ts = ExtractTimestamp(t.source, p.payload),
           v # Missing, CheckDataType(v, t.data_type), ts # BadTime
    PROVE  Good(MqttEntry(t, p, v, ts))
  <1> DEFINE dt == t.data_type
             time == IF ts = NoTime THEN Now ELSE ts
             r == Reading(MqttName, <<31>>, dt, SerializeValue(dt, v), time)
  <1>1. dt \in DataTypes /\ dt \in Seq(Nat)
    <2>1. dt \in DataTypes
      BY DEF ValidTopic
    <2> QED BY <2>1, TypeTexts
  <1>2. /\ v = <<v[1], v[2]>>
        /\ v[1] = "num" => v[2] \in Floats
        /\ v[1] = "bool" => v[2] \in BOOLEAN
        /\ v[1] = "str" => v[2] \in Seq(Nat)
        /\ ts \in 0..(Power(8) - 1)
    BY PayloadsAssumption, Zenon
  <1>3. ValueOf(dt, v)
    BY <1>1, <1>2, CheckedIsValue
  <1>4. SerializeValue(dt, v) \in Seq(Nat)
    BY <1>1, <1>3, SerializedIs
  <1>5. time \in 0..(Power(8) - 1)
    BY <1>2, NowFits, Zenon
  <1> HIDE DEF time
  <1>6. Typed(r)
    <2>1. MqttName \in Seq(Nat) /\ <<31>> \in Seq(Nat)
      BY NamesAssumption
    <2> QED BY <1>1, <1>4, <1>5, <2>1, ReadingIsTyped
  <1>7. /\ r.DataType = dt /\ r.Value = SerializeValue(dt, v)
        /\ r.DeviceName = MqttName /\ r.Timestamp = time
    BY DEF Reading
  <1> HIDE DEF r, dt
  <1> DEFINE e == MqttEntry(t, p, v, ts)
  <1>8. e.r = r /\ e.read = v /\ e.at = p.at /\ e.meant = p.meant[t.point_name]
    BY DEF r, dt, time, MqttEntry
  <1> HIDE DEF e
  <1>9. ExtractsAsMeant => v = p.meant[t.point_name] /\ time = p.at
    BY Zenon DEF ExtractsAsMeant, time
  <1>10. CheckDataType(v, dt)
    BY DEF dt
  <1> QED BY <1>1, <1>3, <1>6, <1>7, <1>8, <1>9, <1>10, Zenon DEF Good, e

\* Before anything is loaded there is nothing to look at.
LEMMA PathStart == Init => PathInv
  <1> SUFFICES ASSUME Init PROVE PathInv
    OBVIOUS
  <1>1. phase = "off" /\ Len(cache) = 0 /\ Len(sent) = 0
    BY DEF Init
  <1> QED BY <1>1 DEF PathInv

\* The devices that are accepted have a point that is read and a valid topic.
LEMMA LoadedIsValid ==
    ASSUME LoadDevices, phase' = "running"
    PROVE  point'.quantity \in {1, 2} /\ topic' \in Topics /\ ValidTopic(topic', DataTypes)
  <1>1. PICK p \in Points, t \in Topics, names \in DeviceNames :
           /\ \A i \in DOMAIN names :
                 ValidDevice([name |-> names[i], type |-> "tcp", sections |-> {"tcp"},
                              slave |-> 1, points |-> <<p>>], OneWide, TwoRegisters)
           /\ ValidMqtt([broker_addr |-> ":1883",
                         devices |-> <<[name |-> "m", topics |-> <<t>>]>>], DataTypes)
           /\ point' = Normalised(p, TwoRegisters)
           /\ topic' = t
    BY DEF LoadDevices
  <1>2. 1 \in DOMAIN names
    <2>1. names \in Seq(STRING) /\ names # <<>>
      BY NamesAssumption
    <2> QED BY <2>1
  <1>3. ValidPoint(p, OneWide, TwoRegisters)
    <2>1. PICK d : /\ d = [name |-> names[1], type |-> "tcp", sections |-> {"tcp"},
                           slave |-> 1, points |-> <<p>>]
                   /\ ValidDevice(d, OneWide, TwoRegisters)
      BY <1>1, <1>2
    <2>2. \A i \in DOMAIN d.points : ValidPoint(d.points[i], OneWide, TwoRegisters)
      BY <2>1 DEF ValidDevice
    <2>3. d.points = <<p>> /\ 1 \in DOMAIN <<p>> /\ <<p>>[1] = p
      BY <2>1
    <2> QED BY <2>2, <2>3
  <1>4. point'.quantity \in {1, 2}
    <2>1. p \in [named : BOOLEAN, fc : Nat, quantity : 0..2, dt : Seq(Nat),
                 order : STRING, scale : Int, offset : Int, access : STRING]
      BY PointsAssumption
    <2>2. p.quantity \in 0..2 /\ p.quantity > 0
      BY <1>3, <2>1 DEF ValidPoint
    <2>3. [p EXCEPT !.order = "abcd"].quantity = p.quantity
      BY <2>1
    <2>4. point'.quantity = p.quantity
      BY <1>1, <2>3 DEF Normalised
    <2> QED BY <2>2, <2>4
  <1>5. ValidTopic(t, DataTypes)
    <2> DEFINE m == [broker_addr |-> ":1883",
                     devices |-> <<[name |-> "m", topics |-> <<t>>]>>]
    <2>1. \A i \in DOMAIN m.devices : \A j \in DOMAIN m.devices[i].topics :
             ValidTopic(m.devices[i].topics[j], DataTypes)
      BY <1>1 DEF ValidMqtt
    <2>2. /\ 1 \in DOMAIN m.devices /\ m.devices[1].topics = <<t>>
          /\ 1 \in DOMAIN <<t>> /\ <<t>>[1] = t
      OBVIOUS
    <2> HIDE DEF m
    <2> QED BY <2>1, <2>2
  <1> QED BY <1>1, <1>4, <1>5

\* An entry that is added leaves the others as they are.
LEMMA EntryAdded ==
    ASSUME PathInv, IsSeq(cache), NEW e, Good(e), cache' = Append(cache, e),
           UNCHANGED <<point, topic, sent>>, phase' = phase
    PROVE  PathInv'
  <1>1. /\ Len(cache) \in Nat /\ Len(cache') = Len(cache) + 1
        /\ cache'[Len(cache) + 1] = e
        /\ \A i \in 1..Len(cache) : cache'[i] = cache[i]
    BY Appended
  <1>2. ASSUME NEW i \in 1..Len(cache') PROVE Good(cache'[i])
    <2>1. i \in 1..Len(cache) \/ i = Len(cache) + 1
      BY <1>1
    <2> QED BY <1>1, <2>1 DEF PathInv
  <1> QED BY <1>2 DEF PathInv

\* So does a message.
LEMMA MessageAdded ==
    ASSUME PathInv, IsSeq(sent), NEW type, NEW p, NEW entries, Write(type, p, entries),
           Batch([type |-> type, p |-> p, entries |-> entries]),
           cache' = cache, phase' = "online"
    PROVE  PathInv'
  <1>1. PICK msg : /\ sent' = Append(sent, msg)
                   /\ msg.type = type /\ msg.p = p /\ msg.entries = entries
    BY DEF Write
  <1>2. Batch(msg)
    BY <1>1 DEF Batch
  <1>3. /\ Len(sent) \in Nat /\ Len(sent') = Len(sent) + 1
        /\ sent'[Len(sent) + 1] = msg
        /\ \A i \in 1..Len(sent) : sent'[i] = sent[i]
    BY <1>1, Appended
  <1>4. ASSUME NEW i \in 1..Len(sent') PROVE Batch(sent'[i])
    <2>1. i \in 1..Len(sent) \/ i = Len(sent) + 1
      BY <1>3
    <2> QED BY <1>2, <1>3, <2>1 DEF PathInv
  <1>5. phase' # "running"
    OBVIOUS
  <1> QED BY <1>4, <1>5 DEF PathInv

\* A batch of the cache.
LEMMA UploadKeeps ==
    ASSUME PathInv, StreamInv, WriteUpload
    PROVE  PathInv'
  <1>1. PICK n \in 1..(Len(cache) - uploaded) :
           LET entries == SubSeq(cache, uploaded + 1, uploaded + n)
           IN  Write(Upload, [i \in 1..n |-> entries[i].r], entries)
    BY DEF WriteUpload
  <1>2. PICK entries : entries = SubSeq(cache, uploaded + 1, uploaded + n)
    OBVIOUS
  <1>3. Write(Upload, [i \in 1..n |-> entries[i].r], entries)
    BY <1>1, <1>2, Zenon
  <1>4. PICK S : cache \in Seq(S)
    BY DEF StreamInv, SentInv, IsSeq
  <1>5. uploaded \in Nat /\ n \in Nat /\ uploaded + n <= Len(cache)
    BY <1>4 DEF StreamInv, SentInv
  <1>6. /\ entries \in Seq(S) /\ Len(entries) = n
        /\ \A j \in 1..n : entries[j] = cache[uploaded + j]
    BY <1>2, <1>4, <1>5
  <1>7. \A j \in 1..n : Good(entries[j])
    <2> TAKE j \in 1..n
    <2>1. uploaded + j \in 1..Len(cache)
      BY <1>4, <1>5
    <2> QED BY <1>6, <2>1 DEF PathInv
  <1>8. Batch([type |-> Upload, p |-> [i \in 1..n |-> entries[i].r], entries |-> entries])
    <2>1. IsSeq(entries)
      BY <1>6 DEF IsSeq
    <2> QED BY <1>6, <1>7, <2>1 DEF Batch
  <1>9. cache' = cache /\ phase' = "online" /\ IsSeq(sent)
    BY DEF WriteUpload, StreamInv, SentInv
  <1> QED BY <1>3, <1>8, <1>9, MessageAdded

\* Every step keeps it.
LEMMA PathStep == PathInv /\ DeviceInv /\ StreamInv /\ [Next]_vars => PathInv'
  <1> SUFFICES ASSUME PathInv, DeviceInv, StreamInv, [Next]_vars PROVE PathInv'
    OBVIOUS
  <1>0. IsSeq(cache) /\ IsSeq(sent)
    BY DEF StreamInv, SentInv
  <1>1. ASSUME UNCHANGED <<phase, point, topic, cache, sent>> PROVE PathInv'
    BY <1>1 DEF PathInv
  <1>2. ASSUME UNCHANGED <<cache, sent>>, phase' # "running" PROVE PathInv'
    BY <1>2 DEF PathInv
  <1>3. CASE LoadClientSettings \/ LoadServerSettings
    <2>1. phase' \in {"configured", "serving", "refused"} /\ UNCHANGED <<cache, sent>>
      <3>1. CASE LoadClientSettings
        BY <3>1 DEF LoadClientSettings, LoadSettings
      <3>2. CASE LoadServerSettings
        BY <3>2 DEF LoadServerSettings, LoadSettings
      <3> QED BY <1>3, <3>1, <3>2
    <2> QED BY <1>2, <2>1
  <1>4. CASE LoadDevices
    <2>1. UNCHANGED <<cache, sent>>
      BY <1>4 DEF LoadDevices
    <2> QED BY <1>2, <1>4, <2>1, LoadedIsValid DEF PathInv
  <1>5. CASE PollOnce
    <2>1. PICK v, e :
             /\ v = ParsePointValue(point, Response(point, dev))
             /\ e = [r |-> Reading(ModbusName, <<30>>, point.dt, SerializeValue(point.dt, v), Now),
                     at |-> Now, read |-> v, meant |-> Physical(point, dev)]
      OBVIOUS
    <2>2. /\ phase = "running" /\ UNCHANGED <<point, topic, sent>>
          /\ \/ phase' = "crashed" /\ cache' = cache
             \/ v[1] \notin {"panic", "none"} /\ cache' = Append(cache, e) /\ phase' = phase
      BY <1>5, <2>1 DEF PollOnce
    <2>3. CASE phase' = "crashed" /\ cache' = cache
      BY <1>2, <2>2, <2>3
    <2>4. CASE v[1] \notin {"panic", "none"} /\ cache' = Append(cache, e) /\ phase' = phase
      <3>1. PointInUse(point) /\ point.quantity \in {1, 2} /\ dev \in Int
        BY <2>2 DEF PathInv, DeviceInv
      <3>2. Good(e)
        <4>1. e = PolledEntry(point, v, Physical(point, dev))
          BY <2>1, Zenon DEF PolledEntry
        <4> QED BY <2>1, <2>4, <3>1, <4>1, PolledIsGood, Zenon
      <3> QED BY <1>0, <2>2, <2>4, <3>2, EntryAdded
    <2> QED BY <2>2, <2>3, <2>4
  <1>6. CASE ExecuteWrite
    BY <1>1, <1>6 DEF ExecuteWrite
  <1>7. CASE HandleMqttReading
    <2>1. PICK p, v, ts, e :
             /\ p \in Payloads /\ v = ExtractValue(topic.source, p.payload)
             /\ ts = ExtractTimestamp(topic.source, p.payload)
             /\ topic.source.format = p.format
             /\ v # Missing /\ CheckDataType(v, topic.data_type) /\ ts # BadTime
             /\ e = [r |-> Reading(MqttName, <<31>>, topic.data_type,
                                   SerializeValue(topic.data_type, v),
                                   IF ts = NoTime THEN Now ELSE ts),
                     at |-> p.at, read |-> v, meant |-> p.meant[topic.point_name]]
             /\ cache' = Append(cache, e)
      BY <1>7, Zenon DEF HandleMqttReading
    <2>2. phase = "running" /\ UNCHANGED <<phase, point, topic, sent>>
      BY <1>7 DEF HandleMqttReading
    <2>3. topic \in Topics /\ ValidTopic(topic, DataTypes)
      BY <2>2 DEF PathInv
    <2>4. Good(e)
      <3>1. e = MqttEntry(topic, p, v, ts)
        BY <2>1, Zenon DEF MqttEntry
      <3> QED BY <2>1, <2>3, <3>1, MqttIsGood, Zenon
    <2> QED BY <1>0, <2>1, <2>2, <2>4, EntryAdded
  <1>8. \A type, p, entries : type # Upload => Batch([type |-> type, p |-> p, entries |-> entries])
    BY DEF Batch
  <1>9. Handshake # Upload /\ Heartbeat # Upload /\ Notify # Upload
    BY DEF Handshake, Heartbeat, Notify, Upload
  <1>10. CASE WriteHandshake
    <2>1. \E p, entries : Write(Handshake, p, entries)
      BY <1>10 DEF WriteHandshake
    <2>2. cache' = cache /\ phase' = "online"
      BY <1>10 DEF WriteHandshake
    <2> QED BY <1>0, <1>8, <1>9, <2>1, <2>2, MessageAdded
  <1>11. CASE WriteUpload
    BY <1>11, UploadKeeps
  <1>12. CASE WriteHeartbeat
    <2>1. \E p, entries : Write(Heartbeat, p, entries)
      BY <1>12 DEF WriteHeartbeat
    <2>2. cache' = cache /\ phase' = "online"
      BY <1>12 DEF WriteHeartbeat
    <2> QED BY <1>0, <1>8, <1>9, <2>1, <2>2, MessageAdded
  <1>13. CASE WriteNotify
    <2>1. \E p, entries : Write(Notify, p, entries)
      BY <1>13 DEF WriteNotify
    <2>2. cache' = cache /\ phase' = "online"
      BY <1>13 DEF WriteNotify
    <2> QED BY <1>0, <1>8, <1>9, <2>1, <2>2, MessageAdded
  <1>14. CASE Cut \/ ReadFrame \/ UNCHANGED vars
    BY <1>1, <1>14 DEF Cut, ReadFrame, vars
  <1> QED BY <1>3, <1>4, <1>5, <1>6, <1>7, <1>10, <1>11, <1>12, <1>13, <1>14 DEF Next

\* The readings that are sent are typed.
LEMMA PathIsTyped == PathInv => AllOfType
  <1> SUFFICES ASSUME PathInv, NEW i \in 1..Len(sent), sent[i].type = Upload,
                      NEW j \in 1..Len(sent[i].p)
               PROVE  Typed(sent[i].p[j])
    BY DEF AllOfType, OfType
  <1>1. PICK m : m = sent[i]
    OBVIOUS
  <1>2. /\ IsSeq(m.entries) /\ m.p = [k \in 1..Len(m.entries) |-> m.entries[k].r]
        /\ \A k \in 1..Len(m.entries) : Good(m.entries[k])
    BY <1>1 DEF PathInv, Batch
  <1>3. Len(m.entries) \in Nat
    BY <1>2, Appended
  <1>4. PICK n \in Nat : n = Len(m.entries)
    BY <1>3
  <1>5. Len(m.p) = n
    BY <1>2, <1>4
  <1>6. j \in 1..n
    BY <1>1, <1>5
  <1>7. m.p[j] = m.entries[j].r /\ Good(m.entries[j])
    BY <1>2, <1>4, <1>6
  <1> QED BY <1>1, <1>7 DEF Good

-----------------------------------------------------------------------------
(* The documents                                                           *)

\* The loop of Grouped, as a function of how many readings it has seen.
LEMMA GroupedIs ==
    ASSUME NEW R, NEW rs \in Seq(R)
    PROVE  \E group :
              /\ group \in [0..Len(rs) -> [{rs[j].DeviceName : j \in DOMAIN rs} -> Seq(R)]]
              /\ group[0] = [name \in {rs[j].DeviceName : j \in DOMAIN rs} |-> <<>>]
              /\ \A i \in 1..Len(rs) : group[i] =
                    [group[i - 1] EXCEPT ![rs[i].DeviceName] = Append(@, rs[i])]
              /\ Grouped(rs) = group[Len(rs)]
  <1> DEFINE Names == {rs[j].DeviceName : j \in DOMAIN rs}
             S == [Names -> Seq(R)]
             none == [name \in Names |-> <<>>]
             Next1(i, g) == [g EXCEPT ![rs[i].DeviceName] = Append(@, rs[i])]
             step == [x \in (1..Len(rs)) \X S |-> Next1(x[1], x[2])]
             Def(g) == g = [i \in 0..Len(rs) |-> IF i = 0 THEN none ELSE Next1(i, g[i - 1])]
  <1>1. Len(rs) \in Nat /\ none \in S /\ DOMAIN rs = 1..Len(rs)
    OBVIOUS
  <1>2. \A i \in 1..Len(rs), g \in S : Next1(i, g) \in S
    <2> TAKE i \in 1..Len(rs), g \in S
    <2>1. rs[i].DeviceName \in Names /\ rs[i] \in R
      BY <1>1
    <2> HIDE DEF Names
    <2>2. g[rs[i].DeviceName] \in Seq(R)
      BY <2>1
    <2>3. Append(g[rs[i].DeviceName], rs[i]) \in Seq(R)
      BY <2>1, <2>2
    <2> QED BY <2>1, <2>3
  <1> HIDE DEF none, Next1, S
  <1>3. step \in [(1..Len(rs)) \X S -> S]
    BY <1>2
  <1> HIDE DEF step
  <1>4. PICK f : Loop(Len(rs), S, none, step, f)
    BY <1>1, <1>3, Recursion
  <1>5. /\ f \in [0..Len(rs) -> S] /\ f[0] = none
        /\ \A i \in 1..Len(rs) : f[i] = Next1(i, f[i - 1])
    <2>1. f \in [0..Len(rs) -> S] /\ f[0] = none
      BY <1>4 DEF Loop
    <2>2. ASSUME NEW i \in 1..Len(rs) PROVE f[i] = Next1(i, f[i - 1])
      <3>1. f[i] = step[<<i, f[i - 1]>>]
        BY <1>4 DEF Loop
      <3>0. i - 1 \in 0..Len(rs)
        BY <1>1
      <3>2. f[i - 1] \in S /\ <<i, f[i - 1]>> \in (1..Len(rs)) \X S
        BY <2>1, <3>0
      <3>3. \A x \in (1..Len(rs)) \X S : step[x] = Next1(x[1], x[2])
        BY DEF step
      <3>4. <<i, f[i - 1]>>[1] = i /\ <<i, f[i - 1]>>[2] = f[i - 1]
        OBVIOUS
      <3>5. step[<<i, f[i - 1]>>] = Next1(<<i, f[i - 1]>>[1], <<i, f[i - 1]>>[2])
        BY <3>2, <3>3, Zenon
      <3> QED BY <3>1, <3>4, <3>5, Zenon
    <2> QED BY <2>1, <2>2
  <1>6. Def(f)
    <2>1. \A i \in 0..Len(rs) : f[i] = IF i = 0 THEN none ELSE Next1(i, f[i - 1])
      <3> TAKE i \in 0..Len(rs)
      <3>1. i = 0 \/ i \in 1..Len(rs)
        BY <1>1
      <3>2. CASE i = 0
        BY <1>5, <3>2
      <3>3. CASE i # 0
        <4>1. f[i] = Next1(i, f[i - 1])
          BY <1>5, <3>1, <3>3
        <4> QED BY <3>3, <4>1
      <3> QED BY <3>2, <3>3
    <2> QED BY <1>5, <2>1
  <1> DEFINE chosen == CHOOSE g : Def(g)
  <1>7. Def(chosen)
    BY <1>6, Zenon
  <1>9. Grouped(rs) = chosen[Len(rs)]
    BY Zenon DEF Grouped, chosen, none, Next1
  <1> HIDE DEF chosen
  <1>8. \A i \in 0..Len(rs) : chosen[i] = f[i]
    <2> DEFINE h == [i \in 0..Len(rs) |-> IF i = 0 THEN none ELSE Next1(i, chosen[i - 1])]
    <2>1. h[0] = none
      BY <1>1
    <2>2. ASSUME NEW i \in 1..Len(rs) PROVE h[i] = Next1(i, chosen[i - 1])
      <3>1. i \in 0..Len(rs) /\ i # 0
        BY <1>1
      <3> QED BY <3>1
    <2>3. chosen = h
      BY <1>7
    <2> HIDE DEF h, Def
    <2>4. chosen[0] = f[0]
      BY <1>5, <2>1, <2>3
    <2>5. \A i \in 1..Len(rs) : chosen[i - 1] = f[i - 1] => chosen[i] = f[i]
      BY <1>5, <2>2, <2>3
    <2> QED BY <1>1, <2>4, <2>5, Unique, ZenonT(60)
  <1>10. Grouped(rs) = f[Len(rs)]
    BY <1>1, <1>8, <1>9
  <1> QED BY <1>5, <1>10 DEF S, none, Next1

\* at are the places, among the first k readings, of the group of a name.
GroupAt(g, rs, name, k, at) ==
    /\ at \in [1..Len(g) -> 1..k]
    /\ {at[j] : j \in DOMAIN at} = {i \in 1..k : rs[i].DeviceName = name}
    /\ \A j, l \in DOMAIN at : j < l => at[j] < at[l]
    /\ \A j \in 1..Len(g) : g[j] = rs[at[j]]

\* A reading of another device changes nothing for a group.
LEMMA GroupStays ==
    ASSUME NEW g, NEW rs, NEW name, NEW k \in Nat, NEW at, GroupAt(g, rs, name, k, at),
           rs[k + 1].DeviceName # name
    PROVE  GroupAt(g, rs, name, k + 1, at)
  <1>1. at \in [1..Len(g) -> 1..(k + 1)]
    BY DEF GroupAt
  <1>2. {i \in 1..k : rs[i].DeviceName = name} = {i \in 1..(k + 1) : rs[i].DeviceName = name}
    <2>1. \A i \in 1..(k + 1) : i \in 1..k \/ i = k + 1
      OBVIOUS
    <2>2. \A i \in 1..k : i \in 1..(k + 1)
      OBVIOUS
    <2> QED BY <2>1, <2>2
  <1> QED BY <1>1, <1>2, Zenon DEF GroupAt

\* One of the device is appended.
LEMMA GroupGrows ==
    ASSUME NEW R, NEW g \in Seq(R), NEW rs, NEW name, NEW k \in Nat, NEW at,
           GroupAt(g, rs, name, k, at), rs[k + 1].DeviceName = name, rs[k + 1] \in R
    PROVE  \E more : GroupAt(Append(g, rs[k + 1]), rs, name, k + 1, more)
  <1>1. PICK m \in Nat : m = Len(g)
    OBVIOUS
  <1>2. PICK g2 : g2 = Append(g, rs[k + 1])
    OBVIOUS
  <1>3. /\ g2 \in Seq(R) /\ Len(g2) = m + 1 /\ g2[m + 1] = rs[k + 1]
        /\ \A j \in 1..m : g2[j] = g[j]
    BY <1>1, <1>2
  <1>4. /\ at \in [1..m -> 1..k] /\ DOMAIN at = 1..m
        /\ {at[j] : j \in 1..m} = {i \in 1..k : rs[i].DeviceName = name}
        /\ \A j, l \in 1..m : j < l => at[j] < at[l]
        /\ \A j \in 1..m : g[j] = rs[at[j]]
    <2>1. at \in [1..m -> 1..k] /\ DOMAIN at = 1..m
      BY <1>1 DEF GroupAt
    <2> QED BY <1>1, <2>1, Zenon DEF GroupAt
  <1> DEFINE more == [j \in 1..(m + 1) |-> IF j <= m THEN at[j] ELSE k + 1]
  <1>5. /\ DOMAIN more = 1..(m + 1) /\ more[m + 1] = k + 1
        /\ \A j \in 1..m : more[j] = at[j] /\ at[j] \in 1..k
    BY <1>4
  <1>6. more \in [1..(m + 1) -> 1..(k + 1)]
    BY <1>4
  <1> HIDE DEF more
  <1>7. \A j \in 1..(m + 1) : j \in 1..m \/ j = m + 1
    OBVIOUS
  <1>8. {more[j] : j \in 1..(m + 1)} = {i \in 1..(k + 1) : rs[i].DeviceName = name}
    <2>1. \A i \in 1..(k + 1) : i \in 1..k \/ i = k + 1
      OBVIOUS
    <2>2. /\ \A i \in 1..k : i \in 1..(k + 1)
          /\ k + 1 \in 1..(k + 1) /\ m + 1 \in 1..(m + 1)
          /\ \A j \in 1..m : j \in 1..(m + 1)
      OBVIOUS
    <2>3. ASSUME NEW j \in 1..(m + 1)
          PROVE  more[j] \in {i \in 1..(k + 1) : rs[i].DeviceName = name}
      <3>1. CASE j \in 1..m
        <4>1. at[j] \in {i \in 1..k : rs[i].DeviceName = name}
          BY <1>4, <3>1
        <4> QED BY <1>5, <2>2, <3>1, <4>1
      <3>2. CASE j = m + 1
        BY <1>5, <2>2, <3>2
      <3> QED BY <1>7, <3>1, <3>2
    <2>4. ASSUME NEW i \in 1..(k + 1), rs[i].DeviceName = name
          PROVE  \E j \in 1..(m + 1) : i = more[j]
      <3>1. CASE i \in 1..k
        <4>1. i \in {at[j] : j \in 1..m}
          BY <1>4, <2>4, <3>1
        <4>2. PICK j \in 1..m : i = at[j]
          BY <4>1
        <4> QED BY <1>5, <2>2, <4>2
      <3>2. CASE i = k + 1
        BY <1>5, <2>2, <3>2
      <3> QED BY <2>1, <3>1, <3>2
    <2> QED BY <2>3, <2>4
  <1>9. \A j, l \in 1..(m + 1) : j < l => more[j] < more[l]
    <2> SUFFICES ASSUME NEW j \in 1..(m + 1), NEW l \in 1..(m + 1), j < l
                 PROVE  more[j] < more[l]
      OBVIOUS
    <2>1. j \in 1..m
      OBVIOUS
    <2>2. CASE l \in 1..m
      BY <1>4, <1>5, <2>1, <2>2
    <2>3. CASE l = m + 1
      BY <1>5, <2>1, <2>3
    <2> QED BY <1>7, <2>2, <2>3
  <1>10. \A j \in 1..(m + 1) : g2[j] = rs[more[j]]
    <2> TAKE j \in 1..(m + 1)
    <2>1. CASE j \in 1..m
      BY <1>3, <1>4, <1>5, <2>1
    <2>2. CASE j = m + 1
      BY <1>3, <1>5, <2>2
    <2> QED BY <1>7, <2>1, <2>2
  <1>11. GroupAt(g2, rs, name, k + 1, more)
    BY <1>3, <1>5, <1>6, <1>8, <1>9, <1>10 DEF GroupAt
  <1> QED BY <1>2, <1>11

\* Every reading is in the group of its device, once and in its order.
LEMMA GroupsAre ==
    ASSUME NEW R, NEW rs \in Seq(R)
    PROVE  /\ DOMAIN Grouped(rs) = {rs[j].DeviceName : j \in DOMAIN rs}
           /\ \A name \in DOMAIN Grouped(rs) :
                 /\ Grouped(rs)[name] \in Seq(R)
                 /\ \E at : GroupAt(Grouped(rs)[name], rs, name, Len(rs), at)
  <1> DEFINE Names == {rs[j].DeviceName : j \in DOMAIN rs}
  <1>1. PICK group :
           /\ group \in [0..Len(rs) -> [Names -> Seq(R)]]
           /\ group[0] = [name \in Names |-> <<>>]
           /\ \A i \in 1..Len(rs) : group[i] =
                 [group[i - 1] EXCEPT ![rs[i].DeviceName] = Append(@, rs[i])]
           /\ Grouped(rs) = group[Len(rs)]
    BY GroupedIs, Zenon
  <1>2. PICK n \in Nat : n = Len(rs)
    OBVIOUS
  <1>3. \A i \in 1..n : rs[i].DeviceName \in Names /\ rs[i] \in R
    BY <1>2
  <1> HIDE DEF Names
  <1>4. \A k \in 0..n : group[k] \in [Names -> Seq(R)]
    BY <1>1, <1>2
  <1> DEFINE Has(k, name) == \E at : GroupAt(group[k][name], rs, name, k, at)
             P == {k \in Nat : k <= n => \A name \in Names : Has(k, name)}
  <1>5. 0 \in P
    <2> SUFFICES ASSUME NEW name \in Names PROVE Has(0, name)
      OBVIOUS
    <2> DEFINE at == [j \in 1..0 |-> 0]
    <2>1. group[0][name] = <<>>
      BY <1>1
    <2>2. GroupAt(<<>>, rs, name, 0, at)
      <3>1. 1..0 = {} /\ Len(<<>>) = 0
        OBVIOUS
      <3> QED BY <3>1 DEF GroupAt
    <2> HIDE DEF at
    <2> QED BY <2>1, <2>2
  <1>6. ASSUME NEW k \in Nat, k \in P PROVE k + 1 \in P
    <2> SUFFICES ASSUME k + 1 <= n, NEW name \in Names PROVE Has(k + 1, name)
      OBVIOUS
    <2>1. k \in 0..n /\ k + 1 \in 1..n /\ (k + 1) - 1 = k
      BY <1>2
    <2>2. PICK at : GroupAt(group[k][name], rs, name, k, at)
      BY <1>6, <2>1
    <2>3. /\ group[k] \in [Names -> Seq(R)] /\ group[k][name] \in Seq(R)
          /\ rs[k + 1].DeviceName \in Names /\ rs[k + 1] \in R
      BY <1>3, <1>4, <2>1
    <2>4. group[k + 1] = [group[k] EXCEPT ![rs[k + 1].DeviceName] = Append(@, rs[k + 1])]
      BY <1>1, <1>2, <2>1
    <2>5. CASE rs[k + 1].DeviceName # name
      <3>1. group[k + 1][name] = group[k][name]
        BY <2>3, <2>4, <2>5
      <3>2. GroupAt(group[k][name], rs, name, k + 1, at)
        BY <2>2, <2>5, GroupStays
      <3> QED BY <3>1, <3>2
    <2>6. CASE rs[k + 1].DeviceName = name
      <3>1. group[k + 1][name] = Append(group[k][name], rs[k + 1])
        BY <2>3, <2>4, <2>6
      <3>2. \E more : GroupAt(Append(group[k][name], rs[k + 1]), rs, name, k + 1, more)
        BY <2>2, <2>3, <2>6, GroupGrows
      <3> QED BY <3>1, <3>2
    <2> QED BY <2>5, <2>6
  <1> HIDE DEF P
  <1>7. n \in P
    BY <1>5, <1>6, SetInduction
  <1>8. \A name \in Names : Has(n, name)
    BY <1>7 DEF P
  <1>9. group[n] \in [Names -> Seq(R)]
    BY <1>2, <1>4
  <1>10. Grouped(rs) = group[n]
    BY <1>1, <1>2
  <1> QED BY <1>2, <1>8, <1>9, <1>10 DEF Names

\* What the document for the broker, and a document for a sink, should show.
OnBroker(entry, e) == Shows(entry, e, ForBroker(e))
OnSink(entry, e) == Shows(entry, e, ForSink(e))

FiniteEntry(e) == e.read[1] = "num" => Finite(e.read[2])

\* A float64 without its fraction is one again.
LEMMA CutIsFinite ==
    ASSUME NEW n \in Floats, Finite(n)
    PROVE  One * TowardZero(n) \in Int /\ Finite(One * TowardZero(n))
  <1>1. One \in Nat /\ One > 0 /\ Largest \in Nat /\ n \in -Largest..Largest
    BY FloatAssumption DEF Floats, Finite
  <1>2. ASSUME NEW m \in 0..Largest
        PROVE  /\ m \div One \in Nat
               /\ One * (m \div One) \in 0..Largest /\ One * (-(m \div One)) \in -Largest..0
    <2>1. m = One * (m \div One) + (m % One) /\ m \div One \in Nat /\ m % One \in 0..(One - 1)
      BY <1>1
    <2>2. PICK q \in Nat : q = m \div One
      BY <2>1
    <2>3. PICK x \in Int : x = One * q
      BY <1>1
    <2>4. x >= 0 /\ x <= m /\ One * (-q) = -x
      BY <1>1, <2>1, <2>2, <2>3
    <2> QED BY <1>1, <2>2, <2>3, <2>4
  <1>3. One * TowardZero(n) \in -Largest..Largest
    <2>1. CASE n >= 0
      BY <1>1, <1>2, <2>1 DEF TowardZero
    <2>2. CASE n < 0
      <3>1. -n \in 0..Largest /\ TowardZero(n) = -((-n) \div One)
        BY <1>1, <2>2 DEF TowardZero
      <3> QED BY <1>1, <1>2, <3>1
    <2> QED BY <1>1, <2>1, <2>2
  <1> QED BY <1>1, <1>3 DEF Finite, Inf, NaN

\* One that has no fraction stays as it is.
LEMMA WholeStays ==
    ASSUME NEW n \in Int, n % One = 0
    PROVE  One * TowardZero(n) = n
  <1>1. One \in Nat /\ One > 0
    BY FloatAssumption
  <1>2. n = One * (n \div One) + (n % One) /\ n \div One \in Int
    BY <1>1
  <1>3. PICK k \in Int : k = n \div One /\ n = One * k
    BY <1>1, <1>2
  <1>4. TowardZero(One * k) = k
    BY WholeNumber
  <1> QED BY <1>3, <1>4

\* A reading that says its value in text is shown with it.
LEMMA EntryIsShown ==
    ASSUME NEW e, Good(e), ExtractsAsMeant, FiniteEntry(e)
    PROVE  /\ OnBroker(Entry(e.r, BrokerValue(e.r)), e)
           /\ BrokerValue(e.r)[1] = "num" => Finite(BrokerValue(e.r)[2])
           /\ OnSink(Entry(e.r, SinkValue(e.r)), e)
           /\ SinkValue(e.r)[1] = "num" => Finite(SinkValue(e.r)[2])
           /\ SinkValue(e.r) # Missing
  <1>1. PICK r, v, dt : r = e.r /\ v = e.read /\ dt = r.DataType
    OBVIOUS
  <1>2. /\ dt \in DataTypes /\ ValueOf(dt, v) /\ r.Value = SerializeValue(dt, v)
        /\ Said(e) = v /\ r.Timestamp = e.at
        /\ r.DeviceName # ModbusName => CheckDataType(v, dt)
    BY <1>1, Zenon DEF Good, Said
  <1>3. v[1] = "num" => Finite(v[2])
    BY <1>1 DEF FiniteEntry
  <1>4. \A value : Entry(r, value).ts = e.at /\ Entry(r, value).value = value
    BY <1>2 DEF Entry
  <1>5. /\ \A value : value = ForBroker(e) => OnBroker(Entry(r, value), e)
        /\ \A value : value = ForSink(e) => OnSink(Entry(r, value), e)
    BY <1>4, Zenon DEF OnBroker, OnSink, Shows
  <1>6. SUFFICES /\ BrokerValue(r) = ForBroker(e)
                 /\ BrokerValue(r)[1] = "num" => Finite(BrokerValue(r)[2])
                 /\ SinkValue(r) = ForSink(e) /\ SinkValue(r)[1] # "none"
                 /\ SinkValue(r)[1] = "num" => Finite(SinkValue(r)[2])
    BY <1>1, <1>5 DEF Missing
  <1>7. CASE dt # JSON /\ dt \notin IntegerTypes
    <2>1. dt \in {Bool} \cup Numeric
      BY <1>2, <1>7, TypeTexts
    <2>2. CheckDataType(v, dt) /\ v[1] # "none"
          /\ (\/ \E b \in BOOLEAN : v = <<"bool", b>>
              \/ \E n \in Int : v = <<"num", n>> /\ Finite(n))
      <3>1. CASE dt = Bool
        <4>1. PICK b \in BOOLEAN : v = <<"bool", b>>
          BY <1>2, <3>1, TypeTexts DEF ValueOf
        <4>2. v[1] = "bool"
          BY <4>1
        <4>3. CheckDataType(v, dt)
          BY <3>1, <4>2, TypeTexts, Zenon DEF CheckDataType
        <4> QED BY <4>1, <4>2, <4>3
      <3>2. CASE dt \in Numeric
        <4>1. PICK n \in Int : v = <<"num", n>>
          BY <1>2, <3>2, TypeTexts, FloatsAre DEF ValueOf
        <4>2. v[1] = "num" /\ v[2] = n
          BY <4>1
        <4>3. Finite(n)
          BY <1>3, <4>2
        <4>4. CheckDataType(v, dt)
          BY <1>7, <3>2, <4>2, TypeTexts, Zenon DEF CheckDataType
        <4> QED BY <4>1, <4>2, <4>3, <4>4
      <3> QED BY <2>1, <3>1, <3>2
    <2>3. v # Missing
      BY <2>2 DEF Missing
    <2>4. BrokerValue(r) = v /\ SinkValue(r) = v
      BY <1>1, <1>2, <2>1, <2>2, <2>3, ValueSurvivesText
    <2>5. ForBroker(e) = v /\ ForSink(e) = v
      BY <1>1, <1>2, <1>7, Zenon DEF ForBroker, ForSink
    <2> QED BY <1>3, <2>2, <2>4, <2>5
  <1>8. CASE dt \in IntegerTypes
    <2>1. dt # Bool /\ dt # JSON /\ dt \in Numeric
      BY <1>8, TypeTexts
    <2>2. PICK n \in Floats : v = <<"num", n>>
      BY <1>2, <2>1, TypeTexts DEF ValueOf
    <2>3. v[1] = "num" /\ v[2] = n /\ n \in Int /\ Finite(n)
      BY <1>3, <2>2, FloatsAre
    <2>4. IsNumText(r.Value) /\ NumberIn(r.Value) = n
      <3>1. r.Value = NumText(n)
        BY <1>2, <2>1, <2>2, <2>3, SerializedIs
      <3> QED BY <2>3, <3>1, NumberText
    <2>5. BrokerValue(r) = v
      BY <1>1, <2>1, <2>2, <2>4, Zenon DEF BrokerValue
    <2>6. SinkValue(r) = <<"num", One * TowardZero(n)>>
      BY <1>1, <1>8, <2>1, <2>3, <2>4, Zenon DEF SinkValue
    <2>7. ForBroker(e) = v /\ ForSink(e) = <<"num", One * TowardZero(n)>>
      <3>1. ForBroker(e) = v
        BY <1>1, <1>2, <2>1, Zenon DEF ForBroker
      <3>2. CASE r.DeviceName = ModbusName
        BY <1>1, <1>2, <1>8, <2>1, <2>3, <3>1, <3>2, Zenon DEF ForSink
      <3>3. CASE r.DeviceName # ModbusName
        <4>1. ForSink(e) = v
          BY <1>1, <1>2, <2>1, <3>3, Zenon DEF ForSink
        <4>2. Integral(n)
          BY <1>2, <1>8, <2>3, <3>3, Zenon DEF CheckDataType
        <4>3. n % One = 0 /\ One \in Nat /\ One > 0
          BY <2>3, <4>2, FloatAssumption DEF Integral, Finite
        <4>4. One * TowardZero(n) = n
          BY <2>3, <4>3, WholeStays
        <4> QED BY <2>2, <3>1, <4>1, <4>4
      <3> QED BY <3>2, <3>3
    <2>8. Finite(One * TowardZero(n))
      BY <2>3, CutIsFinite
    <2>9. \A x : <<"num", x>>[1] = "num" /\ <<"num", x>>[2] = x
      OBVIOUS
    <2> QED BY <2>3, <2>5, <2>6, <2>7, <2>8, <2>9
  <1>9. CASE dt = JSON
    <2>0. JSON # Bool
      BY DEF JSON, Bool
    <2>1. r.Value = IF v[1] = "str" THEN v[2] ELSE <<>>
      BY <1>2, <1>9, SerializedIs
    <2>2. PICK s : s = r.Value
      OBVIOUS
    <2>3. BrokerValue(r) = <<"str", s>> /\ SinkValue(r) = JSONIn(s)
      BY <1>1, <1>9, <2>0, <2>2, Zenon DEF BrokerValue, SinkValue
    <2>4. v[1] = "str" => v = <<"str", v[2]>>
      <3>1. v[1] = "str" => \E text \in Seq(Nat) : v = <<"str", text>>
        BY <1>2, <1>9, TypeTexts DEF ValueOf
      <3> QED BY <3>1
    <2>5. ForBroker(e) = <<"str", s>>
      BY <1>1, <1>2, <1>9, <2>1, <2>2, <2>4, Zenon DEF ForBroker
    <2>6. ForSink(e) = JSONIn(s)
      <3>1. <<"str", s>>[2] = s
        OBVIOUS
      <3> QED BY <1>1, <1>9, <2>5, <3>1, TypeTexts, Zenon DEF ForSink
    <2>7. JSONIn(s)[1] # "none" /\ (JSONIn(s)[1] = "num" => Finite(JSONIn(s)[2]))
      <3>1. CASE IsNumText(s) /\ Finite(NumberIn(s))
        BY <3>1 DEF JSONIn
      <3>2. CASE ~(IsNumText(s) /\ Finite(NumberIn(s))) /\ s \in {TrueText, FalseText}
        <4>1. JSONIn(s) = <<"bool", s = TrueText>>
          BY <3>2, Zenon DEF JSONIn
        <4>2. JSONIn(s)[1] = "bool"
          BY <4>1
        <4> QED BY <4>2
      <3>3. CASE ~(IsNumText(s) /\ Finite(NumberIn(s))) /\ s \notin {TrueText, FalseText}
        BY <3>3 DEF JSONIn
      <3> QED BY <3>1, <3>2, <3>3
    <2>8. <<"str", s>>[1] # "num"
      OBVIOUS
    <2> QED BY <2>3, <2>5, <2>6, <2>7, <2>8
  <1> QED BY <1>7, <1>8, <1>9, TypeTexts

\* The document for the broker has an entry for every reading, and shows it.
LEMMA BrokerShows ==
    ASSUME NEW n \in Nat, NEW es, ExtractsAsMeant,
           \A j \in 1..n : Good(es[j]) /\ FiniteEntry(es[j]),
           NEW rs, rs = [j \in 1..n |-> es[j].r]
    PROVE  /\ Len(BrokerDocument(rs)) = n
           /\ \A j \in 1..n : OnBroker(BrokerDocument(rs)[j], es[j])
  <1>1. DOMAIN rs = 1..n /\ \A j \in 1..n : rs[j] = es[j].r
    OBVIOUS
  <1>2. \A j \in 1..n : /\ OnBroker(Entry(rs[j], BrokerValue(rs[j])), es[j])
                        /\ BrokerValue(rs[j])[1] = "num" => Finite(BrokerValue(rs[j])[2])
    BY <1>1, EntryIsShown
  <1>3. Marshals([j \in DOMAIN rs |-> BrokerValue(rs[j])])
    BY <1>1, <1>2 DEF Marshals
  <1>4. BrokerDocument(rs) = [j \in 1..n |-> Entry(rs[j], BrokerValue(rs[j]))]
    BY <1>1, <1>3, Zenon DEF BrokerDocument
  <1>5. \A d : d = [j \in 1..n |-> Entry(rs[j], BrokerValue(rs[j]))] =>
           Len(d) = n /\ \A j \in 1..n : d[j] = Entry(rs[j], BrokerValue(rs[j]))
    OBVIOUS
  <1>6. /\ Len(BrokerDocument(rs)) = n
        /\ \A j \in 1..n : BrokerDocument(rs)[j] = Entry(rs[j], BrokerValue(rs[j]))
    BY <1>4, <1>5, Zenon
  <1> QED BY <1>2, <1>6

\* The readings rs are those of the entries at some places.
ReadingsAt(rs, es, at, m) ==
    /\ DOMAIN rs = 1..m
    /\ \A j \in 1..m : rs[j] = es[at[j]].r /\ Good(es[at[j]]) /\ FiniteEntry(es[at[j]])

\* So does the document for the sinks, of the readings of its group.
LEMMA SinkShows ==
    ASSUME NEW m \in Nat, NEW es, ExtractsAsMeant, NEW at, NEW rs, ReadingsAt(rs, es, at, m)
    PROVE  /\ DOMAIN SinkDocument(rs) = 1..m
           /\ \A j \in 1..m : OnSink(SinkDocument(rs)[j], es[at[j]])
  <1> DEFINE values == [j \in DOMAIN rs |-> SinkValue(rs[j])]
  <1>1. DOMAIN rs = 1..m
    BY DEF ReadingsAt
  <1>2. \A j \in 1..m : /\ OnSink(Entry(rs[j], SinkValue(rs[j])), es[at[j]])
                        /\ SinkValue(rs[j])[1] = "num" => Finite(SinkValue(rs[j])[2])
                        /\ SinkValue(rs[j]) # Missing
    BY EntryIsShown DEF ReadingsAt
  <1>3. DOMAIN values = 1..m /\ \A j \in 1..m : values[j] = SinkValue(rs[j])
    BY <1>1
  <1>4. Marshals(values) /\ \A j \in DOMAIN rs : values[j] # Missing
    BY <1>1, <1>2, <1>3 DEF Marshals
  <1>5. SinkDocument(rs) = [j \in DOMAIN rs |-> Entry(rs[j], values[j])]
    BY <1>4, Zenon DEF SinkDocument
  <1> HIDE DEF values
  <1>6. \A d : d = [j \in DOMAIN rs |-> Entry(rs[j], values[j])] =>
           DOMAIN d = 1..m /\ \A j \in 1..m : d[j] = Entry(rs[j], values[j])
    BY <1>1
  <1>7. /\ DOMAIN SinkDocument(rs) = 1..m
        /\ \A j \in 1..m : SinkDocument(rs)[j] = Entry(rs[j], SinkValue(rs[j]))
    BY <1>3, <1>5, <1>6
  <1> QED BY <1>2, <1>7

\* What ArrivesAsMeant says of what is published of one upload.
ShowsAll(d, es) ==
    /\ Len(d.broker) = Len(es)
    /\ \A i \in DOMAIN es : OnBroker(d.broker[i], es[i])
    /\ \A name \in {es[i].r.DeviceName : i \in DOMAIN es} :
          \E doc \in d.sinks : \E at \in [DOMAIN doc -> DOMAIN es] :
              /\ PlacesOf(es, name, at)
              /\ \A i \in DOMAIN doc : OnSink(doc[i], es[at[i]])

GoodDoc(d) == ExtractsAsMeant /\ AllFinite(d.entries) => ShowsAll(d, d.entries)

AllCounted == \A i \in 1..Len(sent) : Counted(sent[i])

DocsInv ==
    /\ IsSeq(docs)
    /\ AllCounted => \A k \in 1..Len(docs) : GoodDoc(docs[k])

\* Of a batch that arrives as it was sent, what is published shows every reading.
LEMMA UploadIsShown ==
    ASSUME NEW m, Batch(m), m.type = Upload, NEW d,
           d.broker = BrokerDocument(m.p), d.entries = m.entries,
           d.sinks = {SinkDocument(Grouped(m.p)[name]) : name \in DOMAIN Grouped(m.p)}
    PROVE  GoodDoc(d)
  <1>1. PICK es, rs : es = m.entries /\ rs = m.p
    OBVIOUS
  <1>2. IsSeq(es)
    BY <1>1, SMTT(60) DEF Batch
  <1>3. PICK n \in Nat : n = Len(es) /\ DOMAIN es = 1..n
    <2>1. Len(es) \in Nat /\ DOMAIN es = 1..Len(es)
      BY <1>2 DEF IsSeq
    <2> QED BY <2>1
  <1>4. rs = [j \in 1..n |-> es[j].r] /\ \A j \in 1..n : Good(es[j])
    BY <1>1, <1>3 DEF Batch
  <1>5. SUFFICES ASSUME ExtractsAsMeant, AllFinite(es) PROVE ShowsAll(d, es)
    BY <1>1, Zenon DEF GoodDoc
  <1>6. \A j \in 1..n : Good(es[j]) /\ FiniteEntry(es[j])
    BY <1>3, <1>4, <1>5 DEF AllFinite, FiniteEntry
  <1>7. /\ Len(BrokerDocument(rs)) = n
        /\ \A j \in 1..n : OnBroker(BrokerDocument(rs)[j], es[j])
    BY <1>4, <1>5, <1>6, BrokerShows
  <1>8. ASSUME NEW name \in {es[i].r.DeviceName : i \in DOMAIN es}
        PROVE  \E doc \in d.sinks : \E at \in [DOMAIN doc -> DOMAIN es] :
                  /\ PlacesOf(es, name, at)
                  /\ \A i \in DOMAIN doc : OnSink(doc[i], es[at[i]])
    <2>1. PICK R : rs \in Seq(R) /\ Len(rs) = n /\ DOMAIN rs = 1..n
      <3> DEFINE R == {es[j].r : j \in 1..n}
      <3>1. \A j \in 1..n : es[j].r \in R
        OBVIOUS
      <3> HIDE DEF R
      <3>2. rs \in [1..n -> R]
        BY <1>4, <3>1
      <3>3. rs \in Seq(R) /\ Len(rs) = n /\ DOMAIN rs = 1..n
        BY <3>2
      <3> QED BY <3>3
    <2>2. \A j \in 1..n : rs[j] = es[j].r
      BY <1>4
    <2>3. name \in DOMAIN Grouped(rs)
      <3>1. DOMAIN Grouped(rs) = {rs[j].DeviceName : j \in DOMAIN rs}
        BY <2>1, GroupsAre
      <3> QED BY <1>3, <2>1, <2>2, <3>1
    <2>4. PICK g, at : /\ g = Grouped(rs)[name] /\ g \in Seq(R)
                       /\ GroupAt(g, rs, name, n, at)
      BY <2>1, <2>3, GroupsAre
    <2>5. PICK m2 \in Nat : m2 = Len(g) /\ DOMAIN g = 1..m2
      BY <2>4
    <2>6. /\ at \in [1..m2 -> 1..n] /\ DOMAIN at = 1..m2
          /\ {at[j] : j \in DOMAIN at} = {i \in 1..n : rs[i].DeviceName = name}
          /\ \A j, l \in DOMAIN at : j < l => at[j] < at[l]
          /\ \A j \in 1..m2 : g[j] = rs[at[j]]
      <3>1. at \in [1..m2 -> 1..n] /\ DOMAIN at = 1..m2
        BY <2>4, <2>5 DEF GroupAt
      <3> QED BY <2>4, <2>5, <3>1, Zenon DEF GroupAt
    <2>7. \A j \in 1..m2 : at[j] \in 1..n
      BY <2>6
    <2>8. \A j \in 1..m2 : g[j] = es[at[j]].r /\ Good(es[at[j]]) /\ FiniteEntry(es[at[j]])
      BY <1>6, <2>2, <2>6, <2>7
    <2>9. PICK doc : doc = SinkDocument(g)
      OBVIOUS
    <2>10. DOMAIN doc = 1..m2 /\ \A j \in 1..m2 : OnSink(doc[j], es[at[j]])
      <3>1. ReadingsAt(g, es, at, m2)
        BY <2>5, <2>8 DEF ReadingsAt
      <3> QED BY <1>5, <2>9, <3>1, SinkShows
    <2>11. PlacesOf(es, name, at)
      <3>1. {i \in 1..n : rs[i].DeviceName = name} = {i \in DOMAIN es : es[i].r.DeviceName = name}
        BY <1>3, <2>2
      <3> QED BY <2>6, <3>1, Zenon DEF PlacesOf
    <2>12. doc \in d.sinks
      BY <1>1, <2>3, <2>4, <2>9
    <2>13. at \in [DOMAIN doc -> DOMAIN es]
      BY <1>3, <2>6, <2>10
    <2> QED BY <2>10, <2>11, <2>12, <2>13, Zenon
  <1>9. Len(d.broker) = Len(es) /\ \A i \in DOMAIN es : OnBroker(d.broker[i], es[i])
    BY <1>1, <1>3, <1>7
  <1> QED BY <1>8, <1>9, Zenon DEF ShowsAll

LEMMA DocsStart == Init => DocsInv
  <1> SUFFICES ASSUME Init PROVE DocsInv
    OBVIOUS
  <1>1. docs = <<>> /\ Len(docs) = 0 /\ <<>> \in Seq({})
    BY DEF Init
  <1> QED BY <1>1 DEF DocsInv, IsSeq

\* A frame is read; what has been published stays.
LEMMA ReadPublishes ==
    ASSUME DocsInv, PathInv, StreamInv, StreamInv', PathInv', ReadFrame
    PROVE  DocsInv'
  <1> DEFINE d == DecodeFrame(wire)
             parsed == ParseMsg(d.m)
             new == [type |-> d.m.Type, id |-> d.m.MsgID,
                     p |-> IF parsed.ok THEN parsed.p ELSE Missing]
             msg == sent[Len(got) + 1]
             doc == [broker |-> BrokerDocument(parsed.p),
                     sinks |-> LET group == Grouped(parsed.p)
                               IN  {SinkDocument(group[name]) : name \in DOMAIN group},
                     entries |-> msg.entries]
  <1>1. sent' = sent
    BY DEF ReadFrame
  <1>2. \/ docs' = docs
        \/ /\ got' = Append(got, new) /\ d.m.Type = Upload /\ parsed.ok
           /\ docs' = docs \o <<doc>>
    <2>1. \/ docs' = docs
          \/ /\ got' = Append(got, new) /\ d.m.Type = Upload
             /\ docs' = docs \o Published(parsed, msg.entries)
      BY DEF ReadFrame
    <2>2. IsSeq(docs)
      BY DEF DocsInv
    <2>3. docs \o <<>> = docs
      BY <2>2 DEF IsSeq
    <2>4. Published(parsed, msg.entries) = IF parsed.ok THEN <<doc>> ELSE <<>>
      BY Zenon DEF Published
    <2> HIDE DEF doc, parsed, new, d, msg
    <2> QED BY <2>1, <2>3, <2>4
  <1>3. CASE docs' = docs
    BY <1>1, <1>3 DEF DocsInv, IsSeq, AllCounted
  <1>4. CASE /\ got' = Append(got, new) /\ d.m.Type = Upload /\ parsed.ok
             /\ docs' = docs \o <<doc>>
    <2>1. /\ new.type = d.m.Type /\ new.p = IF parsed.ok THEN parsed.p ELSE Missing
          /\ doc.broker = BrokerDocument(parsed.p) /\ doc.entries = msg.entries
          /\ doc.sinks = {SinkDocument(Grouped(parsed.p)[name]) : name \in DOMAIN Grouped(parsed.p)}
      OBVIOUS
    <2> HIDE DEF doc, new, parsed, d
    <2>2. /\ IsSeq(docs') /\ Len(docs) \in Nat /\ Len(docs') = Len(docs) + 1
          /\ docs'[Len(docs) + 1] = doc
          /\ \A k \in 1..Len(docs) : docs'[k] = docs[k]
      <3>1. docs' = Append(docs, doc)
        <4>1. PICK S : docs \in Seq(S)
          BY DEF DocsInv, IsSeq
        <4>2. docs \in Seq(S \cup {doc})
          BY <4>1, SeqGrows
        <4> QED BY <1>4, <4>2
      <3> QED BY <3>1, Appended DEF DocsInv
    <2>3. ASSUME AllCounted PROVE GoodDoc(doc)
      <3>1. PICK n \in Nat : n = Len(got)
        BY Appended DEF StreamInv, SentInv
      <3>2. IsSeq(got)
        BY DEF StreamInv, SentInv
      <3>3. /\ IsSeq(got') /\ Len(got') = n + 1 /\ got'[n + 1] = new
        BY <1>4, <3>1, <3>2, Appended
      <3>4. n + 1 \in DOMAIN got'
        BY <3>1, <3>3 DEF IsSeq
      <3>5. AllOfType'
        <4>1. AllOfType
          BY PathIsTyped
        <4> QED BY <1>1, <4>1 DEF AllOfType
      <3>6. Sized(n + 1)'
        BY <1>1, <2>3 DEF Sized, AllCounted
      <3>7. FaithfulUpToOversized'
        BY <3>5 DEF StreamInv
      <3>8. /\ n + 1 <= Len(sent') /\ got'[n + 1].type = sent'[n + 1].type
            /\ got'[n + 1].p = sent'[n + 1].p
        BY <3>4, <3>6, <3>7 DEF FaithfulUpToOversized
      <3>9. msg.type = Upload /\ msg.p = parsed.p
        BY <1>1, <1>4, <2>1, <3>1, <3>3, <3>8
      <3>10. Batch(msg)
        <4>1. Len(sent) \in Nat
          BY Appended DEF StreamInv, SentInv
        <4>2. n + 1 \in 1..Len(sent)
          BY <1>1, <3>8, <4>1
        <4> QED BY <3>1, <4>2 DEF PathInv
      <3> HIDE DEF msg
      <3> QED BY <2>1, <3>9, <3>10, UploadIsShown
    <2>4. ASSUME AllCounted', NEW k \in 1..Len(docs') PROVE GoodDoc(docs'[k])
      <3>1. AllCounted
        BY <1>1, <2>4 DEF AllCounted
      <3>2. k \in 1..Len(docs) \/ k = Len(docs) + 1
        BY <2>2, <2>4
      <3> QED BY <2>2, <2>3, <3>1, <3>2 DEF DocsInv
    <2> QED BY <2>2, <2>4 DEF DocsInv
  <1> QED BY <1>2, <1>3, <1>4

\* Every step keeps it.
LEMMA DocsStep ==
    DocsInv /\ PathInv /\ PathInv' /\ StreamInv /\ StreamInv' /\ [Next]_vars => DocsInv'
  <1> SUFFICES ASSUME DocsInv, PathInv, PathInv', StreamInv, StreamInv', [Next]_vars
               PROVE  DocsInv'
    OBVIOUS
  <1>1. ASSUME docs' = docs, sent' = sent \/ \E msg : sent' = Append(sent, msg)
        PROVE  DocsInv'
    <2>1. ASSUME AllCounted' PROVE AllCounted
      <3>1. CASE sent' = sent
        BY <2>1, <3>1 DEF AllCounted
      <3>2. CASE \E msg : sent' = Append(sent, msg)
        <4>1. IsSeq(sent)
          BY DEF StreamInv, SentInv
        <4>2. /\ Len(sent) \in Nat /\ Len(sent') = Len(sent) + 1
              /\ \A i \in 1..Len(sent) : sent'[i] = sent[i]
          BY <3>2, <4>1, Appended
        <4>3. \A i \in 1..Len(sent) : i \in 1..Len(sent')
          BY <4>2
        <4> QED BY <2>1, <4>2, <4>3 DEF AllCounted
      <3> QED BY <1>1, <3>1, <3>2
    <2> QED BY <1>1, <2>1 DEF DocsInv, IsSeq
  <1>2. CASE LoadClientSettings \/ LoadServerSettings \/ LoadDevices \/ PollOnce \/ ExecuteWrite
             \/ HandleMqttReading \/ Cut \/ UNCHANGED vars
    <2>1. docs' = docs /\ sent' = sent
      BY <1>2 DEF LoadClientSettings, LoadServerSettings, LoadSettings, LoadDevices, PollOnce,
                  ExecuteWrite, HandleMqttReading, Cut, vars
    <2> QED BY <1>1, <2>1
  <1>3. CASE WriteHandshake \/ WriteUpload \/ WriteHeartbeat \/ WriteNotify
    <2>1. docs' = docs /\ \E type, p, entries : Write(type, p, entries)
      BY <1>3 DEF WriteHandshake, WriteUpload, WriteHeartbeat, WriteNotify
    <2>2. \E msg : sent' = Append(sent, msg)
      BY <2>1 DEF Write
    <2> QED BY <1>1, <2>1, <2>2
  <1>4. CASE ReadFrame
    BY <1>4, ReadPublishes
  <1> QED BY <1>2, <1>3, <1>4 DEF Next

-----------------------------------------------------------------------------
(* The path as a whole                                                     *)

Inv == DeviceInv /\ StreamInv /\ PathInv /\ DocsInv

LEMMA InvHolds == Spec => []Inv
  <1>1. Init => Inv
    BY DeviceStart, StreamStart, PathStart, DocsStart DEF Inv
  <1>2. Inv /\ [Next]_vars => Inv'
    BY DeviceStep, StreamStep, PathStep, DocsStep DEF Inv
  <1> QED BY <1>1, <1>2, PTL DEF Spec

\* DecodeFrame and ParseMsg return what NewMsg and Encode were given, message by
\* message and in order, wherever the connection breaks, up to the first message
\* whose payload is longer than the 16-bit PayloadLen can say; a frame is refused
\* only if there is such a message among those read and the next.
THEOREM StreamFaithfulUpToOversized == Spec => []FaithfulUpToOversized
  <1>1. Inv => FaithfulUpToOversized
    BY PathIsTyped DEF Inv, StreamInv
  <1> QED BY <1>1, InvHolds, PTL

\* So as long as every message can be counted the stream is faithful, and no
\* frame is refused.
THEOREM CountedStreamIsFaithful ==
    Spec => [](AllCounted => StreamIsFaithful /\ FramesAreAccepted)
  <1>1. ASSUME StreamInv, AllOfType, AllCounted
        PROVE  StreamIsFaithful /\ FramesAreAccepted
    <2>1. FaithfulUpToOversized
      BY <1>1 DEF StreamInv
    <2>2. IsSeq(sent) /\ IsSeq(got)
      BY <1>1 DEF StreamInv, SentInv
    <2>4. \A k : Sized(k)
      BY <1>1 DEF Sized, AllCounted
    <2>5. link # "refused"
      BY <2>1, <2>4 DEF FaithfulUpToOversized
    <2>6. Len(got) <= Len(sent)
      BY <1>1, <2>4 DEF StreamInv, Behind
    <2> QED BY <2>1, <2>4, <2>5, <2>6 DEF StreamIsFaithful, FramesAreAccepted, FaithfulUpToOversized
  <1>2. Inv => (AllCounted => StreamIsFaithful /\ FramesAreAccepted)
    BY <1>1, PathIsTyped DEF Inv
  <1> QED BY <1>2, InvHolds, PTL

\* What the sinks of the server show of an upload is what its devices meant,
\* reading by reading, whatever the points, the numbers, the payloads and the
\* frames around it, but for the fraction of a Modbus point of an integer type,
\* which ThingsBoard is not shown: provided that every message sent could be
\* counted, and that extractValue and extractTimestamp take from the payloads of
\* the instance what they mean (TLC checks that of its payloads with
\* ArrivesAsMeant).
THEOREM ReadingsArriveAsMeant ==
    Spec => [](AllCounted /\ ExtractsAsMeant => ArrivesAsMeant)
  <1>1. ASSUME DocsInv, AllCounted, ExtractsAsMeant
        PROVE  ArrivesAsMeant
    <2>1. \A k \in DOMAIN docs : GoodDoc(docs[k])
      <3>1. DOMAIN docs = 1..Len(docs)
        BY <1>1 DEF DocsInv, IsSeq
      <3> QED BY <1>1, <3>1 DEF DocsInv
    <2> QED BY <1>1, <2>1, Zenon DEF ArrivesAsMeant, GoodDoc, ShowsAll, OnBroker, OnSink
  <1>2. Inv => (AllCounted /\ ExtractsAsMeant => ArrivesAsMeant)
    BY <1>1 DEF Inv
  <1> QED BY <1>2, InvHolds, PTL
=============================================================================
