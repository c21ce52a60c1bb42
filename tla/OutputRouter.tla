----------------------------- MODULE OutputRouter -----------------------------
(***************************************************************************)
(* The push outputs of the server: OutputRouter.Send starts one goroutine   *)
(* per sink and forgets it, a ThingsBoard HTTP sink posts up to three times,*)
(* a ThingsBoard MQTT sink connects lazily under its mutex and publishes    *)
(* outside it, and Shutdown waits for what is in flight before it closes.   *)
(* What is formatted is in ReadingValues; here a send can be, or cannot.    *)
(***************************************************************************)
EXTENDS Integers, FiniteSets

CONSTANTS
    Http,        \* sinks of type thingsboard-http
    Mqtt,        \* sinks of type thingsboard-mqtt
    MaxSends,    \* bound: calls of Send; they are numbered
    BadSends,    \* calls with readings that Format refuses
    MaxPosts,    \* the posts of one HTTP send, 3 in the code
    MaxClients,  \* bound: MQTT clients a sink ever makes
    MaxLosses    \* bound: MQTT connections lost

ASSUME OutputAssumption ==
    /\ IsFiniteSet(Http) /\ IsFiniteSet(Mqtt) /\ Http \cap Mqtt = {}
    /\ MaxSends \in Nat
    /\ BadSends \subseteq 1..MaxSends
    /\ MaxPosts \in Nat \ {0}
    /\ MaxClients \in Nat \ {0}
    /\ MaxLosses \in Nat

Sink    == Http \cup Mqtt
Send    == 1..MaxSends
Task    == Send \X Sink          \* the goroutine of a call of Send for one sink
Client  == 1..MaxClients
NoTask  == <<0, 0>>

VARIABLES
    sent,       \* calls of Send so far
    wg,         \* the router's WaitGroup
    shut,       \* Shutdown: "no", "waiting", "closing" or "closed"
    pc,         \* where each goroutine is
    posts,      \* posts of each HTTP send so far
    delivered,  \* how often the platform received each send
    holder,     \* the goroutine that holds the mutex of each MQTT sink, or NoTask
    client,     \* s.client of each MQTT sink, 0 for nil
    status,     \* the state paho keeps of each client
    onClient,   \* the client a goroutine published with
    losses,     \* connections lost so far
    begunLate   \* history: goroutines started after Shutdown was over with waiting

mqttVars == <<holder, client, status, onClient, losses>>
vars == <<sent, wg, shut, pc, posts, delivered, mqttVars, begunLate>>

Ended == {"ok", "failed"}

TypeOK ==
    /\ sent \in 0..MaxSends
    /\ wg \in 0..(MaxSends * Cardinality(Sink))
    /\ shut \in {"no", "waiting", "closing", "closed"}
    /\ pc \in [Task -> {"none", "due", "spawned", "post", "lock", "connect", "publish", "wait"} \cup Ended]
    /\ posts \in [Send \X Http -> 0..MaxPosts]
    /\ delivered \in [Task -> 0..MaxPosts]
    /\ holder \in [Mqtt -> (Send \X Mqtt) \cup {NoTask}]
    /\ client \in [Mqtt -> 0..MaxClients]
    /\ status \in [Mqtt \X Client -> {"none", "connecting", "up", "reconnecting", "off"}]
    /\ onClient \in [Send \X Mqtt -> 0..MaxClients]
    /\ losses \in 0..MaxLosses
    /\ begunLate \subseteq Task

Init ==
    /\ sent = 0
    /\ wg = 0
    /\ shut = "no"
    /\ pc = [t \in Task |-> "none"]
    /\ posts = [t \in Send \X Http |-> 0]
    /\ delivered = [t \in Task |-> 0]
    /\ holder = [m \in Mqtt |-> NoTask]
    /\ client = [m \in Mqtt |-> 0]
    /\ status = [k \in Mqtt \X Client |-> "none"]
    /\ onClient = [t \in Send \X Mqtt |-> 0]
    /\ losses = 0
    /\ begunLate = {}

-------------------------------------------------------------------------------
(* OutputRouter                                                            *)

\* Faulty variant of Added: wg.Add is the goroutine's first statement.
Added_InGoroutine(place) == IF place = "goroutine" THEN 1 ELSE 0

\* What is added to the WaitGroup where: one by the loop of Send, before it
\* starts a goroutine, and nothing by the goroutine.
Added(place) == IF place = "loop" THEN 1 ELSE 0

\* Send is called: a goroutine is due for each sink.
CallSend ==
    /\ sent < MaxSends
    /\ sent' = sent + 1
    /\ pc' = [t \in Task |-> IF t[1] = sent' THEN "due" ELSE pc[t]]
    /\ UNCHANGED <<wg, shut, posts, delivered, mqttVars, begunLate>>

\* One turn of the loop of Send: the WaitGroup, then the goroutine.  Shutdown
\* may find the WaitGroup at zero between two turns.
StartTask(t) ==
    /\ pc[t] = "due"
    /\ pc' = [pc EXCEPT ![t] = "spawned"]
    /\ wg' = wg + Added("loop")
    /\ begunLate' = IF shut \in {"closing", "closed"} THEN begunLate \cup {t} ELSE begunLate
    /\ UNCHANGED <<sent, shut, posts, delivered, mqttVars>>

\* A goroutine ends, with or without an error to log: wg.Done.
EndTask(t, result) ==
    /\ pc' = [pc EXCEPT ![t] = result]
    /\ wg' = wg - 1

\* The goroutine runs: the HTTP sink formats its payload, the MQTT sink first
\* wants its mutex.
BeginTask(t) ==
    /\ pc[t] = "spawned"
    /\ \/ /\ t[2] \in Http /\ t[1] \notin BadSends
          /\ pc' = [pc EXCEPT ![t] = "post"]
          /\ wg' = wg + Added("goroutine")
       \/ /\ t[2] \in Http /\ t[1] \in BadSends
          /\ EndTask(t, "failed")
       \/ /\ t[2] \in Mqtt
          /\ pc' = [pc EXCEPT ![t] = "lock"]
          /\ wg' = wg + Added("goroutine")
    /\ UNCHANGED <<sent, shut, posts, delivered, mqttVars, begunLate>>

\* Shutdown is called, as the tests do; the server defers it to the end of runCmd.
CallShutdown ==
    /\ shut = "no"
    /\ shut' = "waiting"
    /\ UNCHANGED <<sent, wg, pc, posts, delivered, mqttVars, begunLate>>

\* wg.Wait returns.
WaitReturns ==
    /\ shut = "waiting"
    /\ wg = 0
    /\ shut' = "closing"
    /\ UNCHANGED <<sent, wg, pc, posts, delivered, mqttVars, begunLate>>

-------------------------------------------------------------------------------
(* The HTTP sink                                                           *)

\* Faulty variant of Accepted: any response will do.
Accepted_AnyResponse(outcome) == outcome \in {"2xx", "other"}

\* The outcomes of a post that Send takes for a success.
Accepted(outcome) == outcome = "2xx"

\* Faulty variant of GivesUp: one post too many.
GivesUp_Late(n) == n > MaxPosts

\* After n posts there is no other.
GivesUp(n) == n = MaxPosts

\* One of the posts: the platform takes it ("2xx"), refuses it ("other"), or
\* there is no response, whether the platform received it ("late") or not.
Post(t, outcome) ==
    /\ pc[t] = "post"
    /\ posts' = [posts EXCEPT ![t] = @ + 1]
    /\ delivered' = IF outcome \in {"2xx", "late"} THEN [delivered EXCEPT ![t] = @ + 1] ELSE delivered
    /\ \/ Accepted(outcome) /\ EndTask(t, "ok")
       \/ ~Accepted(outcome) /\ GivesUp(posts'[t]) /\ EndTask(t, "failed")
       \/ ~Accepted(outcome) /\ ~GivesUp(posts'[t]) /\ UNCHANGED <<pc, wg>>
    /\ UNCHANGED <<sent, shut, mqttVars, begunLate>>

-------------------------------------------------------------------------------
(* The MQTT sink                                                           *)

\* Faulty variant of IsConnected: true only while the connection is open.
IsConnected_Open(m) == client[m] # 0 /\ status[<<m, client[m]>>] = "up"

\* paho's IsConnected: with SetAutoReconnect it stays true while a lost
\* connection is being restored.
IsConnected(m) == client[m] # 0 /\ status[<<m, client[m]>>] \in {"up", "reconnecting"}

\* Send has the mutex and finds a connected client: it unlocks.
FindConnected(t) ==
    /\ pc[t] = "lock"
    /\ holder[t[2]] = NoTask
    /\ IsConnected(t[2])
    /\ pc' = [pc EXCEPT ![t] = "publish"]
    /\ UNCHANGED <<sent, wg, shut, posts, delivered, mqttVars, begunLate>>

\* Send has the mutex and no connected client: connect sets s.client to a new
\* one before that is connected.
StartConnect(t) ==
    LET m == t[2]  k == client[m] + 1 IN
    /\ pc[t] = "lock"
    /\ holder[m] = NoTask
    /\ ~IsConnected(m)
    /\ k <= MaxClients
    /\ holder' = [holder EXCEPT ![m] = t]
    /\ client' = [client EXCEPT ![m] = k]
    /\ status' = [status EXCEPT ![<<m, k>>] = "connecting"]
    /\ pc' = [pc EXCEPT ![t] = "connect"]
    /\ UNCHANGED <<sent, wg, shut, posts, delivered, onClient, losses, begunLate>>

\* connect succeeds, and Send unlocks.
ConnectSucceeds(t) ==
    LET m == t[2] IN
    /\ pc[t] = "connect"
    /\ status' = [status EXCEPT ![<<m, client[m]>>] = "up"]
    /\ holder' = [holder EXCEPT ![m] = NoTask]
    /\ pc' = [pc EXCEPT ![t] = "publish"]
    /\ UNCHANGED <<sent, wg, shut, posts, delivered, client, onClient, losses, begunLate>>

\* Faulty variant of AfterFailedConnect: the mutex stays locked.
AfterFailedConnect_Locked(m) == holder

\* The holder of the mutex after connect failed.
AfterFailedConnect(m) == [holder EXCEPT ![m] = NoTask]

\* connect fails or times out; s.client stays set to the client that failed.
ConnectFails(t) ==
    LET m == t[2] IN
    /\ pc[t] = "connect"
    /\ status' = [status EXCEPT ![<<m, client[m]>>] = "off"]
    /\ holder' = AfterFailedConnect(m)
    /\ EndTask(t, "failed")
    /\ UNCHANGED <<sent, shut, posts, delivered, client, onClient, losses, begunLate>>

\* Without the mutex: Format, then Publish with whatever s.client is by now.
Publish(t) ==
    LET m == t[2]  usable == client[m] # 0 /\ status[<<m, client[m]>>] \in {"up", "reconnecting"} IN
    /\ pc[t] = "publish"
    /\ \/ /\ t[1] \notin BadSends /\ usable
          /\ pc' = [pc EXCEPT ![t] = "wait"]
          /\ onClient' = [onClient EXCEPT ![t] = client[m]]
          /\ UNCHANGED wg
       \/ /\ t[1] \in BadSends \/ ~usable
          /\ EndTask(t, "failed")
          /\ UNCHANGED onClient
    /\ UNCHANGED <<sent, shut, posts, delivered, holder, client, status, losses, begunLate>>

\* The broker acknowledges (QoS 1: Validate turns 0 into 1).
Acknowledge(t) ==
    /\ pc[t] = "wait"
    /\ status[<<t[2], onClient[t]>>] = "up"
    /\ delivered' = [delivered EXCEPT ![t] = @ + 1]
    /\ EndTask(t, "ok")
    /\ UNCHANGED <<sent, shut, posts, mqttVars, begunLate>>

\* A client that is disconnected gives up what it has not had acknowledged.
TokenFails(t) ==
    /\ pc[t] = "wait"
    /\ status[<<t[2], onClient[t]>>] = "off"
    /\ EndTask(t, "failed")
    /\ UNCHANGED <<sent, shut, posts, delivered, mqttVars, begunLate>>

\* A connection is lost; paho reconnects by itself, and keeps what it has to send.
LoseConnection(m, k) ==
    /\ losses < MaxLosses
    /\ status[<<m, k>>] = "up"
    /\ status' = [status EXCEPT ![<<m, k>>] = "reconnecting"]
    /\ losses' = losses + 1
    /\ UNCHANGED <<sent, wg, shut, pc, posts, delivered, holder, client, onClient, begunLate>>

Reconnect(m, k) ==
    /\ status[<<m, k>>] = "reconnecting"
    /\ status' = [status EXCEPT ![<<m, k>>] = "up"]
    /\ UNCHANGED <<sent, wg, shut, pc, posts, delivered, holder, client, onClient, losses, begunLate>>

\* Shutdown closes the sinks: a client that is connected is disconnected; the
\* mutex is not asked for.
CloseSinks ==
    /\ shut = "closing"
    /\ shut' = "closed"
    /\ status' = [k \in Mqtt \X Client |->
                    IF k[2] = client[k[1]] /\ status[k] \in {"up", "reconnecting"} THEN "off" ELSE status[k]]
    /\ UNCHANGED <<sent, wg, pc, posts, delivered, holder, client, onClient, losses, begunLate>>

-------------------------------------------------------------------------------
HttpStep(t) == \E outcome \in {"2xx", "other", "late", "none"} : Post(t, outcome)
LockStep(t) == FindConnected(t) \/ StartConnect(t)
MqttStep(t) == ConnectSucceeds(t) \/ ConnectFails(t) \/ Publish(t) \/ TokenFails(t)

Next ==
    \/ CallSend
    \/ CallShutdown \/ WaitReturns \/ CloseSinks
    \/ \E t \in Task : StartTask(t) \/ BeginTask(t)
    \/ \E t \in Send \X Http : HttpStep(t)
    \/ \E t \in Send \X Mqtt : LockStep(t) \/ MqttStep(t) \/ Acknowledge(t)
    \/ \E m \in Mqtt, k \in Client : LoseConnection(m, k) \/ Reconnect(m, k)

Spec == Init /\ [][Next]_vars

\* Goroutines run, a mutex that is released again and again is got, a post and
\* a connect come to an end (both have timeouts).  No broker has to answer.
FairSpec ==
    /\ Spec
    /\ \A t \in Task : WF_vars(StartTask(t) \/ BeginTask(t))
    /\ \A t \in Send \X Http : WF_vars(HttpStep(t))
    /\ \A t \in Send \X Mqtt : SF_vars(LockStep(t)) /\ WF_vars(MqttStep(t))

-------------------------------------------------------------------------------
(* Properties                                                              *)

\* A Send that found its sink connected, or connected it, publishes with a client
\* that is connected, although it released the mutex before: no other Send
\* replaces the client meanwhile, unless Shutdown has closed it.
PublishesOnLiveClient ==
    \A t \in Send \X Mqtt :
        pc[t] = "publish" /\ shut # "closed"
            => client[t[2]] # 0 /\ status[<<t[2], client[t[2]]>>] \in {"up", "reconnecting"}

\* What a sink does not report as failed was received by its platform; readings
\* that cannot be formatted never get out, whatever is retried.
DeliveredAsReported ==
    \A t \in Task :
        /\ pc[t] = "ok" => delivered[t] > 0
        /\ t[1] \in BadSends => delivered[t] = 0

\* Shutdown closes the sinks only when every goroutine Send had started by then
\* is through with them; one of a call that is still in its loop may come later.
ShutdownWaits ==
    shut \in {"closing", "closed"} =>
        \A t \in Task : pc[t] \notin {"none", "due"} /\ t \notin begunLate => pc[t] \in Ended

\* What a caller of Send may know of a goroutine.
Stage(place) ==
    IF place = "due" THEN "asked" ELSE IF place \in {"none"} \cup Ended THEN place ELSE "running"

\* The outputs keep their contract: the platform takes an HTTP send at most MaxPosts
\* times, and acknowledges an MQTT one once; nothing comes after the goroutine ended,
\* and what ends without an error was taken at that step; the wait of Shutdown is
\* over only when no goroutine runs.
Contract == INSTANCE OutputContract WITH
    Bad      <- {t \in Task : t[1] \in BadSends},
    Limit    <- [t \in Task |-> IF t[2] \in Http THEN MaxPosts ELSE 1],
    stage    <- [t \in Task |-> Stage(pc[t])],
    received <- delivered,
    stopped  <- shut \in {"closing", "closed"}

KeepsContract == Contract!ContractSpec

\* "a single sink failure does not affect others": every goroutine of Send ends,
\* but for one that waits for the acknowledgement of its broker, or for a client
\* beyond the bound; an unreachable broker holds up neither the HTTP sinks nor
\* the mutex.
SendsEnd ==
    \A t \in Task :
        pc[t] = "due" ~>
            \/ pc[t] \in Ended
            \/ pc[t] = "wait"
            \/ t[2] \in Mqtt /\ pc[t] = "lock" /\ client[t[2]] = MaxClients
                 /\ holder[t[2]] = NoTask
===============================================================================
