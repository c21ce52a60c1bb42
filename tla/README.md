# A verification project for LEPG

LEPG connects industrial devices to a cloud server. The gateway process `lepgc`
polls Modbus devices, runs an MQTT broker for other devices, caches every reading
in SQLite and uploads batches over one TCP connection to the server process
`lepgs`, which stores them in PostgreSQL and passes them on to MQTT and to
ThingsBoard. This directory holds TLA+ models of the parts of the two programs
whose correctness depends on order, concurrency or failure, the TLC
configurations that check them, and TLAPS proofs of what they guarantee. The
values themselves, from a configuration file and a register to a document for
ThingsBoard, are modelled as pure operators and carried through the system by one
composed module.

## 1. Inventory

| Component | State | Operations | What makes it correct |
|---|---|---|---|
| Session of the gateway (`internal/client/client.go`: `sessionLoop`, `runSession`, `readLoop`, `uploadReadings`) | connection, `uploadAckCh`, `consecutiveAllTimeout`, message ids | dial, handshake, load and mark a batch, write, wait for an acknowledgement, time out, heartbeat, notify, end | an answer is taken for the right batch; a reading is confirmed only after the server took charge of it; nothing is stuck in `UploadSending` |
| Client cache (`internal/client/cache`) | rows with a status | insert, load pending, update status | statuses move as the session means them to; ids keep the order |
| Client pipeline (`MainFunc`, `consumeAndWrite`) | `ch`, `pubCh`, `localCh`, the write buffer | send, fan out, publish, buffer, flush, shut down | no reading lost, duplicated or overtaken; partial batches are flushed; all goroutines end |
| Modbus runtime and control server (`modbus_runtime.go`, `modbus.go`, `control.go`) | registry, `state`, `writeCh`, `stopCh`, two loops | start, stop, poll, write, command | every write is answered, reported as it happened, and done once; the connection is not used after it is closed |
| MQTT ingest (`mqtt.go`) | broker, subscriptions, device hashes | extract value and timestamp, send to `ch`, notify a disconnect | typed values, the timestamp's unit, bounded `notifyCh` |
| Message codec (`internal/msg`) | message id counter | encode, decode, checksum | decode inverts encode on a stream that may break anywhere; lengths fit their fields |
| Server connections (`internal/server/server.go`) | a handler goroutine per connection | accept, authenticate, register, upload, heartbeat, clean up | only authenticated gateways upload; every upload gets one answer |
| Deduplication cache (`dedupCache`) | LRU list and map | `exists`, `add` | list and map agree, capacity is kept |
| Server store (`internal/server/cache/postgres.go`) | `readings`, `devices` | `SaveReadings`, queries | all or nothing, as the handler assumes |
| Connection managers (`cache/connections`) | a record per serial number, in Redis or in memory | register, heartbeat, remove, list | what is listed is what is connected |
| Output router and sinks (`internal/output`) | wait group, HTTP and MQTT clients | send, retry, connect, shut down, format | a failing sink does not disturb another; what is reported as delivered was; shutdown waits for what is under way; a document shows what the devices meant |
| Server MQTT broker and publisher (`mqtt.go`, `publisher.go`) | an embedded broker | publish an upload | what is published is what was stored |
| Configuration (`internal/config`, both `config.go`) | provider chain | populate, validate | precedence of the sources; nothing invalid is accepted |

How they interact. Producers send readings into channels that end in the SQLite
cache. The session goroutine only knows the cache: it loads rows whose status is
`NotSent` or `Failed`. It talks to one handler goroutine at the server at a time,
but the handler of an earlier connection may still be at work, and all handlers
share the deduplication cache, the store, the connection manager and the output
router. The control server calls into the Modbus runtimes through a registry.

What is hard here: acknowledgements are paired with uploads by position in a
channel, not by message id; the deduplication key is added before the row is
stored; a gateway redials long before its old handler notices; the gateway may
stop between marking a batch and hearing about it; sends to bounded channels do
not look at the context; calls wait for goroutines that may have left; an
acknowledgement nobody takes blocks the read loop of its connection; sends to the
outputs run on while they are shut down; a value goes through text several times
and may be out of the range of the next conversion. The list
with source lines is under `hazards` in `PROJECT.json`.

## 2. Modules

| Module | Models | Extends / instances |
|---|---|---|
| `DedupCache` | `dedupCache`: operators on an LRU sequence | |
| `UploadContract` | abstract: what the tunnel promises the gateway | |
| `UploadTunnel` | gateway session + wire + handlers + store: what becomes of readings | extends `DedupCache`; refines `UploadContract` |
| `UploadTunnelMC` | fault budgets for TLC | extends `UploadTunnel` |
| `GatewaySession` | the same session: what becomes of sessions, heartbeats, notifications, read loops | |
| `ConnRegistry` | handlers of several connections, both connection managers | |
| `ModbusRuntime`, `ModbusRuntimeMC` | one device: life, poll loop, write loop, command handlers | |
| `ClientPipeline` | producers, channels, fan-out, `consumeAndWrite`, shutdown | |
| `OutputContract` | abstract: what the outputs promise the caller of `Send` | |
| `OutputRouter` | `OutputRouter.Send` and `Shutdown`, an HTTP sink, an MQTT sink | refines `OutputContract` |
| `WireCodec` | frames and payloads: pure operators | |
| `ReadingValues` | conversions of values and timestamps: pure operators | extends `WireCodec` |
| `GatewayConfig` | provider chain, fields, guards, validation: pure operators | |
| `DataPath`, `DataPathMC` | configuration, devices, connection and documents of one run | extends `GatewayConfig`, `ReadingValues` |
| `UploadTunnelProofs`, `ConnRegistryProofs`, `ModbusRuntimeProofs`, `ClientPipelineProofs`, `GatewaySessionProofs`, `OutputRouterProofs`, `WireCodecProofs`, `DataPathProofs` | theorems | each extends the module it is about; `DataPathProofs` also extends `WireCodecProofs` |

### UploadTunnel

`status` is the status column of SQLite; ids are the numbers 1.. in the order of
insertion. `pc`, `batch`, `tmo` are the session goroutine's place, its `batchIDs`
and `consecutiveAllTimeout`; `msgID` counts the uploads of the session. `ackCh` is
`uploadAckCh`; `DeliverAck` is `readLoop` with `dispatch`, which waits while that
channel is full. Each session has a connection of its own, numbered by `sess`:
`wire` and `ackWire` are what travels on it, `link` whether it works. When a
connection breaks, each direction still delivers some prefix of what was written.

A handler goes through `handleUpload` in the steps the shared state can be seen
between: `ReceiveUpload` (with `exists`), `AddKey` (`add`), `SaveReadings` or
`SaveFails`, `SendAck`, `PushReadings`. A batch is its own deduplication key: the key of
the code is the serial number and the SHA-256 of the payload, so that equal
batches of the one gateway modelled have equal keys. `SaveFails` covers an insert
that fails, an unreadable payload, and a device upsert that fails after the
insert, which is not in one transaction with it.

Not every batch can be sent. `Unbuildable` are the readings `NewMsg` refuses to encode:
a batch with one of them is marked `Failed` and ends the session (`BuildFails`), and the next
session loads it again. `Wrapping` are the batches whose payload is too long for
`PayloadLen`: the server cannot read their frame and closes the connection
(`RefuseFrame`), and they too are loaded again. Since the oldest readings are loaded first,
such a batch blocks all that come after it (`Blocked`).

Faults are counted in `budget`, one bound for every kind. A timeout that gives up
on an answer that would still have come is a fault (`slow`); one for an answer
that can no longer come is not. `late` is a history variable: the premature
timeouts of this session.

Left out: heartbeats that are answered and notifications (they touch nothing
here; `GatewaySession` has them), a failing load (the loop continues, as with
nothing to load), the split of oversized payloads (its condition is never true:
`PayloadLen` has 16 bits, see `DataPath`). Which readings cannot be encoded and which
batches wrap is a constant: `DataPath` has the bytes.

### GatewaySession

`pc` is the place of `sessionLoop` with `dialWithRetry`, `performHandshake` and the loop of
`runSession`; `"shake"`, `"upload"` and `"beat"` are its waits for an answer. Connections are
numbered; each has its own `readLoop` (`reader`, `hand`) and `uploadAckCh` (`ackCh`), for a
read loop may outlive its session. `route` and `beatCh` are the heartbeat's channel in
`msgRouter`: `dispatch` knows only that some heartbeat waits, not which. The server is what it
is to the gateway, an answer for every request, in order, at some time (`line`). A connection
that breaks loses what was under way; one that is up delivers no more once it is closed.
`notifyCh` takes the events of `OnDisconnect` (`DeviceOffline`); `written`, `dropped` and
`lost` are the histories of what became of each. The session is left on a write error, an
upload that cannot be built or marked (`UploadFails`), a missed heartbeat, too many timeouts, a
read loop that ended, or a cancelled context, each an action of its own that ends in
`SessionEnds`, the deferred calls of `runSession`. Every write to a broken connection fails or
goes into the void: TCP may accept a few bytes more.

### ConnRegistry

`phase` is where `HandleConnection` is for each connection; `store` is what either
manager holds for each serial number. An entry is complete or *partial*: a hash
with only `last_heartbeat`, which `UpdateHeartbeat` creates when there is none, for
it sends `HSET` whatever `EXISTS` says. `RemoveConnection` removes by serial number.
`using` is the connection a gateway uses; it may dial again once it has given the
old one up, and the old handler ends when its read fails. `overlapped` and `upset`
are history variables that name the gateways about which the registry may be wrong.

### ModbusRuntime

`life` is the goroutine of `ModbusDevicePolling`, `poll` and `writer` are the two
loops, `call` the handlers of `POST /command`. `Write` is three steps: the check of
the state (`CheckWrite`, with the checks `handleModbusCommand` makes before it),
the send (`EnqueueWrite`) and the wait (`TakeReply`). A device that is not in the
registry is taken for an MQTT device: `PublishCommand`, which may fail too
(`notPublished`). Requests to a device are serialised by the client library and are one step
each with an arbitrary outcome. A write that is answered was carried out; one that fails may
have been carried out all the same, with its answer lost or late (`ExecuteWrite`).
`fanout` is the receiver of the readings: it may stop receiving after the context is
cancelled, as `ClientPipeline` shows.

### ClientPipeline

One variable per channel and per goroutine of `MainFunc`. `Flush` is the closure of
`consumeAndWrite`: with a cancelled context `SaveReadings` fails. `Path` is the way from a
channel to the cache; once `consumeAndWrite` has returned, what it left in its buffer and in
`localCh` is not on the way to anything any more. `TakeReading` is a
poll or a publication of an MQTT client that came to a value; poll loops may take
more readings after the context is cancelled, for their `select` may prefer the
ticker. External behaviour assumed: the broker's `Close` waits for the handlers of
its clients, and a publication need not complete once the broker is closed. Early
returns of `MainFunc` at startup and the session goroutine are not in the model.

### OutputRouter

A *task* is the goroutine of one call of `Send` for one sink. `Send` adds to the wait
group and starts the goroutine in one turn of its loop (`StartTask`), so that
`WaitReturns` may come between two turns. An HTTP task posts up to three times; a
response may be lost after the platform took the payload (`"late"`), and each
repeated post delivers again. An MQTT task takes the mutex (`holder`), connects if
`IsConnected` says no, and publishes without the mutex with whatever `s.client` is by
then. `status` is what the paho library keeps of each client, with `SetAutoReconnect`
a lost connection is `"reconnecting"`, and counts as connected. `CloseSinks` does not
take the mutex, as `Close` does not. What is formatted is in `ReadingValues`; here a
call is in `BadSends` if its readings cannot be.

`OutputContract` says what a caller may count on, without wait group, mutex and clients:
a task is asked for, started, received by its platform (an HTTP one at most `MaxPosts` times,
an MQTT one acknowledged once), and succeeds only at such a step or fails at any; the wait of
`Shutdown` ends when no task runs, though one that was only asked for may still start. It
leaves open who is tried how often, and in which order. `Contract` maps `pc` to the stage of
a task (`Stage`), and `shut` to whether the wait is over; `KeepsContract` is the
refinement.

### WireCodec, ReadingValues, GatewayConfig

Pure operators, no state. `WireCodec` describes each payload by its layout and has one writer
and one reader of fields for what the code spells out per type; a byte is a digit in base
`Base`. The loops of the decoders are recursive functions of how far they have come:
`FieldEnds` and `ReadingEnds` say where each field and each reading of a payload ends, and a
payload is refused as soon as one ends behind the data. The checksum is idealised: it tells the
sequences of the instances apart. `ReadingValues` has the conversions a value passes: registers
to numbers and back (`ParsePointValue`, `WriteBytes`), MQTT payloads (`ExtractValue`,
`CheckDataType`, `ExtractTimestamp`), the text on the wire (`SerializeValue`), the document for
the broker and the one for ThingsBoard. A float64 is a floating-point number of smaller width,
counted in parts of `1/One`: a table (`Ulp64`) gives the distance of neighbours at each
magnitude, every operation rounds to the nearest of them and to the even one of two, and what
is greater than `Largest` is infinite; `Ulp32` is the table of float32. So a scale may be a
fraction, a product and a quotient are rounded as in the code, and the conversion to an integer
cuts off what is left. Not in the model: the sign of zero and of infinity, subnormal numbers,
and the fused multiply-add a Go compiler may use on some processors. Texts are sequences in
which the decimal text of a number is one character (a digit code for each number, apart from
the codes of dates and words). `GatewayConfig` has the chain of providers, the population of a
field from the sources its tag allows, the guards, and the validation of devices, points,
topics and outputs.

### DataPath

The three composed. The program is configured (`LoadClientSettings`, `LoadDevices`;
`LoadServerSettings` for the server), polls, writes and receives MQTT payloads
(`PollOnce`, `ExecuteWrite`, `HandleMqttReading`), then writes messages to one
connection that may break after any of a set of positions (`Cut`); the server
decodes what comes in and makes documents of uploads (`ReadFrame`). Each cached
reading carries, as a history, what its device meant, so that the properties relate
the two ends. A device that follows its data sheet (`Registers`, `Response`,
`HeldAfter`) is external; it holds what the registers of the point's data type can say
(`InRegisters`). `Grouped` is the loop of `groupReadingsPrealloc`: it appends each reading to
the group of its device. Retries and acknowledgements are not here but in
`UploadTunnel`.

## 3. Runs

| Run | Question | Result |
|---|---|---|
| `server_faults` | Are answers paired with the right uploads, is only what is stored published, and is every cached reading uploaded in the end, under server faults? | holds |
| `reliable` | Does the tunnel implement `UploadContract` if the server saves and answers in time? | holds |
| `registry_agrees` | When is the registry right about a gateway? | holds |
| `modbus_writes` | Are writes answered, are those reported as done the device's, also when responses get lost, and is the shutdown orderly? | holds |
| `pipeline_flow` | Does every reading reach the cache once and in order while the gateway runs, which are lost when it stops, and what can hang? | holds |
| `session` | What becomes of notifications, heartbeats, read loops and broken connections? | holds |
| `outputs` | Are sends through the sinks carried out as reported, apart from each other, and waited for, and do the outputs implement `OutputContract`? | holds |
| `data_path` | Is what is configured, read, written, sent and pushed what was meant, up to rounding? | holds |
| `save_fails` | Is a reading that is marked as uploaded stored? | violated |
| `stranded` | Does a restarted gateway upload what it had cached? | violated |
| `oversized` | Does the server accept every frame the gateway writes? | violated |
| `stop_loses` | Is every reading in the cache when the gateway has stopped? | violated |

Each violated run is a finding in `PROJECT.json`, with the line of the code and
the line of the documentation or comment it disagrees with.

What the properties of the passing runs say where the code falls short of the obvious:
`NoStaleAck` and `AckAccounting` count the early timeouts, for acknowledgements are paired by
position; `AloneIsListed` is about gateways whose connections never overlapped;
`WriteIsAnswered` excepts writes of a gateway that was told to stop; `StopsOrKnownHang` names
the two ways in which the process hangs; `ReadersEnd` excepts a session that gave up on as many
acknowledgements as `uploadAckCh` holds; `SessionStops` excepts the wait for an answer to a
handshake, which has no deadline; `ShutdownWaits` excepts goroutines of a `Send` that was still
in its loop; `SendsEnd` excepts the wait for a broker's acknowledgement, which has no timeout;
`EveryReadingSent` excepts what a batch blocks that cannot be built or whose length wraps, for
the session loads it again and again; `LostOnlyOnStop` gives up what `consumeAndWrite` holds
when the gateway stops, the newest readings of each producer; `ReportedAsWritten` promises of a
write reported as failed only that it happens at most once and in its turn, and of one that was
never sent that it does not happen; `ReadsTheDevice` is about points whose quantity fits their
data type, for polls about integers of two registers in order `abcd` (`parsePointValue` ignores
`byte_order` for them, `executeWrite` does not), and for writes about a scale that is not 0 and
values within the range of the register (`InReach`): of those it says that an integer register
holds less than one step above or below what was asked for, not that it holds the nearest;
`ArrivesAsMeant` leaves out batches with a number that is not finite, for which no document is
made at all, has ThingsBoard shown the values of integer points without their fraction, and a
JSON value that is not a string arrive empty.

Bounds, and why they are enough. The tunnel's cases need two readings (so that a batch can be
regrouped with a new reading) and a third that cannot be encoded, with, in `server_faults`,
batches that wrap as soon as the first two readings are in them; two or three sessions (an old
handler beside a new one, and a session after that), a window of one or two (so that the read
loop blocks) and one fault of each kind. `UploadWindowSize` and `MaxAllTimeout` are those of
the code (3 and 3) where the state space allows it, and smaller otherwise, which brings the
limits within reach of the faults. The deduplication cache has two places, so that it could
hold a key twice and evict one that is still to be sent again. The registry needs three
connections of one gateway at most, one failing call, one restart. The device has a register
that is read and written and a coil that is only written; two callers, one place in `writeCh`.
The pipeline needs one place in each channel and three readings for all of them to be full at
once. A session needs a successor (two connections), an `uploadAckCh` of one place and two
uploads, so that a second late acknowledgement finds it full, two heartbeats, so that one could
be taken for the other, and two events for one place in `notifyCh`. The outputs need one sink
of each type, two sends, so that one can replace the client of the other, two clients and one
lost connection; the number of posts is the code's. In `data_path` a byte has 10 values instead
of 256, which brings the bounds of integers, of the 16-bit length and of the sign within reach
of a few readings; a second has 10 milliseconds and timestamps above 20 are milliseconds,
instead of 1000 and 1e12, which leaves numbers on both sides. A float64 has 14 bits, and 1/16
is the smallest fraction: a scale of 3/16 times a raw number above 5461 is rounded, as 0.1
times 43 is in a float64, and 16388 parts divided by it fall below an integer. Two readings and
three messages are enough for a batch of two, and for a frame that follows a frame; the
connection breaks after 20 bytes, which is inside the first or the second frame, or one byte
short of all that was written.

Deadlock is checked in the tunnel and in the registry. `ModbusRuntime`, `ClientPipeline`,
`GatewaySession` and `OutputRouter` describe processes that end, or hang at their end, and
`DataPath` one pass over the data.

Fairness. A goroutine that can run is run: weak fairness for the session, the read
loop, every handler, every loop, every task. A `select` with several ready cases picks one at
random, so that a loop that may leave at every pass does leave: strong fairness for
`PollExit`, `WriterExit`, `PollReturns`, `WriterReturns`, `LoopStops`, and for
`WriteHeartbeatInVain`, since a tick stays in its ticker's channel. A
mutex that is released again and again is got in the end (`LockStep`): Go's mutexes do not
starve a waiter. Dials, posts, connects and the waits for acknowledgements and heartbeats
have timeouts in the code and come to an end. Nothing is assumed of faults,
of new readings, of commands, of the end of a publication once its broker is gone,
of a platform or broker that answers, nor of a gateway sending its handshake. That the read
of a handler whose gateway is gone fails is the read deadline of 90 s.

### Where code and documents disagree

Beside the four violated runs, modelling the code showed the following. The models have
the behaviour of the code in each case.

* `uploadReadings` takes the first acknowledgement in `uploadAckCh` for the answer to its
  batch and never compares `MsgID`; `docs/reports/handshake-heartbeat-analysis.md:80` says
  the echoed id is for pairing.
* The cleanup of an old connection removes the registration of a newer one
  (`server.go:256`); `docs/reports/device-state-analysis.md:91` says the registry answers
  which gateways are online.
* `ModbusRuntime.Write` may wait for ever if the write loop left before it took the
  command; its comment (`modbus_runtime.go:81`) says it blocks until the write completes.
* With a full `localCh` the fan-out, the producers and `MainFunc` hang after the context is
  cancelled; `docs/reports/handshake-heartbeat-analysis.md:276` says all goroutines leave on
  `ctx.Done()`.
* A read loop that holds an acknowledgement nobody takes never ends;
  `docs/reports/handshake-heartbeat-analysis.md:227` says none is leaked.
* `executeWrite` only writes points of function codes 1 and 3; the validation accepts
  writable points of 5, 6 and 16, and `docs/config/modbus-config.md:161` documents them.
* `executeWrite` cuts the fraction off a rounded quotient instead of rounding it: with scale 0.1
  a register that holds 43 is read as 4.3, and writing 4.3 writes 42;
  `docs/config/modbus-config.md:440` has one formula for both directions.
* An omitted `scale` is 0: a write divides by it, and writing 0 to a coil gives NaN, which is not
  0 and switches it on; the comment at `config.go:209` says the default is 1.0.
* `parseReadingValue` cuts the fraction off a scaled value whose data type is an integer:
  a register of 253 with scale 0.1 is published to ThingsBoard as 25;
  `docs/config/modbus-config.md:353` has 25.3.
* A batch that cannot be encoded, or whose payload is too long, is loaded again and again, and
  nothing after it is uploaded; `README.md:11` says that transmission resumes.
* An omitted `access` passes the check of `Write`, so that the point is writable; the
  documented default is `ro`.
* `poll_interval` is optional in `docs/config/client-config.md:76` and not validated;
  `time.NewTicker` panics when it is 0.
* `parsePointValue` is said to return nil if the response is too short (`modbus.go:47`);
  for all types but `float32` it panics, and the quantity is not validated against the type.
* A Notify message is logged by the server as unexpected and has no other effect.
* `os.Exit(1)` after a failed `ReceiveLoop` (`cmd/server/main.go:137`) skips the deferred
  `Shutdown` of the output router.

## 4. Proofs

Every theorem is about `Spec` without fairness, for all values of the constants, and rests
on nothing but the named assumption of its module (`TunnelAssumption`, `RegistryAssumption`
and so on: bounds and budgets are natural numbers, capacities positive, sets of callers,
sinks and connections of the kind the code has; where a theorem needs more, its statement
says so). Each `TypeCorrect` proves the module's `TypeOK`, which holds the capacities of
the channels. The other invariants are seldom inductive; what they need is this.

**`UploadTunnelProofs`.** `ExistsKeepsKeys` and `AddBounds` are about the list of the
deduplication cache: a lookup keeps the keys; adding one remembers it, keeps the list free
of duplicates and within its capacity, and forgets at most the last key of a full list.
`DedupAgrees` (`DedupWellFormed`) follows from them.

* `AnswersAccounted` (`AckAccounting`). Alone it is not inductive: it says nothing of
  connections not yet opened or of a session that is down. `AccountingInv` adds that a
  connection without a session is fresh (nothing on its wire, its handler off) and that
  between sessions the session's state is empty.
* `AnswersMatch` (`NoStaleAck`) needs `Paired`: as long as no timeout was premature,
  whatever is under way in either direction, or with the current handler, belongs to the
  upload in hand. `PairingInv` joins it to `AccountingInv`, which bounds how many answers
  there are.
* `SentStays` (`SentIsFinal`, an action property) and `SendingHasOwner`
  (`SendingIsOwned`), from `OwnershipInv`: the batch in hand is `Sending`, budgets only
  fall, and every `Sending` reading is in that batch unless a stop or a failed update took
  it away.

The second part of the module is about what the server makes of the batches:

* `PublishedIsStored` (`PushedOnlyStored`). A count of publications says nothing while a
  handler that has saved is still to publish: `PublicationInv` counts for each reading the
  publications and the handlers that owe one (`Owing`), and bounds them by its rows.
* `UploadedIsInCharge` (`SentIsInCharge`) from `ContractInv`: every key of the
  deduplication cache, every positive answer and every `Sent` reading stands for readings
  that are stored or about to be (`AnsweredFor`). That an answer confirms the right
  batch is `PairingInv`, without which it is not inductive: acknowledgements carry no
  check of the message id. It holds where nothing is lost at the server (`Reliable`); the run
  `save_fails` shows what happens otherwise.
* `TunnelImplementsContract`: with `Reliable`, `Spec => ImplementsContract`. Each action of
  the tunnel is one of `UploadContract` or a stutter, under the same invariant.

**`ConnRegistryProofs`.**

* `ListingIsAuthenticated` (`ListedWasAuthenticated`) is about the manager that answers; a
  restart changes which one does, so `StoredWasAuthenticated` says it of both.
* `LastCleanupUnlists` (`NoGhost`) is inductive with the types.
* `AloneGatewayIsListed` (`AloneIsListed`) from `AloneInv`, which adds that such a gateway
  has one handler at most.

**`ModbusRuntimeProofs`.**

* `ClosedStaysQuiet` (`ClosedIsQuiet`) with `LoopsAreStarted`: both loops are off before
  `Start`.
* `ReportsMatchTheDevice` (`ReportedAsWritten`) with `OnePlace`: a write is in the
  channel, in the hands of the write loop, or answered, in one of them only, and its caller
  waits for it. Without it an answer could be counted twice, or for a later write. The theorem
  is that what was answered with success was done, that nothing was done that never reached the
  device, and that nothing was done twice or out of turn; a write whose response got lost
  is between the two.

**`ClientPipelineProofs`.** `ReadingsKeepOrder` (`InOrderOnce`) and `ReadingsAreLostOnlyOnStop`
(`LostOnlyOnStop`) from `FlowInv`, which adds `HandIsNewest`: what a producer has in hand is
newer than all it has on the way. `WayMoves` reduces all actions to two: the one sequence
`Way` that runs from the channels to the cache stays as it is, or a producer appends the
reading in its hand. `Way` is `Path` while `consumeAndWrite` runs; when it has returned, `Path`
is only what is saved, the beginning of `Way`, so that none is missing between two of
one producer. That it returns with readings in hand only after a cancelled context is `StopInv`.

**`GatewaySessionProofs`.**

* `EveryNotificationCounts` (`NotifyAccounted`) is inductive with the types, in terms of the
  way a notification goes (`NotifyPath`).
* `BeatsAnswerThemselves` (`BeatAnswersItself`) from `BeatsPairUp` and `FutureIsSilent`: a
  session without a heartbeat under way has no answer to one on its connection, because a
  missed heartbeat ends the session with its connection.

**`OutputRouterProofs`.**

* `TypeCorrect` includes that the counter of the `WaitGroup` never falls below zero, which
  is a panic in Go: it is the number of running goroutines (`WaitGroupCounts`).
* `ReportsAreTrue` (`DeliveredAsReported`) with `PostsCount`, `AckEnds` and `BadStaysIn`; TLC
  checks it as a part of the contract below.
* `ClientStaysLive` (`PublishesOnLiveClient`) with `ConnectsUnderLock`: a task that connects
  holds the mutex, and waits for the client the sink has now. A publication has no mutex; its
  client stays live because only a client that is being connected can still fail, and one is
  replaced only when it is not connected: in neither case does anybody publish on it.
* `ShutdownIsOrderly` (`ShutdownWaits`) is inductive with the types.
* `OutputsImplementContract`: `Spec => KeepsContract`, step by step under the invariant
  of `ReportsAreTrue`: a post that arrives is one of those left (`PostsCount`), a publication
  had not been acknowledged before (`AckEnds`), neither was of readings that cannot be
  formatted (`BadStaysIn`), and `wg.Wait` returns with no running goroutine
  (`WaitGroupCounts`).

**`DataPathProofs`.**

* `SettingsAreMeant` (`AcceptedIsMeant`): whatever the sources say, a loaded setting is what
  the allowed source says that is asked first. `WordsAssumption` is that what a source says
  is nothing, an integer or another text.
* `ValueSurvivesText`: truth values and finite numbers that pass `checkDataType` come out of
  both documents as they went in.
* `Inv` is inductive, a conjunction of four:
  * `DeviceInv` for `DeviceIsRead` (`ReadsTheDevice`): the point in use has been validated, its
    device holds what its registers can say, the entries of the cache are what was read of it,
    and it follows the last write (`Follows`). Some lemmas under it are about the bytes of
    numbers: an integer in two's complement and a float come back from their registers in every
    byte order (`IntegerComesBack`, `FloatRoundTrip`, `OrderTwice`). The others are about
    floating-point arithmetic: a quotient within the range of an integer is rounded to a number
    that, cut off, is still in that range and less than one away from the exact quotient
    (`CutOff`, from which `IntegerFollows`); a quotient of 1 or more is not rounded to zero
    (`StaysAbove`); an exact float32 survives (`SingleStays`).
  * `StreamInv` for `StreamFaithfulUpToOversized` and `CountedStreamIsFaithful`
    (`StreamIsFaithful`): what is on the wire is a piece of the concatenation of all frames
    written, and it begins at the end of the last frame that was read (`Behind`). With
    `FramesComeBack` the next frame is then decoded as it was written, or is not yet there. A
    frame whose payload `PayloadLen` cannot count breaks this alignment; up to the first such
    frame everything is as sent, and only there a frame can be refused.
  * `PathInv`: every entry of the cache is a reading of the types of `model.Reading` whose text
    is the serialised form of a value of its data type (`Good`); an upload that was sent consists
    of such entries.
  * `DocsInv` for `ReadingsArriveAsMeant` (`ArrivesAsMeant`): what was published of an upload
    shows each of its entries. It needs the other three: the frame read has to be the one that
    was sent (`StreamInv`), its readings well formed and their texts those of their values
    (`PathInv`), which for a polled value is so because its point was validated (`DeviceInv`).
    `GroupsAre` is about
    the loop of `Grouped`: every reading is in the group of its device, once and in order.

  What is assumed of the constants: points have the types of `ModbusPointConfig`, a quantity of
  at most 2 (the external device has two registers), scale and offset any integer number of
  parts of `1/One`; every integer of four bytes and every float32 is a float64, whose
  neighbours are never farther apart than its magnitude (`FloatAssumption`), as in IEEE 754;
  names are not empty and the two devices' differ; what is taken from a payload is a value of
  Go (a number a float64), and its instant is not negative and fits in 8 bytes. Two hypotheses
  are in the statements: that the payloads can be counted, which the code does not ensure (run
  `oversized`), and, for `ReadingsArriveAsMeant`, that `extractValue` and `extractTimestamp`
  take from a payload what it means (`ExtractsAsMeant`): what a payload means is part of the
  instance, so that for its own payloads the run `data_path` shows that with `ArrivesAsMeant`
  itself.

**`WireCodecProofs`.** `FramesComeBack`: what `NewMsg` and `Encode` write, `DecodeFrame` and
`ParseMsg` read back, whatever follows on the connection, and of less than a frame they make
nothing; for every base, message type and payload that its fields can say and `PayloadLen` can
count. Numbers of several bytes, fields and readings are loops, and what a loop computes is an
induction. The induction theorems of the library cannot be instantiated, so it is done over sets
of natural numbers (`SetInduction`, from the least element of a set), and a loop is the only
function that satisfies its equation (`Recursion`, `Unique`). On these rest `PowerIs`,
`BigEndianIs`, `NumberRoundTrip`, and the lemmas about the ends of fields and readings.

Only model-checked: the liveness properties (`EveryReadingSent`, `EventuallyUnlisted`,
`WriteIsAnswered`, `StopCompletes`, `SavedUnlessStopped`, `StopsOrKnownHang`, `ReadersEnd`,
`BrokenIsLeft`, `SessionStops`, `SendsEnd`), for fairness and `ENABLED` are beyond the prover.
Every invariant and action property of the passing runs is proved.

## 5. Plan

The components named in section 1 are modelled, and the invariants and action properties of
the runs about them are proved; liveness is left to TLC. What could come next: action
properties of the sessions and of the registry, such as that a connection that was closed is
never used again.

### Not modelled

Logging and the error types (no state a property could be about); the simulators, the load
generator and the scripts (tools for tests and measurements); the length of the waits
between dials (a model without clocks takes any wait; the width of the shift in
`dialWithRetry` would only restate its expression); the early returns of `MainFunc` and
`runCmd` at startup; the queries and migrations of the stores; the commands that write a
configuration template or list devices; the SQL, Modbus and MQTT libraries beyond what
their callers rely on.
