----------------------------- MODULE UploadTunnel -----------------------------
(***************************************************************************)
(* The upload path between one gateway (lepgc) and the server (lepgs):      *)
(* the status column of the SQLite cache, the session goroutine that loads, *)
(* marks, writes and waits for an acknowledgement, the read loop with its   *)
(* bounded channel of acknowledgements, one TCP connection per session, one *)
(* handler goroutine per connection on the server, the deduplication cache  *)
(* all handlers share, and the PostgreSQL store.                            *)
(*                                                                          *)
(* A connection of an earlier session may still have a handler at work on   *)
(* the server while the client already talks over the next one.             *)
(***************************************************************************)
EXTENDS DedupCache, FiniteSets

CONSTANTS
    MaxReadings,       \* bound: readings ever cached; their ids are 1..MaxReadings
    UploadBatchSize,   \* cfg.UploadBatchSize
    UploadWindowSize,  \* uploadWindowSize, the capacity of uploadAckCh
    MaxAllTimeout,     \* maxConsecutiveAllTimeout
    DedupCacheSize,    \* dedupCacheSize
    Unbuildable,       \* readings with a field that NewMsg refuses to encode, a
                       \* string of more than 65535 bytes
    Wrapping,          \* batches whose payload has 65536 bytes or more: the length
                       \* in the header wraps, and uploadReadings does not split
    MaxSessions,       \* bound: sessions ever opened; also connection numbers
    Budget             \* bound: how often each kind of fault may strike

FaultKinds ==
    { "slow",     \* an answer is on its way but comes after uploadAckTimeout
      "ackLoss",  \* sendAck gives up (checksum 0, write error) on a live link
      "save",     \* PostgresStore.SaveReadings fails
      "drop",     \* the network, or the server, breaks the current connection
      "beat",     \* a heartbeat gets no answer in 5s
      "reboot",   \* the server process dies and restarts
      "stop",     \* the client process stops (ctx or crash) and restarts
      "status" }  \* an UpdateReadingsStatus fails

ASSUME TunnelAssumption ==
    /\ MaxReadings \in Nat
    /\ UploadBatchSize \in Nat \ {0}
    /\ UploadWindowSize \in Nat \ {0}
    /\ MaxAllTimeout \in Nat \ {0}
    /\ DedupCacheSize \in Nat \ {0}
    /\ Unbuildable \subseteq 1..MaxReadings
    /\ Wrapping \subseteq SUBSET (1..MaxReadings)
    /\ \A S \in Wrapping : \A T \in SUBSET (1..MaxReadings) : S \subseteq T => T \in Wrapping
    /\ MaxSessions \in Nat
    /\ Budget \in [FaultKinds -> Nat]

Reading == 1..MaxReadings
Conn    == 1..MaxSessions

Status  == {"None", "NotSent", "Sending", "Sent", "Failed"}
Upload  == [id : Nat, batch : SUBSET Reading]
Ack     == [req : Upload, code : {"Ok", "Failed"}]
Handler == [pc      : {"off", "ready", "checked", "added", "acking", "push"},
            req     : Upload,
            outcome : {"none", "saved", "duplicate", "failed"}]

NoUpload     == [id |-> 0, batch |-> {}]
OffHandler   == [pc |-> "off",   req |-> NoUpload, outcome |-> "none"]
ReadyHandler == [pc |-> "ready", req |-> NoUpload, outcome |-> "none"]

VARIABLES
    status,    \* SQLite: the status of every reading ("None": not cached yet)
    pc,        \* where the session goroutine is
    sess,      \* the number of the current (or last) session and its connection
    batch,     \* batchIDs of the upload in hand
    msgID,     \* uploads written in this session: stands for the message id
    tmo,       \* consecutiveAllTimeout
    late,      \* history: timeouts of this session that gave up on an answer
               \* that was still to come
    ackCh,     \* uploadAckCh
    link,      \* the state of each connection
    wire,      \* uploads travelling to the server on each connection
    ackWire,   \* acknowledgements travelling to the client
    handler,   \* the server's goroutine for each connection
    dedup,     \* uploadDedup
    stored,    \* PostgreSQL: rows stored for each reading
    pushed,    \* publications of each reading to the outputs
    budget     \* faults that may still happen

sessionVars == <<pc, sess, batch, msgID, tmo, late, ackCh>>
netVars     == <<link, wire, ackWire>>
serverVars  == <<handler, dedup, stored, pushed>>
vars        == <<status, sessionVars, netVars, serverVars, budget>>

SessionTypeOK ==
    /\ pc \in {"down", "idle", "marked", "await"}
    /\ sess \in 0..MaxSessions
    /\ pc # "down" => sess \in Conn
    /\ batch \in SUBSET Reading
    /\ msgID \in Nat
    /\ tmo \in Nat
    /\ late \in Nat
    /\ ackCh \in Seq(Ack)

NetTypeOK ==
    /\ link \in [Conn -> {"none", "up", "down"}]
    /\ wire \in [Conn -> Seq(Upload)]
    /\ ackWire \in [Conn -> Seq(Ack)]

ServerTypeOK ==
    /\ handler \in [Conn -> Handler]
    /\ dedup \in Seq(SUBSET Reading)
    /\ Len(dedup) <= DedupCacheSize
    /\ stored \in [Reading -> Nat]
    /\ pushed \in [Reading -> Nat]

TypeOK ==
    /\ status \in [Reading -> Status]
    /\ budget \in [FaultKinds -> Nat]
    /\ SessionTypeOK
    /\ NetTypeOK
    /\ ServerTypeOK

Init ==
    /\ status = [r \in Reading |-> "None"]
    /\ pc = "down"
    /\ sess = 0
    /\ batch = {}
    /\ msgID = 0
    /\ tmo = 0
    /\ late = 0
    /\ ackCh = <<>>
    /\ link = [c \in Conn |-> "none"]
    /\ wire = [c \in Conn |-> <<>>]
    /\ ackWire = [c \in Conn |-> <<>>]
    /\ handler = [c \in Conn |-> OffHandler]
    /\ dedup = <<>>
    /\ stored = [r \in Reading |-> 0]
    /\ pushed = [r \in Reading |-> 0]
    /\ budget = Budget

-------------------------------------------------------------------------------
(* Helpers                                                                 *)

\* The budget after one more fault of kind k; guard and new value apart.
CanSpend(k) == budget[k] > 0
Spent(k)    == [budget EXCEPT ![k] = @ - 1]

\* What a broken TCP connection still delivers of what was written to it.
Prefixes(s) == {SubSeq(s, 1, k) : k \in 0..Len(s)}

\* Faulty variants of Pending: one that loads whatever is not being sent, one
\* that forgets the failed readings.
Pending_NotSending == {r \in Reading : status[r] \notin {"None", "Sending"}}
Pending_NotSentOnly == {r \in Reading : status[r] = "NotSent"}

\* LoadPendingReadings: status NotSent or Failed, the lowest ids first.
Pending == {r \in Reading : status[r] \in {"NotSent", "Failed"}}

NextBatch ==
    {r \in Pending : Cardinality({q \in Pending : q < r}) < UploadBatchSize}

\* UpdateReadingsStatus where the caller ignores its error: the column changes,
\* or the update fails and nothing does.  b is the budget left before it.
UpdateStatus(S, value, b) ==
    \/ /\ status' = [r \in Reading |-> IF r \in S THEN value ELSE status[r]]
       /\ budget' = b
    \/ /\ b["status"] > 0
       /\ budget' = [b EXCEPT !["status"] = @ - 1]
       /\ UNCHANGED status

Busy(c) == handler[c].pc \in {"checked", "added", "acking"}

\* An acknowledgement, or the end of the connection, will still reach the client
\* if it waits long enough.
AnswerComing ==
    \/ ackCh # <<>>
    \/ ackWire[sess] # <<>>
    \/ link[sess] = "up" /\ (Busy(sess) \/ wire[sess] # <<>>)

\* Faulty variant of NextAckCh: one channel for the whole process.
NextAckCh_Shared == ackCh

\* What a later session finds in uploadAckCh: runSession makes a new channel.
NextAckCh == <<>>

\* runSession returns: its deferred conn.Close, and the end of everything that
\* is local to the session.  The server may still read a part of what was sent.
EndSession ==
    /\ pc' = "down"
    /\ batch' = {}
    /\ msgID' = 0
    /\ tmo' = 0
    /\ late' = 0
    /\ ackCh' = NextAckCh
    /\ link' = [link EXCEPT ![sess] = "down"]
    /\ \E kept \in Prefixes(wire[sess]) : wire' = [wire EXCEPT ![sess] = kept]
    /\ ackWire' = [ackWire EXCEPT ![sess] = <<>>]
    /\ UNCHANGED sess

-------------------------------------------------------------------------------
(* The gateway                                                             *)

\* consumeAndWrite flushes a reading to SQLite, which gives it the next id.
CacheReading(r) ==
    /\ status[r] = "None"
    /\ \A q \in Reading : q < r => status[q] # "None"
    /\ status' = [status EXCEPT ![r] = "NotSent"]
    /\ UNCHANGED <<sessionVars, netVars, serverVars, budget>>

\* dialWithRetry and performHandshake succeed; the server starts a handler.
Connect ==
    /\ pc = "down"
    /\ sess < MaxSessions
    /\ sess' = sess + 1
    /\ pc' = "idle"
    /\ link' = [link EXCEPT ![sess + 1] = "up"]
    /\ handler' = [handler EXCEPT ![sess + 1] = ReadyHandler]
    /\ UNCHANGED <<status, batch, msgID, tmo, late, ackCh, wire, ackWire,
                   dedup, stored, pushed, budget>>

\* The dial or the handshake fails: sessionLoop waits and tries again.
DialFails ==
    /\ pc = "down"
    /\ UNCHANGED vars

\* The upload timer fires and there is nothing to load: continue.
LoadNothing ==
    /\ pc = "idle"
    /\ Pending = {}
    /\ UNCHANGED vars

\* NewMsg encodes all readings of the batch that is loaded next.
Builds == NextBatch \cap Unbuildable = {}

\* The upload timer fires: load a batch, build the message, mark it as being sent.
MarkSending ==
    /\ pc = "idle"
    /\ Pending # {}
    /\ Builds
    /\ batch' = NextBatch
    /\ status' = [r \in Reading |-> IF r \in NextBatch THEN "Sending" ELSE status[r]]
    /\ pc' = "marked"
    /\ UNCHANGED <<sess, msgID, tmo, late, ackCh, netVars, serverVars, budget>>

\* NewMsg fails: the batch is marked as failed and the session ends.
BuildFails ==
    /\ pc = "idle"
    /\ Pending # {}
    /\ ~Builds
    /\ UpdateStatus(NextBatch, "Failed", budget)
    /\ EndSession
    /\ UNCHANGED serverVars

\* The marking itself fails: uploadReadings returns the error, the session ends.
MarkFails ==
    /\ pc = "idle"
    /\ Pending # {}
    /\ Builds
    /\ CanSpend("status")
    /\ budget' = Spent("status")
    /\ EndSession
    /\ UNCHANGED <<status, serverVars>>

\* conn.Write succeeds.  On a connection that is already broken the bytes go
\* nowhere.
WriteUpload ==
    /\ pc = "marked"
    /\ pc' = "await"
    /\ msgID' = msgID + 1
    /\ IF link[sess] = "up"
       THEN wire' = [wire EXCEPT
                        ![sess] = Append(@, [id |-> msgID + 1, batch |-> batch])]
       ELSE UNCHANGED wire
    /\ UNCHANGED <<status, sess, batch, tmo, late, ackCh, link, ackWire,
                   serverVars, budget>>

\* conn.Write fails: the batch is marked as failed and the session ends.
WriteFails ==
    /\ pc = "marked"
    /\ link[sess] = "down"
    /\ UpdateStatus(batch, "Failed", budget)
    /\ EndSession
    /\ UNCHANGED serverVars

\* readLoop and msgRouter.dispatch: an acknowledgement enters uploadAckCh, or
\* waits in front of it while the channel is full.
DeliverAck ==
    /\ pc # "down"
    /\ ackWire[sess] # <<>>
    /\ Len(ackCh) < UploadWindowSize
    /\ ackCh' = Append(ackCh, Head(ackWire[sess]))
    /\ ackWire' = [ackWire EXCEPT ![sess] = Tail(@)]
    /\ UNCHANGED <<status, pc, sess, batch, msgID, tmo, late, link, wire,
                   serverVars, budget>>

\* uploadReadings receives an acknowledgement.  It takes the first one in the
\* channel for the answer to the batch in hand; its MsgID is not looked at.
ConsumeAck ==
    /\ pc = "await"
    /\ ackCh # <<>>
    /\ IF Head(ackCh).code = "Ok"
       THEN UpdateStatus(batch, "Sent", budget) /\ tmo' = 0
       ELSE UpdateStatus(batch, "NotSent", budget) /\ UNCHANGED tmo
    /\ ackCh' = Tail(ackCh)
    /\ pc' = "idle"
    /\ batch' = {}
    /\ UNCHANGED <<sess, msgID, late, netVars, serverVars>>

\* Faulty variants: the counter runs down; the batch is left as it is; the
\* batch is taken for uploaded.
NextTmo_Down        == tmo - 1
AfterTimeout_Kept   == "Sending"
AfterTimeout_Hoping == "Sent"

NextTmo      == tmo + 1
AfterTimeout == "NotSent"

\* uploadAckTimeout: back to NotSent; the third in a row ends the session.
\* Giving up on an answer that was still to come is a fault of kind "slow".
AckTimeout ==
    /\ pc = "await"
    /\ AnswerComing => CanSpend("slow")
    /\ UpdateStatus(batch, AfterTimeout, IF AnswerComing THEN Spent("slow") ELSE budget)
    /\ IF NextTmo >= MaxAllTimeout
       THEN EndSession
       ELSE /\ pc' = "idle"
            /\ batch' = {}
            /\ tmo' = NextTmo
            /\ late' = IF AnswerComing THEN late + 1 ELSE late
            /\ UNCHANGED <<sess, msgID, ackCh, netVars>>
    /\ UNCHANGED serverVars

\* connDead is closed, or a heartbeat or notification cannot be written.
NoticeDeadLink ==
    /\ pc = "idle"
    /\ link[sess] = "down"
    /\ EndSession
    /\ UNCHANGED <<status, serverVars, budget>>

\* The read loop waits in dispatch for room in uploadAckCh, and no other message
\* gets past it.
ReaderBlocked == Len(ackCh) >= UploadWindowSize /\ ackWire[sess] # <<>>

\* A heartbeat goes unanswered for five seconds, or its answer cannot get past
\* the read loop: the session ends.
HeartbeatFails ==
    /\ pc = "idle"
    /\ IF ReaderBlocked THEN UNCHANGED budget
       ELSE CanSpend("beat") /\ budget' = Spent("beat")
    /\ EndSession
    /\ UNCHANGED <<status, serverVars>>

\* The client process ends, by ctx.Done or by a crash, wherever it is.
StopClient ==
    /\ pc # "down"
    /\ CanSpend("stop")
    /\ budget' = Spent("stop")
    /\ EndSession
    /\ UNCHANGED <<status, serverVars>>

\* The connection breaks under a session that has not noticed it yet.
DropLink ==
    /\ pc # "down"
    /\ link[sess] = "up"
    /\ CanSpend("drop")
    /\ budget' = Spent("drop")
    /\ link' = [link EXCEPT ![sess] = "down"]
    /\ \E kept \in Prefixes(wire[sess]) : wire' = [wire EXCEPT ![sess] = kept]
    /\ \E kept \in Prefixes(ackWire[sess]) : ackWire' = [ackWire EXCEPT ![sess] = kept]
    /\ UNCHANGED <<status, sessionVars, serverVars>>

-------------------------------------------------------------------------------
(* The server: HandleConnection and handleUpload on connection c           *)

\* DecodeFrame returns an upload and uploadDedup.exists looks up its key; the
\* key of a batch (serial number and SHA-256 of the payload) is the batch.
ReceiveUpload(c) ==
    /\ handler[c].pc = "ready"
    /\ wire[c] # <<>>
    /\ Head(wire[c]).batch \notin Wrapping
    /\ wire' = [wire EXCEPT ![c] = Tail(@)]
    /\ LET req == Head(wire[c]) IN
        /\ dedup' = Exists(dedup, req.batch)
        /\ handler' = [handler EXCEPT ![c] =
             IF req.batch \in CachedKeys(dedup)
             THEN [pc |-> "acking",  req |-> req, outcome |-> "duplicate"]
             ELSE [pc |-> "checked", req |-> req, outcome |-> "none"]]
    /\ UNCHANGED <<status, sessionVars, link, ackWire, stored, pushed, budget>>

\* DecodeFrame reads as many bytes as the wrapped length says and finds the wrong
\* checksum: HandleConnection returns, and with its connection goes what was sent.
RefuseFrame(c) ==
    /\ handler[c].pc = "ready"
    /\ wire[c] # <<>>
    /\ Head(wire[c]).batch \in Wrapping
    /\ handler' = [handler EXCEPT ![c] = OffHandler]
    /\ link' = [link EXCEPT ![c] = "down"]
    /\ wire' = [wire EXCEPT ![c] = <<>>]
    /\ \E kept \in Prefixes(ackWire[c]) : ackWire' = [ackWire EXCEPT ![c] = kept]
    /\ UNCHANGED <<status, sessionVars, dedup, stored, pushed, budget>>

\* Faulty variant of AddKey: the upload is acknowledged on receipt as well.
AddKey_AckOnReceipt(c) ==
    /\ handler[c].pc = "checked"
    /\ dedup' = Add(dedup, handler[c].req.batch, DedupCacheSize)
    /\ handler' = [handler EXCEPT ![c] = [@ EXCEPT !.pc = "added"]]
    /\ ackWire' = [ackWire EXCEPT ![c] = Append(@, [req |-> handler[c].req, code |-> "Ok"])]
    /\ UNCHANGED <<status, sessionVars, link, wire, stored, pushed, budget>>

\* uploadDedup.add, in a critical section of its own and before the save.
AddKey(c) ==
    /\ handler[c].pc = "checked"
    /\ dedup' = Add(dedup, handler[c].req.batch, DedupCacheSize)
    /\ handler' = [handler EXCEPT ![c] = [@ EXCEPT !.pc = "added"]]
    /\ UNCHANGED <<status, sessionVars, netVars, stored, pushed, budget>>

\* One more row for every reading of the batch: the table has no key on them.
InsertRows(S) == [r \in Reading |-> IF r \in S THEN stored[r] + 1 ELSE stored[r]]

SaveReadings(c) ==
    /\ handler[c].pc = "added"
    /\ stored' = InsertRows(handler[c].req.batch)
    /\ handler' = [handler EXCEPT ![c] = [@ EXCEPT !.pc = "acking", !.outcome = "saved"]]
    /\ UNCHANGED <<status, sessionVars, netVars, dedup, pushed, budget>>

\* ParseMsg or the insert fails and nothing is stored, or the insert succeeds and
\* a device upsert, which is not in the same transaction, fails after it.
SaveFails(c) ==
    /\ handler[c].pc = "added"
    /\ CanSpend("save")
    /\ budget' = Spent("save")
    /\ stored' \in {stored, InsertRows(handler[c].req.batch)}
    /\ handler' = [handler EXCEPT ![c] = [@ EXCEPT !.pc = "acking", !.outcome = "failed"]]
    /\ UNCHANGED <<status, sessionVars, netVars, dedup, pushed>>

\* Faulty variant: what could not be saved is published as well.
Published_Unsaved == {"saved", "failed"}

\* Outcomes after which handleUpload publishes the readings.
Published == {"saved"}

\* sendAck: its errors are only logged.  The handler goes on to publish what it
\* saved, or back to reading.
SendAck(c) ==
    /\ handler[c].pc = "acking"
    /\ \/ /\ link[c] = "up"
          /\ ackWire' = [ackWire EXCEPT ![c] = Append(@,
                [req  |-> handler[c].req,
                 code |-> IF handler[c].outcome = "failed" THEN "Failed" ELSE "Ok"])]
          /\ UNCHANGED budget
       \/ /\ link[c] = "up"
          /\ CanSpend("ackLoss")
          /\ budget' = Spent("ackLoss")
          /\ UNCHANGED ackWire
       \/ /\ link[c] # "up"
          /\ UNCHANGED <<ackWire, budget>>
    /\ handler' = [handler EXCEPT ![c] =
                     IF @.outcome \in Published THEN [@ EXCEPT !.pc = "push"]
                     ELSE ReadyHandler]
    /\ UNCHANGED <<status, sessionVars, link, wire, dedup, stored, pushed>>

\* PublishDeviceReadings and router.Send for what this handler saved.
PushReadings(c) ==
    /\ handler[c].pc = "push"
    /\ pushed' = [r \in Reading |->
                    IF r \in handler[c].req.batch THEN pushed[r] + 1 ELSE pushed[r]]
    /\ handler' = [handler EXCEPT ![c] = ReadyHandler]
    /\ UNCHANGED <<status, sessionVars, netVars, dedup, stored, budget>>

\* DecodeFrame meets the end of the connection: HandleConnection returns.
HandlerExit(c) ==
    /\ handler[c].pc = "ready"
    /\ wire[c] = <<>>
    /\ link[c] = "down"
    /\ handler' = [handler EXCEPT ![c] = OffHandler]
    /\ UNCHANGED <<status, sessionVars, netVars, dedup, stored, pushed, budget>>

\* The server process dies: connections, handlers and the deduplication cache
\* are gone, the database is not.
RebootServer ==
    /\ CanSpend("reboot")
    /\ budget' = Spent("reboot")
    /\ link' = [c \in Conn |-> IF link[c] = "up" THEN "down" ELSE link[c]]
    /\ wire' = [c \in Conn |-> <<>>]
    /\ IF pc = "down" THEN UNCHANGED ackWire
       ELSE \E kept \in Prefixes(ackWire[sess]) : ackWire' = [ackWire EXCEPT ![sess] = kept]
    /\ handler' = [c \in Conn |-> OffHandler]
    /\ dedup' = <<>>
    /\ UNCHANGED <<status, sessionVars, stored, pushed>>

-------------------------------------------------------------------------------
SessionStep ==
    \/ Connect \/ DialFails \/ LoadNothing \/ MarkSending \/ BuildFails \/ MarkFails
    \/ WriteUpload \/ WriteFails \/ ConsumeAck \/ AckTimeout \/ NoticeDeadLink \/ HeartbeatFails

HandlerStep(c) ==
    \/ ReceiveUpload(c) \/ RefuseFrame(c) \/ AddKey(c) \/ SaveReadings(c) \/ SaveFails(c)
    \/ SendAck(c) \/ PushReadings(c) \/ HandlerExit(c)

Next ==
    \/ \E r \in Reading : CacheReading(r)
    \/ SessionStep
    \/ DeliverAck
    \/ StopClient
    \/ DropLink
    \/ \E c \in Conn : HandlerStep(c)
    \/ RebootServer

Spec == Init /\ [][Next]_vars

\* Goroutines that can run are run: the session goroutine, the read loop and
\* every handler.  Nothing is assumed of new readings or of faults.
FairSpec ==
    /\ Spec
    /\ WF_vars(SessionStep)
    /\ WF_vars(DeliverAck)
    /\ \A c \in Conn : WF_vars(HandlerStep(c))
-------------------------------------------------------------------------------
(* Properties                                                              *)

\* Uploads on connection c that the server will still answer over it.
OnServer(c) ==
    IF link[c] = "up" THEN Len(wire[c]) + (IF Busy(c) THEN 1 ELSE 0) ELSE 0

\* Uploads of the current session that the client may still get an answer to.
InFlight == Len(ackCh) + Len(ackWire[sess]) + OnServer(sess)

\* Acknowledgements of the current session on their way to uploadReadings.
AcksComing ==
    {ackCh[i] : i \in DOMAIN ackCh} \cup {ackWire[sess][i] : i \in DOMAIN ackWire[sess]}

\* The answers on their way never outnumber the upload being waited for and
\* those given up on too early: the pairing of answers and requests, which the
\* code does by position only, is off by exactly the early timeouts of the
\* session.
AckAccounting ==
    pc # "down" => InFlight <= late + (IF pc = "await" THEN 1 ELSE 0)

\* In a session that never gave up too early, what uploadReadings will take
\* from uploadAckCh is the answer to the batch it has in hand, although it
\* does not compare message ids.
NoStaleAck ==
    pc # "down" /\ late = 0 =>
        \A a \in AcksComing : pc = "await" /\ a.req = [id |-> msgID, batch |-> batch]

\* Nothing is published to the outputs that is not in the database, and no
\* stored row is published twice.
PushedOnlyStored == \A r \in Reading : pushed[r] <= stored[r]

\* While no process was stopped and no status update failed, a reading is
\* "Sending" only as long as the session goroutine has it in hand; a "Sending"
\* reading without an owner would never be loaded again.
SendingIsOwned ==
    budget["stop"] = Budget["stop"] /\ budget["status"] = Budget["status"] =>
        \A r \in Reading : status[r] = "Sending" => r \in batch /\ pc \in {"marked", "await"}

\* Two handlers that add the same key at once do not put it twice into the
\* list, so the list and the map of the cache agree.
DedupWellFormed == NoDuplicate(dedup)

\* A reading that was acknowledged is never uploaded or reset again.
SentIsFinal ==
    [][\A r \in Reading : status[r] = "Sent" => status'[r] = "Sent"]_vars

\* Readings the server has stored or is about to store.
InCharge ==
    {r \in Reading : stored[r] > 0}
      \cup UNION {handler[c].req.batch : c \in {d \in Conn : handler[d].pc = "added"}}

\* The environment in which the tunnel keeps its promise: the server saves what
\* it receives and stays up, and answers are not later than uploadAckTimeout.
\* Connections may break, acknowledgements get lost and clients restart.
Reliable == Budget["slow"] = 0 /\ Budget["save"] = 0 /\ Budget["reboot"] = 0

\* A reading marked as uploaded is stored, or a handler is about to store it.
SentIsInCharge ==
    Reliable => \A r \in Reading : status[r] = "Sent" => r \in InCharge

\* The tunnel implements its contract in a reliable environment.
Contract == INSTANCE UploadContract WITH
    cached    <- {r \in Reading : status[r] # "None"},
    accepted  <- InCharge,
    confirmed <- {r \in Reading : status[r] = "Sent"}

ImplementsContract == Contract!ContractSpec

\* The batch that is loaded next cannot be uploaded, now or ever: NewMsg refuses it
\* (client.go:393-397) or the server refuses its frame, whose length wrapped
\* (msg.go:111, client.go:399).  It is loaded again and again, and no reading
\* behind it gets its turn.
Blocked ==
    /\ Pending # {}
    /\ ~Builds \/ NextBatch \in Wrapping
    /\ \A r \in Reading : status[r] # "Sending"

\* Every reading in the cache is some day marked as uploaded, unless the uploads
\* come to a batch that blocks them all.
EveryReadingSent ==
    \A r \in Reading : status[r] # "None" ~> status[r] = "Sent" \/ Blocked

\* README.md:160 "server-side confirmation of storage": a reading the client
\* marked as uploaded is in the database.
SentIsStored == \A r \in Reading : status[r] = "Sent" => stored[r] > 0
===============================================================================
