---------------------------- MODULE GatewaySession ----------------------------
(***************************************************************************)
(* The gateway's sessions with the server: sessionLoop dials, shakes hands  *)
(* and then, in one goroutine, writes notifications, heartbeats and uploads *)
(* and waits for their answers; readLoop, one goroutine per connection,     *)
(* reads the answers and hands them over through the channels msgRouter     *)
(* knows.  UploadTunnel says what becomes of the readings; this module says *)
(* what becomes of sessions, heartbeats, notifications and read loops.      *)
(***************************************************************************)
EXTENDS Integers, Sequences

CONSTANTS
    MaxSessions,    \* bound: connections ever made
    MaxRetry,       \* cfg.MaxRetry, dials of one session
    Window,         \* uploadWindowSize, the capacity of uploadAckCh
    MaxAllTimeout,  \* maxConsecutiveAllTimeout
    MaxUploads,     \* bound: uploads written to a working connection
    MaxBeats,       \* bound: heartbeats written to a working connection
    MaxEvents,      \* bound: devices that go offline, numbered in order
    NotifyCap       \* the capacity of notifyCh

ASSUME SessionAssumption ==
    /\ MaxSessions \in Nat \ {0}
    /\ MaxRetry \in Nat \ {0}
    /\ Window \in Nat \ {0}
    /\ MaxAllTimeout \in Nat \ {0}
    /\ MaxUploads \in Nat
    /\ MaxBeats \in Nat
    /\ MaxEvents \in Nat
    /\ NotifyCap \in Nat \ {0}

Conn  == 1..MaxSessions
Event == 1..MaxEvents

\* An answer of the server: to an upload, or to the heartbeat with this number.
Answer == [type : {"UploadAck"}, beat : {0}]
            \cup [type : {"HeartbeatAck"}, beat : 1..MaxBeats]
None   == [type |-> "None", beat |-> 0]

UploadAck       == [type |-> "UploadAck", beat |-> 0]
HeartbeatAck(b) == [type |-> "HeartbeatAck", beat |-> b]

VARIABLES
    cancelled,   \* the context is cancelled
    pc,          \* where sessionLoop is
    sess,        \* the latest connection, 0 before the first
    attempt,     \* dials of this session so far
    allTimeout,  \* consecutiveAllTimeout
    uploads,     \* uploads written so far
    beats,       \* heartbeats written so far
    link,        \* each connection: "none", "up", "broken" or "closed" by the gateway
    line,        \* per connection, the answers due, in the order of the requests
    reader,      \* readLoop of each connection: "none", "reading" or "ended"
    hand,        \* the answer each read loop is about to dispatch, or None
    ackCh,       \* how many acknowledgements wait in each session's uploadAckCh
    route,       \* the heartbeat whose channel the router knows, or 0
    beatCh,      \* what is in the channel of the latest heartbeat, or 0
    early,       \* history: upload timeouts on each working connection, up to Window
    events,      \* events so far
    notifyCh,    \* notifications waiting
    written,     \* history: notifications written to a connection, in order
    dropped,     \* history: notifications that found notifyCh full
    lost         \* history: notifications whose write failed

clientVars == <<pc, sess, attempt, allTimeout>>
countVars  == <<uploads, beats>>
linkVars   == <<link, line>>
readerVars == <<reader, hand, ackCh>>
beatVars   == <<route, beatCh>>
notifyVars == <<events, notifyCh, written, dropped, lost>>
vars == <<cancelled, clientVars, countVars, linkVars, readerVars, beatVars, early, notifyVars>>

TypeOK ==
    /\ cancelled \in BOOLEAN
    /\ pc \in {"wait", "dial", "shake", "loop", "upload", "beat", "done"}
    /\ sess \in 0..MaxSessions
    /\ attempt \in 0..(MaxRetry - 1)
    /\ allTimeout \in 0..MaxAllTimeout
    /\ uploads \in 0..MaxUploads
    /\ beats \in 0..MaxBeats
    /\ link \in [Conn -> {"none", "up", "broken", "closed"}]
    /\ line \in [Conn -> Seq(Answer)]
    /\ reader \in [Conn -> {"none", "reading", "ended"}]
    /\ hand \in [Conn -> Answer \cup {None}]
    /\ ackCh \in [Conn -> 0..Window]
    /\ route \in 0..MaxBeats
    /\ beatCh \in 0..MaxBeats
    /\ early \in [Conn -> 0..Window]
    /\ events \in 0..MaxEvents
    /\ notifyCh \in Seq(Event) /\ Len(notifyCh) <= NotifyCap
    /\ written \in Seq(Event)
    /\ dropped \in SUBSET Event
    /\ lost \in SUBSET Event

Init ==
    /\ cancelled = FALSE
    /\ pc = "dial"
    /\ sess = 0
    /\ attempt = 0
    /\ allTimeout = 0
    /\ uploads = 0
    /\ beats = 0
    /\ link = [c \in Conn |-> "none"]
    /\ line = [c \in Conn |-> <<>>]
    /\ reader = [c \in Conn |-> "none"]
    /\ hand = [c \in Conn |-> None]
    /\ ackCh = [c \in Conn |-> 0]
    /\ route = 0
    /\ beatCh = 0
    /\ early = [c \in Conn |-> 0]
    /\ events = 0
    /\ notifyCh = <<>>
    /\ written = <<>>
    /\ dropped = {}
    /\ lost = {}

\* signal.NotifyContext cancels the context.
CancelContext ==
    /\ ~cancelled
    /\ cancelled' = TRUE
    /\ UNCHANGED <<clientVars, countVars, linkVars, readerVars, beatVars, early, notifyVars>>

\* The TCP connection breaks: what was under way on it is gone.
LinkBreaks(c) ==
    /\ link[c] = "up"
    /\ link' = [link EXCEPT ![c] = "broken"]
    /\ line' = [line EXCEPT ![c] = <<>>]
    /\ UNCHANGED <<cancelled, clientVars, countVars, readerVars, beatVars, early, notifyVars>>

-------------------------------------------------------------------------------
(* sessionLoop and dialWithRetry                                           *)

\* Faulty variant of AfterRun: the loop never looks at the context.
AfterRun_Again == "wait"

\* Where sessionLoop goes when runSession has returned.
AfterRun == IF cancelled THEN "done" ELSE "wait"

\* Faulty variant of Closed: runSession forgets its deferred conn.Close.
Closed_Forgotten(c) == link

\* The deferred conn.Close.
Closed(c) == [link EXCEPT ![c] = "closed"]

\* The session's connection works.
Works == link[sess] = "up"

\* runSession returns with its connection made: everything deferred is done.
SessionEnds ==
    /\ pc' = AfterRun
    /\ link' = Closed(sess)
    /\ line' = [line EXCEPT ![sess] = <<>>]
    /\ route' = 0
    /\ allTimeout' = 0
    /\ UNCHANGED <<sess, attempt>>

\* The retry interval is over, or the context cuts it short: runSession dials,
\* and returns at once when the context is cancelled.
WaitOver ==
    /\ pc = "wait"
    /\ pc' = IF cancelled THEN AfterRun ELSE "dial"
    /\ UNCHANGED <<cancelled, sess, attempt, allTimeout, countVars, linkVars, readerVars, beatVars, early, notifyVars>>

\* net.DialTimeout succeeds and performHandshake writes its request; a dial that
\* began before the context was cancelled may succeed after it.
DialSucceeds ==
    /\ pc = "dial"
    /\ sess < MaxSessions
    /\ sess' = sess + 1
    /\ pc' = "shake"
    /\ attempt' = 0
    /\ link' = [link EXCEPT ![sess'] = "up"]
    /\ UNCHANGED <<cancelled, allTimeout, countVars, line, readerVars, beatVars, early, notifyVars>>

\* net.DialTimeout fails; after the backoff, which the context cuts short, there
\* is another dial, or this was the last.
DialFails ==
    /\ pc = "dial"
    /\ IF cancelled \/ attempt + 1 = MaxRetry
       THEN pc' = AfterRun /\ attempt' = 0
       ELSE pc' = "dial" /\ attempt' = attempt + 1
    /\ UNCHANGED <<cancelled, sess, allTimeout, countVars, linkVars, readerVars, beatVars, early, notifyVars>>

\* performHandshake reads an acceptance: runSession makes its channels and its
\* read loop.  It looks neither at the context nor at a clock.
HandshakeAccepted ==
    /\ pc = "shake"
    /\ Works
    /\ pc' = "loop"
    /\ reader' = [reader EXCEPT ![sess] = "reading"]
    /\ UNCHANGED <<cancelled, sess, attempt, allTimeout, countVars, linkVars, hand, ackCh, beatVars, early, notifyVars>>

\* performHandshake is refused (serial number, token), or cannot write or read.
HandshakeFails ==
    /\ pc = "shake"
    /\ SessionEnds
    /\ UNCHANGED <<cancelled, countVars, readerVars, beatCh, early, notifyVars>>

-------------------------------------------------------------------------------
(* runSession's loop: the only writer of its connection                    *)

\* The loop's select finds the context cancelled, or that the read loop ended.
LoopStops ==
    /\ pc = "loop"
    /\ cancelled \/ reader[sess] = "ended"
    /\ SessionEnds
    /\ UNCHANGED <<cancelled, countVars, readerVars, beatCh, early, notifyVars>>

\* What the server, working on the requests in order, will answer; a request
\* written to a broken connection goes nowhere.
Asked(answer) ==
    line' = IF Works THEN [line EXCEPT ![sess] = Append(@, answer)] ELSE line

\* LoadPendingReadings found readings, and uploadReadings has written them.
WriteUpload ==
    /\ pc = "loop"
    /\ Works => uploads < MaxUploads
    /\ pc' = "upload"
    /\ uploads' = IF Works THEN uploads + 1 ELSE uploads
    /\ Asked(UploadAck)
    /\ UNCHANGED <<cancelled, sess, attempt, allTimeout, beats, link, readerVars, beatVars, early, notifyVars>>

\* uploadReadings takes whatever acknowledgement is first; one that says Failed
\* does not reset the count of timeouts.
TakeAck ==
    /\ pc = "upload"
    /\ ackCh[sess] > 0
    /\ ackCh' = [ackCh EXCEPT ![sess] = @ - 1]
    /\ allTimeout' \in {0, allTimeout}
    /\ pc' = "loop"
    /\ UNCHANGED <<cancelled, sess, attempt, countVars, linkVars, reader, hand, beatVars, early, notifyVars>>

\* uploadAckTimeout passes; too many in a row end the session.
AckTimeout ==
    /\ pc = "upload"
    /\ early' = IF Works /\ early[sess] < Window THEN [early EXCEPT ![sess] = @ + 1] ELSE early
    /\ IF allTimeout + 1 >= MaxAllTimeout THEN SessionEnds
       ELSE /\ allTimeout' = allTimeout + 1
            /\ pc' = "loop"
            /\ UNCHANGED <<sess, attempt, linkVars, route>>
    /\ UNCHANGED <<cancelled, countVars, readerVars, beatCh, notifyVars>>

\* The wait for the acknowledgement ends with the context.
AckCancelled ==
    /\ pc = "upload"
    /\ cancelled
    /\ SessionEnds
    /\ UNCHANGED <<cancelled, countVars, readerVars, beatCh, early, notifyVars>>

\* sendHeartbeat registers a new channel of one place and writes a heartbeat.
WriteHeartbeat ==
    /\ pc = "loop"
    /\ Works /\ beats < MaxBeats
    /\ pc' = "beat"
    /\ beats' = beats + 1
    /\ route' = beats'
    /\ beatCh' = 0
    /\ Asked(HeartbeatAck(beats'))
    /\ UNCHANGED <<cancelled, sess, attempt, allTimeout, uploads, link, readerVars, early, notifyVars>>

\* The same on a connection that is broken: no answer will come.
WriteHeartbeatInVain ==
    /\ pc = "loop"
    /\ ~Works
    /\ pc' = "beat"
    /\ route' = beats
    /\ beatCh' = 0
    /\ UNCHANGED <<cancelled, sess, attempt, allTimeout, countVars, linkVars, readerVars, early, notifyVars>>

\* sendHeartbeat takes the answer and unregisters its channel.
TakeHeartbeatAck ==
    /\ pc = "beat"
    /\ beatCh # 0
    /\ pc' = "loop"
    /\ route' = 0
    /\ beatCh' = 0
    /\ UNCHANGED <<cancelled, sess, attempt, allTimeout, countVars, linkVars, readerVars, early, notifyVars>>

\* Faulty variant of AfterBeatTimeout: a missed heartbeat is only logged.
AfterBeatTimeout_GoOn ==
    /\ pc' = "loop"
    /\ route' = 0
    /\ UNCHANGED <<sess, attempt, allTimeout, linkVars>>

\* An unanswered heartbeat ends the session.
AfterBeatTimeout == SessionEnds

\* Five seconds without an answer; the context is not looked at.
HeartbeatTimeout ==
    /\ pc = "beat"
    /\ AfterBeatTimeout
    /\ UNCHANGED <<cancelled, countVars, readerVars, beatCh, early, notifyVars>>

\* A write of a heartbeat or an upload fails, or one of the errors below comes
\* first: either ends the session.
WriteFails ==
    /\ pc = "loop"
    /\ ~Works
    /\ SessionEnds
    /\ UNCHANGED <<cancelled, countVars, readerVars, beatCh, early, notifyVars>>

\* uploadReadings gives up before it writes, while the connection works: the
\* message cannot be built or its batch not be marked.
UploadFails ==
    /\ pc = "loop"
    /\ Works
    /\ SessionEnds
    /\ UNCHANGED <<cancelled, countVars, readerVars, beatCh, early, notifyVars>>

-------------------------------------------------------------------------------
(* Notifications                                                           *)

\* OnDisconnect of the status hook: a session of an MQTT device expired.  Its
\* notification is dropped when notifyCh is full.
DeviceOffline ==
    /\ events < MaxEvents
    /\ events' = events + 1
    /\ IF Len(notifyCh) < NotifyCap
       THEN notifyCh' = Append(notifyCh, events') /\ UNCHANGED dropped
       ELSE dropped' = dropped \cup {events'} /\ UNCHANGED notifyCh
    /\ UNCHANGED <<cancelled, clientVars, countVars, linkVars, readerVars, beatVars, early, written, lost>>

\* sendNotify writes the notification; the server reads it and does not answer,
\* since HandleConnection has no case for it.
SendNotify ==
    /\ pc = "loop"
    /\ notifyCh # <<>>
    /\ written' = Append(written, Head(notifyCh))
    /\ notifyCh' = Tail(notifyCh)
    /\ UNCHANGED <<cancelled, clientVars, countVars, linkVars, readerVars, beatVars, early, events, dropped, lost>>

\* Faulty variant of AfterFailedNotify: it is put back behind the others.
AfterFailedNotify_Requeued(queue) == Append(Tail(queue), Head(queue))

\* What remains queued when the write of the first failed: it is not put back.
AfterFailedNotify(queue) == Tail(queue)

\* The write of a notification fails and ends the session.
NotifyFails ==
    /\ pc = "loop"
    /\ ~Works
    /\ notifyCh # <<>>
    /\ lost' = lost \cup {Head(notifyCh)}
    /\ notifyCh' = AfterFailedNotify(notifyCh)
    /\ SessionEnds
    /\ UNCHANGED <<cancelled, countVars, readerVars, beatCh, early, events, written, dropped>>

-------------------------------------------------------------------------------
(* readLoop                                                                *)

\* DecodeFrame returns the server's next answer.
ReadFrame(c) ==
    /\ reader[c] = "reading"
    /\ hand[c] = None
    /\ line[c] # <<>>
    /\ hand' = [hand EXCEPT ![c] = Head(line[c])]
    /\ line' = [line EXCEPT ![c] = Tail(@)]
    /\ UNCHANGED <<cancelled, clientVars, countVars, link, reader, ackCh, beatVars, early, notifyVars>>

\* Faulty variant of Room: one more than uploadAckCh holds.
Room_OffByOne(c) == ackCh[c] <= Window

\* uploadAckCh has room for another acknowledgement.
Room(c) == ackCh[c] < Window

\* dispatch sends the acknowledgement of an upload to uploadAckCh, and blocks
\* while that is full.
DispatchAck(c) ==
    /\ hand[c].type = "UploadAck"
    /\ Room(c)
    /\ ackCh' = [ackCh EXCEPT ![c] = @ + 1]
    /\ hand' = [hand EXCEPT ![c] = None]
    /\ UNCHANGED <<cancelled, clientVars, countVars, linkVars, reader, beatVars, early, notifyVars>>

\* dispatch sends the answer of a heartbeat to the channel that is registered,
\* or discards it when none is.
DispatchHeartbeatAck(c) ==
    /\ hand[c].type = "HeartbeatAck"
    /\ IF c = sess /\ route # 0
       THEN beatCh = 0 /\ beatCh' = hand[c].beat
       ELSE UNCHANGED beatCh
    /\ hand' = [hand EXCEPT ![c] = None]
    /\ UNCHANGED <<cancelled, clientVars, countVars, linkVars, reader, ackCh, route, early, notifyVars>>

\* DecodeFrame fails: the connection was closed, or is broken.
ReadFails(c) ==
    /\ reader[c] = "reading"
    /\ hand[c] = None
    /\ link[c] \in {"broken", "closed"}
    /\ reader' = [reader EXCEPT ![c] = "ended"]
    /\ UNCHANGED <<cancelled, clientVars, countVars, linkVars, hand, ackCh, beatVars, early, notifyVars>>

\* The read deadline passes: heartbeatTimeout without a frame.
ReadTimesOut(c) ==
    /\ reader[c] = "reading"
    /\ hand[c] = None
    /\ link[c] = "up"
    /\ reader' = [reader EXCEPT ![c] = "ended"]
    /\ UNCHANGED <<cancelled, clientVars, countVars, linkVars, hand, ackCh, beatVars, early, notifyVars>>

-------------------------------------------------------------------------------
DialStep == WaitOver \/ DialSucceeds \/ DialFails
AwaitEnds == TakeAck \/ AckTimeout \/ AckCancelled \/ TakeHeartbeatAck \/ HeartbeatTimeout
HeartbeatStep == WriteHeartbeat \/ WriteHeartbeatInVain
ReaderStep(c) == ReadFrame(c) \/ DispatchAck(c) \/ DispatchHeartbeatAck(c) \/ ReadFails(c)

Next ==
    \/ CancelContext
    \/ DialStep
    \/ HandshakeAccepted \/ HandshakeFails
    \/ LoopStops \/ WriteUpload \/ HeartbeatStep \/ WriteFails \/ UploadFails
    \/ AwaitEnds
    \/ DeviceOffline \/ SendNotify \/ NotifyFails
    \/ \E c \in Conn : LinkBreaks(c) \/ ReaderStep(c) \/ ReadTimesOut(c)

Spec == Init /\ [][Next]_vars

\* The session has a broken connection and has not closed it.
OnBrokenLink == sess > 0 /\ link[sess] = "broken"

\* Goroutines that can run are run and timers fire; a select does not pass over
\* a case that stays ready for ever (a tick stays in its ticker's channel, the
\* context stays cancelled).  The server owes nothing, an answer to a handshake
\* included; of a broken connection the handshake learns.
FairSpec ==
    /\ Spec
    /\ WF_vars(DialStep)
    /\ WF_vars(OnBrokenLink /\ HandshakeFails)
    /\ SF_vars(LoopStops)
    /\ SF_vars(WriteHeartbeatInVain)
    /\ WF_vars(AwaitEnds)
    /\ \A c \in Conn : WF_vars(ReaderStep(c))

-------------------------------------------------------------------------------
(* Properties                                                              *)

\* Every event has one fate, and notifications are written once and in order,
\* across connections that broke under them: sendNotify and its caller neither
\* repeat one nor let one overtake another.
NotifyAccounted ==
    LET path == written \o notifyCh IN
    /\ \A i, j \in DOMAIN path : i < j => path[i] < path[j]
    /\ {path[i] : i \in DOMAIN path} \cup dropped \cup lost = 1..events
    /\ dropped \cap lost = {}
    /\ \A i \in DOMAIN path : path[i] \notin dropped \cup lost

\* What waits for sendHeartbeat is the answer to the heartbeat it wrote last:
\* the router knows no number of a heartbeat, so a late answer must never meet
\* the channel of the next one.
BeatAnswersItself == pc = "beat" => beatCh \in {0, beats}

\* The session has left its connection c.
Left(c) == reader[c] # "none" /\ (c < sess \/ pc \in {"wait", "done"})

\* The read loop of a connection that was left ends, unless the session gave up
\* on Window acknowledgements: then it may be caught in dispatch for ever.
ReadersEnd ==
    \A c \in Conn : Left(c) ~> reader[c] = "ended" \/ early[c] = Window

\* A broken connection is closed by the gateway, whichever of read loop, write,
\* heartbeat and acknowledgement notices it: also when the read loop is caught.
BrokenIsLeft == OnBrokenLink ~> ~OnBrokenLink

\* sessionLoop returns when the context is cancelled, except that it may wait
\* for ever for the answer to a handshake.
SessionStops == cancelled ~> pc = "done" \/ pc = "shake"
===============================================================================
