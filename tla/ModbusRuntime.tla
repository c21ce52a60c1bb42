---------------------------- MODULE ModbusRuntime ----------------------------
(***************************************************************************)
(* One Modbus device of the gateway: the goroutine of ModbusDevicePolling   *)
(* that registers, starts, stops and unregisters its runtime, the poll loop *)
(* and the write loop that share the connection, and the handlers of the    *)
(* control server, which look the runtime up and write points through it.   *)
(*                                                                          *)
(* Requests to the device are serialised by the client library and answered *)
(* or failed within its timeout; each is one step.  A request that failed   *)
(* may have been carried out all the same: its answer was lost or late.     *)
(***************************************************************************)
EXTENDS Integers, Sequences

CONSTANTS
    Caller,        \* handlers of POST /command, each for one command
    Points,        \* cfg.Points: a sequence of [access, fc, type]
    Commands,      \* the commands that each caller may have: sequences of point
                   \* indices, 0 for a point the device does not have
    WriteChCap,    \* capacity of writeCh
    BufferSize,    \* cfg.BufferSize, the capacity of the reading channel
    HasPublisher   \* whether an MQTT broker, and so a publisher, is configured

PointConfig ==
    [access : {"ro", "rw", "wo"},
     fc     : {1, 2, 3, 4, 5, 6, 16},
     type   : {"bool", "int16", "uint16", "int32", "uint32", "float32"}]

ASSUME RuntimeAssumption ==
    /\ Points \in Seq(PointConfig)
    /\ Commands \in [Caller -> SUBSET Seq(0..Len(Points))]
    /\ WriteChCap \in Nat \ {0}
    /\ BufferSize \in Nat \ {0}
    /\ HasPublisher \in BOOLEAN

\* What a single write of a command can come to.
Errors  == {"unknown", "readOnly", "offline", "full", "refused", "failed", "noPublisher",
            "notPublished"}
Results == {"ok", "published"} \cup Errors
Replies == {"ok", "refused", "failed"}

VARIABLES
    life,       \* where the goroutine of the device is
    ctxDone,    \* the context of the process is cancelled
    stopClosed, \* stopCh is closed
    state,      \* rt.state
    poll,       \* the poll loop: where it is, the next point, hadError
    readings,   \* readings waiting in the channel to the fan-out
    fanout,     \* whether the fan-out still receives
    writeCh,    \* callers whose write waits in writeCh
    writer,     \* the write loop: where it is, for whom, with what outcome
    call,       \* where each caller is
    writes,     \* the writes of each caller's command
    results,    \* what each caller has collected so far
    reply,      \* the resultCh of each caller's current write
    written     \* history: the writes of each caller the device carried out

deviceVars == <<life, ctxDone, stopClosed>>
pollVars   == <<poll, readings, fanout>>
callVars   == <<call, writes, results>>
vars == <<deviceVars, state, pollVars, writeCh, writer, callVars, reply, written>>

TypeOK ==
    /\ life \in {"new", "registered", "running", "stopping", "closed", "ended"}
    /\ ctxDone \in BOOLEAN
    /\ stopClosed \in BOOLEAN
    /\ state \in {"offline", "online", "degraded"}
    /\ poll \in [pc : {"off", "wait", "read", "send", "exited"},
                 next : 1..(Len(Points) + 1), hadError : BOOLEAN]
    /\ readings \in 0..BufferSize
    /\ fanout \in {"open", "stuck"}
    /\ writeCh \in Seq(Caller)
    /\ Len(writeCh) <= WriteChCap
    /\ writer \in [pc : {"off", "wait", "exited"}] \cup
                  [pc : {"exec"}, for : Caller] \cup
                  [pc : {"report"}, for : Caller, res : Replies]
    /\ call \in [Caller -> {"idle", "next", "online", "wait", "done"}]
    /\ writes \in [Caller -> Seq(0..Len(Points))]
    /\ results \in [Caller -> Seq(Results)]
    /\ reply \in [Caller -> Replies \cup {"none"}]
    /\ written \in [Caller -> Seq(Nat)]

Init ==
    /\ life = "new"
    /\ ctxDone = FALSE
    /\ stopClosed = FALSE
    /\ state = "offline"
    /\ poll = [pc |-> "off", next |-> 1, hadError |-> FALSE]
    /\ readings = 0
    /\ fanout = "open"
    /\ writeCh = <<>>
    /\ writer = [pc |-> "off"]
    /\ call = [k \in Caller |-> "idle"]
    /\ writes = [k \in Caller |-> <<>>]
    /\ results = [k \in Caller |-> <<>>]
    /\ reply = [k \in Caller |-> "none"]
    /\ written = [k \in Caller |-> <<>>]

-------------------------------------------------------------------------------
(* Points                                                                  *)

\* The read function code, which the poll loop skips points without.
Polled(p) == p.access # "wo" /\ p.fc \notin {5, 6, 16}

\* executeWrite: the read function code a point is configured with is mapped to
\* a write function code, and the data type is checked; 0 if that is refused.
WriteFC(p) ==
    IF p.fc = 1 /\ p.type = "bool" THEN 5
    ELSE IF p.fc = 3 /\ p.type \in {"int16", "uint16"} THEN 6
    ELSE IF p.fc = 3 /\ p.type \in {"int32", "uint32", "float32"} THEN 16
    ELSE 0

-------------------------------------------------------------------------------
(* The life of the runtime: ModbusDevicePolling, Start and Stop            *)

\* GetModbusRuntime finds the device.
Registered == life \in {"registered", "running", "stopping", "closed"}

\* NewModbusRuntime and registerModbusRuntime.
RegisterRuntime ==
    /\ life = "new"
    /\ life' = "registered"
    /\ UNCHANGED <<ctxDone, stopClosed, state, pollVars, writeCh, writer, callVars,
                   reply, written>>

\* Start: connected, online, both loops launched.
Start ==
    /\ life = "registered"
    /\ life' = "running"
    /\ state' = "online"
    /\ poll' = [poll EXCEPT !.pc = "wait"]
    /\ writer' = [pc |-> "wait"]
    /\ UNCHANGED <<ctxDone, stopClosed, readings, fanout, writeCh, callVars, reply, written>>

\* handler.Connect fails: ModbusDevicePolling returns and unregisters.
StartFails ==
    /\ life = "registered"
    /\ life' = "ended"
    /\ UNCHANGED <<ctxDone, stopClosed, state, pollVars, writeCh, writer, callVars,
                   reply, written>>

CancelContext ==
    /\ ~ctxDone
    /\ ctxDone' = TRUE
    /\ UNCHANGED <<life, stopClosed, state, pollVars, writeCh, writer, callVars,
                   reply, written>>

\* Stop: close(stopCh).
CloseStopCh ==
    /\ life = "running"
    /\ ctxDone
    /\ life' = "stopping"
    /\ stopClosed' = TRUE
    /\ UNCHANGED <<ctxDone, state, pollVars, writeCh, writer, callVars, reply, written>>

\* Faulty variant of LoopsDone: the wait group counts only one of the loops.
LoopsDone_Writer == writer.pc = "exited"

\* What Stop waits for: wg.Wait().
LoopsDone == poll.pc = "exited" /\ writer.pc = "exited"

\* Stop: both loops are gone, the connection is closed.  The state stays.
CloseConnection ==
    /\ life = "stopping"
    /\ LoopsDone
    /\ life' = "closed"
    /\ UNCHANGED <<ctxDone, stopClosed, state, pollVars, writeCh, writer, callVars,
                   reply, written>>

\* The deferred unregisterModbusRuntime.
Unregister ==
    /\ life = "closed"
    /\ life' = "ended"
    /\ UNCHANGED <<ctxDone, stopClosed, state, pollVars, writeCh, writer, callVars,
                   reply, written>>

\* Faulty variant of Leaving: the loops watch neither.
Leaving_Never == FALSE

\* Both loops leave when the context is cancelled or stopCh is closed.
Leaving == ctxDone \/ stopClosed

-------------------------------------------------------------------------------
(* The poll loop                                                           *)

\* The ticker fires.  The select may take it even if the loop should leave.
PollTick ==
    /\ poll.pc = "wait"
    /\ poll' = [pc |-> "read", next |-> 1, hadError |-> FALSE]
    /\ UNCHANGED <<deviceVars, state, readings, fanout, writeCh, writer, callVars,
                   reply, written>>

PollExit ==
    /\ poll.pc = "wait"
    /\ Leaving
    /\ poll' = [poll EXCEPT !.pc = "exited"]
    /\ UNCHANGED <<deviceVars, state, readings, fanout, writeCh, writer, callVars,
                   reply, written>>

\* The next point: skipped, read without a usable value, failed, or read.
PollPoint ==
    /\ poll.pc = "read"
    /\ poll.next <= Len(Points)
    /\ \/ /\ Polled(Points[poll.next]) => Points[poll.next].type = "float32"
          /\ poll' = [poll EXCEPT !.next = @ + 1]
       \/ /\ Polled(Points[poll.next])
          /\ \/ poll' = [poll EXCEPT !.next = @ + 1, !.hadError = TRUE]
             \/ poll' = [poll EXCEPT !.pc = "send"]
    /\ UNCHANGED <<deviceVars, state, readings, fanout, writeCh, writer, callVars,
                   reply, written>>

\* readingCh <- reading: waits for room, whatever happens to the context.
SendReading ==
    /\ poll.pc = "send"
    /\ readings < BufferSize
    /\ readings' = readings + 1
    /\ poll' = [poll EXCEPT !.pc = "read", !.next = @ + 1]
    /\ UNCHANGED <<deviceVars, state, fanout, writeCh, writer, callVars, reply, written>>

\* The pass is over: it decides on the state alone, whatever writes found.
EndPass ==
    /\ poll.pc = "read"
    /\ poll.next > Len(Points)
    /\ state' = IF poll.hadError THEN "degraded" ELSE "online"
    /\ poll' = [poll EXCEPT !.pc = "wait"]
    /\ UNCHANGED <<deviceVars, readings, fanout, writeCh, writer, callVars, reply, written>>

\* The fan-out goroutine takes a reading; once the context is cancelled its own
\* receivers may be gone, and it stays stuck.
Drain ==
    /\ fanout = "open"
    /\ readings > 0
    /\ readings' = readings - 1
    /\ UNCHANGED <<deviceVars, state, poll, fanout, writeCh, writer, callVars, reply, written>>

StallFanout ==
    /\ ctxDone
    /\ fanout = "open"
    /\ fanout' = "stuck"
    /\ UNCHANGED <<deviceVars, state, poll, readings, writeCh, writer, callVars, reply, written>>

-------------------------------------------------------------------------------
(* The write loop                                                          *)

\* The channel once its first command is received.
AfterTake == Tail(writeCh)

TakeWrite ==
    /\ writer.pc = "wait"
    /\ writeCh # <<>>
    /\ writer' = [pc |-> "exec", for |-> Head(writeCh)]
    /\ writeCh' = AfterTake
    /\ UNCHANGED <<deviceVars, state, pollVars, callVars, reply, written>>

WriterExit ==
    /\ writer.pc = "wait"
    /\ Leaving
    /\ writer' = [pc |-> "exited"]
    /\ UNCHANGED <<deviceVars, state, pollVars, writeCh, callVars, reply, written>>

\* The position, in its command, of the write caller k is at.
At(k) == Len(results[k]) + 1

\* executeWrite: refused for its configuration, or sent to the device.  An answer
\* means that the device carried it out; without one, nobody knows.
ExecuteWrite ==
    /\ writer.pc = "exec"
    /\ LET k == writer.for
           p == Points[writes[k][At(k)]]
       IN  \E res \in IF WriteFC(p) = 0 THEN {"refused"} ELSE {"ok", "failed"},
              carriedOut \in BOOLEAN :
             /\ res = "ok" => carriedOut
             /\ res = "refused" => ~carriedOut
             /\ writer' = [pc |-> "report", for |-> k, res |-> res]
             /\ written' = IF carriedOut THEN [written EXCEPT ![k] = Append(@, At(k))]
                           ELSE written
    /\ UNCHANGED <<deviceVars, state, pollVars, writeCh, callVars, reply>>

\* Faulty variants: the error is not passed on; success is reported at once.
Answer_NoError == IF writer.res = "ok" THEN "ok" ELSE "none"
Answer_Ok      == "ok"

\* What goes to resultCh.
Answer == writer.res

\* An error degrades the device; the caller gets its answer.
ReportWrite ==
    /\ writer.pc = "report"
    /\ state' = IF writer.res = "ok" THEN state ELSE "degraded"
    /\ reply' = [reply EXCEPT ![writer.for] = Answer]
    /\ writer' = [pc |-> "wait"]
    /\ UNCHANGED <<deviceVars, pollVars, writeCh, callVars, written>>

-------------------------------------------------------------------------------
(* The control server: handleCommand of caller k                           *)

\* Caller k goes on to its next write with result res for the current one.
Finish(k, res) ==
    /\ results' = [results EXCEPT ![k] = Append(@, res)]
    /\ call' = [call EXCEPT ![k] = "next"]
    /\ UNCHANGED writes

\* A command for a device in the registry.
ReceiveCommand(k) ==
    /\ call[k] = "idle"
    /\ Registered
    /\ \E ws \in Commands[k] : writes' = [writes EXCEPT ![k] = ws]
    /\ call' = [call EXCEPT ![k] = "next"]
    /\ UNCHANGED <<deviceVars, state, pollVars, writeCh, writer, results, reply, written>>

\* A command for a device that is not in the registry is taken for one of an MQTT
\* device: it is published as it is, and every write counts as done unless there
\* is no publisher or PublishRaw fails.
PublishCommand(k) ==
    /\ call[k] = "idle"
    /\ ~Registered
    /\ \E ws \in Commands[k] :
        /\ writes' = [writes EXCEPT ![k] = ws]
        /\ \E res \in IF HasPublisher THEN {"published", "notPublished"} ELSE {"noPublisher"} :
             results' = [results EXCEPT ![k] = [i \in DOMAIN ws |-> res]]
    /\ call' = [call EXCEPT ![k] = "done"]
    /\ UNCHANGED <<deviceVars, state, pollVars, writeCh, writer, reply, written>>

\* handleModbusCommand: all writes have a result, the response is sent.
Respond(k) ==
    /\ call[k] = "next"
    /\ At(k) > Len(writes[k])
    /\ call' = [call EXCEPT ![k] = "done"]
    /\ UNCHANGED <<deviceVars, state, pollVars, writeCh, writer, writes, results, reply,
                   written>>

\* What handleModbusCommand, then Write, find wrong with point p before the
\* channel; the state is read once, here.
Verdict(p) ==
    IF p = 0 THEN "unknown"
    ELSE IF Points[p].access = "ro" THEN "readOnly"
    ELSE IF state # "online" THEN "offline"
    ELSE "none"

CheckWrite(k) ==
    /\ call[k] = "next"
    /\ At(k) <= Len(writes[k])
    /\ LET verdict == Verdict(writes[k][At(k)]) IN
        IF verdict = "none"
        THEN /\ call' = [call EXCEPT ![k] = "online"]
             /\ UNCHANGED <<writes, results>>
        ELSE Finish(k, verdict)
    /\ UNCHANGED <<deviceVars, state, pollVars, writeCh, writer, reply, written>>

\* Faulty variant of Room: one command too many.
Room_OffByOne == Len(writeCh) <= WriteChCap

Room == Len(writeCh) < WriteChCap

\* The select on writeCh: room, or an error.
EnqueueWrite(k) ==
    /\ call[k] = "online"
    /\ IF Room
       THEN /\ writeCh' = Append(writeCh, k)
            /\ call' = [call EXCEPT ![k] = "wait"]
            /\ UNCHANGED <<writes, results>>
       ELSE Finish(k, "full") /\ UNCHANGED writeCh
    /\ UNCHANGED <<deviceVars, state, pollVars, writer, reply, written>>

\* <-cmd.resultCh
TakeReply(k) ==
    /\ call[k] = "wait"
    /\ reply[k] # "none"
    /\ Finish(k, reply[k])
    /\ reply' = [reply EXCEPT ![k] = "none"]
    /\ UNCHANGED <<deviceVars, state, pollVars, writeCh, writer, written>>

-------------------------------------------------------------------------------
LifeStep == RegisterRuntime \/ Start \/ StartFails \/ CloseStopCh \/ CloseConnection \/ Unregister
PollStep == PollTick \/ PollExit \/ PollPoint \/ SendReading \/ EndPass
WriterStep == TakeWrite \/ WriterExit \/ ExecuteWrite \/ ReportWrite
CallerStep(k) == Respond(k) \/ CheckWrite(k) \/ EnqueueWrite(k) \/ TakeReply(k)

Next ==
    \/ LifeStep
    \/ CancelContext
    \/ PollStep
    \/ Drain
    \/ StallFanout
    \/ WriterStep
    \/ \E k \in Caller : ReceiveCommand(k) \/ PublishCommand(k) \/ CallerStep(k)

Spec == Init /\ [][Next]_vars

\* Goroutines that can run are run.  A select with several ready cases picks one
\* at random, so that a loop that should leave does not tick for ever, and a
\* write is not passed over for ever.
FairSpec ==
    /\ Spec
    /\ WF_vars(LifeStep)
    /\ WF_vars(PollStep)
    /\ SF_vars(PollExit)
    /\ WF_vars(WriterStep)
    /\ SF_vars(WriterExit)
    /\ WF_vars(Drain)
    /\ \A k \in Caller : WF_vars(CallerStep(k))
-------------------------------------------------------------------------------
(* Properties                                                              *)

\* The write caller k is at has an outcome among some, its caller not knowing yet.
HasAnswer(k, some) ==
    \/ writer.pc = "report" /\ writer.for = k /\ writer.res \in some
    \/ reply[k] \in some

\* The writes of caller k that were, or are about to be, reported with an outcome
\* among some.
Answered(k, some) ==
    {i \in DOMAIN results[k] : results[k][i] \in some}
        \cup (IF HasAnswer(k, some) THEN {At(k)} ELSE {})

\* The device carried out every write that is reported as done, and no write that
\* was never sent to it: not one for an unknown or read-only point, a device that
\* is offline, a full channel or a refused configuration.  Of a write reported as
\* failed nothing is promised but that it happens at most once, like any other,
\* and in the order of the command (modbus_runtime.go:214-223, control.go:100-119).
ReportedAsWritten ==
    \A k \in Caller :
        LET done == {written[k][i] : i \in DOMAIN written[k]} IN
        /\ Answered(k, {"ok"}) \subseteq done
        /\ done \subseteq Answered(k, {"ok", "failed"})
        /\ \A i, j \in DOMAIN written[k] : i < j => written[k][i] < written[k][j]

\* When the connection is closed neither loop can use it any more.
ClosedIsQuiet ==
    life \in {"closed", "ended"} =>
        poll.pc \in {"off", "exited"} /\ writer.pc \in {"off", "exited"}

\* While the process runs, every write that got into the channel is answered.
WriteIsAnswered == \A k \in Caller : call[k] = "wait" ~> call[k] # "wait" \/ ctxDone

\* The device comes to its end after the context is cancelled, unless the fan-out
\* stopped taking readings.
StopCompletes == ctxDone ~> life = "ended" \/ fanout = "stuck"
===============================================================================
