---------------------------- MODULE ClientPipeline ----------------------------
(***************************************************************************)
(* How a reading gets from a device of the gateway into SQLite: MainFunc's  *)
(* goroutines and channels.  Poll loops and MQTT handlers send to ch, the   *)
(* fan-out copies ch to pubCh and to localCh, one goroutine publishes, and  *)
(* consumeAndWrite batches what it receives into the cache.  And how all of *)
(* them come to an end when the context is cancelled.                       *)
(***************************************************************************)
EXTENDS Integers, Sequences

CONSTANTS
    Poll,          \* poll loops of Modbus devices
    Handler,       \* MQTT clients, whose publications the broker handles
    MaxReadings,   \* bound: readings ever taken; they are numbered in order
    BufferSize,    \* cfg.BufferSize, the capacity of ch, pubCh and localCh
    BatchSize,     \* batchSize of consumeAndWrite
    MaxSaveFails   \* bound: SaveReadings that fail before the context is cancelled

ASSUME PipelineAssumption ==
    /\ Poll \cap Handler = {}
    /\ MaxReadings \in Nat
    /\ BufferSize \in Nat \ {0}
    /\ BatchSize \in Nat \ {0}
    /\ MaxSaveFails \in Nat

Producer == Poll \cup Handler
Reading  == 1..MaxReadings

\* cfg.Mqtt is configured: there is a broker, and a publisher connected to it.
HasBroker == Handler # {}

Nothing == 0   \* no reading in hand

VARIABLES
    ctxDone,    \* the context is cancelled
    by,         \* history: the producer of each reading taken so far, in order
    hand,       \* the reading each producer is sending, or Nothing
    gone,       \* poll loops that have returned
    broker,     \* StartMqttBroker: "up", "closing" or "closed"
    ch,         \* the channel of all producers
    chClosed,
    fan,        \* the fan-out: where it is, the reading in its hand
    pubCh,
    localCh,    \* both are closed when the fan-out is done
    pub,        \* the publishing goroutine: where it is, its reading
    writer,     \* consumeAndWrite: "run" or "done"
    buffer,     \* its buffer
    saved,      \* the rows of the cache, in order of their ids
    saveFails,  \* saves that may still fail
    main        \* MainFunc: "wait" or "returned"

producerVars == <<by, hand, gone, broker>>
fanVars      == <<ch, chClosed, fan>>
writerVars   == <<writer, buffer, saved, saveFails>>
vars == <<ctxDone, producerVars, fanVars, pubCh, localCh, pub, writerVars, main>>

TypeOK ==
    /\ ctxDone \in BOOLEAN
    /\ by \in Seq(Producer) /\ Len(by) <= MaxReadings
    /\ hand \in [Producer -> Reading \cup {Nothing}]
    /\ gone \in SUBSET Poll
    /\ broker \in {"up", "closing", "closed"}
    /\ ch \in Seq(Reading) /\ Len(ch) <= BufferSize
    /\ chClosed \in BOOLEAN
    /\ fan \in [pc : {"recv", "pub", "local", "done"}, r : Reading \cup {Nothing}]
    /\ pubCh \in Seq(Reading) /\ Len(pubCh) <= BufferSize
    /\ localCh \in Seq(Reading) /\ Len(localCh) <= BufferSize
    /\ pub \in [pc : {"recv", "publish", "done"}, r : Reading \cup {Nothing}]
    /\ writer \in {"run", "done"}
    /\ buffer \in Seq(Reading)
    /\ saved \in Seq(Reading)
    /\ saveFails \in 0..MaxSaveFails
    /\ main \in {"wait", "returned"}

Init ==
    /\ ctxDone = FALSE
    /\ by = <<>>
    /\ hand = [p \in Producer |-> Nothing]
    /\ gone = {}
    /\ broker = IF HasBroker THEN "up" ELSE "closed"
    /\ ch = <<>>
    /\ chClosed = FALSE
    /\ fan = [pc |-> "recv", r |-> Nothing]
    /\ pubCh = <<>>
    /\ localCh = <<>>
    /\ pub = [pc |-> "recv", r |-> Nothing]
    /\ writer = "run"
    /\ buffer = <<>>
    /\ saved = <<>>
    /\ saveFails = MaxSaveFails
    /\ main = "wait"

\* Faulty variant of Room: one more than the channel holds.
Room_OffByOne(channel) == Len(channel) <= BufferSize

\* A send on the channel does not block.
Room(channel) == Len(channel) < BufferSize

CancelContext ==
    /\ ~ctxDone
    /\ ctxDone' = TRUE
    /\ UNCHANGED <<producerVars, fanVars, pubCh, localCh, pub, writerVars, main>>

-------------------------------------------------------------------------------
(* Producers                                                               *)

\* A producer that takes readings: a poll loop that has not returned (its select
\* may choose the ticker after the context is cancelled), or an MQTT client while
\* the broker is up.
Takes(p) == IF p \in Poll THEN p \notin gone ELSE broker = "up"

\* pollOnce or handleMqttReading has a new reading for ch.
TakeReading(p) ==
    /\ Takes(p)
    /\ hand[p] = Nothing
    /\ Len(by) < MaxReadings
    /\ by' = Append(by, p)
    /\ hand' = [hand EXCEPT ![p] = Len(by) + 1]
    /\ UNCHANGED <<ctxDone, gone, broker, fanVars, pubCh, localCh, pub, writerVars, main>>

\* ch <- reading, in both without a look at the context.
SendReading(p) ==
    /\ hand[p] # Nothing
    /\ Room(ch)
    /\ ch' = Append(ch, hand[p])
    /\ hand' = [hand EXCEPT ![p] = Nothing]
    /\ UNCHANGED <<ctxDone, by, gone, broker, chClosed, fan, pubCh, localCh, pub,
                   writerVars, main>>

\* Faulty variant of Leaving: the loop does not watch the context.
Leaving_Never == FALSE

Leaving == ctxDone

\* A poll loop, and with it ModbusDevicePolling, returns.
PollReturns(p) ==
    /\ p \notin gone
    /\ hand[p] = Nothing
    /\ Leaving
    /\ gone' = gone \cup {p}
    /\ UNCHANGED <<ctxDone, by, hand, broker, fanVars, pubCh, localCh, pub, writerVars, main>>

\* StartMqttBroker: server.Close.
CloseBroker ==
    /\ broker = "up"
    /\ ctxDone
    /\ broker' = "closing"
    /\ UNCHANGED <<ctxDone, by, hand, gone, fanVars, pubCh, localCh, pub, writerVars, main>>

\* server.Close returns when its clients, and so their handlers, are through.
BrokerReturns ==
    /\ broker = "closing"
    /\ \A h \in Handler : hand[h] = Nothing
    /\ broker' = "closed"
    /\ UNCHANGED <<ctxDone, by, hand, gone, fanVars, pubCh, localCh, pub, writerVars, main>>

\* producerWg.Wait() is over: close(ch).
CloseCh ==
    /\ ~chClosed
    /\ gone = Poll
    /\ broker = "closed"
    /\ chClosed' = TRUE
    /\ UNCHANGED <<ctxDone, producerVars, ch, fan, pubCh, localCh, pub, writerVars, main>>

-------------------------------------------------------------------------------
(* The fan-out and the publishing goroutine                                *)

FanReceive ==
    /\ fan.pc = "recv"
    /\ ch # <<>>
    /\ fan' = [pc |-> "pub", r |-> Head(ch)]
    /\ ch' = Tail(ch)
    /\ UNCHANGED <<ctxDone, producerVars, chClosed, pubCh, localCh, pub, writerVars, main>>

FanToPub ==
    /\ fan.pc = "pub"
    /\ Room(pubCh)
    /\ pubCh' = Append(pubCh, fan.r)
    /\ fan' = [fan EXCEPT !.pc = "local"]
    /\ UNCHANGED <<ctxDone, producerVars, ch, chClosed, localCh, pub, writerVars, main>>

FanToLocal ==
    /\ fan.pc = "local"
    /\ Room(localCh)
    /\ localCh' = Append(localCh, fan.r)
    /\ fan' = [pc |-> "recv", r |-> Nothing]
    /\ UNCHANGED <<ctxDone, producerVars, ch, chClosed, pubCh, pub, writerVars, main>>

\* ch is closed and empty: the deferred closes of localCh and pubCh.
FanReturns ==
    /\ fan.pc = "recv"
    /\ ch = <<>>
    /\ chClosed
    /\ fan' = [fan EXCEPT !.pc = "done"]
    /\ UNCHANGED <<ctxDone, producerVars, ch, chClosed, pubCh, localCh, pub, writerVars, main>>

PubReceive ==
    /\ pub.pc = "recv"
    /\ pubCh # <<>>
    /\ pub' = IF HasBroker THEN [pc |-> "publish", r |-> Head(pubCh)] ELSE pub
    /\ pubCh' = Tail(pubCh)
    /\ UNCHANGED <<ctxDone, producerVars, fanVars, localCh, writerVars, main>>

\* PublishReading returns, with an error or without; an error is only logged.
\* Its token need not complete once the broker is gone.
PublishReturns ==
    /\ pub.pc = "publish"
    /\ pub' = [pc |-> "recv", r |-> Nothing]
    /\ UNCHANGED <<ctxDone, producerVars, fanVars, pubCh, localCh, writerVars, main>>

PubReturns ==
    /\ pub.pc = "recv"
    /\ pubCh = <<>>
    /\ fan.pc = "done"
    /\ pub' = [pub EXCEPT !.pc = "done"]
    /\ UNCHANGED <<ctxDone, producerVars, fanVars, pubCh, localCh, writerVars, main>>

-------------------------------------------------------------------------------
(* consumeAndWrite                                                         *)

\* Faulty variants: a buffer that is kept after it was saved, one that is
\* emptied although it was not.
AfterSave_Kept(buf)       == buf
AfterFailedSave_Lost(buf) == <<>>

\* The buffer after SaveReadings.
AfterSave(buf)       == <<>>
AfterFailedSave(buf) == buf

\* flush with buf in the buffer: nothing to do, or SaveReadings succeeds, or it
\* fails; with the context cancelled it always fails.
Flush(buf) ==
    \/ /\ buf = <<>>
       /\ buffer' = buf
       /\ UNCHANGED <<saved, saveFails>>
    \/ /\ buf # <<>> /\ ~ctxDone
       /\ saved' = saved \o buf
       /\ buffer' = AfterSave(buf)
       /\ UNCHANGED saveFails
    \/ /\ buf # <<>> /\ (ctxDone \/ saveFails > 0)
       /\ saveFails' = IF ctxDone THEN saveFails ELSE saveFails - 1
       /\ buffer' = AfterFailedSave(buf)
       /\ UNCHANGED saved

\* A reading comes in; a full batch is flushed.
WriterReceive ==
    /\ writer = "run"
    /\ localCh # <<>>
    /\ localCh' = Tail(localCh)
    /\ LET buf == Append(buffer, Head(localCh)) IN
        IF Len(buf) >= BatchSize THEN Flush(buf)
        ELSE buffer' = buf /\ UNCHANGED <<saved, saveFails>>
    /\ UNCHANGED <<ctxDone, producerVars, fanVars, pubCh, pub, writer, main>>

\* Faulty variant of Due: a tick flushes only what is a batch already.
Due_FullBatch == Len(buffer) >= BatchSize

\* What a tick of the 30 s ticker flushes.
Due == buffer # <<>>

TickFlush ==
    /\ writer = "run"
    /\ Due
    /\ Flush(buffer)
    /\ UNCHANGED <<ctxDone, producerVars, fanVars, pubCh, localCh, pub, writer, main>>

\* localCh is closed and empty, or the context is cancelled: a last flush.
WriterReturns ==
    /\ writer = "run"
    /\ ctxDone \/ (fan.pc = "done" /\ localCh = <<>>)
    /\ Flush(buffer)
    /\ writer' = "done"
    /\ UNCHANGED <<ctxDone, producerVars, fanVars, pubCh, localCh, pub, main>>

\* mainWg.Wait() is over (the session goroutine aside).
MainReturns ==
    /\ main = "wait"
    /\ chClosed
    /\ fan.pc = "done"
    /\ pub.pc = "done"
    /\ writer = "done"
    /\ main' = "returned"
    /\ UNCHANGED <<ctxDone, producerVars, fanVars, pubCh, localCh, pub, writerVars>>

-------------------------------------------------------------------------------
ProducerEnds == (\E p \in Poll : PollReturns(p)) \/ CloseBroker \/ BrokerReturns \/ CloseCh
FanStep      == FanReceive \/ FanToPub \/ FanToLocal \/ FanReturns
WriterStep   == WriterReceive \/ TickFlush \/ WriterReturns

Next ==
    \/ CancelContext
    \/ \E p \in Producer : TakeReading(p) \/ SendReading(p)
    \/ ProducerEnds
    \/ FanStep
    \/ PubReceive \/ PublishReturns \/ PubReturns
    \/ WriterStep
    \/ MainReturns

Spec == Init /\ [][Next]_vars

\* Goroutines that can run are run, a select does not pass over a case for ever,
\* and a publication completes as long as the broker is there.
FairSpec ==
    /\ Spec
    /\ \A p \in Producer : WF_vars(SendReading(p))
    /\ \A p \in Poll : SF_vars(PollReturns(p))
    /\ WF_vars(CloseBroker) /\ WF_vars(BrokerReturns) /\ WF_vars(CloseCh)
    /\ WF_vars(FanStep)
    /\ WF_vars(PubReceive \/ PubReturns)
    /\ SF_vars(broker = "up" /\ PublishReturns)
    /\ WF_vars(WriterReceive) /\ WF_vars(TickFlush) /\ SF_vars(WriterReturns)
    /\ WF_vars(MainReturns)
-------------------------------------------------------------------------------
(* Properties                                                              *)

\* The way to the cache, from its end: the rows, then what will follow them as
\* long as consumeAndWrite runs.  What it leaves behind is on no way any more: not
\* its buffer, which the last flush fails to save, nor what the channels hold.
Path ==
    saved \o (IF writer = "run"
              THEN buffer \o localCh
                     \o (IF fan.pc \in {"pub", "local"} THEN <<fan.r>> ELSE <<>>) \o ch
              ELSE <<>>)

OnPath(r) == \E i \in DOMAIN Path : Path[i] = r

\* On its way to the cache no reading is duplicated, and the readings of one
\* producer stay in the order they were taken in, failed saves included.
InOrderOnce ==
    \A i, j \in DOMAIN Path :
        i < j /\ by[Path[i]] = by[Path[j]] => Path[i] < Path[j]

\* While consumeAndWrite runs a reading that was taken is in its producer's hand
\* or on the way to the cache, so neither a channel nor a failed save loses one.
\* Readings are lost when the gateway stops (client.go:231-233) and only then, and
\* then the newest of a producer: the cache never misses one between two others.
LostOnlyOnStop ==
    /\ \A r \in 1..Len(by) :
          \/ writer = "run" /\ hand[by[r]] = r
          \/ OnPath(r)
          \/ writer = "done" /\ ctxDone
    /\ \A i \in DOMAIN Path : \A r \in 1..Len(by) :
          by[r] = by[Path[i]] /\ r < Path[i] => OnPath(r)

\* What README.md says of the cache, for a gateway that stops: when MainFunc has
\* returned every reading is in SQLite.  It is not (client.go:231-233).
SavedAtTheEnd ==
    main = "returned" => \A r \in 1..Len(by) : \E i \in DOMAIN saved : saved[i] = r

\* Until the gateway is told to stop every reading taken gets into the cache.
SavedUnlessStopped ==
    \A r \in Reading :
        Len(by) >= r ~> ctxDone \/ \E i \in DOMAIN saved : saved[i] = r

\* consumeAndWrite has returned and the fan-out waits for it for ever.
StuckOnLocal == writer = "done" /\ fan.pc = "local" /\ ~Room(localCh)

\* The publisher waits for a broker that is being, or is, closed.
StuckOnPublish == pub.pc = "publish" /\ broker # "up"

\* The gateway stops when it is told to, unless it hangs in one of two ways.
StopsOrKnownHang == ctxDone ~> main = "returned" \/ StuckOnLocal \/ StuckOnPublish
===============================================================================
