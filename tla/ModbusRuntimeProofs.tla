-------------------------- MODULE ModbusRuntimeProofs -------------------------
(***************************************************************************)
(* Proofs about ModbusRuntime for any number of callers, all points and     *)
(* commands, and every capacity of its channels.                            *)
(***************************************************************************)
EXTENDS ModbusRuntime, SequenceTheorems, TLAPS

\* What appending to a sequence makes of it.
LEMMA AppendIs ==
    ASSUME NEW S, NEW q \in Seq(S), NEW e \in S
    PROVE  /\ Append(q, e) \in Seq(S) /\ Len(q) \in Nat /\ Len(Append(q, e)) = Len(q) + 1
           /\ DOMAIN q = 1..Len(q) /\ DOMAIN Append(q, e) = 1..(Len(q) + 1)
           /\ \A i \in 1..Len(q) : Append(q, e)[i] = q[i]
           /\ Append(q, e)[Len(q) + 1] = e
  BY AppendProperties, LenProperties

\* What taking the first element of a sequence leaves of it.
LEMMA TailIs ==
    ASSUME NEW S, NEW q \in Seq(S), q # <<>>
    PROVE  /\ Head(q) \in S /\ Tail(q) \in Seq(S) /\ Len(q) \in Nat /\ Len(q) >= 1
           /\ Len(Tail(q)) = Len(q) - 1 /\ Head(q) = q[1]
           /\ DOMAIN q = 1..Len(q) /\ DOMAIN Tail(q) = 1..(Len(q) - 1)
           /\ \A i \in 1..(Len(q) - 1) : Tail(q)[i] = q[i + 1]
  <1>1. /\ Head(q) \in S /\ Tail(q) \in Seq(S) /\ Len(q) \in Nat /\ Len(q) >= 1
        /\ Len(Tail(q)) = Len(q) - 1 /\ Head(q) = q[1]
        /\ \A i \in 1..Len(Tail(q)) : Tail(q)[i] = q[i + 1]
    BY HeadTailProperties, EmptySeq, LenProperties
  <1>2. DOMAIN q = 1..Len(q) /\ DOMAIN Tail(q) = 1..Len(Tail(q))
    BY <1>1, LenProperties
  <1> QED BY <1>1, <1>2

-------------------------------------------------------------------------------
(* Type correctness                                                        *)

\* The write loop has a caller's write in its hands.
InHand(k) == writer.pc \in {"exec", "report"} /\ writer.for = k

\* A write that is answered has its caller and its outcome with it.
LEMMA WriterIs ==
    ASSUME TypeOK
    PROVE  /\ writer.pc \in {"off", "wait", "exited", "exec", "report"}
           /\ writer.pc \in {"exec", "report"} => writer.for \in Caller
           /\ writer.pc = "report" => writer.res \in Replies
  BY DEF TypeOK

\* The states of the poll loop.
PollState == [pc : {"off", "wait", "read", "send", "exited"},
              next : 1..(Len(Points) + 1), hadError : BOOLEAN]

\* What the poll loop changes of its state.
LEMMA PollChanges ==
    ASSUME NEW r \in PollState, NEW place \in {"off", "wait", "read", "send", "exited"}
    PROVE  /\ [r EXCEPT !.pc = place] \in PollState
           /\ \A n \in 1..(Len(Points) + 1) :
                /\ [r EXCEPT !.next = n] \in PollState
                /\ [r EXCEPT !.next = n, !.hadError = TRUE] \in PollState
                /\ [r EXCEPT !.pc = place, !.next = n] \in PollState
  BY DEF PollState

\* The next result of a caller is of the right type.
LEMMA FinishTypes ==
    ASSUME TypeOK, NEW k \in Caller, NEW res \in Results, Finish(k, res)
    PROVE  /\ results' \in [Caller -> Seq(Results)] /\ writes' = writes
           /\ call' \in [Caller -> {"idle", "next", "online", "wait", "done"}]
  <1>1. Append(results[k], res) \in Seq(Results)
    BY AppendIs DEF TypeOK
  <1> QED BY <1>1 DEF Finish, TypeOK

\* A reading that is being sent is one of a point.
SendHasPoint == poll.pc = "send" => poll.next <= Len(Points)

TypeInv == TypeOK /\ SendHasPoint

\* Nothing of the device exists before ModbusDevicePolling runs.
LEMMA TypeInit == ASSUME RuntimeAssumption, Init PROVE TypeInv
  <1>1. /\ <<>> \in Seq(Caller) /\ <<>> \in Seq(0..Len(Points)) /\ <<>> \in Seq(Results)
        /\ <<>> \in Seq(Nat) /\ Len(<<>>) = 0
    OBVIOUS
  <1>2. Len(Points) \in Nat /\ WriteChCap \in Nat /\ BufferSize \in Nat
    BY LenProperties DEF RuntimeAssumption
  <1>3. /\ poll \in [pc : {"off", "wait", "read", "send", "exited"},
                     next : 1..(Len(Points) + 1), hadError : BOOLEAN]
        /\ writer \in [pc : {"off", "wait", "exited"}]
    BY <1>2 DEF Init
  <1>4. /\ call \in [Caller -> {"idle", "next", "online", "wait", "done"}]
        /\ writes \in [Caller -> Seq(0..Len(Points))] /\ results \in [Caller -> Seq(Results)]
        /\ reply \in [Caller -> Replies \cup {"none"}] /\ written \in [Caller -> Seq(Nat)]
        /\ writeCh \in Seq(Caller) /\ Len(writeCh) <= WriteChCap
    BY <1>1, <1>2 DEF Init
  <1>5. /\ life = "new" /\ ctxDone = FALSE /\ stopClosed = FALSE /\ state = "offline"
        /\ readings \in 0..BufferSize /\ fanout = "open"
    BY <1>2 DEF Init
  <1> QED BY <1>3, <1>4, <1>5 DEF Init, TypeInv, TypeOK, SendHasPoint

\* Every step keeps the types.
LEMMA TypeStep ==
    ASSUME RuntimeAssumption, TypeInv, [Next]_vars
    PROVE  TypeInv'
  <1> USE DEF deviceVars, pollVars, callVars
  <1>0. /\ Len(Points) \in Nat /\ WriteChCap \in Nat \ {0} /\ BufferSize \in Nat \ {0}
        /\ Commands \in [Caller -> SUBSET Seq(0..Len(Points))]
        /\ TypeOK /\ SendHasPoint
    BY LenProperties DEF RuntimeAssumption, TypeInv
  <1>s. SendHasPoint'
    <2>1. poll' = poll => SendHasPoint'
      BY <1>0 DEF SendHasPoint
    <2>2. LifeStep => poll' = poll \/ poll' = [poll EXCEPT !.pc = "wait"]
      BY DEF LifeStep, RegisterRuntime, Start, StartFails, CloseStopCh, CloseConnection, Unregister
    <2>3. PollStep => poll'.pc # "send" \/ (poll.next <= Len(Points) /\ poll'.next = poll.next)
      <3>1. PollTick \/ PollExit \/ SendReading \/ EndPass => poll'.pc # "send"
        <4>1. PollTick => poll'.pc = "read"
          BY DEF PollTick
        <4>2. PollExit \/ EndPass => poll'.pc \in {"exited", "wait"}
          BY <1>0 DEF PollExit, EndPass, TypeOK
        <4>3. SendReading => poll'.pc = "read"
          BY <1>0 DEF SendReading, TypeOK
        <4> QED BY <4>1, <4>2, <4>3
      <3>2. PollPoint => poll'.pc # "send" \/ (poll.next <= Len(Points) /\ poll'.next = poll.next)
        BY <1>0 DEF PollPoint, TypeOK
      <3> QED BY <3>1, <3>2 DEF PollStep
    <2>4. poll' = [poll EXCEPT !.pc = "wait"] => poll'.pc = "wait"
      BY <1>0 DEF TypeOK
    <2>5. \/ CancelContext \/ Drain \/ StallFanout \/ WriterStep \/ UNCHANGED vars
          \/ \E k \in Caller : ReceiveCommand(k) \/ PublishCommand(k) \/ CallerStep(k)
          => poll' = poll
      BY DEF CancelContext, Drain, StallFanout, WriterStep, TakeWrite, WriterExit, ExecuteWrite,
             ReportWrite, ReceiveCommand, PublishCommand, CallerStep, Respond, CheckWrite,
             EnqueueWrite, TakeReply, vars
    <2> QED BY <2>1, <2>2, <2>3, <2>4, <2>5 DEF Next, SendHasPoint
  <1> SUFFICES TypeOK'
    BY <1>s DEF TypeInv
  <1>1. CASE LifeStep \/ CancelContext
    <2>1. /\ life' \in {"new", "registered", "running", "stopping", "closed", "ended"}
          /\ ctxDone' \in BOOLEAN /\ stopClosed' \in BOOLEAN
          /\ state' \in {"offline", "online", "degraded"}
          /\ poll' = poll \/ poll' = [poll EXCEPT !.pc = "wait"]
          /\ writer' = writer \/ writer' = [pc |-> "wait"]
          /\ UNCHANGED <<readings, fanout, writeCh, callVars, reply, written>>
      BY <1>0, <1>1 DEF LifeStep, RegisterRuntime, Start, StartFails, CancelContext, CloseStopCh,
                  CloseConnection, Unregister, TypeOK
    <2>2. poll' \in [pc : {"off", "wait", "read", "send", "exited"},
                     next : 1..(Len(Points) + 1), hadError : BOOLEAN]
      BY <1>0, <2>1 DEF TypeOK
    <2> QED BY <1>0, <2>1, <2>2 DEF TypeOK
  <1>2. CASE PollStep \/ Drain \/ StallFanout
    <2>0. poll \in PollState /\ poll.next \in 1..(Len(Points) + 1)
      BY <1>0 DEF TypeOK, PollState
    <2>1. poll' \in PollState
      <3>1. CASE PollTick
        BY <1>0, <3>1, SMTT(60) DEF PollTick, PollState
      <3>2. CASE PollExit \/ EndPass
        <4>1. poll' = [poll EXCEPT !.pc = "exited"] \/ poll' = [poll EXCEPT !.pc = "wait"]
          BY <3>2 DEF PollExit, EndPass
        <4> QED BY <2>0, <4>1, PollChanges, ZenonT(60)
      <3>3. CASE PollPoint
        <4>1. poll.next + 1 \in 1..(Len(Points) + 1)
          BY <1>0, <2>0, <3>3 DEF PollPoint
        <4>2. \/ poll' = [poll EXCEPT !.next = poll.next + 1]
              \/ poll' = [poll EXCEPT !.next = poll.next + 1, !.hadError = TRUE]
              \/ poll' = [poll EXCEPT !.pc = "send"]
          BY <3>3 DEF PollPoint
        <4> QED BY <2>0, <4>1, <4>2, PollChanges, ZenonT(60)
      <3>4. CASE SendReading
        <4>1. poll' = [poll EXCEPT !.pc = "read", !.next = poll.next + 1]
          BY <3>4 DEF SendReading
        <4>2. poll.next + 1 \in 1..(Len(Points) + 1)
          BY <1>0, <2>0, <3>4 DEF SendReading, SendHasPoint
        <4> QED BY <2>0, <4>1, <4>2, PollChanges
      <3>5. CASE Drain \/ StallFanout
        BY <2>0, <3>5 DEF Drain, StallFanout
      <3> QED BY <1>2, <3>1, <3>2, <3>3, <3>4, <3>5 DEF PollStep
    <2>2. /\ readings' \in 0..BufferSize /\ fanout' \in {"open", "stuck"}
          /\ state' \in {"offline", "online", "degraded"}
          /\ UNCHANGED <<deviceVars, writeCh, writer, callVars, reply, written>>
      BY <1>0, <1>2 DEF PollStep, PollTick, PollExit, EndPass, PollPoint, SendReading, Drain,
                        StallFanout, TypeOK
    <2> QED BY <1>0, <2>1, <2>2 DEF TypeOK, PollState
  <1>3. CASE TakeWrite \/ WriterExit
    <2>1. CASE TakeWrite
      <3>1. writeCh # <<>> /\ writer' = [pc |-> "exec", for |-> Head(writeCh)] /\ writeCh' = Tail(writeCh)
        BY <2>1 DEF TakeWrite, AfterTake
      <3>2. /\ Head(writeCh) \in Caller /\ Tail(writeCh) \in Seq(Caller)
            /\ Len(Tail(writeCh)) <= WriteChCap
        BY <1>0, <3>1, TailIs DEF TypeOK
      <3> QED BY <1>0, <2>1, <3>1, <3>2 DEF TakeWrite, TypeOK
    <2>2. CASE WriterExit
      BY <1>0, <2>2 DEF WriterExit, TypeOK
    <2> QED BY <1>3, <2>1, <2>2
  <1>4. CASE ExecuteWrite
    <2>1. PICK res \in {"ok", "refused", "failed"}, carriedOut \in BOOLEAN :
            /\ writer' = [pc |-> "report", for |-> writer.for, res |-> res]
            /\ written' = IF carriedOut THEN [written EXCEPT ![writer.for] = Append(@, At(writer.for))]
                          ELSE written
      BY <1>4 DEF ExecuteWrite
    <2>2. writer.for \in Caller
      BY <1>0, <1>4, WriterIs DEF ExecuteWrite
    <2>3. At(writer.for) \in Nat
      BY <1>0, <2>2, LenProperties DEF At, TypeOK
    <2>4. Append(written[writer.for], At(writer.for)) \in Seq(Nat)
      BY <1>0, <2>2, <2>3, AppendIs DEF TypeOK
    <2>5. written' \in [Caller -> Seq(Nat)]
      BY <1>0, <2>1, <2>2, <2>4 DEF TypeOK
    <2>6. writer' \in [pc : {"report"}, for : Caller, res : Replies]
      BY <2>1, <2>2 DEF Replies
    <2> QED BY <1>0, <1>4, <2>5, <2>6, ZenonT(60) DEF ExecuteWrite, TypeOK
  <1>5. CASE ReportWrite
    <2>1. writer.for \in Caller /\ writer.res \in Replies
      BY <1>0, <1>5, WriterIs DEF ReportWrite
    <2>2. /\ reply' \in [Caller -> Replies \cup {"none"}] /\ writer' \in [pc : {"off", "wait", "exited"}]
          /\ state' \in {"offline", "online", "degraded"}
      BY <1>0, <1>5, <2>1 DEF ReportWrite, Answer, TypeOK
    <2> QED BY <1>0, <1>5, <2>2 DEF ReportWrite, TypeOK
  <1>6. ASSUME NEW k \in Caller, ReceiveCommand(k) \/ PublishCommand(k)
        PROVE  TypeOK'
    <2>1. PICK ws \in Commands[k], v \in Results :
            /\ writes' = [writes EXCEPT ![k] = ws]
            /\ \/ results' = results
               \/ results' = [results EXCEPT ![k] = [i \in DOMAIN ws |-> v]]
      BY <1>6 DEF ReceiveCommand, PublishCommand, Results, Errors
    <2>2. ws \in Seq(0..Len(Points))
      BY <1>0
    <2>3. [i \in DOMAIN ws |-> v] \in Seq(Results)
      <3>1. DOMAIN ws = 1..Len(ws) /\ Len(ws) \in Nat
        BY <2>2, LenProperties
      <3> DEFINE n == Len(ws)
      <3>2. n \in Nat /\ v \in Results
        BY <3>1
      <3> HIDE DEF n
      <3>3. [i \in 1..n |-> v] \in Seq(Results)
        BY <3>2, IsASeq
      <3> QED BY <3>1, <3>3 DEF n
    <2>4. writes' \in [Caller -> Seq(0..Len(Points))] /\ results' \in [Caller -> Seq(Results)]
      <3>1. writes' \in [Caller -> Seq(0..Len(Points))]
        BY <1>0, <2>1, <2>2 DEF TypeOK
      <3> DEFINE all == [i \in DOMAIN ws |-> v]
      <3>2. all \in Seq(Results) /\ (results' = results \/ results' = [results EXCEPT ![k] = all])
        BY <2>1, <2>3
      <3> HIDE DEF all
      <3>3. results' \in [Caller -> Seq(Results)]
        BY <1>0, <3>2 DEF TypeOK
      <3> QED BY <3>1, <3>3
    <2>5. /\ call' \in [Caller -> {"idle", "next", "online", "wait", "done"}]
          /\ UNCHANGED <<deviceVars, state, pollVars, writeCh, writer, reply, written>>
      BY <1>0, <1>6 DEF ReceiveCommand, PublishCommand, TypeOK
    <2> QED BY <1>0, <2>4, <2>5, SMTT(60) DEF TypeOK
  <1>7. ASSUME NEW k \in Caller, Respond(k) \/ CheckWrite(k)
        PROVE  TypeOK'
    <2>1. CASE Respond(k)
      BY <1>0, <2>1 DEF Respond, TypeOK
    <2>2. CASE CheckWrite(k)
      <3> DEFINE verdict == Verdict(writes[k][At(k)])
      <3>1. verdict \in Results \cup {"none"}
        BY DEF Verdict, Results, Errors
      <3>2. CASE verdict = "none"
        <4>1. /\ call' = [call EXCEPT ![k] = "online"]
              /\ UNCHANGED <<deviceVars, state, pollVars, writeCh, writer, writes, results, reply,
                             written>>
          BY <2>2, <3>2 DEF CheckWrite
        <4> QED BY <1>0, <4>1 DEF TypeOK
      <3>3. CASE verdict # "none"
        <4>1. Finish(k, verdict) /\ verdict \in Results
          BY <2>2, <3>1, <3>3 DEF CheckWrite
        <4> HIDE DEF verdict
        <4>2. /\ results' \in [Caller -> Seq(Results)] /\ writes' = writes
              /\ call' \in [Caller -> {"idle", "next", "online", "wait", "done"}]
          BY <1>0, <4>1, FinishTypes
        <4> QED BY <1>0, <2>2, <4>2, SMTT(60) DEF CheckWrite, TypeOK
      <3> QED BY <3>2, <3>3
    <2> QED BY <1>7, <2>1, <2>2
  <1>8. ASSUME NEW k \in Caller, EnqueueWrite(k)
        PROVE  TypeOK'
    <2>1. CASE Room
      <3>1. Append(writeCh, k) \in Seq(Caller) /\ Len(Append(writeCh, k)) = Len(writeCh) + 1
        BY <1>0, AppendIs DEF TypeOK
      <3>2. Len(writeCh) \in Nat /\ Len(writeCh) < WriteChCap
        BY <1>0, <2>1, LenProperties DEF Room, TypeOK
      <3>3. writeCh' = Append(writeCh, k) /\ UNCHANGED <<writes, results>>
        BY <1>8, <2>1 DEF EnqueueWrite
      <3>4. writeCh' \in Seq(Caller) /\ Len(writeCh') <= WriteChCap
        BY <1>0, <3>1, <3>2, <3>3
      <3>5. /\ call' = [call EXCEPT ![k] = "wait"]
            /\ UNCHANGED <<deviceVars, state, pollVars, writer, writes, results, reply, written>>
        BY <1>8, <2>1 DEF EnqueueWrite
      <3> QED BY <1>0, <3>4, <3>5 DEF TypeOK
    <2>2. CASE ~Room
      <3>1. /\ results' \in [Caller -> Seq(Results)] /\ writes' = writes /\ writeCh' = writeCh
            /\ call' \in [Caller -> {"idle", "next", "online", "wait", "done"}]
        <4>1. "full" \in Results /\ Finish(k, "full") /\ writeCh' = writeCh
          BY <1>8, <2>2 DEF EnqueueWrite, Results, Errors
        <4> QED BY <1>0, <4>1, FinishTypes
      <3> QED BY <1>0, <1>8, <3>1, SMTT(60) DEF EnqueueWrite, TypeOK
    <2> QED BY <2>1, <2>2
  <1>9. ASSUME NEW k \in Caller, TakeReply(k)
        PROVE  TypeOK'
    <2>1. reply[k] \in Results /\ Finish(k, reply[k])
      BY <1>0, <1>9 DEF TakeReply, TypeOK, Replies, Results, Errors
    <2>2. /\ results' \in [Caller -> Seq(Results)] /\ writes' = writes
          /\ call' \in [Caller -> {"idle", "next", "online", "wait", "done"}]
      BY <1>0, <2>1, FinishTypes
    <2>3. /\ reply' = [reply EXCEPT ![k] = "none"]
          /\ UNCHANGED <<deviceVars, state, pollVars, writeCh, writer, written>>
      BY <1>9 DEF TakeReply
    <2> QED BY <1>0, <2>2, <2>3 DEF TypeOK
  <1>10. CASE UNCHANGED vars
    BY <1>0, <1>10 DEF vars, TypeOK
  <1> QED BY <1>1, <1>2, <1>3, <1>4, <1>5, <1>6, <1>7, <1>8, <1>9, <1>10
          DEF Next, WriterStep, CallerStep

\* The channels stay within their capacity and both loops in their states.
THEOREM TypeCorrect == Spec => []TypeOK
  <1>1. TypeInv => TypeOK
    BY DEF TypeInv
  <1>2. RuntimeAssumption /\ Init => TypeInv
    BY TypeInit
  <1>3. RuntimeAssumption /\ TypeInv /\ [Next]_vars => TypeInv'
    BY TypeStep
  <1> QED BY <1>1, <1>2, <1>3, RuntimeAssumption, PTL DEF Spec

-------------------------------------------------------------------------------
(* The end of the runtime                                                  *)

\* The loops are launched by Start and not before.
LoopsAreStarted == life \in {"new", "registered"} => poll.pc = "off" /\ writer.pc = "off"

QuietInv == TypeInv /\ LoopsAreStarted /\ ClosedIsQuiet

\* Every step keeps it.
LEMMA QuietStep ==
    ASSUME RuntimeAssumption, QuietInv, [Next]_vars
    PROVE  QuietInv'
  <1> USE DEF deviceVars, pollVars, callVars
  <1>w. TypeInv'
    BY TypeStep DEF QuietInv
  <1> SUFFICES LoopsAreStarted' /\ ClosedIsQuiet'
    BY <1>w DEF QuietInv
  <1>1. CASE LifeStep
    BY <1>1 DEF LifeStep, RegisterRuntime, Start, StartFails, CloseStopCh, CloseConnection,
                LoopsDone, Unregister, QuietInv, LoopsAreStarted, ClosedIsQuiet
  <1>2. CASE PollStep
    <2>1. poll.pc \in {"wait", "read", "send"} /\ UNCHANGED deviceVars
      BY <1>2 DEF PollStep, PollTick, PollExit, PollPoint, SendReading, EndPass
    <2> QED BY <2>1 DEF QuietInv, LoopsAreStarted, ClosedIsQuiet
  <1>3. CASE WriterStep
    <2>1. writer.pc \in {"wait", "exec", "report"} /\ UNCHANGED deviceVars
      BY <1>3 DEF WriterStep, TakeWrite, WriterExit, ExecuteWrite, ReportWrite
    <2> QED BY <2>1 DEF QuietInv, LoopsAreStarted, ClosedIsQuiet
  <1>4. CASE UNCHANGED <<life, poll, writer>>
    BY <1>4 DEF QuietInv, LoopsAreStarted, ClosedIsQuiet
  <1>5. ASSUME NEW k \in Caller, ReceiveCommand(k) \/ PublishCommand(k) \/ CallerStep(k)
        PROVE  UNCHANGED <<life, poll, writer>>
    BY <1>5 DEF ReceiveCommand, PublishCommand, CallerStep, Respond, CheckWrite, EnqueueWrite,
                TakeReply
  <1>6. CASE CancelContext \/ Drain \/ StallFanout \/ UNCHANGED vars
    BY <1>4, <1>6 DEF CancelContext, Drain, StallFanout, vars
  <1> QED BY <1>1, <1>2, <1>3, <1>4, <1>5, <1>6 DEF Next

\* When the connection is closed neither loop can use it any more.
THEOREM ClosedStaysQuiet == Spec => []ClosedIsQuiet
  <1>1. QuietInv => ClosedIsQuiet
    BY DEF QuietInv
  <1>2. RuntimeAssumption /\ Init => QuietInv
    <2>1. Init => LoopsAreStarted /\ ClosedIsQuiet
      BY DEF Init, LoopsAreStarted, ClosedIsQuiet
    <2> QED BY <2>1, TypeInit DEF QuietInv
  <1>3. RuntimeAssumption /\ QuietInv /\ [Next]_vars => QuietInv'
    BY QuietStep
  <1> QED BY <1>1, <1>2, <1>3, RuntimeAssumption, PTL DEF Spec

-------------------------------------------------------------------------------
(* Writes and their answers                                                *)

\* The write of caller k waits in the channel.
Queued(k) == \E i \in DOMAIN writeCh : writeCh[i] = k

\* A write that got into the channel is in one place, and its caller waits for
\* it: in the channel, in the hands of the write loop, or answered.
OnePlace ==
    /\ \A k \in Caller : reply[k] # "none" => call[k] = "wait" /\ ~Queued(k) /\ ~InHand(k)
    /\ \A k \in Caller : InHand(k) => call[k] = "wait" /\ ~Queued(k)
    /\ \A k \in Caller : Queued(k) => call[k] = "wait"
    /\ \A i, j \in DOMAIN writeCh : writeCh[i] = writeCh[j] => i = j
    /\ \A k \in Caller : call[k] = "idle" => results[k] = <<>>

AnswerInv == TypeInv /\ OnePlace

\* Every step keeps it.
LEMMA AnswerStep ==
    ASSUME RuntimeAssumption, AnswerInv, [Next]_vars
    PROVE  AnswerInv'
  <1> USE DEF deviceVars, pollVars, callVars
  <1>0. TypeOK /\ OnePlace /\ writeCh \in Seq(Caller)
    BY DEF AnswerInv, TypeInv, TypeOK
  <1>w. TypeInv'
    BY TypeStep DEF AnswerInv
  <1> SUFFICES OnePlace'
    BY <1>w DEF AnswerInv
  <1>1. CASE UNCHANGED <<writeCh, writer, call, results, reply>>
    BY <1>0, <1>1 DEF OnePlace, Queued, InHand
  <1>2. CASE LifeStep
    <2>1. CASE UNCHANGED <<writeCh, writer, call, results, reply>>
      BY <1>1, <2>1
    <2>2. CASE Start
      <3>1. /\ writer' = [pc |-> "wait"]
            /\ UNCHANGED <<writeCh, call, results, reply>>
        BY <2>2 DEF Start
      <3>2. \A k \in Caller : ~InHand(k)'
        BY <3>1 DEF InHand
      <3> QED BY <1>0, <3>1, <3>2 DEF OnePlace, Queued
    <2> QED BY <1>2, <2>1, <2>2 DEF LifeStep, RegisterRuntime, StartFails, CloseStopCh,
                                    CloseConnection, Unregister
  <1>3. CASE CancelContext \/ PollStep \/ Drain \/ StallFanout \/ UNCHANGED vars
    BY <1>1, <1>3 DEF CancelContext, PollStep, PollTick, PollExit, PollPoint, SendReading, EndPass,
                      Drain, StallFanout, vars
  <1>4. CASE TakeWrite
    <2> DEFINE h == Head(writeCh)
               q == Tail(writeCh)
    <2>1. /\ writer.pc = "wait" /\ writeCh # <<>> /\ writer' = [pc |-> "exec", for |-> h]
          /\ writeCh' = q /\ UNCHANGED <<call, results, reply>>
      BY <1>4 DEF TakeWrite, AfterTake
    <2>2. /\ h \in Caller /\ h = writeCh[1] /\ Len(writeCh) \in Nat /\ Len(writeCh) >= 1
          /\ DOMAIN writeCh = 1..Len(writeCh) /\ DOMAIN q = 1..(Len(writeCh) - 1)
          /\ \A i \in 1..(Len(writeCh) - 1) : q[i] = writeCh[i + 1]
      BY <1>0, <2>1, TailIs
    <2> HIDE DEF h, q
    <2>3. \A k \in Caller : InHand(k)' <=> k = h
      BY <2>1 DEF InHand
    <2>4. \A i \in DOMAIN q : /\ i + 1 \in DOMAIN writeCh /\ q[i] = writeCh[i + 1]
                             /\ q[i] # h
      <3>1. ASSUME NEW i \in DOMAIN q
            PROVE  /\ i + 1 \in DOMAIN writeCh /\ q[i] = writeCh[i + 1] /\ q[i] # h
        <4>1. i \in Int /\ i >= 1 /\ i + 1 \in DOMAIN writeCh /\ q[i] = writeCh[i + 1] /\ 1 \in DOMAIN writeCh
          BY <2>2
        <4>2. writeCh[i + 1] # writeCh[1]
          BY <1>0, <4>1 DEF OnePlace
        <4> QED BY <2>2, <4>1, <4>2
      <3> QED BY <3>1
    <2>5. Queued(h) /\ \A k \in Caller : Queued(k)' => Queued(k) /\ k # h
      <3>1. Queued(h)
        BY <2>2 DEF Queued
      <3> QED BY <2>1, <2>4, <3>1 DEF Queued
    <2>6. \A i, j \in DOMAIN writeCh' : writeCh'[i] = writeCh'[j] => i = j
      <3>1. ASSUME NEW i \in DOMAIN q, NEW j \in DOMAIN q, q[i] = q[j]
            PROVE  i = j
        <4>1. i + 1 = j + 1
          BY <1>0, <2>4, <3>1 DEF OnePlace
        <4> QED BY <2>2, <4>1
      <3> QED BY <2>1, <3>1
    <2>7. \A k \in Caller : reply'[k] # "none" => call'[k] = "wait" /\ ~Queued(k)' /\ ~InHand(k)'
      BY <1>0, <2>1, <2>3, <2>5 DEF OnePlace
    <2>8. \A k \in Caller : InHand(k)' => call'[k] = "wait" /\ ~Queued(k)'
      BY <1>0, <2>1, <2>2, <2>3, <2>5 DEF OnePlace
    <2>9. \A k \in Caller : Queued(k)' => call'[k] = "wait"
      BY <1>0, <2>1, <2>5 DEF OnePlace
    <2> QED BY <1>0, <2>1, <2>6, <2>7, <2>8, <2>9 DEF OnePlace
  <1>5. CASE WriterExit
    <2>1. /\ writer' = [pc |-> "exited"] /\ UNCHANGED <<writeCh, call, results, reply>>
      BY <1>5 DEF WriterExit
    <2>2. \A k \in Caller : ~InHand(k)'
      BY <2>1 DEF InHand
    <2> QED BY <1>0, <2>1, <2>2 DEF OnePlace, Queued
  <1>6. CASE ExecuteWrite
    <2>1. /\ writer.pc = "exec" /\ writer'.pc = "report" /\ writer'.for = writer.for
          /\ UNCHANGED <<writeCh, call, results, reply>>
      BY <1>6 DEF ExecuteWrite
    <2>2. \A k \in Caller : InHand(k)' <=> InHand(k)
      BY <2>1 DEF InHand
    <2> QED BY <1>0, <2>1, <2>2 DEF OnePlace, Queued
  <1>7. CASE ReportWrite
    <2>1. /\ writer.pc = "report" /\ writer.for \in Caller /\ writer' = [pc |-> "wait"]
          /\ reply' = [reply EXCEPT ![writer.for] = writer.res]
          /\ UNCHANGED <<writeCh, call, results>>
      BY <1>0, <1>7, WriterIs DEF ReportWrite, Answer
    <2>2. \A k \in Caller : ~InHand(k)'
      BY <2>1 DEF InHand
    <2>3. InHand(writer.for) /\ call[writer.for] = "wait" /\ ~Queued(writer.for)
      BY <1>0, <2>1 DEF OnePlace, InHand
    <2>4. \A k \in Caller : k # writer.for => reply'[k] = reply[k]
      BY <1>0, <2>1 DEF TypeOK
    <2>5. \A k \in Caller : Queued(k)' <=> Queued(k)
      BY <2>1 DEF Queued
    <2> QED BY <1>0, <2>1, <2>2, <2>3, <2>4, <2>5 DEF OnePlace
  <1>8. ASSUME NEW k \in Caller, call[k] # "wait", UNCHANGED <<writeCh, writer, reply>>,
               call' \in [Caller -> {"idle", "next", "online", "wait", "done"}],
               call'[k] # "idle",
               \A m \in Caller : m # k => call'[m] = call[m] /\ results'[m] = results[m]
        PROVE  OnePlace'
    <2>1. \A m \in Caller : (Queued(m)' <=> Queued(m)) /\ (InHand(m)' <=> InHand(m))
      BY <1>8 DEF Queued, InHand
    <2> QED BY <1>0, <1>8, <2>1 DEF OnePlace
  <1>9. ASSUME NEW k \in Caller,
               ReceiveCommand(k) \/ PublishCommand(k) \/ Respond(k) \/ CheckWrite(k)
        PROVE  OnePlace'
    <2>1. /\ call[k] \in {"idle", "next"} /\ UNCHANGED <<writeCh, writer, reply>>
          /\ call'[k] # "idle"
          /\ \A m \in Caller : m # k => call'[m] = call[m] /\ results'[m] = results[m]
      BY <1>0, <1>9 DEF ReceiveCommand, PublishCommand, Respond, CheckWrite, Finish, TypeOK
    <2>2. call' \in [Caller -> {"idle", "next", "online", "wait", "done"}]
      BY <1>w DEF TypeInv, TypeOK
    <2> QED BY <1>8, <2>1, <2>2
  <1>10. ASSUME NEW k \in Caller, EnqueueWrite(k)
         PROVE  OnePlace'
    <2>1. CASE ~Room
      <3>1. /\ call[k] = "online" /\ UNCHANGED <<writeCh, writer, reply>>
            /\ call'[k] # "idle"
            /\ \A m \in Caller : m # k => call'[m] = call[m] /\ results'[m] = results[m]
        BY <1>0, <1>10, <2>1 DEF EnqueueWrite, Finish, TypeOK
      <3>2. call' \in [Caller -> {"idle", "next", "online", "wait", "done"}]
        BY <1>w DEF TypeInv, TypeOK
      <3> QED BY <1>8, <3>1, <3>2
    <2>2. CASE Room
      <3>1. /\ call[k] = "online" /\ writeCh' = Append(writeCh, k) /\ call'[k] = "wait"
            /\ \A m \in Caller : m # k => call'[m] = call[m]
            /\ UNCHANGED <<writer, results, reply>>
        BY <1>0, <1>10, <2>2 DEF EnqueueWrite, TypeOK
      <3>2. /\ Len(writeCh) \in Nat /\ DOMAIN writeCh = 1..Len(writeCh)
            /\ DOMAIN writeCh' = 1..(Len(writeCh) + 1)
            /\ \A i \in 1..Len(writeCh) : writeCh'[i] = writeCh[i]
            /\ writeCh'[Len(writeCh) + 1] = k
        BY <1>0, <3>1, AppendIs
      <3>3. ~Queued(k) /\ ~InHand(k) /\ reply[k] = "none"
        BY <1>0, <3>1 DEF OnePlace
      <3>4. \A m \in Caller : (Queued(m)' => Queued(m) \/ m = k) /\ (InHand(m)' <=> InHand(m))
        BY <3>1, <3>2 DEF Queued, InHand
      <3>5. \A i, j \in DOMAIN writeCh' : writeCh'[i] = writeCh'[j] => i = j
        BY <1>0, <3>2, <3>3 DEF OnePlace, Queued
      <3> QED BY <1>0, <3>1, <3>3, <3>4, <3>5 DEF OnePlace
    <2> QED BY <2>1, <2>2
  <1>11. ASSUME NEW k \in Caller, TakeReply(k)
         PROVE  OnePlace'
    <2>1. /\ call[k] = "wait" /\ reply[k] # "none" /\ reply'[k] = "none" /\ call'[k] = "next"
          /\ \A m \in Caller : m # k => /\ call'[m] = call[m] /\ results'[m] = results[m]
                                       /\ reply'[m] = reply[m]
          /\ UNCHANGED <<writeCh, writer>>
      BY <1>0, <1>11 DEF TakeReply, Finish, TypeOK
    <2>2. \A m \in Caller : (Queued(m)' <=> Queued(m)) /\ (InHand(m)' <=> InHand(m))
      BY <2>1 DEF Queued, InHand
    <2> QED BY <1>0, <2>1, <2>2 DEF OnePlace
  <1> QED BY <1>2, <1>3, <1>4, <1>5, <1>6, <1>7, <1>9, <1>10, <1>11
          DEF Next, WriterStep, CallerStep

WrittenInv == AnswerInv /\ QuietInv /\ ReportedAsWritten

\* The outcomes whose writes are counted: those reported as done, and those that
\* were sent to the device at all.
Kinds == {{"ok"}, {"ok", "failed"}}

\* What the device did of a caller's command.
Done(k) == {written[k][i] : i \in DOMAIN written[k]}

\* ReportedAsWritten of one caller.
WrittenOf(k) ==
    /\ Answered(k, {"ok"}) \subseteq Done(k)
    /\ Done(k) \subseteq Answered(k, {"ok", "failed"})
    /\ \A i, j \in DOMAIN written[k] : i < j => written[k][i] < written[k][j]

\* A step does not change what is known of the write the caller is at.
SameAnswer(k) == \A some \in Kinds : HasAnswer(k, some)' <=> HasAnswer(k, some)

\* What was reported of a caller by a result more.
LEMMA ResultAdded ==
    ASSUME TypeOK, NEW k \in Caller, NEW res \in Results, NEW some, Finish(k, res)
    PROVE  /\ {i \in DOMAIN results'[k] : results'[k][i] \in some} =
                 {i \in DOMAIN results[k] : results[k][i] \in some}
                    \cup (IF res \in some THEN {At(k)} ELSE {})
           /\ \A m \in Caller : m # k => results'[m] = results[m]
  <1> DEFINE q == results[k]
  <1>1. q \in Seq(Results)
    BY DEF TypeOK
  <1>2. results'[k] = Append(q, res) /\ \A m \in Caller : m # k => results'[m] = results[m]
    BY DEF Finish, TypeOK
  <1>3. At(k) = Len(q) + 1
    BY DEF At
  <1> HIDE DEF q
  <1>4. /\ Len(q) \in Nat /\ DOMAIN q = 1..Len(q) /\ DOMAIN Append(q, res) = 1..(Len(q) + 1)
        /\ \A i \in 1..Len(q) : Append(q, res)[i] = q[i]
        /\ Append(q, res)[Len(q) + 1] = res
    BY <1>1, AppendIs
  <1>5. {i \in DOMAIN Append(q, res) : Append(q, res)[i] \in some} =
          {i \in DOMAIN q : q[i] \in some} \cup (IF res \in some THEN {Len(q) + 1} ELSE {})
    BY <1>4
  <1> QED BY <1>2, <1>3, <1>5 DEF q

\* The write that is carried out is a new one, after all that were reported.
LEMMA ExecuteKeeps ==
    ASSUME RuntimeAssumption, WrittenInv, ExecuteWrite, NEW k \in Caller, WrittenOf(k)
    PROVE  WrittenOf(k)'
  <1>0. TypeOK /\ OnePlace
    BY DEF WrittenInv, AnswerInv, TypeInv
  <1>1. PICK res \in {"ok", "refused", "failed"}, carriedOut \in BOOLEAN :
          /\ res = "ok" => carriedOut
          /\ res = "refused" => ~carriedOut
          /\ writer' = [pc |-> "report", for |-> writer.for, res |-> res]
          /\ written' = IF carriedOut THEN [written EXCEPT ![writer.for] = Append(@, At(writer.for))]
                        ELSE written
    BY DEF ExecuteWrite
  <1>2. writer.pc = "exec" /\ UNCHANGED <<results, reply>>
    BY DEF ExecuteWrite, callVars
  <1>3. CASE writer.for # k
    <2>1. written'[k] = written[k]
      BY <1>0, <1>1, <1>2, <1>3, WriterIs DEF TypeOK
    <2>2. \A some \in Kinds : Answered(k, some)' = Answered(k, some)
      BY <1>1, <1>2, <1>3 DEF Answered, HasAnswer, At
    <2> QED BY <2>1, <2>2 DEF WrittenOf, Done, Kinds
  <1>4. CASE writer.for = k
    <2> DEFINE q == written[k]
               a == At(k)
               Told(some) == {i \in DOMAIN results[k] : results[k][i] \in some}
    <2>1. reply[k] = "none"
      BY <1>0, <1>2, <1>4 DEF OnePlace, InHand
    <2>2. ASSUME NEW some \in Kinds
          PROVE  /\ Answered(k, some) = Told(some)
                 /\ Answered(k, some)' = Told(some) \cup (IF res \in some THEN {a} ELSE {})
      BY <1>1, <1>2, <1>4, <2>1 DEF Answered, HasAnswer, At, Kinds
    <2>3. /\ Told({"ok"}) \subseteq Done(k) /\ Done(k) \subseteq Told({"ok", "failed"})
          /\ \A i, j \in DOMAIN q : i < j => q[i] < q[j]
      BY <2>2 DEF WrittenOf, Kinds
    <2>4. a \in Nat /\ \A i \in DOMAIN results[k] : i \in Int /\ i < a
      <3>1. results[k] \in Seq(Results)
        BY <1>0 DEF TypeOK
      <3> QED BY <3>1, LenProperties DEF At
    <2>5. CASE ~carriedOut
      <3>1. written'[k] = q /\ res # "ok"
        BY <1>1, <2>5
      <3>2. /\ Answered(k, {"ok"})' = Told({"ok"})
            /\ Told({"ok", "failed"}) \subseteq Answered(k, {"ok", "failed"})'
        BY <2>2, <3>1 DEF Kinds
      <3> QED BY <2>3, <3>1, <3>2 DEF WrittenOf, Done
    <2>6. CASE carriedOut
      <3>1. q \in Seq(Nat) /\ written'[k] = Append(q, a) /\ res \in {"ok", "failed"}
        BY <1>0, <1>1, <1>4, <2>6 DEF TypeOK
      <3>2. /\ Answered(k, {"ok"})' \subseteq Told({"ok"}) \cup {a}
            /\ Answered(k, {"ok", "failed"})' = Told({"ok", "failed"}) \cup {a}
        BY <2>2, <3>1 DEF Kinds
      <3>3. \A i \in DOMAIN q : q[i] < a
        BY <2>3, <2>4 DEF Done
      <3> HIDE DEF q, a
      <3>4. /\ Len(q) \in Nat /\ DOMAIN q = 1..Len(q) /\ DOMAIN Append(q, a) = 1..(Len(q) + 1)
            /\ \A i \in 1..Len(q) : Append(q, a)[i] = q[i]
            /\ Append(q, a)[Len(q) + 1] = a
        BY <2>4, <3>1, AppendIs
      <3>5. {Append(q, a)[i] : i \in DOMAIN Append(q, a)} = Done(k) \cup {a}
        BY <3>4 DEF Done, q
      <3>6. \A i, j \in DOMAIN Append(q, a) : i < j => Append(q, a)[i] < Append(q, a)[j]
        BY <2>3, <3>3, <3>4
      <3>7. Done(k)' = Done(k) \cup {a}
        BY <3>1, <3>5 DEF Done
      <3>8. \A i, j \in DOMAIN written'[k] : i < j => written'[k][i] < written'[k][j]
        BY <3>1, <3>6
      <3>9. Answered(k, {"ok"})' \subseteq Done(k)' /\ Done(k)' \subseteq Answered(k, {"ok", "failed"})'
        BY <2>3, <3>2, <3>7
      <3> QED BY <3>8, <3>9 DEF WrittenOf
    <2> QED BY <2>5, <2>6
  <1> QED BY <1>3, <1>4

\* Every step keeps it.
LEMMA WrittenStep ==
    ASSUME RuntimeAssumption, WrittenInv, [Next]_vars
    PROVE  WrittenInv'
  <1> USE DEF deviceVars, pollVars, callVars
  <1>0. /\ TypeOK /\ OnePlace /\ AnswerInv /\ QuietInv /\ LoopsAreStarted
        /\ \A k \in Caller : WrittenOf(k)
    BY DEF WrittenInv, AnswerInv, QuietInv, TypeInv, ReportedAsWritten, WrittenOf, Done
  <1>w. AnswerInv' /\ QuietInv'
    BY <1>0, AnswerStep, QuietStep
  <1> SUFFICES ASSUME NEW k \in Caller
               PROVE  WrittenOf(k)'
    BY <1>w DEF WrittenInv, ReportedAsWritten, WrittenOf, Done
  <1>1. ASSUME results'[k] = results[k], SameAnswer(k), written'[k] = written[k]
        PROVE  WrittenOf(k)'
    <2>1. \A some \in Kinds : Answered(k, some)' = Answered(k, some)
      BY <1>1 DEF Answered, At, SameAnswer
    <2> QED BY <1>0, <1>1, <2>1 DEF WrittenOf, Done, Kinds
  <1>2. CASE UNCHANGED <<writer, results, reply, written>>
    <2>1. SameAnswer(k)
      BY <1>2 DEF HasAnswer, SameAnswer
    <2> QED BY <1>1, <1>2, <2>1
  <1>3. CASE LifeStep
    <2>1. CASE Start
      <3>1. /\ writer.pc = "off" /\ writer' = [pc |-> "wait"]
            /\ UNCHANGED <<results, reply, written>>
        BY <1>0, <2>1 DEF Start, LoopsAreStarted
      <3>2. SameAnswer(k)
        BY <3>1 DEF HasAnswer, SameAnswer
      <3> QED BY <1>1, <3>1, <3>2
    <2>2. CASE UNCHANGED <<writer, results, reply, written>>
      BY <1>2, <2>2
    <2> QED BY <1>3, <2>1, <2>2 DEF LifeStep, RegisterRuntime, StartFails, CloseStopCh,
                                    CloseConnection, Unregister
  <1>4. CASE CancelContext \/ PollStep \/ Drain \/ StallFanout \/ UNCHANGED vars
    BY <1>2, <1>4 DEF CancelContext, PollStep, PollTick, PollExit, PollPoint, SendReading, EndPass,
                      Drain, StallFanout, vars
  <1>5. CASE TakeWrite \/ WriterExit
    <2>1. /\ writer.pc = "wait" /\ writer'.pc \in {"exec", "exited"}
          /\ UNCHANGED <<results, reply, written>>
      BY <1>5 DEF TakeWrite, WriterExit
    <2>2. SameAnswer(k)
      BY <2>1 DEF HasAnswer, SameAnswer
    <2> QED BY <1>1, <2>1, <2>2
  <1>6. CASE ExecuteWrite
    BY <1>0, <1>6, ExecuteKeeps
  <1>7. CASE ReportWrite
    <2>1. /\ writer.pc = "report" /\ writer.for \in Caller /\ writer' = [pc |-> "wait"]
          /\ reply' = [reply EXCEPT ![writer.for] = writer.res]
          /\ UNCHANGED <<results, written>>
      BY <1>0, <1>7, WriterIs DEF ReportWrite, Answer
    <2>2. CASE writer.for = k
      <3>1. reply[k] = "none" /\ reply'[k] = writer.res
        BY <1>0, <2>1, <2>2 DEF OnePlace, InHand, TypeOK
      <3>2. SameAnswer(k)
        BY <2>1, <2>2, <3>1 DEF HasAnswer, SameAnswer, Kinds
      <3> QED BY <1>1, <2>1, <3>2
    <2>3. CASE writer.for # k
      <3>1. reply'[k] = reply[k]
        BY <1>0, <2>1, <2>3 DEF TypeOK
      <3>2. SameAnswer(k)
        BY <2>1, <2>3, <3>1 DEF HasAnswer, SameAnswer
      <3> QED BY <1>1, <2>1, <3>2
    <2> QED BY <2>2, <2>3
  <1>8. ASSUME NEW m \in Caller, ReceiveCommand(m) \/ Respond(m)
        PROVE  WrittenOf(k)'
    BY <1>2, <1>8 DEF ReceiveCommand, Respond
  <1>9. ASSUME NEW m \in Caller, PublishCommand(m)
        PROVE  WrittenOf(k)'
    <2>1. /\ call[m] = "idle" /\ UNCHANGED <<writer, reply, written>>
          /\ \A n \in Caller : n # m => results'[n] = results[n]
      BY <1>0, <1>9 DEF PublishCommand, TypeOK
    <2>2. SameAnswer(k)
      BY <2>1 DEF HasAnswer, SameAnswer
    <2>3. CASE k # m
      BY <1>1, <2>1, <2>2, <2>3
    <2>4. CASE k = m
      <3>1. results[k] = <<>> /\ \A some \in Kinds : ~HasAnswer(k, some)
        BY <1>0, <2>1, <2>4 DEF OnePlace, HasAnswer, InHand, Kinds
      <3>2. \A some \in Kinds : Answered(k, some) = {}
        BY <3>1 DEF Answered
      <3>3. \A i \in DOMAIN results'[k] : results'[k][i] \notin {"ok", "failed"}
        <4>1. PICK ws \in Commands[k], v \in {"published", "notPublished", "noPublisher"} :
                results' = [results EXCEPT ![k] = [i \in DOMAIN ws |-> v]]
          <5>1. PICK ws \in Commands[k] :
                  \E v \in IF HasPublisher THEN {"published", "notPublished"} ELSE {"noPublisher"} :
                    results' = [results EXCEPT ![k] = [i \in DOMAIN ws |-> v]]
            BY <1>9, <2>4 DEF PublishCommand
          <5>2. \A v \in IF HasPublisher THEN {"published", "notPublished"} ELSE {"noPublisher"} :
                  v \in {"published", "notPublished", "noPublisher"}
            OBVIOUS
          <5> QED BY <5>1, <5>2, Zenon
        <4>2. results'[k] = [i \in DOMAIN ws |-> v]
          BY <1>0, <4>1 DEF TypeOK
        <4> QED BY <4>2
      <3>4. \A some \in Kinds : Answered(k, some)' = {}
        BY <2>2, <3>1, <3>3 DEF Answered, SameAnswer, Kinds
      <3> QED BY <1>0, <2>1, <3>2, <3>4 DEF WrittenOf, Done, Kinds
    <2> QED BY <2>3, <2>4
  <1>10. ASSUME NEW m \in Caller, NEW res \in Results, Finish(m, res),
                UNCHANGED <<writer, reply, written>>, call[m] # "wait",
                res \notin {"ok", "failed"}
         PROVE  WrittenOf(k)'
    <2>1. SameAnswer(k)
      BY <1>10 DEF HasAnswer, SameAnswer
    <2>2. CASE k # m
      <3>1. results'[k] = results[k]
        BY <1>0, <1>10, <2>2, ResultAdded
      <3> QED BY <1>1, <1>10, <2>1, <3>1
    <2>3. CASE k = m
      <3>1. \A some \in Kinds : ~HasAnswer(k, some)
        BY <1>0, <1>10, <2>3 DEF OnePlace, HasAnswer, InHand, Kinds
      <3>2. \A some \in Kinds : {i \in DOMAIN results'[k] : results'[k][i] \in some} =
                                  {i \in DOMAIN results[k] : results[k][i] \in some}
        <4>1. \A some \in Kinds : res \notin some
          BY <1>10 DEF Kinds
        <4> QED BY <1>0, <1>10, <2>3, <4>1, ResultAdded
      <3>3. \A some \in Kinds : Answered(k, some)' = Answered(k, some)
        BY <2>1, <3>1, <3>2 DEF Answered, SameAnswer
      <3> QED BY <1>0, <1>10, <3>3 DEF WrittenOf, Done, Kinds
    <2> QED BY <2>2, <2>3
  <1>11. ASSUME NEW m \in Caller, CheckWrite(m) \/ EnqueueWrite(m)
         PROVE  WrittenOf(k)'
    <2>1. /\ call[m] # "wait" /\ UNCHANGED <<writer, reply, written>>
          /\ \/ results' = results
             \/ \E res \in Results : res \notin {"ok", "failed"} /\ Finish(m, res)
      <3>1. CASE CheckWrite(m)
        <4> DEFINE verdict == Verdict(writes[m][At(m)])
        <4>1. verdict \in {"unknown", "readOnly", "offline", "none"}
          BY DEF Verdict
        <4>2. verdict = "none" => results' = results
          BY <3>1 DEF CheckWrite
        <4>3. verdict # "none" => Finish(m, verdict)
          BY <3>1 DEF CheckWrite
        <4>4. call[m] # "wait" /\ UNCHANGED <<writer, reply, written>>
          BY <3>1 DEF CheckWrite
        <4> HIDE DEF verdict
        <4>5. verdict # "none" => verdict \in Results /\ verdict \notin {"ok", "failed"}
          BY <4>1 DEF Errors, Results
        <4> QED BY <4>1, <4>2, <4>3, <4>4, <4>5
      <3>2. CASE EnqueueWrite(m)
        BY <3>2 DEF EnqueueWrite, Results, Errors
      <3> QED BY <1>11, <3>1, <3>2
    <2>2. CASE results' = results
      BY <1>2, <2>1, <2>2
    <2> QED BY <1>10, <2>1, <2>2
  <1>12. ASSUME NEW m \in Caller, TakeReply(m)
         PROVE  WrittenOf(k)'
    <2>1. /\ call[m] = "wait" /\ reply[m] # "none" /\ reply[m] \in Results /\ Finish(m, reply[m])
          /\ reply'[m] = "none" /\ \A n \in Caller : n # m => reply'[n] = reply[n]
          /\ UNCHANGED <<writer, written>>
      BY <1>0, <1>12 DEF TakeReply, TypeOK, Replies, Results, Errors
    <2>2. CASE k # m
      <3>1. results'[k] = results[k] /\ reply'[k] = reply[k]
        BY <1>0, <2>1, <2>2, ResultAdded
      <3>2. SameAnswer(k)
        BY <2>1, <3>1 DEF HasAnswer, SameAnswer
      <3> QED BY <1>1, <2>1, <3>1, <3>2
    <2>3. CASE k = m
      <3>1. ~(writer.pc = "report" /\ writer.for = k)
        BY <1>0, <2>1, <2>3 DEF OnePlace, InHand
      <3>2. \A some \in Kinds : ~HasAnswer(k, some)' /\ (HasAnswer(k, some) <=> reply[k] \in some)
        BY <2>1, <2>3, <3>1 DEF HasAnswer, Kinds
      <3>3. \A some \in Kinds : {i \in DOMAIN results'[k] : results'[k][i] \in some} =
              {i \in DOMAIN results[k] : results[k][i] \in some}
                 \cup (IF reply[k] \in some THEN {At(k)} ELSE {})
        BY <1>0, <2>1, <2>3, ResultAdded
      <3>4. \A some \in Kinds : Answered(k, some)' = Answered(k, some)
        BY <3>2, <3>3 DEF Answered
      <3> QED BY <1>0, <2>1, <3>4 DEF WrittenOf, Done, Kinds
    <2> QED BY <2>2, <2>3
  <1> QED BY <1>3, <1>4, <1>5, <1>6, <1>7, <1>8, <1>9, <1>11, <1>12
          DEF Next, WriterStep, CallerStep

\* Every write reported as done was carried out, and every write carried out was
\* reported as done or as failed; each happens once and in order.
THEOREM ReportsMatchTheDevice == Spec => []ReportedAsWritten
  <1>1. WrittenInv => ReportedAsWritten
    BY DEF WrittenInv
  <1>2. RuntimeAssumption /\ Init => WrittenInv
    <2> SUFFICES ASSUME RuntimeAssumption, Init PROVE WrittenInv
      OBVIOUS
    <2>1. OnePlace
      BY DEF Init, OnePlace, Queued, InHand
    <2>2. QuietInv
      BY TypeInit DEF Init, QuietInv, LoopsAreStarted, ClosedIsQuiet
    <2>3. ASSUME NEW k \in Caller
          PROVE  WrittenOf(k)
      <3>1. /\ results[k] = <<>> /\ written[k] = <<>> /\ DOMAIN <<>> = {}
            /\ \A some \in Kinds : ~HasAnswer(k, some)
        BY DEF Init, HasAnswer, Kinds
      <3> QED BY <3>1 DEF WrittenOf, Done, Answered, Kinds
    <2> QED BY <2>1, <2>2, <2>3, TypeInit
            DEF WrittenInv, AnswerInv, ReportedAsWritten, WrittenOf, Done
  <1>3. RuntimeAssumption /\ WrittenInv /\ [Next]_vars => WrittenInv'
    BY WrittenStep
  <1> QED BY <1>1, <1>2, <1>3, RuntimeAssumption, PTL DEF Spec
===============================================================================
