------------------------- MODULE ClientPipelineProofs -------------------------
(***************************************************************************)
(* Proofs about ClientPipeline for any number of poll loops, MQTT clients,   *)
(* readings and failing saves, and every channel and batch size.            *)
(***************************************************************************)
EXTENDS ClientPipeline, SequenceTheorems, TLAPS

\* A channel that is not empty is its first element followed by the rest.
LEMMA HeadThenTail ==
    ASSUME NEW S, NEW s \in Seq(S), s # <<>>
    PROVE  /\ Head(s) \in S /\ Tail(s) \in Seq(S) /\ Len(Tail(s)) <= Len(s)
           /\ s = <<Head(s)>> \o Tail(s)
  <1>1. /\ Head(s) \in S /\ Tail(s) \in Seq(S) /\ Len(Tail(s)) = Len(s) - 1
        /\ Head(s) = s[1] /\ \A i \in 1..Len(Tail(s)) : Tail(s)[i] = s[i + 1]
        /\ Len(s) \in Nat /\ Len(s) >= 1
    BY HeadTailProperties, EmptySeq, LenProperties
  <1> DEFINE h == <<Head(s)>>
             t == Tail(s)
  <1>2. h \in Seq(S) /\ Len(h) = 1 /\ h[1] = s[1]
    BY <1>1
  <1>3. t \in Seq(S) /\ Len(t) = Len(s) - 1 /\ \A i \in 1..Len(t) : t[i] = s[i + 1]
    BY <1>1
  <1> HIDE DEF h, t
  <1>4. /\ h \o t \in Seq(S) /\ Len(h \o t) = Len(s)
        /\ \A i \in 1..Len(s) : (h \o t)[i] = IF i <= Len(h) THEN h[i] ELSE t[i - Len(h)]
    <2>1. Len(h) + Len(t) = Len(s)
      BY <1>1, <1>2, <1>3
    <2>2. /\ h \o t \in Seq(S) /\ Len(h \o t) = Len(h) + Len(t)
          /\ \A i \in 1..(Len(h) + Len(t)) :
                (h \o t)[i] = IF i <= Len(h) THEN h[i] ELSE t[i - Len(h)]
      <3>1. h \in Seq(S) /\ t \in Seq(S)
        BY <1>2, <1>3
      <3> QED BY <3>1, ConcatProperties
    <2>3. 1..(Len(h) + Len(t)) = 1..Len(s)
      BY <2>1
    <2>4. \A i \in 1..Len(s) : (h \o t)[i] = IF i <= Len(h) THEN h[i] ELSE t[i - Len(h)]
      BY <2>2, <2>3, Zenon
    <2> QED BY <2>1, <2>2, <2>4
  <1>5. \A i \in 1..Len(s) : (h \o t)[i] = s[i]
    <2>1. ASSUME NEW i \in 1..Len(s), i > 1
          PROVE  i - 1 \in 1..Len(t) /\ t[i - 1] = s[i]
      BY <1>1, <1>3, <2>1
    <2> QED BY <1>1, <1>2, <1>4, <2>1
  <1>6. h \o t = s
    BY <1>4, <1>5, SeqEqual
  <1> QED BY <1>1, <1>6 DEF h, t

-------------------------------------------------------------------------------
(* Type correctness                                                        *)

\* While the fan-out copies a reading it has one.
FanHolds == fan.pc \in {"pub", "local"} => fan.r \in Reading

\* A producer only ever has a reading in hand that it took itself.
HandIsTaken ==
    \A p \in Producer : hand[p] # Nothing =>
        hand[p] \in 1..Len(by) /\ by[hand[p]] = p

TypeInv == TypeOK /\ FanHolds /\ HandIsTaken

\* All channels are empty and nothing was taken when MainFunc starts.
LEMMA TypeInit == ASSUME PipelineAssumption, Init PROVE TypeInv
  <1>1. /\ by \in Seq(Producer) /\ ch \in Seq(Reading) /\ pubCh \in Seq(Reading)
        /\ localCh \in Seq(Reading) /\ buffer \in Seq(Reading) /\ saved \in Seq(Reading)
        /\ Len(by) = 0 /\ Len(ch) = 0 /\ Len(pubCh) = 0 /\ Len(localCh) = 0
    BY DEF Init
  <1>2. MaxReadings \in Nat /\ BufferSize \in Nat /\ MaxSaveFails \in Nat
    BY DEF PipelineAssumption
  <1>3. TypeOK
    <2>1. /\ hand \in [Producer -> Reading \cup {Nothing}] /\ gone \in SUBSET Poll
          /\ fan \in [pc : {"recv", "pub", "local", "done"}, r : Reading \cup {Nothing}]
          /\ pub \in [pc : {"recv", "publish", "done"}, r : Reading \cup {Nothing}]
          /\ broker \in {"up", "closing", "closed"} /\ saveFails \in 0..MaxSaveFails
      BY <1>2 DEF Init
    <2>2. /\ Len(by) <= MaxReadings /\ Len(ch) <= BufferSize /\ Len(pubCh) <= BufferSize
          /\ Len(localCh) <= BufferSize
      BY <1>1, <1>2
    <2> QED BY <1>1, <2>1, <2>2 DEF Init, TypeOK
  <1> QED BY <1>3 DEF Init, TypeInv, FanHolds, HandIsTaken

\* A flush moves the whole buffer into the cache, or leaves both as they are.
LEMMA FlushMoves ==
    ASSUME PipelineAssumption, TypeOK, NEW buf \in Seq(Reading), Flush(buf)
    PROVE  /\ saved' \in Seq(Reading) /\ buffer' \in Seq(Reading)
           /\ saveFails' \in 0..MaxSaveFails
           /\ saved' \o buffer' = saved \o buf
  <1>1. saved \in Seq(Reading) /\ saved \o buf \in Seq(Reading)
    BY ConcatProperties DEF TypeOK
  <1>2. (saved \o buf) \o <<>> = saved \o buf
    BY <1>1, ConcatEmptySeq
  <1>3. saveFails' \in 0..MaxSaveFails
    BY DEF Flush, TypeOK, PipelineAssumption
  <1>4. <<>> \in Seq(Reading)
    OBVIOUS
  <1>5. \/ saved' = saved /\ buffer' = buf
        \/ saved' = saved \o buf /\ buffer' = <<>>
    BY DEF Flush, AfterSave, AfterFailedSave
  <1> QED BY <1>1, <1>2, <1>3, <1>4, <1>5

\* The buffer with the reading that consumeAndWrite receives.
LEMMA ReceivedBuffer ==
    ASSUME PipelineAssumption, TypeOK, localCh # <<>>
    PROVE  /\ Head(localCh) \in Reading /\ Append(buffer, Head(localCh)) \in Seq(Reading)
           /\ Tail(localCh) \in Seq(Reading) /\ Len(Tail(localCh)) <= BufferSize
  <1>1. localCh \in Seq(Reading) /\ buffer \in Seq(Reading) /\ Len(localCh) <= BufferSize
    BY DEF TypeOK
  <1>2. /\ Head(localCh) \in Reading /\ Tail(localCh) \in Seq(Reading)
        /\ Len(Tail(localCh)) = Len(localCh) - 1 /\ Len(localCh) \in Nat
    BY <1>1, HeadTailProperties, LenProperties
  <1>3. Append(buffer, Head(localCh)) \in Seq(Reading)
    BY <1>1, <1>2, AppendProperties
  <1>4. Len(Tail(localCh)) <= BufferSize
    BY <1>1, <1>2 DEF PipelineAssumption
  <1> QED BY <1>2, <1>3, <1>4

\* Every step of a goroutine keeps the types and the two facts above.
LEMMA TypeStep ==
    ASSUME PipelineAssumption, TypeInv, [Next]_vars
    PROVE  TypeInv'
  <1> USE DEF producerVars, fanVars, writerVars
  <1>0. TypeOK /\ FanHolds /\ HandIsTaken
    BY DEF TypeInv
  <1>a. Nothing \notin Reading /\ BufferSize \in Nat /\ MaxReadings \in Nat
    BY DEF Nothing, Reading, PipelineAssumption
  <1>1. CASE CancelContext
    BY <1>0, <1>1 DEF CancelContext, TypeInv, TypeOK, FanHolds, HandIsTaken
  <1>2. ASSUME NEW p \in Producer, TakeReading(p)
        PROVE  TypeInv'
    <2>1. /\ by' = Append(by, p) /\ by \in Seq(Producer) /\ Len(by) \in Nat
          /\ Len(by) < MaxReadings /\ hand \in [Producer -> Reading \cup {Nothing}]
          /\ hand' = [hand EXCEPT ![p] = Len(by) + 1]
      BY <1>0, <1>2 DEF TakeReading, TypeOK
    <2>2. /\ by' \in Seq(Producer) /\ Len(by') = Len(by) + 1 /\ by'[Len(by) + 1] = p
          /\ \A i \in 1..Len(by) : by'[i] = by[i]
      BY <2>1, AppendProperties
    <2>3. hand' \in [Producer -> Reading \cup {Nothing}]
      <3>1. Len(by) + 1 \in Reading
        BY <1>a, <2>1 DEF Reading
      <3> QED BY <2>1, <3>1
    <2>4. HandIsTaken'
      <3> SUFFICES ASSUME NEW q \in Producer, hand'[q] # Nothing
                   PROVE  hand'[q] \in 1..Len(by') /\ by'[hand'[q]] = q
        BY DEF HandIsTaken
      <3>1. CASE q = p
        BY <2>1, <2>2, <3>1
      <3>2. CASE q # p
        <4>1. hand'[q] = hand[q] /\ hand[q] \in 1..Len(by) /\ by[hand[q]] = q
          BY <1>0, <2>1, <3>2 DEF HandIsTaken
        <4> QED BY <2>1, <2>2, <4>1
      <3> QED BY <3>1, <3>2
    <2>5. Len(by') <= MaxReadings
      BY <1>a, <2>1, <2>2
    <2>6. TypeOK'
      BY <1>0, <1>2, <2>2, <2>3, <2>5 DEF TakeReading, TypeOK
    <2> QED BY <1>0, <1>2, <2>4, <2>6 DEF TakeReading, TypeInv, FanHolds
  <1>3. ASSUME NEW p \in Producer, SendReading(p)
        PROVE  TypeInv'
    <2>1. /\ hand[p] \in Reading /\ ch \in Seq(Reading) /\ Len(ch) < BufferSize
          /\ ch' = Append(ch, hand[p])
      BY <1>0, <1>3 DEF SendReading, Room, TypeOK
    <2>2. ch' \in Seq(Reading) /\ Len(ch') <= BufferSize
      BY <1>a, <2>1, AppendProperties, LenProperties
    <2>3. TypeOK'
      BY <1>0, <1>3, <2>2 DEF SendReading, TypeOK
    <2>4. HandIsTaken'
      BY <1>0, <1>3 DEF SendReading, TypeOK, HandIsTaken
    <2> QED BY <1>0, <1>3, <2>3, <2>4 DEF SendReading, TypeInv, FanHolds
  <1>4. CASE ProducerEnds \/ MainReturns
    BY <1>0, <1>4, ZenonT(60) DEF ProducerEnds, PollReturns, CloseBroker, BrokerReturns, CloseCh, MainReturns,
                      TypeInv, TypeOK, FanHolds, HandIsTaken
  <1>5. CASE FanReceive
    <2>1. /\ ch # <<>> /\ ch' = Tail(ch) /\ ch \in Seq(Reading) /\ Len(ch) <= BufferSize
          /\ fan' = [pc |-> "pub", r |-> Head(ch)]
      BY <1>0, <1>5 DEF FanReceive, TypeOK
    <2>2. /\ Head(ch) \in Reading /\ ch' \in Seq(Reading) /\ Len(ch') <= BufferSize
      BY <1>a, <2>1, HeadTailProperties, LenProperties
    <2>3. TypeOK' /\ FanHolds'
      BY <1>0, <1>5, <2>1, <2>2 DEF FanReceive, TypeOK, FanHolds
    <2> QED BY <1>0, <1>5, <2>3 DEF FanReceive, TypeInv, HandIsTaken
  <1>6. CASE FanToPub
    <2>1. pubCh' \in Seq(Reading) /\ Len(pubCh') <= BufferSize
      BY <1>0, <1>6, <1>a, AppendProperties, LenProperties DEF FanToPub, Room, TypeOK, FanHolds
    <2>2. TypeOK' /\ FanHolds'
      BY <1>0, <1>6, <2>1 DEF FanToPub, TypeOK, FanHolds
    <2> QED BY <1>0, <1>6, <2>2 DEF FanToPub, TypeInv, HandIsTaken
  <1>7. CASE FanToLocal
    <2>1. localCh' \in Seq(Reading) /\ Len(localCh') <= BufferSize
      BY <1>0, <1>7, <1>a, AppendProperties, LenProperties DEF FanToLocal, Room, TypeOK, FanHolds
    <2>2. TypeOK' /\ FanHolds'
      BY <1>0, <1>7, <2>1 DEF FanToLocal, TypeOK, FanHolds
    <2> QED BY <1>0, <1>7, <2>2 DEF FanToLocal, TypeInv, HandIsTaken
  <1>8. CASE FanReturns
    BY <1>0, <1>8 DEF FanReturns, TypeInv, TypeOK, FanHolds, HandIsTaken
  <1>9. CASE PubReceive
    <2>1. /\ pubCh # <<>> /\ pubCh' = Tail(pubCh) /\ pubCh \in Seq(Reading)
          /\ Len(pubCh) <= BufferSize
          /\ pub' = pub \/ pub' = [pc |-> "publish", r |-> Head(pubCh)]
      BY <1>0, <1>9 DEF PubReceive, TypeOK
    <2>2. /\ Head(pubCh) \in Reading /\ pubCh' \in Seq(Reading) /\ Len(pubCh') <= BufferSize
      BY <1>a, <2>1, HeadTailProperties, LenProperties
    <2>3. TypeOK'
      BY <1>0, <1>9, <2>1, <2>2 DEF PubReceive, TypeOK
    <2> QED BY <1>0, <1>9, <2>3 DEF PubReceive, TypeInv, FanHolds, HandIsTaken
  <1>10. CASE PublishReturns \/ PubReturns
    <2>1. pub' \in [pc : {"recv", "publish", "done"}, r : Reading \cup {Nothing}]
      BY <1>0, <1>10 DEF PublishReturns, PubReturns, TypeOK
    <2>2. TypeOK'
      BY <1>0, <1>10, <2>1 DEF PublishReturns, PubReturns, TypeOK
    <2> QED BY <1>0, <1>10, <2>2 DEF PublishReturns, PubReturns, TypeInv, FanHolds, HandIsTaken
  <1>11. CASE WriterReceive
    <2>1. localCh # <<>> /\ localCh' = Tail(localCh)
      BY <1>11 DEF WriterReceive
    <2>2. /\ localCh' \in Seq(Reading) /\ Len(localCh') <= BufferSize
          /\ Append(buffer, Head(localCh)) \in Seq(Reading)
      BY <1>0, <2>1, ReceivedBuffer
    <2>3. /\ saved' \in Seq(Reading) /\ buffer' \in Seq(Reading)
          /\ saveFails' \in 0..MaxSaveFails
      BY <1>0, <1>11, <2>2, FlushMoves DEF WriterReceive, TypeOK
    <2>4. TypeOK'
      BY <1>0, <1>11, <2>2, <2>3 DEF WriterReceive, TypeOK
    <2> QED BY <1>0, <1>11, <2>4 DEF WriterReceive, TypeInv, FanHolds, HandIsTaken
  <1>12. CASE TickFlush \/ WriterReturns
    <2>1. buffer \in Seq(Reading) /\ Flush(buffer)
      BY <1>0, <1>12 DEF TickFlush, WriterReturns, TypeOK
    <2>2. /\ saved' \in Seq(Reading) /\ buffer' \in Seq(Reading)
          /\ saveFails' \in 0..MaxSaveFails
      BY <1>0, <2>1, FlushMoves
    <2>3. TypeOK'
      BY <1>0, <1>12, <2>2 DEF TickFlush, WriterReturns, TypeOK
    <2> QED BY <1>0, <1>12, <2>3 DEF TickFlush, WriterReturns, TypeInv, FanHolds, HandIsTaken
  <1>13. CASE UNCHANGED vars
    BY <1>0, <1>13 DEF vars, TypeInv, TypeOK, FanHolds, HandIsTaken
  <1> QED BY <1>1, <1>2, <1>3, <1>4, <1>5, <1>6, <1>7, <1>8, <1>9, <1>10, <1>11, <1>12, <1>13
          DEF Next, FanStep, WriterStep

\* Channels stay within their capacity and every goroutine in its states.
THEOREM TypeCorrect == Spec => []TypeOK
  <1>1. TypeInv => TypeOK
    BY DEF TypeInv
  <1>2. PipelineAssumption /\ Init => TypeInv
    BY TypeInit
  <1>3. PipelineAssumption /\ TypeInv /\ [Next]_vars => TypeInv'
    BY TypeStep
  <1> QED BY <1>1, <1>2, <1>3, PipelineAssumption, PTL DEF Spec
-------------------------------------------------------------------------------
(* How the way to the cache changes                                        *)

\* The part of the way that the fan-out holds.
InFan == IF fan.pc \in {"pub", "local"} THEN <<fan.r>> ELSE <<>>

\* What consumeAndWrite and the cache hold, in the order of the rows.
Written == saved \o buffer

\* The way as it is while consumeAndWrite runs, kept when it has returned: what
\* the goroutines hold then is written no more, but it keeps its order.
Way == saved \o buffer \o localCh \o InFan \o ch

\* The pieces of the way are sequences of readings.
LEMMA WayPieces ==
    ASSUME TypeOK, FanHolds
    PROVE  /\ saved \in Seq(Reading) /\ buffer \in Seq(Reading) /\ localCh \in Seq(Reading)
           /\ InFan \in Seq(Reading) /\ ch \in Seq(Reading)
           /\ Written \in Seq(Reading) /\ Written \o localCh \in Seq(Reading)
           /\ (Written \o localCh) \o InFan \in Seq(Reading)
           /\ Way = ((Written \o localCh) \o InFan) \o ch
           /\ Way \in Seq(Reading)
  <1>1. /\ saved \in Seq(Reading) /\ buffer \in Seq(Reading) /\ localCh \in Seq(Reading)
        /\ ch \in Seq(Reading)
    BY DEF TypeOK
  <1>2. InFan \in Seq(Reading)
    BY DEF FanHolds, InFan
  <1>3. Written \in Seq(Reading)
    BY <1>1, ConcatProperties DEF Written
  <1>4. Written \o localCh \in Seq(Reading)
    BY <1>1, <1>3, ConcatProperties
  <1>5. (Written \o localCh) \o InFan \in Seq(Reading)
    BY <1>2, <1>4, ConcatProperties
  <1>6. Way = ((Written \o localCh) \o InFan) \o ch
    BY DEF Way, Written
  <1> QED BY <1>1, <1>2, <1>3, <1>4, <1>5, <1>6, ConcatProperties

\* A reading gets on the way when its producer has sent it; nothing else changes
\* the way, neither the goroutines that move readings along it nor a failed save.
LEMMA WayMoves ==
    ASSUME PipelineAssumption, TypeInv, [Next]_vars
    PROVE  \/ Way' = Way
           \/ \E p \in Producer : SendReading(p) /\ Way' = Append(Way, hand[p])
  <1> USE DEF producerVars, fanVars, writerVars
  <1> DEFINE Lead == Written \o localCh
  <1>0. /\ TypeOK /\ FanHolds /\ HandIsTaken
        /\ Way = (Lead \o InFan) \o ch
        /\ Way' = (Lead' \o InFan') \o ch'
    BY WayPieces DEF TypeInv, Way, Written, InFan
  <1>p. /\ Written \in Seq(Reading) /\ localCh \in Seq(Reading) /\ Lead \in Seq(Reading)
        /\ InFan \in Seq(Reading) /\ ch \in Seq(Reading) /\ Lead \o InFan \in Seq(Reading)
    BY <1>0, WayPieces
  <1>1. CASE UNCHANGED <<saved, buffer, localCh, fan, ch>>
    BY <1>1 DEF Way, InFan
  <1>2. ASSUME NEW p \in Producer, SendReading(p)
        PROVE  Way' = Append(Way, hand[p])
    <2>1. /\ ch' = Append(ch, hand[p]) /\ hand[p] \in Reading
          /\ Lead' = Lead /\ InFan' = InFan
      BY <1>0, <1>2 DEF SendReading, TypeOK, Written, InFan
    <2> DEFINE before == Lead \o InFan
               last == hand[p]
    <2>2. /\ before \in Seq(Reading) /\ last \in Reading /\ <<last>> \in Seq(Reading)
          /\ Way' = before \o Append(ch, last) /\ Way = before \o ch
      BY <1>0, <1>p, <2>1
    <2> HIDE DEF before, last
    <2>3. Append(ch, last) = ch \o <<last>>
      BY <1>p, <2>2, AppendIsConcat
    <2>4. before \o (ch \o <<last>>) = (before \o ch) \o <<last>>
      BY <1>p, <2>2, ConcatAssociative
    <2>5. Append(before \o ch, last) = (before \o ch) \o <<last>>
      <3>1. before \o ch \in Seq(Reading)
        BY <1>p, <2>2, ConcatProperties
      <3> QED BY <2>2, <3>1, AppendIsConcat
    <2>6. Way' = Append(Way, last)
      BY <2>2, <2>3, <2>4, <2>5
    <2> QED BY <2>6 DEF last
  <1>3. CASE FanReceive
    <2>1. /\ InFan = <<>> /\ InFan' = <<Head(ch)>> /\ ch' = Tail(ch) /\ ch # <<>>
          /\ Lead' = Lead
      BY <1>3 DEF FanReceive, InFan, Written
    <2>2. /\ Head(ch) \in Reading /\ Tail(ch) \in Seq(Reading)
          /\ <<Head(ch)>> \in Seq(Reading) /\ ch = <<Head(ch)>> \o Tail(ch)
      BY <1>p, <2>1, HeadThenTail
    <2>3. Lead \o <<>> = Lead
      BY <1>p, ConcatEmptySeq
    <2>4. (Lead \o <<Head(ch)>>) \o Tail(ch) = Lead \o (<<Head(ch)>> \o Tail(ch))
      <3> DEFINE h == <<Head(ch)>>
                 t == Tail(ch)
      <3>1. Lead \in Seq(Reading) /\ h \in Seq(Reading) /\ t \in Seq(Reading)
        BY <1>p, <2>2
      <3> HIDE DEF Lead, h, t
      <3>2. (Lead \o h) \o t = Lead \o (h \o t)
        BY <3>1, ConcatAssociative
      <3> QED BY <3>2 DEF h, t
    <2>5. Way' = (Lead \o <<Head(ch)>>) \o Tail(ch)
      BY <1>0, <2>1
    <2>6. Way = Lead \o ch
      BY <1>0, <2>1, <2>3
    <2> QED BY <2>2, <2>4, <2>5, <2>6
  <1>4. CASE FanToPub
    <2>1. InFan' = InFan /\ ch' = ch /\ Lead' = Lead
      BY <1>0, <1>4 DEF FanToPub, InFan, TypeOK, Written
    <2> QED BY <1>0, <2>1
  <1>5. CASE FanToLocal
    <2>1. /\ InFan = <<fan.r>> /\ InFan' = <<>> /\ ch' = ch /\ fan.r \in Reading
          /\ localCh' = Append(localCh, fan.r) /\ Written' = Written
      BY <1>0, <1>5 DEF FanToLocal, InFan, FanHolds, Written
    <2>2. /\ <<fan.r>> \in Seq(Reading)
          /\ Append(localCh, fan.r) = localCh \o <<fan.r>>
          /\ localCh' \in Seq(Reading)
      BY <1>p, <2>1, AppendIsConcat, AppendProperties
    <2>3. Written \o (localCh \o <<fan.r>>) = (Written \o localCh) \o <<fan.r>>
      BY <1>p, <2>2, ConcatAssociative
    <2>4. Lead' = Lead \o InFan
      BY <2>1, <2>2, <2>3
    <2>5. Lead' \o InFan' = Lead \o InFan
      <3>1. (Lead \o InFan) \o <<>> = Lead \o InFan
        BY <1>p, ConcatEmptySeq
      <3> QED BY <2>1, <2>4, <3>1
    <2> QED BY <1>0, <2>1, <2>5
  <1>6. CASE FanReturns
    <2>1. InFan' = InFan /\ ch' = ch /\ Lead' = Lead
      BY <1>0, <1>6 DEF FanReturns, InFan, TypeOK, Written
    <2> QED BY <1>0, <2>1
  <1>7. CASE WriterReceive
    <2> DEFINE h == Head(localCh)
               t == Tail(localCh)
               buf == Append(buffer, h)
    <2>1. localCh # <<>> /\ localCh' = t /\ InFan' = InFan /\ ch' = ch
      BY <1>7 DEF WriterReceive, InFan
    <2>2. /\ h \in Reading /\ <<h>> \in Seq(Reading) /\ t \in Seq(Reading)
          /\ localCh = <<h>> \o t /\ buf \in Seq(Reading)
          /\ saved \in Seq(Reading) /\ buffer \in Seq(Reading)
      BY <1>0, <1>p, <2>1, HeadThenTail, ReceivedBuffer DEF TypeOK
    <2>3. Written' = saved \o buf
      BY <1>0, <1>7, <2>2, FlushMoves DEF WriterReceive, Written
    <2> HIDE DEF h, t
    <2>4. saved \o buf = Written \o <<h>>
      <3>1. buf = buffer \o <<h>>
        BY <2>2, AppendIsConcat
      <3>2. saved \o (buffer \o <<h>>) = (saved \o buffer) \o <<h>>
        BY <2>2, ConcatAssociative
      <3> QED BY <3>1, <3>2 DEF Written
    <2>5. (Written \o <<h>>) \o t = Written \o (<<h>> \o t)
      BY <1>p, <2>2, ConcatAssociative
    <2>6. Lead' = Lead
      BY <2>1, <2>2, <2>3, <2>4, <2>5
    <2> QED BY <1>0, <2>1, <2>6
  <1>8. CASE TickFlush \/ WriterReturns
    <2>1. /\ Flush(buffer) /\ buffer \in Seq(Reading)
          /\ localCh' = localCh /\ InFan' = InFan /\ ch' = ch
      BY <1>0, <1>8 DEF TickFlush, WriterReturns, InFan, TypeOK
    <2>2. Written' = Written
      BY <1>0, <2>1, FlushMoves DEF Written
    <2> QED BY <1>0, <2>1, <2>2
  <1>9. \/ UNCHANGED <<saved, buffer, localCh, fan, ch>>
        \/ \E p \in Producer : SendReading(p)
        \/ FanReceive \/ FanToPub \/ FanToLocal \/ FanReturns
        \/ WriterReceive \/ TickFlush \/ WriterReturns
    BY DEF Next, ProducerEnds, FanStep, WriterStep, CancelContext, TakeReading, PollReturns,
           CloseBroker, BrokerReturns, CloseCh, PubReceive, PublishReturns, PubReturns,
           MainReturns, vars
  <1> QED BY <1>1, <1>2, <1>3, <1>4, <1>5, <1>6, <1>7, <1>8, <1>9
-------------------------------------------------------------------------------
(* No reading is lost, doubled or overtaken                                *)

\* What is on the way was taken, and what a producer still has in hand is newer
\* than all of its readings on the way.
HandIsNewest ==
    /\ \A i \in DOMAIN Way : Way[i] \in 1..Len(by)
    /\ \A p \in Producer : hand[p] # Nothing =>
          \A i \in DOMAIN Way : by[Way[i]] = p => Way[i] < hand[p]

\* No reading is on the way twice, and none overtakes an earlier one of its
\* producer.
WayInOrder ==
    \A i, j \in DOMAIN Way : i < j /\ by[Way[i]] = by[Way[j]] => Way[i] < Way[j]

\* Every reading taken is in its producer's hand or on the way.
OnWay == \A r \in 1..Len(by) : hand[by[r]] = r \/ \E i \in DOMAIN Way : Way[i] = r

FlowInv == TypeInv /\ HandIsNewest /\ WayInOrder /\ OnWay

\* Producers take readings and send them, and nothing else touches their hands.
LEMMA HandMoves ==
    ASSUME Next
    PROVE  \/ UNCHANGED <<by, hand>>
           \/ \E p \in Producer : TakeReading(p)
           \/ \E p \in Producer : SendReading(p)
  BY DEF Next, ProducerEnds, FanStep, WriterStep, CancelContext, PollReturns,
         CloseBroker, BrokerReturns, CloseCh, FanReceive, FanToPub, FanToLocal, FanReturns,
         PubReceive, PublishReturns, PubReturns, WriterReceive, TickFlush, WriterReturns,
         MainReturns, producerVars

\* A new reading has the next number; it changes neither the way nor what the
\* earlier numbers stand for.
LEMMA TakeFlow ==
    ASSUME PipelineAssumption, FlowInv, NEW p \in Producer, TakeReading(p)
    PROVE  HandIsNewest' /\ WayInOrder' /\ OnWay'
  <1>1. /\ by \in Seq(Producer) /\ by' = Append(by, p) /\ Len(by) \in Nat
        /\ hand \in [Producer -> Reading \cup {Nothing}] /\ hand[p] = Nothing
        /\ hand' = [hand EXCEPT ![p] = Len(by) + 1]
    BY DEF TakeReading, FlowInv, TypeInv, TypeOK
  <1>2. /\ Len(by') = Len(by) + 1 /\ by'[Len(by) + 1] = p
        /\ \A i \in 1..Len(by) : by'[i] = by[i]
    BY <1>1, AppendProperties
  <1>3. Way' = Way
    BY DEF TakeReading, fanVars, writerVars, Way, InFan
  <1>4. \A i \in DOMAIN Way : Way[i] \in 1..Len(by) /\ by'[Way[i]] = by[Way[i]]
    BY <1>2 DEF FlowInv, HandIsNewest
  <1>5. HandIsNewest'
    <2>1. \A i \in DOMAIN Way' : Way'[i] \in 1..Len(by')
      BY <1>1, <1>2, <1>3, <1>4
    <2>2. ASSUME NEW q \in Producer, hand'[q] # Nothing, NEW i \in DOMAIN Way', by'[Way'[i]] = q
          PROVE  Way'[i] < hand'[q]
      <3>1. CASE q = p
        BY <1>1, <1>3, <1>4, <3>1
      <3>2. CASE q # p
        BY <1>1, <1>3, <1>4, <2>2, <3>2 DEF FlowInv, HandIsNewest
      <3> QED BY <3>1, <3>2
    <2> QED BY <2>1, <2>2 DEF HandIsNewest
  <1>6. WayInOrder'
    BY <1>3, <1>4 DEF FlowInv, WayInOrder
  <1>7. OnWay'
    <2> SUFFICES ASSUME NEW r \in 1..Len(by')
                 PROVE  hand'[by'[r]] = r \/ \E i \in DOMAIN Way' : Way'[i] = r
      BY DEF OnWay
    <2>1. CASE r = Len(by) + 1
      BY <1>1, <1>2, <2>1
    <2>2. CASE r # Len(by) + 1
      <3>1. r \in 1..Len(by) /\ by'[r] = by[r] /\ r # Nothing /\ by[r] \in Producer
        BY <1>1, <1>2, <2>2, ElementOfSeq DEF Nothing
      <3>2. hand[by[r]] = r \/ \E i \in DOMAIN Way : Way[i] = r
        BY <3>1 DEF FlowInv, OnWay
      <3>3. hand[by[r]] = r => hand'[by[r]] = r
        BY <1>1, <3>1
      <3> QED BY <1>3, <3>1, <3>2, <3>3
    <2> QED BY <2>1, <2>2
  <1> QED BY <1>5, <1>6, <1>7

\* A reading that is sent follows all readings of its producer on the way.
LEMMA SendFlow ==
    ASSUME PipelineAssumption, FlowInv, NEW p \in Producer, SendReading(p),
           Way' = Append(Way, hand[p])
    PROVE  HandIsNewest' /\ WayInOrder' /\ OnWay'
  <1> DEFINE e == hand[p]
             n == Len(Way)
  <1>1. /\ by' = by /\ hand \in [Producer -> Reading \cup {Nothing}] /\ hand[p] # Nothing
        /\ hand' = [hand EXCEPT ![p] = Nothing] /\ Len(by) \in Nat
        /\ e \in Reading /\ e \in 1..Len(by) /\ by[e] = p
    BY LenProperties DEF SendReading, FlowInv, TypeInv, TypeOK, HandIsTaken
  <1>2. Way \in Seq(Reading)
    BY WayPieces DEF FlowInv, TypeInv
  <1>3. /\ n \in Nat /\ DOMAIN Way = 1..n /\ DOMAIN Way' = 1..(n + 1)
        /\ Way'[n + 1] = e /\ \A i \in 1..n : Way'[i] = Way[i]
        /\ \A i \in 1..n : Way[i] \in Nat
    BY <1>1, <1>2, AppendProperties, LenProperties, ElementOfSeq DEF Reading
  <1>4. /\ \A i \in 1..n : Way[i] \in 1..Len(by)
        /\ \A i \in 1..n : by[Way[i]] = p => Way[i] < e
        /\ \A q \in Producer : hand[q] # Nothing =>
              \A i \in 1..n : by[Way[i]] = q => Way[i] < hand[q]
    BY <1>1, <1>3 DEF FlowInv, HandIsNewest
  <1> HIDE DEF e, n
  <1>5. HandIsNewest'
    <2>1. \A i \in DOMAIN Way' : Way'[i] \in 1..Len(by')
      BY <1>1, <1>3, <1>4
    <2>2. ASSUME NEW q \in Producer, hand'[q] # Nothing, NEW i \in DOMAIN Way', by'[Way'[i]] = q
          PROVE  Way'[i] < hand'[q]
      <3>1. q # p /\ hand'[q] = hand[q]
        BY <1>1, <2>2
      <3>2. i # n + 1
        BY <1>1, <1>3, <2>2, <3>1
      <3>3. i \in 1..n
        BY <1>3, <3>2
      <3> QED BY <1>1, <1>3, <1>4, <2>2, <3>1, <3>3
    <2> QED BY <2>1, <2>2 DEF HandIsNewest
  <1>6. WayInOrder'
    <2> SUFFICES ASSUME NEW i \in 1..(n + 1), NEW j \in 1..(n + 1), i < j,
                        by'[Way'[i]] = by'[Way'[j]]
                 PROVE  Way'[i] < Way'[j]
      BY <1>3 DEF WayInOrder
    <2>1. CASE j = n + 1
      BY <1>1, <1>3, <1>4, <2>1
    <2>2. CASE j # n + 1
      <3>1. i \in 1..n /\ j \in 1..n
        BY <1>3, <2>2
      <3>2. Way'[i] = Way[i] /\ Way'[j] = Way[j] /\ by[Way[i]] = by[Way[j]]
        BY <1>1, <1>3, <3>1
      <3> QED BY <1>3, <3>1, <3>2 DEF FlowInv, WayInOrder
    <2> QED BY <2>1, <2>2
  <1>7. OnWay'
    <2> SUFFICES ASSUME NEW r \in 1..Len(by)
                 PROVE  hand'[by[r]] = r \/ \E i \in DOMAIN Way' : Way'[i] = r
      BY <1>1 DEF OnWay
    <2>1. CASE hand[by[r]] = r
      <3>1. CASE by[r] = p
        <4>1. r = e
          BY <2>1, <3>1 DEF e
        <4> QED BY <1>3, <4>1
      <3>2. CASE by[r] # p
        BY <1>1, <2>1, <3>2, ElementOfSeq DEF FlowInv, TypeInv, TypeOK
      <3> QED BY <3>1, <3>2
    <2>2. CASE \E i \in DOMAIN Way : Way[i] = r
      BY <1>3, <2>2
    <2> QED BY <2>1, <2>2 DEF FlowInv, OnWay
  <1> QED BY <1>5, <1>6, <1>7

\* The readings keep their order and their number in every step.
LEMMA FlowStep ==
    ASSUME PipelineAssumption, FlowInv, [Next]_vars
    PROVE  FlowInv'
  <1>1. TypeInv'
    BY TypeStep DEF FlowInv
  <1>2. CASE UNCHANGED <<by, hand>> /\ Way' = Way
    BY <1>1, <1>2 DEF FlowInv, HandIsNewest, WayInOrder, OnWay
  <1>3. ASSUME NEW p \in Producer, TakeReading(p)
        PROVE  FlowInv'
    BY <1>1, <1>3, TakeFlow DEF FlowInv
  <1>4. ASSUME NEW p \in Producer, SendReading(p)
        PROVE  FlowInv'
    <2>1. ASSUME Way' = Way
          PROVE  FALSE
      <3>1. /\ Way' = ((saved \o buffer \o localCh) \o InFan) \o Append(ch, hand[p])
            /\ hand[p] \in Reading
        BY <1>4 DEF SendReading, Way, InFan, FlowInv, TypeInv, TypeOK, writerVars
      <3>2. ch \in Seq(Reading) /\ (saved \o buffer \o localCh) \o InFan \in Seq(Reading)
        BY WayPieces DEF FlowInv, TypeInv, Written
      <3>3. /\ Way = ((saved \o buffer \o localCh) \o InFan) \o ch
            /\ Append(ch, hand[p]) \in Seq(Reading)
            /\ Len(Append(ch, hand[p])) = Len(ch) + 1 /\ Len(ch) \in Nat
        BY <3>1, <3>2, AppendProperties, LenProperties DEF Way, InFan
      <3> DEFINE before == (saved \o buffer \o localCh) \o InFan
                 after == Append(ch, hand[p])
      <3>4. /\ before \in Seq(Reading) /\ after \in Seq(Reading) /\ ch \in Seq(Reading)
            /\ before \o after = before \o ch /\ Len(after) = Len(ch) + 1 /\ Len(ch) \in Nat
        BY <2>1, <3>1, <3>2, <3>3
      <3> HIDE DEF before, after
      <3>5. Len(before \o after) = Len(before) + Len(after) /\ Len(before) \in Nat
        BY <3>4, ConcatProperties, LenProperties
      <3>6. Len(before \o ch) = Len(before) + Len(ch)
        BY <3>4, ConcatProperties
      <3> QED BY <3>4, <3>5, <3>6
    <2>2. \A q \in Producer : SendReading(q) => hand[q] = hand[p]
      BY <1>4 DEF SendReading, FlowInv, TypeInv, TypeOK
    <2>3. Way' = Append(Way, hand[p])
      BY <2>1, <2>2, WayMoves DEF FlowInv
    <2> QED BY <1>1, <1>4, <2>3, SendFlow DEF FlowInv
  <1>5. CASE UNCHANGED vars
    <2>1. UNCHANGED <<by, hand, saved, buffer, localCh, fan, ch>>
      BY <1>5 DEF vars, producerVars, fanVars, writerVars
    <2>2. Way' = Way
      BY <2>1 DEF Way, InFan
    <2> QED BY <1>2, <2>1, <2>2
  <1>6. CASE Next
    BY <1>2, <1>3, <1>4, <1>6, HandMoves, WayMoves DEF FlowInv
  <1> QED BY <1>5, <1>6

\* The way is empty when MainFunc starts.
LEMMA FlowInit == ASSUME PipelineAssumption, Init PROVE FlowInv
  <1>1. Way = <<>>
    BY DEF Init, Way, InFan
  <1>2. by = <<>> /\ hand = [p \in Producer |-> Nothing]
    BY DEF Init
  <1> QED BY <1>1, <1>2, TypeInit DEF FlowInv, HandIsNewest, WayInOrder, OnWay

-------------------------------------------------------------------------------
(* How the pipeline ends, and what is then in the cache                    *)

\* consumeAndWrite returns because the context is cancelled, or because there is
\* no producer at all.
StopInv ==
    /\ fan.pc = "done" => chClosed
    /\ chClosed => gone = Poll /\ broker = "closed"
    /\ gone # {} => ctxDone
    /\ HasBroker /\ broker # "up" => ctxDone
    /\ writer = "done" => ctxDone \/ Producer = {}

\* Nothing has ended when MainFunc starts.
LEMMA StopInit == ASSUME Init PROVE StopInv
  BY DEF Init, StopInv

\* Goroutines end one after another, the first because the context is cancelled.
LEMMA StopStep ==
    ASSUME PipelineAssumption, TypeOK, StopInv, [Next]_vars
    PROVE  StopInv'
  <1> USE DEF producerVars, fanVars, writerVars, StopInv
  <1>1. CASE CancelContext
    BY <1>1 DEF CancelContext
  <1>2. ASSUME NEW p \in Producer, TakeReading(p) \/ SendReading(p)
        PROVE  StopInv'
    BY <1>2 DEF TakeReading, SendReading
  <1>3. ASSUME NEW p \in Poll, PollReturns(p)
        PROVE  StopInv'
    <2>1. ctxDone /\ p \notin gone /\ UNCHANGED <<ctxDone, broker, chClosed, fan, writer>>
      BY <1>3 DEF PollReturns, Leaving
    <2>2. ~chClosed
      BY <2>1
    <2> QED BY <2>1, <2>2
  <1>4. CASE CloseBroker \/ BrokerReturns
    BY <1>4 DEF CloseBroker, BrokerReturns, HasBroker
  <1>5. CASE CloseCh
    BY <1>5 DEF CloseCh
  <1>6. CASE FanStep
    BY <1>6 DEF FanStep, FanReceive, FanToPub, FanToLocal, FanReturns, TypeOK
  <1>7. CASE PubReceive \/ PublishReturns \/ PubReturns \/ MainReturns
    BY <1>7 DEF PubReceive, PublishReturns, PubReturns, MainReturns
  <1>8. CASE WriterReceive \/ TickFlush
    BY <1>8 DEF WriterReceive, TickFlush
  <1>9. CASE WriterReturns
    <2>1. /\ UNCHANGED <<ctxDone, gone, broker, chClosed, fan>>
          /\ ctxDone \/ fan.pc = "done"
      BY <1>9 DEF WriterReturns
    <2>2. CASE ~ctxDone
      <3>1. gone = Poll /\ broker = "closed" /\ gone = {} /\ Handler = {}
        BY <2>1, <2>2 DEF HasBroker
      <3> QED BY <2>1, <3>1 DEF Producer
    <2> QED BY <2>1, <2>2
  <1>10. CASE UNCHANGED vars
    BY <1>10 DEF vars
  <1> QED BY <1>1, <1>2, <1>3, <1>4, <1>5, <1>6, <1>7, <1>8, <1>9, <1>10
          DEF Next, ProducerEnds, WriterStep

\* What is on the path is on the way at the same place, and all of the way is on
\* the path while consumeAndWrite runs.
LEMMA PathIsOnWay ==
    ASSUME TypeInv
    PROVE  /\ Path \in Seq(Reading) /\ Way \in Seq(Reading) /\ Len(Path) <= Len(Way)
           /\ \A i \in 1..Len(Path) : Path[i] = Way[i]
           /\ writer = "run" => Path = Way
  <1>1. /\ saved \in Seq(Reading) /\ buffer \in Seq(Reading) /\ localCh \in Seq(Reading)
        /\ InFan \in Seq(Reading) /\ ch \in Seq(Reading) /\ Way \in Seq(Reading)
    BY WayPieces DEF TypeInv
  <1> DEFINE lead == buffer \o localCh
             most == lead \o InFan
             rest == most \o ch
  <1>2. lead \in Seq(Reading) /\ most \in Seq(Reading) /\ rest \in Seq(Reading)
    BY <1>1, ConcatProperties
  <1>3. Way = saved \o rest
    <2>0. saved \in Seq(Reading) /\ most \in Seq(Reading) /\ ch \in Seq(Reading)
      BY <1>1, <1>2
    <2> HIDE DEF most
    <2>1. (saved \o most) \o ch = saved \o (most \o ch)
      BY <2>0, ConcatAssociative
    <2>2. (saved \o lead) \o InFan = saved \o most
      <3>1. saved \in Seq(Reading) /\ lead \in Seq(Reading) /\ InFan \in Seq(Reading)
        BY <1>1, <1>2
      <3> HIDE DEF lead
      <3>2. (saved \o lead) \o InFan = saved \o (lead \o InFan)
        BY <3>1, ConcatAssociative
      <3> QED BY <3>2 DEF most
    <2>3. (saved \o buffer) \o localCh = saved \o lead
      BY <1>1, ConcatAssociative
    <2> QED BY <2>1, <2>2, <2>3 DEF Way
  <1>4. Path = saved \o (IF writer = "run" THEN rest ELSE <<>>)
    BY DEF Path, InFan
  <1>5. saved \o <<>> = saved
    BY <1>1, ConcatEmptySeq
  <1>6. /\ Len(saved \o rest) = Len(saved) + Len(rest)
        /\ \A i \in 1..(Len(saved) + Len(rest)) :
              (saved \o rest)[i] = IF i <= Len(saved) THEN saved[i] ELSE rest[i - Len(saved)]
    BY <1>1, <1>2, ConcatProperties
  <1>7. Len(saved) \in Nat /\ Len(rest) \in Nat
    BY <1>1, <1>2, LenProperties
  <1> HIDE DEF rest
  <1>8. CASE writer = "run"
    BY <1>1, <1>3, <1>4, <1>8, LenProperties
  <1>9. CASE writer # "run"
    <2>1. Path = saved
      BY <1>4, <1>5, <1>9
    <2> QED BY <1>1, <1>3, <1>6, <1>7, <1>9, <2>1
  <1> QED BY <1>8, <1>9

\* The order of the way is the order of the path.
LEMMA PathInOrder == ASSUME FlowInv PROVE InOrderOnce
  <1>1. /\ Path \in Seq(Reading) /\ Way \in Seq(Reading) /\ Len(Path) <= Len(Way)
        /\ \A i \in 1..Len(Path) : Path[i] = Way[i]
    BY PathIsOnWay DEF FlowInv
  <1>2. DOMAIN Path = 1..Len(Path) /\ DOMAIN Way = 1..Len(Way) /\ Len(Path) \in Nat /\ Len(Way) \in Nat
    BY <1>1, LenProperties
  <1>3. DOMAIN Path \subseteq DOMAIN Way
    BY <1>1, <1>2
  <1> QED BY <1>1, <1>2, <1>3 DEF FlowInv, WayInOrder, InOrderOnce

\* A reading that precedes one of its producer on the path is on the path: it is
\* on the way, and not behind it.
LEMMA EarlierIsOnPath ==
    ASSUME FlowInv, NEW i \in DOMAIN Path, NEW r \in 1..Len(by),
           by[r] = by[Path[i]], r < Path[i]
    PROVE  OnPath(r)
  <1>1. /\ Path \in Seq(Reading) /\ Way \in Seq(Reading) /\ Len(Path) <= Len(Way)
        /\ \A k \in 1..Len(Path) : Path[k] = Way[k]
    BY PathIsOnWay DEF FlowInv
  <1>2. DOMAIN Path = 1..Len(Path) /\ DOMAIN Way = 1..Len(Way) /\ Len(Path) \in Nat /\ Len(Way) \in Nat
    BY <1>1, LenProperties
  <1>3. i \in DOMAIN Way /\ Way[i] = Path[i] /\ Path[i] \in Nat /\ r \in Nat /\ r # Nothing
    <2>1. i \in 1..Len(Path)
      BY <1>2
    <2>2. Path[i] \in Reading
      BY <1>1, <2>1, ElementOfSeq
    <2> QED BY <1>1, <1>2, <2>1, <2>2 DEF Reading, Nothing
  <1>4. by[r] \in Producer
    BY ElementOfSeq DEF FlowInv, TypeInv, TypeOK
  <1>5. hand[by[r]] # r
    <2>1. hand[by[r]] # Nothing => Way[i] < hand[by[r]]
      BY <1>3, <1>4 DEF FlowInv, HandIsNewest
    <2> QED BY <1>3, <2>1
  <1>6. PICK k \in DOMAIN Way : Way[k] = r
    BY <1>5 DEF FlowInv, OnWay
  <1>7. ~ (i < k) /\ k # i
    BY <1>3, <1>6 DEF FlowInv, WayInOrder
  <1>8. k \in DOMAIN Path /\ Path[k] = r
    BY <1>1, <1>2, <1>6, <1>7
  <1> QED BY <1>8 DEF OnPath

\* What was taken is on the path, in a hand, or lost in a stop.
LEMMA LossIsStop == ASSUME FlowInv, StopInv PROVE LostOnlyOnStop
  <1>1. ASSUME NEW r \in 1..Len(by)
        PROVE  \/ writer = "run" /\ hand[by[r]] = r
               \/ OnPath(r)
               \/ writer = "done" /\ ctxDone
    <2>1. CASE writer = "run"
      <3>1. Path = Way
        BY <2>1, PathIsOnWay DEF FlowInv
      <3> QED BY <2>1, <3>1 DEF FlowInv, OnWay, OnPath
    <2>2. CASE writer # "run"
      <3>1. writer = "done" /\ by[r] \in Producer
        BY <2>2, ElementOfSeq DEF FlowInv, TypeInv, TypeOK
      <3> QED BY <3>1 DEF StopInv
    <2> QED BY <2>1, <2>2
  <1> QED BY <1>1, EarlierIsOnPath DEF LostOnlyOnStop

\* No reading is on its way to the cache twice and none of a producer overtakes
\* an earlier one of the same producer, whatever saves fail.
THEOREM ReadingsKeepOrder == Spec => []InOrderOnce
  <1>1. FlowInv => InOrderOnce
    BY PathInOrder
  <1> QED BY <1>1, PipelineAssumption, FlowInit, FlowStep, PTL DEF Spec

\* While consumeAndWrite runs a reading that was taken is in the hand of its
\* producer or on the way to the cache; readings are lost when the gateway stops
\* and only then, and never one between two that are kept.
THEOREM ReadingsAreLostOnlyOnStop == Spec => []LostOnlyOnStop
  <1>1. FlowInv => TypeOK
    BY DEF FlowInv, TypeInv
  <1>2. PipelineAssumption /\ Init => FlowInv /\ StopInv
    BY FlowInit, StopInit
  <1>3. PipelineAssumption /\ (FlowInv /\ StopInv) /\ [Next]_vars => (FlowInv /\ StopInv)'
    BY <1>1, FlowStep, StopStep
  <1>4. FlowInv /\ StopInv => LostOnlyOnStop
    BY LossIsStop
  <1> QED BY <1>2, <1>3, <1>4, PipelineAssumption, PTL DEF Spec
===============================================================================
