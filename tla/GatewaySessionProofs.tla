------------------------- MODULE GatewaySessionProofs -------------------------
(***************************************************************************)
(* Proofs about GatewaySession for any number of connections, retries,      *)
(* uploads, heartbeats and notifications.                                   *)
(***************************************************************************)
EXTENDS GatewaySession, SequenceTheorems, TLAPS

\* A session that is under way has a connection.
SessionIsMade == pc \in {"shake", "loop", "upload", "beat"} => sess \in Conn

TypeInv == TypeOK /\ SessionIsMade

\* What the tail of a queue is made of.
LEMMA TailOf ==
    ASSUME NEW S, NEW q \in Seq(S), q # <<>>
    PROVE  /\ Head(q) \in S /\ Tail(q) \in Seq(S) /\ Len(Tail(q)) = Len(q) - 1
           /\ Len(q) \in Nat /\ Len(q) >= 1 /\ Head(q) = q[1]
           /\ \A i \in 1..Len(Tail(q)) : i + 1 \in 1..Len(q) /\ Tail(q)[i] = q[i + 1]
  BY HeadTailProperties, EmptySeq, LenProperties

\* The session ends: what it resets is of the right type.
LEMMA EndTypes ==
    ASSUME TypeOK, sess \in Conn, SessionEnds
    PROVE  /\ pc' \in {"wait", "done"} /\ link' \in [Conn -> {"none", "up", "broken", "closed"}]
           /\ line' \in [Conn -> Seq(Answer)] /\ route' = 0 /\ allTimeout' = 0
           /\ sess' = sess /\ attempt' = attempt
  BY DEF SessionEnds, AfterRun, Closed, TypeOK

\* The server's answers are of the right type.
LEMMA AskedTypes ==
    ASSUME TypeOK, sess \in Conn, NEW answer \in Answer, Asked(answer)
    PROVE  line' \in [Conn -> Seq(Answer)]
  <1>1. Append(line[sess], answer) \in Seq(Answer)
    BY AppendProperties DEF TypeOK
  <1> QED BY <1>1 DEF Asked, TypeOK

\* The first dial is the first state.
LEMMA TypeInit == ASSUME SessionAssumption, Init PROVE TypeInv
  <1>1. <<>> \in Seq(Answer) /\ <<>> \in Seq(Event)
    OBVIOUS
  <1>2. /\ MaxSessions \in Nat /\ MaxRetry \in Nat \ {0} /\ Window \in Nat /\ MaxAllTimeout \in Nat
        /\ MaxUploads \in Nat /\ MaxBeats \in Nat /\ MaxEvents \in Nat /\ NotifyCap \in Nat
    BY DEF SessionAssumption
  <1>3. /\ link \in [Conn -> {"none", "up", "broken", "closed"}]
        /\ line \in [Conn -> Seq(Answer)]
        /\ reader \in [Conn -> {"none", "reading", "ended"}]
        /\ hand \in [Conn -> Answer \cup {None}]
        /\ ackCh \in [Conn -> 0..Window] /\ early \in [Conn -> 0..Window]
    BY <1>1, <1>2 DEF Init
  <1>4. notifyCh \in Seq(Event) /\ Len(notifyCh) <= NotifyCap /\ written \in Seq(Event)
    BY <1>1, <1>2 DEF Init
  <1>5. /\ sess \in 0..MaxSessions /\ attempt \in 0..(MaxRetry - 1) /\ allTimeout \in 0..MaxAllTimeout
        /\ uploads \in 0..MaxUploads /\ beats \in 0..MaxBeats /\ route \in 0..MaxBeats
        /\ beatCh \in 0..MaxBeats /\ events \in 0..MaxEvents
    BY <1>2 DEF Init
  <1>6. /\ cancelled = FALSE /\ pc = "dial" /\ dropped = {} /\ lost = {}
    BY DEF Init
  <1> QED BY <1>3, <1>4, <1>5, <1>6 DEF TypeInv, TypeOK, SessionIsMade

\* Every step keeps the types.
LEMMA TypeStep ==
    ASSUME SessionAssumption, TypeInv, [Next]_vars
    PROVE  TypeInv'
  <1> USE DEF clientVars, countVars, linkVars, readerVars, beatVars, notifyVars
  <1>0. /\ TypeOK /\ SessionIsMade
        /\ MaxSessions \in Nat \ {0} /\ MaxRetry \in Nat \ {0} /\ Window \in Nat \ {0}
        /\ MaxAllTimeout \in Nat \ {0} /\ MaxUploads \in Nat /\ MaxBeats \in Nat
        /\ MaxEvents \in Nat /\ NotifyCap \in Nat \ {0}
    BY DEF TypeInv, SessionAssumption
  <1>1. CASE CancelContext
    BY <1>0, <1>1 DEF CancelContext, TypeInv, TypeOK, SessionIsMade
  <1>2. CASE WaitOver \/ DialFails
    <2>1. pc' \in {"wait", "dial", "done"} /\ attempt' \in 0..(MaxRetry - 1)
      BY <1>0, <1>2 DEF WaitOver, DialFails, AfterRun, TypeOK
    <2>2. UNCHANGED <<cancelled, sess, allTimeout, countVars, linkVars, readerVars, beatVars, early,
                      notifyVars>>
      BY <1>2 DEF WaitOver, DialFails
    <2> QED BY <1>0, <2>1, <2>2 DEF TypeInv, TypeOK, SessionIsMade
  <1>3. CASE DialSucceeds
    BY <1>0, <1>3 DEF DialSucceeds, TypeInv, TypeOK, SessionIsMade, Conn
  <1>4. CASE HandshakeAccepted
    BY <1>0, <1>4 DEF HandshakeAccepted, TypeInv, TypeOK, SessionIsMade
  <1>5. ASSUME pc \in {"shake", "loop", "upload", "beat"}, SessionEnds,
               UNCHANGED <<cancelled, countVars, readerVars, beatCh, events, written, dropped>>,
               early' \in [Conn -> 0..Window],
               notifyCh' \in Seq(Event), Len(notifyCh') <= NotifyCap, lost' \in SUBSET Event
        PROVE  TypeInv'
    <2>1. /\ pc' \in {"wait", "done"} /\ link' \in [Conn -> {"none", "up", "broken", "closed"}]
          /\ line' \in [Conn -> Seq(Answer)] /\ route' = 0 /\ allTimeout' = 0
          /\ sess' = sess /\ attempt' = attempt
      BY <1>0, <1>5, EndTypes DEF SessionIsMade
    <2> QED BY <1>0, <1>5, <2>1 DEF TypeInv, TypeOK, SessionIsMade
  <1>6. CASE \/ HandshakeFails \/ LoopStops \/ WriteFails \/ UploadFails
             \/ AckCancelled \/ HeartbeatTimeout
    <2>1. /\ pc \in {"shake", "loop", "upload", "beat"} /\ SessionEnds
          /\ UNCHANGED <<cancelled, countVars, readerVars, beatCh, early, notifyVars>>
      BY <1>6 DEF HandshakeFails, LoopStops, WriteFails, UploadFails, AckCancelled, HeartbeatTimeout,
                  AfterBeatTimeout
    <2> QED BY <1>0, <1>5, <2>1 DEF TypeOK
  <1>7. CASE WriteUpload
    <2>1. UploadAck \in Answer
      BY DEF UploadAck, Answer
    <2>2. line' \in [Conn -> Seq(Answer)]
      BY <1>0, <1>7, <2>1, AskedTypes DEF WriteUpload, SessionIsMade
    <2> QED BY <1>0, <1>7, <2>2 DEF WriteUpload, TypeInv, TypeOK, SessionIsMade
  <1>8. CASE TakeAck
    BY <1>0, <1>8 DEF TakeAck, TypeInv, TypeOK, SessionIsMade
  <1>9. CASE AckTimeout
    <2>1. early' \in [Conn -> 0..Window]
      BY <1>0, <1>9 DEF AckTimeout, TypeOK, SessionIsMade
    <2>2. CASE allTimeout + 1 >= MaxAllTimeout
      BY <1>0, <1>5, <1>9, <2>1, <2>2 DEF AckTimeout, TypeOK
    <2>3. CASE ~(allTimeout + 1 >= MaxAllTimeout)
      BY <1>0, <1>9, <2>1, <2>3 DEF AckTimeout, TypeInv, TypeOK, SessionIsMade
    <2> QED BY <2>2, <2>3
  <1>10. CASE WriteHeartbeat
    <2>1. beats + 1 \in 1..MaxBeats /\ beats' = beats + 1
      BY <1>0, <1>10 DEF WriteHeartbeat, TypeOK
    <2>2. HeartbeatAck(beats') \in Answer
      BY <2>1 DEF HeartbeatAck, Answer
    <2>3. line' \in [Conn -> Seq(Answer)]
      BY <1>0, <1>10, <2>2, AskedTypes DEF WriteHeartbeat, SessionIsMade
    <2> QED BY <1>0, <1>10, <2>1, <2>3 DEF WriteHeartbeat, TypeInv, TypeOK, SessionIsMade
  <1>11. CASE WriteHeartbeatInVain \/ TakeHeartbeatAck
    <2>1. /\ pc \in {"loop", "beat"} /\ pc' \in {"loop", "beat"}
          /\ route' \in 0..MaxBeats /\ beatCh' \in 0..MaxBeats
          /\ UNCHANGED <<cancelled, sess, attempt, allTimeout, countVars, linkVars, readerVars, early,
                         notifyVars>>
      BY <1>0, <1>11 DEF WriteHeartbeatInVain, TakeHeartbeatAck, TypeOK
    <2> QED BY <1>0, <2>1 DEF TypeInv, TypeOK, SessionIsMade
  <1>12. CASE DeviceOffline
    <2>1. events + 1 \in Event
      BY <1>0, <1>12 DEF DeviceOffline, TypeOK, Event
    <2>2. /\ Append(notifyCh, events + 1) \in Seq(Event)
          /\ Len(Append(notifyCh, events + 1)) = Len(notifyCh) + 1 /\ Len(notifyCh) \in Nat
      BY <1>0, <2>1, AppendProperties, LenProperties DEF TypeOK
    <2>3. /\ notifyCh' \in Seq(Event) /\ Len(notifyCh') <= NotifyCap
          /\ dropped' \in SUBSET Event /\ events' \in 0..MaxEvents
      <3>1. events' = events + 1 /\ events' \in 0..MaxEvents
        BY <1>0, <1>12 DEF DeviceOffline, TypeOK
      <3>2. CASE Len(notifyCh) < NotifyCap
        <4>1. notifyCh' = Append(notifyCh, events + 1) /\ dropped' = dropped
          BY <1>12, <3>1, <3>2 DEF DeviceOffline
        <4>2. Len(notifyCh') = Len(notifyCh) + 1
          BY <2>2, <4>1
        <4> QED BY <1>0, <2>2, <3>1, <3>2, <4>1, <4>2 DEF TypeOK
      <3>3. CASE ~(Len(notifyCh) < NotifyCap)
        BY <1>0, <1>12, <2>1, <3>1, <3>3 DEF DeviceOffline, TypeOK
      <3> QED BY <3>2, <3>3
    <2> QED BY <1>0, <1>12, <2>3 DEF DeviceOffline, TypeInv, TypeOK, SessionIsMade
  <1>13. CASE SendNotify \/ NotifyFails
    <2>1. /\ Head(notifyCh) \in Event /\ Tail(notifyCh) \in Seq(Event)
          /\ Len(Tail(notifyCh)) <= NotifyCap
      BY <1>0, <1>13, TailOf DEF SendNotify, NotifyFails, TypeOK
    <2>2. Append(written, Head(notifyCh)) \in Seq(Event)
      BY <1>0, <2>1, AppendProperties DEF TypeOK
    <2>3. CASE SendNotify
      BY <1>0, <2>1, <2>2, <2>3 DEF SendNotify, TypeInv, TypeOK, SessionIsMade
    <2>4. CASE NotifyFails
      BY <1>0, <1>5, <2>1, <2>4 DEF NotifyFails, AfterFailedNotify, TypeOK
    <2> QED BY <1>13, <2>3, <2>4
  <1>14. ASSUME NEW c \in Conn, LinkBreaks(c)
         PROVE  TypeInv'
    <2>1. <<>> \in Seq(Answer)
      OBVIOUS
    <2> QED BY <1>0, <1>14, <2>1 DEF LinkBreaks, TypeInv, TypeOK, SessionIsMade
  <1>15. ASSUME NEW c \in Conn, ReadFrame(c)
         PROVE  TypeInv'
    <2>1. Head(line[c]) \in Answer /\ Tail(line[c]) \in Seq(Answer)
      BY <1>0, <1>15, TailOf DEF ReadFrame, TypeOK
    <2> QED BY <1>0, <1>15, <2>1 DEF ReadFrame, TypeInv, TypeOK, SessionIsMade
  <1>16. ASSUME NEW c \in Conn, DispatchAck(c)
         PROVE  TypeInv'
    BY <1>0, <1>16 DEF DispatchAck, Room, TypeInv, TypeOK, SessionIsMade
  <1>17. ASSUME NEW c \in Conn, DispatchHeartbeatAck(c)
         PROVE  TypeInv'
    <2>1. hand[c] \in Answer /\ hand[c].type = "HeartbeatAck"
      BY <1>0, <1>17 DEF DispatchHeartbeatAck, TypeOK, None
    <2>2. hand[c].beat \in 1..MaxBeats
      BY <2>1 DEF Answer
    <2>3. beatCh' \in 0..MaxBeats
      BY <1>0, <1>17, <2>2 DEF DispatchHeartbeatAck, TypeOK
    <2> QED BY <1>0, <1>17, <2>3 DEF DispatchHeartbeatAck, TypeInv, TypeOK, SessionIsMade
  <1>18. ASSUME NEW c \in Conn, ReadFails(c) \/ ReadTimesOut(c)
         PROVE  TypeInv'
    BY <1>0, <1>18 DEF ReadFails, ReadTimesOut, TypeInv, TypeOK, SessionIsMade
  <1>19. CASE UNCHANGED vars
    BY <1>0, <1>19 DEF vars, TypeInv, TypeOK, SessionIsMade
  <1> QED BY <1>1, <1>2, <1>3, <1>4, <1>6, <1>7, <1>8, <1>9, <1>10, <1>11, <1>12, <1>13, <1>14,
             <1>15, <1>16, <1>17, <1>18, <1>19
          DEF Next, DialStep, HeartbeatStep, AwaitEnds, ReaderStep

\* Channels stay within their capacity and counters within their bounds.
THEOREM TypeCorrect == Spec => []TypeOK
  <1>1. TypeInv => TypeOK
    BY DEF TypeInv
  <1>2. SessionAssumption /\ Init => TypeInv
    BY TypeInit
  <1>3. SessionAssumption /\ TypeInv /\ [Next]_vars => TypeInv'
    BY TypeStep
  <1> QED BY <1>1, <1>2, <1>3, SessionAssumption, PTL DEF Spec

-------------------------------------------------------------------------------
(* Notifications                                                           *)

\* The notifications written and waiting, in order.
NotifyPath == written \o notifyCh

\* The way of the notifications, place by place.
LEMMA NotifyPathIs ==
    ASSUME TypeOK
    PROVE  /\ NotifyPath \in Seq(Event) /\ Len(written) \in Nat /\ Len(notifyCh) \in Nat
           /\ Len(NotifyPath) = Len(written) + Len(notifyCh)
           /\ DOMAIN NotifyPath = 1..(Len(written) + Len(notifyCh))
           /\ \A i \in 1..(Len(written) + Len(notifyCh)) :
                 NotifyPath[i] = IF i <= Len(written) THEN written[i]
                                 ELSE notifyCh[i - Len(written)]
           /\ \A i \in DOMAIN NotifyPath : NotifyPath[i] \in Event
  <1>1. written \in Seq(Event) /\ notifyCh \in Seq(Event)
    BY DEF TypeOK
  <1>2. /\ Len(written) \in Nat /\ Len(notifyCh) \in Nat
    BY <1>1, LenProperties
  <1>3. /\ NotifyPath \in Seq(Event) /\ Len(NotifyPath) = Len(written) + Len(notifyCh)
        /\ \A i \in 1..(Len(written) + Len(notifyCh)) :
              NotifyPath[i] = IF i <= Len(written) THEN written[i] ELSE notifyCh[i - Len(written)]
    BY <1>1, ConcatProperties DEF NotifyPath
  <1>4. DOMAIN NotifyPath = 1..(Len(written) + Len(notifyCh))
    BY <1>3, LenProperties
  <1>5. \A i \in DOMAIN NotifyPath : NotifyPath[i] \in Event
    BY <1>3, ElementOfSeq, <1>4
  <1> QED BY <1>2, <1>3, <1>4, <1>5

\* What the steps do to that way: an event comes in at its end, the first that
\* waits is taken out when its write fails, and a write that succeeds leaves
\* every notification in its place.
LEMMA NotifyMoves ==
    ASSUME SessionAssumption, TypeInv, [Next]_vars
    PROVE  \/ UNCHANGED <<NotifyPath, events, dropped, lost>>
           \/ /\ NotifyPath' = Append(NotifyPath, events + 1) /\ events' = events + 1
              /\ UNCHANGED <<dropped, lost>>
           \/ /\ dropped' = dropped \cup {events + 1} /\ events' = events + 1
              /\ UNCHANGED <<NotifyPath, lost>>
           \/ \E n \in DOMAIN NotifyPath :
                /\ lost' = lost \cup {NotifyPath[n]}
                /\ DOMAIN NotifyPath' = 1..(Len(NotifyPath) - 1)
                /\ \A i \in DOMAIN NotifyPath' :
                      NotifyPath'[i] = IF i < n THEN NotifyPath[i] ELSE NotifyPath[i + 1]
                /\ UNCHANGED <<events, dropped>>
  <1>0. /\ TypeOK /\ written \in Seq(Event) /\ notifyCh \in Seq(Event) /\ events \in Nat
    BY DEF TypeInv, TypeOK
  <1>1. CASE DeviceOffline
    <2>1. events + 1 \in Event
      BY <1>0, <1>1 DEF DeviceOffline, TypeInv, TypeOK, Event
    <2>2. CASE Len(notifyCh) < NotifyCap
      <3>1. /\ notifyCh' = Append(notifyCh, events + 1) /\ events' = events + 1
            /\ UNCHANGED <<written, dropped, lost>>
        BY <1>1, <2>2 DEF DeviceOffline
      <3> DEFINE e == events + 1
      <3>2. e \in Event /\ <<e>> \in Seq(Event)
        BY <2>1
      <3> HIDE DEF e
      <3>3. notifyCh \o <<e>> = Append(notifyCh, e)
        BY <1>0, <3>2, AppendIsConcat
      <3>4. (written \o notifyCh) \o <<e>> = written \o (notifyCh \o <<e>>)
        BY <1>0, <3>2, ConcatAssociative
      <3>5. written \o notifyCh \in Seq(Event)
        BY <1>0, ConcatProperties
      <3>6. Append(written \o notifyCh, e) = (written \o notifyCh) \o <<e>>
        BY <3>2, <3>5, AppendIsConcat
      <3>7. NotifyPath' = Append(NotifyPath, e)
        BY <3>1, <3>3, <3>4, <3>6 DEF NotifyPath, e
      <3> QED BY <3>1, <3>7 DEF e
    <2>3. CASE ~(Len(notifyCh) < NotifyCap)
      BY <1>1, <2>3 DEF DeviceOffline, NotifyPath, notifyVars
    <2> QED BY <2>2, <2>3
  <1>2. CASE SendNotify
    <2>1. /\ Head(notifyCh) \in Event /\ Tail(notifyCh) \in Seq(Event)
          /\ written' = Append(written, Head(notifyCh)) /\ notifyCh' = Tail(notifyCh)
          /\ UNCHANGED <<events, dropped, lost>>
      BY <1>0, <1>2, TailOf DEF SendNotify
    <2>2. NotifyPath' = NotifyPath
      <3> DEFINE e == Head(notifyCh)
                 q == Tail(notifyCh)
      <3>1. /\ e \in Event /\ <<e>> \in Seq(Event) /\ q \in Seq(Event)
            /\ NotifyPath' = Append(written, e) \o q
        BY <2>1 DEF NotifyPath
      <3>2. notifyCh = <<e>> \o q
        <4>1. /\ Len(notifyCh) \in Nat /\ Len(q) = Len(notifyCh) - 1 /\ Len(q) \in Nat
              /\ e = notifyCh[1] /\ \A i \in 1..Len(q) : q[i] = notifyCh[i + 1]
          BY <1>0, <1>2, TailOf DEF SendNotify
        <4> HIDE DEF e, q
        <4>2. /\ <<e>> \o q \in Seq(Event) /\ Len(<<e>> \o q) = Len(notifyCh)
              /\ \A i \in 1..Len(notifyCh) :
                    (<<e>> \o q)[i] = IF i <= 1 THEN <<e>>[i] ELSE q[i - 1]
          <5>1. Len(<<e>>) = 1 /\ 1 + Len(q) = Len(notifyCh)
            BY <4>1
          <5>2. /\ <<e>> \o q \in Seq(Event) /\ Len(<<e>> \o q) = Len(<<e>>) + Len(q)
                /\ \A i \in 1..(Len(<<e>>) + Len(q)) :
                      (<<e>> \o q)[i] = IF i <= Len(<<e>>) THEN <<e>>[i] ELSE q[i - Len(<<e>>)]
            BY <3>1, ConcatProperties
          <5>3. Len(<<e>>) + Len(q) = Len(notifyCh)
            BY <5>1
          <5>4. \A i \in 1..Len(notifyCh) :
                  (<<e>> \o q)[i] = IF i <= Len(<<e>>) THEN <<e>>[i] ELSE q[i - Len(<<e>>)]
            BY <5>2, <5>3, Zenon
          <5> QED BY <5>1, <5>2, <5>3, <5>4
        <4>3. ASSUME NEW i \in 1..Len(notifyCh)
              PROVE  (<<e>> \o q)[i] = notifyCh[i]
          <5>1. CASE i = 1
            BY <4>1, <4>2, <5>1
          <5>2. CASE i > 1
            <6>1. i - 1 \in 1..Len(q) /\ (i - 1) + 1 = i
              BY <4>1, <5>2
            <6> QED BY <4>1, <4>2, <5>2, <6>1
          <5> QED BY <4>1, <5>1, <5>2
        <4> QED BY <1>0, <4>2, <4>3, SeqEqual
      <3> HIDE DEF e, q
      <3>3. Append(written, e) = written \o <<e>>
        BY <1>0, <3>1, AppendIsConcat
      <3>4. (written \o <<e>>) \o q = written \o (<<e>> \o q)
        BY <1>0, <3>1, ConcatAssociative
      <3> QED BY <3>1, <3>2, <3>3, <3>4 DEF NotifyPath
    <2> QED BY <2>1, <2>2
  <1>3. CASE NotifyFails
    <2>1. /\ notifyCh # <<>> /\ lost' = lost \cup {Head(notifyCh)} /\ notifyCh' = Tail(notifyCh)
          /\ UNCHANGED <<written, events, dropped>>
      BY <1>3 DEF NotifyFails, AfterFailedNotify
    <2> DEFINE q == Tail(notifyCh)
               w == Len(written)
               n == w + 1
    <2>2. /\ Head(notifyCh) = notifyCh[1] /\ q \in Seq(Event) /\ Len(q) = Len(notifyCh) - 1
          /\ Len(notifyCh) >= 1 /\ w \in Nat /\ Len(notifyCh) \in Nat /\ Len(q) \in Nat
          /\ \A i \in 1..Len(q) : q[i] = notifyCh[i + 1]
      BY <1>0, <2>1, TailOf, LenProperties
    <2>3. /\ NotifyPath' = written \o q
      BY <2>1 DEF NotifyPath
    <2> HIDE DEF q, w
    <2>4. /\ written \o q \in Seq(Event) /\ Len(written \o q) = w + Len(q)
          /\ \A i \in 1..(w + Len(q)) :
                (written \o q)[i] = IF i <= w THEN written[i] ELSE q[i - w]
      BY <1>0, <2>2, ConcatProperties DEF w
    <2>5. DOMAIN NotifyPath' = 1..(w + Len(q))
      BY <2>3, <2>4, LenProperties
    <2>6. /\ Len(NotifyPath) = w + Len(notifyCh) /\ DOMAIN NotifyPath = 1..(w + Len(notifyCh))
          /\ \A i \in 1..(w + Len(notifyCh)) :
                NotifyPath[i] = IF i <= w THEN written[i] ELSE notifyCh[i - w]
      BY <1>0, NotifyPathIs DEF w
    <2>7. n \in DOMAIN NotifyPath /\ NotifyPath[n] = Head(notifyCh)
      BY <2>2, <2>6
    <2>8. DOMAIN NotifyPath' = 1..(Len(NotifyPath) - 1)
      BY <2>2, <2>5, <2>6
    <2>9. ASSUME NEW i \in DOMAIN NotifyPath'
          PROVE  NotifyPath'[i] = IF i < n THEN NotifyPath[i] ELSE NotifyPath[i + 1]
      <3>1. i \in 1..(w + Len(q)) /\ i \in 1..(w + Len(notifyCh)) /\ i + 1 \in 1..(w + Len(notifyCh))
        BY <2>2, <2>5
      <3>2. CASE i <= w
        BY <2>2, <2>3, <2>4, <2>6, <3>1, <3>2
      <3>3. CASE i > w
        <4>1. NotifyPath'[i] = q[i - w] /\ i - w \in 1..Len(q)
          BY <2>2, <2>3, <2>4, <3>1, <3>3
        <4>2. q[i - w] = notifyCh[(i - w) + 1]
          BY <2>2, <4>1
        <4>3. NotifyPath[i + 1] = notifyCh[(i + 1) - w] /\ (i + 1) - w = (i - w) + 1
          BY <2>2, <2>6, <3>1, <3>3
        <4> QED BY <2>2, <3>1, <3>3, <4>1, <4>2, <4>3
      <3> QED BY <2>2, <3>1, <3>2, <3>3
    <2> QED BY <2>1, <2>7, <2>8, <2>9
  <1>4. CASE UNCHANGED notifyVars
    BY <1>4 DEF notifyVars, NotifyPath
  <1> QED BY <1>1, <1>2, <1>3, <1>4
          DEF Next, vars, CancelContext, DialStep, WaitOver, DialSucceeds, DialFails,
              HandshakeAccepted, HandshakeFails, LoopStops, WriteUpload, HeartbeatStep,
              WriteHeartbeat, WriteHeartbeatInVain, WriteFails, UploadFails, AwaitEnds, TakeAck, AckTimeout,
              AckCancelled, TakeHeartbeatAck, HeartbeatTimeout, LinkBreaks, ReaderStep, ReadFrame,
              DispatchAck, DispatchHeartbeatAck, ReadFails, ReadTimesOut

NotifyInv == TypeInv /\ NotifyAccounted

\* The same, in terms of the way.
NotifyPathInv ==
    /\ \A i, j \in DOMAIN NotifyPath : i < j => NotifyPath[i] < NotifyPath[j]
    /\ {NotifyPath[i] : i \in DOMAIN NotifyPath} \cup dropped \cup lost = 1..events
    /\ dropped \cap lost = {}
    /\ \A i \in DOMAIN NotifyPath : NotifyPath[i] \notin dropped \cup lost

\* Every step keeps it.
LEMMA NotifyStep ==
    ASSUME SessionAssumption, NotifyInv, [Next]_vars
    PROVE  NotifyInv'
  <1>0. TypeInv /\ TypeOK /\ NotifyPathInv /\ events \in Nat
    BY DEF NotifyInv, NotifyAccounted, NotifyPathInv, NotifyPath, TypeInv, TypeOK
  <1>w. TypeInv'
    BY TypeStep DEF NotifyInv
  <1> SUFFICES NotifyPathInv'
    BY <1>w DEF NotifyInv, NotifyAccounted, NotifyPathInv, NotifyPath
  <1>p. /\ NotifyPath \in Seq(Event) /\ Len(NotifyPath) \in Nat
        /\ DOMAIN NotifyPath = 1..Len(NotifyPath)
        /\ \A i \in DOMAIN NotifyPath : NotifyPath[i] \in Event
    BY <1>0, NotifyPathIs, LenProperties
  <1>b. \A i \in DOMAIN NotifyPath : NotifyPath[i] \in 1..events
    BY <1>0 DEF NotifyPathInv
  <1>1. CASE UNCHANGED <<NotifyPath, events, dropped, lost>>
    BY <1>0, <1>1 DEF NotifyPathInv
  <1>2. CASE /\ NotifyPath' = Append(NotifyPath, events + 1) /\ events' = events + 1
             /\ UNCHANGED <<dropped, lost>>
    <2> DEFINE n == Len(NotifyPath)
    <2>1. /\ n \in Nat /\ DOMAIN NotifyPath = 1..n /\ DOMAIN NotifyPath' = 1..(n + 1)
          /\ \A i \in 1..n : NotifyPath'[i] = NotifyPath[i]
          /\ NotifyPath'[n + 1] = events + 1
      BY <1>p, <1>2
    <2> HIDE DEF n
    <2>2. \A i, j \in DOMAIN NotifyPath' : i < j => NotifyPath'[i] < NotifyPath'[j]
      <3>1. ASSUME NEW i \in 1..n, NEW j \in 1..n, i < j
            PROVE  NotifyPath'[i] < NotifyPath'[j]
        BY <1>0, <2>1, <3>1 DEF NotifyPathInv
      <3>2. ASSUME NEW i \in 1..n
            PROVE  NotifyPath'[i] < NotifyPath'[n + 1]
        <4>1. NotifyPath[i] \in 1..events
          BY <1>b, <2>1
        <4> QED BY <1>0, <2>1, <4>1
      <3> QED BY <2>1, <3>1, <3>2
    <2>3. {NotifyPath'[i] : i \in DOMAIN NotifyPath'}
            = {NotifyPath[i] : i \in DOMAIN NotifyPath} \cup {events + 1}
      BY <2>1
    <2>4. 1..events' = 1..events \cup {events + 1} /\ events + 1 \notin dropped \cup lost
      BY <1>0, <1>2 DEF NotifyPathInv
    <2>5. \A i \in DOMAIN NotifyPath' : NotifyPath'[i] \notin dropped \cup lost
      BY <1>0, <2>1, <2>4 DEF NotifyPathInv
    <2> QED BY <1>0, <1>2, <2>2, <2>3, <2>4, <2>5 DEF NotifyPathInv
  <1>3. CASE /\ dropped' = dropped \cup {events + 1} /\ events' = events + 1
             /\ UNCHANGED <<NotifyPath, lost>>
    <2>1. 1..events' = 1..events \cup {events + 1} /\ events + 1 \notin 1..events
      BY <1>0, <1>3
    <2>2. lost \subseteq 1..events
      BY <1>0 DEF NotifyPathInv
    <2> QED BY <1>0, <1>3, <1>b, <2>1, <2>2 DEF NotifyPathInv
  <1>4. ASSUME NEW n \in DOMAIN NotifyPath,
               lost' = lost \cup {NotifyPath[n]},
               DOMAIN NotifyPath' = 1..(Len(NotifyPath) - 1),
               \A i \in DOMAIN NotifyPath' :
                  NotifyPath'[i] = IF i < n THEN NotifyPath[i] ELSE NotifyPath[i + 1],
               UNCHANGED <<events, dropped>>
        PROVE  NotifyPathInv'
    <2> DEFINE l == Len(NotifyPath)
    <2>1. /\ l \in Nat /\ DOMAIN NotifyPath = 1..l /\ DOMAIN NotifyPath' = 1..(l - 1) /\ n \in 1..l
          /\ \A i \in 1..(l - 1) :
                 NotifyPath'[i] = IF i < n THEN NotifyPath[i] ELSE NotifyPath[i + 1]
      BY <1>p, <1>4
    <2> HIDE DEF l
    <2>2. \A i, j \in 1..(l - 1) : i < j => NotifyPath'[i] < NotifyPath'[j]
      <3>1. ASSUME NEW i \in 1..(l - 1), NEW j \in 1..(l - 1), i < j
            PROVE  NotifyPath'[i] < NotifyPath'[j]
        <4>1. \E a, b \in 1..l : /\ a < b /\ NotifyPath'[i] = NotifyPath[a]
                                 /\ NotifyPath'[j] = NotifyPath[b]
          <5>1. CASE j < n
            BY <2>1, <3>1, <5>1
          <5>2. CASE i < n /\ ~(j < n)
            BY <2>1, <3>1, <5>2
          <5>3. CASE ~(i < n)
            BY <2>1, <3>1, <5>3
          <5> QED BY <2>1, <5>1, <5>2, <5>3
        <4> QED BY <1>0, <2>1, <4>1 DEF NotifyPathInv
      <3> QED BY <3>1
    <2>3. \A i \in 1..(l - 1) : \E a \in 1..l : a # n /\ NotifyPath'[i] = NotifyPath[a]
      BY <2>1
    <2>4. \A a \in 1..l : a # n => \E i \in 1..(l - 1) : NotifyPath'[i] = NotifyPath[a]
      <3>1. ASSUME NEW a \in 1..l, a < n
            PROVE  a \in 1..(l - 1) /\ NotifyPath'[a] = NotifyPath[a]
        BY <2>1, <3>1
      <3>2. ASSUME NEW a \in 1..l, a > n
            PROVE  a - 1 \in 1..(l - 1) /\ NotifyPath'[a - 1] = NotifyPath[a]
        BY <2>1, <3>2
      <3> QED BY <2>1, <3>1, <3>2
    <2>5. \A a \in 1..l : a # n => NotifyPath[a] # NotifyPath[n]
      <3>1. ASSUME NEW a \in 1..l, a # n
            PROVE  NotifyPath[a] # NotifyPath[n]
        <4>1. NotifyPath[a] \in Int /\ NotifyPath[n] \in Int
          BY <1>b, <2>1
        <4>2. NotifyPath[a] < NotifyPath[n] \/ NotifyPath[n] < NotifyPath[a]
          BY <1>0, <2>1, <3>1 DEF NotifyPathInv
        <4> QED BY <4>1, <4>2
      <3> QED BY <3>1
    <2>6. {NotifyPath[i] : i \in 1..l} = {NotifyPath'[i] : i \in 1..(l - 1)} \cup {NotifyPath[n]}
      BY <2>1, <2>3, <2>4
    <2>7. NotifyPath[n] \notin dropped
      BY <1>0 DEF NotifyPathInv
    <2>8. \A i \in 1..(l - 1) : NotifyPath'[i] \notin dropped \cup lost'
      BY <1>0, <1>4, <2>1, <2>3, <2>5 DEF NotifyPathInv
    <2>9. {NotifyPath'[i] : i \in DOMAIN NotifyPath'} \cup dropped' \cup lost' = 1..events'
      BY <1>0, <1>4, <2>1, <2>6 DEF NotifyPathInv
    <2> QED BY <1>0, <1>4, <2>1, <2>2, <2>7, <2>8, <2>9 DEF NotifyPathInv
  <1> QED BY <1>0, <1>1, <1>2, <1>3, <1>4, NotifyMoves

\* Every event has one fate, and notifications are written once and in order,
\* whatever connections break under them.
THEOREM EveryNotificationCounts == Spec => []NotifyAccounted
  <1>1. NotifyInv => NotifyAccounted
    BY DEF NotifyInv
  <1>2. SessionAssumption /\ Init => NotifyInv
    <2> SUFFICES ASSUME SessionAssumption, Init PROVE NotifyInv
      OBVIOUS
    <2>1. TypeInv
      BY TypeInit
    <2>2. DOMAIN NotifyPath = {} /\ events = 0 /\ dropped = {} /\ lost = {}
      BY <2>1, NotifyPathIs DEF Init, TypeInv
    <2> QED BY <2>1, <2>2 DEF NotifyInv, NotifyAccounted, NotifyPath
  <1>3. SessionAssumption /\ NotifyInv /\ [Next]_vars => NotifyInv'
    BY NotifyStep
  <1> QED BY <1>1, <1>2, <1>3, SessionAssumption, PTL DEF Spec

-------------------------------------------------------------------------------
(* Heartbeats                                                              *)

\* An answer to a heartbeat, and a connection on which none is due or in the hand
\* of its read loop.
IsBeatAck(answer) == answer.type = "HeartbeatAck"

NoneInLine(c) == \A i \in DOMAIN line[c] : ~IsBeatAck(line[c][i])

NoBeatDue(c) == NoneInLine(c) /\ ~IsBeatAck(hand[c])

\* Outside sendHeartbeat the session's connection owes it no answer and the
\* router knows no channel, since a heartbeat that was not answered ended its
\* session with its connection; inside, at most one answer is under way, and it
\* is the one to the heartbeat just written.
BeatsPairUp ==
    /\ pc # "beat" => route = 0
    /\ pc \in {"shake", "loop", "upload"} => NoBeatDue(sess)
    /\ pc = "beat" =>
         /\ beatCh # 0 => beatCh = beats /\ NoBeatDue(sess)
         /\ IsBeatAck(hand[sess]) => hand[sess].beat = beats /\ NoneInLine(sess)
         /\ \A i \in DOMAIN line[sess] : IsBeatAck(line[sess][i]) =>
               /\ line[sess][i].beat = beats
               /\ \A j \in DOMAIN line[sess] : IsBeatAck(line[sess][j]) => j = i

\* On connections not made yet nothing is under way.
FutureIsSilent == \A c \in Conn : c > sess => line[c] = <<>> /\ hand[c] = None

BeatInv == TypeInv /\ BeatsPairUp /\ FutureIsSilent

\* What the end of a session makes of its heartbeats.
LEMMA EndBeats ==
    ASSUME TypeOK, FutureIsSilent, sess \in Conn, SessionEnds, hand' = hand
    PROVE  BeatsPairUp' /\ FutureIsSilent'
  <1>1. /\ pc' \in {"wait", "done"} /\ route' = 0 /\ sess' = sess
        /\ line' = [line EXCEPT ![sess] = <<>>]
    BY DEF SessionEnds, AfterRun
  <1>2. BeatsPairUp'
    BY <1>1 DEF BeatsPairUp
  <1>3. FutureIsSilent'
    BY <1>1 DEF FutureIsSilent, TypeOK
  <1> QED BY <1>2, <1>3

\* What a request that is no heartbeat, or is one, adds to the line.
LEMMA AskedLine ==
    ASSUME TypeOK, sess \in Conn, NEW answer \in Answer, Asked(answer)
    PROVE  /\ \A c \in Conn : c # sess => line'[c] = line[c]
           /\ \/ line'[sess] = line[sess]
              \/ /\ DOMAIN line[sess] = 1..Len(line[sess]) /\ Len(line[sess]) \in Nat
                 /\ DOMAIN line'[sess] = 1..(Len(line[sess]) + 1)
                 /\ \A i \in 1..Len(line[sess]) : line'[sess][i] = line[sess][i]
                 /\ line'[sess][Len(line[sess]) + 1] = answer
  <1>1. line[sess] \in Seq(Answer)
    BY DEF TypeOK
  <1>2. CASE Works
    <2>1. line' = [line EXCEPT ![sess] = Append(line[sess], answer)]
      BY <1>2 DEF Asked
    <2>2. line'[sess] = Append(line[sess], answer) /\ \A c \in Conn : c # sess => line'[c] = line[c]
      BY <2>1 DEF TypeOK
    <2> DEFINE q == line[sess]
    <2>3. /\ q \in Seq(Answer) /\ line'[sess] = Append(q, answer)
      BY <1>1, <2>2
    <2> HIDE DEF q
    <2>4. /\ DOMAIN q = 1..Len(q) /\ Len(q) \in Nat
          /\ DOMAIN Append(q, answer) = 1..(Len(q) + 1)
          /\ \A i \in 1..Len(q) : Append(q, answer)[i] = q[i]
          /\ Append(q, answer)[Len(q) + 1] = answer
      BY <2>3, AppendProperties, LenProperties
    <2> QED BY <2>2, <2>3, <2>4 DEF q
  <1>3. CASE ~Works
    BY <1>3 DEF Asked
  <1> QED BY <1>2, <1>3

\* Every step keeps it.
LEMMA BeatStep ==
    ASSUME SessionAssumption, BeatInv, [Next]_vars
    PROVE  BeatInv'
  <1> USE DEF clientVars, countVars, linkVars, readerVars, beatVars, notifyVars
  <1>0. /\ TypeOK /\ SessionIsMade /\ BeatsPairUp /\ FutureIsSilent
        /\ sess \in Nat /\ Conn \subseteq Nat
    BY DEF BeatInv, TypeInv, TypeOK, Conn
  <1>w. TypeInv'
    BY TypeStep DEF BeatInv
  <1> SUFFICES BeatsPairUp' /\ FutureIsSilent'
    BY <1>w DEF BeatInv
  <1>1. CASE UNCHANGED <<pc, sess, beats, line, hand, beatVars>>
    BY <1>0, <1>1 DEF BeatsPairUp, FutureIsSilent, NoBeatDue, NoneInLine
  <1>2. CASE \/ CancelContext \/ DeviceOffline \/ SendNotify \/ UNCHANGED vars
             \/ \E c \in Conn : ReadFails(c) \/ ReadTimesOut(c)
    BY <1>1, <1>2 DEF CancelContext, DeviceOffline, SendNotify, ReadFails, ReadTimesOut, vars
  <1>3. CASE \/ HandshakeFails \/ LoopStops \/ WriteFails \/ UploadFails
             \/ AckCancelled \/ HeartbeatTimeout
             \/ NotifyFails \/ (AckTimeout /\ SessionEnds)
    <2>1. pc \in {"shake", "loop", "upload", "beat"} /\ SessionEnds /\ hand' = hand
      BY <1>3 DEF HandshakeFails, LoopStops, WriteFails, UploadFails, AckCancelled, HeartbeatTimeout,
                  AfterBeatTimeout, NotifyFails, AckTimeout
    <2> QED BY <1>0, <2>1, EndBeats DEF SessionIsMade
  <1>4. CASE WaitOver \/ DialFails
    <2>1. /\ pc \in {"wait", "dial"} /\ pc' \in {"wait", "dial", "done"}
          /\ UNCHANGED <<sess, beats, line, hand, beatVars>>
      BY <1>4 DEF WaitOver, DialFails, AfterRun
    <2> QED BY <1>0, <2>1 DEF BeatsPairUp, FutureIsSilent
  <1>5. CASE DialSucceeds
    <2>1. /\ pc = "dial" /\ pc' = "shake" /\ sess' = sess + 1 /\ sess' \in Conn
          /\ UNCHANGED <<beats, line, hand, beatVars>>
      BY <1>0, <1>5 DEF DialSucceeds, Conn, TypeOK, SessionAssumption
    <2>2. line[sess'] = <<>> /\ hand[sess'] = None
      BY <1>0, <2>1 DEF FutureIsSilent
    <2>3. NoBeatDue(sess)'
      BY <2>1, <2>2 DEF NoBeatDue, NoneInLine, IsBeatAck, None
    <2>4. FutureIsSilent'
      <3>1. ASSUME NEW c \in Conn, c > sess'
            PROVE  line[c] = <<>> /\ hand[c] = None
        <4>1. c > sess
          BY <1>0, <2>1, <3>1
        <4> QED BY <1>0, <4>1 DEF FutureIsSilent
      <3> QED BY <2>1, <3>1 DEF FutureIsSilent
    <2> QED BY <1>0, <2>1, <2>3, <2>4 DEF BeatsPairUp
  <1>6. CASE HandshakeAccepted \/ TakeAck \/ (AckTimeout /\ pc' = "loop")
    <2>1. /\ pc \in {"shake", "upload"} /\ pc' = "loop"
          /\ UNCHANGED <<sess, beats, line, hand, beatVars>>
      <3>1. CASE HandshakeAccepted \/ TakeAck
        BY <3>1 DEF HandshakeAccepted, TakeAck
      <3>2. CASE AckTimeout /\ pc' = "loop"
        BY <3>2 DEF AckTimeout, SessionEnds, AfterRun
      <3> QED BY <1>6, <3>1, <3>2
    <2> QED BY <1>0, <2>1 DEF BeatsPairUp, FutureIsSilent, NoBeatDue, NoneInLine
  <1>7. CASE WriteUpload
    <2>1. /\ pc = "loop" /\ pc' = "upload" /\ sess \in Conn /\ Asked(UploadAck)
          /\ UploadAck \in Answer /\ ~IsBeatAck(UploadAck)
          /\ UNCHANGED <<sess, beats, hand, beatVars>>
      BY <1>0, <1>7 DEF WriteUpload, SessionIsMade, UploadAck, Answer, IsBeatAck
    <2>2. NoneInLine(sess)'
      BY <1>0, <2>1, AskedLine DEF BeatsPairUp, NoBeatDue, NoneInLine
    <2>3. NoBeatDue(sess)'
      BY <1>0, <2>1, <2>2 DEF BeatsPairUp, NoBeatDue
    <2>4. FutureIsSilent'
      BY <1>0, <2>1, AskedLine DEF FutureIsSilent
    <2> QED BY <1>0, <2>1, <2>3, <2>4 DEF BeatsPairUp
  <1>8. CASE WriteHeartbeat
    <2>1. /\ pc = "loop" /\ pc' = "beat" /\ sess \in Conn /\ beats' = beats + 1
          /\ beats' \in 1..MaxBeats /\ beatCh' = 0 /\ Asked(HeartbeatAck(beats'))
          /\ UNCHANGED <<sess, hand>>
      BY <1>0, <1>8 DEF WriteHeartbeat, SessionIsMade, TypeOK, SessionAssumption
    <2> DEFINE answer == HeartbeatAck(beats')
    <2>2. /\ answer \in Answer /\ Asked(answer) /\ answer.beat = beats'
      BY <2>1 DEF HeartbeatAck, Answer
    <2> HIDE DEF answer
    <2>3. NoneInLine(sess) /\ ~IsBeatAck(hand[sess])
      BY <1>0, <2>1 DEF BeatsPairUp, NoBeatDue
    <2>4. \A i \in DOMAIN line'[sess] : IsBeatAck(line'[sess][i]) =>
               /\ line'[sess][i].beat = beats'
               /\ \A j \in DOMAIN line'[sess] : IsBeatAck(line'[sess][j]) => j = i
      <3> DEFINE q == line[sess]
                 p == line'[sess]
      <3>1. \/ p = q
            \/ /\ DOMAIN q = 1..Len(q) /\ Len(q) \in Nat /\ DOMAIN p = 1..(Len(q) + 1)
               /\ \A i \in 1..Len(q) : p[i] = q[i]
               /\ p[Len(q) + 1] = answer
        BY <1>0, <2>1, <2>2, AskedLine
      <3>2. \A i \in DOMAIN q : ~IsBeatAck(q[i])
        BY <2>3 DEF NoneInLine
      <3> HIDE DEF q, p
      <3>3. \A i \in DOMAIN p : IsBeatAck(p[i]) =>
               /\ p[i].beat = beats'
               /\ \A j \in DOMAIN p : IsBeatAck(p[j]) => j = i
        BY <2>2, <3>1, <3>2
      <3> QED BY <3>3 DEF p
    <2>5. FutureIsSilent'
      BY <1>0, <2>1, <2>2, AskedLine DEF FutureIsSilent
    <2> QED BY <2>1, <2>3, <2>4, <2>5 DEF BeatsPairUp
  <1>9. CASE WriteHeartbeatInVain
    <2>1. /\ pc = "loop" /\ pc' = "beat" /\ beatCh' = 0 /\ NoBeatDue(sess)
          /\ UNCHANGED <<sess, beats, line, hand>>
      BY <1>0, <1>9 DEF WriteHeartbeatInVain, BeatsPairUp
    <2> QED BY <1>0, <2>1 DEF BeatsPairUp, FutureIsSilent, NoBeatDue, NoneInLine
  <1>10. CASE TakeHeartbeatAck
    <2>1. /\ pc = "beat" /\ pc' = "loop" /\ route' = 0 /\ NoBeatDue(sess)
          /\ UNCHANGED <<sess, beats, line, hand>>
      BY <1>0, <1>10 DEF TakeHeartbeatAck, BeatsPairUp
    <2> QED BY <1>0, <2>1 DEF BeatsPairUp, FutureIsSilent, NoBeatDue, NoneInLine
  <1>11. ASSUME NEW c \in Conn, LinkBreaks(c)
         PROVE  BeatsPairUp' /\ FutureIsSilent'
    <2>1. /\ line' = [line EXCEPT ![c] = <<>>]
          /\ UNCHANGED <<pc, sess, beats, hand, beatVars>>
      BY <1>11 DEF LinkBreaks
    <2>2. FutureIsSilent'
      BY <1>0, <2>1 DEF FutureIsSilent, TypeOK
    <2>3. CASE c = sess
      <3>1. line'[sess] = <<>>
        BY <1>0, <2>1, <2>3 DEF TypeOK
      <3>2. NoneInLine(sess)'
        BY <2>1, <3>1 DEF NoneInLine
      <3> QED BY <1>0, <2>1, <2>2, <3>1, <3>2 DEF BeatsPairUp, NoBeatDue
    <2>4. CASE c # sess
      <3>1. pc \in {"shake", "loop", "upload", "beat"} => line'[sess] = line[sess]
        BY <1>0, <2>1, <2>4 DEF TypeOK, SessionIsMade
      <3> QED BY <1>0, <2>1, <2>2, <3>1 DEF BeatsPairUp, NoBeatDue, NoneInLine
    <2> QED BY <2>3, <2>4
  <1>12. ASSUME NEW c \in Conn, ReadFrame(c)
         PROVE  BeatsPairUp' /\ FutureIsSilent'
    <2>1. /\ line[c] # <<>> /\ line[c] \in Seq(Answer)
          /\ hand' = [hand EXCEPT ![c] = Head(line[c])] /\ line' = [line EXCEPT ![c] = Tail(line[c])]
          /\ UNCHANGED <<pc, sess, beats, beatVars>>
      BY <1>0, <1>12 DEF ReadFrame, TypeOK
    <2>2. /\ hand'[c] = Head(line[c]) /\ line'[c] = Tail(line[c])
          /\ \A d \in Conn : d # c => hand'[d] = hand[d] /\ line'[d] = line[d]
      BY <1>0, <2>1 DEF TypeOK
    <2>3. FutureIsSilent'
      BY <1>0, <2>1, <2>2 DEF FutureIsSilent
    <2> DEFINE q == line[c]
               p == line'[c]
    <2>4. /\ Len(q) \in Nat /\ Len(q) >= 1 /\ DOMAIN q = 1..Len(q) /\ DOMAIN p = 1..(Len(q) - 1)
          /\ \A i \in 1..(Len(q) - 1) : p[i] = q[i + 1]
          /\ hand'[c] = q[1]
      <3>1. q \in Seq(Answer) /\ q # <<>> /\ p = Tail(q) /\ hand'[c] = Head(q)
        BY <2>1, <2>2
      <3> HIDE DEF q, p
      <3>2. /\ Tail(q) \in Seq(Answer) /\ Len(Tail(q)) = Len(q) - 1 /\ Len(q) \in Nat /\ Len(q) >= 1
            /\ Head(q) = q[1] /\ \A i \in 1..Len(Tail(q)) : Tail(q)[i] = q[i + 1]
        BY <3>1, TailOf
      <3>3. DOMAIN q = 1..Len(q) /\ DOMAIN Tail(q) = 1..Len(Tail(q))
        BY <3>1, <3>2, LenProperties
      <3> QED BY <3>1, <3>2, <3>3
    <2> HIDE DEF q, p
    <2>5. CASE c = sess
      <3>1. line[sess] = q /\ line'[sess] = p /\ hand'[sess] = q[1] /\ 1 \in DOMAIN q
        BY <2>4, <2>5 DEF q, p
      <3>2. NoneInLine(sess) => NoneInLine(sess)' /\ ~IsBeatAck(hand'[sess])
        <4>1. (\A i \in DOMAIN q : ~IsBeatAck(q[i])) =>
                 (\A i \in DOMAIN p : ~IsBeatAck(p[i])) /\ ~IsBeatAck(q[1])
          BY <2>4
        <4> QED BY <2>1, <3>1, <4>1 DEF NoneInLine
      <3>3. CASE pc = "beat"
        <4>1. \A i \in DOMAIN q : IsBeatAck(q[i]) =>
                /\ q[i].beat = beats
                /\ \A j \in DOMAIN q : IsBeatAck(q[j]) => j = i
          BY <1>0, <3>1, <3>3 DEF BeatsPairUp
        <4>2. beatCh # 0 => beatCh = beats /\ NoneInLine(sess)
          BY <1>0, <3>3 DEF BeatsPairUp, NoBeatDue
        <4>3. /\ IsBeatAck(q[1]) => q[1].beat = beats /\ \A i \in DOMAIN p : ~IsBeatAck(p[i])
              /\ \A i \in DOMAIN p : IsBeatAck(p[i]) =>
                   /\ p[i].beat = beats
                   /\ \A j \in DOMAIN p : IsBeatAck(p[j]) => j = i
          <5>1. \A i \in DOMAIN p : i + 1 \in DOMAIN q /\ i + 1 # 1 /\ p[i] = q[i + 1]
            BY <2>4
          <5>2. \A i \in DOMAIN p : i \in Int
            BY <2>4
          <5> QED BY <3>1, <4>1, <5>1, <5>2
        <4> QED BY <1>0, <2>1, <2>3, <3>1, <3>2, <3>3, <4>2, <4>3
                DEF BeatsPairUp, NoBeatDue, NoneInLine
      <3>4. CASE pc # "beat"
        BY <1>0, <2>1, <2>3, <3>2, <3>4 DEF BeatsPairUp, NoBeatDue
      <3> QED BY <3>3, <3>4
    <2>6. CASE c # sess
      <3>1. pc \in {"shake", "loop", "upload", "beat"} =>
              line'[sess] = line[sess] /\ hand'[sess] = hand[sess]
        BY <1>0, <2>2, <2>6 DEF SessionIsMade
      <3> QED BY <1>0, <2>1, <2>3, <3>1 DEF BeatsPairUp, NoBeatDue, NoneInLine
    <2> QED BY <2>5, <2>6
  <1>13. ASSUME NEW c \in Conn, DispatchAck(c) \/ DispatchHeartbeatAck(c)
         PROVE  BeatsPairUp' /\ FutureIsSilent'
    <2>1. /\ hand'[c] = None /\ \A d \in Conn : d # c => hand'[d] = hand[d]
          /\ UNCHANGED <<pc, sess, beats, line, route>>
          /\ hand[c].type \in {"UploadAck", "HeartbeatAck"}
          /\ \/ beatCh' = beatCh
             \/ c = sess /\ route # 0 /\ beatCh' = hand[c].beat /\ IsBeatAck(hand[c])
      BY <1>0, <1>13 DEF DispatchAck, DispatchHeartbeatAck, TypeOK, IsBeatAck
    <2>2. ~IsBeatAck(None) /\ ~(c > sess)
      BY <1>0, <2>1 DEF IsBeatAck, None, FutureIsSilent
    <2>3. FutureIsSilent'
      BY <1>0, <2>1, <2>2 DEF FutureIsSilent
    <2>4. pc \in {"shake", "loop", "upload", "beat"} => \/ hand'[sess] = hand[sess]
                                                     \/ hand'[sess] = None
      BY <1>0, <2>1 DEF SessionIsMade
    <2>5. NoneInLine(sess)' <=> NoneInLine(sess)
      BY <2>1 DEF NoneInLine
    <2>6. CASE pc # "beat"
      BY <1>0, <2>1, <2>2, <2>3, <2>4, <2>5, <2>6 DEF BeatsPairUp, NoBeatDue
    <2>7. CASE pc = "beat"
      <3>1. /\ beatCh # 0 => beatCh = beats /\ NoBeatDue(sess)
            /\ IsBeatAck(hand[sess]) => hand[sess].beat = beats /\ NoneInLine(sess)
            /\ \A i \in DOMAIN line[sess] : IsBeatAck(line[sess][i]) =>
                  /\ line[sess][i].beat = beats
                  /\ \A j \in DOMAIN line[sess] : IsBeatAck(line[sess][j]) => j = i
        BY <1>0, <2>7 DEF BeatsPairUp
      <3>2. IsBeatAck(hand'[sess]) => hand'[sess] = hand[sess]
        BY <2>2, <2>4, <2>7
      <3>3. beatCh' # 0 => beatCh' = beats /\ NoneInLine(sess)' /\ ~IsBeatAck(hand'[sess])
        BY <2>1, <2>2, <2>4, <2>5, <2>7, <3>1 DEF NoBeatDue
      <3> QED BY <2>1, <2>3, <2>5, <2>7, <3>1, <3>2, <3>3 DEF BeatsPairUp, NoBeatDue
    <2> QED BY <2>6, <2>7
  <1>14. AckTimeout => SessionEnds \/ pc' = "loop"
    BY DEF AckTimeout
  <1> QED BY <1>2, <1>3, <1>4, <1>5, <1>6, <1>7, <1>8, <1>9, <1>10, <1>11, <1>12, <1>13, <1>14
          DEF Next, DialStep, HeartbeatStep, AwaitEnds, ReaderStep

\* The answer sendHeartbeat finds in its channel is the one to its own heartbeat.
THEOREM BeatsAnswerThemselves == Spec => []BeatAnswersItself
  <1>1. BeatInv => BeatAnswersItself
    BY DEF BeatInv, BeatsPairUp, BeatAnswersItself
  <1>2. SessionAssumption /\ Init => BeatInv
    BY TypeInit DEF Init, BeatInv, BeatsPairUp, FutureIsSilent
  <1>3. SessionAssumption /\ BeatInv /\ [Next]_vars => BeatInv'
    BY BeatStep
  <1> QED BY <1>1, <1>2, <1>3, SessionAssumption, PTL DEF Spec
===============================================================================
