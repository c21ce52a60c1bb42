--------------------------- MODULE UploadTunnelProofs ---------------------------
(***************************************************************************)
(* Proofs about UploadTunnel for every number of readings, sessions and    *)
(* faults, every batch, window and cache size, and about the list of the   *)
(* deduplication cache for every type of key.  The first part is about the *)
(* messages, the second about the readings themselves: nothing is          *)
(* published that is not stored, and in a reliable environment the tunnel  *)
(* implements UploadContract.                                              *)
(***************************************************************************)
EXTENDS UploadTunnel, FiniteSetTheorems, TLAPS

(* The critical sections of the deduplication cache                         *)

\* MoveToFront permutes the list: same length, same keys.
LEMMA MoveToFrontPermutes ==
    ASSUME NEW Key, NEW lru \in Seq(Key), NEW key \in CachedKeys(lru)
    PROVE  /\ MoveToFront(lru, key) \in Seq(Key)
           /\ Len(MoveToFront(lru, key)) = Len(lru)
           /\ CachedKeys(MoveToFront(lru, key)) = CachedKeys(lru)
           /\ NoDuplicate(lru) => NoDuplicate(MoveToFront(lru, key))
  <1> DEFINE at == CHOOSE i \in DOMAIN lru : lru[i] = key
             new == MoveToFront(lru, key)
  <1>1. /\ at \in 1..Len(lru)
        /\ lru[at] = key
    <2>1. \E i \in DOMAIN lru : lru[i] = key
      BY DEF CachedKeys
    <2>2. at \in DOMAIN lru /\ lru[at] = key
      BY <2>1, Zenon
    <2> HIDE DEF at
    <2> QED BY <2>2
  <1>2. new = [i \in 1..Len(lru) |-> IF i = 1 THEN key
                                     ELSE IF i <= at THEN lru[i - 1] ELSE lru[i]]
    BY DEF MoveToFront
  <1> HIDE DEF at, new
  <1>3. \A i \in 1..Len(lru) : lru[i] \in Key
    OBVIOUS
  <1>4. new \in Seq(Key) /\ Len(new) = Len(lru) /\ DOMAIN new = 1..Len(lru)
    BY <1>1, <1>2, <1>3
  <1>5. CachedKeys(new) = CachedKeys(lru)
    <2>1. ASSUME NEW i \in 1..Len(lru)
          PROVE  \E j \in 1..Len(lru) : new[i] = lru[j]
      <3>1. CASE i = 1
        BY <1>1, <1>2, <3>1
      <3>2. CASE i # 1 /\ i <= at
        BY <1>1, <1>2, <3>2
      <3>3. CASE i # 1 /\ i > at
        BY <1>1, <1>2, <3>3
      <3> QED BY <1>1, <3>1, <3>2, <3>3
    <2>2. ASSUME NEW j \in 1..Len(lru)
          PROVE  \E i \in 1..Len(lru) : new[i] = lru[j]
      <3>1. CASE j = at
        <4>1. new[1] = lru[j] /\ 1 \in 1..Len(lru)
          BY <1>1, <1>2, <3>1
        <4> QED BY <4>1
      <3>2. CASE j < at
        <4>1. j + 1 \in 1..Len(lru) /\ new[j + 1] = lru[j]
          BY <1>1, <1>2, <3>2
        <4> QED BY <4>1
      <3>3. CASE j > at
        <4>1. new[j] = lru[j]
          BY <1>1, <1>2, <3>3
        <4> QED BY <4>1
      <3> QED BY <1>1, <3>1, <3>2, <3>3
    <2>3. CachedKeys(new) \subseteq CachedKeys(lru)
      <3>1. ASSUME NEW k \in CachedKeys(new)
            PROVE  k \in CachedKeys(lru)
        <4>1. PICK i \in 1..Len(lru) : k = new[i]
          BY <1>4 DEF CachedKeys
        <4>2. PICK j \in 1..Len(lru) : new[i] = lru[j]
          BY <2>1
        <4> QED BY <4>1, <4>2 DEF CachedKeys
      <3> QED BY <3>1
    <2>4. CachedKeys(lru) \subseteq CachedKeys(new)
      <3>1. ASSUME NEW k \in CachedKeys(lru)
            PROVE  k \in CachedKeys(new)
        <4>1. PICK j \in 1..Len(lru) : k = lru[j]
          BY DEF CachedKeys
        <4>2. PICK i \in 1..Len(lru) : new[i] = lru[j]
          BY <2>2
        <4> QED BY <1>4, <4>1, <4>2 DEF CachedKeys
      <3> QED BY <3>1
    <2> QED BY <2>3, <2>4
  <1>6. NoDuplicate(lru) => NoDuplicate(new)
    BY <1>1, <1>2 DEF NoDuplicate
  <1> QED BY <1>4, <1>5, <1>6 DEF new

\* PushAndEvict keeps the list within its capacity, brings in only the key, and
\* drops none but the last key of a full list.
LEMMA PushAndEvictBounds ==
    ASSUME NEW Key, NEW lru \in Seq(Key), NEW key \in Key,
           NEW capacity \in Nat \ {0}, Len(lru) <= capacity
    PROVE  /\ PushAndEvict(lru, key, capacity) \in Seq(Key)
           /\ Len(PushAndEvict(lru, key, capacity)) <= capacity
           /\ CachedKeys(PushAndEvict(lru, key, capacity))
                \subseteq CachedKeys(lru) \cup {key}
           /\ key \in CachedKeys(PushAndEvict(lru, key, capacity))
           /\ \A i \in 1..Len(lru) :
                i < capacity => lru[i] \in CachedKeys(PushAndEvict(lru, key, capacity))
           /\ NoDuplicate(lru) /\ key \notin CachedKeys(lru) =>
                NoDuplicate(PushAndEvict(lru, key, capacity))
  <1> DEFINE len == IF Len(lru) < capacity THEN Len(lru) + 1 ELSE capacity
             new == PushAndEvict(lru, key, capacity)
  <1>1. new = [i \in 1..len |-> IF i = 1 THEN key ELSE lru[i - 1]]
    BY DEF PushAndEvict
  <1>2. len \in Nat /\ len <= capacity /\ len <= Len(lru) + 1
    OBVIOUS
  <1> HIDE DEF len, new
  <1>3. \A i \in 1..len : i # 1 => i - 1 \in 1..Len(lru)
    BY <1>2
  <1>4. new \in Seq(Key) /\ Len(new) = len /\ DOMAIN new = 1..len
    BY <1>1, <1>2, <1>3
  <1>5. CachedKeys(new) \subseteq CachedKeys(lru) \cup {key}
    BY <1>1, <1>3, <1>4 DEF CachedKeys
  <1>6. NoDuplicate(lru) /\ key \notin CachedKeys(lru) => NoDuplicate(new)
    BY <1>1, <1>2, <1>3, <1>4 DEF NoDuplicate, CachedKeys
  <1>7. key \in CachedKeys(new)
    <2>1. len >= 1
      BY DEF len
    <2>2. 1 \in DOMAIN new /\ new[1] = key
      BY <1>1, <1>2, <1>4, <2>1
    <2> QED BY <2>2 DEF CachedKeys
  <1>8. ASSUME NEW i \in 1..Len(lru), i < capacity
        PROVE  lru[i] \in CachedKeys(new)
    <2>1. i + 1 \in 1..len
      BY <1>8 DEF len
    <2>2. i + 1 \in DOMAIN new /\ new[i + 1] = lru[i]
      BY <1>1, <1>4, <2>1
    <2> QED BY <2>2 DEF CachedKeys
  <1> QED BY <1>2, <1>4, <1>5, <1>6, <1>7, <1>8 DEF new

\* dedupCache.exists changes the order of the keys and nothing else.
THEOREM ExistsKeepsKeys ==
    ASSUME NEW Key, NEW lru \in Seq(Key), NEW key \in Key
    PROVE  /\ Exists(lru, key) \in Seq(Key)
           /\ Len(Exists(lru, key)) = Len(lru)
           /\ CachedKeys(Exists(lru, key)) = CachedKeys(lru)
           /\ NoDuplicate(lru) => NoDuplicate(Exists(lru, key))
  BY MoveToFrontPermutes DEF Exists

\* dedupCache.add keeps the list within its capacity and without duplicates,
\* and remembers the key it was given and no other it did not have; what it
\* forgets is at most the last key of a full list.
THEOREM AddBounds ==
    ASSUME NEW Key, NEW lru \in Seq(Key), NEW key \in Key,
           NEW capacity \in Nat \ {0}, Len(lru) <= capacity
    PROVE  /\ Add(lru, key, capacity) \in Seq(Key)
           /\ Len(Add(lru, key, capacity)) <= capacity
           /\ CachedKeys(Add(lru, key, capacity)) \subseteq CachedKeys(lru) \cup {key}
           /\ key \in CachedKeys(Add(lru, key, capacity))
           /\ \A i \in 1..Len(lru) :
                i < capacity => lru[i] \in CachedKeys(Add(lru, key, capacity))
           /\ NoDuplicate(lru) => NoDuplicate(Add(lru, key, capacity))
  <1>1. \A i \in 1..Len(lru) : lru[i] \in CachedKeys(lru)
    BY DEF CachedKeys
  <1> QED BY <1>1, MoveToFrontPermutes, PushAndEvictBounds DEF Add

-------------------------------------------------------------------------------
(* Channels and connections                                                *)

\* A broken connection delivers a prefix: no longer, and of the same elements.
LEMMA PrefixFacts ==
    ASSUME NEW S, NEW s \in Seq(S), NEW kept \in Prefixes(s)
    PROVE  /\ kept \in Seq(S)
           /\ Len(kept) <= Len(s)
           /\ DOMAIN kept \subseteq DOMAIN s
           /\ \A i \in DOMAIN kept : kept[i] = s[i]
  BY DEF Prefixes

\* Head and Tail of a channel that is not empty.
LEMMA QueueFacts ==
    ASSUME NEW S, NEW s \in Seq(S), s # <<>>
    PROVE  /\ Head(s) \in S /\ Head(s) = s[1]
           /\ Tail(s) \in Seq(S) /\ Len(Tail(s)) = Len(s) - 1
           /\ \A i \in DOMAIN Tail(s) : i + 1 \in DOMAIN s /\ Tail(s)[i] = s[i + 1]
           /\ Len(s) >= 1 /\ 1 \in DOMAIN s
  OBVIOUS

\* Append adds one element behind the others.
LEMMA AppendFacts ==
    ASSUME NEW S, NEW s \in Seq(S), NEW e \in S
    PROVE  /\ Append(s, e) \in Seq(S) /\ Len(Append(s, e)) = Len(s) + 1
           /\ \A i \in DOMAIN Append(s, e) :
                Append(s, e)[i] = e \/ (i \in DOMAIN s /\ Append(s, e)[i] = s[i])
  OBVIOUS
-------------------------------------------------------------------------------
(* Type correctness                                                        *)

\* EndSession leaves the session and the network well typed.
LEMMA EndSessionType ==
    ASSUME TunnelAssumption, TypeOK, pc # "down", EndSession
    PROVE  SessionTypeOK' /\ NetTypeOK'
  <1>1. PICK kept \in Prefixes(wire[sess]) : wire' = [wire EXCEPT ![sess] = kept]
    BY DEF EndSession
  <1>2. sess \in Conn /\ wire[sess] \in Seq(Upload)
    BY DEF TypeOK, SessionTypeOK, NetTypeOK
  <1>3. kept \in Seq(Upload)
    BY <1>2, PrefixFacts
  <1>4. NetTypeOK'
    BY <1>1, <1>2, <1>3 DEF EndSession, TypeOK, NetTypeOK
  <1>5. SessionTypeOK'
    BY DEF EndSession, TypeOK, SessionTypeOK, NextAckCh
  <1> QED BY <1>4, <1>5

\* UpdateStatus writes a status and spends at most one fault.
LEMMA UpdateStatusType ==
    ASSUME TypeOK, NEW S, NEW value \in Status, NEW b \in [FaultKinds -> Nat],
           UpdateStatus(S, value, b)
    PROVE  /\ status' \in [Reading -> Status]
           /\ budget' \in [FaultKinds -> Nat]
  BY DEF UpdateStatus, TypeOK, FaultKinds

\* The batch to upload consists of readings.
LEMMA NextBatchType == NextBatch \subseteq Pending /\ Pending \subseteq Reading
  BY DEF NextBatch, Pending

\* A fault that may be spent leaves a budget.
LEMMA SpentType ==
    ASSUME TypeOK, NEW k \in FaultKinds, CanSpend(k)
    PROVE  Spent(k) \in [FaultKinds -> Nat]
  BY DEF TypeOK, CanSpend, Spent

\* Every step of the session goroutine keeps the types.
LEMMA SessionStepType ==
    ASSUME TunnelAssumption, TypeOK, SessionStep
    PROVE  TypeOK'
  <1> USE DEF sessionVars, netVars, serverVars
  <1>1. CASE Connect
    <2>1. sess + 1 \in Conn /\ ReadyHandler \in Handler
      BY <1>1 DEF Connect, TunnelAssumption, TypeOK, SessionTypeOK, Conn,
                  ReadyHandler, NoUpload, Handler, Upload
    <2> QED BY <1>1, <2>1 DEF Connect, TypeOK, SessionTypeOK, NetTypeOK, ServerTypeOK
  <1>2. CASE DialFails \/ LoadNothing
    BY <1>2 DEF DialFails, LoadNothing, vars, TypeOK, SessionTypeOK, NetTypeOK, ServerTypeOK
  <1>3. CASE MarkSending
    BY <1>3, NextBatchType DEF MarkSending, TypeOK, SessionTypeOK, NetTypeOK, ServerTypeOK, Status
  <1>4. CASE MarkFails \/ HeartbeatFails
    <2>1. budget' \in [FaultKinds -> Nat] /\ pc # "down" /\ EndSession
      BY <1>4, SpentType DEF MarkFails, HeartbeatFails, FaultKinds, TypeOK
    <2> QED BY <1>4, <2>1, EndSessionType
            DEF MarkFails, HeartbeatFails, TypeOK, ServerTypeOK
  <1>5. CASE WriteUpload
    <2>1. [id |-> msgID + 1, batch |-> batch] \in Upload /\ sess \in Conn
      BY <1>5 DEF WriteUpload, TypeOK, SessionTypeOK, Upload
    <2>2. Append(wire[sess], [id |-> msgID + 1, batch |-> batch]) \in Seq(Upload)
      BY <2>1, AppendFacts DEF TypeOK, NetTypeOK
    <2>3. NetTypeOK'
      BY <1>5, <2>1, <2>2 DEF WriteUpload, TypeOK, NetTypeOK
    <2>4. SessionTypeOK' /\ ServerTypeOK'
      BY <1>5 DEF WriteUpload, TypeOK, SessionTypeOK, ServerTypeOK
    <2> QED BY <1>5, <2>3, <2>4 DEF WriteUpload, TypeOK
  <1>6. CASE WriteFails
    <2>1. pc # "down" /\ EndSession /\ UNCHANGED serverVars
      BY <1>6 DEF WriteFails
    <2>2. status' \in [Reading -> Status] /\ budget' \in [FaultKinds -> Nat]
      BY <1>6, UpdateStatusType DEF WriteFails, Status, TypeOK
    <2> QED BY <2>1, <2>2, EndSessionType DEF TypeOK, ServerTypeOK
  <1>7. CASE ConsumeAck
    <2>1. status' \in [Reading -> Status] /\ budget' \in [FaultKinds -> Nat]
      BY <1>7, UpdateStatusType DEF ConsumeAck, Status, TypeOK
    <2>2. Tail(ackCh) \in Seq(Ack)
      BY <1>7, QueueFacts DEF ConsumeAck, TypeOK, SessionTypeOK
    <2> QED BY <1>7, <2>1, <2>2
            DEF ConsumeAck, TypeOK, SessionTypeOK, NetTypeOK, ServerTypeOK
  <1>8. CASE AckTimeout
    <2>1. (IF AnswerComing THEN Spent("slow") ELSE budget) \in [FaultKinds -> Nat]
      BY <1>8, SpentType DEF AckTimeout, TypeOK, FaultKinds
    <2>2. status' \in [Reading -> Status] /\ budget' \in [FaultKinds -> Nat]
      BY <1>8, <2>1, UpdateStatusType DEF AckTimeout, AfterTimeout, Status
    <2>3. CASE EndSession
      BY <1>8, <2>2, <2>3, EndSessionType DEF AckTimeout, TypeOK, ServerTypeOK
    <2>4. CASE ~(NextTmo >= MaxAllTimeout)
      BY <1>8, <2>2, <2>4
         DEF AckTimeout, NextTmo, TypeOK, SessionTypeOK, NetTypeOK, ServerTypeOK
    <2> QED BY <1>8, <2>3, <2>4 DEF AckTimeout
  <1>9. CASE NoticeDeadLink
    BY <1>9, EndSessionType DEF NoticeDeadLink, TypeOK, ServerTypeOK
  <1>10. CASE BuildFails
    <2>1. pc # "down" /\ EndSession /\ UNCHANGED serverVars
      BY <1>10 DEF BuildFails
    <2>2. status' \in [Reading -> Status] /\ budget' \in [FaultKinds -> Nat]
      BY <1>10, NextBatchType, UpdateStatusType DEF BuildFails, Status, TypeOK
    <2> QED BY <2>1, <2>2, EndSessionType DEF TypeOK, ServerTypeOK
  <1> QED BY <1>1, <1>2, <1>3, <1>4, <1>5, <1>6, <1>7, <1>8, <1>9, <1>10 DEF SessionStep

\* The handler states that the steps of a handler lead to.
LEMMA HandlerRecords ==
    /\ OffHandler \in Handler /\ ReadyHandler \in Handler
    /\ \A h \in Handler :
         /\ [h EXCEPT !.pc = "added"] \in Handler
         /\ [h EXCEPT !.pc = "push"] \in Handler
         /\ [h EXCEPT !.pc = "acking", !.outcome = "saved"] \in Handler
         /\ [h EXCEPT !.pc = "acking", !.outcome = "failed"] \in Handler
  BY DEF Handler, OffHandler, ReadyHandler, NoUpload, Upload

\* Every step of a handler keeps the types.
LEMMA HandlerStepType ==
    ASSUME TunnelAssumption, TypeOK, NEW c \in Conn, HandlerStep(c)
    PROVE  TypeOK'
  <1> USE DEF sessionVars, netVars, serverVars
  <1>0. /\ handler[c] \in Handler
        /\ wire[c] \in Seq(Upload)
        /\ ackWire[c] \in Seq(Ack)
        /\ handler[c].req \in Upload
        /\ handler[c].req.batch \in SUBSET Reading
    BY DEF TypeOK, ServerTypeOK, NetTypeOK, Handler, Upload
  <1>1. CASE ReceiveUpload(c)
    <2> DEFINE req == Head(wire[c])
    <2>1. req \in Upload /\ Tail(wire[c]) \in Seq(Upload)
      BY <1>0, <1>1, QueueFacts DEF ReceiveUpload
    <2>2. req.batch \in SUBSET Reading
      BY <2>1 DEF Upload
    <2>3. dedup' \in Seq(SUBSET Reading) /\ Len(dedup') <= DedupCacheSize
      BY <1>1, <2>2, ExistsKeepsKeys DEF ReceiveUpload, TypeOK, ServerTypeOK
    <2>4. handler' \in [Conn -> Handler]
      <3>1. /\ [pc |-> "acking",  req |-> req, outcome |-> "duplicate"] \in Handler
            /\ [pc |-> "checked", req |-> req, outcome |-> "none"] \in Handler
        BY <2>1 DEF Handler
      <3> QED BY <1>1, <3>1 DEF ReceiveUpload, TypeOK, ServerTypeOK
    <2>5. NetTypeOK'
      BY <1>1, <2>1 DEF ReceiveUpload, TypeOK, NetTypeOK
    <2> QED BY <1>1, <2>3, <2>4, <2>5
            DEF ReceiveUpload, TypeOK, SessionTypeOK, ServerTypeOK
  <1>2. CASE AddKey(c)
    <2>1. dedup' \in Seq(SUBSET Reading) /\ Len(dedup') <= DedupCacheSize
      <3> DEFINE Key == SUBSET Reading
                 key == handler[c].req.batch
      <3>1. /\ dedup \in Seq(Key) /\ Len(dedup) <= DedupCacheSize
            /\ DedupCacheSize \in Nat \ {0}
            /\ key \in Key
            /\ dedup' = Add(dedup, key, DedupCacheSize)
        BY <1>0, <1>2 DEF AddKey, TypeOK, ServerTypeOK, TunnelAssumption
      <3> HIDE DEF Key, key
      <3>2. dedup' \in Seq(Key) /\ Len(dedup') <= DedupCacheSize
        BY <3>1, AddBounds
      <3> QED BY <3>2 DEF Key
    <2>2. handler' \in [Conn -> Handler]
      BY <1>0, <1>2, HandlerRecords DEF AddKey, TypeOK, ServerTypeOK
    <2> QED BY <1>2, <2>1, <2>2
            DEF AddKey, TypeOK, SessionTypeOK, NetTypeOK, ServerTypeOK
  <1>3. CASE SaveReadings(c) \/ SaveFails(c)
    <2>1. InsertRows(handler[c].req.batch) \in [Reading -> Nat]
      BY DEF InsertRows, TypeOK, ServerTypeOK
    <2>2. handler' \in [Conn -> Handler]
      BY <1>0, <1>3, HandlerRecords DEF SaveReadings, SaveFails, TypeOK, ServerTypeOK
    <2>3. budget' \in [FaultKinds -> Nat]
      BY <1>3, SpentType DEF SaveReadings, SaveFails, TypeOK, FaultKinds
    <2> QED BY <1>3, <2>1, <2>2, <2>3
            DEF SaveReadings, SaveFails, TypeOK, SessionTypeOK, NetTypeOK, ServerTypeOK
  <1>4. CASE SendAck(c)
    <2> DEFINE ack == [req  |-> handler[c].req,
                       code |-> IF handler[c].outcome = "failed" THEN "Failed" ELSE "Ok"]
    <2>1. ack \in Ack
      BY <1>0 DEF Ack
    <2>2. ackWire' \in [Conn -> Seq(Ack)]
      <3>1. ackWire' = [ackWire EXCEPT ![c] = Append(@, ack)] \/ ackWire' = ackWire
        BY <1>4 DEF SendAck
      <3>2. Append(ackWire[c], ack) \in Seq(Ack)
        BY <1>0, <2>1, AppendFacts
      <3> QED BY <3>1, <3>2 DEF TypeOK, NetTypeOK
    <2>3. handler' \in [Conn -> Handler]
      <3> DEFINE next == IF handler[c].outcome \in Published
                         THEN [handler[c] EXCEPT !.pc = "push"] ELSE ReadyHandler
      <3>1. next \in Handler
        BY <1>0, HandlerRecords
      <3>2. handler' = [handler EXCEPT ![c] = next]
        BY <1>4 DEF SendAck
      <3> QED BY <3>1, <3>2 DEF TypeOK, ServerTypeOK
    <2>4. budget' \in [FaultKinds -> Nat]
      BY <1>4, SpentType DEF SendAck, TypeOK, FaultKinds
    <2> QED BY <1>4, <2>2, <2>3, <2>4
            DEF SendAck, TypeOK, SessionTypeOK, NetTypeOK, ServerTypeOK
  <1>5. CASE PushReadings(c)
    <2>1. handler' \in [Conn -> Handler]
      BY <1>5 DEF PushReadings, TypeOK, ServerTypeOK, Handler, ReadyHandler, NoUpload, Upload
    <2> QED BY <1>5, <2>1
            DEF PushReadings, TypeOK, SessionTypeOK, NetTypeOK, ServerTypeOK
  <1>6. CASE HandlerExit(c)
    <2>1. handler' \in [Conn -> Handler]
      BY <1>6 DEF HandlerExit, TypeOK, ServerTypeOK, Handler, OffHandler, NoUpload, Upload
    <2> QED BY <1>6, <2>1
            DEF HandlerExit, TypeOK, SessionTypeOK, NetTypeOK, ServerTypeOK
  <1>7. CASE RefuseFrame(c)
    <2>1. handler' \in [Conn -> Handler]
      BY <1>7, HandlerRecords DEF RefuseFrame, TypeOK, ServerTypeOK
    <2>2. PICK kept \in Prefixes(ackWire[c]) : ackWire' = [ackWire EXCEPT ![c] = kept]
      BY <1>7 DEF RefuseFrame
    <2>3. kept \in Seq(Ack) /\ <<>> \in Seq(Upload)
      BY <1>0, <2>2, PrefixFacts
    <2>4. NetTypeOK'
      BY <1>7, <2>2, <2>3 DEF RefuseFrame, TypeOK, NetTypeOK
    <2> QED BY <1>7, <2>1, <2>4 DEF RefuseFrame, TypeOK, SessionTypeOK, ServerTypeOK
  <1> QED BY <1>1, <1>2, <1>3, <1>4, <1>5, <1>6, <1>7 DEF HandlerStep

\* Every other step keeps the types.
LEMMA TypeStep ==
    ASSUME TunnelAssumption, TypeOK, [Next]_vars
    PROVE  TypeOK'
  <1> USE DEF sessionVars, netVars, serverVars
  <1>1. ASSUME NEW r \in Reading, CacheReading(r)
        PROVE  TypeOK'
    BY <1>1 DEF CacheReading, TypeOK, SessionTypeOK, NetTypeOK, ServerTypeOK, Status
  <1>2. CASE SessionStep
    BY <1>2, SessionStepType
  <1>3. CASE DeliverAck
    <2>1. /\ sess \in Conn
          /\ Head(ackWire[sess]) \in Ack
          /\ Tail(ackWire[sess]) \in Seq(Ack)
      BY <1>3, QueueFacts DEF DeliverAck, TypeOK, SessionTypeOK, NetTypeOK
    <2>2. Append(ackCh, Head(ackWire[sess])) \in Seq(Ack)
      BY <2>1, AppendFacts DEF TypeOK, SessionTypeOK
    <2> QED BY <1>3, <2>1, <2>2
            DEF DeliverAck, TypeOK, SessionTypeOK, NetTypeOK, ServerTypeOK
  <1>4. CASE StopClient
    <2>1. budget' \in [FaultKinds -> Nat]
      BY <1>4, SpentType DEF StopClient, FaultKinds
    <2> QED BY <1>4, <2>1, EndSessionType DEF StopClient, TypeOK, ServerTypeOK
  <1>5. CASE DropLink
    <2>1. PICK keptW \in Prefixes(wire[sess]), keptA \in Prefixes(ackWire[sess]) :
              /\ wire' = [wire EXCEPT ![sess] = keptW]
              /\ ackWire' = [ackWire EXCEPT ![sess] = keptA]
      BY <1>5 DEF DropLink
    <2>2. /\ wire[sess] \in Seq(Upload) /\ ackWire[sess] \in Seq(Ack)
      BY <1>5 DEF DropLink, TypeOK, SessionTypeOK, NetTypeOK
    <2>3. keptW \in Seq(Upload) /\ keptA \in Seq(Ack)
      BY <2>2, PrefixFacts
    <2>4. budget' \in [FaultKinds -> Nat]
      BY <1>5, SpentType DEF DropLink, FaultKinds
    <2>5. NetTypeOK'
      BY <1>5, <2>1, <2>3 DEF DropLink, TypeOK, NetTypeOK
    <2> QED BY <1>5, <2>4, <2>5 DEF DropLink, TypeOK, SessionTypeOK, ServerTypeOK
  <1>6. ASSUME NEW c \in Conn, HandlerStep(c)
        PROVE  TypeOK'
    BY <1>6, HandlerStepType
  <1>7. CASE RebootServer
    <2>1. budget' \in [FaultKinds -> Nat]
      BY <1>7, SpentType DEF RebootServer, FaultKinds
    <2>2. ackWire' \in [Conn -> Seq(Ack)]
      <3>1. CASE pc = "down"
        BY <1>7, <3>1 DEF RebootServer, TypeOK, NetTypeOK
      <3>2. CASE pc # "down"
        <4>1. PICK kept \in Prefixes(ackWire[sess]) :
                ackWire' = [ackWire EXCEPT ![sess] = kept]
          BY <1>7, <3>2 DEF RebootServer
        <4>2. ackWire[sess] \in Seq(Ack)
          BY <3>2 DEF TypeOK, SessionTypeOK, NetTypeOK
        <4>3. kept \in Seq(Ack)
          BY <4>2, PrefixFacts
        <4> QED BY <4>1, <4>3 DEF TypeOK, NetTypeOK
      <3> QED BY <3>1, <3>2
    <2>3. link' \in [Conn -> {"none", "up", "down"}] /\ wire' \in [Conn -> Seq(Upload)]
      BY <1>7 DEF RebootServer, TypeOK, NetTypeOK
    <2>4. handler' \in [Conn -> Handler]
      BY <1>7 DEF RebootServer, Handler, OffHandler, NoUpload, Upload
    <2>5. dedup' \in Seq(SUBSET Reading) /\ Len(dedup') <= DedupCacheSize
      BY <1>7 DEF RebootServer, TunnelAssumption
    <2> QED BY <1>7, <2>1, <2>2, <2>3, <2>4, <2>5
            DEF RebootServer, TypeOK, SessionTypeOK, NetTypeOK, ServerTypeOK
  <1>8. CASE UNCHANGED vars
    BY <1>8 DEF vars, TypeOK, SessionTypeOK, NetTypeOK, ServerTypeOK
  <1> QED BY <1>1, <1>2, <1>3, <1>4, <1>5, <1>6, <1>7, <1>8 DEF Next

\* The initial state is well typed.
LEMMA TypeInit == TunnelAssumption /\ Init => TypeOK
  BY DEF TunnelAssumption, Init, TypeOK, SessionTypeOK, NetTypeOK, ServerTypeOK,
         Status, Handler, OffHandler, NoUpload, Upload, FaultKinds

\* Every variable keeps its type and the deduplication list its capacity
\* (uploadDedup never outgrows dedupCacheSize), whatever the faults.
THEOREM TypeCorrect == Spec => []TypeOK
  BY TunnelAssumption, TypeInit, TypeStep, PTL DEF Spec

-------------------------------------------------------------------------------
(* Accounting of answers                                                   *)

\* A connection that was not opened yet carries nothing.
FreshConns ==
    \A c \in Conn : c > sess =>
        /\ link[c] = "none" /\ wire[c] = <<>> /\ ackWire[c] = <<>>
        /\ handler[c] = OffHandler

\* Between two sessions nothing of the last one is left in the client.
DownIsClean == pc = "down" => ackCh = <<>> /\ late = 0

AccountingInv == TypeOK /\ FreshConns /\ DownIsClean /\ AckAccounting

\* The counts are numbers, and none is left when no answer is coming.
LEMMA CountFacts ==
    ASSUME TypeOK, pc # "down"
    PROVE  /\ sess \in Conn
           /\ Len(ackCh) \in Nat /\ Len(ackWire[sess]) \in Nat
           /\ Len(wire[sess]) \in Nat /\ OnServer(sess) \in Nat
           /\ ~AnswerComing => InFlight = 0
           /\ InFlight = 0 => ~AnswerComing
  <1>1. /\ sess \in Conn /\ ackCh \in Seq(Ack)
        /\ wire[sess] \in Seq(Upload) /\ ackWire[sess] \in Seq(Ack)
    BY DEF TypeOK, SessionTypeOK, NetTypeOK
  <1>2. Len(wire[sess]) \in Nat
    BY <1>1
  <1>3. /\ ackCh = <<>> <=> Len(ackCh) = 0
        /\ wire[sess] = <<>> <=> Len(wire[sess]) = 0
        /\ ackWire[sess] = <<>> <=> Len(ackWire[sess]) = 0
    BY <1>1
  <1>4. /\ OnServer(sess) \in Nat
        /\ OnServer(sess) # 0 <=> link[sess] = "up" /\ (Busy(sess) \/ wire[sess] # <<>>)
    <2>1. CASE link[sess] = "up" /\ Busy(sess)
      <3>1. OnServer(sess) = Len(wire[sess]) + 1
        BY <2>1 DEF OnServer
      <3> QED BY <1>2, <2>1, <3>1
    <2>2. CASE link[sess] = "up" /\ ~Busy(sess)
      <3>1. OnServer(sess) = Len(wire[sess]) + 0
        BY <2>2 DEF OnServer
      <3> QED BY <1>2, <1>3, <2>2, <3>1
    <2>3. CASE link[sess] # "up"
      BY <2>3 DEF OnServer
    <2> QED BY <2>1, <2>2, <2>3
  <1>5. AnswerComing <=> ackCh # <<>> \/ ackWire[sess] # <<>> \/ OnServer(sess) # 0
    BY <1>4 DEF AnswerComing
  <1>6. Len(ackCh) \in Nat /\ Len(ackWire[sess]) \in Nat
    BY <1>1
  <1>7. InFlight = 0 <=> ackCh = <<>> /\ ackWire[sess] = <<>> /\ OnServer(sess) = 0
    BY <1>3, <1>4, <1>6 DEF InFlight
  <1> QED BY <1>1, <1>2, <1>4, <1>5, <1>6, <1>7

\* A session that ended satisfies the parts about the time between sessions.
LEMMA EndSessionAccounting ==
    ASSUME TypeOK, FreshConns, pc # "down", EndSession, UNCHANGED handler
    PROVE  FreshConns' /\ DownIsClean' /\ AckAccounting'
  <1>1. sess \in Conn /\ sess' = sess /\ pc' = "down"
    BY DEF TypeOK, SessionTypeOK, EndSession
  <1>2. FreshConns'
    BY <1>1 DEF EndSession, FreshConns, TypeOK, NetTypeOK, Conn, SessionTypeOK
  <1> QED BY <1>1, <1>2 DEF EndSession, NextAckCh, DownIsClean, AckAccounting

\* Only Connect opens a connection: what the other steps do to the client and
\* the network happens on connections up to the current one.
LEMMA SessionStepAccounting ==
    ASSUME TunnelAssumption, AccountingInv, SessionStep, TypeOK'
    PROVE  FreshConns' /\ DownIsClean' /\ AckAccounting'
  <1> USE DEF sessionVars, netVars, serverVars
  <1>0. TypeOK /\ FreshConns /\ DownIsClean /\ AckAccounting
    BY DEF AccountingInv
  <1>1. CASE Connect
    <2>1. sess + 1 \in Conn /\ sess \in Nat /\ pc = "down" /\ sess' = sess + 1
      BY <1>0, <1>1 DEF Connect, TunnelAssumption, TypeOK, SessionTypeOK, Conn
    <2>2. FreshConns'
      <3>1. ASSUME NEW c \in Conn, c > sess + 1
            PROVE  c > sess /\ c # sess + 1 /\ c \in Int
        BY <2>1, <3>1 DEF Conn
      <3> QED BY <1>0, <1>1, <2>1, <3>1
              DEF Connect, FreshConns, TypeOK, NetTypeOK, ServerTypeOK
    <2>3. /\ ackCh' = <<>> /\ ackWire'[sess'] = <<>> /\ wire'[sess'] = <<>>
          /\ handler'[sess'] = ReadyHandler
      BY <1>0, <1>1, <2>1 DEF Connect, FreshConns, DownIsClean, TypeOK, ServerTypeOK,
                              Conn
    <2>4. InFlight' = 0 /\ late' = 0
      BY <1>0, <1>1, <2>1, <2>3 DEF Connect, InFlight, OnServer, DownIsClean, Busy, ReadyHandler
    <2> QED BY <1>1, <2>2, <2>4 DEF Connect, DownIsClean, AckAccounting
  <1>2. CASE DialFails \/ LoadNothing
    BY <1>0, <1>2 DEF DialFails, LoadNothing, vars, FreshConns, DownIsClean,
                      AckAccounting, InFlight, OnServer, Busy
  <1>3. CASE MarkSending
    BY <1>0, <1>3 DEF MarkSending, FreshConns, DownIsClean, AckAccounting, InFlight,
                      OnServer, Busy
  <1>4. CASE MarkFails \/ BuildFails \/ HeartbeatFails \/ NoticeDeadLink
    BY <1>0, <1>4, EndSessionAccounting DEF MarkFails, BuildFails, HeartbeatFails, NoticeDeadLink
  <1>5. CASE WriteUpload
    <2> DEFINE up == [id |-> msgID + 1, batch |-> batch]
    <2>1. /\ pc # "down" /\ sess' = sess /\ sess \in Conn
          /\ wire[sess] \in Seq(Upload) /\ up \in Upload
      BY <1>0, <1>5 DEF WriteUpload, TypeOK, SessionTypeOK, NetTypeOK, Upload
    <2>2. FreshConns' /\ DownIsClean'
      <3>1. ASSUME NEW c \in Conn, c > sess
            PROVE  c # sess
        BY <2>1, <3>1 DEF Conn
      <3>2. wire' = [wire EXCEPT ![sess] = Append(@, up)] \/ wire' = wire
        BY <1>5 DEF WriteUpload
      <3> QED BY <1>0, <1>5, <2>1, <3>1, <3>2
              DEF WriteUpload, FreshConns, DownIsClean, TypeOK, NetTypeOK
    <2>3. OnServer(sess)' <= OnServer(sess) + 1
      <3>1. CASE link[sess] = "up"
        <4>1. wire'[sess] = Append(wire[sess], up)
          BY <1>0, <1>5, <2>1, <3>1 DEF WriteUpload, TypeOK, NetTypeOK
        <4>2. Len(wire'[sess]) = Len(wire[sess]) + 1
          BY <2>1, <4>1, AppendFacts
        <4>3. Len(wire[sess]) \in Nat /\ link' = link /\ handler' = handler /\ sess' = sess
          BY <1>5, <2>1 DEF WriteUpload
        <4>4. CASE Busy(sess)
          BY <3>1, <4>2, <4>3, <4>4 DEF OnServer, Busy
        <4>5. CASE ~Busy(sess)
          BY <3>1, <4>2, <4>3, <4>5 DEF OnServer, Busy
        <4> QED BY <4>4, <4>5
      <3>2. CASE link[sess] # "up"
        BY <1>5, <2>1, <3>2 DEF WriteUpload, OnServer
      <3> QED BY <3>1, <3>2
    <2>4. OnServer(sess)' \in Nat /\ late \in Nat
      BY <1>5, <2>1, CountFacts, TypeOK' DEF WriteUpload, OnServer, TypeOK, SessionTypeOK, NetTypeOK
    <2>5. InFlight' <= InFlight + 1
      BY <1>0, <1>5, <2>1, <2>3, <2>4, CountFacts DEF WriteUpload, InFlight
    <2>6. InFlight \in Nat /\ InFlight <= late
      BY <1>0, <1>5, <2>4, CountFacts DEF WriteUpload, AckAccounting, InFlight
    <2>7. InFlight' \in Nat
      BY <1>0, <1>5, <2>1, <2>4, CountFacts DEF WriteUpload, InFlight
    <2> QED BY <1>5, <2>2, <2>4, <2>5, <2>6, <2>7 DEF WriteUpload, AckAccounting
  <1>6. CASE WriteFails
    BY <1>0, <1>6, EndSessionAccounting DEF WriteFails
  <1>7. CASE ConsumeAck
    <2>1. pc # "down" /\ late \in Nat
      BY <1>0, <1>7 DEF ConsumeAck, TypeOK, SessionTypeOK
    <2>2. Len(ackCh') = Len(ackCh) - 1
      BY <1>0, <1>7, QueueFacts DEF ConsumeAck, TypeOK, SessionTypeOK
    <2>3. OnServer(sess)' = OnServer(sess)
      BY <1>7 DEF ConsumeAck, OnServer, Busy
    <2>4. InFlight' = InFlight - 1
      BY <1>0, <1>7, <2>1, <2>2, <2>3, CountFacts DEF ConsumeAck, InFlight
    <2>5. InFlight \in Nat /\ InFlight <= late + 1
      BY <1>0, <1>7, <2>1, CountFacts DEF ConsumeAck, AckAccounting, InFlight
    <2>6. AckAccounting'
      BY <1>7, <2>1, <2>4, <2>5 DEF ConsumeAck, AckAccounting
    <2> QED BY <1>0, <1>7, <2>1, <2>6 DEF ConsumeAck, FreshConns, DownIsClean
  <1>8. CASE AckTimeout
    <2>1. CASE EndSession
      BY <1>0, <1>8, <2>1, EndSessionAccounting DEF AckTimeout
    <2>2. CASE ~(NextTmo >= MaxAllTimeout)
      <3>1. /\ pc = "await" /\ pc' = "idle" /\ late \in Nat
            /\ late' = IF AnswerComing THEN late + 1 ELSE late
            /\ UNCHANGED <<sess, ackCh, link, wire, ackWire, handler>>
        BY <1>0, <1>8, <2>2 DEF AckTimeout, TypeOK, SessionTypeOK
      <3>2. InFlight' = InFlight
        BY <3>1 DEF InFlight, OnServer, Busy
      <3>3. InFlight \in Nat /\ InFlight <= late + 1
        BY <1>0, <3>1, CountFacts DEF AckAccounting, InFlight
      <3>4. AckAccounting'
        BY <1>0, <3>1, <3>2, <3>3, CountFacts DEF AckAccounting
      <3> QED BY <1>0, <3>1, <3>4 DEF FreshConns, DownIsClean
    <2> QED BY <1>8, <2>1, <2>2 DEF AckTimeout
  <1> QED BY <1>1, <1>2, <1>3, <1>4, <1>5, <1>6, <1>7, <1>8 DEF SessionStep

\* Answers of connection c that are on their way or still to be given.
Answers(c) == Len(ackWire[c]) + OnServer(c)

\* The answers of a connection are counted by what the connection holds.
LEMMA AnswersCount ==
    ASSUME NEW c \in Conn, TypeOK
    PROVE  /\ Len(ackWire[c]) \in Nat /\ Len(wire[c]) \in Nat
           /\ link[c] # "up" => OnServer(c) = 0
           /\ link[c] = "up" /\ Busy(c) => OnServer(c) = Len(wire[c]) + 1
           /\ link[c] = "up" /\ ~Busy(c) => OnServer(c) = Len(wire[c])
           /\ OnServer(c) \in Nat
  <1>1. ackWire[c] \in Seq(Ack) /\ wire[c] \in Seq(Upload)
    BY DEF TypeOK, NetTypeOK
  <1>2. Len(ackWire[c]) \in Nat /\ Len(wire[c]) \in Nat
    BY <1>1
  <1>3. link[c] = "up" /\ Busy(c) => OnServer(c) = Len(wire[c]) + 1
    BY DEF OnServer
  <1>4. link[c] = "up" /\ ~Busy(c) => OnServer(c) = Len(wire[c])
    <2>1. link[c] = "up" /\ ~Busy(c) => OnServer(c) = Len(wire[c]) + 0
      BY DEF OnServer
    <2> QED BY <1>2, <2>1
  <1>5. link[c] # "up" => OnServer(c) = 0
    BY DEF OnServer
  <1> QED BY <1>2, <1>3, <1>4, <1>5

\* The same facts after a step.
LEMMA AnswersCountNext ==
    ASSUME NEW c \in Conn, TypeOK'
    PROVE  /\ Len(ackWire'[c]) \in Nat /\ Len(wire'[c]) \in Nat
           /\ link'[c] # "up" => OnServer(c)' = 0
           /\ link'[c] = "up" /\ Busy(c)' => OnServer(c)' = Len(wire'[c]) + 1
           /\ link'[c] = "up" /\ ~Busy(c)' => OnServer(c)' = Len(wire'[c])
           /\ OnServer(c)' \in Nat
  <1>1. ackWire'[c] \in Seq(Ack) /\ wire'[c] \in Seq(Upload)
    BY DEF TypeOK, NetTypeOK
  <1>2. Len(ackWire'[c]) \in Nat /\ Len(wire'[c]) \in Nat
    BY <1>1
  <1>3. link'[c] = "up" /\ Busy(c)' => OnServer(c)' = Len(wire'[c]) + 1
    BY DEF OnServer
  <1>4. link'[c] = "up" /\ ~Busy(c)' => OnServer(c)' = Len(wire'[c])
    <2>1. link'[c] = "up" /\ ~Busy(c)' => OnServer(c)' = Len(wire'[c]) + 0
      BY DEF OnServer
    <2> QED BY <1>2, <2>1
  <1>5. link'[c] # "up" => OnServer(c)' = 0
    BY DEF OnServer
  <1> QED BY <1>2, <1>3, <1>4, <1>5

\* A handler gives at most one answer to each upload, over the connection the
\* upload came from, and touches no other connection and nothing of the client;
\* it may close its own connection.
LEMMA HandlerAnswers ==
    ASSUME TypeOK, TypeOK', NEW c \in Conn, HandlerStep(c)
    PROVE  /\ handler[c].pc # "off"
           /\ UNCHANGED sessionVars
           /\ link'[c] \in {link[c], "down"}
           /\ Answers(c)' <= Answers(c)
           /\ \A d \in Conn \ {c} : /\ wire'[d] = wire[d] /\ ackWire'[d] = ackWire[d]
                                    /\ handler'[d] = handler[d] /\ link'[d] = link[d]
  <1> USE DEF sessionVars, netVars
  <1>0. /\ wire[c] \in Seq(Upload) /\ ackWire[c] \in Seq(Ack) /\ handler[c] \in Handler
        /\ wire \in [Conn -> Seq(Upload)] /\ ackWire \in [Conn -> Seq(Ack)]
        /\ handler \in [Conn -> Handler]
    BY DEF TypeOK, NetTypeOK, ServerTypeOK
  <1>1. CASE ReceiveUpload(c)
    <2>1. /\ wire'[c] = Tail(wire[c]) /\ wire[c] # <<>>
          /\ ackWire' = ackWire /\ link' = link
      BY <1>0, <1>1 DEF ReceiveUpload
    <2>2. Len(wire'[c]) = Len(wire[c]) - 1
      BY <1>0, <2>1, QueueFacts
    <2>3. ~Busy(c) /\ Busy(c)'
      BY <1>0, <1>1 DEF ReceiveUpload, Busy
    <2>4. OnServer(c)' <= OnServer(c)
      <3>1. CASE link[c] = "up"
        <4>1. OnServer(c)' = Len(wire'[c]) + 1 /\ OnServer(c) = Len(wire[c])
          BY <2>1, <2>3, <3>1, AnswersCount, AnswersCountNext
        <4> QED BY <2>2, <4>1, AnswersCount
      <3>2. CASE link[c] # "up"
        BY <2>1, <3>2, AnswersCount, AnswersCountNext
      <3> QED BY <3>1, <3>2
    <2>5. Answers(c)' <= Answers(c)
      BY <2>1, <2>4, AnswersCount, AnswersCountNext DEF Answers
    <2> QED BY <1>0, <1>1, <2>5 DEF ReceiveUpload
  <1>2. CASE AddKey(c) \/ SaveReadings(c) \/ SaveFails(c)
    <2>1. /\ wire' = wire /\ ackWire' = ackWire /\ link' = link
      BY <1>2 DEF AddKey, SaveReadings, SaveFails
    <2>2. Busy(c) /\ Busy(c)'
      BY <1>0, <1>2 DEF AddKey, SaveReadings, SaveFails, Busy, Handler
    <2>3. OnServer(c)' = OnServer(c)
      <3>1. CASE link[c] = "up"
        BY <2>1, <2>2, <3>1, AnswersCount, AnswersCountNext
      <3>2. CASE link[c] # "up"
        BY <2>1, <3>2, AnswersCount, AnswersCountNext
      <3> QED BY <3>1, <3>2
    <2>4. Answers(c)' <= Answers(c)
      BY <2>1, <2>3, AnswersCount DEF Answers
    <2> QED BY <1>0, <1>2, <2>4 DEF AddKey, SaveReadings, SaveFails
  <1>3. CASE SendAck(c)
    <2>1. Busy(c) /\ ~Busy(c)'
      BY <1>0, <1>3 DEF SendAck, Busy, ReadyHandler
    <2>2. wire' = wire /\ link' = link
      BY <1>3 DEF SendAck
    <2>3. CASE link[c] = "up" /\ ackWire' # ackWire
      <3> DEFINE a == [req  |-> handler[c].req,
                       code |-> IF handler[c].outcome = "failed" THEN "Failed" ELSE "Ok"]
      <3>1. ackWire' = [ackWire EXCEPT ![c] = Append(@, a)]
        BY <1>3, <2>3 DEF SendAck
      <3> HIDE DEF a
      <3>2. Len(ackWire'[c]) = Len(ackWire[c]) + 1
        BY <1>0, <3>1
      <3>3. Answers(c)' <= Answers(c)
        BY <2>1, <2>2, <2>3, <3>2, AnswersCount, AnswersCountNext DEF Answers
      <3> QED BY <1>0, <1>3, <3>1, <3>3 DEF SendAck
    <2>4. CASE ackWire' = ackWire
      <3>1. Answers(c)' <= Answers(c)
        BY <2>1, <2>2, <2>4, AnswersCount, AnswersCountNext DEF Answers
      <3> QED BY <1>0, <1>3, <2>4, <3>1 DEF SendAck
    <2> QED BY <1>3, <2>3, <2>4 DEF SendAck
  <1>4. CASE PushReadings(c) \/ HandlerExit(c)
    <2>1. /\ wire' = wire /\ ackWire' = ackWire /\ link' = link
      BY <1>4 DEF PushReadings, HandlerExit
    <2>2. ~Busy(c) /\ ~Busy(c)'
      BY <1>0, <1>4 DEF PushReadings, HandlerExit, Busy, ReadyHandler, OffHandler
    <2>3. Answers(c)' <= Answers(c)
      BY <2>1, <2>2, AnswersCount, AnswersCountNext DEF Answers
    <2> QED BY <1>0, <1>4, <2>3 DEF PushReadings, HandlerExit
  <1>5. CASE RefuseFrame(c)
    <2>1. PICK kept \in Prefixes(ackWire[c]) : ackWire' = [ackWire EXCEPT ![c] = kept]
      BY <1>5 DEF RefuseFrame
    <2>2. ackWire'[c] = kept /\ link'[c] = "down"
      BY <1>0, <1>5, <2>1 DEF RefuseFrame, TypeOK, NetTypeOK
    <2>3. Len(ackWire'[c]) <= Len(ackWire[c])
      BY <1>0, <2>1, <2>2, PrefixFacts
    <2>4. Answers(c)' <= Answers(c)
      BY <2>2, <2>3, AnswersCount, AnswersCountNext DEF Answers
    <2>5. \A d \in Conn \ {c} : /\ wire'[d] = wire[d] /\ ackWire'[d] = ackWire[d]
                                /\ handler'[d] = handler[d] /\ link'[d] = link[d]
      BY <1>0, <1>5, <2>1 DEF RefuseFrame, TypeOK, NetTypeOK
    <2> QED BY <1>5, <2>2, <2>4, <2>5 DEF RefuseFrame
  <1> QED BY <1>1, <1>2, <1>3, <1>4, <1>5 DEF HandlerStep

\* The answers a session still expects are bounded by what its connection and
\* its channel hold.
LEMMA InFlightIs ==
    ASSUME TypeOK, pc # "down"
    PROVE  InFlight = Len(ackCh) + Answers(sess) /\ Len(ackCh) \in Nat /\ Answers(sess) \in Nat
  <1>1. /\ Len(ackCh) \in Nat /\ Len(ackWire[sess]) \in Nat /\ OnServer(sess) \in Nat
    BY CountFacts
  <1> QED BY <1>1 DEF InFlight, Answers

\* The accounting survives every step.
LEMMA AccountingStep == TunnelAssumption /\ AccountingInv /\ [Next]_vars => AccountingInv'
  <1> SUFFICES ASSUME TunnelAssumption, AccountingInv, [Next]_vars
               PROVE  FreshConns' /\ DownIsClean' /\ AckAccounting'
    BY TypeStep DEF AccountingInv
  <1> USE DEF sessionVars, netVars, serverVars
  <1>0. TypeOK /\ FreshConns /\ DownIsClean /\ AckAccounting /\ TypeOK'
    BY TypeStep DEF AccountingInv
  <1>1. ASSUME NEW r \in Reading, CacheReading(r)
        PROVE  FreshConns' /\ DownIsClean' /\ AckAccounting'
    BY <1>0, <1>1 DEF CacheReading, FreshConns, DownIsClean, AckAccounting, InFlight,
                      OnServer, Busy
  <1>2. CASE SessionStep
    BY <1>0, <1>2, SessionStepAccounting
  <1>3. CASE DeliverAck
    <2>1. /\ pc # "down" /\ pc' = pc /\ sess' = sess /\ late' = late /\ sess \in Conn
          /\ ackCh \in Seq(Ack) /\ ackWire[sess] \in Seq(Ack) /\ ackWire[sess] # <<>>
          /\ UNCHANGED <<link, wire, handler>>
      BY <1>0, <1>3 DEF DeliverAck, TypeOK, SessionTypeOK, NetTypeOK
    <2>2. /\ ackCh' = Append(ackCh, Head(ackWire[sess]))
          /\ ackWire'[sess] = Tail(ackWire[sess])
          /\ \A c \in Conn \ {sess} : ackWire'[c] = ackWire[c]
      BY <1>0, <1>3, <2>1 DEF DeliverAck, TypeOK, NetTypeOK
    <2>3. /\ Len(ackCh') = Len(ackCh) + 1
          /\ Len(ackWire'[sess]) = Len(ackWire[sess]) - 1
      BY <2>1, <2>2, QueueFacts, AppendFacts
    <2>4. OnServer(sess)' = OnServer(sess)
      BY <2>1 DEF OnServer, Busy
    <2>5. InFlight' = InFlight
      <3>1. Len(ackCh) \in Nat /\ Len(ackWire[sess]) \in Nat /\ OnServer(sess) \in Nat
        BY <1>0, <2>1, CountFacts
      <3>2. InFlight' = Len(ackCh') + Len(ackWire'[sess]) + OnServer(sess)'
        BY <2>1 DEF InFlight
      <3> DEFINE a == Len(ackCh)
                 w == Len(ackWire[sess])
                 n == OnServer(sess)
      <3>3. InFlight' = (a + 1) + (w - 1) + n
        BY <2>3, <2>4, <3>2
      <3>4. InFlight = a + w + n
        BY DEF InFlight
      <3>5. a \in Nat /\ w \in Nat /\ n \in Nat
        BY <3>1
      <3> HIDE DEF a, w, n
      <3>6. (a + 1) + (w - 1) + n = a + w + n
        BY <3>5
      <3> QED BY <3>3, <3>4, <3>6
    <2>6. FreshConns'
      <3>1. ASSUME NEW c \in Conn, c > sess
            PROVE  c # sess
        BY <2>1, <3>1 DEF Conn
      <3> QED BY <1>0, <2>1, <2>2, <3>1 DEF FreshConns
    <2> QED BY <1>0, <2>1, <2>5, <2>6 DEF DownIsClean, AckAccounting
  <1>4. CASE StopClient
    BY <1>0, <1>4, EndSessionAccounting DEF StopClient
  <1>5. CASE DropLink
    <2>1. /\ pc # "down" /\ pc' = pc /\ sess' = sess /\ late' = late /\ sess \in Conn
          /\ ackCh' = ackCh /\ handler' = handler /\ link' = [link EXCEPT ![sess] = "down"]
          /\ ackWire[sess] \in Seq(Ack)
      BY <1>0, <1>5 DEF DropLink, TypeOK, SessionTypeOK, NetTypeOK
    <2>2. PICK keptW \in Prefixes(wire[sess]), keptA \in Prefixes(ackWire[sess]) :
              /\ wire' = [wire EXCEPT ![sess] = keptW]
              /\ ackWire' = [ackWire EXCEPT ![sess] = keptA]
      BY <1>5 DEF DropLink
    <2>3. FreshConns'
      <3>1. ASSUME NEW c \in Conn, c > sess
            PROVE  c # sess
        BY <2>1, <3>1 DEF Conn
      <3> QED BY <1>0, <2>1, <2>2, <3>1 DEF FreshConns, TypeOK, NetTypeOK
    <2>4. Len(ackWire'[sess]) <= Len(ackWire[sess])
      <3>1. Len(keptA) <= Len(ackWire[sess])
        BY <2>1, PrefixFacts
      <3> QED BY <1>0, <2>1, <2>2, <3>1 DEF TypeOK, NetTypeOK
    <2>5. OnServer(sess)' = 0
      BY <1>0, <2>1 DEF OnServer, TypeOK, NetTypeOK
    <2>6. InFlight' <= InFlight /\ InFlight \in Nat /\ InFlight' \in Nat
      <3>1. Len(ackWire'[sess]) \in Nat
        BY <1>0, <2>1, AnswersCountNext
      <3> QED BY <1>0, <2>1, <2>4, <2>5, <3>1, CountFacts DEF InFlight
    <2>7. late \in Nat
      BY <1>0 DEF TypeOK, SessionTypeOK
    <2>8. AckAccounting'
      BY <1>0, <2>1, <2>6, <2>7 DEF AckAccounting
    <2> QED BY <1>0, <2>1, <2>3, <2>8 DEF DownIsClean
  <1>6. ASSUME NEW c \in Conn, HandlerStep(c)
        PROVE  FreshConns' /\ DownIsClean' /\ AckAccounting'
    <2>1. /\ handler[c].pc # "off" /\ UNCHANGED sessionVars
          /\ Answers(c)' <= Answers(c)
          /\ \A d \in Conn \ {c} : /\ wire'[d] = wire[d] /\ ackWire'[d] = ackWire[d]
                                   /\ handler'[d] = handler[d] /\ link'[d] = link[d]
      BY <1>0, <1>6, HandlerAnswers
    <2>2. FreshConns'
      <3>1. ASSUME NEW d \in Conn, d > sess
            PROVE  d # c
        BY <1>0, <2>1, <3>1 DEF FreshConns, OffHandler
      <3> QED BY <1>0, <2>1, <3>1 DEF FreshConns
    <2>3. ASSUME pc # "down"
          PROVE  InFlight' <= late + (IF pc = "await" THEN 1 ELSE 0)
      <3>1. sess \in Conn /\ pc' = pc /\ sess' = sess /\ late' = late /\ ackCh' = ackCh
        BY <1>0, <2>1, <2>3, CountFacts
      <3>2. /\ Answers(sess) \in Nat /\ Answers(sess)' \in Nat
            /\ Len(ackCh) \in Nat /\ late \in Nat
            /\ InFlight = Len(ackCh) + Answers(sess)
            /\ InFlight' = Len(ackCh) + Answers(sess)'
        <4>1. InFlight' = Len(ackCh') + Len(ackWire'[sess']) + OnServer(sess)'
          BY DEF InFlight
        <4>2. /\ Len(ackWire'[sess]) \in Nat /\ OnServer(sess)' \in Nat
          BY <1>0, <3>1, AnswersCountNext
        <4>3. Answers(sess)' = Len(ackWire'[sess]) + OnServer(sess)'
          BY <3>1 DEF Answers
        <4>4. late \in Nat
          BY <1>0 DEF TypeOK, SessionTypeOK
        <4> QED BY <1>0, <2>3, <3>1, <4>1, <4>2, <4>3, <4>4, InFlightIs, SMTT(60)
      <3>3. Answers(sess)' <= Answers(sess)
        <4>1. CASE sess = c
          BY <2>1, <4>1, <3>1 DEF Answers
        <4>2. CASE sess # c
          <5>1. Answers(sess)' = Answers(sess)
            BY <2>1, <3>1, <4>2 DEF Answers, OnServer, Busy
          <5> QED BY <3>2, <5>1
        <4> QED BY <4>1, <4>2
      <3>4. InFlight <= late + (IF pc = "await" THEN 1 ELSE 0)
        BY <1>0, <2>3 DEF AckAccounting
      <3>5. CASE pc = "await"
        BY <3>2, <3>3, <3>4, <3>5
      <3>6. CASE pc # "await"
        BY <3>2, <3>3, <3>4, <3>6
      <3> QED BY <3>5, <3>6
    <2> QED BY <1>0, <2>1, <2>2, <2>3 DEF DownIsClean, AckAccounting
  <1>7. CASE RebootServer
    <2>1. /\ pc' = pc /\ sess' = sess /\ late' = late /\ ackCh' = ackCh
          /\ wire' = [c \in Conn |-> <<>>] /\ handler' = [c \in Conn |-> OffHandler]
          /\ link' = [c \in Conn |-> IF link[c] = "up" THEN "down" ELSE link[c]]
      BY <1>7 DEF RebootServer
    <2>2. CASE pc = "down"
      BY <1>0, <1>7, <2>1, <2>2 DEF RebootServer, FreshConns, DownIsClean, AckAccounting
    <2>3. CASE pc # "down"
      <3>1. PICK kept \in Prefixes(ackWire[sess]) : ackWire' = [ackWire EXCEPT ![sess] = kept]
        BY <1>7, <2>3 DEF RebootServer
      <3>2. sess \in Conn /\ ackWire[sess] \in Seq(Ack) /\ late \in Nat
        BY <1>0, <2>3 DEF TypeOK, SessionTypeOK, NetTypeOK
      <3>3. FreshConns'
        <4>1. ASSUME NEW c \in Conn, c > sess
              PROVE  c # sess
          BY <3>2, <4>1 DEF Conn
        <4> QED BY <1>0, <2>1, <3>1, <3>2, <4>1 DEF FreshConns, TypeOK, NetTypeOK
      <3>4. Len(ackWire'[sess]) <= Len(ackWire[sess]) /\ Len(ackWire'[sess]) \in Nat
        <4>1. Len(kept) <= Len(ackWire[sess]) /\ Len(kept) \in Nat
          BY <3>2, PrefixFacts
        <4> QED BY <1>0, <3>1, <3>2, <4>1 DEF TypeOK, NetTypeOK
      <3>5. OnServer(sess)' = 0
        BY <2>1, <3>2 DEF OnServer
      <3>6. InFlight' <= InFlight /\ InFlight \in Nat /\ InFlight' \in Nat
        BY <1>0, <2>1, <2>3, <3>4, <3>5, CountFacts DEF InFlight
      <3>7. AckAccounting'
        BY <1>0, <2>1, <2>3, <3>2, <3>6 DEF AckAccounting
      <3> QED BY <1>0, <2>1, <3>3, <3>7 DEF DownIsClean
    <2> QED BY <2>2, <2>3
  <1>8. CASE UNCHANGED vars
    BY <1>0, <1>8 DEF vars, FreshConns, DownIsClean, AckAccounting, InFlight, OnServer, Busy
  <1> QED BY <1>1, <1>2, <1>3, <1>4, <1>5, <1>6, <1>7, <1>8 DEF Next

\* The initial state satisfies the accounting.
LEMMA AccountingInit == TunnelAssumption /\ Init => AccountingInv
  <1> SUFFICES ASSUME TunnelAssumption, Init PROVE AccountingInv
    OBVIOUS
  <1>1. TypeOK
    BY TypeInit
  <1> QED BY <1>1 DEF Init, AccountingInv, FreshConns, DownIsClean, AckAccounting

\* The answers on their way never outnumber the upload being waited for and the
\* ones uploadReadings gave up on too early: the pairing by position in
\* uploadAckCh is never off by more than the early timeouts.
THEOREM AnswersAccounted == Spec => []AckAccounting
  <1>1. AccountingInv => AckAccounting
    BY DEF AccountingInv
  <1> QED BY <1>1, TunnelAssumption, AccountingInit, AccountingStep, PTL DEF Spec

-------------------------------------------------------------------------------
(* Pairing of answers and uploads                                          *)

Current == [id |-> msgID, batch |-> batch]

\* In a session without early timeouts, whatever is on its way to the server,
\* at work there or on its way back belongs to the upload in hand.
Paired ==
    /\ \A i \in DOMAIN ackCh : ackCh[i].req = Current
    /\ \A i \in DOMAIN ackWire[sess] : ackWire[sess][i].req = Current
    /\ link[sess] = "up" => /\ \A i \in DOMAIN wire[sess] : wire[sess][i] = Current
                            /\ Busy(sess) => handler[sess].req = Current

PairingInv == AccountingInv /\ (pc # "down" /\ late = 0 => Paired)

\* When no answer is expected nothing is on its way: that is all it takes for
\* the pairing to hold while no upload is waited for.
QuietIsPaired ==
    AccountingInv /\ pc \notin {"down", "await"} /\ late = 0 =>
        ackCh = <<>> /\ ackWire[sess] = <<>> /\ Paired /\ ~AnswerComing

LEMMA NothingComing == QuietIsPaired
  <1> SUFFICES ASSUME AccountingInv, pc \notin {"down", "await"}, late = 0
               PROVE  ackCh = <<>> /\ ackWire[sess] = <<>> /\ Paired /\ ~AnswerComing
    BY DEF QuietIsPaired
  <1>1. TypeOK /\ AckAccounting /\ pc # "down"
    BY DEF AccountingInv
  <1>2. InFlight <= 0
    BY <1>1 DEF AckAccounting
  <1>3. InFlight \in Nat
    BY <1>1, CountFacts DEF InFlight
  <1>4. ~AnswerComing
    BY <1>1, <1>2, <1>3, CountFacts
  <1>5. /\ wire[sess] \in Seq(Upload) /\ ackCh = <<>> /\ ackWire[sess] = <<>>
        /\ link[sess] = "up" => wire[sess] = <<>> /\ ~Busy(sess)
    BY <1>1, <1>4, CountFacts DEF AnswerComing, TypeOK, NetTypeOK
  <1> QED BY <1>4, <1>5 DEF Paired

\* The same after a step.
LEMMA NothingComingNext ==
    AccountingInv' /\ pc' \notin {"down", "await"} /\ late' = 0 => Paired'
  <1>1. QuietIsPaired'
    BY NothingComing, PTL
  <1> QED BY <1>1 DEF QuietIsPaired

\* Writing an upload puts the only request of the session on its way.
LEMMA WritePairs ==
    ASSUME PairingInv, AccountingInv', WriteUpload, late = 0
    PROVE  Paired'
  <1>1. /\ TypeOK /\ sess \in Conn /\ sess' = sess /\ ackCh = <<>> /\ ackWire[sess] = <<>>
        /\ ~AnswerComing /\ UNCHANGED <<ackCh, ackWire, link, handler>>
    BY NothingComing DEF QuietIsPaired, serverVars, PairingInv, AccountingInv, WriteUpload, TypeOK, SessionTypeOK
  <1>2. CASE link[sess] = "up"
    <2> DEFINE up == [id |-> msgID + 1, batch |-> batch]
    <2>1. wire[sess] = <<>> /\ ~Busy(sess) /\ wire'[sess] = Append(wire[sess], up)
      BY <1>1, <1>2 DEF WriteUpload, AnswerComing, TypeOK, NetTypeOK
    <2>2. Current' = up
      BY DEF WriteUpload, Current, serverVars
    <2>3. wire'[sess] = <<up>>
      BY <2>1
    <2> HIDE DEF up
    <2> QED BY <1>1, <2>1, <2>2, <2>3 DEF Paired, Busy
  <1>3. CASE link[sess] # "up"
    BY <1>1, <1>3 DEF Paired
  <1> QED BY <1>2, <1>3

\* A handler passes on the request it was given.
LEMMA HandlerPairs ==
    ASSUME TypeOK, TypeOK', Paired, pc # "down", NEW c \in Conn, HandlerStep(c)
    PROVE  Paired'
  <1> USE DEF sessionVars, netVars
  <1>0. /\ sess \in Conn /\ sess' = sess /\ ackCh' = ackCh /\ Current' = Current
        /\ link'[c] = "up" => link[c] = "up"
        /\ \A d \in Conn \ {c} : /\ wire'[d] = wire[d] /\ ackWire'[d] = ackWire[d]
                                 /\ handler'[d] = handler[d] /\ link'[d] = link[d]
    BY HandlerAnswers DEF TypeOK, SessionTypeOK, Current
  <1>1. CASE sess # c
    BY <1>0, <1>1 DEF Paired, Busy
  <1>2. CASE sess = c
    <2>0. /\ wire[c] \in Seq(Upload) /\ ackWire[c] \in Seq(Ack) /\ handler[c] \in Handler
          /\ wire \in [Conn -> Seq(Upload)] /\ ackWire \in [Conn -> Seq(Ack)]
          /\ handler \in [Conn -> Handler]
      BY DEF TypeOK, NetTypeOK, ServerTypeOK
    <2>1. CASE ReceiveUpload(c)
      <3>1. /\ wire'[c] = Tail(wire[c]) /\ wire[c] # <<>> /\ ackWire' = ackWire
            /\ handler'[c].req = Head(wire[c])
        BY <2>0, <2>1 DEF ReceiveUpload
      <3>2. /\ Head(wire[c]) = wire[c][1] /\ 1 \in DOMAIN wire[c]
            /\ \A i \in DOMAIN wire'[c] : i + 1 \in DOMAIN wire[c]
                                          /\ wire'[c][i] = wire[c][i + 1]
        BY <2>0, <3>1, QueueFacts
      <3> QED BY <1>0, <1>2, <3>1, <3>2 DEF Paired
    <2>2. CASE AddKey(c) \/ SaveReadings(c) \/ SaveFails(c)
      <3>1. wire' = wire /\ ackWire' = ackWire /\ handler'[c].req = handler[c].req /\ Busy(c)
        BY <2>0, <2>2, ZenonT(60) DEF AddKey, SaveReadings, SaveFails, Handler, Busy
      <3> QED BY <1>0, <1>2, <3>1 DEF Paired
    <2>3. CASE SendAck(c)
      <3> DEFINE a == [req  |-> handler[c].req,
                       code |-> IF handler[c].outcome = "failed" THEN "Failed" ELSE "Ok"]
      <3>1. Busy(c) /\ ~Busy(c)' /\ wire' = wire
        BY <2>0, <2>3 DEF SendAck, Busy, ReadyHandler
      <3>2. \/ ackWire' = ackWire
            \/ link[c] = "up" /\ ackWire' = [ackWire EXCEPT ![c] = Append(@, a)]
        BY <2>3 DEF SendAck
      <3>3. a.req = handler[c].req
        OBVIOUS
      <3> HIDE DEF a
      <3>4. link[c] = "up" => a.req = Current
        BY <1>2, <3>1, <3>3 DEF Paired
      <3>5. \A i \in DOMAIN ackWire'[c] : ackWire'[c][i].req = Current
        <4>1. CASE ackWire' = ackWire
          BY <1>2, <4>1 DEF Paired
        <4>2. CASE link[c] = "up" /\ ackWire' = [ackWire EXCEPT ![c] = Append(@, a)]
          <5>1. ackWire'[c] = Append(ackWire[c], a)
            BY <2>0, <4>2
          <5>2. \A i \in DOMAIN ackWire'[c] : \/ ackWire'[c][i] = a
                                              \/ i \in DOMAIN ackWire[c] /\ ackWire'[c][i] = ackWire[c][i]
            BY <2>0, <5>1
          <5> QED BY <1>2, <3>4, <4>2, <5>2 DEF Paired
        <4> QED BY <3>2, <4>1, <4>2
      <3> QED BY <1>0, <1>2, <3>1, <3>5 DEF Paired
    <2>4. CASE PushReadings(c) \/ HandlerExit(c)
      <3>1. wire' = wire /\ ackWire' = ackWire /\ ~Busy(c)'
        BY <2>0, <2>4 DEF PushReadings, HandlerExit, Busy, ReadyHandler, OffHandler
      <3> QED BY <1>0, <1>2, <3>1 DEF Paired
    <2>5. CASE RefuseFrame(c)
      <3>1. PICK kept \in Prefixes(ackWire[c]) : ackWire' = [ackWire EXCEPT ![c] = kept]
        BY <2>5 DEF RefuseFrame
      <3>2. ackWire'[c] = kept /\ link'[c] = "down"
        BY <2>0, <2>5, <3>1 DEF RefuseFrame, TypeOK, NetTypeOK
      <3>3. \A i \in DOMAIN kept : i \in DOMAIN ackWire[c] /\ kept[i] = ackWire[c][i]
        BY <2>0, <3>1, PrefixFacts
      <3> QED BY <1>0, <1>2, <3>2, <3>3 DEF Paired
    <2> QED BY <2>1, <2>2, <2>3, <2>4, <2>5 DEF HandlerStep
  <1> QED BY <1>1, <1>2

\* The pairing survives every step: only steps that leave the session waiting
\* need a look, since the accounting settles the others.
LEMMA PairingStep == TunnelAssumption /\ PairingInv /\ [Next]_vars => PairingInv'
  <1> SUFFICES ASSUME TunnelAssumption, PairingInv, [Next]_vars, pc' = "await", late' = 0
               PROVE  Paired'
    BY AccountingStep, NothingComingNext DEF PairingInv
  <1> USE DEF sessionVars, netVars, serverVars
  <1>0. /\ AccountingInv /\ AccountingInv' /\ TypeOK /\ TypeOK'
        /\ pc # "down" /\ late = 0 => Paired
    BY AccountingStep DEF PairingInv, AccountingInv
  <1>1. ASSUME NEW r \in Reading, CacheReading(r)
        PROVE  Paired'
    BY <1>0, <1>1 DEF CacheReading, Paired, Current, Busy
  <1>2. CASE SessionStep
    <2>1. WriteUpload \/ UNCHANGED vars
      BY <1>2 DEF SessionStep, Connect, DialFails, LoadNothing, MarkSending, MarkFails, BuildFails,
                  WriteFails, ConsumeAck, AckTimeout, NoticeDeadLink, HeartbeatFails, EndSession
    <2>2. CASE WriteUpload
      BY <1>0, <2>2, WritePairs DEF WriteUpload
    <2>3. CASE UNCHANGED vars
      BY <1>0, <2>3 DEF vars, Paired, Current, Busy
    <2> QED BY <2>1, <2>2, <2>3
  <1>3. CASE DeliverAck
    <2>1. /\ sess \in Conn /\ sess' = sess /\ Paired /\ Current' = Current
          /\ ackCh \in Seq(Ack) /\ ackWire[sess] \in Seq(Ack) /\ ackWire[sess] # <<>>
          /\ UNCHANGED <<link, wire, handler>>
          /\ ackCh' = Append(ackCh, Head(ackWire[sess]))
          /\ ackWire'[sess] = Tail(ackWire[sess])
      BY <1>0, <1>3 DEF DeliverAck, TypeOK, SessionTypeOK, NetTypeOK, Current
    <2>2. /\ Head(ackWire[sess]) \in Ack /\ Head(ackWire[sess]).req = Current
          /\ \A i \in DOMAIN ackWire'[sess] : ackWire'[sess][i].req = Current
      BY <2>1, QueueFacts DEF Paired
    <2>3. \A i \in DOMAIN ackCh' : ackCh'[i].req = Current
      BY <2>1, <2>2, AppendFacts DEF Paired
    <2> QED BY <2>1, <2>2, <2>3 DEF Paired, Busy
  <1>4. CASE StopClient
    BY <1>4 DEF StopClient, EndSession
  <1>5. CASE DropLink
    <2>1. /\ sess \in Conn /\ sess' = sess /\ Paired /\ Current' = Current
          /\ ackCh' = ackCh /\ link'[sess] = "down" /\ ackWire[sess] \in Seq(Ack)
      BY <1>0, <1>5 DEF DropLink, TypeOK, SessionTypeOK, NetTypeOK, Current
    <2>2. PICK kept \in Prefixes(ackWire[sess]) : ackWire'[sess] = kept
      BY <1>0, <1>5, <2>1 DEF DropLink, TypeOK, NetTypeOK
    <2>3. \A i \in DOMAIN kept : i \in DOMAIN ackWire[sess] /\ kept[i] = ackWire[sess][i]
      BY <2>1, PrefixFacts
    <2> QED BY <2>1, <2>2, <2>3 DEF Paired
  <1>6. ASSUME NEW c \in Conn, HandlerStep(c)
        PROVE  Paired'
    <2>1. pc # "down" /\ late = 0
      BY <1>0, <1>6, HandlerAnswers
    <2> QED BY <1>0, <1>6, <2>1, HandlerPairs
  <1>7. CASE RebootServer
    <2>1. /\ pc # "down" /\ sess \in Conn /\ sess' = sess /\ Paired /\ Current' = Current
          /\ ackCh' = ackCh /\ link'[sess] # "up" /\ ackWire[sess] \in Seq(Ack)
      BY <1>0, <1>7 DEF RebootServer, TypeOK, SessionTypeOK, NetTypeOK, Current
    <2>2. PICK kept \in Prefixes(ackWire[sess]) : ackWire'[sess] = kept
      BY <1>0, <1>7, <2>1 DEF RebootServer, TypeOK, NetTypeOK
    <2>3. \A i \in DOMAIN kept : i \in DOMAIN ackWire[sess] /\ kept[i] = ackWire[sess][i]
      BY <2>1, PrefixFacts
    <2> QED BY <2>1, <2>2, <2>3 DEF Paired
  <1>8. CASE UNCHANGED vars
    BY <1>0, <1>8 DEF vars, Paired, Current, Busy
  <1> QED BY <1>1, <1>2, <1>3, <1>4, <1>5, <1>6, <1>7, <1>8 DEF Next

\* The initial state has no session, so nothing is to be paired.
LEMMA PairingInit == TunnelAssumption /\ Init => PairingInv
  BY AccountingInit DEF PairingInv, Init

\* uploadReadings does not compare message ids, and still takes no
\* acknowledgement of another upload in a session that never gave up too early.
THEOREM AnswersMatch == Spec => []NoStaleAck
  <1>1. PairingInv => NoStaleAck
    <2> SUFFICES ASSUME PairingInv, pc # "down", late = 0, NEW a \in AcksComing
                 PROVE  pc = "await" /\ a.req = Current
      BY DEF NoStaleAck, Current
    <2>1. a.req = Current
      BY DEF PairingInv, AcksComing, Paired
    <2>2. pc \in {"idle", "marked", "await"}
      BY DEF PairingInv, AccountingInv, TypeOK, SessionTypeOK
    <2>3. pc = "await"
      BY <2>2, NothingComing DEF QuietIsPaired, PairingInv, AcksComing
    <2> QED BY <2>1, <2>3
  <1> QED BY <1>1, TunnelAssumption, PairingInit, PairingStep, PTL DEF Spec

-------------------------------------------------------------------------------
(* The deduplication list                                                  *)

\* Every critical section leaves the list without duplicates.
LEMMA DedupStep ==
    TunnelAssumption /\ TypeOK /\ DedupWellFormed /\ [Next]_vars => DedupWellFormed'
  <1> SUFFICES ASSUME TunnelAssumption, TypeOK, DedupWellFormed, [Next]_vars
               PROVE  DedupWellFormed'
    OBVIOUS
  <1> USE DEF sessionVars, netVars, serverVars
  <1> DEFINE Key == SUBSET Reading
  <1>0. /\ dedup \in Seq(Key) /\ Len(dedup) <= DedupCacheSize /\ NoDuplicate(dedup)
        /\ DedupCacheSize \in Nat \ {0}
    BY DEF TypeOK, ServerTypeOK, DedupWellFormed, TunnelAssumption
  <1>1. ASSUME NEW c \in Conn, ReceiveUpload(c)
        PROVE  NoDuplicate(dedup')
    <2>1. Head(wire[c]).batch \in Key /\ dedup' = Exists(dedup, Head(wire[c]).batch)
      <3>1. wire[c] \in Seq(Upload) /\ wire[c] # <<>>
        BY <1>1 DEF ReceiveUpload, TypeOK, NetTypeOK
      <3>2. Head(wire[c]) \in Upload
        BY <3>1, QueueFacts
      <3>3. Head(wire[c]).batch \in Key
        BY <3>2 DEF Upload
      <3>4. dedup' = Exists(dedup, Head(wire[c]).batch)
        BY <1>1 DEF ReceiveUpload
      <3> QED BY <3>3, <3>4
    <2> HIDE DEF Key
    <2> QED BY <1>0, <2>1, ExistsKeepsKeys
  <1>2. ASSUME NEW c \in Conn, AddKey(c)
        PROVE  NoDuplicate(dedup')
    <2>1. /\ handler[c].req.batch \in Key
          /\ dedup' = Add(dedup, handler[c].req.batch, DedupCacheSize)
      BY <1>2 DEF AddKey, TypeOK, ServerTypeOK, Handler, Upload
    <2> HIDE DEF Key
    <2> QED BY <1>0, <2>1, AddBounds
  <1>3. CASE RebootServer
    BY <1>3 DEF RebootServer, DedupWellFormed, NoDuplicate
  <1>4. CASE UNCHANGED dedup
    BY <1>4 DEF DedupWellFormed
  <1>5. \/ \E c \in Conn : ReceiveUpload(c) \/ AddKey(c)
        \/ RebootServer
        \/ UNCHANGED dedup
    BY DEF vars, Next, CacheReading, DeliverAck, StopClient, DropLink, HandlerStep, RefuseFrame,
           SaveReadings, SaveFails, SendAck, PushReadings, HandlerExit, SessionStep, Connect, DialFails, LoadNothing,
           MarkSending, MarkFails, BuildFails, WriteUpload, WriteFails, ConsumeAck, AckTimeout,
           NoticeDeadLink, HeartbeatFails
  <1> QED BY <1>1, <1>2, <1>3, <1>4, <1>5 DEF DedupWellFormed

\* Handlers look a key up and add it in two critical sections, and still never
\* put it into the list twice: add looks again.
THEOREM DedupAgrees == Spec => []DedupWellFormed
  <1>1. Init => DedupWellFormed
    BY DEF Init, DedupWellFormed, NoDuplicate
  <1> QED BY <1>1, TunnelAssumption, TypeCorrect, DedupStep, PTL DEF Spec

-------------------------------------------------------------------------------
(* The status column                                                       *)

\* The batch in hand is marked as being sent.
HandIsSending ==
    pc \in {"marked", "await"} => \A r \in batch : status[r] = "Sending"

\* Faults are only spent.
BudgetFalls == \A k \in FaultKinds : budget[k] <= Budget[k]

OwnershipInv == TypeOK /\ HandIsSending /\ BudgetFalls /\ SendingIsOwned

\* What a step may do to the status column: the session goroutine marks a
\* pending batch, marks one as failed that it cannot build, or settles the batch
\* in hand, and new readings appear.
StatusMoves ==
    \/ UNCHANGED status
    \/ \E r \in Reading : status[r] = "None" /\ status' = [status EXCEPT ![r] = "NotSent"]
    \/ /\ batch' = NextBatch /\ pc = "idle" /\ pc' = "marked"
       /\ status' = [r \in Reading |-> IF r \in NextBatch THEN "Sending" ELSE status[r]]
    \/ /\ pc = "idle" /\ pc' = "down"
       /\ status' = [r \in Reading |-> IF r \in NextBatch THEN "Failed" ELSE status[r]]
    \/ /\ pc \in {"marked", "await"} /\ pc' \in {"idle", "down"}
       /\ \E value \in {"NotSent", "Sent", "Failed"} :
            status' = [r \in Reading |-> IF r \in batch THEN value ELSE status[r]]

\* Every step does one of these.
LEMMA StatusSteps == Next => StatusMoves
  <1> SUFFICES ASSUME Next PROVE StatusMoves
    OBVIOUS
  <1>1. ASSUME NEW r \in Reading, CacheReading(r)
        PROVE  StatusMoves
    BY <1>1 DEF CacheReading, StatusMoves
  <1>2. CASE MarkSending
    BY <1>2 DEF MarkSending, StatusMoves
  <1>3. CASE WriteFails
    BY <1>3 DEF WriteFails, UpdateStatus, EndSession, StatusMoves
  <1>4. CASE ConsumeAck
    BY <1>4 DEF ConsumeAck, UpdateStatus, StatusMoves
  <1>5. CASE AckTimeout
    BY <1>5 DEF AckTimeout, UpdateStatus, AfterTimeout, EndSession, StatusMoves
  <1>6. CASE UNCHANGED status
    BY <1>6 DEF StatusMoves
  <1>7. CASE BuildFails
    BY <1>7 DEF BuildFails, UpdateStatus, EndSession, StatusMoves
  <1>8. \/ \E r \in Reading : CacheReading(r)
        \/ MarkSending \/ BuildFails \/ WriteFails \/ ConsumeAck \/ AckTimeout \/ UNCHANGED status
    BY DEF Next, SessionStep, HandlerStep, Connect, DialFails, LoadNothing, MarkFails, WriteUpload,
           NoticeDeadLink, HeartbeatFails, DeliverAck, StopClient, DropLink, ReceiveUpload, RefuseFrame,
           AddKey, SaveReadings, SaveFails, SendAck, PushReadings, HandlerExit, RebootServer,
           vars
  <1> QED BY <1>1, <1>2, <1>3, <1>4, <1>5, <1>6, <1>7, <1>8

\* The session goroutine has a batch in hand only after it marked one.
LEMMA HandStep ==
    TypeOK /\ HandIsSending /\ [Next]_vars => HandIsSending'
  <1> SUFFICES ASSUME TypeOK, HandIsSending, [Next]_vars, pc' \in {"marked", "await"},
                      NEW r \in batch'
               PROVE  status'[r] = "Sending"
    BY DEF HandIsSending
  <1> USE DEF sessionVars, netVars, serverVars
  <1>1. CASE MarkSending
    BY <1>1 DEF MarkSending, NextBatch, Pending
  <1>2. CASE pc \in {"marked", "await"} /\ UNCHANGED batch
    <2>1. status[r] = "Sending" /\ r \in Reading
      BY <1>2 DEF HandIsSending, TypeOK, SessionTypeOK
    <2>2. CASE UNCHANGED vars
      BY <2>1, <2>2 DEF vars
    <2>3. CASE Next
      BY <1>2, <2>1, <2>3, StatusSteps, SMTT(60) DEF StatusMoves, TypeOK
    <2> QED BY <2>2, <2>3
  <1>3. MarkSending \/ (pc \in {"marked", "await"} /\ UNCHANGED batch)
    BY DEF Next, SessionStep, HandlerStep, Connect, DialFails, LoadNothing, MarkFails, BuildFails, WriteUpload,
           WriteFails, ConsumeAck, AckTimeout, CacheReading, EndSession,
           NoticeDeadLink, HeartbeatFails, DeliverAck, StopClient, DropLink, ReceiveUpload, RefuseFrame,
           AddKey, SaveReadings, SaveFails, SendAck, PushReadings, HandlerExit, RebootServer,
           vars
  <1> QED BY <1>1, <1>2, <1>3

\* uploadReadings never marks, resets or fails a reading that is already
\* "Sent": only pending readings are loaded and only those in hand updated.
THEOREM SentStays == Spec => SentIsFinal
  <1>1. TypeOK /\ HandIsSending /\ [Next]_vars =>
            [\A r \in Reading : status[r] = "Sent" => status'[r] = "Sent"]_vars
    <2> SUFFICES ASSUME TypeOK, HandIsSending, Next, NEW r \in Reading, status[r] = "Sent"
                 PROVE  status'[r] = "Sent"
      OBVIOUS
    <2>1. r \notin NextBatch
      BY DEF NextBatch, Pending
    <2>2. pc \in {"marked", "await"} => r \notin batch
      BY DEF HandIsSending
    <2> QED BY <2>1, <2>2, StatusSteps DEF StatusMoves, TypeOK
  <1>2. Init => HandIsSending
    BY DEF Init, HandIsSending
  <1> QED BY <1>1, <1>2, TypeCorrect, HandStep, PTL DEF Spec, SentIsFinal

\* Faults are spent one at a time and never given back.
LEMMA BudgetStep ==
    TypeOK /\ TypeOK' /\ [Next]_vars => \A k \in FaultKinds : budget'[k] <= budget[k]
  <1> SUFFICES ASSUME TypeOK, TypeOK', [Next]_vars
               PROVE  \A k \in FaultKinds : budget'[k] <= budget[k]
    OBVIOUS
  <1> USE DEF sessionVars, netVars, serverVars
  <1> DEFINE Less(b) == b \in [FaultKinds -> Nat] /\ \A k \in FaultKinds : b[k] <= budget[k]
  <1>0. budget \in [FaultKinds -> Nat] /\ Less(budget)
    BY DEF TypeOK
  <1>1. \A j \in FaultKinds : CanSpend(j) => Less(Spent(j))
    BY <1>0 DEF CanSpend, Spent
  <1>2. \A b, S, value : Less(b) /\ UpdateStatus(S, value, b) => Less(budget')
    BY <1>0 DEF UpdateStatus, FaultKinds
  <1> HIDE DEF Less
  <1>3. Less(budget')
    <2>1. CASE UNCHANGED budget
      BY <1>0, <2>1
    <2>2. ASSUME NEW j \in FaultKinds, CanSpend(j), budget' = Spent(j)
          PROVE  Less(budget')
      BY <1>1, <2>2
    <2>3. CASE WriteFails
      BY <1>0, <1>2, <2>3 DEF WriteFails
    <2>4. CASE ConsumeAck
      BY <1>0, <1>2, <2>4 DEF ConsumeAck
    <2>5. CASE AckTimeout
      <3>1. Less(IF AnswerComing THEN Spent("slow") ELSE budget)
        BY <1>0, <1>1, <2>5, SMTT(60) DEF AckTimeout, FaultKinds
      <3> QED BY <1>2, <2>5, <3>1 DEF AckTimeout
    <2>6. CASE BuildFails
      BY <1>0, <1>2, <2>6 DEF BuildFails
    <2>7. \/ UNCHANGED budget \/ WriteFails \/ ConsumeAck \/ AckTimeout \/ BuildFails
          \/ \E j \in FaultKinds : CanSpend(j) /\ budget' = Spent(j)
      BY DEF vars, FaultKinds, Next, SessionStep, HandlerStep, Connect, DialFails, LoadNothing,
             MarkSending, MarkFails, WriteUpload, CacheReading, NoticeDeadLink,
             HeartbeatFails, DeliverAck, StopClient, DropLink, ReceiveUpload, RefuseFrame, AddKey,
             SaveReadings, SaveFails, SendAck, PushReadings, HandlerExit, RebootServer
    <2> QED BY <2>1, <2>2, <2>3, <2>4, <2>5, <2>6, <2>7
  <1> QED BY <1>3 DEF Less

\* While no process was stopped and no update failed, the session goroutine
\* settles every batch before it lets go of it.
LEMMA OwnershipStep ==
    ASSUME TunnelAssumption, OwnershipInv, [Next]_vars, TypeOK'
    PROVE  OwnershipInv'
  <1> USE DEF sessionVars, netVars, serverVars
  <1>0. TypeOK /\ HandIsSending /\ BudgetFalls /\ SendingIsOwned
    BY DEF OwnershipInv
  <1>1. HandIsSending'
    BY <1>0, HandStep
  <1>2. /\ budget \in [FaultKinds -> Nat] /\ budget' \in [FaultKinds -> Nat]
        /\ Budget \in [FaultKinds -> Nat]
        /\ \A k \in FaultKinds : budget'[k] <= budget[k] /\ budget[k] <= Budget[k]
    BY <1>0, BudgetStep DEF TypeOK, BudgetFalls, TunnelAssumption
  <1>3. BudgetFalls'
    BY <1>2 DEF BudgetFalls
  <1>4. SendingIsOwned'
    <2> SUFFICES ASSUME budget'["stop"] = Budget["stop"], budget'["status"] = Budget["status"],
                        NEW r \in Reading, status'[r] = "Sending"
                 PROVE  r \in batch' /\ pc' \in {"marked", "await"}
      BY DEF SendingIsOwned
    <2>1. /\ budget["stop"] = Budget["stop"] /\ budget["status"] = Budget["status"]
          /\ budget'["stop"] = budget["stop"] /\ budget'["status"] = budget["status"]
      BY <1>2 DEF FaultKinds
    <2>2. ~CanSpend("stop") \/ budget' # Spent("stop")
      BY <1>2, <2>1 DEF CanSpend, Spent, FaultKinds
    <2>3. CASE pc \in {"marked", "await"} /\ pc' \in {"down", "idle"}
      <3>1. \E b \in {budget, Spent("slow")} :
                \/ UpdateStatus(batch, "Failed", b)
                \/ UpdateStatus(batch, "Sent", b)
                \/ UpdateStatus(batch, "NotSent", b)
        BY <2>2, <2>3 DEF vars, Next, SessionStep, HandlerStep, Connect, DialFails, LoadNothing,
             MarkSending, MarkFails, BuildFails, WriteUpload, WriteFails, ConsumeAck, AckTimeout,
             AfterTimeout, CacheReading, NoticeDeadLink,
             HeartbeatFails, DeliverAck, StopClient, DropLink, ReceiveUpload, RefuseFrame, AddKey,
             SaveReadings, SaveFails, SendAck, PushReadings, HandlerExit, RebootServer
      <3>2. PICK b \in {budget, Spent("slow")}, value \in {"Failed", "Sent", "NotSent"} :
                UpdateStatus(batch, value, b)
        BY <3>1
      <3>3. b["status"] = budget["status"]
        BY <1>2 DEF Spent, FaultKinds
      <3>4. ~(budget' = [b EXCEPT !["status"] = @ - 1])
        <4>1. b \in [FaultKinds -> Int] /\ "status" \in FaultKinds
          BY <1>2 DEF Spent, FaultKinds
        <4> QED BY <1>2, <2>1, <3>3, <4>1
      <3>5. status' = [q \in Reading |-> IF q \in batch THEN value ELSE status[q]]
        BY <3>2, <3>4 DEF UpdateStatus
      <3>6. r \notin batch /\ status[r] = "Sending"
        BY <3>5
      <3> QED BY <1>0, <2>1, <3>6, SMTT(60) DEF SendingIsOwned
    <2>4. CASE ~(pc \in {"marked", "await"} /\ pc' \in {"down", "idle"})
      <3>1. CASE UNCHANGED status
        <4>1. r \in batch /\ pc \in {"marked", "await"}
          BY <1>0, <2>1, <3>1 DEF SendingIsOwned
        <4>2. pc' \in {"marked", "await"}
          BY <2>4, <4>1, SMTT(60) DEF TypeOK, SessionTypeOK
        <4>3. batch' = batch
          BY <4>1, <4>2 DEF vars, Next, SessionStep, HandlerStep, Connect, DialFails, LoadNothing,
             MarkSending, MarkFails, BuildFails, WriteUpload, WriteFails, ConsumeAck, AckTimeout,
             EndSession, CacheReading, NoticeDeadLink,
             HeartbeatFails, DeliverAck, StopClient, DropLink, ReceiveUpload, RefuseFrame, AddKey,
             SaveReadings, SaveFails, SendAck, PushReadings, HandlerExit, RebootServer
        <4> QED BY <4>1, <4>2, <4>3
      <3>2. CASE \E q \in Reading : CacheReading(q)
        BY <1>0, <2>1, <3>2 DEF CacheReading, SendingIsOwned, TypeOK
      <3>3. CASE MarkSending
        BY <1>0, <2>1, <3>3 DEF MarkSending, SendingIsOwned
      <3>4. CASE BuildFails /\ ~UNCHANGED status
        <4>1. status' = [q \in Reading |-> IF q \in NextBatch THEN "Failed" ELSE status[q]]
          BY <3>4 DEF BuildFails, UpdateStatus
        <4>2. status[r] = "Sending" /\ pc = "idle"
          BY <3>4, <4>1 DEF BuildFails
        <4> QED BY <1>0, <2>1, <4>2 DEF SendingIsOwned
      <3>5. \/ UNCHANGED status \/ (\E q \in Reading : CacheReading(q)) \/ MarkSending
            \/ BuildFails
        BY <2>4 DEF vars, Next, SessionStep, HandlerStep, Connect, DialFails, LoadNothing,
             MarkFails, WriteUpload, WriteFails, ConsumeAck, AckTimeout,
             EndSession, NoticeDeadLink,
             HeartbeatFails, DeliverAck, StopClient, DropLink, ReceiveUpload, RefuseFrame, AddKey,
             SaveReadings, SaveFails, SendAck, PushReadings, HandlerExit, RebootServer
      <3> QED BY <3>1, <3>2, <3>3, <3>4, <3>5
    <2> QED BY <2>3, <2>4
  <1> QED BY <1>1, <1>3, <1>4 DEF OwnershipInv

\* Unless the client is stopped or an update of the SQLite cache fails, no
\* reading is left in the status "Sending", which is never loaded again.
THEOREM SendingHasOwner == Spec => []SendingIsOwned
  <1>1. TunnelAssumption /\ Init => OwnershipInv
    <2> SUFFICES ASSUME TunnelAssumption, Init PROVE OwnershipInv
      OBVIOUS
    <2>1. TypeOK
      BY TypeInit
    <2> QED BY <2>1 DEF OwnershipInv, HandIsSending, BudgetFalls, SendingIsOwned, Init,
                        TunnelAssumption
  <1>2. TunnelAssumption /\ OwnershipInv /\ [Next]_vars => OwnershipInv'
    BY OwnershipStep, TypeStep DEF OwnershipInv
  <1>3. OwnershipInv => SendingIsOwned
    BY DEF OwnershipInv
  <1> QED BY <1>1, <1>2, <1>3, TunnelAssumption, PTL DEF Spec

-------------------------------------------------------------------------------
(* Publication follows storage                                             *)

\* Handlers that have saved reading r and not published it yet.
Owing(r) ==
    {c \in Conn : /\ handler[c].pc \in {"acking", "push"}
                  /\ handler[c].outcome = "saved"
                  /\ r \in handler[c].req.batch}

\* Only what was saved is on its way to the outputs.
PushIsSaved == \A c \in Conn : handler[c].pc = "push" => handler[c].outcome = "saved"

\* Each stored row is published at most once: publications made, and those the
\* handlers still owe, never outnumber the rows.
PublicationInv ==
    /\ PushIsSaved
    /\ \A r \in Reading : pushed[r] + Cardinality(Owing(r)) <= stored[r]

\* Owing handlers are finitely many, and their number follows the changes a
\* step can make to them.
LEMMA OwingFacts ==
    ASSUME TunnelAssumption, NEW r \in Reading
    PROVE  /\ IsFiniteSet(Owing(r)) /\ Cardinality(Owing(r)) \in Nat
           /\ \A T : T \subseteq Owing(r) =>
                  Cardinality(T) \in Nat /\ Cardinality(T) <= Cardinality(Owing(r))
           /\ \A c : c \notin Owing(r) =>
                  Cardinality(Owing(r) \cup {c}) = Cardinality(Owing(r)) + 1
           /\ \A c : c \in Owing(r) =>
                  Cardinality(Owing(r) \ {c}) = Cardinality(Owing(r)) - 1
  <1>1. MaxSessions \in Nat
    BY DEF TunnelAssumption
  <1>2. IsFiniteSet(Conn) /\ Owing(r) \subseteq Conn
    BY <1>1, FS_Interval DEF Conn, Owing
  <1>3. IsFiniteSet(Owing(r))
    BY <1>2, FS_Subset
  <1> QED BY <1>3, FS_Subset, FS_CardinalityType, FS_AddElement, FS_RemoveElement

\* What the steps of a handler make of it.
LEMMA HandlerMoves ==
    ASSUME TypeOK, NEW c \in Conn, HandlerStep(c)
    PROVE  /\ \A d \in Conn : d # c => handler'[d] = handler[d]
           /\ ReceiveUpload(c) =>
                /\ handler[c].pc = "ready" /\ handler'[c].req = Head(wire[c])
                /\ \/ /\ handler'[c].pc = "acking" /\ handler'[c].outcome = "duplicate"
                      /\ Head(wire[c]).batch \in CachedKeys(dedup)
                   \/ handler'[c].pc = "checked" /\ handler'[c].outcome = "none"
           /\ AddKey(c) => handler[c].pc = "checked" /\ handler'[c].pc = "added"
           /\ SaveReadings(c) => /\ handler[c].pc = "added" /\ handler'[c].pc = "acking"
                                 /\ handler'[c].outcome = "saved"
           /\ SaveFails(c) => /\ handler[c].pc = "added" /\ handler'[c].pc = "acking"
                              /\ handler'[c].outcome = "failed"
           /\ SendAck(c) => /\ handler[c].pc = "acking"
                            /\ \/ /\ handler'[c].pc = "push"
                                  /\ handler[c].outcome = "saved" /\ handler'[c].outcome = "saved"
                                  /\ handler'[c].req = handler[c].req
                               \/ handler[c].outcome # "saved" /\ handler'[c] = ReadyHandler
           /\ PushReadings(c) => handler[c].pc = "push" /\ handler'[c] = ReadyHandler
           /\ HandlerExit(c) => handler[c].pc = "ready" /\ handler'[c] = OffHandler
           /\ RefuseFrame(c) => handler[c].pc = "ready" /\ handler'[c] = OffHandler
           /\ AddKey(c) \/ SaveReadings(c) \/ SaveFails(c) => handler'[c].req = handler[c].req
  <1>0. /\ handler \in [Conn -> Handler]
        /\ handler[c] = [pc |-> handler[c].pc, req |-> handler[c].req,
                         outcome |-> handler[c].outcome]
    BY DEF TypeOK, ServerTypeOK, Handler
  <1>1. CASE ReceiveUpload(c)
    <2> DEFINE new == IF Head(wire[c]).batch \in CachedKeys(dedup)
             THEN [pc |-> "acking",  req |-> Head(wire[c]), outcome |-> "duplicate"]
             ELSE [pc |-> "checked", req |-> Head(wire[c]), outcome |-> "none"]
    <2>1. handler[c].pc = "ready" /\ handler' = [handler EXCEPT ![c] = new]
      BY <1>1 DEF ReceiveUpload
    <2>2. /\ new.req = Head(wire[c])
          /\ \/ /\ new.pc = "acking" /\ new.outcome = "duplicate"
                /\ Head(wire[c]).batch \in CachedKeys(dedup)
             \/ new.pc = "checked" /\ new.outcome = "none"
      OBVIOUS
    <2> HIDE DEF new
    <2>3. handler'[c] = new /\ \A d \in Conn : d # c => handler'[d] = handler[d]
      BY <1>0, <2>1
    <2>4. ~RefuseFrame(c) /\ ~HandlerExit(c)
      BY <1>1 DEF ReceiveUpload, RefuseFrame, HandlerExit
    <2> QED BY <2>1, <2>2, <2>3, <2>4 DEF AddKey, SaveReadings, SaveFails, SendAck, PushReadings
  <1>2. CASE AddKey(c) \/ SaveReadings(c) \/ SaveFails(c)
    BY <1>0, <1>2 DEF ReceiveUpload, RefuseFrame, AddKey, SaveReadings, SaveFails, SendAck, PushReadings, HandlerExit
  <1>3. CASE SendAck(c)
    BY <1>0, <1>3 DEF ReceiveUpload, RefuseFrame, AddKey, SaveReadings, SaveFails, SendAck, PushReadings,
                      HandlerExit, Published
  <1>4. CASE PushReadings(c) \/ HandlerExit(c)
    <2>1. \A d \in Conn : d # c => handler'[d] = handler[d]
      BY <1>0, <1>4 DEF PushReadings, HandlerExit
    <2>2. CASE PushReadings(c)
      BY <1>0, <2>1, <2>2 DEF ReceiveUpload, RefuseFrame, AddKey, SaveReadings, SaveFails, SendAck, PushReadings, HandlerExit
    <2>3. CASE HandlerExit(c)
      <3>1. handler[c].pc = "ready" /\ handler'[c] = OffHandler
        BY <1>0, <2>3 DEF HandlerExit
      <3>2. ~ReceiveUpload(c)
        BY <2>3 DEF ReceiveUpload, HandlerExit
      <3> QED BY <2>1, <3>1, <3>2 DEF AddKey, SaveReadings, SaveFails, SendAck, PushReadings
    <2> QED BY <1>4, <2>2, <2>3
  <1>5. CASE RefuseFrame(c)
    <2>1. /\ handler[c].pc = "ready" /\ handler'[c] = OffHandler
          /\ \A d \in Conn : d # c => handler'[d] = handler[d]
      BY <1>0, <1>5 DEF RefuseFrame
    <2>2. ~ReceiveUpload(c)
      BY <1>5 DEF ReceiveUpload, RefuseFrame
    <2> QED BY <2>1, <2>2 DEF AddKey, SaveReadings, SaveFails, SendAck, PushReadings
  <1> QED BY <1>1, <1>2, <1>3, <1>4, <1>5 DEF HandlerStep

\* A handler comes to owe a reading when it has stored it, and owes it no more
\* when it has published it; any other step leaves the debts as they are, or
\* ends them when the server dies.
LEMMA OwingMoves ==
    ASSUME TypeOK, PushIsSaved, Next, NEW r \in Reading
    PROVE  \/ /\ Owing(r)' \subseteq Owing(r)
              /\ pushed'[r] = pushed[r]
              /\ stored'[r] >= stored[r]
           \/ \E c \in Conn : /\ c \notin Owing(r) /\ Owing(r)' = Owing(r) \cup {c}
                              /\ pushed'[r] = pushed[r]
                              /\ stored'[r] = stored[r] + 1
           \/ \E c \in Conn : /\ c \in Owing(r) /\ Owing(r)' = Owing(r) \ {c}
                              /\ pushed'[r] = pushed[r] + 1
                              /\ stored'[r] = stored[r]
  <1> USE DEF sessionVars, netVars, serverVars
  <1> DEFINE Keep == /\ Owing(r)' \subseteq Owing(r)
                     /\ pushed'[r] = pushed[r]
                     /\ stored'[r] >= stored[r]
  <1>0. /\ handler \in [Conn -> Handler]
        /\ stored \in [Reading -> Nat] /\ pushed \in [Reading -> Nat]
        /\ \A c \in Conn : handler[c] = [pc |-> handler[c].pc, req |-> handler[c].req,
                                         outcome |-> handler[c].outcome]
    BY DEF TypeOK, ServerTypeOK, Handler
  <1>1. CASE UNCHANGED <<handler, stored, pushed>>
    BY <1>0, <1>1 DEF Owing
  <1>2. CASE Connect
    <2>1. /\ UNCHANGED <<stored, pushed>>
          /\ \A c \in Conn : handler'[c] = handler[c] \/ handler'[c].pc = "ready"
      BY <1>0, <1>2 DEF Connect, ReadyHandler
    <2> QED BY <1>0, <2>1 DEF Owing
  <1>3. CASE RebootServer
    <2>1. Owing(r)' = {}
      BY <1>3 DEF RebootServer, Owing, OffHandler
    <2> QED BY <1>0, <1>3, <2>1 DEF RebootServer
  <1>4. ASSUME NEW c \in Conn,
               \/ ReceiveUpload(c) \/ RefuseFrame(c) \/ AddKey(c)
               \/ SaveFails(c) \/ SendAck(c) \/ HandlerExit(c)
        PROVE  Keep
    <2>1. \A d \in Conn : d # c => handler'[d] = handler[d]
      BY <1>4, HandlerMoves DEF HandlerStep
    <2>2. \/ handler'[c].pc \notin {"acking", "push"}
          \/ handler'[c].outcome # "saved"
          \/ /\ handler[c].pc \in {"acking", "push"} /\ handler[c].outcome = "saved"
             /\ handler'[c].req = handler[c].req
      BY <1>4, HandlerMoves DEF HandlerStep, ReadyHandler, OffHandler
    <2>3. pushed' = pushed /\ (stored' = stored \/ stored' = InsertRows(handler[c].req.batch))
      BY <1>4 DEF ReceiveUpload, RefuseFrame, AddKey, SaveFails, SendAck, HandlerExit
    <2>4. pushed'[r] = pushed[r] /\ stored'[r] >= stored[r]
      BY <1>0, <2>3 DEF InsertRows
    <2> QED BY <2>1, <2>2, <2>4 DEF Owing
  <1>5. ASSUME NEW c \in Conn, SaveReadings(c)
        PROVE  \/ Keep
               \/ /\ c \notin Owing(r) /\ Owing(r)' = Owing(r) \cup {c}
                  /\ pushed'[r] = pushed[r] /\ stored'[r] = stored[r] + 1
    <2>1. /\ \A d \in Conn : d # c => handler'[d] = handler[d]
          /\ handler[c].pc = "added" /\ handler'[c].pc = "acking"
          /\ handler'[c].outcome = "saved" /\ handler'[c].req = handler[c].req
          /\ pushed' = pushed
      BY <1>0, <1>5 DEF SaveReadings
    <2>2. CASE r \in handler[c].req.batch
      <3>1. stored'[r] = stored[r] + 1
        BY <1>5, <2>2 DEF SaveReadings, InsertRows
      <3> QED BY <2>1, <2>2, <3>1 DEF Owing
    <2>3. CASE r \notin handler[c].req.batch
      <3>1. stored'[r] = stored[r]
        BY <1>5, <2>3 DEF SaveReadings, InsertRows
      <3> QED BY <1>0, <2>1, <2>3, <3>1 DEF Owing
    <2> QED BY <2>2, <2>3
  <1>6. ASSUME NEW c \in Conn, PushReadings(c)
        PROVE  \/ Keep
               \/ /\ c \in Owing(r) /\ Owing(r)' = Owing(r) \ {c}
                  /\ pushed'[r] = pushed[r] + 1 /\ stored'[r] = stored[r]
    <2>1. /\ \A d \in Conn : d # c => handler'[d] = handler[d]
          /\ handler[c].pc = "push" /\ handler[c].outcome = "saved"
          /\ handler'[c].pc = "ready" /\ stored' = stored
      BY <1>0, <1>6 DEF PushReadings, ReadyHandler, PushIsSaved
    <2>2. CASE r \in handler[c].req.batch
      <3>1. pushed'[r] = pushed[r] + 1
        BY <1>6, <2>2 DEF PushReadings
      <3> QED BY <2>1, <2>2, <3>1 DEF Owing
    <2>3. CASE r \notin handler[c].req.batch
      <3>1. pushed'[r] = pushed[r]
        BY <1>6, <2>3 DEF PushReadings
      <3> QED BY <1>0, <2>1, <2>3, <3>1 DEF Owing
    <2> QED BY <2>2, <2>3
  <1>7. \/ UNCHANGED <<handler, stored, pushed>> \/ Connect \/ RebootServer
        \/ \E c \in Conn : HandlerStep(c)
    BY DEF Next, SessionStep, DialFails, LoadNothing, MarkSending, MarkFails, BuildFails, WriteUpload,
           WriteFails, ConsumeAck, AckTimeout, NoticeDeadLink, HeartbeatFails, CacheReading,
           DeliverAck, StopClient, DropLink, vars
  <1> QED BY <1>1, <1>2, <1>3, <1>4, <1>5, <1>6, <1>7 DEF HandlerStep

\* Only a handler that saved its readings goes on to publish them.
LEMMA PushIsSavedStep ==
    ASSUME TypeOK, PushIsSaved, [Next]_vars
    PROVE  PushIsSaved'
  <1> USE DEF sessionVars, netVars, serverVars
  <1>0. handler \in [Conn -> Handler]
    BY DEF TypeOK, ServerTypeOK
  <1>1. CASE UNCHANGED handler
    BY <1>1 DEF PushIsSaved
  <1>2. CASE Connect
    BY <1>0, <1>2 DEF Connect, ReadyHandler, PushIsSaved
  <1>3. CASE RebootServer
    BY <1>3 DEF RebootServer, OffHandler, PushIsSaved
  <1>4. ASSUME NEW c \in Conn, HandlerStep(c)
        PROVE  PushIsSaved'
    <2>1. \A d \in Conn : d # c => handler'[d] = handler[d]
      BY <1>4, HandlerMoves
    <2>2. handler'[c].pc = "push" => handler'[c].outcome = "saved"
      BY <1>4, HandlerMoves DEF HandlerStep, ReadyHandler, OffHandler
    <2> QED BY <2>1, <2>2 DEF PushIsSaved
  <1>5. \/ UNCHANGED handler \/ Connect \/ RebootServer
        \/ \E c \in Conn : HandlerStep(c)
    BY DEF Next, SessionStep, DialFails, LoadNothing, MarkSending, MarkFails, BuildFails, WriteUpload,
           WriteFails, ConsumeAck, AckTimeout, NoticeDeadLink, HeartbeatFails, CacheReading,
           DeliverAck, StopClient, DropLink, vars
  <1> QED BY <1>1, <1>2, <1>3, <1>4, <1>5

\* Storing pays in advance for one publication, a publication uses one row up.
LEMMA PublicationStep ==
    ASSUME TunnelAssumption, TypeOK, PublicationInv, [Next]_vars
    PROVE  PublicationInv'
  <1>1. PushIsSaved'
    BY PushIsSavedStep DEF PublicationInv
  <1>2. ASSUME NEW r \in Reading
        PROVE  pushed'[r] + Cardinality(Owing(r)') <= stored'[r]
    <2>1. /\ stored[r] \in Nat /\ pushed[r] \in Nat /\ Cardinality(Owing(r)) \in Nat
          /\ pushed[r] + Cardinality(Owing(r)) <= stored[r]
      BY OwingFacts DEF TypeOK, ServerTypeOK, PublicationInv
    <2>2. CASE UNCHANGED vars
      BY <2>1, <2>2 DEF vars, serverVars, Owing
    <2>3. CASE Next
      <3>1. \/ /\ Owing(r)' \subseteq Owing(r)
               /\ pushed'[r] = pushed[r]
               /\ stored'[r] >= stored[r]
            \/ \E c \in Conn : /\ c \notin Owing(r) /\ Owing(r)' = Owing(r) \cup {c}
                               /\ pushed'[r] = pushed[r]
                               /\ stored'[r] = stored[r] + 1
            \/ \E c \in Conn : /\ c \in Owing(r) /\ Owing(r)' = Owing(r) \ {c}
                               /\ pushed'[r] = pushed[r] + 1
                               /\ stored'[r] = stored[r]
        BY <2>3, OwingMoves DEF PublicationInv
      <3>2. /\ Owing(r)' \subseteq Owing(r) =>
                  /\ Cardinality(Owing(r)') \in Nat
                  /\ Cardinality(Owing(r)') <= Cardinality(Owing(r))
            /\ \A c : c \notin Owing(r) /\ Owing(r)' = Owing(r) \cup {c} =>
                  Cardinality(Owing(r)') = Cardinality(Owing(r)) + 1
            /\ \A c : c \in Owing(r) /\ Owing(r)' = Owing(r) \ {c} =>
                  Cardinality(Owing(r)') = Cardinality(Owing(r)) - 1
        BY OwingFacts
      <3>3. stored'[r] \in Nat
        BY TypeStep DEF TypeOK, ServerTypeOK
      <3> QED BY <2>1, <3>1, <3>2, <3>3
    <2> QED BY <2>2, <2>3
  <1> QED BY <1>1, <1>2 DEF PublicationInv

\* Nothing reaches the outputs that is not in the database, and no stored row is
\* published twice, whichever handlers save, fail, die or retry in between.
THEOREM PublishedIsStored == Spec => []PushedOnlyStored
  <1> DEFINE Inv == TypeOK /\ PublicationInv
  <1>1. TunnelAssumption /\ Init => Inv
    <2> SUFFICES ASSUME TunnelAssumption, Init PROVE Inv
      OBVIOUS
    <2>1. TypeOK /\ \A r \in Reading : Owing(r) = {} /\ pushed[r] = 0 /\ stored[r] = 0
      BY TypeInit DEF Init, Owing, OffHandler
    <2>2. PushIsSaved
      BY DEF Init, OffHandler, PushIsSaved
    <2>3. ASSUME NEW r \in Reading
          PROVE  pushed[r] + Cardinality(Owing(r)) <= stored[r]
      <3>1. Owing(r) = {} /\ pushed[r] = 0 /\ stored[r] = 0
        BY <2>1
      <3>2. Cardinality(Owing(r)) = 0
        BY <3>1, FS_EmptySet
      <3> QED BY <3>1, <3>2
    <2> QED BY <2>1, <2>2, <2>3 DEF PublicationInv
  <1>2. TunnelAssumption /\ Inv /\ [Next]_vars => Inv'
    BY TypeStep, PublicationStep
  <1>3. TunnelAssumption /\ Inv => PushedOnlyStored
    <2> SUFFICES ASSUME TunnelAssumption, Inv, NEW r \in Reading
                 PROVE  pushed[r] <= stored[r]
      BY DEF PushedOnlyStored
    <2>1. /\ stored[r] \in Nat /\ pushed[r] \in Nat /\ Cardinality(Owing(r)) \in Nat
          /\ pushed[r] + Cardinality(Owing(r)) <= stored[r]
      BY OwingFacts DEF TypeOK, ServerTypeOK, PublicationInv
    <2> QED BY <2>1
  <1> QED BY <1>1, <1>2, <1>3, TunnelAssumption, PTL DEF Spec
-------------------------------------------------------------------------------
(* The server sees no reading that is not in the cache                      *)

\* What a channel or a connection holds.
Elements(s) == {s[i] : i \in DOMAIN s}

Cached == {r \in Reading : status[r] # "None"}

\* Whatever is in hand, travels, is handled or is stored was cached first.
KnownReadings ==
    /\ batch \subseteq Cached
    /\ \A c \in Conn : \A u \in Elements(wire[c]) : u.batch \subseteq Cached
    /\ \A c \in Conn : handler[c].req.batch \subseteq Cached
    /\ \A r \in Reading : stored[r] > 0 => r \in Cached

\* How the contents of a channel follow from what it held.
LEMMA ElementsFacts ==
    ASSUME NEW S, NEW s \in Seq(S)
    PROVE  /\ Elements(s) \subseteq S
           /\ \A kept \in Prefixes(s) : Elements(kept) \subseteq Elements(s)
           /\ s # <<>> => /\ Elements(Tail(s)) \subseteq Elements(s)
                          /\ Head(s) \in Elements(s)
           /\ \A e \in S : Elements(Append(s, e)) = Elements(s) \cup {e}
           /\ Elements(<<>>) = {}
  <1>1. Elements(s) \subseteq S /\ Elements(<<>>) = {}
    BY DEF Elements
  <1>2. ASSUME NEW kept \in Prefixes(s)
        PROVE  Elements(kept) \subseteq Elements(s)
    BY PrefixFacts DEF Elements
  <1>3. ASSUME s # <<>>
        PROVE  Elements(Tail(s)) \subseteq Elements(s) /\ Head(s) \in Elements(s)
    BY <1>3, QueueFacts DEF Elements
  <1>4. ASSUME NEW e \in S
        PROVE  Elements(Append(s, e)) = Elements(s) \cup {e}
    <2>1. /\ DOMAIN Append(s, e) = 1..(Len(s) + 1) /\ DOMAIN s = 1..Len(s)
          /\ Append(s, e)[Len(s) + 1] = e
          /\ \A i \in 1..Len(s) : Append(s, e)[i] = s[i]
          /\ Len(s) \in Nat
      OBVIOUS
    <2>2. \A i \in 1..(Len(s) + 1) : i \in 1..Len(s) \/ i = Len(s) + 1
      BY <2>1
    <2> QED BY <2>1, <2>2 DEF Elements
  <1> QED BY <1>1, <1>2, <1>3, <1>4

\* Only the session goroutine puts an upload on a connection: the batch in hand.
LEMMA WireMoves ==
    ASSUME TypeOK, Next, NEW c \in Conn, NEW u \in Elements(wire'[c])
    PROVE  u \in Elements(wire[c]) \/ u.batch = batch
  <1> USE DEF sessionVars, netVars, serverVars
  <1>0. /\ wire \in [Conn -> Seq(Upload)]
        /\ \A d \in Conn : wire[d] \in Seq(Upload)
    BY DEF TypeOK, NetTypeOK
  <1>1. CASE UNCHANGED wire
    BY <1>1
  <1>2. CASE \E kept \in Prefixes(wire[sess]) : wire' = [wire EXCEPT ![sess] = kept]
    BY <1>0, <1>2, ElementsFacts
  <1>3. CASE WriteUpload
    <2> DEFINE up == [id |-> msgID + 1, batch |-> batch]
    <2>1. up \in Upload /\ up.batch = batch /\ sess \in Conn
      BY <1>3 DEF WriteUpload, TypeOK, SessionTypeOK, Upload
    <2>2. wire' = wire \/ wire' = [wire EXCEPT ![sess] = Append(@, up)]
      BY <1>3 DEF WriteUpload
    <2> HIDE DEF up
    <2>3. Elements(Append(wire[sess], up)) = Elements(wire[sess]) \cup {up}
      BY <1>0, <2>1, ElementsFacts
    <2>4. wire'[c] = wire[c] \/ (c = sess /\ wire'[c] = Append(wire[sess], up))
      BY <1>0, <2>1, <2>2
    <2> QED BY <2>1, <2>3, <2>4
  <1>4. ASSUME NEW d \in Conn, ReceiveUpload(d)
        PROVE  u \in Elements(wire[c])
    BY <1>0, <1>4, ElementsFacts DEF ReceiveUpload
  <1>5. ASSUME NEW d \in Conn, RefuseFrame(d)
        PROVE  u \in Elements(wire[c])
    BY <1>0, <1>5, ElementsFacts DEF RefuseFrame
  <1>6. CASE RebootServer
    BY <1>6, ElementsFacts DEF RebootServer, Elements
  <1>7. \/ UNCHANGED wire \/ WriteUpload \/ RebootServer
        \/ \E kept \in Prefixes(wire[sess]) : wire' = [wire EXCEPT ![sess] = kept]
        \/ \E d \in Conn : ReceiveUpload(d) \/ RefuseFrame(d)
    BY DEF Next, SessionStep, HandlerStep, Connect, DialFails, LoadNothing, MarkSending, MarkFails, BuildFails,
           WriteFails, ConsumeAck, AckTimeout, NoticeDeadLink, HeartbeatFails, CacheReading,
           EndSession, DeliverAck, StopClient, DropLink, AddKey, SaveReadings, SaveFails, SendAck,
           PushReadings, HandlerExit, vars
  <1> QED BY <1>1, <1>2, <1>3, <1>4, <1>5, <1>6, <1>7

\* A handler works on nothing or on an upload that came over its connection.
LEMMA RequestMoves ==
    ASSUME TypeOK, Next, NEW c \in Conn
    PROVE  \/ handler'[c].req = handler[c].req
           \/ handler'[c].req = NoUpload
           \/ handler'[c].req \in Elements(wire[c])
  <1> USE DEF sessionVars, netVars, serverVars
  <1>0. handler \in [Conn -> Handler] /\ wire[c] \in Seq(Upload)
    BY DEF TypeOK, NetTypeOK, ServerTypeOK
  <1>1. CASE UNCHANGED handler
    BY <1>1
  <1>2. CASE Connect
    BY <1>0, <1>2 DEF Connect, ReadyHandler
  <1>3. CASE RebootServer
    BY <1>3 DEF RebootServer, OffHandler
  <1>4. ASSUME NEW d \in Conn, HandlerStep(d)
        PROVE  \/ handler'[c].req = handler[c].req
               \/ handler'[c].req = NoUpload
               \/ handler'[c].req \in Elements(wire[c])
    <2>1. CASE d # c
      BY <1>4, <2>1, HandlerMoves
    <2>2. CASE d = c /\ ReceiveUpload(d)
      BY <1>0, <1>4, <2>2, HandlerMoves, ElementsFacts DEF ReceiveUpload
    <2>3. CASE d = c /\ ~ReceiveUpload(d)
      BY <1>4, <2>3, HandlerMoves DEF HandlerStep, ReadyHandler, OffHandler
    <2> QED BY <2>1, <2>2, <2>3
  <1>5. \/ UNCHANGED handler \/ Connect \/ RebootServer
        \/ \E d \in Conn : HandlerStep(d)
    BY SMTT(60) DEF Next, SessionStep, DialFails, LoadNothing, MarkSending, MarkFails, BuildFails, WriteUpload,
           WriteFails, ConsumeAck, AckTimeout, NoticeDeadLink, HeartbeatFails, CacheReading,
           DeliverAck, StopClient, DropLink, vars
  <1> QED BY <1>1, <1>2, <1>3, <1>4, <1>5

\* Rows are stored for the readings a handler has added to the cache, no others.
LEMMA StoredMoves ==
    ASSUME TypeOK, Next
    PROVE  \/ UNCHANGED stored
           \/ \E c \in Conn : /\ SaveReadings(c) \/ SaveFails(c)
                              /\ handler[c].pc = "added"
                              /\ stored' = InsertRows(handler[c].req.batch)
  <1> USE DEF sessionVars, netVars, serverVars
  <1> QED BY ZenonT(60) DEF Next, SessionStep, HandlerStep, Connect, DialFails, LoadNothing, MarkSending,
           MarkFails, BuildFails, WriteUpload, WriteFails, ConsumeAck, AckTimeout, NoticeDeadLink,
           HeartbeatFails, CacheReading, EndSession, DeliverAck, StopClient, DropLink,
           ReceiveUpload, RefuseFrame, AddKey, SaveReadings, SaveFails, SendAck, PushReadings, HandlerExit,
           RebootServer, vars

\* The cache only grows, and the batch in hand comes from it.
LEMMA CachedGrows ==
    ASSUME TypeOK, Next, batch \subseteq Cached
    PROVE  Cached \subseteq Cached' /\ batch' \subseteq Cached'
  <1> USE DEF sessionVars, netVars, serverVars
  <1>1. Cached \subseteq Cached'
    BY StatusSteps DEF StatusMoves, Cached, TypeOK
  <1>2. UNCHANGED batch \/ batch' = {} \/ MarkSending
    BY DEF Next, SessionStep, HandlerStep, Connect, DialFails, LoadNothing, MarkFails, BuildFails, WriteUpload,
           WriteFails, ConsumeAck, AckTimeout, NoticeDeadLink, HeartbeatFails, CacheReading,
           EndSession, DeliverAck, StopClient, DropLink, ReceiveUpload, RefuseFrame, AddKey, SaveReadings,
           SaveFails, SendAck, PushReadings, HandlerExit, RebootServer, vars
  <1>3. CASE MarkSending
    <2>1. batch' \subseteq Cached
      BY <1>3 DEF MarkSending, NextBatch, Pending, Cached
    <2> QED BY <1>1, <2>1
  <1> QED BY <1>1, <1>2, <1>3

\* Readings travel from the cache to the server and nowhere else into it.
LEMMA KnownStep ==
    ASSUME TypeOK, KnownReadings, [Next]_vars
    PROVE  KnownReadings'
  <1>1. CASE UNCHANGED vars
    BY <1>1 DEF vars, sessionVars, netVars, serverVars, KnownReadings, Cached
  <1>2. CASE Next
    <2>1. Cached \subseteq Cached' /\ batch' \subseteq Cached'
      BY <1>2, CachedGrows DEF KnownReadings
    <2>2. \A c \in Conn : \A u \in Elements(wire'[c]) : u.batch \subseteq Cached'
      BY <1>2, <2>1, WireMoves DEF KnownReadings
    <2>3. \A c \in Conn : handler'[c].req.batch \subseteq Cached'
      BY <1>2, <2>1, RequestMoves DEF KnownReadings, NoUpload
    <2>4. \A r \in Reading : stored'[r] > 0 => r \in Cached'
      BY <1>2, <2>1, StoredMoves DEF KnownReadings, InsertRows
    <2> QED BY <2>1, <2>2, <2>3, <2>4 DEF KnownReadings
  <1> QED BY <1>1, <1>2
-------------------------------------------------------------------------------
(* What the server has taken charge of                                      *)

\* In a reliable environment the faults that break the promise never strike.
ReliableBudget ==
    Reliable => budget["slow"] = 0 /\ budget["save"] = 0 /\ budget["reboot"] = 0

\* A reading is in charge when it is stored or a handler is about to store it.
InChargeMeans ==
    \A r : r \in InCharge <=>
        /\ r \in Reading /\ stored[r] > 0
        \/ \E c \in Conn : handler[c].pc = "added" /\ r \in handler[c].req.batch

\* That is the set InCharge.
LEMMA InChargeIs == InChargeMeans
  BY DEF InChargeMeans, InCharge

\* The same after a step.
LEMMA InChargeIsNext == InChargeMeans'
  BY InChargeIs, PTL

\* As long as no save fails and the server stays up, charge is only ever taken:
\* by the step that puts an upload into the deduplication cache.
LEMMA ChargeMoves ==
    ASSUME TypeOK, FreshConns, Reliable, ReliableBudget, Next
    PROVE  \/ InCharge' = InCharge
           \/ \E c \in Conn : AddKey(c) /\ InCharge' = InCharge \cup handler[c].req.batch
  <1> USE DEF sessionVars, netVars, serverVars
  <1>0. /\ handler \in [Conn -> Handler] /\ stored \in [Reading -> Nat]
        /\ \A c \in Conn : handler[c].req.batch \subseteq Reading
    BY DEF TypeOK, ServerTypeOK, Handler, Upload
  <1>1. CASE UNCHANGED <<handler, stored>>
    BY <1>1 DEF InCharge
  <1>2. CASE Connect
    <2>0. stored' = stored /\ handler' = [handler EXCEPT ![sess + 1] = ReadyHandler]
      BY <1>2 DEF Connect
    <2>1. \A c \in Conn : \/ handler'[c] = handler[c]
                          \/ handler[c] = OffHandler /\ handler'[c] = ReadyHandler
      <3>1. \A c \in Conn : c = sess + 1 => c > sess
        BY DEF TypeOK, SessionTypeOK
      <3>2. \A c \in Conn : IF c = sess + 1 THEN handler'[c] = ReadyHandler
                                           ELSE handler'[c] = handler[c]
        BY <1>0, <2>0
      <3> QED BY <3>1, <3>2 DEF FreshConns
    <2>2. \A c \in Conn : \/ handler'[c] = handler[c]
                          \/ handler[c].pc # "added" /\ handler'[c].pc # "added"
      BY <2>1 DEF OffHandler, ReadyHandler
    <2>3. \A r : r \in InCharge' <=> r \in InCharge
      BY <2>0, <2>2, InChargeIs, InChargeIsNext DEF InChargeMeans
    <2> QED BY <2>3
  <1>3. ~RebootServer /\ \A c \in Conn : ~SaveFails(c)
    <2>1. ~CanSpend("save") /\ ~CanSpend("reboot")
      BY DEF CanSpend, ReliableBudget
    <2> QED BY <2>1 DEF RebootServer, SaveFails
  <1>4. ASSUME NEW c \in Conn, HandlerStep(c)
        PROVE  \/ InCharge' = InCharge
               \/ AddKey(c) /\ InCharge' = InCharge \cup handler[c].req.batch
    <2>1. \A d \in Conn : d # c => handler'[d] = handler[d]
      BY <1>4, HandlerMoves
    <2>2. CASE AddKey(c)
      <3>1. /\ handler[c].pc = "checked" /\ handler'[c].pc = "added"
            /\ handler'[c].req = handler[c].req /\ stored' = stored
        BY <1>4, <2>2, HandlerMoves DEF AddKey
      <3>2. \A r : r \in InCharge' <=> r \in InCharge \/ r \in handler[c].req.batch
        BY <2>1, <3>1, InChargeIs, InChargeIsNext DEF InChargeMeans
      <3> QED BY <2>2, <3>2
    <2>3. CASE SaveReadings(c)
      <3>1. handler[c].pc = "added" /\ handler'[c].pc = "acking"
        BY <1>4, <2>3, HandlerMoves
      <3>2. \A r \in Reading : stored'[r] > 0 <=> stored[r] > 0 \/ r \in handler[c].req.batch
        BY <1>0, <2>3 DEF SaveReadings, InsertRows
      <3>3. \A r : r \in InCharge' <=> r \in InCharge
        BY <1>0, <2>1, <3>1, <3>2, InChargeIs, InChargeIsNext DEF InChargeMeans
      <3> QED BY <3>3
    <2>4. CASE \/ ReceiveUpload(c) \/ RefuseFrame(c) \/ SendAck(c)
               \/ PushReadings(c) \/ HandlerExit(c)
      <3>1. /\ handler[c].pc # "added" /\ handler'[c].pc # "added"
            /\ stored' = stored
        BY <1>4, <2>4, HandlerMoves DEF ReceiveUpload, RefuseFrame, SendAck, PushReadings, HandlerExit,
                                        ReadyHandler, OffHandler
      <3>2. \A r : r \in InCharge' <=> r \in InCharge
        BY <2>1, <3>1, InChargeIs, InChargeIsNext DEF InChargeMeans
      <3> QED BY <3>2
    <2> QED BY <1>3, <1>4, <2>2, <2>3, <2>4 DEF HandlerStep
  <1>5. \/ UNCHANGED <<handler, stored>> \/ Connect \/ RebootServer
        \/ \E c \in Conn : HandlerStep(c)
    BY DEF Next, SessionStep, DialFails, LoadNothing, MarkSending, MarkFails, BuildFails, WriteUpload,
           WriteFails, ConsumeAck, AckTimeout, NoticeDeadLink, HeartbeatFails, CacheReading,
           DeliverAck, StopClient, DropLink, vars
  <1> QED BY <1>1, <1>2, <1>3, <1>4, <1>5

\* Every key in the deduplication cache, every positive answer and every reading
\* marked as uploaded stands for readings the server took charge of.
AnsweredFor ==
    /\ \A c \in Conn : handler[c].pc = "acking" /\ handler[c].outcome # "failed" =>
                          handler[c].req.batch \subseteq InCharge
    /\ \A key \in CachedKeys(dedup) : key \subseteq InCharge
    /\ \A a \in Elements(ackCh) : a.code = "Ok" => a.req.batch \subseteq InCharge
    /\ \A c \in Conn : \A a \in Elements(ackWire[c]) :
          a.code = "Ok" => a.req.batch \subseteq InCharge
    /\ \A r \in Reading : status[r] = "Sent" => r \in InCharge

\* Only a handler puts an answer on a connection: that to its own upload, and a
\* positive one unless saving failed.
LEMMA AckWireMoves ==
    ASSUME TypeOK, Next, NEW c \in Conn, NEW a \in Elements(ackWire'[c])
    PROVE  \/ a \in Elements(ackWire[c])
           \/ /\ handler[c].pc = "acking" /\ a.req = handler[c].req
              /\ a.code = "Ok" => handler[c].outcome # "failed"
  <1> USE DEF sessionVars, netVars, serverVars
  <1>0. /\ ackWire \in [Conn -> Seq(Ack)]
        /\ \A d \in Conn : ackWire[d] \in Seq(Ack)
        /\ \A d \in Conn : handler[d].req \in Upload
    BY DEF TypeOK, NetTypeOK, ServerTypeOK, Handler
  <1>1. CASE UNCHANGED ackWire
    BY <1>1
  <1>2. CASE ackWire' = [ackWire EXCEPT ![sess] = <<>>]
    BY <1>0, <1>2, ElementsFacts
  <1>3. CASE \E kept \in Prefixes(ackWire[sess]) : ackWire' = [ackWire EXCEPT ![sess] = kept]
    BY <1>0, <1>3, ElementsFacts
  <1>4. CASE DeliverAck
    <2>1. ackWire[sess] # <<>> /\ ackWire' = [ackWire EXCEPT ![sess] = Tail(ackWire[sess])]
      BY <1>4 DEF DeliverAck
    <2> QED BY <1>0, <2>1, ElementsFacts
  <1>5. ASSUME NEW d \in Conn, SendAck(d)
        PROVE  \/ a \in Elements(ackWire[c])
               \/ /\ handler[c].pc = "acking" /\ a.req = handler[c].req
                  /\ a.code = "Ok" => handler[c].outcome # "failed"
    <2> DEFINE ack == [req  |-> handler[d].req,
                       code |-> IF handler[d].outcome = "failed" THEN "Failed" ELSE "Ok"]
    <2>1. /\ ack \in Ack /\ ack.req = handler[d].req
          /\ ack.code = "Ok" => handler[d].outcome # "failed"
      BY <1>0 DEF Ack
    <2>2. /\ handler[d].pc = "acking"
          /\ ackWire' = ackWire \/ ackWire' = [ackWire EXCEPT ![d] = Append(@, ack)]
      BY <1>5 DEF SendAck
    <2> HIDE DEF ack
    <2>3. Elements(Append(ackWire[d], ack)) = Elements(ackWire[d]) \cup {ack}
      BY <1>0, <2>1, ElementsFacts
    <2>4. ackWire'[c] = ackWire[c] \/ (c = d /\ ackWire'[c] = Append(ackWire[d], ack))
      BY <1>0, <2>2, SMTT(60)
    <2> QED BY <2>1, <2>2, <2>3, <2>4
  <1>6. ASSUME NEW d \in Conn, RefuseFrame(d)
        PROVE  a \in Elements(ackWire[c])
    <2>1. PICK kept \in Prefixes(ackWire[d]) : ackWire' = [ackWire EXCEPT ![d] = kept]
      BY <1>6 DEF RefuseFrame
    <2> QED BY <1>0, <2>1, ElementsFacts
  <1>7. \/ UNCHANGED ackWire \/ DeliverAck
        \/ ackWire' = [ackWire EXCEPT ![sess] = <<>>]
        \/ \E kept \in Prefixes(ackWire[sess]) : ackWire' = [ackWire EXCEPT ![sess] = kept]
        \/ \E d \in Conn : SendAck(d) \/ RefuseFrame(d)
    BY DEF Next, SessionStep, HandlerStep, Connect, DialFails, LoadNothing, MarkSending, MarkFails, BuildFails,
           WriteUpload, WriteFails, ConsumeAck, AckTimeout, NoticeDeadLink, HeartbeatFails,
           CacheReading, EndSession, StopClient, DropLink, ReceiveUpload, AddKey, SaveReadings,
           SaveFails, PushReadings, HandlerExit, RebootServer, vars
  <1> QED BY <1>1, <1>2, <1>3, <1>4, <1>5, <1>6, <1>7

\* uploadAckCh is filled from the connection of the session and from nowhere else.
LEMMA AckChMoves ==
    ASSUME TypeOK, Next, NEW a \in Elements(ackCh')
    PROVE  a \in Elements(ackCh) \/ (\E c \in Conn : a \in Elements(ackWire[c]))
  <1> USE DEF sessionVars, netVars, serverVars
  <1>0. ackCh \in Seq(Ack) /\ \A d \in Conn : ackWire[d] \in Seq(Ack)
    BY DEF TypeOK, NetTypeOK, SessionTypeOK
  <1>1. CASE UNCHANGED ackCh \/ ackCh' = <<>>
    BY <1>0, <1>1, ElementsFacts
  <1>2. CASE ConsumeAck
    BY <1>0, <1>2, ElementsFacts DEF ConsumeAck
  <1>3. CASE DeliverAck
    <2>1. /\ sess \in Conn /\ ackWire[sess] # <<>>
          /\ ackCh' = Append(ackCh, Head(ackWire[sess]))
      BY <1>3 DEF DeliverAck, TypeOK, SessionTypeOK
    <2>2. Head(ackWire[sess]) \in Elements(ackWire[sess]) /\ Head(ackWire[sess]) \in Ack
      BY <1>0, <2>1, ElementsFacts
    <2>3. Elements(ackCh') = Elements(ackCh) \cup {Head(ackWire[sess])}
      BY <1>0, <2>1, <2>2, ElementsFacts, SMTT(60)
    <2> QED BY <2>1, <2>2, <2>3
  <1>4. UNCHANGED ackCh \/ ackCh' = <<>> \/ ConsumeAck \/ DeliverAck
    BY DEF Next, SessionStep, HandlerStep, Connect, DialFails, LoadNothing, MarkSending, MarkFails, BuildFails,
           WriteUpload, WriteFails, AckTimeout, NoticeDeadLink, HeartbeatFails, NextAckCh,
           CacheReading, EndSession, StopClient, DropLink, ReceiveUpload, RefuseFrame, AddKey, SaveReadings,
           SaveFails, SendAck, PushReadings, HandlerExit, RebootServer, vars
  <1> QED BY <1>1, <1>2, <1>3, <1>4

\* The deduplication cache learns the key of an upload from the handler that is
\* about to save it, and never another.
LEMMA KeyMoves ==
    ASSUME TunnelAssumption, TypeOK, Next, NEW key \in CachedKeys(dedup')
    PROVE  key \in CachedKeys(dedup) \/ (\E c \in Conn : AddKey(c) /\ key = handler[c].req.batch)
  <1> USE DEF sessionVars, netVars, serverVars
  <1>0. /\ dedup \in Seq(SUBSET Reading) /\ Len(dedup) <= DedupCacheSize
        /\ DedupCacheSize \in Nat \ {0}
        /\ \A c \in Conn : /\ wire[c] \in Seq(Upload)
                           /\ handler[c].req.batch \in SUBSET Reading
    BY DEF TypeOK, NetTypeOK, ServerTypeOK, Handler, Upload, TunnelAssumption
  <1> DEFINE Key == SUBSET Reading
  <1>1. CASE UNCHANGED dedup
    BY <1>1
  <1>2. CASE dedup' = <<>>
    BY <1>2 DEF CachedKeys
  <1>3. ASSUME NEW c \in Conn, ReceiveUpload(c)
        PROVE  key \in CachedKeys(dedup)
    <2>0. wire[c] # <<>> /\ dedup' = Exists(dedup, Head(wire[c]).batch)
      BY <1>3 DEF ReceiveUpload
    <2>1. Head(wire[c]) \in Upload
      BY <1>0, <2>0, QueueFacts
    <2>3. Head(wire[c]).batch \in Key
      BY <2>1 DEF Upload
    <2>2. dedup \in Seq(Key)
      BY <1>0
    <2> HIDE DEF Key
    <2> QED BY <2>0, <2>2, <2>3, ExistsKeepsKeys
  <1>4. ASSUME NEW c \in Conn, AddKey(c)
        PROVE  key \in CachedKeys(dedup) \/ key = handler[c].req.batch
    <2>1. /\ dedup' = Add(dedup, handler[c].req.batch, DedupCacheSize)
          /\ handler[c].req.batch \in Key
      BY <1>0, <1>4 DEF AddKey
    <2>2. dedup \in Seq(Key) /\ Len(dedup) <= DedupCacheSize /\ DedupCacheSize \in Nat \ {0}
      BY <1>0
    <2> HIDE DEF Key
    <2>3. CachedKeys(dedup') \subseteq CachedKeys(dedup) \cup {handler[c].req.batch}
      BY <2>1, <2>2, AddBounds, SMTT(60)
    <2> QED BY <2>3
  <1>5. \/ UNCHANGED dedup \/ dedup' = <<>>
        \/ \E c \in Conn : ReceiveUpload(c) \/ AddKey(c)
    BY DEF Next, SessionStep, HandlerStep, Connect, DialFails, LoadNothing, MarkSending, MarkFails, BuildFails,
           WriteUpload, WriteFails, ConsumeAck, AckTimeout, NoticeDeadLink, HeartbeatFails,
           CacheReading, EndSession, DeliverAck, StopClient, DropLink, RefuseFrame, SaveReadings,
           SaveFails, SendAck, PushReadings, HandlerExit, RebootServer, vars
  <1> QED BY <1>1, <1>2, <1>3, <1>4, <1>5
-------------------------------------------------------------------------------
(* The promise kept in a reliable environment                               *)

\* The invariant behind the contract.  Without the pairing of answers and uploads
\* it is not inductive: a positive answer to another batch would confirm readings
\* the server never saw.
ContractInv ==
    /\ PairingInv
    /\ HandIsSending
    /\ BudgetFalls
    /\ KnownReadings
    /\ Reliable => late = 0 /\ AnsweredFor

\* Faults that the environment does not have are never spent.
LEMMA BudgetIsReliable ==
    ASSUME TypeOK, BudgetFalls PROVE ReliableBudget
  <1> SUFFICES ASSUME Reliable, NEW k \in {"slow", "save", "reboot"}
               PROVE  budget[k] = 0
    BY DEF ReliableBudget
  <1>1. k \in FaultKinds /\ Budget[k] = 0
    BY DEF FaultKinds, Reliable
  <1>2. budget[k] \in Nat /\ budget[k] <= 0
    BY <1>1 DEF TypeOK, BudgetFalls
  <1> QED BY <1>2

\* What a step does to the sets of cached and of uploaded readings.
LEMMA ViewsMove ==
    ASSUME TypeOK, HandIsSending, Next
    PROVE  \/ \E r \in Reading : /\ CacheReading(r) /\ r \notin Cached
                                 /\ Cached' = Cached \cup {r}
                                 /\ \A q \in Reading : status'[q] = "Sent" <=> status[q] = "Sent"
           \/ /\ ConsumeAck /\ Head(ackCh).code = "Ok" /\ Cached' = Cached
              /\ \A q \in Reading : status'[q] = "Sent" <=> status[q] = "Sent" \/ q \in batch
           \/ /\ Cached' = Cached
              /\ \A q \in Reading : status'[q] = "Sent" <=> status[q] = "Sent"
  <1> USE DEF sessionVars, netVars, serverVars
  <1>0. status \in [Reading -> Status] /\ batch \subseteq Reading
    BY DEF TypeOK, SessionTypeOK
  <1>1. ASSUME NEW r \in Reading, CacheReading(r)
        PROVE  /\ r \notin Cached /\ Cached' = Cached \cup {r}
               /\ \A q \in Reading : status'[q] = "Sent" <=> status[q] = "Sent"
    BY <1>0, <1>1 DEF CacheReading, Cached
  <1>2. CASE UNCHANGED status
    BY <1>2 DEF Cached
  <1>3. ASSUME NEW S \in SUBSET Reading, NEW value \in {"NotSent", "Sending", "Failed"},
               \A q \in S : status[q] \notin {"None", "Sent"},
               status' = [r \in Reading |-> IF r \in S THEN value ELSE status[r]]
        PROVE  /\ Cached' = Cached
               /\ \A q \in Reading : status'[q] = "Sent" <=> status[q] = "Sent"
    BY <1>0, <1>3 DEF Cached
  <1>4. CASE MarkSending
    <2>1. /\ status' = [r \in Reading |-> IF r \in NextBatch THEN "Sending" ELSE status[r]]
          /\ NextBatch \in SUBSET Reading
          /\ \A q \in NextBatch : status[q] \notin {"None", "Sent"}
      BY <1>4 DEF MarkSending, NextBatch, Pending
    <2> QED BY <1>3, <2>1
  <1>5. ASSUME pc \in {"marked", "await"}, NEW value \in {"NotSent", "Failed"},
               NEW b, UpdateStatus(batch, value, b)
        PROVE  /\ Cached' = Cached
               /\ \A q \in Reading : status'[q] = "Sent" <=> status[q] = "Sent"
    <2>1. \A q \in batch : status[q] \notin {"None", "Sent"}
      BY <1>5 DEF HandIsSending
    <2>2. CASE UNCHANGED status
      BY <2>2 DEF Cached
    <2>3. CASE status' = [r \in Reading |-> IF r \in batch THEN value ELSE status[r]]
      BY <1>0, <1>3, <2>1, <2>3
    <2> QED BY <1>5, <2>2, <2>3 DEF UpdateStatus
  <1>6. CASE WriteFails
    BY <1>5, <1>6 DEF WriteFails
  <1>7. CASE AckTimeout
    BY <1>5, <1>7 DEF AckTimeout, AfterTimeout
  <1>8. CASE ConsumeAck
    <2>1. CASE Head(ackCh).code = "Ok"
      <3>1. \/ UNCHANGED status
            \/ status' = [r \in Reading |-> IF r \in batch THEN "Sent" ELSE status[r]]
        BY <1>8, <2>1 DEF ConsumeAck, UpdateStatus
      <3>2. \A q \in batch : status[q] = "Sending"
        BY <1>8 DEF ConsumeAck, HandIsSending
      <3>3. CASE UNCHANGED status
        BY <3>3 DEF Cached
      <3>4. CASE status' = [r \in Reading |-> IF r \in batch THEN "Sent" ELSE status[r]]
        <4>1. Cached' = Cached
          BY <1>0, <3>2, <3>4 DEF Cached
        <4>2. \A q \in Reading : status'[q] = "Sent" <=> status[q] = "Sent" \/ q \in batch
          BY <1>0, <3>4
        <4> QED BY <1>8, <2>1, <4>1, <4>2
      <3> QED BY <3>1, <3>3, <3>4
    <2>2. CASE Head(ackCh).code # "Ok"
      BY <1>5, <1>8, <2>2, SMTT(60) DEF ConsumeAck
    <2> QED BY <2>1, <2>2
  <1>9. CASE BuildFails
    <2>1. NextBatch \in SUBSET Reading /\ \A q \in NextBatch : status[q] \notin {"None", "Sent"}
      BY DEF NextBatch, Pending
    <2>2. \/ UNCHANGED status
          \/ status' = [r \in Reading |-> IF r \in NextBatch THEN "Failed" ELSE status[r]]
      BY <1>9 DEF BuildFails, UpdateStatus
    <2> QED BY <1>2, <1>3, <2>1, <2>2
  <1>10. \/ \E r \in Reading : CacheReading(r)
         \/ MarkSending \/ WriteFails \/ ConsumeAck \/ AckTimeout \/ BuildFails
         \/ UNCHANGED status
    BY DEF Next, SessionStep, HandlerStep, Connect, DialFails, LoadNothing, MarkFails, WriteUpload,
           NoticeDeadLink, HeartbeatFails, DeliverAck, StopClient, DropLink, ReceiveUpload, RefuseFrame,
           AddKey, SaveReadings, SaveFails, SendAck, PushReadings, HandlerExit, RebootServer,
           vars
  <1> QED BY <1>1, <1>2, <1>4, <1>6, <1>7, <1>8, <1>9, <1>10

\* The answer uploadReadings takes is one for readings in charge.
LEMMA ConfirmedIsInCharge ==
    ASSUME ContractInv, Reliable, ConsumeAck, Head(ackCh).code = "Ok"
    PROVE  batch \subseteq InCharge
  <1>1. /\ ackCh \in Seq(Ack) /\ ackCh # <<>> /\ pc # "down"
        /\ late = 0 /\ AnsweredFor /\ Paired
    BY DEF ContractInv, PairingInv, AccountingInv, TypeOK, SessionTypeOK, ConsumeAck
  <1>2. Head(ackCh).req = Current /\ Head(ackCh) \in Elements(ackCh)
    BY <1>1, QueueFacts, ElementsFacts DEF Paired
  <1>3. Head(ackCh).req.batch = batch
    BY <1>2 DEF Current
  <1> QED BY <1>1, <1>2, <1>3 DEF AnsweredFor

\* No step answers for readings that are not in charge.
LEMMA AnsweredStep ==
    ASSUME TunnelAssumption, ContractInv, Reliable, Next
    PROVE  late' = 0 /\ AnsweredFor'
  <1>0. /\ TypeOK /\ FreshConns /\ ReliableBudget /\ AnsweredFor /\ late = 0
        /\ HandIsSending
    BY BudgetIsReliable, SMTT(60) DEF ContractInv, PairingInv, AccountingInv
  <1>1. late' = 0
    <2>1. ~CanSpend("slow")
      BY <1>0 DEF ReliableBudget, CanSpend
    <2> QED BY <1>0, <2>1 DEF Next, SessionStep, HandlerStep, Connect, DialFails, LoadNothing,
           MarkSending, MarkFails, BuildFails, WriteUpload, WriteFails, ConsumeAck, AckTimeout, CacheReading,
           EndSession, NoticeDeadLink, HeartbeatFails, DeliverAck, StopClient, DropLink,
           ReceiveUpload, RefuseFrame, AddKey, SaveReadings, SaveFails, SendAck, PushReadings, HandlerExit,
           RebootServer, vars, sessionVars
  <1>2. InCharge \subseteq InCharge'
    BY <1>0, ChargeMoves
  <1>3. ASSUME NEW c \in Conn, handler'[c].pc = "acking", handler'[c].outcome # "failed"
        PROVE  handler'[c].req.batch \subseteq InCharge'
    <2>1. CASE handler'[c] = handler[c]
      BY <1>0, <1>2, <1>3, <2>1 DEF AnsweredFor
    <2>2. CASE ReceiveUpload(c)
      <3>1. handler'[c].req.batch \in CachedKeys(dedup)
        BY <1>0, <1>3, <2>2, HandlerMoves DEF HandlerStep
      <3> QED BY <1>0, <1>2, <3>1 DEF AnsweredFor
    <2>3. CASE SaveReadings(c)
      <3>1. handler[c].pc = "added" /\ handler'[c].req = handler[c].req
        BY <1>0, <2>3, HandlerMoves DEF HandlerStep
      <3>2. handler[c].req.batch \subseteq InCharge
        BY <3>1, InChargeIs DEF InChargeMeans
      <3> QED BY <1>2, <3>1, <3>2
    <2>4. handler'[c] = handler[c] \/ ReceiveUpload(c) \/ SaveReadings(c)
      <3>1. CASE HandlerStep(c)
        BY <1>0, <1>3, <3>1, HandlerMoves DEF HandlerStep, ReadyHandler, OffHandler
      <3>2. ASSUME NEW d \in Conn, d # c, HandlerStep(d)
            PROVE  handler'[c] = handler[c]
        BY <1>0, <3>2, HandlerMoves
      <3>3. CASE Connect
        BY <1>0, <1>3, <3>3 DEF Connect, ReadyHandler, TypeOK, ServerTypeOK
      <3>4. CASE RebootServer
        BY <1>3, <3>4 DEF RebootServer, OffHandler
      <3>5. \/ UNCHANGED handler \/ Connect \/ RebootServer \/ \E d \in Conn : HandlerStep(d)
        BY DEF Next, SessionStep, DialFails, LoadNothing, MarkSending, MarkFails, BuildFails, WriteUpload,
               WriteFails, ConsumeAck, AckTimeout, NoticeDeadLink, HeartbeatFails, CacheReading,
               DeliverAck, StopClient, DropLink, vars, serverVars
      <3> QED BY <3>1, <3>2, <3>3, <3>4, <3>5
    <2> QED BY <2>1, <2>2, <2>3, <2>4
  <1>4. ASSUME NEW key \in CachedKeys(dedup')
        PROVE  key \subseteq InCharge'
    <2>1. CASE key \in CachedKeys(dedup)
      BY <1>0, <1>2, <2>1 DEF AnsweredFor
    <2>2. ASSUME NEW c \in Conn, AddKey(c), key = handler[c].req.batch
          PROVE  key \subseteq InCharge'
      <3>1. handler'[c].pc = "added" /\ handler'[c].req = handler[c].req
        BY <1>0, <2>2, HandlerMoves DEF HandlerStep
      <3> QED BY <2>2, <3>1, InChargeIsNext DEF InChargeMeans
    <2> QED BY <1>0, <2>1, <2>2, KeyMoves
  <1>5. ASSUME NEW a \in Elements(ackCh'), a.code = "Ok"
        PROVE  a.req.batch \subseteq InCharge'
    BY <1>0, <1>2, <1>5, AckChMoves DEF AnsweredFor
  <1>6. ASSUME NEW c \in Conn, NEW a \in Elements(ackWire'[c]), a.code = "Ok"
        PROVE  a.req.batch \subseteq InCharge'
    BY <1>0, <1>2, <1>6, AckWireMoves DEF AnsweredFor
  <1>7. ASSUME NEW r \in Reading, status'[r] = "Sent"
        PROVE  r \in InCharge'
    <2>1. status[r] = "Sent" \/ (ConsumeAck /\ Head(ackCh).code = "Ok" /\ r \in batch)
      BY <1>0, <1>7, ViewsMove
    <2> QED BY <1>0, <1>2, <2>1, ConfirmedIsInCharge DEF AnsweredFor
  <1> QED BY <1>1, <1>3, <1>4, <1>5, <1>6, <1>7 DEF AnsweredFor

\* Every step keeps the invariant behind the contract.
LEMMA ContractInvStep == TunnelAssumption /\ ContractInv /\ [Next]_vars => ContractInv'
  <1> SUFFICES ASSUME TunnelAssumption, ContractInv, [Next]_vars PROVE ContractInv'
    OBVIOUS
  <1>0. TypeOK /\ TypeOK'
    BY TypeStep DEF ContractInv, PairingInv, AccountingInv
  <1>1. PairingInv' /\ HandIsSending' /\ KnownReadings'
    BY <1>0, PairingStep, HandStep, KnownStep DEF ContractInv
  <1>2. BudgetFalls'
    <2>1. ASSUME NEW k \in FaultKinds PROVE budget'[k] <= Budget[k]
      <3>1. budget'[k] \in Nat /\ budget[k] \in Nat /\ Budget[k] \in Nat
        BY <1>0 DEF TypeOK, TunnelAssumption
      <3>2. budget'[k] <= budget[k] /\ budget[k] <= Budget[k]
        BY <1>0, BudgetStep DEF ContractInv, BudgetFalls
      <3> QED BY <3>1, <3>2
    <2> QED BY <2>1 DEF BudgetFalls
  <1>3. ASSUME Reliable PROVE late' = 0 /\ AnsweredFor'
    <2>1. CASE Next
      BY <1>3, <2>1, AnsweredStep
    <2>2. CASE UNCHANGED vars
      <3>1. InCharge' = InCharge
        BY <2>2 DEF vars, serverVars, InCharge
      <3> QED BY <1>3, <2>2, <3>1 DEF ContractInv, vars, serverVars, sessionVars, netVars, AnsweredFor
    <2> QED BY <2>1, <2>2
  <1> QED BY <1>1, <1>2, <1>3 DEF ContractInv, Reliable

\* Before the first session nothing is cached, in charge or answered.
LEMMA ContractInvInit == TunnelAssumption /\ Init => ContractInv
  <1> SUFFICES ASSUME TunnelAssumption, Init PROVE ContractInv
    OBVIOUS
  <1>1. PairingInv /\ TypeOK
    BY PairingInit, TypeInit
  <1>2. HandIsSending /\ BudgetFalls
    BY DEF Init, HandIsSending, BudgetFalls, TunnelAssumption
  <1>3. KnownReadings
    BY DEF Init, KnownReadings, Elements, OffHandler, NoUpload
  <1>4. late = 0 /\ AnsweredFor
    BY DEF Init, AnsweredFor, Elements, OffHandler, CachedKeys
  <1> QED BY <1>1, <1>2, <1>3, <1>4 DEF ContractInv

\* A reading the gateway marked as uploaded is stored, or a handler is about to
\* store it, as long as the server saves what it receives, stays up and answers
\* in time; connections, acknowledgements and clients may fail as they like.
THEOREM UploadedIsInCharge == Spec => []SentIsInCharge
  <1>1. ContractInv => SentIsInCharge
    BY DEF ContractInv, AnsweredFor, SentIsInCharge
  <1> QED BY <1>1, TunnelAssumption, ContractInvInit, ContractInvStep, PTL DEF Spec
-------------------------------------------------------------------------------
(* Refinement of UploadContract                                            *)

\* Every step of the tunnel is a step of the contract or does not concern it.
LEMMA ContractStep ==
    ASSUME TunnelAssumption, Reliable, ContractInv, [Next]_vars
    PROVE  [Contract!ContractNext]_(Contract!contractVars)
  <1> DEFINE Confirmed == {r \in Reading : status[r] = "Sent"}
  <1>0. /\ TypeOK /\ FreshConns /\ ReliableBudget /\ HandIsSending /\ KnownReadings
    BY BudgetIsReliable DEF ContractInv, PairingInv, AccountingInv
  <1>a. \/ Cached' = Cached /\ InCharge' = InCharge /\ Confirmed' = Confirmed
        \/ \E r \in Reading : /\ r \notin Cached /\ Cached' = Cached \cup {r}
                              /\ InCharge' = InCharge /\ Confirmed' = Confirmed
        \/ \E S \in SUBSET Reading : /\ S \subseteq Cached /\ InCharge' = InCharge \cup S
                                     /\ Cached' = Cached /\ Confirmed' = Confirmed
        \/ \E S \in SUBSET Reading : /\ S \subseteq InCharge /\ Confirmed' = Confirmed \cup S
                                     /\ Cached' = Cached /\ InCharge' = InCharge
    <2>1. CASE UNCHANGED vars
      BY <2>1 DEF vars, serverVars, Cached, InCharge
    <2>2. ASSUME Next, NEW r \in Reading, CacheReading(r), r \notin Cached,
                 Cached' = Cached \cup {r},
                 \A q \in Reading : status'[q] = "Sent" <=> status[q] = "Sent"
          PROVE  Cached' = Cached \cup {r} /\ InCharge' = InCharge /\ Confirmed' = Confirmed
      BY <2>2 DEF CacheReading, serverVars, InCharge
    <2>3. CASE /\ ConsumeAck /\ Head(ackCh).code = "Ok" /\ Cached' = Cached
               /\ \A q \in Reading : status'[q] = "Sent" <=> status[q] = "Sent" \/ q \in batch
      <3>1. batch \in SUBSET Reading /\ batch \subseteq InCharge
        BY <1>0, <2>3, ConfirmedIsInCharge DEF TypeOK, SessionTypeOK
      <3>2. InCharge' = InCharge
        BY <2>3 DEF ConsumeAck, serverVars, InCharge
      <3>3. Confirmed' = Confirmed \cup batch
        BY <2>3, <3>1
      <3> QED BY <2>3, <3>1, <3>2, <3>3
    <2>4. CASE /\ Next /\ Cached' = Cached
               /\ \A q \in Reading : status'[q] = "Sent" <=> status[q] = "Sent"
      <3>1. Confirmed' = Confirmed
        BY <2>4
      <3>2. \A c \in Conn : /\ handler[c].req.batch \in SUBSET Reading
                            /\ handler[c].req.batch \subseteq Cached
        BY <1>0 DEF KnownReadings, Cached
      <3> QED BY <1>0, <2>4, <3>1, <3>2, ChargeMoves
    <2> QED BY <1>0, <2>1, <2>2, <2>3, <2>4, ViewsMove
  <1> QED BY <1>a DEF Contract!ContractNext, Contract!contractVars, Contract!CacheOne,
                      Contract!Accept, Contract!Confirm, Cached

\* In a reliable environment the tunnel implements UploadContract: a reading is
\* confirmed only once the server is in charge of it, and nothing is taken back.
THEOREM TunnelImplementsContract ==
    ASSUME Reliable PROVE Spec => ImplementsContract
  <1>1. Init => Contract!ContractInit
    BY DEF Init, OffHandler, InCharge, Contract!ContractInit
  <1>2. TunnelAssumption /\ Reliable /\ ContractInv /\ [Next]_vars
            => [Contract!ContractNext]_(Contract!contractVars)
    BY ContractStep
  <1> QED BY <1>1, <1>2, TunnelAssumption, ContractInvInit, ContractInvStep, PTL
          DEF Spec, ImplementsContract, Contract!ContractSpec
===============================================================================
