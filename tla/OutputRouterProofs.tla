-------------------------- MODULE OutputRouterProofs --------------------------
(***************************************************************************)
(* Proofs about OutputRouter for any number of sinks, calls of Send, posts, *)
(* clients and lost connections.                                            *)
(***************************************************************************)
EXTENDS OutputRouter, FiniteSetTheorems, TLAPS

Place == {"none", "due", "spawned", "post", "lock", "connect", "publish", "wait"} \cup Ended
Begun == {"spawned", "post", "lock", "connect", "publish", "wait"}

\* The goroutines that were started and have not ended.
Running == {t \in Task : pc[t] \in Begun}

-------------------------------------------------------------------------------
(* There are finitely many goroutines                                      *)

\* The cells of a table with m rows of n cells can be numbered row by row.
LEMMA RowByRow ==
    ASSUME NEW m \in Nat, NEW n \in Nat
    PROVE  /\ \A s \in 1..m, i \in 1..n : (s - 1) * n + i \in 1..(m * n)
           /\ \A s, u \in 1..m, i, j \in 1..n :
                 (s - 1) * n + i = (u - 1) * n + j => s = u /\ i = j
  <1>1. ASSUME NEW s \in 1..m, NEW i \in 1..n
        PROVE  (s - 1) * n + i \in 1..(m * n)
    <2>1. (m - s) * n >= 0 /\ (s - 1) * n >= 0
      OBVIOUS
    <2>2. m * n = (m - s) * n + (s - 1) * n + n
      OBVIOUS
    <2> QED BY <2>1, <2>2
  <1>2. ASSUME NEW s \in 1..m, NEW u \in 1..m, NEW i \in 1..n, NEW j \in 1..n, s < u
        PROVE  (s - 1) * n + i < (u - 1) * n + j
    <2>1. (u - s - 1) * n >= 0
      BY <1>2
    <2>2. (u - 1) * n = (u - s - 1) * n + (s - 1) * n + n
      OBVIOUS
    <2> QED BY <2>1, <2>2
  <1>3. ASSUME NEW s \in 1..m, NEW u \in 1..m, NEW i \in 1..n, NEW j \in 1..n,
               (s - 1) * n + i = (u - 1) * n + j
        PROVE  s = u /\ i = j
    <2>1. (s - 1) * n + i \in Int /\ (u - 1) * n + j \in Int
      OBVIOUS
    <2>2. ~(s < u) /\ ~(u < s)
      BY <1>2, <1>3, <2>1
    <2>3. s = u
      BY <2>2
    <2> QED BY <1>3, <2>3
  <1> QED BY <1>1, <1>3

\* As many goroutines as calls of Send times sinks, at most.
LEMMA TaskFinite ==
    ASSUME OutputAssumption
    PROVE  IsFiniteSet(Task) /\ Cardinality(Task) <= MaxSends * Cardinality(Sink)
  <1> DEFINE n == Cardinality(Sink)
  <1>1. IsFiniteSet(Sink)
    BY FS_Union DEF OutputAssumption, Sink
  <1>2. n \in Nat /\ ExistsBijection(1..n, Sink) /\ MaxSends \in Nat
    BY <1>1, FS_CardinalityType DEF OutputAssumption
  <1>3. PICK g : g \in Bijection(1..n, Sink)
    BY <1>2 DEF ExistsBijection
  <1>4. \A k \in Sink : \E i \in 1..n : g[i] = k
    BY <1>3 DEF Bijection, Surjection
  <1> DEFINE h == [k \in Sink |-> CHOOSE i \in 1..n : g[i] = k]
  <1>5. \A k \in Sink : h[k] \in 1..n /\ g[h[k]] = k
    BY <1>4
  <1> DEFINE f == [t \in Task |-> (t[1] - 1) * n + h[t[2]]]
             T == 1..(MaxSends * n)
  <1>6. \A t \in Task : t = <<t[1], t[2]>> /\ t[1] \in 1..MaxSends /\ t[2] \in Sink
    BY DEF Task, Send
  <1> HIDE DEF h
  <1>7. f \in [Task -> T]
    <2>1. ASSUME NEW t \in Task
          PROVE  (t[1] - 1) * n + h[t[2]] \in T
      <3>1. t[1] \in 1..MaxSends /\ h[t[2]] \in 1..n
        BY <1>5, <1>6
      <3> DEFINE s == t[1]
                 i == h[t[2]]
      <3>2. s \in 1..MaxSends /\ i \in 1..n /\ n \in Nat /\ MaxSends \in Nat
        BY <1>2, <3>1
      <3> HIDE DEF n, s, i
      <3>3. (s - 1) * n + i \in 1..(MaxSends * n)
        BY <3>2, RowByRow
      <3> QED BY <3>3 DEF s, i
    <2> QED BY <2>1
  <1>8. ASSUME NEW t \in Task, NEW u \in Task, f[t] = f[u]
        PROVE  t = u
    <2>1. /\ t[1] \in 1..MaxSends /\ h[t[2]] \in 1..n
          /\ u[1] \in 1..MaxSends /\ h[u[2]] \in 1..n
      BY <1>5, <1>6
    <2>2. (t[1] - 1) * n + h[t[2]] = (u[1] - 1) * n + h[u[2]]
      BY <1>8
    <2>3. t[1] = u[1] /\ h[t[2]] = h[u[2]]
      <3> DEFINE s == t[1]
                 i == h[t[2]]
                 v == u[1]
                 j == h[u[2]]
      <3>1. /\ s \in 1..MaxSends /\ i \in 1..n /\ v \in 1..MaxSends /\ j \in 1..n
            /\ n \in Nat /\ MaxSends \in Nat /\ (s - 1) * n + i = (v - 1) * n + j
        BY <1>2, <2>1, <2>2
      <3> HIDE DEF n, s, i, v, j
      <3>2. s = v /\ i = j
        BY <3>1, RowByRow
      <3> QED BY <3>2 DEF s, i, v, j
    <2>4. t[2] = u[2]
      BY <1>5, <1>6, <2>3
    <2> QED BY <1>6, <2>3, <2>4
  <1>9. f \in Injection(Task, T)
    <2>1. \A t, u \in Task : f[t] = f[u] => t = u
      BY <1>8
    <2> HIDE DEF f, T
    <2> QED BY <1>7, <2>1 DEF Injection, IsInjective
  <1>10. MaxSends * n \in Nat
    BY <1>2
  <1>11. IsFiniteSet(T) /\ Cardinality(T) = MaxSends * n
    <2> DEFINE e == MaxSends * n
    <2>1. e \in Nat
      BY <1>10
    <2> HIDE DEF e
    <2>2. IsFiniteSet(1..e) /\ Cardinality(1..e) = IF 1 > e THEN 0 ELSE e - 1 + 1
      BY <2>1, FS_Interval
    <2>3. Cardinality(1..e) = e
      BY <2>1, <2>2
    <2> QED BY <2>2, <2>3 DEF e
  <1> HIDE DEF f, T
  <1>12. IsFiniteSet(Task) /\ Cardinality(Task) <= Cardinality(T)
    BY <1>9, <1>11, FS_Injection
  <1> QED BY <1>11, <1>12

\* No more goroutines run than there are, and there are none when their number is
\* zero.
LEMMA RunningBound ==
    ASSUME OutputAssumption, NEW R \in SUBSET Task
    PROVE  /\ IsFiniteSet(R) /\ Cardinality(R) \in 0..(MaxSends * Cardinality(Sink))
           /\ Cardinality(R) = 0 => R = {}
  <1>1. IsFiniteSet(R) /\ Cardinality(R) <= Cardinality(Task)
    BY TaskFinite, FS_Subset
  <1>2. Cardinality(R) \in Nat /\ Cardinality(Task) \in Nat
    BY <1>1, TaskFinite, FS_CardinalityType
  <1>3. MaxSends * Cardinality(Sink) \in Nat
    <2>1. Cardinality(Sink) \in Nat
      BY FS_Union, FS_CardinalityType DEF OutputAssumption, Sink
    <2> QED BY <2>1 DEF OutputAssumption
  <1>4. Cardinality(R) = 0 => R = {}
    BY <1>1, FS_EmptySet
  <1> QED BY <1>1, <1>2, <1>3, <1>4, TaskFinite

\* The same for the goroutines that run now.
LEMMA RunningFinite ==
    ASSUME OutputAssumption
    PROVE  /\ IsFiniteSet(Running) /\ Cardinality(Running) \in 0..(MaxSends * Cardinality(Sink))
           /\ Cardinality(Running) = 0 => Running = {}
  <1>1. Running \in SUBSET Task
    BY DEF Running
  <1> QED BY <1>1, RunningBound

\* How many goroutines run when one of them gets to another place.
LEMMA RunningMoves ==
    ASSUME OutputAssumption, pc \in [Task -> Place], NEW t \in Task, NEW place \in Place,
           pc' = [pc EXCEPT ![t] = place]
    PROVE  Cardinality(Running') =
             Cardinality(Running) + (IF place \in Begun THEN 1 ELSE 0)
                                  - (IF pc[t] \in Begun THEN 1 ELSE 0)
  <1>0. IsFiniteSet(Running) /\ Cardinality(Running) \in Nat
    BY RunningFinite
  <1>1. Running' = IF place \in Begun THEN Running \cup {t} ELSE Running \ {t}
    BY DEF Running
  <1>2. t \in Running <=> pc[t] \in Begun
    BY DEF Running
  <1> DEFINE R == Running
  <1> HIDE DEF R
  <1>3. /\ Cardinality(R \cup {t}) = IF t \in R THEN Cardinality(R) ELSE Cardinality(R) + 1
        /\ Cardinality(R \ {t}) = IF t \in R THEN Cardinality(R) - 1 ELSE Cardinality(R)
    <2>1. IsFiniteSet(R)
      BY <1>0 DEF R
    <2>2. Cardinality(R \cup {t}) = IF t \in R THEN Cardinality(R) ELSE Cardinality(R) + 1
      BY <2>1, FS_AddElement
    <2>3. Cardinality(R \ {t}) = IF t \in R THEN Cardinality(R) - 1 ELSE Cardinality(R)
      BY <2>1, FS_RemoveElement
    <2> QED BY <2>2, <2>3
  <1>4. /\ place \in Begun => Running' = R \cup {t}
        /\ place \notin Begun => Running' = R \ {t}
        /\ t \in R <=> pc[t] \in Begun
        /\ Cardinality(R) = Cardinality(Running)
    BY <1>1, <1>2 DEF R
  <1>5. CASE place \in Begun
    <2>1. Cardinality(Running') = Cardinality(R \cup {t})
      BY <1>4, <1>5
    <2> QED BY <1>0, <1>3, <1>4, <1>5, <2>1
  <1>6. CASE place \notin Begun
    <2>1. Cardinality(Running') = Cardinality(R \ {t})
      BY <1>4, <1>6
    <2> QED BY <1>0, <1>3, <1>4, <1>6, <2>1
  <1> QED BY <1>5, <1>6
-------------------------------------------------------------------------------
(* Type correctness                                                        *)

\* The WaitGroup counts the goroutines that run: Add comes before the goroutine,
\* Done with its end.
WaitGroupCounts == wg = Cardinality(Running)

\* A goroutine can only be due when its call of Send has been made.
CallsCome == \A t \in Task : pc[t] = "none" <=> t[1] > sent

\* Goroutines stay in the code of their own kind of sink.
OwnCode ==
    \A t \in Task :
        /\ pc[t] = "post" => t[2] \in Http
        /\ pc[t] \in {"lock", "connect", "publish", "wait"} => t[2] \in Mqtt

\* An HTTP send that posts has a post left, and at most what was posted arrived.
PostsCount ==
    \A t \in Send \X Http :
        /\ delivered[t] <= posts[t]
        /\ pc[t] \in {"none", "due", "spawned"} => posts[t] = 0
        /\ pc[t] = "post" => posts[t] < MaxPosts

\* An MQTT send is delivered, once, when it ends without an error.
AckEnds ==
    \A t \in Send \X Mqtt : delivered[t] = IF pc[t] = "ok" THEN 1 ELSE 0

TypeInv == TypeOK /\ WaitGroupCounts /\ CallsCome /\ OwnCode /\ PostsCount /\ AckEnds

\* The kinds of goroutines.
LEMMA TaskKinds ==
    ASSUME OutputAssumption
    PROVE  /\ Send \X Http \subseteq Task /\ Send \X Mqtt \subseteq Task
           /\ \A t \in Task : /\ t = <<t[1], t[2]>> /\ t[1] \in 1..MaxSends
                              /\ t \in Send \X Http <=> t[2] \in Http
                              /\ t \in Send \X Mqtt <=> t[2] \in Mqtt
                              /\ t \in Send \X Http <=> t \notin Send \X Mqtt
                              /\ t # NoTask
  BY DEF OutputAssumption, Task, Send, Sink, NoTask

\* No goroutine runs when the server has started.
LEMMA TypeInit == ASSUME OutputAssumption, Init PROVE TypeInv
  <1>1. Running = {}
    BY DEF Init, Running, Begun
  <1>2. wg = 0 /\ WaitGroupCounts
    BY <1>1, FS_EmptySet DEF Init, WaitGroupCounts
  <1>3. Cardinality(Running) \in 0..(MaxSends * Cardinality(Sink))
    BY RunningFinite
  <1>4. TypeOK
    BY <1>2, <1>3 DEF OutputAssumption, Init, TypeOK, Ended, WaitGroupCounts
  <1>5. CallsCome /\ OwnCode /\ PostsCount /\ AckEnds
    BY TaskKinds DEF OutputAssumption, Init, CallsCome, OwnCode, PostsCount, AckEnds
  <1> QED BY <1>2, <1>4, <1>5 DEF TypeInv

\* What the steps of one goroutine do to it: where it goes and what it does to
\* the WaitGroup.
LEMMA TaskMoves ==
    ASSUME OutputAssumption, TypeInv, NEW t \in Task,
           \/ StartTask(t) \/ BeginTask(t)
           \/ HttpStep(t) /\ t \in Send \X Http
           \/ (LockStep(t) \/ MqttStep(t) \/ Acknowledge(t)) /\ t \in Send \X Mqtt
    PROVE  \E place \in Place :
              /\ pc' = [pc EXCEPT ![t] = place]
              /\ wg' = wg + (IF place \in Begun THEN 1 ELSE 0)
                         - (IF pc[t] \in Begun THEN 1 ELSE 0)
              /\ place # "none" /\ pc[t] # "none"
  <1>0. pc \in [Task -> Place] /\ wg \in Int
    <2>1. Cardinality(Running) \in Nat
      BY RunningFinite
    <2> QED BY <2>1 DEF TypeInv, TypeOK, Place, WaitGroupCounts
  <1>1. CASE StartTask(t)
    <2>1. pc[t] = "due" /\ pc' = [pc EXCEPT ![t] = "spawned"] /\ wg' = wg + 1
      BY <1>1 DEF StartTask, Added
    <2> QED BY <1>0, <2>1 DEF Begun, Place, Ended
  <1>2. CASE BeginTask(t)
    <2>1. pc[t] = "spawned"
      BY <1>2 DEF BeginTask
    <2>2. \/ pc' = [pc EXCEPT ![t] = "post"] /\ wg' = wg + 0
          \/ pc' = [pc EXCEPT ![t] = "failed"] /\ wg' = wg - 1
          \/ pc' = [pc EXCEPT ![t] = "lock"] /\ wg' = wg + 0
      BY <1>2 DEF BeginTask, EndTask, Added
    <2> QED BY <1>0, <2>1, <2>2 DEF Begun, Place, Ended
  <1>3. CASE HttpStep(t)
    BY <1>0, <1>3 DEF HttpStep, Post, EndTask, Begun, Place, Ended
  <1>4. CASE LockStep(t)
    BY <1>0, <1>4 DEF LockStep, FindConnected, StartConnect, Begun, Place, Ended
  <1>5. CASE MqttStep(t)
    BY <1>0, <1>5 DEF MqttStep, ConnectSucceeds, ConnectFails, Publish, TokenFails, EndTask,
                      Begun, Place, Ended
  <1>6. CASE Acknowledge(t)
    BY <1>0, <1>6 DEF Acknowledge, EndTask, Begun, Place, Ended
  <1> QED BY <1>1, <1>2, <1>3, <1>4, <1>5, <1>6

\* The WaitGroup keeps counting.
LEMMA WaitGroupStep ==
    ASSUME OutputAssumption, TypeInv, [Next]_vars
    PROVE  WaitGroupCounts' /\ wg' \in 0..(MaxSends * Cardinality(Sink))
  <1>0. pc \in [Task -> Place] /\ WaitGroupCounts
    BY DEF TypeInv, TypeOK, Place
  <1>1. ASSUME NEW t \in Task, NEW place \in Place,
               pc' = [pc EXCEPT ![t] = place],
               wg' = wg + (IF place \in Begun THEN 1 ELSE 0)
                        - (IF pc[t] \in Begun THEN 1 ELSE 0)
        PROVE  WaitGroupCounts'
    BY <1>0, <1>1, RunningMoves DEF WaitGroupCounts
  <1>2. ASSUME CallSend
        PROVE  WaitGroupCounts'
    <2>1. \A t \in Task : t[1] = sent' => pc[t] = "none"
      BY <1>2, TaskKinds DEF CallSend, TypeInv, TypeOK, CallsCome
    <2>2. Running' = Running
      BY <1>2, <2>1 DEF CallSend, Running, Begun
    <2>3. Cardinality(Running') = Cardinality(Running)
      BY <2>2
    <2>4. wg' = wg
      BY <1>2 DEF CallSend
    <2> QED BY <1>0, <2>3, <2>4 DEF WaitGroupCounts
  <1>3. ASSUME NEW t \in Task,
               \/ StartTask(t) \/ BeginTask(t)
               \/ HttpStep(t) /\ t \in Send \X Http
               \/ (LockStep(t) \/ MqttStep(t) \/ Acknowledge(t)) /\ t \in Send \X Mqtt
        PROVE  WaitGroupCounts'
    BY <1>1, <1>3, TaskMoves
  <1>4. ASSUME UNCHANGED <<pc, wg>>
        PROVE  WaitGroupCounts'
    <2>1. Running' = Running
      BY <1>4 DEF Running
    <2>2. Cardinality(Running') = Cardinality(Running)
      BY <2>1
    <2>3. wg' = wg
      BY <1>4
    <2> QED BY <1>0, <2>2, <2>3 DEF WaitGroupCounts
  <1>5. WaitGroupCounts'
    <2>1. CASE CallShutdown \/ WaitReturns \/ CloseSinks \/ UNCHANGED vars
      BY <1>4, <2>1 DEF CallShutdown, WaitReturns, CloseSinks, vars
    <2>2. ASSUME NEW m \in Mqtt, NEW k \in Client, LoseConnection(m, k) \/ Reconnect(m, k)
          PROVE  WaitGroupCounts'
      BY <1>4, <2>2 DEF LoseConnection, Reconnect
    <2> QED BY <1>2, <1>3, <2>1, <2>2, TaskKinds DEF Next
  <1>6. Cardinality(Running') \in 0..(MaxSends * Cardinality(Sink))
    <2>1. Running' \in SUBSET Task
      BY DEF Running
    <2> QED BY <2>1, RunningBound
  <1> QED BY <1>5, <1>6 DEF WaitGroupCounts

\* Every step keeps the types and the counts.
LEMMA TypeStep ==
    ASSUME OutputAssumption, TypeInv, [Next]_vars
    PROVE  TypeInv'
  <1> USE DEF mqttVars
  <1>0. /\ TypeOK /\ CallsCome /\ OwnCode /\ PostsCount /\ AckEnds
        /\ MaxSends \in Nat /\ MaxPosts \in Nat \ {0} /\ MaxClients \in Nat \ {0}
        /\ MaxLosses \in Nat
    BY DEF TypeInv, OutputAssumption
  <1>w. WaitGroupCounts' /\ wg' \in 0..(MaxSends * Cardinality(Sink))
    BY WaitGroupStep
  <1>1. CASE CallSend
    <2>1. TypeOK'
      BY <1>0, <1>w, <1>1 DEF CallSend, TypeOK
    <2>2. /\ \A t \in Task : pc'[t] = IF t[1] = sent + 1 THEN "due" ELSE pc[t]
          /\ \A t \in Task : t[1] = sent + 1 => pc[t] = "none"
          /\ sent' = sent + 1 /\ sent \in Nat
      BY <1>0, <1>1, TaskKinds DEF CallSend, TypeOK, CallsCome
    <2>3. CallsCome'
      BY <1>0, <2>2, TaskKinds DEF CallsCome
    <2>4. OwnCode' /\ PostsCount' /\ AckEnds'
      BY <1>0, <1>1, <2>2, TaskKinds DEF CallSend, OwnCode, PostsCount, AckEnds
    <2> QED BY <1>w, <2>1, <2>3, <2>4 DEF TypeInv
  <1>2. ASSUME NEW t \in Task, StartTask(t) \/ BeginTask(t)
        PROVE  TypeInv'
    <2>1. TypeOK'
      BY <1>0, <1>w, <1>2 DEF StartTask, BeginTask, EndTask, TypeOK, Ended
    <2>2. CallsCome'
      BY <1>0, <1>2, TaskMoves DEF StartTask, BeginTask, EndTask, TypeOK, CallsCome
    <2>3. OwnCode'
      BY <1>0, <1>2 DEF StartTask, BeginTask, EndTask, TypeOK, OwnCode
    <2>4. PostsCount'
      BY <1>0, <1>2, TaskKinds DEF StartTask, BeginTask, EndTask, TypeOK, PostsCount
    <2>5. AckEnds'
      BY <1>0, <1>2, TaskKinds DEF StartTask, BeginTask, EndTask, TypeOK, AckEnds
    <2> QED BY <1>w, <2>1, <2>2, <2>3, <2>4, <2>5 DEF TypeInv
  <1>3. ASSUME NEW t \in Send \X Http, NEW outcome \in {"2xx", "other", "late", "none"},
               Post(t, outcome)
        PROVE  TypeInv'
    <2>0. t \in Task /\ t \notin Send \X Mqtt /\ t[2] \in Http
      BY TaskKinds
    <2>1. /\ posts[t] \in 0..(MaxPosts - 1) /\ delivered[t] \in 0..posts[t]
          /\ pc[t] = "post"
      BY <1>0, <1>3, <2>0 DEF Post, PostsCount, TypeOK
    <2>2. /\ posts' = [posts EXCEPT ![t] = @ + 1]
          /\ \/ delivered' = delivered
             \/ delivered' = [delivered EXCEPT ![t] = @ + 1]
          /\ \/ pc' = [pc EXCEPT ![t] = "ok"]
             \/ pc' = [pc EXCEPT ![t] = "failed"]
             \/ pc' = pc /\ posts'[t] # MaxPosts
          /\ UNCHANGED <<sent, shut, mqttVars, begunLate>>
      BY <1>3 DEF Post, EndTask, GivesUp
    <2>3. TypeOK'
      BY <1>0, <1>w, <2>0, <2>1, <2>2 DEF TypeOK, Ended
    <2>4. CallsCome'
      BY <1>0, <2>0, <2>1, <2>2 DEF TypeOK, CallsCome
    <2>5. OwnCode'
      BY <1>0, <2>0, <2>1, <2>2 DEF TypeOK, OwnCode
    <2>6. PostsCount'
      <3>1. \A u \in Send \X Http : u \in Task
        BY TaskKinds
      <3>2. \A u \in Send \X Http : u # t =>
              pc'[u] = pc[u] /\ posts'[u] = posts[u] /\ delivered'[u] = delivered[u]
        BY <1>0, <2>2, <3>1 DEF TypeOK
      <3>3. /\ posts'[t] = posts[t] + 1 /\ delivered'[t] \in {delivered[t], delivered[t] + 1}
            /\ pc'[t] \in {"ok", "failed"} \/ (pc'[t] = "post" /\ posts'[t] # MaxPosts)
        BY <1>0, <2>0, <2>1, <2>2 DEF TypeOK
      <3> QED BY <1>0, <2>1, <3>2, <3>3 DEF PostsCount
    <2>7. AckEnds'
      BY <1>0, <2>0, <2>1, <2>2, TaskKinds DEF TypeOK, AckEnds
    <2> QED BY <1>w, <2>3, <2>4, <2>5, <2>6, <2>7 DEF TypeInv
  <1>4. ASSUME NEW t \in Send \X Mqtt, LockStep(t) \/ MqttStep(t)
        PROVE  TypeInv'
    <2>0. t \in Task /\ t \notin Send \X Http /\ t[2] \in Mqtt
      BY TaskKinds
    <2>1. TypeOK'
      <3>1. CASE LockStep(t)
        <4>1. /\ pc' \in [Task -> Place]
              /\ UNCHANGED <<sent, shut, posts, delivered, onClient, losses, begunLate>>
          BY <1>0, <3>1, <2>0 DEF LockStep, FindConnected, StartConnect, TypeOK, Place
        <4>2. CASE FindConnected(t)
          BY <1>0, <1>w, <4>1, <4>2 DEF FindConnected, TypeOK, Place
        <4>3. CASE StartConnect(t)
          <5>1. client[t[2]] + 1 \in Client
            BY <1>0, <2>0, <4>3 DEF StartConnect, TypeOK, Client
          <5>2. client' \in [Mqtt -> 0..MaxClients] /\ holder' \in [Mqtt -> (Send \X Mqtt) \cup {NoTask}]
            BY <1>0, <2>0, <4>3, <5>1 DEF StartConnect, TypeOK, Client
          <5>3. status' \in [Mqtt \X Client -> {"none", "connecting", "up", "reconnecting", "off"}]
            BY <1>0, <2>0, <4>3, <5>1 DEF StartConnect, TypeOK
          <5> QED BY <1>0, <1>w, <4>1, <5>2, <5>3 DEF TypeOK, Place
        <4> QED BY <3>1, <4>2, <4>3 DEF LockStep
      <3>2. CASE MqttStep(t)
        BY <1>0, <1>w, <3>2, <2>0 DEF MqttStep, ConnectSucceeds, ConnectFails, Publish, TokenFails,
                           EndTask, AfterFailedConnect, TypeOK, Ended, Client
      <3> QED BY <1>4, <3>1, <3>2
    <2>2. /\ \E place \in Place \ {"none", "ok", "post"} : pc' = [pc EXCEPT ![t] = place]
          /\ pc[t] \notin {"none", "ok"}
          /\ UNCHANGED <<sent, posts, delivered>>
      BY <1>4 DEF LockStep, FindConnected, StartConnect, MqttStep, ConnectSucceeds, ConnectFails,
                  Publish, TokenFails, EndTask, Place, Ended
    <2>3. CallsCome' /\ OwnCode'
      BY <1>0, <2>0, <2>2 DEF TypeOK, CallsCome, OwnCode
    <2>4. PostsCount' /\ AckEnds'
      BY <1>0, <2>0, <2>2, TaskKinds DEF TypeOK, PostsCount, AckEnds
    <2> QED BY <1>w, <2>1, <2>3, <2>4 DEF TypeInv
  <1>5. ASSUME NEW t \in Send \X Mqtt, Acknowledge(t)
        PROVE  TypeInv'
    <2>0. t \in Task /\ t \notin Send \X Http /\ t[2] \in Mqtt
      BY TaskKinds
    <2>1. delivered[t] = 0 /\ pc[t] = "wait"
      BY <1>0, <1>5 DEF Acknowledge, AckEnds
    <2>2. /\ pc' = [pc EXCEPT ![t] = "ok"] /\ delivered' = [delivered EXCEPT ![t] = 1]
          /\ UNCHANGED <<sent, shut, posts, mqttVars, begunLate>>
      BY <1>5, <2>1 DEF Acknowledge, EndTask
    <2>3. TypeOK'
      BY <1>0, <1>w, <2>0, <2>2 DEF TypeOK, Ended
    <2>4. CallsCome' /\ OwnCode'
      BY <1>0, <2>0, <2>1, <2>2 DEF TypeOK, CallsCome, OwnCode
    <2>5. PostsCount' /\ AckEnds'
      BY <1>0, <2>0, <2>1, <2>2, TaskKinds DEF TypeOK, PostsCount, AckEnds
    <2> QED BY <1>w, <2>3, <2>4, <2>5 DEF TypeInv
  <1>6. ASSUME NEW m \in Mqtt, NEW k \in Client, LoseConnection(m, k) \/ Reconnect(m, k)
        PROVE  TypeInv'
    <2>1. TypeOK'
      BY <1>0, <1>w, <1>6 DEF LoseConnection, Reconnect, TypeOK
    <2> QED BY <1>0, <1>w, <1>6, <2>1 DEF LoseConnection, Reconnect, TypeInv, CallsCome, OwnCode,
                                          PostsCount, AckEnds
  <1>7. CASE CallShutdown \/ WaitReturns \/ CloseSinks
    <2>1. TypeOK'
      BY <1>0, <1>w, <1>7 DEF CallShutdown, WaitReturns, CloseSinks, TypeOK
    <2> QED BY <1>0, <1>w, <1>7, <2>1 DEF CallShutdown, WaitReturns, CloseSinks, TypeInv, CallsCome,
                                          OwnCode, PostsCount, AckEnds
  <1>8. CASE UNCHANGED vars
    BY <1>0, <1>w, <1>8 DEF vars, TypeInv, TypeOK, CallsCome, OwnCode, PostsCount, AckEnds
  <1> QED BY <1>1, <1>2, <1>3, <1>4, <1>5, <1>6, <1>7, <1>8 DEF Next, HttpStep

\* Counters stay within their bounds and goroutines in their places; the
\* WaitGroup never gets below zero, which would be a panic.
THEOREM TypeCorrect == Spec => []TypeOK
  <1>1. TypeInv => TypeOK
    BY DEF TypeInv
  <1>2. OutputAssumption /\ Init => TypeInv
    BY TypeInit
  <1>3. OutputAssumption /\ TypeInv /\ [Next]_vars => TypeInv'
    BY TypeStep
  <1> QED BY <1>1, <1>2, <1>3, OutputAssumption, PTL DEF Spec

-------------------------------------------------------------------------------
(* What was reported                                                       *)

\* Readings that cannot be formatted do not get as far as a post or a publication.
BadStaysIn ==
    \A t \in Task : pc[t] \in {"post", "wait"} => t[1] \notin BadSends

DeliveryInv == TypeInv /\ BadStaysIn /\ DeliveredAsReported

\* Every step keeps it.
LEMMA DeliveryStep ==
    ASSUME OutputAssumption, DeliveryInv, [Next]_vars
    PROVE  DeliveryInv'
  <1>0. /\ TypeOK /\ BadStaysIn /\ DeliveredAsReported
        /\ Send \X Http \subseteq Task /\ Send \X Mqtt \subseteq Task
    BY TaskKinds DEF DeliveryInv, TypeInv
  <1>w. TypeInv'
    BY TypeStep DEF DeliveryInv
  <1> SUFFICES BadStaysIn' /\ DeliveredAsReported'
    BY <1>w DEF DeliveryInv
  <1>1. CASE CallSend
    BY <1>0, <1>1 DEF CallSend, TypeOK, BadStaysIn, DeliveredAsReported
  <1>2. ASSUME NEW t \in Task, StartTask(t) \/ BeginTask(t)
        PROVE  BadStaysIn' /\ DeliveredAsReported'
    BY <1>0, <1>2 DEF StartTask, BeginTask, EndTask, TypeOK, BadStaysIn, DeliveredAsReported
  <1>3. ASSUME NEW t \in Send \X Http, NEW outcome \in {"2xx", "other", "late", "none"},
               Post(t, outcome)
        PROVE  BadStaysIn' /\ DeliveredAsReported'
    <2>1. t \in Task /\ pc[t] = "post" /\ t[1] \notin BadSends /\ delivered[t] \in Nat
      BY <1>0, <1>3 DEF Post, TypeOK, BadStaysIn
    <2>2. /\ delivered' \in {delivered, [delivered EXCEPT ![t] = @ + 1]}
          /\ \/ /\ pc' = [pc EXCEPT ![t] = "ok"]
                /\ delivered' = [delivered EXCEPT ![t] = @ + 1]
             \/ pc' = [pc EXCEPT ![t] = "failed"]
             \/ pc' = pc
      BY <1>3 DEF Post, EndTask, Accepted
    <2> QED BY <1>0, <2>1, <2>2 DEF TypeOK, BadStaysIn, DeliveredAsReported
  <1>4. ASSUME NEW t \in Send \X Mqtt, LockStep(t) \/ MqttStep(t)
        PROVE  BadStaysIn' /\ DeliveredAsReported'
    <2>1. /\ delivered' = delivered /\ t \in Task
          /\ \E place \in Place \ {"post", "ok"} :
                /\ pc' = [pc EXCEPT ![t] = place]
                /\ place = "wait" => t[1] \notin BadSends
      BY <1>0, <1>4 DEF LockStep, FindConnected, StartConnect, MqttStep, ConnectSucceeds,
                        ConnectFails, Publish, TokenFails, EndTask, Place, Ended
    <2> QED BY <1>0, <2>1 DEF TypeOK, BadStaysIn, DeliveredAsReported
  <1>5. ASSUME NEW t \in Send \X Mqtt, Acknowledge(t)
        PROVE  BadStaysIn' /\ DeliveredAsReported'
    <2>1. t \in Task /\ t[1] \notin BadSends /\ delivered[t] \in Nat
      BY <1>0, <1>5 DEF Acknowledge, TypeOK, BadStaysIn
    <2> QED BY <1>0, <1>5, <2>1 DEF Acknowledge, EndTask, TypeOK, BadStaysIn, DeliveredAsReported
  <1>6. CASE UNCHANGED <<pc, delivered>>
    BY <1>0, <1>6 DEF BadStaysIn, DeliveredAsReported
  <1>7. ASSUME NEW m \in Mqtt, NEW k \in Client, LoseConnection(m, k) \/ Reconnect(m, k)
        PROVE  BadStaysIn' /\ DeliveredAsReported'
    BY <1>6, <1>7 DEF LoseConnection, Reconnect
  <1>8. CASE CallShutdown \/ WaitReturns \/ CloseSinks \/ UNCHANGED vars
    BY <1>6, <1>8 DEF CallShutdown, WaitReturns, CloseSinks, vars
  <1> QED BY <1>1, <1>2, <1>3, <1>4, <1>5, <1>7, <1>8 DEF Next, HttpStep

\* What a sink does not report as failed its platform received, and readings
\* that cannot be formatted never get out.
THEOREM ReportsAreTrue == Spec => []DeliveredAsReported
  <1>1. DeliveryInv => DeliveredAsReported
    BY DEF DeliveryInv
  <1>2. OutputAssumption /\ Init => DeliveryInv
    BY TypeInit DEF DeliveryInv, Init, BadStaysIn, DeliveredAsReported
  <1>3. OutputAssumption /\ DeliveryInv /\ [Next]_vars => DeliveryInv'
    BY DeliveryStep
  <1> QED BY <1>1, <1>2, <1>3, OutputAssumption, PTL DEF Spec

-------------------------------------------------------------------------------
(* Who may change the client of an MQTT sink                               *)

\* The goroutine that connects holds the mutex of its sink, and the client it
\* waits for is the sink's and is not connected yet.
ConnectsUnderLock ==
    \A t \in Send \X Mqtt : pc[t] = "connect" =>
        /\ holder[t[2]] = t
        /\ client[t[2]] # 0 /\ status[<<t[2], client[t[2]]>>] = "connecting"

ClientInv == TypeInv /\ ConnectsUnderLock /\ PublishesOnLiveClient

\* Every step keeps it.
LEMMA ClientStep ==
    ASSUME OutputAssumption, ClientInv, [Next]_vars
    PROVE  ClientInv'
  <1> USE DEF mqttVars
  <1>0. /\ TypeOK /\ ConnectsUnderLock /\ PublishesOnLiveClient
        /\ Send \X Http \subseteq Task /\ Send \X Mqtt \subseteq Task
        /\ \A t \in Task : t \in Send \X Http <=> t \notin Send \X Mqtt
        /\ \A t \in Send \X Mqtt : t[2] \in Mqtt /\ t # NoTask
    BY TaskKinds DEF ClientInv, TypeInv
  <1>w. TypeInv'
    BY TypeStep DEF ClientInv
  <1> SUFFICES ConnectsUnderLock' /\ PublishesOnLiveClient'
    BY <1>w DEF ClientInv
  <1>1. CASE CallSend
    BY <1>0, <1>1 DEF CallSend, TypeOK, ConnectsUnderLock, PublishesOnLiveClient
  <1>2. ASSUME NEW t \in Task, StartTask(t) \/ BeginTask(t)
        PROVE  ConnectsUnderLock' /\ PublishesOnLiveClient'
    BY <1>0, <1>2 DEF StartTask, BeginTask, EndTask, TypeOK, ConnectsUnderLock,
                      PublishesOnLiveClient
  <1>3. ASSUME NEW t \in Send \X Http, HttpStep(t)
        PROVE  ConnectsUnderLock' /\ PublishesOnLiveClient'
    BY <1>0, <1>3 DEF HttpStep, Post, EndTask, TypeOK, ConnectsUnderLock, PublishesOnLiveClient
  <1>4. ASSUME NEW t \in Send \X Mqtt, FindConnected(t)
        PROVE  ConnectsUnderLock' /\ PublishesOnLiveClient'
    <2>1. /\ pc' = [pc EXCEPT ![t] = "publish"] /\ t \in Task
          /\ client[t[2]] # 0 /\ status[<<t[2], client[t[2]]>>] \in {"up", "reconnecting"}
          /\ UNCHANGED <<shut, holder, client, status>>
      BY <1>0, <1>4 DEF FindConnected, IsConnected
    <2>2. /\ pc'[t] = "publish"
          /\ \A u \in Send \X Mqtt : u # t => pc'[u] = pc[u]
      BY <1>0, <2>1 DEF TypeOK
    <2>3. ConnectsUnderLock'
      BY <1>0, <2>1, <2>2 DEF ConnectsUnderLock
    <2>4. PublishesOnLiveClient'
      BY <1>0, <2>1, <2>2 DEF PublishesOnLiveClient
    <2> QED BY <2>3, <2>4
  <1>5. ASSUME NEW t \in Send \X Mqtt, StartConnect(t)
        PROVE  ConnectsUnderLock' /\ PublishesOnLiveClient'
    <2> DEFINE m == t[2]
               k == client[m] + 1
    <2>1. /\ m \in Mqtt /\ k \in Client /\ k # 0 /\ pc[t] = "lock" /\ holder[m] = NoTask
          /\ ~IsConnected(m)
          /\ holder' = [holder EXCEPT ![m] = t] /\ client' = [client EXCEPT ![m] = k]
          /\ status' = [status EXCEPT ![<<m, k>>] = "connecting"]
          /\ pc' = [pc EXCEPT ![t] = "connect"] /\ shut' = shut
      BY <1>0, <1>5 DEF StartConnect, TypeOK, Client
    <2> HIDE DEF k, m
    <2>2. ASSUME NEW u \in Send \X Mqtt, u[2] = m, u # t
          PROVE  pc[u] # "connect"
      <3>1. u # NoTask /\ holder[u[2]] = NoTask
        BY <1>0, <2>1, <2>2
      <3> QED BY <1>0, <3>1 DEF ConnectsUnderLock
    <2>3. \A u \in Send \X Mqtt : u[2] = m /\ pc[u] = "publish" => shut = "closed"
      BY <1>0, <2>1 DEF PublishesOnLiveClient, IsConnected
    <2>4. /\ holder'[m] = t /\ client'[m] = k /\ status'[<<m, k>>] = "connecting"
          /\ \A u \in Send \X Mqtt : u # t => pc'[u] = pc[u]
          /\ pc'[t] = "connect"
          /\ \A u \in Send \X Mqtt : u[2] # m =>
                /\ holder'[u[2]] = holder[u[2]] /\ client'[u[2]] = client[u[2]]
                /\ status'[<<u[2], client[u[2]]>>] = status[<<u[2], client[u[2]]>>]
      BY <1>0, <2>1 DEF TypeOK
    <2>5. ConnectsUnderLock'
      BY <1>0, <2>1, <2>2, <2>4 DEF ConnectsUnderLock, m
    <2>6. PublishesOnLiveClient'
      BY <1>0, <2>1, <2>3, <2>4 DEF PublishesOnLiveClient
    <2> QED BY <2>5, <2>6
  <1>6. ASSUME NEW t \in Send \X Mqtt, ConnectSucceeds(t) \/ ConnectFails(t)
        PROVE  ConnectsUnderLock' /\ PublishesOnLiveClient'
    <2> DEFINE m == t[2]
    <2>1. /\ m \in Mqtt /\ pc[t] = "connect" /\ holder[m] = t /\ client[m] # 0
          /\ client[m] \in Client
          /\ status[<<m, client[m]>>] = "connecting"
          /\ client' = client /\ shut' = shut
          /\ holder' = [holder EXCEPT ![m] = NoTask]
          /\ \/ /\ status' = [status EXCEPT ![<<m, client[m]>>] = "up"]
                /\ pc' = [pc EXCEPT ![t] = "publish"]
             \/ /\ status' = [status EXCEPT ![<<m, client[m]>>] = "off"]
                /\ pc' = [pc EXCEPT ![t] = "failed"]
      BY <1>0, <1>6 DEF ConnectSucceeds, ConnectFails, AfterFailedConnect, EndTask, TypeOK, Client,
                        ConnectsUnderLock
    <2> HIDE DEF m
    <2>2. \A u \in Send \X Mqtt : u[2] = m /\ u # t => pc[u] # "connect"
      BY <1>0, <2>1 DEF ConnectsUnderLock
    <2>3. \A u \in Send \X Mqtt : u[2] = m /\ pc[u] = "publish" => shut = "closed"
      BY <1>0, <2>1 DEF PublishesOnLiveClient
    <2>4. /\ \A u \in Send \X Mqtt : u # t => pc'[u] = pc[u]
          /\ pc'[t] # "connect"
          /\ pc'[t] = "publish" => status'[<<m, client[m]>>] = "up"
          /\ \A u \in Send \X Mqtt : u[2] # m =>
                /\ holder'[u[2]] = holder[u[2]]
                /\ client[u[2]] # 0 =>
                     status'[<<u[2], client[u[2]]>>] = status[<<u[2], client[u[2]]>>]
      <3>1. /\ \A u \in Send \X Mqtt : u # t => pc'[u] = pc[u]
            /\ pc'[t] \in {"publish", "failed"}
        BY <1>0, <2>1 DEF TypeOK
      <3>2. <<m, client[m]>> \in Mqtt \X Client
        BY <2>1
      <3>3. pc'[t] = "publish" => status'[<<m, client[m]>>] = "up"
        BY <1>0, <2>1, <3>2 DEF TypeOK
      <3>4. ASSUME NEW u \in Send \X Mqtt, u[2] # m
            PROVE  /\ holder'[u[2]] = holder[u[2]]
                   /\ client[u[2]] # 0 =>
                        status'[<<u[2], client[u[2]]>>] = status[<<u[2], client[u[2]]>>]
        <4>1. holder'[u[2]] = holder[u[2]]
          BY <1>0, <2>1, <3>4 DEF TypeOK
        <4>2. /\ <<u[2], client[u[2]]>> # <<m, client[m]>>
              /\ client[u[2]] # 0 => <<u[2], client[u[2]]>> \in Mqtt \X Client
          BY <1>0, <3>4 DEF TypeOK, Client
        <4>3. \A p \in Mqtt \X Client : p # <<m, client[m]>> => status'[p] = status[p]
          BY <1>0, <2>1 DEF TypeOK
        <4> QED BY <4>1, <4>2, <4>3
      <3> QED BY <3>1, <3>3, <3>4
    <2>5. ConnectsUnderLock'
      BY <1>0, <2>1, <2>2, <2>4 DEF ConnectsUnderLock
    <2>6. PublishesOnLiveClient'
      BY <1>0, <2>1, <2>3, <2>4 DEF PublishesOnLiveClient, m
    <2> QED BY <2>5, <2>6
  <1>7. ASSUME NEW t \in Send \X Mqtt, Publish(t) \/ TokenFails(t) \/ Acknowledge(t)
        PROVE  ConnectsUnderLock' /\ PublishesOnLiveClient'
    BY <1>0, <1>7 DEF Publish, TokenFails, Acknowledge, EndTask, TypeOK, ConnectsUnderLock,
                      PublishesOnLiveClient
  <1>8. ASSUME NEW m \in Mqtt, NEW k \in Client, LoseConnection(m, k) \/ Reconnect(m, k)
        PROVE  ConnectsUnderLock' /\ PublishesOnLiveClient'
    <2>1. /\ UNCHANGED <<pc, shut, client, holder>>
          /\ status[<<m, k>>] \in {"up", "reconnecting"} /\ <<m, k>> \in Mqtt \X Client
          /\ \/ status' = [status EXCEPT ![<<m, k>>] = "up"]
             \/ status' = [status EXCEPT ![<<m, k>>] = "reconnecting"]
      BY <1>8 DEF LoseConnection, Reconnect
    <2>2. \A p \in Mqtt \X Client : \/ status'[p] = status[p]
                                   \/ {status[p], status'[p]} \subseteq {"up", "reconnecting"}
      BY <1>0, <2>1 DEF TypeOK
    <2>3. \A u \in Send \X Mqtt : client[u[2]] # 0 => <<u[2], client[u[2]]>> \in Mqtt \X Client
      BY <1>0 DEF TypeOK, Client
    <2> QED BY <1>0, <2>1, <2>2, <2>3 DEF ConnectsUnderLock, PublishesOnLiveClient
  <1>9. CASE CloseSinks
    <2>1. ASSUME NEW t \in Send \X Mqtt, pc[t] = "connect"
          PROVE  status'[<<t[2], client[t[2]]>>] = "connecting"
      <3>1. <<t[2], client[t[2]]>> \in Mqtt \X Client
        BY <1>0, <2>1 DEF TypeOK, Client, ConnectsUnderLock
      <3> QED BY <1>0, <1>9, <2>1, <3>1 DEF CloseSinks, ConnectsUnderLock
    <2>2. shut' = "closed" /\ UNCHANGED <<pc, client, holder>>
      BY <1>9 DEF CloseSinks
    <2>3. ConnectsUnderLock'
      BY <1>0, <2>1, <2>2 DEF ConnectsUnderLock
    <2>4. PublishesOnLiveClient'
      BY <2>2 DEF PublishesOnLiveClient
    <2> QED BY <2>3, <2>4
  <1>10. CASE CallShutdown \/ WaitReturns \/ UNCHANGED vars
    BY <1>0, <1>10 DEF CallShutdown, WaitReturns, vars, ConnectsUnderLock, PublishesOnLiveClient
  <1> QED BY <1>1, <1>2, <1>3, <1>4, <1>5, <1>6, <1>7, <1>8, <1>9, <1>10
          DEF Next, LockStep, MqttStep

\* A Send publishes with a connected client although it gave the mutex back
\* before, until Shutdown closes the sinks.
THEOREM ClientStaysLive == Spec => []PublishesOnLiveClient
  <1>1. ClientInv => PublishesOnLiveClient
    BY DEF ClientInv
  <1>2. OutputAssumption /\ Init => ClientInv
    BY TypeInit, TaskKinds DEF ClientInv, Init, ConnectsUnderLock, PublishesOnLiveClient
  <1>3. OutputAssumption /\ ClientInv /\ [Next]_vars => ClientInv'
    BY ClientStep
  <1> QED BY <1>1, <1>2, <1>3, OutputAssumption, PTL DEF Spec

-------------------------------------------------------------------------------
(* Shutdown                                                                *)

ShutdownInv == TypeInv /\ ShutdownWaits

\* Every step keeps it.
LEMMA ShutdownStep ==
    ASSUME OutputAssumption, ShutdownInv, [Next]_vars
    PROVE  ShutdownInv'
  <1>0. /\ TypeOK /\ ShutdownWaits /\ TypeInv
        /\ Send \X Http \subseteq Task /\ Send \X Mqtt \subseteq Task
    BY TaskKinds DEF ShutdownInv, TypeInv
  <1>w. TypeInv'
    BY TypeStep DEF ShutdownInv
  <1> SUFFICES ShutdownWaits'
    BY <1>w DEF ShutdownInv
  <1>1. CASE CallSend
    BY <1>0, <1>1 DEF CallSend, TypeOK, ShutdownWaits
  <1>2. ASSUME NEW t \in Task, StartTask(t)
        PROVE  ShutdownWaits'
    BY <1>0, <1>2 DEF StartTask, TypeOK, ShutdownWaits
  <1>3. ASSUME NEW t \in Task,
               \/ BeginTask(t)
               \/ HttpStep(t) /\ t \in Send \X Http
               \/ (LockStep(t) \/ MqttStep(t) \/ Acknowledge(t)) /\ t \in Send \X Mqtt
        PROVE  ShutdownWaits'
    <2>1. /\ pc[t] \in {"spawned", "post", "lock", "connect", "publish", "wait"}
          /\ \A u \in Task : u # t => pc'[u] = pc[u]
          /\ shut' = shut /\ begunLate' = begunLate
      BY <1>0, <1>3 DEF BeginTask, HttpStep, Post, LockStep, FindConnected, StartConnect, MqttStep,
                        ConnectSucceeds, ConnectFails, Publish, TokenFails, Acknowledge, EndTask,
                        TypeOK
    <2> QED BY <1>0, <2>1 DEF ShutdownWaits, Ended
  <1>4. CASE WaitReturns
    <2>1. Running = {}
      BY <1>0, <1>4, RunningFinite DEF WaitReturns, TypeInv, WaitGroupCounts
    <2>2. \A t \in Task : pc[t] \in {"none", "due"} \cup Ended
      BY <1>0, <2>1 DEF Running, Begun, TypeOK
    <2> QED BY <1>4, <2>2 DEF WaitReturns, ShutdownWaits
  <1>5. CASE CloseSinks \/ CallShutdown
    BY <1>0, <1>5 DEF CloseSinks, CallShutdown, ShutdownWaits
  <1>6. ASSUME NEW m \in Mqtt, NEW k \in Client, LoseConnection(m, k) \/ Reconnect(m, k)
        PROVE  ShutdownWaits'
    BY <1>0, <1>6 DEF LoseConnection, Reconnect, ShutdownWaits
  <1>7. CASE UNCHANGED vars
    BY <1>0, <1>7 DEF vars, ShutdownWaits
  <1> QED BY <1>0, <1>1, <1>2, <1>3, <1>4, <1>5, <1>6, <1>7 DEF Next

\* Shutdown closes no sink under a goroutine that was started before its wait
\* was over.
THEOREM ShutdownIsOrderly == Spec => []ShutdownWaits
  <1>1. ShutdownInv => ShutdownWaits
    BY DEF ShutdownInv
  <1>2. OutputAssumption /\ Init => ShutdownInv
    BY TypeInit DEF ShutdownInv, Init, ShutdownWaits
  <1>3. OutputAssumption /\ ShutdownInv /\ [Next]_vars => ShutdownInv'
    BY ShutdownStep
  <1> QED BY <1>1, <1>2, <1>3, OutputAssumption, PTL DEF Spec

-------------------------------------------------------------------------------
(* The contract                                                            *)

\* Every step is one of the contract, or changes nothing of it.
LEMMA ContractStep ==
    ASSUME OutputAssumption, DeliveryInv, [Next]_vars
    PROVE  [Contract!ContractNext]_(Contract!contractVars)
  <1> DEFINE Stages == [t \in Task |-> Stage(pc[t])]
             Stops == shut \in {"closing", "closed"}
             Most == [t \in Task |-> IF t[2] \in Http THEN MaxPosts ELSE 1]
             Unfit == {t \in Task : t[1] \in BadSends}
  <1>0. /\ TypeOK /\ TypeInv /\ BadStaysIn
        /\ Send \X Http \subseteq Task /\ Send \X Mqtt \subseteq Task
        /\ \A t \in Send \X Http : t[2] \in Http
        /\ \A t \in Send \X Mqtt : t[2] \notin Http
    BY TaskKinds DEF DeliveryInv, TypeInv
  <1>1. CASE UNCHANGED <<Stages, delivered, Stops>>
    BY <1>1 DEF Contract!contractVars
  <1>2. ASSUME NEW t \in Task, NEW place \in Place, pc' = [pc EXCEPT ![t] = place]
        PROVE  Stages' = [Stages EXCEPT ![t] = Stage(place)]
    BY <1>0, <1>2 DEF TypeOK
  <1>3. ASSUME NEW t \in Task, NEW place \in Place, pc' = [pc EXCEPT ![t] = place],
               pc[t] \in Begun, place \in Begun \cup {"failed"},
               delivered' = delivered, shut' = shut
        PROVE  [Contract!ContractNext]_(Contract!contractVars)
    <2>1. Stages[t] = "running" /\ Stages' = [Stages EXCEPT ![t] = Stage(place)]
      BY <1>2, <1>3 DEF Stage, Begun, Ended
    <2>2. CASE place \in Begun
      <3>1. Stages' = Stages
        BY <2>1, <2>2 DEF Stage, Begun, Ended
      <3> QED BY <1>1, <1>3, <3>1
    <2>3. CASE place = "failed"
      <3>1. Contract!GiveUp(t)
        BY <1>3, <2>1, <2>3 DEF Contract!GiveUp, Stage, Ended
      <3> QED BY <3>1 DEF Contract!ContractNext
    <2> QED BY <1>3, <2>2, <2>3
  <1>4. ASSUME NEW t \in Task, NEW place \in {"post", "ok", "failed"},
               pc' = [pc EXCEPT ![t] = place], pc[t] \in {"post", "wait"},
               delivered[t] < Most[t], delivered' = [delivered EXCEPT ![t] = @ + 1],
               shut' = shut
        PROVE  [Contract!ContractNext]_(Contract!contractVars)
    <2>1. place \in Place /\ Stages[t] = "running"
      BY <1>4 DEF Place, Stage, Ended
    <2>2. Stages' = [Stages EXCEPT ![t] = Stage(place)]
      BY <1>2, <1>4, <2>1
    <2>3. t \notin Unfit
      BY <1>0, <1>4 DEF BadStaysIn
    <2>4. Stage(place) \in {"running", "ok", "failed"}
      BY DEF Stage, Ended
    <2>5. Contract!Receive(t, Stage(place))
      BY <1>4, <2>1, <2>2, <2>3 DEF Contract!Receive
    <2> QED BY <2>4, <2>5 DEF Contract!ContractNext
  <1>5. CASE CallSend
    <2> DEFINE S == {t \in Task : t[1] = sent'}
    <2>1. \A t \in S : Stages[t] = "none"
      <3>1. \A t \in S : t \in Task /\ t[1] > sent
        BY <1>0, <1>5 DEF CallSend, TypeOK
      <3>2. \A t \in S : pc[t] = "none"
        BY <1>0, <3>1 DEF TypeInv, CallsCome
      <3> QED BY <3>2 DEF Stage
    <2>2. Stages' = [t \in Task |-> IF t \in S THEN "asked" ELSE Stages[t]]
      BY <1>0, <1>5 DEF CallSend, TypeOK, Stage
    <2>3. Contract!Ask(S)
      BY <1>5, <2>1, <2>2 DEF CallSend, Contract!Ask
    <2>4. S \in SUBSET Task
      OBVIOUS
    <2> QED BY <2>3, <2>4 DEF Contract!ContractNext
  <1>6. ASSUME NEW t \in Task, StartTask(t)
        PROVE  [Contract!ContractNext]_(Contract!contractVars)
    <2>1. /\ Stages[t] = "asked" /\ Stages' = [Stages EXCEPT ![t] = Stage("spawned")]
          /\ Stage("spawned") = "running"
      BY <1>2, <1>6 DEF StartTask, Place, Stage, Ended
    <2>2. Contract!Start(t)
      BY <1>6, <2>1 DEF StartTask, Contract!Start
    <2> QED BY <2>2 DEF Contract!ContractNext
  <1>7. ASSUME NEW t \in Task, BeginTask(t)
        PROVE  [Contract!ContractNext]_(Contract!contractVars)
    <2>1. \E place \in {"post", "lock", "failed"} :
             pc' = [pc EXCEPT ![t] = place] /\ pc[t] = "spawned"
             /\ delivered' = delivered /\ shut' = shut
      BY <1>7 DEF BeginTask, EndTask
    <2> QED BY <1>3, <2>1 DEF Place, Begun, Ended
  <1>8. ASSUME NEW t \in Send \X Http, NEW outcome \in {"2xx", "other", "late", "none"},
               Post(t, outcome)
        PROVE  [Contract!ContractNext]_(Contract!contractVars)
    <2>1. t \in Task /\ pc[t] = "post" /\ shut' = shut
      BY <1>0, <1>8 DEF Post
    <2>2. /\ delivered' \in {delivered, [delivered EXCEPT ![t] = @ + 1]}
          /\ \E place \in {"post", "ok", "failed"} :
                /\ pc' = [pc EXCEPT ![t] = place]
                /\ place = "ok" => delivered' = [delivered EXCEPT ![t] = @ + 1]
      BY <1>0, <1>8, <2>1 DEF Post, EndTask, Accepted, TypeOK
    <2>3. delivered[t] < Most[t]
      <3>1. /\ delivered[t] <= posts[t] /\ posts[t] < MaxPosts
            /\ delivered[t] \in Nat /\ posts[t] \in Nat /\ MaxPosts \in Nat
        BY <1>0, <2>1 DEF TypeInv, PostsCount, TypeOK, OutputAssumption
      <3>2. Most[t] = MaxPosts
        BY <1>0, <2>1
      <3> QED BY <3>1, <3>2
    <2>4. PICK place \in {"post", "ok", "failed"} :
             /\ pc' = [pc EXCEPT ![t] = place]
             /\ place = "ok" => delivered' = [delivered EXCEPT ![t] = @ + 1]
      BY <2>2
    <2>5. CASE delivered' = [delivered EXCEPT ![t] = @ + 1]
      BY <1>4, <2>1, <2>3, <2>4, <2>5
    <2>6. CASE delivered' = delivered /\ place # "ok"
      <3>1. place \in Place /\ place \in Begun \cup {"failed"} /\ pc[t] \in Begun
        BY <2>1, <2>6 DEF Place, Begun, Ended
      <3> QED BY <1>3, <2>1, <2>4, <2>6, <3>1
    <2> QED BY <2>2, <2>4, <2>5, <2>6
  <1>9. ASSUME NEW t \in Send \X Mqtt, LockStep(t) \/ MqttStep(t)
        PROVE  [Contract!ContractNext]_(Contract!contractVars)
    <2>1. t \in Task /\ delivered' = delivered /\ shut' = shut /\ pc[t] \in Begun
      BY <1>0, <1>9 DEF LockStep, FindConnected, StartConnect, MqttStep, ConnectSucceeds,
                        ConnectFails, Publish, TokenFails, Begun
    <2>2. \E place \in {"connect", "publish", "wait", "failed"} : pc' = [pc EXCEPT ![t] = place]
      BY <1>9 DEF LockStep, FindConnected, StartConnect, MqttStep, ConnectSucceeds,
                  ConnectFails, Publish, TokenFails, EndTask
    <2> QED BY <1>3, <2>1, <2>2 DEF Place, Begun, Ended
  <1>10. ASSUME NEW t \in Send \X Mqtt, Acknowledge(t)
         PROVE  [Contract!ContractNext]_(Contract!contractVars)
    <2>1. /\ t \in Task /\ pc[t] = "wait" /\ pc' = [pc EXCEPT ![t] = "ok"] /\ shut' = shut
          /\ delivered' = [delivered EXCEPT ![t] = @ + 1]
      BY <1>0, <1>10 DEF Acknowledge, EndTask
    <2>2. delivered[t] = 0 /\ Most[t] = 1
      BY <1>0, <2>1 DEF TypeInv, AckEnds
    <2>3. delivered[t] < Most[t]
      BY <2>2
    <2> HIDE DEF Most
    <2> QED BY <1>4, <2>1, <2>3
  <1>11. CASE WaitReturns
    <2>1. Running = {}
      BY <1>0, <1>11, RunningFinite DEF WaitReturns, TypeInv, WaitGroupCounts
    <2>2. \A t \in Task : Stages[t] # "running"
      <3>1. \A t \in Task : pc[t] \in {"none", "due"} \cup Ended
        BY <1>0, <2>1 DEF Running, Begun, TypeOK
      <3> QED BY <3>1 DEF Stage, Ended
    <2>3. Contract!Stop
      BY <1>11, <2>2 DEF WaitReturns, Contract!Stop
    <2> QED BY <2>3 DEF Contract!ContractNext
  <1>12. CASE UNCHANGED <<pc, delivered, shut>>
    BY <1>1, <1>12
  <1>13. ASSUME NEW m \in Mqtt, NEW k \in Client, LoseConnection(m, k) \/ Reconnect(m, k)
         PROVE  [Contract!ContractNext]_(Contract!contractVars)
    BY <1>12, <1>13 DEF LoseConnection, Reconnect
  <1>14. CASE CallShutdown \/ CloseSinks
    BY <1>1, <1>14 DEF CallShutdown, CloseSinks
  <1>15. CASE UNCHANGED vars
    BY <1>12, <1>15 DEF vars
  <1> QED BY <1>5, <1>6, <1>7, <1>8, <1>9, <1>10, <1>11, <1>13, <1>14, <1>15 DEF Next, HttpStep

\* The outputs implement their contract, for any number of sinks, calls, posts and
\* lost connections: nothing is taken more often than it may be, none after its
\* goroutine ended, and Shutdown stops waiting only when no goroutine runs.
THEOREM OutputsImplementContract == Spec => KeepsContract
  <1>1. Init => Contract!ContractInit
    BY DEF Init, Stage, Contract!ContractInit
  <1>2. OutputAssumption /\ Init => DeliveryInv
    BY TypeInit DEF DeliveryInv, Init, BadStaysIn, DeliveredAsReported
  <1>3. OutputAssumption /\ DeliveryInv /\ [Next]_vars => DeliveryInv'
    BY DeliveryStep
  <1>4. OutputAssumption /\ DeliveryInv /\ [Next]_vars
            => [Contract!ContractNext]_(Contract!contractVars)
    BY ContractStep
  <1> QED BY <1>1, <1>2, <1>3, <1>4, OutputAssumption, PTL
          DEF Spec, KeepsContract, Contract!ContractSpec
===============================================================================
