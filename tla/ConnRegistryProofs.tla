-------------------------- MODULE ConnRegistryProofs --------------------------
(***************************************************************************)
(* Proofs about ConnRegistry for every set of gateways, every number of      *)
(* connections, failing calls to Redis and restarts of the server.          *)
(***************************************************************************)
EXTENDS ConnRegistry, TLAPS

\* No connection has the number that stands for none; so an entry with all
\* fields is never mistaken for another, nor for no entry.
LEMMA EntryFacts ==
    /\ NoEntry \in Entry /\ PartialEntry \in Entry /\ NoEntry # PartialEntry
    /\ \A c \in Conn : /\ EntryOf(c) \in Entry
                       /\ EntryOf(c) # NoEntry /\ EntryOf(c) # PartialEntry
                       /\ EntryOf(c).kind = "full" /\ EntryOf(c).id = c
    /\ \A e \in Entry : e.kind = "full" => e.id \in Conn /\ e = EntryOf(e.id)
    /\ NoEntry.kind # "full" /\ PartialEntry.kind # "full"
  <1>1. /\ NoEntry.kind = "none" /\ PartialEntry.kind = "partial"
        /\ \A c \in Conn : EntryOf(c).kind = "full" /\ EntryOf(c).id = c
    BY DEF NoEntry, PartialEntry, EntryOf
  <1>2. Entry = {NoEntry, PartialEntry} \cup {EntryOf(c) : c \in Conn}
    BY DEF Entry
  <1> QED BY <1>1, <1>2

\* A change to the entry of one gateway in the manager in use leaves every other
\* entry, of either manager, as it was.
LEMMA StoredFacts ==
    ASSUME TypeOK, NEW s \in SN, NEW e \in Entry, store' = Stored(s, e)
    PROVE  /\ store' \in [Managers -> [SN -> Entry]]
           /\ \A m \in Managers, t \in SN :
                store'[m][t] = IF m = manager /\ t = s THEN e ELSE store[m][t]
  BY DEF TypeOK, Stored

\* What a heartbeat leaves is an entry; with all fields it was there before.
LEMMA RefreshedFacts ==
    ASSUME TypeOK, NEW s \in SN
    PROVE  /\ Lookup(s) \in Entry /\ Refreshed(s) \in Entry
           /\ Refreshed(s).kind = "full" => Refreshed(s) = Lookup(s)
           /\ Lookup(s) # NoEntry => Refreshed(s) = Lookup(s)
  BY EntryFacts DEF TypeOK, Lookup, Refreshed
-------------------------------------------------------------------------------
(* Type correctness                                                        *)

\* Nothing is stored and no connection was made when the server first starts.
LEMMA TypeInit == ASSUME RegistryAssumption, Init PROVE TypeOK
  BY EntryFacts DEF Init, TypeOK, RegistryAssumption, Phases

\* Every step of a handler, a gateway or the server keeps the types.
LEMMA TypeStep ==
    ASSUME RegistryAssumption, TypeOK, [Next]_vars
    PROVE  TypeOK'
  <1>1. ASSUME NEW c \in Conn, Dial(c) \/ HandshakeStep(c) \/ ReceiveHeartbeat(c)
        PROVE  TypeOK'
    BY <1>1 DEF Dial, HandshakeStep, AuthFails, Authenticate, ReceiveHeartbeat, TypeOK, Phases
  <1>2. ASSUME NEW c \in Conn, ReadFails(c) \/ RedisFails(c)
        PROVE  TypeOK'
    BY <1>2 DEF ReadFails, RedisFails, TypeOK, Phases, RegistryAssumption
  <1>3. ASSUME NEW c \in Conn, Register(c) \/ UpdateHeartbeat(c) \/ Cleanup(c)
        PROVE  TypeOK'
    <2>1. owner[c] \in SN /\ EntryOf(c) \in Entry /\ NoEntry \in Entry
      BY EntryFacts DEF TypeOK
    <2>2. Refreshed(owner[c]) \in Entry
      BY <2>1, RefreshedFacts
    <2>3. store' \in [Managers -> [SN -> Entry]]
      BY <1>3, <2>1, <2>2, StoredFacts DEF Register, UpdateHeartbeat, Cleanup, Registered, Removed
    <2> QED BY <1>3, <2>3 DEF Register, UpdateHeartbeat, Cleanup, TypeOK, Phases
  <1>4. ASSUME NEW s \in SN, DialFails(s) \/ HangUp(s)
        PROVE  TypeOK'
    BY <1>4 DEF DialFails, HangUp, TypeOK, vars
  <1>5. CASE RestartServer
    BY <1>5, EntryFacts DEF RestartServer, TypeOK, Phases, RegistryAssumption, Managers
  <1>6. CASE UNCHANGED vars
    BY <1>6 DEF TypeOK, vars
  <1> QED BY <1>1, <1>2, <1>3, <1>4, <1>5, <1>6 DEF Next, HandlerStep

\* The variables of the registry and of the handlers keep their types.
THEOREM TypeCorrect == Spec => []TypeOK
  <1>1. RegistryAssumption /\ Init => TypeOK
    BY TypeInit
  <1>2. RegistryAssumption /\ TypeOK /\ [Next]_vars => TypeOK'
    BY TypeStep
  <1> QED BY <1>1, <1>2, RegistryAssumption, PTL DEF Spec
-------------------------------------------------------------------------------
(* What a full registration says                                           *)

\* ListedWasAuthenticated of what either manager holds, the one in use and the
\* one an earlier or a later run of the server uses: a restart changes which of
\* them answers.
StoredWasAuthenticated ==
    \A m \in Managers, s \in SN : store[m][s].kind = "full" =>
        LET c == store[m][s].id
        IN  owner[c] = s /\ phase[c] \in {"serving", "beating", "ending", "gone"}

\* A full registration of either manager survives every step as one of a
\* connection of the same gateway that got through the authentication.
LEMMA StoredStep ==
    ASSUME RegistryAssumption, TypeOK, StoredWasAuthenticated, [Next]_vars
    PROVE  StoredWasAuthenticated'
  <1> DEFINE Past == {"serving", "beating", "ending", "gone"}
  <1> SUFFICES ASSUME NEW m \in Managers, NEW s \in SN, store'[m][s].kind = "full"
               PROVE  /\ owner'[store'[m][s].id] = s
                      /\ phase'[store'[m][s].id] \in Past
    BY DEF StoredWasAuthenticated
  <1>0. /\ store[m][s] \in Entry
        /\ store[m][s].kind = "full" =>
              /\ store[m][s].id \in Conn
              /\ owner[store[m][s].id] = s /\ phase[store[m][s].id] \in Past
    BY EntryFacts DEF StoredWasAuthenticated, TypeOK
  <1>1. ASSUME NEW c \in Conn,
               Dial(c) \/ HandshakeStep(c) \/ ReceiveHeartbeat(c) \/ ReadFails(c) \/ RedisFails(c)
        PROVE  owner'[store'[m][s].id] = s /\ phase'[store'[m][s].id] \in Past
    <2>1. store' = store /\ owner' = owner
      BY <1>1 DEF Dial, HandshakeStep, AuthFails, Authenticate, ReceiveHeartbeat, ReadFails, RedisFails
    <2>2. \A d \in Conn : phase[d] \in Past => phase'[d] \in Past
      BY <1>1 DEF Dial, HandshakeStep, AuthFails, Authenticate, ReceiveHeartbeat, ReadFails,
                  RedisFails, TypeOK
    <2> QED BY <1>0, <2>1, <2>2
  <1>2. ASSUME NEW c \in Conn, Register(c) \/ UpdateHeartbeat(c) \/ Cleanup(c)
        PROVE  owner'[store'[m][s].id] = s /\ phase'[store'[m][s].id] \in Past
    <2>1. owner[c] \in SN /\ owner' = owner
      BY <1>2 DEF Register, UpdateHeartbeat, Cleanup, TypeOK
    <2>2. /\ \A d \in Conn : phase[d] \in Past => phase'[d] \in Past
          /\ phase'[c] \in Past
      BY <1>2 DEF Register, UpdateHeartbeat, Cleanup, TypeOK
    <2>3. store'[m][s] = store[m][s] \/ (s = owner[c] /\ store'[m][s] = EntryOf(c))
      <3>1. CASE Register(c)
        BY <3>1, <2>1, EntryFacts, StoredFacts DEF Register, Registered
      <3>2. CASE UpdateHeartbeat(c)
        BY <3>2, <2>1, RefreshedFacts, StoredFacts DEF UpdateHeartbeat, Lookup
      <3>3. CASE Cleanup(c)
        BY <3>3, <2>1, EntryFacts, StoredFacts DEF Cleanup, Removed
      <3> QED BY <1>2, <3>1, <3>2, <3>3
    <2> QED BY <1>0, <2>1, <2>2, <2>3, EntryFacts
  <1>3. ASSUME NEW t \in SN, DialFails(t) \/ HangUp(t)
        PROVE  owner'[store'[m][s].id] = s /\ phase'[store'[m][s].id] \in Past
    BY <1>0, <1>3 DEF DialFails, HangUp, vars
  <1>4. CASE RestartServer
    <2>1. store'[m][s] = store[m][s]
      BY <1>4, EntryFacts DEF RestartServer, TypeOK, Managers
    <2>2. \A d \in Conn : phase[d] \in Past => phase'[d] \in Past
      BY <1>4 DEF RestartServer
    <2> QED BY <1>0, <1>4, <2>1, <2>2 DEF RestartServer
  <1>5. CASE UNCHANGED vars
    BY <1>0, <1>5 DEF vars
  <1> QED BY <1>1, <1>2, <1>3, <1>4, <1>5 DEF Next, HandlerStep

\* A gateway that is listed with all fields had got through authenticateClient
\* on a connection of its own, whichever manager answers and however often the
\* server was restarted.
THEOREM ListingIsAuthenticated == Spec => []ListedWasAuthenticated
  <1> DEFINE Inv == TypeOK /\ StoredWasAuthenticated
  <1>1. RegistryAssumption /\ Init => Inv
    BY TypeInit, EntryFacts DEF Init, StoredWasAuthenticated
  <1>2. RegistryAssumption /\ Inv /\ [Next]_vars => Inv'
    BY TypeStep, StoredStep
  <1>3. Inv => ListedWasAuthenticated
    BY DEF StoredWasAuthenticated, ListedWasAuthenticated, Lookup, TypeOK
  <1> QED BY <1>1, <1>2, <1>3, RegistryAssumption, PTL DEF Spec
-------------------------------------------------------------------------------
(* What is left when the last handler has ended                            *)

\* Only the steps of a handler of gateway s change its entry, and such a step
\* leaves a handler or no entry, or it is a failed call.
LEMMA NoGhostStep ==
    ASSUME RegistryAssumption, TypeOK, NoGhost, [Next]_vars
    PROVE  NoGhost'
  <1> DEFINE Active == {"authed", "serving", "beating", "ending"}
  <1> SUFFICES ASSUME NEW s \in SN, s \notin upset', Handlers(s)' = {}
               PROVE  Lookup(s)' = NoEntry
    BY DEF NoGhost
  <1>0. \A c \in Conn : owner'[c] = s => phase'[c] \notin Active
    BY DEF Handlers
  <1>h. (\A c \in Conn : owner[c] = s => phase[c] \notin Active) => Handlers(s) = {}
    BY DEF Handlers
  <1>1. ASSUME NEW c \in Conn,
               Dial(c) \/ HandshakeStep(c) \/ ReceiveHeartbeat(c) \/ ReadFails(c)
        PROVE  Lookup(s)' = NoEntry
    <2>1. /\ store' = store /\ manager' = manager /\ upset' = upset /\ owner' = owner
          /\ \A d \in Conn : phase[d] \in Active => phase'[d] \in Active
      BY <1>1 DEF Dial, HandshakeStep, AuthFails, Authenticate, ReceiveHeartbeat, ReadFails, TypeOK
    <2> QED BY <1>0, <1>h, <2>1 DEF NoGhost, Lookup
  <1>2. ASSUME NEW c \in Conn, RedisFails(c)
        PROVE  Lookup(s)' = NoEntry
    <2>1. /\ store' = store /\ manager' = manager /\ owner' = owner
          /\ owner[c] # s /\ s \notin upset
          /\ \A d \in Conn : d # c => phase'[d] = phase[d]
      BY <1>2 DEF RedisFails, TypeOK
    <2> QED BY <1>0, <1>h, <2>1 DEF NoGhost, Lookup
  <1>3. ASSUME NEW c \in Conn, Register(c) \/ UpdateHeartbeat(c)
        PROVE  Lookup(s)' = NoEntry
    <2>1. /\ manager' = manager /\ upset' = upset /\ owner' = owner
          /\ phase[c] \in Active /\ phase'[c] \in Active
          /\ \A d \in Conn : d # c => phase'[d] = phase[d]
          /\ owner[c] \in SN
      BY <1>3 DEF Register, UpdateHeartbeat, TypeOK
    <2>2. owner[c] # s /\ Handlers(s) = {}
      BY <1>0, <1>h, <2>1
    <2>3. store'[manager][s] = store[manager][s]
      BY <1>3, <2>1, <2>2, EntryFacts, RefreshedFacts, StoredFacts
         DEF Register, Registered, UpdateHeartbeat, TypeOK
    <2> QED BY <2>1, <2>2, <2>3 DEF NoGhost, Lookup
  <1>4. ASSUME NEW c \in Conn, Cleanup(c)
        PROVE  Lookup(s)' = NoEntry
    <2>1. /\ manager' = manager /\ upset' = upset /\ owner' = owner
          /\ \A d \in Conn : d # c => phase'[d] = phase[d]
          /\ owner[c] \in SN
      BY <1>4 DEF Cleanup, TypeOK
    <2>2. CASE owner[c] = s
      BY <1>4, <2>1, <2>2, EntryFacts, StoredFacts DEF Cleanup, Removed, Lookup, TypeOK
    <2>3. CASE owner[c] # s
      <3>1. store'[manager][s] = store[manager][s]
        BY <1>4, <2>1, <2>3, EntryFacts, StoredFacts DEF Cleanup, Removed, TypeOK
      <3> QED BY <1>0, <1>h, <2>1, <2>3, <3>1 DEF NoGhost, Lookup
    <2> QED BY <2>2, <2>3
  <1>5. ASSUME NEW t \in SN, DialFails(t) \/ HangUp(t)
        PROVE  Lookup(s)' = NoEntry
    <2>1. UNCHANGED <<manager, store, phase, owner, upset>>
      BY <1>5 DEF DialFails, HangUp, vars
    <2> QED BY <1>0, <1>h, <2>1 DEF NoGhost, Lookup
  <1>6. CASE RestartServer
    BY <1>6 DEF RestartServer, Lookup, TypeOK, Managers
  <1>7. CASE UNCHANGED vars
    BY <1>0, <1>h, <1>7 DEF NoGhost, Lookup, vars
  <1> QED BY <1>1, <1>2, <1>3, <1>4, <1>5, <1>6, <1>7 DEF Next, HandlerStep

\* Nothing is registered at the start.
LEMMA NoGhostInit == ASSUME Init PROVE NoGhost
  BY DEF Init, NoGhost, Lookup

\* However many handlers of a gateway overlapped, and whatever heartbeats were
\* written after a cleanup, the last of its handlers to end leaves no entry: the
\* stale listings come from failed calls and restarts alone.
THEOREM LastCleanupUnlists == Spec => []NoGhost
  <1> DEFINE Inv == TypeOK /\ NoGhost
  <1>1. RegistryAssumption /\ Init => Inv
    BY TypeInit, NoGhostInit
  <1>2. RegistryAssumption /\ Inv /\ [Next]_vars => Inv'
    BY TypeStep, NoGhostStep
  <1> QED BY <1>1, <1>2, RegistryAssumption, PTL DEF Spec
-------------------------------------------------------------------------------
(* A gateway whose handlers never overlap                                  *)

\* At most one handler, listed with its own connection while it serves.
AloneInv ==
    \A s \in SN \ (overlapped \cup upset) :
        /\ \A c, d \in Handlers(s) : c = d
        /\ \A c \in Handlers(s) : Serves(c) => Lookup(s) = EntryOf(c)

\* The one handler of a gateway keeps its registration in every step.
LEMMA AloneStep ==
    ASSUME RegistryAssumption, TypeOK, AloneInv, [Next]_vars
    PROVE  AloneInv'
  <1> DEFINE Active == {"authed", "serving", "beating", "ending"}
             Mine(c, s) == owner[c] = s /\ phase[c] \in Active
  <1> SUFFICES ASSUME NEW s \in SN, s \notin overlapped', s \notin upset',
                      NEW c \in Conn, Mine(c, s)'
               PROVE  /\ \A d \in Conn : Mine(d, s)' => d = c
                      /\ phase'[c] \in {"serving", "beating"} => Lookup(s)' = EntryOf(c)
    BY DEF AloneInv, Handlers, Serves
  <1> DEFINE Goal == /\ \A d \in Conn : Mine(d, s)' => d = c
                     /\ phase'[c] \in {"serving", "beating"} => Lookup(s)' = EntryOf(c)
  <1>0. s \notin overlapped \cup upset =>
          /\ \A d, e \in Conn : Mine(d, s) /\ Mine(e, s) => d = e
          /\ \A d \in Conn : Mine(d, s) /\ phase[d] \in {"serving", "beating"}
                               => Lookup(s) = EntryOf(d)
    BY DEF AloneInv, Handlers, Serves
  <1>1. ASSUME NEW b \in Conn,
               Dial(b) \/ AuthFails(b) \/ ReceiveHeartbeat(b) \/ ReadFails(b)
        PROVE  Goal
    <2>1. /\ UNCHANGED <<manager, store, owner, overlapped, upset>>
          /\ \A d \in Conn : /\ phase'[d] \in Active => phase[d] \in Active
                             /\ phase'[d] \in {"serving", "beating"}
                                  => phase[d] \in {"serving", "beating"}
      BY <1>1 DEF Dial, AuthFails, ReceiveHeartbeat, ReadFails, TypeOK
    <2> QED BY <1>0, <2>1 DEF Lookup
  <1>2. ASSUME NEW b \in Conn, Authenticate(b)
        PROVE  Goal
    <2>1. /\ UNCHANGED <<manager, store, owner, upset>>
          /\ \A d \in Conn : d # b => phase'[d] = phase[d]
          /\ phase'[b] = "authed" /\ owner[b] \in SN
          /\ s \notin overlapped
          /\ owner[b] = s => Handlers(s) = {}
      BY <1>2 DEF Authenticate, TypeOK
    <2>2. CASE owner[b] = s
      <3>1. \A d \in Conn : ~Mine(d, s)
        BY <2>1, <2>2 DEF Handlers
      <3> QED BY <2>1, <2>2, <3>1
    <2>3. CASE owner[b] # s
      BY <1>0, <2>1, <2>3 DEF Lookup
    <2> QED BY <2>2, <2>3
  <1>3. ASSUME NEW b \in Conn, RedisFails(b)
        PROVE  Goal
    <2>1. /\ UNCHANGED <<manager, store, owner, overlapped>>
          /\ owner[b] # s /\ s \notin upset
          /\ \A d \in Conn : d # b => phase'[d] = phase[d]
      BY <1>3 DEF RedisFails, TypeOK
    <2> QED BY <1>0, <2>1 DEF Lookup
  <1>4. ASSUME NEW b \in Conn, Register(b) \/ UpdateHeartbeat(b) \/ Cleanup(b)
        PROVE  Goal
    <2>1. /\ UNCHANGED <<manager, owner, overlapped, upset>>
          /\ \A d \in Conn : d # b => phase'[d] = phase[d]
          /\ phase[b] \in Active /\ owner[b] \in SN
          /\ manager \in Managers
      BY <1>4 DEF Register, UpdateHeartbeat, Cleanup, TypeOK
    <2>2. CASE owner[b] = s
      <3>1. c = b /\ \A d \in Conn : Mine(d, s)' => d = c
        BY <1>0, <2>1, <2>2
      <3>2. CASE Register(b)
        <4>1. Lookup(s)' = EntryOf(b)
          BY <2>1, <2>2, <3>2, EntryFacts, StoredFacts DEF Register, Registered, Lookup
        <4> QED BY <3>1, <4>1
      <3>3. CASE UpdateHeartbeat(b)
        <4>1. Lookup(s) = EntryOf(b)
          BY <1>0, <2>1, <2>2, <3>3 DEF UpdateHeartbeat
        <4>2. Refreshed(s) = EntryOf(b) /\ EntryOf(b) \in Entry
          BY <4>1, EntryFacts, RefreshedFacts
        <4>3. Lookup(s)' = EntryOf(b)
          BY <2>1, <2>2, <3>3, <4>2, StoredFacts DEF UpdateHeartbeat, Lookup
        <4> QED BY <3>1, <4>3
      <3>4. CASE Cleanup(b)
        BY <3>1, <3>4 DEF Cleanup, TypeOK
      <3> QED BY <1>4, <3>2, <3>3, <3>4
    <2>3. CASE owner[b] # s
      <3>1. store'[manager][s] = store[manager][s]
        BY <1>4, <2>1, <2>3, EntryFacts, RefreshedFacts, StoredFacts
           DEF Register, Registered, UpdateHeartbeat, Cleanup, Removed
      <3> QED BY <1>0, <2>1, <2>3, <3>1 DEF Lookup
    <2> QED BY <2>2, <2>3
  <1>5. ASSUME NEW t \in SN, DialFails(t) \/ HangUp(t)
        PROVE  Goal
    <2>1. UNCHANGED <<manager, store, phase, owner, overlapped, upset>>
      BY <1>5 DEF DialFails, HangUp, vars
    <2> QED BY <1>0, <2>1 DEF Lookup
  <1>6. CASE RestartServer
    BY <1>6 DEF RestartServer, TypeOK
  <1>7. CASE UNCHANGED vars
    BY <1>0, <1>7 DEF vars, Lookup
  <1> QED BY <1>1, <1>2, <1>3, <1>4, <1>5, <1>6, <1>7 DEF Next, HandlerStep, HandshakeStep

\* A gateway whose handlers do not overlap is listed with its own connection as
\* long as that one is served, and with nothing when it has no handler; what a
\* heartbeat writes never takes the place of the registration.
THEOREM AloneGatewayIsListed == Spec => []AloneIsListed
  <1> DEFINE Inv == TypeOK /\ NoGhost /\ AloneInv
  <1>1. RegistryAssumption /\ Init => Inv
    BY TypeInit, NoGhostInit DEF Init, AloneInv, Handlers
  <1>2. RegistryAssumption /\ Inv /\ [Next]_vars => Inv'
    BY TypeStep, NoGhostStep, AloneStep
  <1>3. Inv => AloneIsListed
    BY DEF NoGhost, AloneInv, AloneIsListed
  <1> QED BY <1>1, <1>2, <1>3, RegistryAssumption, PTL DEF Spec
===============================================================================
