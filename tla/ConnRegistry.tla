----------------------------- MODULE ConnRegistry -----------------------------
(***************************************************************************)
(* Which gateways are online: HandleConnection authenticates a connection,  *)
(* registers it under the serial number of its gateway, refreshes the       *)
(* registration on heartbeats and removes it when the connection ends.      *)
(* Handlers of several connections of one gateway overlap: the gateway      *)
(* redials as soon as it gives a connection up, the old handler finds out   *)
(* at the latest when its read deadline expires.                            *)
(*                                                                          *)
(* The registry is a Redis hash per serial number or, when Redis does not   *)
(* answer at startup, a map in memory.                                      *)
(***************************************************************************)
EXTENDS Integers, FiniteSets

CONSTANTS
    SN,           \* serial numbers of the configured gateways
    MaxConns,     \* bound: connections ever accepted
    MaxOpFails,   \* bound: Redis calls that fail
    MaxCrashes    \* bound: restarts of the server process

ASSUME RegistryAssumption ==
    MaxConns \in Nat /\ MaxOpFails \in Nat /\ MaxCrashes \in Nat

Conn     == 1..MaxConns
NoConn   == 0
Managers == {"memory", "redis"}

\* A registration: all its fields, those of one connection; or only the time of
\* the last heartbeat ("partial"), which GetConnection and ListConnections
\* cannot parse.
NoEntry      == [kind |-> "none",    id |-> NoConn]
PartialEntry == [kind |-> "partial", id |-> NoConn]
EntryOf(c)   == [kind |-> "full",    id |-> c]
Entry        == {NoEntry, PartialEntry} \cup {EntryOf(c) : c \in Conn}

VARIABLES
    manager,    \* the connection manager this server process uses
    store,      \* what each manager holds for each serial number
    phase,      \* where the handler of each connection is
    owner,      \* the serial number each connection belongs to
    using,      \* the connection each gateway uses, or NoConn
    opFails,    \* Redis calls that may still fail
    crashes,    \* restarts that may still happen
    overlapped, \* history: gateways that registered while another of their
                \* handlers was still there
    upset       \* history: gateways some call for which failed, or that were
                \* connected or listed when the server stopped

vars == <<manager, store, phase, owner, using, opFails, crashes, overlapped, upset>>

Phases == {"none", "accepted", "authed", "serving", "beating", "ending", "gone", "refused"}

TypeOK ==
    /\ manager \in Managers
    /\ store \in [Managers -> [SN -> Entry]]
    /\ phase \in [Conn -> Phases]
    /\ owner \in [Conn -> SN]
    /\ using \in [SN -> Conn \cup {NoConn}]
    /\ opFails \in 0..MaxOpFails
    /\ crashes \in 0..MaxCrashes
    /\ overlapped \in SUBSET SN
    /\ upset \in SUBSET SN

Init ==
    /\ manager \in Managers
    /\ store = [m \in Managers |-> [s \in SN |-> NoEntry]]
    /\ phase = [c \in Conn |-> "none"]
    /\ owner \in [Conn -> SN]
    /\ using = [s \in SN |-> NoConn]
    /\ opFails = MaxOpFails
    /\ crashes = MaxCrashes
    /\ overlapped = {}
    /\ upset = {}

-------------------------------------------------------------------------------
(* The two managers                                                        *)

\* What the manager in use answers, and the store after a change to one entry.
Lookup(s)    == store[manager][s]
Stored(s, e) == [store EXCEPT ![manager][s] = e]

\* RegisterConnection overwrites whatever is there, in either manager.
Registered(c) == Stored(owner[c], EntryOf(c))

\* Faulty variants of Refreshed: one that replaces the registration by the
\* heartbeat, one that registers without a connection.
Refreshed_Replaced(s) == IF Lookup(s) = NoEntry THEN NoEntry ELSE PartialEntry
Refreshed_Full(s)     == [Lookup(s) EXCEPT !.kind = "full"]

\* UpdateHeartbeat: in memory only what is there is changed; in Redis the HSET
\* is sent whatever EXISTS says, and makes a hash with one field if there is none.
Refreshed(s) ==
    IF manager = "redis" /\ Lookup(s) = NoEntry THEN PartialEntry ELSE Lookup(s)

\* Faulty variant of Removed: the registration stays.
Removed_Kept(s) == store

\* RemoveConnection: by serial number; whose registration it is does not matter.
Removed(s) == Stored(s, NoEntry)

\* Handlers of gateway s that have authenticated and not finished.
Handlers(s) ==
    {c \in Conn : owner[c] = s /\ phase[c] \in {"authed", "serving", "beating", "ending"}}

-------------------------------------------------------------------------------
(* The gateways                                                            *)

\* runSession dials; ReceiveLoop accepts and starts HandleConnection.
Dial(c) ==
    /\ phase[c] = "none"
    /\ \A d \in Conn : d < c => phase[d] # "none"
    /\ using[owner[c]] = NoConn
    /\ phase' = [phase EXCEPT ![c] = "accepted"]
    /\ using' = [using EXCEPT ![owner[c]] = c]
    /\ UNCHANGED <<manager, store, owner, opFails, crashes, overlapped, upset>>

\* dialWithRetry does not get through.
DialFails(s) ==
    /\ using[s] = NoConn
    /\ UNCHANGED vars

\* The session ends at the gateway: it closes the connection, or the network
\* does and the gateway notices.
HangUp(s) ==
    /\ using[s] # NoConn
    /\ using' = [using EXCEPT ![s] = NoConn]
    /\ UNCHANGED <<manager, store, phase, owner, opFails, crashes, overlapped, upset>>

-------------------------------------------------------------------------------
(* HandleConnection                                                        *)

\* Faulty variant of AuthFails: the connection was registered when it came in.
AuthFails_Listed(c) ==
    /\ phase[c] = "accepted"
    /\ phase' = [phase EXCEPT ![c] = "refused"]
    /\ store' = Registered(c)
    /\ UNCHANGED <<manager, owner, using, opFails, crashes, overlapped, upset>>

\* authenticateClient refuses: no handshake, unknown serial number, wrong token.
AuthFails(c) ==
    /\ phase[c] = "accepted"
    /\ phase' = [phase EXCEPT ![c] = "refused"]
    /\ UNCHANGED <<manager, store, owner, using, opFails, crashes, overlapped, upset>>

\* authenticateClient accepts and answers; the connection is not registered yet.
Authenticate(c) ==
    /\ phase[c] = "accepted"
    /\ phase' = [phase EXCEPT ![c] = "authed"]
    /\ overlapped' = IF Handlers(owner[c]) = {} THEN overlapped
                     ELSE overlapped \cup {owner[c]}
    /\ UNCHANGED <<manager, store, owner, using, opFails, crashes, upset>>

\* registerConnection: an error is only logged.
Register(c) ==
    /\ phase[c] = "authed"
    /\ phase' = [phase EXCEPT ![c] = "serving"]
    /\ store' = Registered(c)
    /\ UNCHANGED <<manager, owner, using, opFails, crashes, overlapped, upset>>

\* A call to Redis for handler c fails and changes nothing; the handler goes on.
RedisFails(c) ==
    /\ manager = "redis"
    /\ opFails > 0
    /\ opFails' = opFails - 1
    /\ \/ phase[c] \in {"authed", "beating"} /\ phase' = [phase EXCEPT ![c] = "serving"]
       \/ phase[c] = "ending" /\ phase' = [phase EXCEPT ![c] = "gone"]
    /\ upset' = upset \cup {owner[c]}
    /\ UNCHANGED <<manager, store, owner, using, crashes, overlapped>>

\* A heartbeat arrives: handleHeartbeat calls UpdateHeartbeat.
ReceiveHeartbeat(c) ==
    /\ phase[c] = "serving"
    /\ using[owner[c]] = c
    /\ phase' = [phase EXCEPT ![c] = "beating"]
    /\ UNCHANGED <<manager, store, owner, using, opFails, crashes, overlapped, upset>>

\* The heartbeat is written and answered.
UpdateHeartbeat(c) ==
    /\ phase[c] = "beating"
    /\ phase' = [phase EXCEPT ![c] = "serving"]
    /\ store' = Stored(owner[c], Refreshed(owner[c]))
    /\ UNCHANGED <<manager, owner, using, opFails, crashes, overlapped, upset>>

\* DecodeFrame fails: the gateway is gone, or the read deadline expires.
ReadFails(c) ==
    /\ phase[c] = "serving"
    /\ phase' = [phase EXCEPT ![c] = "ending"]
    /\ UNCHANGED <<manager, store, owner, using, opFails, crashes, overlapped, upset>>

\* The deferred cleanup, then conn.Close.
Cleanup(c) ==
    /\ phase[c] = "ending"
    /\ phase' = [phase EXCEPT ![c] = "gone"]
    /\ store' = Removed(owner[c])
    /\ UNCHANGED <<manager, owner, using, opFails, crashes, overlapped, upset>>

\* The server process dies without its cleanups and starts again: what was in
\* memory is lost, what is in Redis stays.
RestartServer ==
    /\ crashes > 0
    /\ crashes' = crashes - 1
    /\ phase' = [c \in Conn |-> IF phase[c] \in {"none", "refused"} THEN phase[c]
                             ELSE "gone"]
    /\ manager' \in Managers
    /\ store' = [store EXCEPT !["memory"] = [s \in SN |-> NoEntry]]
    /\ upset' = upset \cup {s \in SN : Handlers(s) # {} \/ store["redis"][s] # NoEntry}
    /\ UNCHANGED <<owner, using, opFails, overlapped>>

-------------------------------------------------------------------------------
HandshakeStep(c) == AuthFails(c) \/ Authenticate(c)
HandlerStep(c)   == Register(c) \/ RedisFails(c) \/ UpdateHeartbeat(c) \/ Cleanup(c)

Next ==
    \/ \E c \in Conn : Dial(c) \/ HandshakeStep(c) \/ ReceiveHeartbeat(c)
    \/ \E c \in Conn : ReadFails(c) \/ HandlerStep(c)
    \/ \E s \in SN : DialFails(s) \/ HangUp(s)
    \/ RestartServer

Spec == Init /\ [][Next]_vars

\* A handler that has authenticated its gateway runs on, and notices after 90 s
\* that the gateway is gone.  Before that it may wait for a handshake for ever:
\* there is no deadline yet.
FairSpec ==
    /\ Spec
    /\ \A c \in Conn : WF_vars(HandlerStep(c))
    /\ \A c \in Conn : WF_vars(using[owner[c]] # c /\ ReadFails(c))
-------------------------------------------------------------------------------
(* Properties                                                              *)

Serves(c) == phase[c] \in {"serving", "beating"}

\* A gateway whose handlers never overlapped, for which no call failed and that
\* no restart of the server caught, is listed with all fields of its connection
\* while that connection is served, and is not listed when it has no handler.
AloneIsListed ==
    \A s \in SN \ (overlapped \cup upset) :
        /\ \A c \in Handlers(s) : Serves(c) => Lookup(s) = EntryOf(c)
        /\ Handlers(s) = {} => Lookup(s) = NoEntry

\* Whatever handlers of a gateway overlap, the last cleanup leaves nothing
\* behind: neither a stale connection nor a hash with only a heartbeat.
NoGhost ==
    \A s \in SN \ upset : Handlers(s) = {} => Lookup(s) = NoEntry

\* A full registration names a connection of its own gateway that had got
\* through the authentication.
ListedWasAuthenticated ==
    \A s \in SN : Lookup(s).kind = "full" =>
        LET c == Lookup(s).id
        IN  owner[c] = s /\ phase[c] \in {"serving", "beating", "ending", "gone"}

\* A gateway that is gone for good is not listed for ever.
EventuallyUnlisted ==
    \A s \in SN :
        <>[](using[s] = NoConn) => <>[](s \in upset \/ Lookup(s) = NoEntry)
===============================================================================
