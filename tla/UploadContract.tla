---------------------------- MODULE UploadContract ----------------------------
(***************************************************************************)
(* What the cloud-edge tunnel promises the gateway, whatever messages it    *)
(* takes: a reading enters the local cache, the server takes charge of it,  *)
(* and only then may the gateway consider it uploaded.  Nothing is ever     *)
(* taken back.                                                              *)
(***************************************************************************)
CONSTANT Reading

VARIABLES
    cached,      \* readings written to the gateway's SQLite cache
    accepted,    \* readings the server has stored, or is storing without fail
    confirmed    \* readings the gateway marked as uploaded

contractVars == <<cached, accepted, confirmed>>

ContractInit ==
    /\ cached = {}
    /\ accepted = {}
    /\ confirmed = {}

CacheOne(r) ==
    /\ r \notin cached
    /\ cached' = cached \cup {r}
    /\ UNCHANGED <<accepted, confirmed>>

Accept(S) ==
    /\ S \subseteq cached
    /\ accepted' = accepted \cup S
    /\ UNCHANGED <<cached, confirmed>>

Confirm(S) ==
    /\ S \subseteq accepted
    /\ confirmed' = confirmed \cup S
    /\ UNCHANGED <<cached, accepted>>

ContractNext ==
    \/ \E r \in Reading : CacheOne(r)
    \/ \E S \in SUBSET Reading : Accept(S) \/ Confirm(S)

ContractSpec == ContractInit /\ [][ContractNext]_contractVars
===============================================================================
