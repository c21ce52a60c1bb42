---------------------------- MODULE OutputContract ----------------------------
(***************************************************************************)
(* What the push outputs promise the server that calls them, whatever their *)
(* platforms do.  A call of Send is a task for each sink; tasks are started *)
(* and run on their own, in any order.  The platform receives what a task   *)
(* sends a bounded number of times, and nothing once the task has ended; a  *)
(* task that succeeds was received at its last attempt.  What cannot be     *)
(* formatted never gets out.  The outputs stop only when nothing runs.      *)
(***************************************************************************)
EXTENDS Naturals

CONSTANTS
    Task,    \* one call of Send for one sink
    Bad,     \* the tasks whose readings cannot be formatted
    Limit    \* how often each task may be received

VARIABLES
    stage,      \* of each task: "none", "asked", "running", "ok" or "failed"
    received,   \* how often the platform received each task
    stopped     \* the wait for what runs is over

contractVars == <<stage, received, stopped>>

ContractInit ==
    /\ stage = [t \in Task |-> "none"]
    /\ received = [t \in Task |-> 0]
    /\ stopped = FALSE

\* Send is called, and returns before anything is sent.
Ask(S) ==
    /\ \A t \in S : stage[t] = "none"
    /\ stage' = [t \in Task |-> IF t \in S THEN "asked" ELSE stage[t]]
    /\ UNCHANGED <<received, stopped>>

Start(t) ==
    /\ stage[t] = "asked"
    /\ stage' = [stage EXCEPT ![t] = "running"]
    /\ UNCHANGED <<received, stopped>>

\* The platform receives the task, and reports that or not.
Receive(t, outcome) ==
    /\ stage[t] = "running"
    /\ t \notin Bad
    /\ received[t] < Limit[t]
    /\ received' = [received EXCEPT ![t] = @ + 1]
    /\ stage' = [stage EXCEPT ![t] = outcome]
    /\ UNCHANGED stopped

GiveUp(t) ==
    /\ stage[t] = "running"
    /\ stage' = [stage EXCEPT ![t] = "failed"]
    /\ UNCHANGED <<received, stopped>>

Stop ==
    /\ \A t \in Task : stage[t] # "running"
    /\ stopped' = TRUE
    /\ UNCHANGED <<stage, received>>

ContractNext ==
    \/ \E S \in SUBSET Task : Ask(S)
    \/ \E t \in Task : Start(t) \/ GiveUp(t)
    \/ \E t \in Task, outcome \in {"running", "ok", "failed"} : Receive(t, outcome)
    \/ Stop

ContractSpec == ContractInit /\ [][ContractNext]_contractVars
===============================================================================
