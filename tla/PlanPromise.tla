----------------------------- MODULE PlanPromise -----------------------------
(***************************************************************************)
(* What executing an action DAG promises: every node is settled once, a    *)
(* node is attempted only when all its dependencies have succeeded, it is  *)
(* skipped only because a dependency did not, or because the plan as a     *)
(* whole was given up, and the plan finishes with every node settled.      *)
(***************************************************************************)
CONSTANTS
    Nodes,          \* the nodes of the plan
    DependsOn       \* the nodes each node depends on

VARIABLES
    outcome,        \* how each node was settled, "none" until then
    givenUp,        \* the plan ran out of time
    finished        \* the results are final

promiseVars == <<outcome, givenUp, finished>>

PromiseInit ==
    /\ outcome = [n \in Nodes |-> "none"]
    /\ givenUp = FALSE
    /\ finished = FALSE

SettleAs(n, status) ==
    /\ ~ finished
    /\ outcome[n] = "none"
    /\ outcome' = [outcome EXCEPT ![n] = status]
    /\ UNCHANGED <<givenUp, finished>>

\* The tool ran, perhaps several times, and succeeded or not.
Attempt(n) ==
    /\ ~ givenUp
    /\ \A d \in DependsOn[n] : outcome[d] = "success"
    /\ \E status \in {"success", "error"} : SettleAs(n, status)

\* A dependency failed or was itself skipped.
SkipNode(n) ==
    /\ ~ givenUp
    /\ \E d \in DependsOn[n] : outcome[d] \in {"error", "skipped"}
    /\ SettleAs(n, "skipped")

GiveUp ==
    /\ ~ givenUp /\ ~ finished
    /\ givenUp' = TRUE
    /\ UNCHANGED <<outcome, finished>>

DropNode(n) ==
    /\ givenUp
    /\ SettleAs(n, "skipped")

Finish ==
    /\ ~ finished
    /\ \A n \in Nodes : outcome[n] # "none"
    /\ finished' = TRUE
    /\ UNCHANGED <<outcome, givenUp>>

PromiseNext ==
    \/ \E n \in Nodes : Attempt(n) \/ SkipNode(n) \/ DropNode(n)
    \/ GiveUp \/ Finish

PromiseSpec == PromiseInit /\ [][PromiseNext]_promiseVars
=============================================================================
