---------------------------- MODULE PlanExecutor ----------------------------
(***************************************************************************)
(* The parallel executor of action DAGs: execute_plan, which walks the     *)
(* phases, and one spawned task per node, which calls the tool, retries    *)
(* and backs off.  The phases are those build_execution_phases made of the *)
(* plan: what is assumed of them here is proved in PlanValidation_proofs.   *)
(***************************************************************************)
EXTENDS PlanGraph

CONSTANTS
    Nodes,          \* ids of the plan's nodes
    DependsOn,      \* the ids in each node's depends_on
    Phases,         \* build_execution_phases: sequences of node ids
    MaxRetries      \* MAX_RETRIES

InPhase(n, p) == \E i \in 1..Len(Phases[p]) : Phases[p][i] = n

ASSUME PlanAssumption ==
    /\ Layered(Nodes, DependsOn, Phases)
    /\ MaxRetries \in Nat

VARIABLES
    pc,             \* where execute_plan is
    phase,          \* the phase it is in
    toPlace,        \* nodes of the loop in hand it has yet to visit
    tasks,          \* phase_tasks it has yet to await
    failedNodes,    \* failed_nodes
    results,        \* all_results
    timedOut,       \* the plan timeout was exceeded
    node,           \* the state of each node's task
    retries,        \* retries of each task
    calls           \* history: how often execute_tool was started for the node

execVars == <<pc, phase, toPlace, tasks, failedNodes, results, timedOut>>
nodeVars == <<node, retries, calls>>
vars == <<execVars, nodeVars>>

Result == [node : Nodes, status : {"success", "error", "skipped"}]

Init ==
    /\ pc = "check"
    /\ phase = 1
    /\ toPlace = <<>>
    /\ tasks = <<>>
    /\ failedNodes = {}
    /\ results = <<>>
    /\ timedOut = FALSE
    /\ node = [n \in Nodes |-> "unplaced"]
    /\ retries = [n \in Nodes |-> 0]
    /\ calls = [n \in Nodes |-> 0]

Push(n, status) == results' = Append(results, [node |-> n, status |-> status])
HasResult(n) == \E i \in 1..Len(results) : results[i].node = n

-----------------------------------------------------------------------------
(* execute_plan *)

\* The next phase begins, in time.
BeginPhase ==
    /\ pc = "check"
    /\ phase <= Len(Phases)
    /\ pc' = "place"
    /\ toPlace' = Phases[phase]
    /\ UNCHANGED <<phase, tasks, failedNodes, results, timedOut, nodeVars>>

\* Mutant: the skipped node does not count as failed.
SkipNodeQuietly ==
    LET n == Head(toPlace) IN
    /\ pc = "place"
    /\ toPlace # <<>>
    /\ DependsOn[n] \cap failedNodes # {}
    /\ toPlace' = Tail(toPlace)
    /\ Push(n, "skipped")
    /\ UNCHANGED <<pc, phase, tasks, failedNodes, timedOut, nodeVars>>

\* A node with a failed dependency is skipped and counts as failed itself.
SkipNode ==
    LET n == Head(toPlace) IN
    /\ pc = "place"
    /\ toPlace # <<>>
    /\ DependsOn[n] \cap failedNodes # {}
    /\ toPlace' = Tail(toPlace)
    /\ Push(n, "skipped")
    /\ failedNodes' = failedNodes \cup {n}
    /\ UNCHANGED <<pc, phase, tasks, timedOut, nodeVars>>

\* Any other node is spawned, and its first call begins.
SpawnNode ==
    LET n == Head(toPlace) IN
    /\ pc = "place"
    /\ toPlace # <<>>
    /\ DependsOn[n] \cap failedNodes = {}
    /\ toPlace' = Tail(toPlace)
    /\ tasks' = Append(tasks, n)
    /\ node' = [node EXCEPT ![n] = "calling"]
    /\ calls' = [calls EXCEPT ![n] = @ + 1]
    /\ UNCHANGED <<pc, phase, failedNodes, results, timedOut, retries>>

AllPlaced ==
    /\ pc = "place"
    /\ toPlace = <<>>
    /\ pc' = "join"
    /\ UNCHANGED <<phase, toPlace, tasks, failedNodes, results, timedOut,
                   nodeVars>>

\* The oldest task has ended: its result is recorded.
JoinNode ==
    LET n == Head(tasks) IN
    /\ pc = "join"
    /\ tasks # <<>>
    /\ node[n] \in {"success", "error"}
    /\ tasks' = Tail(tasks)
    /\ Push(n, node[n])
    /\ failedNodes' = IF node[n] = "error" THEN failedNodes \cup {n} ELSE failedNodes
    /\ UNCHANGED <<pc, phase, toPlace, timedOut, nodeVars>>

EndPhase ==
    /\ pc = "join"
    /\ tasks = <<>>
    /\ pc' = "check"
    /\ phase' = phase + 1
    /\ UNCHANGED <<toPlace, tasks, failedNodes, results, timedOut, nodeVars>>

\* The plan has run for more than PLAN_TIMEOUT_MS when a phase is to begin.
TimeOut ==
    /\ pc = "check"
    /\ phase <= Len(Phases)
    /\ pc' = "giveup"
    /\ timedOut' = TRUE
    /\ toPlace' = Phases[phase]
    /\ UNCHANGED <<phase, tasks, failedNodes, results, nodeVars>>

\* All nodes of this phase and the later ones are recorded as skipped.
DropNode ==
    LET n == Head(toPlace) IN
    /\ pc = "giveup"
    /\ toPlace # <<>>
    /\ toPlace' = Tail(toPlace)
    /\ IF HasResult(n) THEN UNCHANGED results ELSE Push(n, "skipped")
    /\ UNCHANGED <<pc, phase, tasks, failedNodes, timedOut, nodeVars>>

DropPhase ==
    /\ pc = "giveup"
    /\ toPlace = <<>>
    /\ phase < Len(Phases)
    /\ phase' = phase + 1
    /\ toPlace' = Phases[phase']
    /\ UNCHANGED <<pc, tasks, failedNodes, results, timedOut, nodeVars>>

FinishPlan ==
    /\ \/ pc = "check" /\ phase > Len(Phases)
       \/ pc = "giveup" /\ toPlace = <<>> /\ phase = Len(Phases)
    /\ pc' = "done"
    /\ UNCHANGED <<phase, toPlace, tasks, failedNodes, results, timedOut,
                   nodeVars>>

\* The run is aborted: execute_plan is dropped where it awaits a task, and the
\* tasks, which are detached, go on.
AbortPlan ==
    /\ pc = "join"
    /\ tasks # <<>>
    /\ pc' = "aborted"
    /\ UNCHANGED <<phase, toPlace, tasks, failedNodes, results, timedOut,
                   nodeVars>>

-----------------------------------------------------------------------------
(* execute_node_with_retry *)

\* The tool succeeds, or fails for good: an error that is not retryable, no
\* retry left, or a panic.
EndNode(n) ==
    /\ node[n] = "calling"
    /\ \E status \in {"success", "error"} : node' = [node EXCEPT ![n] = status]
    /\ UNCHANGED <<execVars, retries, calls>>

\* Mutant: the call is repeated at once, and retries are not counted.
RetryNodeForEver(n) ==
    /\ node[n] = "calling"
    /\ UNCHANGED <<execVars, node, retries>>
    /\ calls' = [calls EXCEPT ![n] = (@ % 2) + 1]

\* A retryable error or a timeout of the call.
RetryNode(n) ==
    /\ node[n] = "calling"
    /\ retries[n] < MaxRetries
    /\ retries' = [retries EXCEPT ![n] = @ + 1]
    /\ node' = [node EXCEPT ![n] = "backoff"]
    /\ UNCHANGED <<execVars, calls>>

\* The backoff is over: the tool is called again.
CallAgain(n) ==
    /\ node[n] = "backoff"
    /\ node' = [node EXCEPT ![n] = "calling"]
    /\ calls' = [calls EXCEPT ![n] = @ + 1]
    /\ UNCHANGED <<execVars, retries>>

-----------------------------------------------------------------------------
ExecNext ==
    \/ BeginPhase \/ SkipNode \/ SpawnNode \/ AllPlaced \/ JoinNode \/ EndPhase
    \/ TimeOut \/ DropNode \/ DropPhase \/ FinishPlan

NodeNext(n) == EndNode(n) \/ RetryNode(n) \/ CallAgain(n)

Next == ExecNext \/ AbortPlan \/ \E n \in Nodes : NodeNext(n)

Spec == Init /\ [][Next]_vars

(* The runtime polls the executor and every task; a tool call ends, since  *)
(* it has a timeout of its own.  Nobody has to abort.                       *)
Fairness == WF_vars(ExecNext) /\ \A n \in Nodes : WF_vars(NodeNext(n))

FairSpec == Spec /\ Fairness

-----------------------------------------------------------------------------
TypeOK ==
    /\ pc \in {"check", "place", "join", "giveup", "done", "aborted"}
    /\ phase \in 1..(Len(Phases) + 1)
    /\ toPlace \in Seq(Nodes)
    /\ tasks \in Seq(Nodes)
    /\ failedNodes \in SUBSET Nodes
    /\ results \in Seq(Result)
    /\ timedOut \in BOOLEAN
    /\ node \in [Nodes -> {"unplaced", "calling", "backoff", "success", "error"}]
    /\ retries \in [Nodes -> 0..MaxRetries]
    /\ calls \in [Nodes -> 0..(MaxRetries + 1)]

HasStatus(n, status) ==
    \E i \in 1..Len(results) : results[i] = [node |-> n, status |-> status]

OutcomeOf(n) ==
    IF HasStatus(n, "success") THEN "success"
    ELSE IF HasStatus(n, "error") THEN "error"
    ELSE IF HasStatus(n, "skipped") THEN "skipped"
    ELSE "none"

(* A tool is never called before every dependency of its node is known to  *)
(* have succeeded, although phases overlap the placing of their own nodes, *)
(* retries and failures.                                                    *)
DependenciesFirst ==
    \A n \in Nodes : calls[n] > 0 => \A d \in DependsOn[n] : OutcomeOf(d) = "success"

(* A node gets at most one result, and exactly one if the plan finishes.   *)
OneResultEach ==
    /\ \A i, j \in 1..Len(results) : results[i].node = results[j].node => i = j
    /\ pc = "done" => \A n \in Nodes : HasResult(n)

(* The tasks of two phases never run at the same time.                      *)
Active(n) == node[n] \in {"calling", "backoff"}
PhaseBarrier ==
    \A m, n \in Nodes : Active(m) /\ Active(n) =>
        \E p \in 1..Len(Phases) : InPhase(m, p) /\ InPhase(n, p)

(* The executor keeps the promise of a plan.                                *)
Promise == INSTANCE PlanPromise WITH
    outcome  <- [n \in Nodes |-> OutcomeOf(n)],
    givenUp  <- timedOut,
    finished <- pc = "done"

KeepsPromise == Promise!PromiseSpec

(* Every plan finishes, unless its run is aborted.                          *)
PlanEnds == <>(pc \in {"done", "aborted"})
=============================================================================
