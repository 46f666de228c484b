--------------------------- MODULE PlanValidation ---------------------------
(***************************************************************************)
(* validate_plan_structure: the checks on a plan the model emitted, with   *)
(* Kahn's algorithm step by step, since the order in which it visits nodes *)
(* depends on the iteration order of a hash map.                           *)
(***************************************************************************)
EXTENDS PlanGraph

CONSTANTS
    Names,          \* what may stand for an id
    Plans,          \* plans the model may emit
    MaxPlanNodes    \* MAX_PLAN_NODES

ASSUME ValidationAssumption ==
    /\ Plans \subseteq Seq([id : Names, depends_on : Seq(Names)])
    /\ MaxPlanNodes \in Nat

VARIABLES
    plan,           \* the plan under validation
    inDegree,       \* in_degree: unmet dependencies of each id
    queue,          \* ids with no unmet dependency, not yet visited
    sortedCount     \* ids visited

validationVars == <<plan, inDegree, queue, sortedCount>>

EdgesInto(p, n) == UNION {Edges(p, d, n) : d \in IdsOf(p)}

ValidationInit ==
    /\ plan \in Plans
    /\ inDegree = [n \in IdsOf(plan) |-> Cardinality(EdgesInto(plan, n))]
    /\ queue = {n \in IdsOf(plan) : inDegree[n] = 0}
    /\ sortedCount = 0

\* One round of the loop: an id leaves the queue and its edges go.
VisitNode(n) ==
    LET left == [m \in IdsOf(plan) |-> inDegree[m] - Cardinality(Edges(plan, n, m))]
    IN  /\ n \in queue
        /\ inDegree' = left
        /\ queue' = (queue \ {n}) \cup {m \in IdsOf(plan) : inDegree[m] > 0 /\ left[m] = 0}
        /\ sortedCount' = sortedCount + 1
        /\ UNCHANGED plan

ValidationNext == \E n \in IdsOf(plan) : VisitNode(n)

ValidationSpec == ValidationInit /\ [][ValidationNext]_validationVars

-----------------------------------------------------------------------------
SortDone == queue = {}

\* Mutant: a dangling dependency is left to the sort, which ignores it.
ErrorsButDangling ==
    {e \in {"EmptyPlan", "TooManyNodes", "DuplicateNodeId", "CycleDetected"} :
        \/ e = "EmptyPlan" /\ plan = <<>>
        \/ e = "TooManyNodes" /\ Len(plan) > MaxPlanNodes
        \/ e = "DuplicateNodeId" /\ Cardinality(IdsOf(plan)) < Len(plan)
        \/ e = "CycleDetected" /\ sortedCount < Len(plan)}

\* The structural errors that are reported, once the sort is done.
Errors ==
    {e \in {"EmptyPlan", "TooManyNodes", "DuplicateNodeId", "MissingDependency",
            "CycleDetected"} :
        \/ e = "EmptyPlan" /\ plan = <<>>
        \/ e = "TooManyNodes" /\ Len(plan) > MaxPlanNodes
        \/ e = "DuplicateNodeId" /\ Cardinality(IdsOf(plan)) < Len(plan)
        \/ e = "MissingDependency" /\ \E n \in IdsOf(plan) : ~ DepsOf(plan, n) \subseteq IdsOf(plan)
        \/ e = "CycleDetected" /\ sortedCount < Len(plan)}

Accepted == SortDone /\ Errors = {}

ValidationTypeOK ==
    /\ plan \in Plans
    /\ inDegree \in [IdsOf(plan) -> Nat]
    /\ queue \in SUBSET IdsOf(plan)
    /\ sortedCount \in 0..Len(plan)

\* A plan that can be executed: distinct ids, no dangling dependency, and in
\* every group of nodes one that depends on none of the group.
Executable(p) ==
    /\ p # <<>> /\ Len(p) <= MaxPlanNodes
    /\ \A i, j \in 1..Len(p) : p[i].id = p[j].id => i = j
    /\ \A n \in IdsOf(p) : DepsOf(p, n) \subseteq IdsOf(p)
    /\ \A S \in SUBSET IdsOf(p) : S # {} => \E n \in S : DepsOf(p, n) \cap S = {}

(* Validation accepts exactly the plans that can be executed, in whatever  *)
(* order the sort visits nodes, with repeated dependencies and ids.        *)
AcceptsExactlyExecutable == SortDone => (Errors = {} <=> Executable(plan))

NodeLists(phases) == [p \in DOMAIN phases |-> phases[p].node_ids]

(* The phases of an accepted plan are what the executor needs: every node   *)
(* in one of them, once, all its dependencies in earlier ones.  One of      *)
(* these is in the phase just before, and the index execute_plan skips to   *)
(* on a timeout is the position of the phase.                               *)
PhasesAreSound ==
    LET phases == BuildPhases(plan)
        lists  == NodeLists(phases)
    IN  Accepted =>
          /\ Layered(IdsOf(plan), [n \in IdsOf(plan) |-> DepsOf(plan, n)], lists)
          /\ \A p \in 1..Len(phases) : phases[p].index = p - 1
          /\ \A p \in 2..Len(phases) : \A i \in 1..Len(lists[p]) :
               \E j \in 1..Len(lists[p - 1]) : lists[p - 1][j] \in DepsOf(plan, lists[p][i])
=============================================================================
