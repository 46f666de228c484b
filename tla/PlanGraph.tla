----------------------------- MODULE PlanGraph -----------------------------
(***************************************************************************)
(* Action DAGs as data: a plan is a sequence of nodes, each with an id and *)
(* the sequence of ids it depends on.  The depth of a node and the phases  *)
(* the executor walks are computed from it.                                 *)
(***************************************************************************)
EXTENDS Subsequences, FiniteSetsExt

IdSeq(plan) == [i \in 1..Len(plan) |-> plan[i].id]
IdsOf(plan) == {plan[i].id : i \in 1..Len(plan)}

\* The places in the plan where node n names d as a dependency.
Edges(plan, d, n) ==
    UNION {{<<i, k>> : k \in {j \in 1..Len(plan[i].depends_on) :
                                plan[i].depends_on[j] = d}} :
              i \in {j \in 1..Len(plan) : plan[j].id = n}}

DepsOf(plan, n) ==
    UNION {{plan[i].depends_on[k] : k \in 1..Len(plan[i].depends_on)} :
              i \in {j \in 1..Len(plan) : plan[j].id = n}}

\* Mutant: the shortest path from a root.
DepthsByMin(plan) ==
    LET depth[n \in IdsOf(plan)] ==
            IF DepsOf(plan, n) = {} THEN 0
            ELSE Min({depth[d] + 1 : d \in DepsOf(plan, n)})
    IN  depth

\* compute_node_depths, for a plan without cycles.
Depths(plan) ==
    LET depth[n \in IdsOf(plan)] ==
            IF DepsOf(plan, n) = {} THEN 0
            ELSE Max({depth[d] + 1 : d \in DepsOf(plan, n)})
    IN  depth

\* Nodes of one depth, in plan order.
AtDepth(plan, depth, k) == Keep(IdSeq(plan), {i \in 1..Len(plan) : depth[plan[i].id] = k})

PhasesByDepth(plan, depth) ==
    [p \in 1..(Max({depth[n] : n \in IdsOf(plan)}) + 1) |->
        [index |-> p - 1, node_ids |-> AtDepth(plan, depth, p - 1)]]

\* build_execution_phases
BuildPhases(plan) ==
    LET depth  == Depths(plan)
        phases == PhasesByDepth(plan, depth)
    IN  Keep(phases, {p \in DOMAIN phases : phases[p].node_ids # <<>>})

\* What the executor needs of phases: every node of the plan is in one of them,
\* once, and its dependencies are in earlier ones.
Layered(nodes, dependsOn, phases) ==
    /\ dependsOn \in [nodes -> SUBSET nodes]
    /\ phases \in Seq(Seq(nodes))
    /\ \A n \in nodes : \E p \in 1..Len(phases) : \E i \in 1..Len(phases[p]) : phases[p][i] = n
    /\ \A p, q \in 1..Len(phases) : \A i \in 1..Len(phases[p]) : \A j \in 1..Len(phases[q]) :
         /\ phases[p][i] = phases[q][j] => p = q /\ i = j
         /\ phases[p][i] \in dependsOn[phases[q][j]] => p < q
=============================================================================
