------------------------------- MODULE MCPlans -------------------------------
(* Plans of tool calls and flows checked side by side: the validation of     *)
(* every small plan, the execution of one with the phases that               *)
(* build_execution_phases makes of it, the strategy of every small flow, and *)
(* the execution of some.  A behaviour is about one of the four.             *)
EXTENDS PlanExecutor, PlanValidation, FlowRuns, SequencesExt, TLC

CONSTANTS a, b, c, d, e, z

VARIABLE half

-----------------------------------------------------------------------------
(* Plans to validate *)

DepLists(S) == {<<>>} \cup {<<x>> : x \in S} \cup {<<x, y>> : x, y \in S}
PlanNodes(ids, S) == [id : ids, depends_on : DepLists(S)]

\* Up to two nodes: any ids, repeated dependencies, a dependency that does
\* not exist.
SmallPlans ==
    {<<>>} \cup {<<m>> : m \in PlanNodes({a, b}, {a, b, z})}
           \cup {<<m, n>> : m, n \in PlanNodes({a, b}, {a, b, z})}

\* Three nodes with distinct ids, or with one id twice.
TriplePlans ==
    {<<[id |-> i, depends_on |-> l], [id |-> b, depends_on |-> m],
       [id |-> c, depends_on |-> n]>> :
        i \in {a, c}, l, m, n \in DepLists({a, b, c})}

\* One node too many.
LongPlans == {[i \in 1..4 |-> [id |-> <<a, b, c, z>>[i], depends_on |-> <<>>]]}

PlansToValidate == SmallPlans \cup TriplePlans \cup LongPlans

-----------------------------------------------------------------------------
(* The plan to execute: a diamond, and a node that depends on its root only *)

Node(id, deps) == [id |-> id, depends_on |-> deps]

PlanInHand ==
    <<Node(a, <<>>), Node(d, <<b, c>>), Node(b, <<a>>), Node(c, <<a>>), Node(e, <<a>>)>>

PlanIds       == IdsOf(PlanInHand)
PlanDepends   == [n \in PlanIds |-> DepsOf(PlanInHand, n)]
PlanPhases    == <<<<a>>, <<b, c, e>>, <<d>>>>

ASSUME PhasesInHand ==
    PlanPhases = [p \in DOMAIN BuildPhases(PlanInHand) |-> BuildPhases(PlanInHand)[p].node_ids]

-----------------------------------------------------------------------------
(* Flows *)

Edge(m, n, kind, label) == [from |-> m, to |-> n, kind |-> kind, label |-> label]
Forward(m, n) == Edge(m, n, "forward", "")

Flow(nodes, kind, edges, again) ==
    [nodes |-> nodes, kind |-> kind, edges |-> edges, retries |-> again,
     agent |-> [n \in DOMAIN kind |-> None]]

\* Four nodes with up to four edges: none, three or all of them can be collapsed.
SmallNodes == {a, b, c, d}
SmallKinds == {[n \in SmallNodes |-> IF n \in agents THEN "agent" ELSE "data"] :
                  agents \in {{}, {a, b, c}, SmallNodes}}
EdgeSets == UNION {kSubset(k, {p \in SmallNodes \X SmallNodes : p[1] # p[2]}) : k \in 0..4}
EdgeList(S) == LET pairs == SetToSeq(S) IN [i \in 1..Len(pairs) |-> Forward(pairs[i][1], pairs[i][2])]
SmallFlows == {Flow(<<a, b, c, d>>, kind, EdgeList(S), FALSE) : kind \in SmallKinds, S \in EdgeSets}

\* A condition with two branches that join, one by its error edge, and a way past them.
Branching ==
    Flow(<<b, c, d, e>>,
         b :> "condition" @@ c :> "data" @@ d :> "direct" @@ e :> "agent",
         <<Edge(b, c, "forward", "true"), Edge(b, d, "forward", "false"),
           Forward(b, e), Forward(c, e), Edge(d, e, "error", "")>>, TRUE)

\* Two agents that feed each other, two more in a chain, and an edge drawn backwards.
Circular ==
    Flow(<<a, b, c, d, e>>,
         a :> "trigger" @@ b :> "agent" @@ c :> "agent" @@ d :> "agent" @@ e :> "agent",
         <<Forward(a, b), Forward(b, c), Forward(c, b), Edge(d, a, "reverse", ""),
           Forward(a, d), Forward(d, e)>>, FALSE)

Looping ==
    Flow(<<a, b, c, d>>, a :> "trigger" @@ b :> "loop" @@ c :> "direct" @@ d :> "data",
         <<Forward(a, b), Forward(b, c), Forward(c, d)>>, FALSE)

\* Left to the sequential path.
Short ==
    Flow(<<a, b, c>>, a :> "trigger" @@ b :> "agent" @@ c :> "condition",
         <<Forward(a, b), Forward(b, c)>>, FALSE)

DrawingsInHand == {Branching, Circular, Looping, Short}

-----------------------------------------------------------------------------
\* The flow of the behaviours that are about plans.
NoFlow == Prepared(Flow(<<>>, <<>>, <<>>, FALSE))

PlansInit ==
    /\ Init
    /\ half \in {"validation", "execution", "strategies", "flows"}
    /\ IF half = "validation" THEN ValidationInit
       ELSE plan = <<>> /\ inDegree = <<>> /\ queue = {} /\ sortedCount = 0
    /\ flow \in CASE half = "flows" -> Flows
                   [] half = "strategies" -> {Prepared(f) : f \in SmallFlows}
                   [] OTHER -> {NoFlow}
    /\ Fresh

OfExecution(A) == half = "execution" /\ A /\ UNCHANGED <<half, validationVars, flowVars>>
OfFlows(A) == half = "flows" /\ A /\ UNCHANGED <<half, validationVars, vars>>

PlansNext ==
    \/ half = "validation" /\ ValidationNext /\ UNCHANGED <<half, vars, flowVars>>
    \/ OfExecution(Next)
    \/ OfFlows(FlowNext)

plansVars == <<half, validationVars, vars, flowVars>>

PlansSpec ==
    /\ PlansInit /\ [][PlansNext]_plansVars
    /\ WF_plansVars(OfExecution(ExecNext))
    /\ \A n \in PlanIds : WF_plansVars(OfExecution(NodeNext(n)))
    /\ WF_plansVars(OfFlows(ExecutorNext))

(* Every plan that is executed finishes, unless its run is aborted.         *)
ExecutionEnds == half = "execution" => PlanEnds
=============================================================================
