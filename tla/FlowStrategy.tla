----------------------------- MODULE FlowStrategy -----------------------------
(***************************************************************************)
(* What is worked out of a flow before it runs: the plan of the sequential *)
(* path (buildExecutionPlan), and the phases of the conductor              *)
(* (compileStandardStrategy) with its cycles, depths and chains.  Prompts, *)
(* estimates and tesseract flows are left out.                             *)
(*                                                                         *)
(* A flow has its nodes in the order of the canvas, a kind and an agent    *)
(* for each, and its edges.  Kind "data" stands for every kind that asks a *)
(* model and is never collapsed, agents marked noCollapse among them, and  *)
(* "direct" for the kinds that bypass it.                                  *)
(*                                                                         *)
(* A loop of the code is a function of the number of its rounds, which     *)
(* stays as it is once the loop has ended: TLC computes it, and it can be  *)
(* proved about.                                                           *)
(***************************************************************************)
EXTENDS Subsequences, FiniteSetsExt

CONSTANT None   \* the agent of a node that names no agent

Elements(s) == {s[i] : i \in 1..Len(s)}
AllOf(seqs) == UNION {Elements(seqs[i]) : i \in 1..Len(seqs)}

NodeSet(f) == Elements(f.nodes)
NodesIn(f, S) == Keep(f.nodes, {i \in 1..Len(f.nodes) : f.nodes[i] \in S})

\* The places of the edges of a node: reverse edges do not count.
Leaving(f, n) == {i \in 1..Len(f.edges) : f.edges[i].from = n /\ f.edges[i].kind # "reverse"}
Entering(f, n) == {i \in 1..Len(f.edges) : f.edges[i].to = n /\ f.edges[i].kind # "reverse"}

Inputs(f, n) == {f.edges[i].from : i \in Entering(f, n)}

-----------------------------------------------------------------------------
(* buildExecutionPlan *)

\* Triggers first.  Among equals the code sorts by label; here labels follow the canvas.
Roots(f) ==
    LET roots == {n \in NodeSet(f) : Entering(f, n) = {}}
        triggers == {n \in roots : f.kind[n] = "trigger"}
    IN  NodesIn(f, triggers) \o NodesIn(f, roots \ triggers)

\* The edges of n by which a child loses the last of its edges, given those that are
\* taken away with n.
Releasing(f, n, taken) ==
    {i \in Leaving(f, n) :
        /\ Entering(f, f.edges[i].to) \subseteq taken
        /\ \A j \in Leaving(f, n) : f.edges[j].to = f.edges[i].to => j <= i}

\* The inDegree of a node is the number of its edges that are not taken away.
TakeNode(f, s) ==
    LET n == Head(s.queue)
        taken == s.taken \cup Leaving(f, n)
        ends == [i \in 1..Len(f.edges) |-> f.edges[i].to]
    IN  IF s.queue = <<>> THEN s
        ELSE [queue |-> Tail(s.queue) \o Keep(ends, Releasing(f, n, taken)),
              taken |-> taken, done |-> Append(s.done, n)]

Sorted(f) ==
    LET sort[k \in 0..Len(f.nodes)] ==
            IF k = 0 THEN [queue |-> Roots(f), taken |-> {}, done |-> <<>>]
            ELSE TakeNode(f, sort[k - 1])
    IN  sort[Len(f.nodes)].done

\* Nodes on a cycle or behind one come last, in the order of the canvas.
BuildExecutionPlan(f) == Sorted(f) \o NodesIn(f, NodeSet(f) \ Elements(Sorted(f)))

-----------------------------------------------------------------------------
(* The walk of detectCycles, and of detectCollapseChains: depth first, with *)
(* the path to the node at hand, the edges that were seen, the nodes that   *)
(* were left, the last one first, and the cycles that were closed.          *)

\* The next node of the canvas that was not visited.
EnterRoot(f, s) ==
    LET unvisited == {i \in 1..Len(f.nodes) : f.nodes[i] \notin Elements(s.order)}
    IN  IF unvisited = {} THEN s ELSE [s EXCEPT !.path = <<f.nodes[Min(unvisited)]>>]

\* The path from n on.
LoopAt(path, n) ==
    Keep(path, {i \in 1..Len(path) : \E j \in 1..i : path[j] = n})

\* A node on the path closes a cycle, and a node that was left is not entered again,
\* so that some nodes of a cycle may go unseen.
FollowEdge(f, s, i) ==
    LET child == f.edges[i].to
    IN  [s EXCEPT !.seen = @ \cup {i},
                  !.path = IF child \in Elements(s.path) \cup Elements(s.order)
                           THEN @ ELSE Append(@, child),
                  !.cycles = IF child \in Elements(s.path)
                             THEN Append(@, LoopAt(s.path, child)) ELSE @]

LeaveNode(s) ==
    [s EXCEPT !.path = SubSeq(@, 1, Len(@) - 1), !.order = <<s.path[Len(s.path)]>> \o @]

WalkOn(f, s) ==
    LET ahead == Leaving(f, s.path[Len(s.path)]) \ s.seen
    IN  IF s.path = <<>> THEN EnterRoot(f, s)
        ELSE IF ahead = {} THEN LeaveNode(s)
        ELSE FollowEdge(f, s, Min(ahead))

\* Every round sees an edge, enters a node or leaves one.
Walk(f) ==
    LET rounds == Len(f.edges) + 2 * Len(f.nodes)
        walk[k \in 0..rounds] ==
            IF k = 0 THEN [path |-> <<>>, seen |-> {}, order |-> <<>>, cycles |-> <<>>]
            ELSE WalkOn(f, walk[k - 1])
    IN  walk[rounds]

-----------------------------------------------------------------------------
(* mergeCycles *)

Overlapping(cycles, i) ==
    {j \in (i + 1)..Len(cycles) : Elements(cycles[i]) \cap Elements(cycles[j]) # {}}

\* The second of the first two cycles that share a node is added to the first.
MergeTwo(cycles) ==
    LET overlaps == {k \in 1..Len(cycles) : Overlapping(cycles, k) # {}}
        i == Min(overlaps)
        j == Min(Overlapping(cycles, i))
        more == Keep(cycles[j], {k \in 1..Len(cycles[j]) : cycles[j][k] \notin Elements(cycles[i])})
    IN  IF overlaps = {} THEN cycles
        ELSE Keep([cycles EXCEPT ![i] = @ \o more], (1..Len(cycles)) \ {j})

MergeCycles(cycles) ==
    LET merged[k \in 0..Len(cycles)] ==
            IF k = 0 THEN cycles ELSE MergeTwo(merged[k - 1])
    IN  merged[Len(cycles)]

-----------------------------------------------------------------------------
(* computeDepthLevels *)

\* Mutant: a node is as deep as the nearest of its parents makes it.
NearestDepths(f, cyclic) ==
    LET depth[n \in NodeSet(f) \ cyclic] ==
            LET above == Inputs(f, n) \ cyclic
            IN  IF above = {} THEN 0 ELSE Min({depth[p] + 1 : p \in above})
    IN  depth

\* The depth of each node outside the cycles; edges from a cycle do not count.
DepthLevels(f, cyclic) ==
    LET depth[n \in NodeSet(f) \ cyclic] ==
            LET above == Inputs(f, n) \ cyclic
            IN  IF above = {} THEN 0 ELSE Max({depth[p] + 1 : p \in above})
    IN  depth

-----------------------------------------------------------------------------
(* detectCollapseChains *)

\* Compared with the first node of the chain only.
Compatible(f, m, n) == f.agent[m] = None \/ f.agent[n] = None \/ f.agent[m] = f.agent[n]

\* The agent behind the last node of a chain, if the two have one edge between them and
\* no other child or parent.
NextInChain(f, chain, consumed) ==
    {n \in NodeSet(f) \ (consumed \cup Elements(chain)) :
        /\ \E i \in 1..Len(f.edges) :
               Leaving(f, chain[Len(chain)]) = {i} /\ Entering(f, n) = {i}
        /\ f.kind[n] = "agent" /\ Compatible(f, chain[1], n)}

ExtendChain(f, chain, consumed) ==
    LET next == NextInChain(f, chain, consumed)
    IN  IF next = {} THEN chain ELSE Append(chain, CHOOSE n \in next : TRUE)

ChainFrom(f, start, consumed) ==
    LET chain[k \in 0..Len(f.nodes)] ==
            IF k = 0 THEN <<start>> ELSE ExtendChain(f, chain[k - 1], consumed)
    IN  chain[Len(f.nodes)]

AddChain(f, chains, start) ==
    LET chain == ChainFrom(f, start, AllOf(chains))
    IN  IF f.kind[start] = "agent" /\ start \notin AllOf(chains) /\ Len(chain) >= 2
        THEN Append(chains, chain) ELSE chains

\* Chains of agents that one call stands for, each with at least two nodes.
CollapseChains(f) ==
    LET order == Walk(f).order
        chains[k \in 0..Len(order)] ==
            IF k = 0 THEN <<>> ELSE AddChain(f, chains[k - 1], order[k])
    IN  Elements(chains[Len(order)])

-----------------------------------------------------------------------------
(* compileStandardStrategy, shouldUseConductor *)

Unit(type, nodes) == [type |-> type, nodes |-> nodes]

\* Mutant: a chain is one unit more, and its nodes run by themselves as well.
PhaseWithChains(chains, depths, d) ==
    {Unit("collapsed", c) : c \in {x \in chains : x[1] \in DOMAIN depths /\ depths[x[1]] = d}}
    \cup {Unit("single", <<n>>) : n \in {x \in DOMAIN depths : depths[x] = d}}

\* A phase for each depth: the chains that begin there, and the nodes left over.
PhaseAt(chains, depths, d) ==
    LET collapsed == UNION {Elements(c) : c \in chains}
    IN  {Unit("collapsed", c) : c \in {x \in chains : x[1] \in DOMAIN depths /\ depths[x[1]] = d}}
        \cup {Unit("single", <<n>>) : n \in {x \in DOMAIN depths \ collapsed : depths[x] = d}}

\* Depths that only later nodes of chains have make no phase; meshes come last.
CompileStrategy(f) ==
    LET cycles == Walk(f).cycles
        meshes == MergeCycles(cycles)
        depths == DepthLevels(f, AllOf(cycles))
        chains == CollapseChains(f)
        deepest == Max({0} \cup {depths[n] : n \in DOMAIN depths})
        levels == [i \in 1..(deepest + 1) |-> PhaseAt(chains, depths, i - 1)]
    IN  Keep(levels, {i \in 1..(deepest + 1) : levels[i] # {}})
        \o [i \in 1..Len(meshes) |-> {Unit("mesh", meshes[i])}]

\* An edge to and fro counts as a cycle here, and nowhere else.
ShouldUseConductor(f) ==
    \/ Len(f.nodes) >= 4
    \/ \E i, j \in 1..Len(f.edges) : i # j /\ f.edges[i].from = f.edges[j].from
    \/ \E i \in 1..Len(f.edges) : f.edges[i].kind = "bidirectional"
    \/ /\ \E n \in NodeSet(f) : f.kind[n] \in {"agent", "condition", "data"}
       /\ \E n \in NodeSet(f) : f.kind[n] \in {"direct", "loop"}

-----------------------------------------------------------------------------
(* Flows as they are drawn, and with what is worked out of them             *)

\* Ids are generated, and the edges of a node are removed with it.  A file that is
\* imported is not looked into: one that was exported from here is a drawing as well.
IsDrawing(f) ==
    /\ f.nodes \in Seq(NodeSet(f))
    /\ \A i, j \in 1..Len(f.nodes) : f.nodes[i] = f.nodes[j] => i = j
    /\ f.edges \in Seq([from : NodeSet(f), to : NodeSet(f), label : {"", "true", "false"},
                        kind : {"forward", "reverse", "bidirectional", "error"}])

\* Nodes on a cycle or behind one: each of them has an input among them.
EntangledIn(f) == UNION {S \in SUBSET NodeSet(f) : \A n \in S : S \cap Inputs(f, n) # {}}

Prepared(f) ==
    [nodes |-> f.nodes, kind |-> f.kind, edges |-> f.edges, retries |-> f.retries,
     plan |-> BuildExecutionPlan(f), phases |-> CompileStrategy(f),
     conducted |-> ShouldUseConductor(f), entangled |-> EntangledIn(f)]

-----------------------------------------------------------------------------
(* What the plan and the phases of a flow promise                           *)

\* The plan has every node once, inputs first where there is an order.
PlanIsSound(f) ==
    /\ f.plan \in Seq(NodeSet(f)) /\ NodeSet(f) \subseteq Elements(f.plan)
    /\ \A i, j \in 1..Len(f.plan) : f.plan[i] = f.plan[j] => i = j
    /\ \A i, j \in 1..Len(f.plan) :
           f.plan[i] \in Inputs(f, f.plan[j]) \ f.entangled => i < j

\* A single unit has one node, and no unit is empty.
UnitsOf(f) ==
    {u \in [type : {"single", "collapsed", "mesh"}, nodes : Seq(NodeSet(f))] :
        /\ u.nodes # <<>>
        /\ u.type = "single" => Len(u.nodes) = 1}

\* Every node stands once in one unit of one phase, and an edge outside the cycles
\* leads to a later phase or to the next node of a chain.
PhasesAreOrdered(f) ==
    /\ f.phases \in Seq(SUBSET UnitsOf(f))
    /\ \A n \in NodeSet(f) : \E i \in 1..Len(f.phases) : \E u \in f.phases[i] : n \in Elements(u.nodes)
    /\ \A i, j \in 1..Len(f.phases) : \A u \in f.phases[i], v \in f.phases[j] :
       \A k \in 1..Len(u.nodes), l \in 1..Len(v.nodes) :
           /\ u.nodes[k] = v.nodes[l] => i = j /\ u = v /\ k = l
           /\ u.nodes[k] \in Inputs(f, v.nodes[l]) \ f.entangled =>
                  i < j \/ (i = j /\ u = v /\ u.type = "collapsed" /\ l = k + 1)

FlowIsSound(f) == PlanIsSound(f) /\ PhasesAreOrdered(f)
=============================================================================
