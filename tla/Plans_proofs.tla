----------------------------- MODULE Plans_proofs -----------------------------
(***************************************************************************)
(* Plans of tool calls and flows: which plans the validation accepts and the *)
(* phases made of them, what the executor does with phases like these, and *)
(* how a flow is made into phases and run along them.  One section each;   *)
(* what runs has an inductive invariant of its own.                        *)
(***************************************************************************)
EXTENDS PlanValidation, PlanExecutor, FlowRuns, Subsequences_proofs, FiniteSetTheorems, TLAPS

-----------------------------------------------------------------------------
(***************************************************************************)
(* The validation of plans and the phases made of them, for every set of   *)
(* plans: the sort tells exactly the plans that can be executed, and the   *)
(* phases of such a plan are what the executor assumes.                    *)
(***************************************************************************)
WellFormed(p) == p \in Seq([id : Names, depends_on : Seq(Names)])

-----------------------------------------------------------------------------
(* Nodes and edges *)

LEMMA PlanNodes ==
    ASSUME NEW p, WellFormed(p)
    PROVE  /\ Len(p) \in Nat
           /\ \A i \in 1..Len(p) : /\ p[i].id \in Names
                                   /\ p[i].depends_on \in Seq(Names)
                                   /\ Len(p[i].depends_on) \in Nat
<1>1. Len(p) \in Nat /\ \A i \in 1..Len(p) : p[i] \in [id : Names, depends_on : Seq(Names)]
  <2> DEFINE Node == [id : Names, depends_on : Seq(Names)]
  <2>1. p \in Seq(Node)
    BY DEF WellFormed
  <2> HIDE DEF Node
  <2>2. Len(p) \in Nat /\ \A i \in 1..Len(p) : p[i] \in Node
    BY <2>1, SeqElements
  <2> QED
    BY <2>2 DEF Node
<1>2. ASSUME NEW i \in 1..Len(p)
      PROVE  /\ p[i].id \in Names
             /\ p[i].depends_on \in Seq(Names)
             /\ Len(p[i].depends_on) \in Nat
  <2>1. p[i].id \in Names /\ p[i].depends_on \in Seq(Names)
    BY <1>1
  <2> QED
    BY <2>1
<1> QED
  BY <1>1, <1>2

LEMMA EdgeIn ==
    ASSUME NEW p, NEW d, NEW n, NEW e
    PROVE  e \in Edges(p, d, n) <=>
              \E i \in 1..Len(p) : \E k \in 1..Len(p[i].depends_on) :
                  e = <<i, k>> /\ p[i].id = n /\ p[i].depends_on[k] = d
BY DEF Edges

LEMMA DepIn ==
    ASSUME NEW p, NEW d, NEW n
    PROVE  d \in DepsOf(p, n) <=> Edges(p, d, n) # {}
<1>1. d \in DepsOf(p, n) <=>
         \E i \in 1..Len(p) : \E k \in 1..Len(p[i].depends_on) :
             p[i].id = n /\ p[i].depends_on[k] = d
  BY DEF DepsOf
<1>2. ASSUME d \in DepsOf(p, n) PROVE Edges(p, d, n) # {}
  <2>1. PICK i \in 1..Len(p) : \E k \in 1..Len(p[i].depends_on) :
           p[i].id = n /\ p[i].depends_on[k] = d
    BY <1>1, <1>2
  <2>2. PICK k \in 1..Len(p[i].depends_on) : p[i].id = n /\ p[i].depends_on[k] = d
    BY <2>1
  <2>3. <<i, k>> \in Edges(p, d, n)
    BY <2>2, EdgeIn
  <2> QED
    BY <2>3
<1>3. ASSUME Edges(p, d, n) # {} PROVE d \in DepsOf(p, n)
  <2>1. PICK e : e \in Edges(p, d, n)
    BY <1>3
  <2> QED
    BY <1>1, <2>1, EdgeIn
<1> QED
  BY <1>2, <1>3

\* An edge has one end only.
LEMMA EdgesApart ==
    ASSUME NEW p, NEW c, NEW d, NEW n, c # d
    PROVE  Edges(p, c, n) \cap Edges(p, d, n) = {}
<1> SUFFICES ASSUME NEW e, e \in Edges(p, c, n), e \in Edges(p, d, n) PROVE FALSE
  OBVIOUS
<1>1. PICK i \in 1..Len(p) : \E k \in 1..Len(p[i].depends_on) :
         e = <<i, k>> /\ p[i].depends_on[k] = c
  BY EdgeIn
<1>2. PICK k \in 1..Len(p[i].depends_on) : e = <<i, k>> /\ p[i].depends_on[k] = c
  BY <1>1
<1>3. PICK j \in 1..Len(p) : \E l \in 1..Len(p[j].depends_on) :
         e = <<j, l>> /\ p[j].depends_on[l] = d
  BY EdgeIn
<1>4. PICK l \in 1..Len(p[j].depends_on) : e = <<j, l>> /\ p[j].depends_on[l] = d
  BY <1>3
<1>5. i = j /\ k = l
  BY <1>2, <1>4
<1> QED
  BY <1>2, <1>4, <1>5

EdgesFrom(p, D, n) == UNION {Edges(p, d, n) : d \in D}

LEMMA EdgesFinite ==
    ASSUME NEW p, WellFormed(p), NEW D, NEW n
    PROVE  IsFiniteSet(EdgesFrom(p, D, n))
<1> DEFINE row == [i \in 1..Len(p) |-> {i} \X (1..Len(p[i].depends_on))]
           rows == {row[i] : i \in 1..Len(p)}
<1>1. Len(p) \in Nat /\ \A i \in 1..Len(p) : Len(p[i].depends_on) \in Nat
  BY PlanNodes
<1>2. IsFiniteSet(rows)
  <2>1. row \in Surjection(1..Len(p), rows)
    BY DEF Surjection
  <2>2. IsFiniteSet(1..Len(p))
    BY <1>1, FS_Interval
  <2> HIDE DEF row, rows
  <2> QED
    BY <2>1, <2>2, FS_Surjection
<1>3. ASSUME NEW T \in rows PROVE IsFiniteSet(T)
  <2>1. PICK i \in 1..Len(p) : T = {i} \X (1..Len(p[i].depends_on))
    OBVIOUS
  <2>2. IsFiniteSet({i}) /\ IsFiniteSet(1..Len(p[i].depends_on))
    <3>1. Len(p[i].depends_on) \in Int /\ 1 \in Int
      BY <1>1
    <3>2. IsFiniteSet(1..Len(p[i].depends_on))
      BY <3>1, FS_Interval
    <3> QED
      BY <3>2, FS_Singleton
  <2> QED
    BY <2>1, <2>2, FS_Product
<1>4. IsFiniteSet(UNION rows)
  <2> HIDE DEF rows
  <2> QED
    BY <1>2, <1>3, FS_UNION
<1>5. EdgesFrom(p, D, n) \in SUBSET (UNION rows)
  <2> SUFFICES ASSUME NEW e \in EdgesFrom(p, D, n) PROVE e \in UNION rows
    OBVIOUS
  <2>1. PICK d \in D : e \in Edges(p, d, n)
    BY DEF EdgesFrom
  <2>2. PICK i \in 1..Len(p) : \E k \in 1..Len(p[i].depends_on) : e = <<i, k>>
    BY <2>1, EdgeIn
  <2>3. e \in row[i]
    BY <2>2
  <2> QED
    BY <2>3
<1> QED
  BY <1>4, <1>5, FS_Subset

LEMMA IdsFinite ==
    ASSUME NEW p, WellFormed(p)
    PROVE  /\ IsFiniteSet(IdsOf(p))
           /\ Cardinality(IdsOf(p)) \in Nat
           /\ Cardinality(IdsOf(p)) <= Len(p)
           /\ Cardinality(IdsOf(p)) = Len(p) <=>
                \A i, j \in 1..Len(p) : p[i].id = p[j].id => i = j
<1> DEFINE f == [i \in 1..Len(p) |-> p[i].id]
<1>1. Len(p) \in Nat
  BY PlanNodes
<1>2. f \in Surjection(1..Len(p), IdsOf(p))
  BY DEF Surjection, IdsOf
<1>3. IsFiniteSet(1..Len(p)) /\ Cardinality(1..Len(p)) = Len(p)
  <2> DEFINE n == Len(p)
  <2>1. n \in Nat
    BY <1>1
  <2> HIDE DEF n
  <2>2. IsFiniteSet(1..n) /\ Cardinality(1..n) = n
    BY <2>1, FS_Interval
  <2> QED
    BY <2>2 DEF n
<1>4. f \in Injection(1..Len(p), IdsOf(p)) <=>
         \A i, j \in 1..Len(p) : p[i].id = p[j].id => i = j
  BY <1>2 DEF Injection, Surjection, IsInjective
<1>5. /\ IsFiniteSet(IdsOf(p))
      /\ Cardinality(IdsOf(p)) <= Cardinality(1..Len(p))
      /\ Cardinality(IdsOf(p)) = Cardinality(1..Len(p)) <=> f \in Injection(1..Len(p), IdsOf(p))
  <2> HIDE DEF f
  <2> QED
    BY <1>2, <1>3, FS_Surjection
<1>6. Cardinality(IdsOf(p)) \in Nat
  BY <1>5, FS_CardinalityType
<1> QED
  BY <1>3, <1>4, <1>5, <1>6

-----------------------------------------------------------------------------
(* What the sort knows at any time.  The ids already visited are those of   *)
(* in-degree zero that left the queue; the in-degree of a node counts its   *)
(* edges from the others; and every group of visited ids has one that       *)
(* depends on none of the group.                                            *)
Visited == {m \in IdsOf(plan) : inDegree[m] = 0 /\ m \notin queue}

Grounded(p, V) == \A S \in SUBSET V : S # {} => \E n \in S : DepsOf(p, n) \cap S = {}

KahnTypes ==
    /\ plan \in Plans
    /\ inDegree \in [IdsOf(plan) -> Nat]
    /\ queue \in SUBSET IdsOf(plan)

KahnInv ==
    /\ KahnTypes
    /\ \A m \in queue : inDegree[m] = 0
    /\ \A m \in IdsOf(plan) :
         inDegree[m] = Cardinality(EdgesFrom(plan, IdsOf(plan) \ Visited, m))
    /\ sortedCount = Cardinality(Visited)
    /\ Grounded(plan, Visited)

LEMMA PlansWellFormed == ASSUME NEW p \in Plans PROVE WellFormed(p)
BY ValidationAssumption DEF WellFormed

\* A node with no edge from D depends on none of D.
LEMMA NoEdges ==
    ASSUME NEW p, WellFormed(p), NEW D, NEW n, Cardinality(EdgesFrom(p, D, n)) = 0
    PROVE  DepsOf(p, n) \cap D = {}
<1>1. EdgesFrom(p, D, n) = {}
  BY EdgesFinite, FS_EmptySet
<1> SUFFICES ASSUME NEW d \in D, d \in DepsOf(p, n) PROVE FALSE
  OBVIOUS
<1>2. Edges(p, d, n) # {}
  BY DepIn
<1> QED
  BY <1>1, <1>2 DEF EdgesFrom

\* Visiting n takes its edges, and no others, from those that were left.
LEMMA EdgesTaken ==
    ASSUME NEW p, WellFormed(p), NEW D, NEW n \in D, NEW m
    PROVE  /\ Cardinality(EdgesFrom(p, D, m)) \in Nat
           /\ Cardinality(Edges(p, n, m)) \in Nat
           /\ Cardinality(EdgesFrom(p, D \ {n}, m)) \in Nat
           /\ Cardinality(EdgesFrom(p, D \ {n}, m)) =
                Cardinality(EdgesFrom(p, D, m)) - Cardinality(Edges(p, n, m))
<1>1. EdgesFrom(p, D \ {n}, m) = EdgesFrom(p, D, m) \ Edges(p, n, m)
  <2>1. \A d \in D \ {n} : Edges(p, d, m) \cap Edges(p, n, m) = {}
    BY EdgesApart
  <2> QED
    BY <2>1 DEF EdgesFrom
<1>2. EdgesFrom(p, D, m) \cap Edges(p, n, m) = Edges(p, n, m)
  BY DEF EdgesFrom
<1>3. Edges(p, n, m) = EdgesFrom(p, {n}, m)
  BY DEF EdgesFrom
<1>4. /\ IsFiniteSet(EdgesFrom(p, D, m)) /\ IsFiniteSet(Edges(p, n, m))
      /\ IsFiniteSet(EdgesFrom(p, D \ {n}, m))
  BY <1>3, EdgesFinite
<1>5. /\ Cardinality(EdgesFrom(p, D, m)) \in Nat
      /\ Cardinality(Edges(p, n, m)) \in Nat
      /\ Cardinality(EdgesFrom(p, D \ {n}, m)) \in Nat
  BY <1>4, FS_CardinalityType
<1> QED
  BY <1>1, <1>2, <1>4, <1>5, FS_Difference

LEMMA KahnInit == ValidationInit => KahnInv
<1> SUFFICES ASSUME ValidationInit PROVE KahnInv
  OBVIOUS
<1> USE DEF ValidationInit
<1>1. WellFormed(plan)
  BY PlansWellFormed
<1>2. Visited = {}
  BY DEF Visited
<1>3. \A m \in IdsOf(plan) : EdgesInto(plan, m) = EdgesFrom(plan, IdsOf(plan) \ Visited, m)
  BY <1>2 DEF EdgesInto, EdgesFrom
<1>4. \A m \in IdsOf(plan) : Cardinality(EdgesInto(plan, m)) \in Nat
  BY <1>1, <1>3, EdgesFinite, FS_CardinalityType
<1>5. KahnTypes
  BY <1>4 DEF KahnTypes
<1>6. sortedCount = Cardinality(Visited)
  BY <1>2, FS_EmptySet
<1>7. Grounded(plan, Visited)
  BY <1>2 DEF Grounded
<1>8. \A m \in IdsOf(plan) :
         inDegree[m] = Cardinality(EdgesFrom(plan, IdsOf(plan) \ Visited, m))
  BY <1>3
<1> QED
  BY <1>5, <1>6, <1>7, <1>8 DEF KahnInv

LEMMA KahnStep == KahnInv /\ [ValidationNext]_validationVars => KahnInv'
<1> SUFFICES ASSUME KahnInv, [ValidationNext]_validationVars PROVE KahnInv'
  OBVIOUS
<1>1. CASE UNCHANGED validationVars
  BY <1>1 DEF validationVars, KahnInv, KahnTypes, Visited, Grounded, EdgesFrom
<1>2. ASSUME NEW n \in IdsOf(plan), VisitNode(n) PROVE KahnInv'
  <2> DEFINE ids   == IdsOf(plan)
             rest  == ids \ Visited
             edges(m) == Cardinality(Edges(plan, n, m))
  <2>1. WellFormed(plan) /\ KahnTypes
    BY PlansWellFormed DEF KahnInv, KahnTypes
  <2>2. /\ n \in queue /\ inDegree[n] = 0
        /\ inDegree' = [m \in ids |-> inDegree[m] - edges(m)]
        /\ queue' = (queue \ {n}) \cup {m \in ids : inDegree[m] > 0 /\ inDegree[m] - edges(m) = 0}
        /\ sortedCount' = sortedCount + 1
        /\ plan' = plan
    BY <1>2 DEF VisitNode, KahnInv
  <2>3. n \in rest
    BY <2>2 DEF Visited
  <2>4. \A m \in ids : inDegree[m] = Cardinality(EdgesFrom(plan, rest, m))
    BY DEF KahnInv
  <2>5. \A m \in ids :
           /\ inDegree[m] \in Nat /\ edges(m) \in Nat
           /\ inDegree'[m] = inDegree[m] - edges(m)
           /\ inDegree'[m] \in Nat
           /\ inDegree'[m] = Cardinality(EdgesFrom(plan, rest \ {n}, m))
    <3> SUFFICES ASSUME NEW m \in ids
                 PROVE  /\ inDegree[m] \in Nat /\ edges(m) \in Nat
                        /\ inDegree'[m] = inDegree[m] - edges(m)
                        /\ inDegree'[m] \in Nat
                        /\ inDegree'[m] = Cardinality(EdgesFrom(plan, rest \ {n}, m))
      OBVIOUS
    <3>1. inDegree'[m] = inDegree[m] - edges(m)
      BY <2>2
    <3>2. /\ Cardinality(EdgesFrom(plan, rest, m)) \in Nat
          /\ edges(m) \in Nat
          /\ Cardinality(EdgesFrom(plan, rest \ {n}, m)) \in Nat
          /\ Cardinality(EdgesFrom(plan, rest \ {n}, m)) =
                Cardinality(EdgesFrom(plan, rest, m)) - edges(m)
      <4> HIDE DEF rest
      <4> QED
        BY <2>1, <2>3, EdgesTaken
    <3> QED
      BY <2>4, <3>1, <3>2
  <2>6. Visited' = Visited \cup {n}
    <3>1. \A m \in ids : inDegree[m] = 0 => inDegree'[m] = 0 /\ inDegree[m] - edges(m) = 0
      BY <2>5
    <3>2. ASSUME NEW m \in ids PROVE m \in Visited' <=> m \in Visited \cup {n}
      <4>1. m \in Visited' <=> inDegree'[m] = 0 /\ m \notin queue'
        BY <2>2 DEF Visited
      <4>2. m \in Visited <=> inDegree[m] = 0 /\ m \notin queue
        BY DEF Visited
      <4>3. m \in queue' <=> \/ m \in queue /\ m # n
                             \/ inDegree[m] > 0 /\ inDegree'[m] = 0
        BY <2>2, <2>5
      <4>4. inDegree[m] > 0 <=> inDegree[m] # 0
        BY <2>5
      <4> QED
        BY <2>2, <3>1, <4>1, <4>2, <4>3, <4>4
    <3> QED
      BY <2>2, <3>2 DEF Visited
  <2>7. ids \ Visited' = rest \ {n}
    BY <2>6
  <2>8. KahnTypes'
    <3>1. inDegree' \in [ids -> Nat]
      BY <2>2, <2>5
    <3> QED
      BY <2>1, <2>2, <3>1 DEF KahnTypes
  <2>9. \A m \in queue' : inDegree'[m] = 0
    <3> SUFFICES ASSUME NEW m \in queue' PROVE inDegree'[m] = 0
      OBVIOUS
    <3>1. m \in ids
      BY <2>1, <2>2 DEF KahnTypes
    <3>2. CASE m \in queue
      <4>1. inDegree[m] = 0
        BY <3>2 DEF KahnInv
      <4> QED
        BY <2>5, <3>1, <4>1
    <3>3. CASE m \notin queue
      BY <2>2, <2>5, <3>1, <3>3
    <3> QED
      BY <3>2, <3>3
  <2>10. sortedCount' = Cardinality(Visited')
    <3>1. IsFiniteSet(Visited)
      <4>1. Visited \in SUBSET ids
        BY DEF Visited
      <4> QED
        BY <2>1, <4>1, IdsFinite, FS_Subset
    <3>2. Cardinality(Visited \cup {n}) = Cardinality(Visited) + 1
      BY <2>3, <3>1, FS_AddElement
    <3> QED
      BY <2>2, <2>6, <3>2 DEF KahnInv
  <2>11. Grounded(plan, Visited')
    <3>1. DepsOf(plan, n) \cap rest = {}
      BY <2>1, <2>2, <2>4, NoEdges
    <3>2. \A m \in Visited : DepsOf(plan, m) \cap rest = {}
      BY <2>1, <2>4, NoEdges DEF Visited
    <3>3. ASSUME NEW S \in SUBSET (Visited \cup {n}), S # {}
          PROVE  \E m \in S : DepsOf(plan, m) \cap S = {}
      <4>1. CASE S \ {n} = {}
        BY <2>3, <3>1, <3>3, <4>1
      <4>2. CASE S \ {n} # {}
        <5>1. S \ {n} \in SUBSET Visited
          OBVIOUS
        <5>2. PICK m \in S \ {n} : DepsOf(plan, m) \cap (S \ {n}) = {}
          BY <4>2, <5>1 DEF KahnInv, Grounded
        <5>3. n \notin DepsOf(plan, m)
          BY <2>3, <3>2, <5>1
        <5> QED
          BY <5>2, <5>3
      <4> QED
        BY <4>1, <4>2
    <3> QED
      BY <2>6, <3>3 DEF Grounded
  <2>12. \A m \in ids : inDegree'[m] = Cardinality(EdgesFrom(plan, ids \ Visited', m))
    BY <2>5, <2>7
  <2> QED
    BY <2>2, <2>8, <2>9, <2>10, <2>11, <2>12 DEF KahnInv
<1> QED
  BY <1>1, <1>2 DEF ValidationNext

LEMMA KahnInductive == ValidationSpec => []KahnInv
BY KahnInit, KahnStep, PTL DEF ValidationSpec

LEMMA VisitedCounts ==
    ASSUME KahnInv
    PROVE  /\ sortedCount \in 0..Len(plan)
           /\ sortedCount = Len(plan) =>
                Visited = IdsOf(plan) /\ Cardinality(IdsOf(plan)) = Len(plan)
           /\ Visited = IdsOf(plan) => sortedCount = Cardinality(IdsOf(plan))
<1>1. WellFormed(plan)
  BY PlansWellFormed DEF KahnInv, KahnTypes
<1>2. Visited \in SUBSET IdsOf(plan)
  BY DEF Visited
<1>3. /\ IsFiniteSet(Visited) /\ Cardinality(Visited) <= Cardinality(IdsOf(plan))
      /\ Cardinality(IdsOf(plan)) = Cardinality(Visited) => IdsOf(plan) = Visited
  BY <1>1, <1>2, IdsFinite, FS_Subset
<1>4. /\ Cardinality(Visited) \in Nat /\ Cardinality(IdsOf(plan)) \in Nat
      /\ Cardinality(IdsOf(plan)) <= Len(plan) /\ Len(plan) \in Nat
  BY <1>1, <1>3, IdsFinite, FS_CardinalityType, PlanNodes
<1>5. sortedCount = Cardinality(Visited)
  BY DEF KahnInv
<1> QED
  BY <1>3, <1>4, <1>5

(* The variables of the sort keep their types: no in-degree goes below zero  *)
(* (it is unsigned in the code), whatever dependencies and ids are repeated. *)
THEOREM ValidationTypes == ValidationSpec => []ValidationTypeOK
<1>1. KahnInv => ValidationTypeOK
  BY VisitedCounts DEF KahnInv, KahnTypes, ValidationTypeOK
<1> QED
  BY <1>1, KahnInductive, PTL

\* When the sort is done, what was not visited is a group of nodes each of
\* which depends on another one, so a plan without such a group is visited.
LEMMA SortIsComplete ==
    ASSUME KahnInv, SortDone,
           \A n \in IdsOf(plan) : DepsOf(plan, n) \subseteq IdsOf(plan),
           Grounded(plan, IdsOf(plan))
    PROVE  Visited = IdsOf(plan)
<1> DEFINE rest == IdsOf(plan) \ Visited
<1>1. WellFormed(plan)
  BY PlansWellFormed DEF KahnInv, KahnTypes
<1>2. SUFFICES ASSUME rest # {} PROVE FALSE
  BY DEF Visited
<1>3. PICK n \in rest : DepsOf(plan, n) \cap rest = {}
  BY <1>2 DEF Grounded
<1>4. EdgesFrom(plan, rest, n) = {}
  BY <1>3, DepIn DEF EdgesFrom
<1>5. inDegree[n] = Cardinality(EdgesFrom(plan, rest, n))
  BY <1>3 DEF KahnInv
<1>6. inDegree[n] = 0
  BY <1>4, <1>5, FS_EmptySet
<1> QED
  BY <1>3, <1>6 DEF Visited, SortDone

(* validate_plan_structure reports no error exactly for the plans that can   *)
(* be executed, for every plan and every order in which the sort visits the  *)
(* nodes that the hash map may give it.                                      *)
THEOREM ValidationIsExact == ValidationSpec => []AcceptsExactlyExecutable
<1>1. KahnInv => AcceptsExactlyExecutable
  <2> SUFFICES ASSUME KahnInv, SortDone PROVE Errors = {} <=> Executable(plan)
    BY DEF AcceptsExactlyExecutable
  <2>1. /\ Len(plan) \in Nat /\ Cardinality(IdsOf(plan)) \in Nat
        /\ Cardinality(IdsOf(plan)) <= Len(plan)
        /\ Cardinality(IdsOf(plan)) = Len(plan) <=>
             \A i, j \in 1..Len(plan) : plan[i].id = plan[j].id => i = j
    BY PlansWellFormed, PlanNodes, IdsFinite DEF KahnInv, KahnTypes
  <2>2. Errors = {} <=>
          /\ plan # <<>>
          /\ ~ (Len(plan) > MaxPlanNodes)
          /\ ~ (Cardinality(IdsOf(plan)) < Len(plan))
          /\ \A n \in IdsOf(plan) : DepsOf(plan, n) \subseteq IdsOf(plan)
          /\ ~ (sortedCount < Len(plan))
    BY DEF Errors
  <2>3. ASSUME Errors = {} PROVE Executable(plan)
    <3>1. sortedCount = Len(plan)
      BY <2>1, <2>2, <2>3, VisitedCounts
    <3>2. Grounded(plan, IdsOf(plan)) /\ Cardinality(IdsOf(plan)) = Len(plan)
      BY <3>1, VisitedCounts DEF KahnInv
    <3>3. Len(plan) <= MaxPlanNodes
      BY <2>1, <2>2, <2>3, ValidationAssumption
    <3> QED
      BY <2>1, <2>2, <2>3, <3>2, <3>3 DEF Executable, Grounded
  <2>4. ASSUME Executable(plan) PROVE Errors = {}
    <3>1. Grounded(plan, IdsOf(plan))
      BY <2>4 DEF Executable, Grounded
    <3>2. Cardinality(IdsOf(plan)) = Len(plan)
      BY <2>1, <2>4 DEF Executable
    <3>3. sortedCount = Len(plan)
      BY <2>4, <3>1, <3>2, SortIsComplete, VisitedCounts DEF Executable
    <3>4. ~ (Len(plan) > MaxPlanNodes)
      BY <2>1, <2>4, ValidationAssumption DEF Executable
    <3> QED
      BY <2>1, <2>2, <2>4, <3>2, <3>3, <3>4 DEF Executable
  <2> QED
    BY <2>3, <2>4
<1> QED
  BY <1>1, KahnInductive, PTL

-----------------------------------------------------------------------------
(* Depths over a relation without cycles *)

LEMMA MaxIs ==
    ASSUME NEW T \in SUBSET Nat, T # {}, NEW b \in Nat, \A y \in T : y <= b
    PROVE  Max(T) \in T /\ Max(T) <= b /\ \A y \in T : y <= Max(T)
<1>1. \E x \in T : \A y \in T : y <= x
  BY Greatest
<1>2. \E x \in T : \A y \in T : x >= y
  BY <1>1
<1> QED
  BY <1>2 DEF Max

\* D[n] is what stands directly above n.
Founded(U, D) ==
    /\ IsFiniteSet(U) /\ D \in [U -> SUBSET U]
    /\ \A S \in SUBSET U : S # {} => \E n \in S : D[n] \cap S = {}

LevelAfter(f, A) == IF A = {} THEN 0 ELSE Max({f[d] + 1 : d \in A})
LevelsAre(f, U, D) == f = [n \in U |-> LevelAfter(f, D[n])]

LEMMA LevelFrom ==
    ASSUME NEW A, NEW b \in Nat, NEW f, \A d \in A : f[d] \in 0..b
    PROVE  /\ LevelAfter(f, A) \in 0..(b + 1)
           /\ \A d \in A : f[d] < LevelAfter(f, A)
           /\ LevelAfter(f, A) > 0 => \E d \in A : f[d] + 1 = LevelAfter(f, A)
  <1>1. CASE A = {}
    BY <1>1 DEF LevelAfter
  <1>2. CASE A # {}
    <2> DEFINE T == {f[d] + 1 : d \in A}
    <2>1. T \in SUBSET Nat /\ T # {} /\ b + 1 \in Nat /\ \A y \in T : y <= b + 1
      BY <1>2
    <2>2. Max(T) \in T /\ Max(T) <= b + 1 /\ \A y \in T : y <= Max(T)
      <3> HIDE DEF T
      <3> QED
        BY <2>1, MaxIs
    <2>3. LevelAfter(f, A) = Max(T)
      BY <1>2 DEF LevelAfter
    <2>4. \A d \in A : f[d] + 1 <= Max(T) /\ f[d] \in Nat
      BY <2>2
    <2>5. Max(T) \in Nat
      BY <2>1, <2>2
    <2>6. \E d \in A : f[d] + 1 = Max(T)
      BY <2>2
    <2> HIDE DEF T
    <2> QED
      BY <2>2, <2>3, <2>4, <2>5, <2>6
  <1> QED
    BY <1>1, <1>2

LEMMA LevelLocal ==
    ASSUME NEW A, NEW f, NEW g, \A d \in A : f[d] = g[d]
    PROVE  LevelAfter(f, A) = LevelAfter(g, A)
  <1>1. {f[d] + 1 : d \in A} = {g[d] + 1 : d \in A}
    OBVIOUS
  <1> QED
    BY <1>1 DEF LevelAfter

\* Depths on the part W of U, which has nothing above it outside of it.
LevelsOn(U, D, W, k, f) ==
    /\ W \in SUBSET U /\ IsFiniteSet(W) /\ Cardinality(W) = k
    /\ \A n \in W : D[n] \subseteq W
    /\ f \in [W -> 0..k]
    /\ \A n \in W : f[n] = LevelAfter(f, D[n])

LEMMA LevelsExist ==
    ASSUME NEW U, NEW D, Founded(U, D)
    PROVE  \E f \in [U -> 0..Cardinality(U)] : LevelsAre(f, U, D)
  <1> DEFINE N == Cardinality(U)
             P == {k \in 0..N : \E W : \E f : LevelsOn(U, D, W, k, f)}
  <1>1. N \in Nat /\ IsFiniteSet(U) /\ D \in [U -> SUBSET U]
    BY FS_CardinalityType DEF Founded
  <1>2. 0 \in P
    <2> DEFINE f == [n \in {} |-> 0]
    <2>1. IsFiniteSet({}) /\ Cardinality({}) = 0
      BY FS_EmptySet
    <2>2. LevelsOn(U, D, {}, 0, f)
      BY <2>1 DEF LevelsOn
    <2>3. 0 \in 0..N
      BY <1>1
    <2> HIDE DEF f, N
    <2> QED
      BY <2>2, <2>3
  <1>3. ASSUME NEW k \in 1..N, k - 1 \in P PROVE k \in P
    <2>1. PICK W, f : LevelsOn(U, D, W, k - 1, f)
      BY <1>3
    <2>2. /\ k \in Nat /\ k - 1 \in Nat /\ k - 1 + 1 = k /\ k - 1 # N
          /\ k \in 0..N /\ \A x \in 0..(k - 1) : x \in 0..k
      BY <1>1
    <2>3. U \ W # {}
      BY <2>1, <2>2 DEF LevelsOn
    <2>4. PICK n \in U \ W : D[n] \cap (U \ W) = {}
      BY <2>3 DEF Founded
    <2>5. D[n] \subseteq W
      BY <1>1, <2>4
    <2> DEFINE X == W \cup {n}
               g == [m \in X |-> IF m = n THEN LevelAfter(f, D[n]) ELSE f[m]]
    <2>6. X \in SUBSET U /\ IsFiniteSet(X) /\ Cardinality(X) = k
      BY <2>1, <2>2, <2>4, FS_AddElement DEF LevelsOn
    <2>7. \A m \in X : D[m] \subseteq W
      BY <2>1, <2>5 DEF LevelsOn
    <2>8. \A m \in W : g[m] = f[m] /\ f[m] \in 0..(k - 1)
      BY <2>1, <2>4 DEF LevelsOn
    <2>9. g[n] = LevelAfter(f, D[n]) /\ LevelAfter(f, D[n]) \in 0..k
      <3>1. \A d \in D[n] : f[d] \in 0..(k - 1)
        BY <2>5, <2>8
      <3>2. LevelAfter(f, D[n]) \in 0..(k - 1 + 1)
        BY <2>2, <3>1, LevelFrom
      <3> QED
        BY <2>2, <3>2
    <2>10. g \in [X -> 0..k]
      BY <2>2, <2>8, <2>9
    <2> HIDE DEF g
    <2>11. ASSUME NEW m \in X PROVE g[m] = LevelAfter(g, D[m])
      <3>1. LevelAfter(f, D[m]) = LevelAfter(g, D[m])
        <4>1. \A d \in D[m] : f[d] = g[d]
          BY <2>7, <2>8
        <4> QED
          BY <4>1, LevelLocal
      <3>2. g[m] = LevelAfter(f, D[m])
        BY <2>1, <2>8, <2>9 DEF LevelsOn
      <3> QED
        BY <3>1, <3>2
    <2>12. LevelsOn(U, D, X, k, g)
      <3>1. \A m \in X : D[m] \subseteq X
        BY <2>7
      <3> HIDE DEF X
      <3> QED
        BY <2>6, <2>10, <2>11, <3>1 DEF LevelsOn
    <2> HIDE DEF X, N
    <2> QED
      BY <2>2, <2>12
  <1>4. N \in P
    <2>1. P \in SUBSET (0..N) /\ N \in 0..N
      BY <1>1
    <2> HIDE DEF P, N
    <2> QED
      BY <1>1, <1>2, <1>3, <2>1, Upward
  <1>5. PICK W, f : LevelsOn(U, D, W, N, f)
    BY <1>4
  <1>6. W = U
    BY <1>1, <1>5, FS_Subset DEF LevelsOn
  <1>7. f \in [U -> 0..N] /\ \A n \in U : f[n] = LevelAfter(f, D[n])
    BY <1>5, <1>6 DEF LevelsOn
  <1>8. LevelsAre(f, U, D)
    BY <1>7, Zenon DEF LevelsAre
  <1> QED
    BY <1>7, <1>8

\* There is one such function, and it numbers what is above n before n.
LEMMA LevelsOrder ==
    ASSUME NEW U, NEW D, Founded(U, D), NEW g, LevelsAre(g, U, D)
    PROVE  /\ g \in [U -> 0..Cardinality(U)] /\ Cardinality(U) \in Nat
           /\ \A n \in U : /\ g[n] = LevelAfter(g, D[n])
                           /\ \A d \in D[n] : d \in U /\ g[d] < g[n]
                           /\ g[n] > 0 => \E d \in D[n] : g[d] + 1 = g[n]
  <1> DEFINE N == Cardinality(U)
  <1>1. N \in Nat /\ IsFiniteSet(U) /\ D \in [U -> SUBSET U]
    BY FS_CardinalityType DEF Founded
  <1>2. PICK f \in [U -> 0..N] : LevelsAre(f, U, D)
    BY LevelsExist
  <1>3. \A n \in U : f[n] = LevelAfter(f, D[n]) /\ g[n] = LevelAfter(g, D[n])
    BY <1>2, Zenon DEF LevelsAre
  <1>4. \A n \in U : f[n] = g[n]
    <2> DEFINE S == {n \in U : f[n] # g[n]}
    <2>1. SUFFICES ASSUME S # {} PROVE FALSE
      OBVIOUS
    <2>2. PICK n \in S : D[n] \cap S = {}
      BY <2>1 DEF Founded
    <2>3. \A d \in D[n] : f[d] = g[d]
      BY <1>1, <2>2
    <2>4. LevelAfter(f, D[n]) = LevelAfter(g, D[n])
      BY <2>3, LevelLocal
    <2> QED
      BY <1>3, <2>2, <2>4
  <1>5. f = g
    <2>1. f = [n \in U |-> f[n]]
      OBVIOUS
    <2>2. g = [n \in U |-> g[n]]
      BY <1>3 DEF LevelsAre
    <2> QED
      BY <1>4, <2>1, <2>2
  <1> HIDE DEF N
  <1>6. ASSUME NEW n \in U
        PROVE  /\ \A d \in D[n] : d \in U /\ g[d] < g[n]
               /\ g[n] > 0 => \E d \in D[n] : g[d] + 1 = g[n]
    <2>1. \A d \in D[n] : d \in U /\ g[d] \in 0..N
      BY <1>1, <1>2, <1>5
    <2>2. /\ \A d \in D[n] : g[d] < LevelAfter(g, D[n])
          /\ LevelAfter(g, D[n]) > 0 => \E d \in D[n] : g[d] + 1 = LevelAfter(g, D[n])
      BY <1>1, <2>1, LevelFrom
    <2>3. g[n] = LevelAfter(g, D[n])
      BY <1>3
    <2> QED
      BY <2>1, <2>2, <2>3
  <1> QED
    BY <1>1, <1>2, <1>3, <1>5, <1>6 DEF N

-----------------------------------------------------------------------------
(* Depths of the nodes of a plan *)

Ready(p) ==
    /\ WellFormed(p)
    /\ p # <<>>
    /\ \A i, j \in 1..Len(p) : p[i].id = p[j].id => i = j
    /\ \A n \in IdsOf(p) : DepsOf(p, n) \subseteq IdsOf(p)
    /\ Grounded(p, IdsOf(p))

DepthsAre(p, f) ==
    f = [n \in IdsOf(p) |->
            IF DepsOf(p, n) = {} THEN 0 ELSE Max({f[d] + 1 : d \in DepsOf(p, n)})]

\* compute_node_depths of a plan that can be executed: a dependency is less deep, and one
\* of them by one only.
LEMMA DepthsOrder ==
    ASSUME NEW p, Ready(p), NEW n \in IdsOf(p)
    PROVE  /\ Depths(p)[n] \in Nat /\ Depths(p)[n] <= Cardinality(IdsOf(p))
           /\ \A d \in DepsOf(p, n) : d \in IdsOf(p) /\ Depths(p)[d] \in Nat
                                                     /\ Depths(p)[d] < Depths(p)[n]
           /\ Depths(p)[n] > 0 => \E d \in DepsOf(p, n) : Depths(p)[d] + 1 = Depths(p)[n]
<1> DEFINE U == IdsOf(p)
           D == [m \in U |-> DepsOf(p, m)]
           g == Depths(p)
<1>1. Founded(U, D)
  <2>1. IsFiniteSet(U)
    BY IdsFinite DEF Ready
  <2>2. D \in [U -> SUBSET U] /\ \A m \in U : D[m] = DepsOf(p, m)
    BY DEF Ready
  <2>3. \A S \in SUBSET U : S # {} => \E m \in S : DepsOf(p, m) \cap S = {}
    BY DEF Ready, Grounded
  <2> HIDE DEF D, U
  <2> QED
    BY <2>1, <2>2, <2>3 DEF Founded
<1>2. D[n] = DepsOf(p, n) /\ \A m \in U : D[m] = DepsOf(p, m)
  OBVIOUS
<1>3. ASSUME NEW x PROVE DepthsAre(p, x) <=> LevelsAre(x, U, D)
  <2> HIDE DEF D
  <2> QED
    BY <1>2, Zenon DEF DepthsAre, LevelsAre, LevelAfter
<1>4. g = CHOOSE x : DepthsAre(p, x)
  BY Zenon DEF Depths, DepthsAre
<1> HIDE DEF D, g
<1>5. LevelsAre(g, U, D)
  <2>1. \E x : DepthsAre(p, x)
    BY <1>1, <1>3, LevelsExist
  <2> QED
    BY <1>3, <1>4, <2>1
<1> HIDE DEF U
<1>6. /\ g \in [U -> 0..Cardinality(U)] /\ Cardinality(U) \in Nat
      /\ \A m \in U : /\ g[m] = LevelAfter(g, D[m])
                      /\ \A d \in D[m] : d \in U /\ g[d] < g[m]
                      /\ g[m] > 0 => \E d \in D[m] : g[d] + 1 = g[m]
  BY <1>1, <1>5, LevelsOrder
<1>7. n \in U /\ \A m \in U : g[m] \in Nat /\ g[m] <= Cardinality(U)
  BY <1>6 DEF U
<1> QED
  BY <1>2, <1>6, <1>7 DEF g, U

-----------------------------------------------------------------------------
(* Phases *)

\* The depth of the deepest node.
Deepest(p) == Max({Depths(p)[n] : n \in IdsOf(p)})

LEMMA NodeExists ==
    ASSUME NEW p, Ready(p)
    PROVE  IdsOf(p) # {}
<1>1. Len(p) \in Nat
  BY PlanNodes DEF Ready
<1>2. p \in Seq([id : Names, depends_on : Seq(Names)])
  BY DEF Ready, WellFormed
<1>3. Len(p) # 0
  <2> DEFINE Node == [id : Names, depends_on : Seq(Names)]
  <2>1. p \in Seq(Node) /\ p # <<>>
    BY <1>2 DEF Ready
  <2> HIDE DEF Node
  <2> QED
    BY <2>1
<1>4. 1 \in 1..Len(p)
  BY <1>1, <1>3
<1> QED
  BY <1>4 DEF IdsOf

\* No depth up to the deepest is without a node.
LEMMA DepthsHaveNoGaps ==
    ASSUME NEW p, Ready(p)
    PROVE  /\ Deepest(p) \in Nat
           /\ \A n \in IdsOf(p) : Depths(p)[n] \in 0..Deepest(p)
           /\ \A k \in 0..Deepest(p) : \E n \in IdsOf(p) : Depths(p)[n] = k
<1> DEFINE f == Depths(p)
           N == Cardinality(IdsOf(p))
           D == {f[n] : n \in IdsOf(p)}
           top == Max(D)
<1>1. N \in Nat /\ \A n \in IdsOf(p) : f[n] \in Nat /\ f[n] <= N
  BY IdsFinite, DepthsOrder DEF Ready
<1>2. D \in SUBSET Nat /\ D # {} /\ \A y \in D : y <= N
  BY <1>1, NodeExists
<1>3. top \in D /\ \A y \in D : y <= top
  <2> HIDE DEF D, N
  <2> QED
    BY <1>1, <1>2, MaxIs
<1>4. top \in Nat /\ \A n \in IdsOf(p) : f[n] \in 0..top
  <2>1. top \in Nat
    BY <1>2, <1>3
  <2>2. \A n \in IdsOf(p) : f[n] <= top
    BY <1>3
  <2> HIDE DEF f, top
  <2> QED
    BY <1>1, <2>1, <2>2
<1>5. \A k \in D : k > 0 => k - 1 \in D
  <2> SUFFICES ASSUME NEW n \in IdsOf(p), f[n] > 0 PROVE f[n] - 1 \in D
    OBVIOUS
  <2>1. PICK d \in IdsOf(p) : f[d] + 1 = f[n] /\ f[d] \in Nat
    BY DepthsOrder
  <2>2. f[n] - 1 = f[d]
    BY <2>1
  <2> QED
    BY <2>2
<1> DEFINE P == {j \in 0..top : top - j \in D}
<1>6. P = 0..top
  <2> HIDE DEF f, D
  <2>1. 0 \in P
    BY <1>3, <1>4
  <2>2. ASSUME NEW k \in 1..top, k - 1 \in P PROVE k \in P
    <3>1. top - (k - 1) \in D /\ top - (k - 1) > 0 /\ top - (k - 1) - 1 = top - k
      BY <1>4, <2>2
    <3>2. k \in 0..top
      BY <1>4
    <3> QED
      BY <1>5, <3>1, <3>2
  <2>3. P \in SUBSET (0..top)
    OBVIOUS
  <2> HIDE DEF P, top
  <2> QED
    BY <1>4, <2>1, <2>2, <2>3, Upward
<1>7. ASSUME NEW k \in 0..top PROVE \E n \in IdsOf(p) : f[n] = k
  <2>1. top - k \in 0..top /\ top - (top - k) = k
    BY <1>4
  <2>2. k \in D
    <3> HIDE DEF top, D
    <3> QED
      BY <1>6, <2>1
  <2> QED
    BY <2>2
<1>8. Deepest(p) = top
  BY DEF Deepest
<1> QED
  BY <1>4, <1>7, <1>8

\* The nodes of a depth, each once.
LEMMA LayerIs ==
    ASSUME NEW p, Ready(p), NEW k
    PROVE  LET layer == AtDepth(p, Depths(p), k)
           IN  /\ layer \in Seq(Names)
               /\ Len(layer) \in Nat
               /\ \A i \in 1..Len(layer) : layer[i] \in IdsOf(p) /\ Depths(p)[layer[i]] = k
               /\ \A n \in IdsOf(p) : Depths(p)[n] = k => \E i \in 1..Len(layer) : layer[i] = n
               /\ \A i, j \in 1..Len(layer) : layer[i] = layer[j] => i = j
<1> DEFINE s == IdSeq(p)
           I == {i \in 1..Len(p) : Depths(p)[p[i].id] = k}
           layer == Keep(s, I)
<1>1. Len(p) \in Nat /\ \A i \in 1..Len(p) : p[i].id \in Names
  BY PlanNodes DEF Ready
<1>2. s \in Seq(Names) /\ Len(s) = Len(p) /\ \A i \in 1..Len(p) : s[i] = p[i].id
  BY <1>1 DEF IdSeq
<1>3. layer = AtDepth(p, Depths(p), k)
  BY DEF AtDepth
<1>4. \A i \in 1..Len(p) : i \in I <=> Depths(p)[p[i].id] = k
  OBVIOUS
<1> HIDE DEF s, I
<1>5. layer \in Seq(Names) /\ \E g : TakenAt(g, layer, s, I)
  BY <1>2, KeepTakes
<1>6. PICK g : TakenAt(g, layer, s, I)
  BY <1>5
<1>7. Len(layer) \in Nat
  BY <1>5, SeqElements
<1> HIDE DEF layer
<1>8. \A i \in 1..Len(layer) : g[i] \in 1..Len(p) /\ layer[i] = p[g[i]].id /\ g[i] \in I
  BY <1>2, <1>6 DEF TakenAt
<1>9. \A i \in 1..Len(layer) : layer[i] \in IdsOf(p) /\ Depths(p)[layer[i]] = k
  BY <1>4, <1>8 DEF IdsOf
<1>10. ASSUME NEW n \in IdsOf(p), Depths(p)[n] = k PROVE \E i \in 1..Len(layer) : layer[i] = n
  <2>1. PICK j \in 1..Len(p) : p[j].id = n
    BY DEF IdsOf
  <2>2. j \in I /\ j \in 1..Len(s)
    BY <1>2, <1>4, <1>10, <2>1
  <2>3. PICK i \in 1..Len(layer) : g[i] = j
    BY <1>6, <2>2 DEF TakenAt
  <2> QED
    BY <1>8, <2>1, <2>3
<1>11. ASSUME NEW i \in 1..Len(layer), NEW j \in 1..Len(layer), layer[i] = layer[j] PROVE i = j
  <2>1. /\ g[i] \in 1..Len(p) /\ layer[i] = p[g[i]].id
        /\ g[j] \in 1..Len(p) /\ layer[j] = p[g[j]].id
    BY <1>8
  <2>2. \A a, b \in 1..Len(p) : p[a].id = p[b].id => a = b
    BY DEF Ready
  <2>3. p[g[i]].id = p[g[j]].id
    BY <1>11, <2>1
  <2>4. g[i] = g[j] /\ g[i] \in Nat
    <3>1. g[i] = g[j]
      BY <2>1, <2>2, <2>3
    <3>2. Len(p) \in Nat
      BY PlanNodes DEF Ready
    <3> QED
      BY <2>1, <3>1, <3>2
  <2>5. ~ (g[i] < g[j]) /\ ~ (g[j] < g[i])
    BY <2>4
  <2>6. ~ (i < j) /\ ~ (j < i)
    BY <1>6, <2>5 DEF TakenAt, Increasing
  <2> QED
    BY <1>7, <2>6
<1> QED
  BY <1>3, <1>5, <1>7, <1>9, <1>10, <1>11

\* build_execution_phases makes one phase of each depth and drops none.
LEMMA PhasesAre ==
    ASSUME NEW p, Ready(p)
    PROVE  BuildPhases(p) = [k \in 1..(Deepest(p) + 1) |->
                                [index |-> k - 1, node_ids |-> AtDepth(p, Depths(p), k - 1)]]
<1> DEFINE top == Deepest(p)
           layer(k) == AtDepth(p, Depths(p), k)
           Phase == [index : Nat, node_ids : Seq(Names)]
           made == PhasesByDepth(p, Depths(p))
<1>1. top \in Nat /\ top + 1 \in Nat /\ \A k \in 1..(top + 1) : k - 1 \in 0..top
  BY DepthsHaveNoGaps
<1>2. made = [k \in 1..(top + 1) |-> [index |-> k - 1, node_ids |-> layer(k - 1)]]
  BY DEF PhasesByDepth, Deepest
<1>3. \A k \in 0..top : layer(k) \in Seq(Names) /\ layer(k) # <<>>
  <2> SUFFICES ASSUME NEW k \in 0..top PROVE layer(k) \in Seq(Names) /\ layer(k) # <<>>
    OBVIOUS
  <2>1. PICK n \in IdsOf(p) : Depths(p)[n] = k
    BY DepthsHaveNoGaps
  <2> DEFINE l == layer(k)
  <2>2. l \in Seq(Names) /\ \E i \in 1..Len(l) : l[i] = n
    BY <2>1, LayerIs
  <2> HIDE DEF l
  <2>3. l # <<>>
    BY <2>2
  <2> QED
    BY <2>2, <2>3 DEF l
<1> HIDE DEF top, layer
<1>4. \A k \in 1..(top + 1) : [index |-> k - 1, node_ids |-> layer(k - 1)] \in Phase
  BY <1>1, <1>3
<1>5. /\ made \in Seq(Phase) /\ DOMAIN made = 1..(top + 1) /\ Len(made) = top + 1
      /\ \A k \in 1..(top + 1) : made[k].node_ids = layer(k - 1)
  <2> HIDE DEF made, Phase
  <2> QED
    BY <1>1, <1>2, <1>4
<1> DEFINE I == {k \in DOMAIN made : made[k].node_ids # <<>>}
<1>6. 1..Len(made) \subseteq I
  BY <1>1, <1>3, <1>5
<1>7. Keep(made, I) = made
  <2> HIDE DEF made, Phase, I
  <2> QED
    BY <1>5, <1>6, KeepAll
<1>8. BuildPhases(p) = made
  BY <1>7 DEF BuildPhases
<1> QED
  BY <1>2, <1>8 DEF top, layer

(* build_execution_phases makes of every plan that validation accepts phases *)
(* such as the executor assumes: every node in one phase, once, after all    *)
(* its dependencies and just after one of them, with no phase left out.      *)
THEOREM PhasesFit == ValidationSpec => []PhasesAreSound
<1>1. AcceptsExactlyExecutable /\ KahnInv => PhasesAreSound
  <2> SUFFICES ASSUME Ready(plan) PROVE PhasesAreSound
    BY PlansWellFormed DEF AcceptsExactlyExecutable, PhasesAreSound, Accepted, Executable, Ready,
       Grounded, KahnInv, KahnTypes
  <2> DEFINE ids    == IdsOf(plan)
             deps   == [n \in ids |-> DepsOf(plan, n)]
             depth  == Depths(plan)
             top    == Deepest(plan)
             made == BuildPhases(plan)
             lists  == NodeLists(made)
             layer(k) == AtDepth(plan, depth, k)
  <2>1. top \in Nat /\ top + 1 \in Nat /\ \A n \in ids : depth[n] \in 0..top
    BY DepthsHaveNoGaps
  <2>2. \A k : /\ layer(k) \in Seq(Names)
               /\ Len(layer(k)) \in Nat
               /\ \A i \in 1..Len(layer(k)) : layer(k)[i] \in ids /\ depth[layer(k)[i]] = k
               /\ \A n \in ids : depth[n] = k => \E i \in 1..Len(layer(k)) : layer(k)[i] = n
               /\ \A i, j \in 1..Len(layer(k)) : layer(k)[i] = layer(k)[j] => i = j
    BY LayerIs
  <2>3. made = [k \in 1..(top + 1) |-> [index |-> k - 1, node_ids |-> layer(k - 1)]]
    BY PhasesAre
  <2>4. \A n \in ids : /\ \A d \in DepsOf(plan, n) : d \in ids /\ depth[d] < depth[n]
                       /\ depth[n] > 0 => \E d \in DepsOf(plan, n) : depth[d] + 1 = depth[n]
    BY DepthsOrder
  <2> HIDE DEF layer, top, depth, ids
  <2>5. \A k \in Nat : layer(k) \in Seq(ids)
    <3> SUFFICES ASSUME NEW k \in Nat PROVE layer(k) \in Seq(ids)
      OBVIOUS
    <3> DEFINE l == layer(k)
    <3>1. l \in Seq(Names) /\ Len(l) \in Nat /\ \A i \in 1..Len(l) : l[i] \in ids
      BY <2>2
    <3> HIDE DEF l
    <3>2. l \in Seq(ids)
      BY <3>1
    <3> QED
      BY <3>2 DEF l
  <2>6. /\ DOMAIN made = 1..(top + 1) /\ Len(made) = top + 1
        /\ \A p \in 1..(top + 1) : made[p].index = p - 1 /\ made[p].node_ids = layer(p - 1)
    BY <2>1, <2>3
  <2>7. /\ DOMAIN lists = 1..(top + 1) /\ Len(lists) = top + 1
        /\ lists \in Seq(Seq(ids))
        /\ \A p \in 1..(top + 1) : lists[p] = layer(p - 1) /\ p - 1 \in Nat
    <3>1. lists = [p \in 1..(top + 1) |-> layer(p - 1)]
      BY <2>6 DEF NodeLists
    <3>2. \A p \in 1..(top + 1) : p - 1 \in Nat /\ layer(p - 1) \in Seq(ids)
      BY <2>1, <2>5
    <3> DEFINE Q == Seq(ids)
    <3> HIDE DEF lists, Q
    <3>3. lists \in Seq(Q)
      BY <2>1, <3>1, <3>2 DEF Q
    <3> QED
      BY <2>1, <3>1, <3>2, <3>3 DEF Q
  <2> HIDE DEF made, lists
  <2>8. deps \in [ids -> SUBSET ids]
    BY <2>4
  <2>9. ASSUME NEW n \in ids
        PROVE  \E p \in 1..Len(lists) : \E i \in 1..Len(lists[p]) : lists[p][i] = n
    <3>1. depth[n] \in 0..top /\ depth[n] + 1 \in 1..(top + 1) /\ depth[n] + 1 - 1 = depth[n]
      BY <2>1
    <3>2. PICK p \in 1..(top + 1) : p - 1 = depth[n]
      BY <3>1
    <3>3. p \in 1..Len(lists) /\ lists[p] = layer(depth[n])
      BY <2>7, <3>2
    <3>4. \E i \in 1..Len(layer(depth[n])) : layer(depth[n])[i] = n
      BY <2>2
    <3> QED
      BY <3>3, <3>4
  <2>10. ASSUME NEW p \in 1..Len(lists), NEW i \in 1..Len(lists[p])
         PROVE  p \in Nat /\ lists[p][i] \in ids /\ depth[lists[p][i]] = p - 1
    <3>1. p \in 1..(top + 1)
      BY <2>7
    <3>2. lists[p] = layer(p - 1)
      BY <2>7, <3>1
    <3> QED
      BY <2>1, <2>2, <3>1, <3>2
  <2>11. ASSUME NEW p \in 1..Len(lists), NEW q \in 1..Len(lists),
                NEW i \in 1..Len(lists[p]), NEW j \in 1..Len(lists[q])
         PROVE  /\ lists[p][i] = lists[q][j] => p = q /\ i = j
                /\ lists[p][i] \in deps[lists[q][j]] => p < q
    <3>1. /\ p \in Nat /\ lists[p][i] \in ids /\ depth[lists[p][i]] = p - 1
          /\ q \in Nat /\ lists[q][j] \in ids /\ depth[lists[q][j]] = q - 1
      BY <2>10
    <3>2. ASSUME lists[p][i] = lists[q][j] PROVE p = q /\ i = j
      <4>1. p = q
        BY <3>1, <3>2
      <4>2. lists[p] = layer(p - 1)
        BY <2>7
      <4> QED
        BY <2>2, <3>2, <4>1, <4>2
    <3>3. ASSUME lists[p][i] \in deps[lists[q][j]] PROVE p < q
      <4>1. depth[lists[p][i]] < depth[lists[q][j]]
        BY <2>4, <3>1, <3>3
      <4> QED
        BY <3>1, <4>1
    <3> QED
      BY <3>2, <3>3
  <2>12. ASSUME NEW p \in 2..Len(made), NEW i \in 1..Len(lists[p])
         PROVE  \E j \in 1..Len(lists[p - 1]) : lists[p - 1][j] \in DepsOf(plan, lists[p][i])
    <3>1. /\ p \in 1..Len(lists) /\ p \in Nat /\ p - 1 \in 1..(top + 1) /\ p - 1 > 0
          /\ p - 1 - 1 \in Nat /\ p - 1 - 1 + 1 = p - 1
      <4>1. p \in 2..(top + 1)
        BY <2>6
      <4>2. /\ p \in 1..(top + 1) /\ p \in Nat /\ p - 1 \in 1..(top + 1) /\ p - 1 > 0
            /\ p - 1 - 1 \in Nat /\ p - 1 - 1 + 1 = p - 1
        BY <2>1, <4>1
      <4> QED
        BY <2>7, <4>2
    <3>2. lists[p][i] \in ids /\ depth[lists[p][i]] = p - 1
      BY <2>10, <3>1
    <3>3. PICK d \in DepsOf(plan, lists[p][i]) : depth[d] + 1 = p - 1
      BY <2>4, <3>1, <3>2
    <3>4. d \in ids /\ depth[d] \in Nat
      BY <2>1, <2>4, <3>2
    <3>5. depth[d] = p - 1 - 1
      BY <3>1, <3>3, <3>4
    <3>6. lists[p - 1] = layer(p - 1 - 1)
      BY <2>7, <3>1
    <3> QED
      BY <2>2, <3>3, <3>4, <3>5, <3>6
  <2>13. Layered(ids, deps, lists)
    BY <2>7, <2>8, <2>9, <2>11 DEF Layered
  <2>14. \A p \in 1..Len(made) : made[p].index = p - 1
    BY <2>6
  <2> QED
    BY <2>12, <2>13, <2>14 DEF PhasesAreSound, made, lists, ids
<1>2. ValidationSpec => [](AcceptsExactlyExecutable /\ KahnInv)
  BY ValidationIsExact, KahnInductive, PTL
<1> QED
  BY <1>1, <1>2, PTL

-----------------------------------------------------------------------------
(***************************************************************************)
(* The executor, for every plan whose phases are sound: its types, its safety *)
(* invariants, and that it implements PlanPromise.                         *)
(***************************************************************************)
\* What the assumption says of phases.
LEMMA PlanFacts ==
    /\ DependsOn \in [Nodes -> SUBSET Nodes]
    /\ Phases \in Seq(Seq(Nodes))
    /\ MaxRetries \in Nat
    /\ \A n \in Nodes : \E p \in 1..Len(Phases) : InPhase(n, p)
    /\ \A p, q \in 1..Len(Phases) :
         \A i \in 1..Len(Phases[p]) : \A j \in 1..Len(Phases[q]) :
             Phases[p][i] = Phases[q][j] => p = q /\ i = j
    /\ \A p, q \in 1..Len(Phases) : \A m, n \in Nodes :
         InPhase(m, p) /\ InPhase(n, q) /\ m \in DependsOn[n] => p < q
<1>1. /\ DependsOn \in [Nodes -> SUBSET Nodes]
      /\ Phases \in Seq(Seq(Nodes))
      /\ MaxRetries \in Nat
      /\ \A n \in Nodes : \E p \in 1..Len(Phases) : \E i \in 1..Len(Phases[p]) : Phases[p][i] = n
  BY PlanAssumption DEF Layered
<1>2. \A p, q \in 1..Len(Phases) : \A i \in 1..Len(Phases[p]) : \A j \in 1..Len(Phases[q]) :
         /\ Phases[p][i] = Phases[q][j] => p = q /\ i = j
         /\ Phases[p][i] \in DependsOn[Phases[q][j]] => p < q
  BY PlanAssumption DEF Layered
<1>3. ASSUME NEW p \in 1..Len(Phases), NEW q \in 1..Len(Phases), NEW m, NEW n,
             InPhase(m, p), InPhase(n, q), m \in DependsOn[n]
      PROVE  p < q
  <2>1. PICK i \in 1..Len(Phases[p]) : Phases[p][i] = m
    BY <1>3 DEF InPhase
  <2>2. PICK j \in 1..Len(Phases[q]) : Phases[q][j] = n
    BY <1>3 DEF InPhase
  <2> QED
    BY <1>2, <1>3, <2>1, <2>2
<1>4. \A n \in Nodes : \E p \in 1..Len(Phases) : InPhase(n, p)
  BY <1>1 DEF InPhase
<1>5. \A p, q \in 1..Len(Phases) : \A i \in 1..Len(Phases[p]) : \A j \in 1..Len(Phases[q]) :
         Phases[p][i] = Phases[q][j] => p = q /\ i = j
  <2> SUFFICES ASSUME NEW p \in 1..Len(Phases), NEW q \in 1..Len(Phases),
                      NEW i \in 1..Len(Phases[p]), NEW j \in 1..Len(Phases[q]),
                      Phases[p][i] = Phases[q][j]
               PROVE  p = q /\ i = j
    OBVIOUS
  <2> QED
    BY <1>2
<1>6. \A p, q \in 1..Len(Phases) : \A m, n \in Nodes :
         InPhase(m, p) /\ InPhase(n, q) /\ m \in DependsOn[n] => p < q
  BY <1>3, Zenon
<1> QED
  BY <1>1, <1>4, <1>5, <1>6, Zenon

In(s, n) == \E i \in 1..Len(s) : s[i] = n
Distinct(s) == \A i, j \in 1..Len(s) : s[i] = s[j] => i = j

ResultNodes == \A i, j \in 1..Len(results) : results[i].node = results[j].node => i = j

\* Nobody has dealt with n yet.
NotReached(n) == ~ HasResult(n) /\ ~ In(tasks, n) /\ node[n] = "unplaced"

\* Where a node of phase p is: settled before the phase in hand, untouched
\* after it, and in the phase itself either yet to visit, awaited or settled.
Where ==
    \A n \in Nodes : \A p \in 1..Len(Phases) : InPhase(n, p) =>
        /\ p < phase => HasResult(n)
        /\ p > phase => NotReached(n)
        /\ p = phase /\ pc = "check" => NotReached(n)
        /\ p = phase /\ pc \in {"place", "giveup", "join"} =>
             /\ In(toPlace, n) => NotReached(n)
             /\ In(toPlace, n) \/ In(tasks, n) \/ HasResult(n)

Lists ==
    /\ Distinct(toPlace) /\ Distinct(tasks)
    /\ \A n \in Nodes : In(tasks, n) => ~ HasResult(n) /\ node[n] # "unplaced"
    /\ \A n \in Nodes : In(toPlace, n) \/ In(tasks, n) => InPhase(n, phase)

Stages ==
    /\ pc \in {"check", "giveup", "done"} => tasks = <<>>
    /\ pc \in {"check", "join"} => toPlace = <<>>
    /\ pc \in {"place", "join", "giveup", "aborted"} => phase <= Len(Phases)
    /\ pc \in {"check", "place", "join", "aborted"} => ~ timedOut
    /\ pc = "giveup" => timedOut
    /\ pc = "done" => \A n \in Nodes : HasResult(n)

\* What failedNodes stands for, as long as it is used.
Failures ==
    ~ timedOut => failedNodes = {n \in Nodes : OutcomeOf(n) \in {"error", "skipped"}}

Tasks ==
    \A n \in Nodes :
        /\ node[n] = "unplaced" => calls[n] = 0 /\ retries[n] = 0
        /\ node[n] = "calling"  => calls[n] = retries[n] + 1
        /\ node[n] = "backoff"  => calls[n] = retries[n]
        /\ Active(n) => In(tasks, n)
        /\ node[n] # "unplaced" => \A d \in DependsOn[n] : OutcomeOf(d) = "success"

ExecInv ==
    /\ TypeOK
    /\ ResultNodes
    /\ Where
    /\ Lists
    /\ Stages
    /\ Failures
    /\ Tasks

-----------------------------------------------------------------------------
(* Sequences *)

LEMMA TailIn ==
    ASSUME NEW S, NEW s \in Seq(S), s # <<>>, NEW n
    PROVE  In(s, n) <=> n = Head(s) \/ In(Tail(s), n)
<1>1. Len(s) \in Nat /\ Len(s) > 0 /\ Len(Tail(s)) = Len(s) - 1 /\ Head(s) = s[1]
  OBVIOUS
<1>2. \A i \in 1..Len(Tail(s)) : Tail(s)[i] = s[i + 1] /\ i + 1 \in 1..Len(s)
  BY <1>1
<1>3. \A i \in 1..Len(s) : i = 1 \/ (i - 1 \in 1..Len(Tail(s)) /\ Tail(s)[i - 1] = s[i])
  BY <1>1
<1>4. In(Tail(s), n) => In(s, n)
  <2> SUFFICES ASSUME NEW i \in 1..Len(Tail(s)), Tail(s)[i] = n PROVE In(s, n)
    BY DEF In
  <2> QED
    BY <1>2 DEF In
<1>5. In(s, n) => n = Head(s) \/ In(Tail(s), n)
  <2> SUFFICES ASSUME NEW i \in 1..Len(s), s[i] = n
               PROVE  n = Head(s) \/ In(Tail(s), n)
    BY DEF In
  <2> QED
    BY <1>1, <1>3 DEF In
<1>6. In(s, Head(s))
  BY <1>1 DEF In
<1> QED
  BY <1>4, <1>5, <1>6

LEMMA TailDistinct ==
    ASSUME NEW S, NEW s \in Seq(S), s # <<>>, Distinct(s)
    PROVE  Distinct(Tail(s)) /\ ~ In(Tail(s), Head(s))
<1>1. Len(s) \in Nat /\ Len(s) > 0 /\ Len(Tail(s)) = Len(s) - 1 /\ Head(s) = s[1]
  OBVIOUS
<1>2. \A i \in 1..Len(Tail(s)) : Tail(s)[i] = s[i + 1] /\ i + 1 \in 1..Len(s) /\ i + 1 # 1
  BY <1>1
<1>3. Distinct(Tail(s))
  BY <1>1, <1>2 DEF Distinct
<1>4. ~ In(Tail(s), Head(s))
  BY <1>1, <1>2 DEF Distinct, In
<1> QED
  BY <1>3, <1>4

LEMMA AppendIn ==
    ASSUME NEW S, NEW s \in Seq(S), NEW x \in S, NEW n
    PROVE  In(Append(s, x), n) <=> n = x \/ In(s, n)
<1>1. /\ Len(s) \in Nat
      /\ Len(Append(s, x)) = Len(s) + 1
      /\ Append(s, x)[Len(s) + 1] = x
      /\ \A i \in 1..Len(s) : Append(s, x)[i] = s[i]
  OBVIOUS
<1>2. \A i \in 1..(Len(s) + 1) : i \in 1..Len(s) \/ i = Len(s) + 1
  BY <1>1
<1>3. 1..Len(s) \subseteq 1..(Len(s) + 1) /\ Len(s) + 1 \in 1..(Len(s) + 1)
  BY <1>1
<1> QED
  BY <1>1, <1>2, <1>3 DEF In

LEMMA AppendDistinct ==
    ASSUME NEW S, NEW s \in Seq(S), NEW x \in S, Distinct(s), ~ In(s, x)
    PROVE  Distinct(Append(s, x))
<1>1. /\ Len(s) \in Nat
      /\ Len(Append(s, x)) = Len(s) + 1
      /\ Append(s, x)[Len(s) + 1] = x
      /\ \A i \in 1..Len(s) : Append(s, x)[i] = s[i]
  OBVIOUS
<1>2. \A i \in 1..(Len(s) + 1) : i \in 1..Len(s) \/ i = Len(s) + 1
  BY <1>1
<1> QED
  BY <1>1, <1>2 DEF In, Distinct

LEMMA EmptyIn == Distinct(<<>>) /\ \A n : ~ In(<<>>, n)
  BY DEF In, Distinct

\* A phase holds its own nodes, each once, and no other.
LEMMA PhaseList ==
    ASSUME NEW p \in 1..Len(Phases)
    PROVE  /\ Phases[p] \in Seq(Nodes)
           /\ Distinct(Phases[p])
           /\ \A n : In(Phases[p], n) <=> InPhase(n, p)
  BY PlanFacts DEF Distinct, In, InPhase

LEMMA OnePhase ==
    /\ Len(Phases) \in Nat
    /\ \A n \in Nodes : \E p \in 1..Len(Phases) : InPhase(n, p)
    /\ \A n \in Nodes : \A p, q \in 1..Len(Phases) :
         InPhase(n, p) /\ InPhase(n, q) => p = q
<1>1. Len(Phases) \in Nat
  BY PlanFacts
<1>2. ASSUME NEW n \in Nodes, NEW p \in 1..Len(Phases), NEW q \in 1..Len(Phases),
             InPhase(n, p), InPhase(n, q)
      PROVE  p = q
  <2>1. PICK i \in 1..Len(Phases[p]) : Phases[p][i] = n
    BY <1>2 DEF InPhase
  <2>2. PICK j \in 1..Len(Phases[q]) : Phases[q][j] = n
    BY <1>2 DEF InPhase
  <2> QED
    BY <2>1, <2>2, PlanFacts
<1>3. \A n \in Nodes : \E p \in 1..Len(Phases) : InPhase(n, p)
  BY PlanFacts
<1> QED
  BY <1>1, <1>2, <1>3

-----------------------------------------------------------------------------
(* What a step does to the results *)

\* A result for a node that had none settles that node and no other.
LEMMA PushSettles ==
    ASSUME results \in Seq(Result), ResultNodes,
           NEW n \in Nodes, NEW outcome \in {"success", "error", "skipped"},
           ~ HasResult(n), Push(n, outcome)
    PROVE  /\ results' \in Seq(Result)
           /\ ResultNodes'
           /\ \A m \in Nodes : HasResult(m)' <=> m = n \/ HasResult(m)
           /\ OutcomeOf(n)' = outcome
           /\ \A m \in Nodes \ {n} : OutcomeOf(m)' = OutcomeOf(m)
<1> DEFINE r == [node |-> n, status |-> outcome]
           k == Len(results)
<1>1. r \in Result /\ r.node = n /\ r.status = outcome
  BY DEF Result
<1>2. results' = Append(results, r)
  BY DEF Push
<1> HIDE DEF r
<1>3. /\ k \in Nat /\ Len(results') = k + 1 /\ results'[k + 1] = r
      /\ \A i \in 1..k : results'[i] = results[i]
      /\ results' \in Seq(Result)
  BY <1>1, <1>2
<1>4. /\ \A i \in 1..(k + 1) : i \in 1..k \/ i = k + 1
      /\ 1..k \subseteq 1..(k + 1) /\ k + 1 \in 1..(k + 1)
  BY <1>3
<1>5. \A i \in 1..k : results[i].node # n
  BY DEF HasResult
<1>6. ResultNodes'
  BY <1>1, <1>3, <1>4, <1>5 DEF ResultNodes
<1>7. \A m \in Nodes : HasResult(m)' <=> m = n \/ HasResult(m)
  BY <1>1, <1>3, <1>4 DEF HasResult
<1>8. ASSUME NEW m \in Nodes, NEW s
      PROVE  HasStatus(m, s)' <=> (m = n /\ s = outcome) \/ HasStatus(m, s)
  <2>1. [node |-> m, status |-> s] = r <=> m = n /\ s = outcome
    BY DEF r
  <2> QED
    BY <1>3, <1>4, <2>1 DEF HasStatus
<1>9. \A s : ~ HasStatus(n, s)
  BY <1>5 DEF HasStatus
<1>10. OutcomeOf(n)' = outcome
  BY <1>8, <1>9 DEF OutcomeOf
<1>11. \A m \in Nodes \ {n} : OutcomeOf(m)' = OutcomeOf(m)
  BY <1>8 DEF OutcomeOf
<1> QED
  BY <1>3, <1>6, <1>7, <1>10, <1>11

LEMMA ResultOutcome ==
    ASSUME results \in Seq(Result), NEW n \in Nodes
    PROVE  /\ HasResult(n) <=> OutcomeOf(n) # "none"
           /\ OutcomeOf(n) \in {"success", "error", "skipped", "none"}
<1>1. \A i \in 1..Len(results) : results[i] \in Result
  OBVIOUS
<1>2. ASSUME HasResult(n) PROVE OutcomeOf(n) # "none"
  <2>1. PICK i \in 1..Len(results) : results[i].node = n
    BY <1>2 DEF HasResult
  <2>2. results[i] = [node |-> n, status |-> results[i].status]
        /\ results[i].status \in {"success", "error", "skipped"}
    BY <1>1, <2>1 DEF Result
  <2> QED
    BY <2>2 DEF OutcomeOf, HasStatus
<1>3. ASSUME OutcomeOf(n) # "none" PROVE HasResult(n)
  BY <1>3 DEF OutcomeOf, HasStatus, HasResult
<1> QED
  BY <1>2, <1>3 DEF OutcomeOf

-----------------------------------------------------------------------------
(* The invariant is inductive *)

LEMMA ResultsFrame ==
    ASSUME UNCHANGED results
    PROVE  /\ ResultNodes' <=> ResultNodes
           /\ \A n : HasResult(n)' <=> HasResult(n)
           /\ \A n : OutcomeOf(n)' = OutcomeOf(n)
  BY DEF ResultNodes, HasResult, OutcomeOf, HasStatus

LEMMA InitHolds == Init => ExecInv
<1> SUFFICES ASSUME Init PROVE ExecInv
  OBVIOUS
<1> USE DEF Init
<1>1. TypeOK
  <2>1. phase \in 1..(Len(Phases) + 1)
    BY OnePhase
  <2>2. /\ retries \in [Nodes -> 0..MaxRetries]
        /\ calls \in [Nodes -> 0..(MaxRetries + 1)]
    BY PlanFacts
  <2>3. toPlace \in Seq(Nodes) /\ tasks \in Seq(Nodes) /\ results \in Seq(Result)
    OBVIOUS
  <2>4. node \in [Nodes -> {"unplaced", "calling", "backoff", "success", "error"}]
    OBVIOUS
  <2>5. pc = "check" /\ failedNodes \in SUBSET Nodes /\ timedOut \in BOOLEAN
    OBVIOUS
  <2> QED
    BY <2>1, <2>2, <2>3, <2>4, <2>5 DEF TypeOK
<1>2. \A n : ~ HasResult(n) /\ OutcomeOf(n) = "none"
  <2>1. 1..Len(results) = {}
    OBVIOUS
  <2> QED
    BY <2>1 DEF HasResult, OutcomeOf, HasStatus
<1>3. ResultNodes /\ Failures /\ Stages
  BY <1>2 DEF ResultNodes, Failures, Stages
<1>4. Where /\ Lists
  BY <1>2, EmptyIn, PlanFacts DEF Where, Lists, NotReached
<1>5. Tasks
  BY DEF Tasks, Active
<1> QED
  BY <1>1, <1>3, <1>4, <1>5 DEF ExecInv

LEMMA BeginPhaseStep == ExecInv /\ BeginPhase => ExecInv'
<1> SUFFICES ASSUME ExecInv, BeginPhase PROVE ExecInv'
  OBVIOUS
<1>0. TypeOK /\ ResultNodes /\ Where /\ Lists /\ Stages /\ Failures /\ Tasks
  BY DEF ExecInv
<1>1. /\ pc = "check" /\ phase \in 1..Len(Phases) /\ tasks = <<>> /\ ~ timedOut
      /\ pc' = "place" /\ toPlace' = Phases[phase]
      /\ UNCHANGED <<phase, tasks, failedNodes, results, timedOut, node, retries, calls>>
  BY <1>0, OnePhase DEF BeginPhase, nodeVars, Stages, TypeOK
<1>2. /\ ResultNodes'
      /\ \A n : HasResult(n)' <=> HasResult(n)
      /\ \A n : OutcomeOf(n)' = OutcomeOf(n)
      /\ \A n : In(tasks, n)' <=> In(tasks, n)
  BY <1>0, <1>1, ResultsFrame DEF In
<1>3. /\ toPlace' \in Seq(Nodes) /\ Distinct(toPlace')
      /\ \A n : In(toPlace', n) <=> InPhase(n, phase)
  BY <1>1, PhaseList
<1>4. TypeOK'
  BY <1>0, <1>1, <1>3 DEF TypeOK
<1>5. Where'
  BY <1>0, <1>1, <1>2, <1>3 DEF Where, NotReached
<1>6. Lists'
  BY <1>0, <1>1, <1>2, <1>3, EmptyIn DEF Lists
<1>7. Stages' /\ Failures'
  BY <1>0, <1>1, <1>2 DEF Stages, Failures
<1>8. Tasks'
  BY <1>0, <1>1, <1>2 DEF Tasks, Active
<1> QED
  BY <1>2, <1>4, <1>5, <1>6, <1>7, <1>8 DEF ExecInv

LEMMA SkipNodeStep == ExecInv /\ SkipNode => ExecInv'
<1> SUFFICES ASSUME ExecInv, SkipNode PROVE ExecInv'
  OBVIOUS
<1>0. TypeOK /\ ResultNodes /\ Where /\ Lists /\ Stages /\ Failures /\ Tasks
  BY DEF ExecInv
<1>h. PICK h \in Nodes : h = Head(toPlace)
  BY <1>0 DEF SkipNode, TypeOK
<1>1. /\ pc = "place" /\ phase \in 1..Len(Phases) /\ ~ timedOut
      /\ toPlace \in Seq(Nodes) /\ toPlace # <<>> /\ h \in Nodes
      /\ toPlace' = Tail(toPlace) /\ Push(h, "skipped")
      /\ failedNodes' = failedNodes \cup {h}
      /\ DependsOn[h] \cap failedNodes # {}
      /\ UNCHANGED <<pc, phase, tasks, timedOut, node, retries, calls>>
  <2>1. /\ pc = "place" /\ toPlace # <<>>
        /\ toPlace' = Tail(toPlace) /\ Push(h, "skipped")
        /\ failedNodes' = failedNodes \cup {h}
        /\ DependsOn[h] \cap failedNodes # {}
        /\ UNCHANGED <<pc, phase, tasks, timedOut, node, retries, calls>>
    BY <1>h DEF SkipNode, nodeVars
  <2>2. toPlace \in Seq(Nodes)
    BY <1>0 DEF TypeOK
  <2>3. phase \in 1..Len(Phases) /\ ~ timedOut
    BY <1>0, <2>1, OnePhase DEF Stages, TypeOK
  <2> QED
    BY <2>1, <2>2, <2>3
<1>2. /\ toPlace' \in Seq(Nodes) /\ Distinct(toPlace')
      /\ \A n : In(toPlace, n) <=> n = h \/ In(toPlace', n)
      /\ ~ In(toPlace', h)
  BY <1>0, <1>1, <1>h, TailIn, TailDistinct DEF Lists
<1>3. InPhase(h, phase) /\ NotReached(h)
  BY <1>0, <1>1, <1>2 DEF Lists, Where
<1>4. /\ results' \in Seq(Result) /\ ResultNodes'
      /\ \A n \in Nodes : HasResult(n)' <=> n = h \/ HasResult(n)
      /\ OutcomeOf(h)' = "skipped"
      /\ \A n \in Nodes \ {h} : OutcomeOf(n)' = OutcomeOf(n)
  <2>1. results \in Seq(Result) /\ ~ HasResult(h)
    BY <1>0, <1>3 DEF NotReached, TypeOK
  <2> QED
    BY <1>0, <1>1, <2>1, PushSettles
<1>5. \A n : In(tasks, n)' <=> In(tasks, n)
  BY <1>1 DEF In
<1>6. TypeOK'
  BY <1>0, <1>1, <1>2, <1>4 DEF TypeOK
<1>7. Where'
  <2>1. \A n \in Nodes : n # h => (NotReached(n) => NotReached(n)')
    BY <1>1, <1>4, <1>5 DEF NotReached
  <2>2. \A p \in 1..Len(Phases) : InPhase(h, p) => p = phase
    BY <1>1, <1>3, OnePhase
  <2> QED
    BY <1>0, <1>1, <1>2, <1>4, <1>5, <2>1, <2>2 DEF Where
<1>8. Lists'
  BY <1>0, <1>1, <1>2, <1>3, <1>4, <1>5 DEF Lists, NotReached
<1>9. Stages' /\ Failures'
  <2>1. failedNodes = {n \in Nodes : OutcomeOf(n) \in {"error", "skipped"}}
    BY <1>0, <1>1 DEF Failures
  <2>2. failedNodes' = {n \in Nodes : OutcomeOf(n)' \in {"error", "skipped"}}
    BY <1>1, <1>4, <2>1
  <2> QED
    BY <1>0, <1>1, <2>2 DEF Stages, Failures
<1>10. Tasks'
  <2>1. \A n \in Nodes : node[n] # "unplaced" =>
            \A d \in DependsOn[n] : OutcomeOf(d)' = "success"
    <3> SUFFICES ASSUME NEW n \in Nodes, node[n] # "unplaced", NEW d \in DependsOn[n]
                 PROVE  OutcomeOf(d)' = "success"
      OBVIOUS
    <3>1. d \in Nodes /\ OutcomeOf(d) = "success"
      BY <1>0, PlanFacts DEF Tasks
    <3>2. d # h
      BY <1>0, <1>3, <3>1, ResultOutcome DEF NotReached, TypeOK
    <3> QED
      BY <1>4, <3>1, <3>2
  <2> QED
    BY <1>0, <1>1, <1>5, <2>1 DEF Tasks, Active
<1> QED
  BY <1>4, <1>6, <1>7, <1>8, <1>9, <1>10 DEF ExecInv

LEMMA SpawnNodeStep == ExecInv /\ SpawnNode => ExecInv'
<1> SUFFICES ASSUME ExecInv, SpawnNode PROVE ExecInv'
  OBVIOUS
<1>0. TypeOK /\ ResultNodes /\ Where /\ Lists /\ Stages /\ Failures /\ Tasks
  BY DEF ExecInv
<1>h. PICK h \in Nodes : h = Head(toPlace)
  BY <1>0 DEF SpawnNode, TypeOK
<1>1. /\ pc = "place" /\ phase \in 1..Len(Phases) /\ ~ timedOut
      /\ toPlace \in Seq(Nodes) /\ toPlace # <<>> /\ tasks \in Seq(Nodes)
      /\ toPlace' = Tail(toPlace) /\ tasks' = Append(tasks, h)
      /\ node' = [node EXCEPT ![h] = "calling"]
      /\ calls' = [calls EXCEPT ![h] = @ + 1]
      /\ DependsOn[h] \cap failedNodes = {}
      /\ UNCHANGED <<pc, phase, failedNodes, results, timedOut, retries>>
  <2>1. /\ pc = "place" /\ toPlace # <<>>
        /\ toPlace' = Tail(toPlace) /\ tasks' = Append(tasks, h)
        /\ node' = [node EXCEPT ![h] = "calling"]
        /\ calls' = [calls EXCEPT ![h] = @ + 1]
        /\ DependsOn[h] \cap failedNodes = {}
        /\ UNCHANGED <<pc, phase, failedNodes, results, timedOut, retries>>
    BY <1>h DEF SpawnNode
  <2>2. toPlace \in Seq(Nodes) /\ tasks \in Seq(Nodes)
    BY <1>0 DEF TypeOK
  <2>3. phase \in 1..Len(Phases) /\ ~ timedOut
    BY <1>0, <2>1, OnePhase DEF Stages, TypeOK
  <2> QED
    BY <2>1, <2>2, <2>3
<1>2. /\ toPlace' \in Seq(Nodes) /\ Distinct(toPlace')
      /\ \A n : In(toPlace, n) <=> n = h \/ In(toPlace', n)
      /\ ~ In(toPlace', h)
  BY <1>0, <1>1, <1>h, TailIn, TailDistinct DEF Lists
<1>3. InPhase(h, phase) /\ NotReached(h)
  BY <1>0, <1>1, <1>2 DEF Lists, Where
<1>4. /\ ResultNodes'
      /\ \A n : HasResult(n)' <=> HasResult(n)
      /\ \A n : OutcomeOf(n)' = OutcomeOf(n)
  BY <1>0, <1>1, ResultsFrame
<1>5. /\ tasks' \in Seq(Nodes) /\ Distinct(tasks')
      /\ \A n : In(tasks', n) <=> n = h \/ In(tasks, n)
  BY <1>0, <1>1, <1>3, AppendIn, AppendDistinct DEF NotReached, Lists
<1>6. /\ node'[h] = "calling" /\ calls'[h] = 1 /\ retries[h] = 0
      /\ \A n \in Nodes \ {h} : node'[n] = node[n] /\ calls'[n] = calls[n]
      /\ DOMAIN node' = Nodes /\ calls' \in [Nodes -> 0..(MaxRetries + 1)]
      /\ node' \in [Nodes -> {"unplaced", "calling", "backoff", "success", "error"}]
  <2>1. /\ node \in [Nodes -> {"unplaced", "calling", "backoff", "success", "error"}]
        /\ calls \in [Nodes -> 0..(MaxRetries + 1)]
    BY <1>0 DEF TypeOK
  <2>2. calls[h] = 0 /\ retries[h] = 0
    BY <1>0, <1>3 DEF NotReached, Tasks
  <2>3. 1 \in 0..(MaxRetries + 1)
    BY PlanFacts
  <2>4. calls' = [calls EXCEPT ![h] = 1]
    BY <1>1, <2>1, <2>2
  <2> QED
    BY <1>1, <2>1, <2>2, <2>3, <2>4
<1>7. TypeOK'
  BY <1>0, <1>1, <1>2, <1>5, <1>6 DEF TypeOK
<1>8. Where'
  <2>1. \A n \in Nodes : n # h => (NotReached(n) => NotReached(n)')
    BY <1>1, <1>4, <1>5, <1>6 DEF NotReached
  <2>2. \A p \in 1..Len(Phases) : InPhase(h, p) => p = phase
    BY <1>1, <1>3, OnePhase
  <2> QED
    BY <1>0, <1>1, <1>2, <1>4, <1>5, <2>1, <2>2 DEF Where
<1>9. Lists'
  BY <1>0, <1>1, <1>2, <1>3, <1>4, <1>5, <1>6 DEF Lists, NotReached
<1>10. Stages' /\ Failures'
  BY <1>0, <1>1, <1>4 DEF Stages, Failures
<1>11. ASSUME NEW d \in DependsOn[h] PROVE OutcomeOf(d) = "success"
  <2>1. d \in Nodes /\ d \notin failedNodes
    BY <1>1, PlanFacts
  <2>2. PICK q \in 1..Len(Phases) : InPhase(d, q)
    BY <2>1, OnePhase
  <2>3. q < phase
    BY <1>1, <1>3, <2>1, <2>2, PlanFacts
  <2>4. HasResult(d)
    BY <1>0, <2>1, <2>2, <2>3 DEF Where
  <2> QED
    BY <1>0, <1>1, <2>1, <2>4, ResultOutcome DEF Failures, TypeOK
<1>12. Tasks'
  BY <1>0, <1>1, <1>4, <1>5, <1>6, <1>11 DEF Tasks, Active
<1> QED
  BY <1>4, <1>7, <1>8, <1>9, <1>10, <1>12 DEF ExecInv

LEMMA AllPlacedStep == ExecInv /\ AllPlaced => ExecInv'
<1> SUFFICES ASSUME ExecInv, AllPlaced PROVE ExecInv'
  OBVIOUS
<1>0. TypeOK /\ ResultNodes /\ Where /\ Lists /\ Stages /\ Failures /\ Tasks
  BY DEF ExecInv
<1>1. /\ pc = "place" /\ toPlace = <<>> /\ pc' = "join" /\ phase <= Len(Phases) /\ ~ timedOut
      /\ UNCHANGED <<phase, toPlace, tasks, failedNodes, results, timedOut, node,
                     retries, calls>>
  BY <1>0, OnePhase DEF AllPlaced, nodeVars, Stages
<1>2. /\ ResultNodes'
      /\ \A n : HasResult(n)' <=> HasResult(n)
      /\ \A n : OutcomeOf(n)' = OutcomeOf(n)
  BY <1>0, <1>1, ResultsFrame
<1>4. TypeOK'
  BY <1>0, <1>1 DEF TypeOK
<1>5. Where'
  BY <1>0, <1>1, <1>2 DEF Where, NotReached, In
<1>6. Lists'
  BY <1>0, <1>1, <1>2 DEF Lists, In
<1>7. Stages' /\ Failures'
  BY <1>0, <1>1, <1>2 DEF Stages, Failures
<1>8. Tasks'
  BY <1>0, <1>1, <1>2 DEF Tasks, Active, In
<1> QED
  BY <1>2, <1>4, <1>5, <1>6, <1>7, <1>8 DEF ExecInv

LEMMA JoinNodeStep == ExecInv /\ JoinNode => ExecInv'
<1> SUFFICES ASSUME ExecInv, JoinNode PROVE ExecInv'
  OBVIOUS
<1>0. TypeOK /\ ResultNodes /\ Where /\ Lists /\ Stages /\ Failures /\ Tasks
  BY DEF ExecInv
<1>h. PICK h \in Nodes : h = Head(tasks)
  BY <1>0 DEF JoinNode, TypeOK
<1>1. /\ pc = "join" /\ phase \in 1..Len(Phases) /\ ~ timedOut /\ toPlace = <<>>
      /\ tasks \in Seq(Nodes) /\ tasks # <<>> /\ tasks' = Tail(tasks)
      /\ node[h] \in {"success", "error"} /\ Push(h, node[h])
      /\ failedNodes' = IF node[h] = "error" THEN failedNodes \cup {h} ELSE failedNodes
      /\ UNCHANGED <<pc, phase, toPlace, timedOut, node, retries, calls>>
  <2>1. /\ pc = "join" /\ tasks # <<>> /\ tasks' = Tail(tasks)
        /\ node[h] \in {"success", "error"} /\ Push(h, node[h])
        /\ failedNodes' = IF node[h] = "error" THEN failedNodes \cup {h} ELSE failedNodes
        /\ UNCHANGED <<pc, phase, toPlace, timedOut, node, retries, calls>>
    BY <1>h DEF JoinNode, nodeVars
  <2>2. tasks \in Seq(Nodes)
    BY <1>0 DEF TypeOK
  <2>3. phase \in 1..Len(Phases) /\ ~ timedOut /\ toPlace = <<>>
    BY <1>0, <2>1, OnePhase DEF Stages, TypeOK
  <2> QED
    BY <2>1, <2>2, <2>3
<1>2. /\ tasks' \in Seq(Nodes) /\ Distinct(tasks')
      /\ \A n : In(tasks, n) <=> n = h \/ In(tasks', n)
      /\ ~ In(tasks', h)
  BY <1>0, <1>1, <1>h, TailIn, TailDistinct DEF Lists
<1>3. InPhase(h, phase) /\ ~ HasResult(h)
  BY <1>0, <1>2 DEF Lists
<1>4. PICK outcome \in {"success", "error"} : outcome = node[h]
  BY <1>1
<1>5. /\ results' \in Seq(Result) /\ ResultNodes'
      /\ \A n \in Nodes : HasResult(n)' <=> n = h \/ HasResult(n)
      /\ OutcomeOf(h)' = outcome
      /\ \A n \in Nodes \ {h} : OutcomeOf(n)' = OutcomeOf(n)
  <2>1. results \in Seq(Result) /\ Push(h, outcome)
    BY <1>0, <1>1, <1>4 DEF TypeOK
  <2> QED
    BY <1>0, <1>3, <2>1, PushSettles
<1>6. TypeOK'
  BY <1>0, <1>1, <1>2, <1>5 DEF TypeOK
<1>7. Where'
  <2>1. \A n \in Nodes : n # h => (NotReached(n) => NotReached(n)')
    BY <1>1, <1>2, <1>5 DEF NotReached
  <2>2. \A p \in 1..Len(Phases) : InPhase(h, p) => p = phase
    BY <1>1, <1>3, OnePhase
  <2>3. \A n \in Nodes : ~ In(toPlace', n)
    BY <1>1, EmptyIn
  <2> QED
    BY <1>0, <1>1, <1>2, <1>5, <2>1, <2>2, <2>3 DEF Where
<1>8. Lists'
  <2>1. \A n : In(toPlace, n)' <=> In(toPlace, n)
    BY <1>1 DEF In
  <2> QED
    BY <1>0, <1>1, <1>2, <1>3, <1>5, <2>1 DEF Lists
<1>9. Stages' /\ Failures'
  <2>1. failedNodes = {n \in Nodes : OutcomeOf(n) \in {"error", "skipped"}}
    BY <1>0, <1>1 DEF Failures
  <2>2. OutcomeOf(h) = "none"
    BY <1>0, <1>3, ResultOutcome DEF TypeOK
  <2>3. failedNodes' = {n \in Nodes : OutcomeOf(n)' \in {"error", "skipped"}}
    BY <1>1, <1>4, <1>5, <2>1, <2>2
  <2> QED
    BY <1>0, <1>1, <2>3 DEF Stages, Failures
<1>10. Tasks'
  <2>1. ASSUME NEW n \in Nodes, node[n] # "unplaced", NEW d \in DependsOn[n]
        PROVE  OutcomeOf(d)' = "success"
    <3>1. d \in Nodes /\ OutcomeOf(d) = "success"
      BY <1>0, <2>1, PlanFacts DEF Tasks
    <3>2. d # h
      BY <1>0, <1>3, <3>1, ResultOutcome DEF TypeOK
    <3> QED
      BY <1>5, <3>1, <3>2
  <2> QED
    BY <1>0, <1>1, <1>2, <2>1 DEF Tasks, Active
<1> QED
  BY <1>5, <1>6, <1>7, <1>8, <1>9, <1>10 DEF ExecInv

LEMMA EndPhaseStep == ExecInv /\ EndPhase => ExecInv'
<1> SUFFICES ASSUME ExecInv, EndPhase PROVE ExecInv'
  OBVIOUS
<1>0. TypeOK /\ ResultNodes /\ Where /\ Lists /\ Stages /\ Failures /\ Tasks
  BY DEF ExecInv
<1>1. /\ pc = "join" /\ tasks = <<>> /\ toPlace = <<>> /\ phase \in 1..Len(Phases)
      /\ ~ timedOut /\ pc' = "check" /\ phase' = phase + 1
      /\ UNCHANGED <<toPlace, tasks, failedNodes, results, timedOut, node, retries,
                     calls>>
  BY <1>0, OnePhase DEF EndPhase, nodeVars, Stages, TypeOK
<1>2. /\ ResultNodes'
      /\ \A n : HasResult(n)' <=> HasResult(n)
      /\ \A n : OutcomeOf(n)' = OutcomeOf(n)
  BY <1>0, <1>1, ResultsFrame
<1>3. \A n : ~ In(tasks, n) /\ ~ In(toPlace, n)
  BY <1>0, <1>1, EmptyIn
<1>4. TypeOK'
  BY <1>0, <1>1, OnePhase DEF TypeOK
<1>5. Where'
  <2>1. \A n \in Nodes : NotReached(n)' <=> NotReached(n)
    BY <1>1, <1>2 DEF NotReached, In
  <2>2. \A p \in 1..Len(Phases) : p < phase' => p < phase \/ p = phase
    BY <1>1, OnePhase
  <2>3. \A p \in 1..Len(Phases) : p >= phase' => p > phase
    BY <1>1, OnePhase
  <2>4. ASSUME NEW n \in Nodes, NEW p \in 1..Len(Phases), InPhase(n, p)
        PROVE  (p < phase' => HasResult(n)) /\ (p >= phase' => NotReached(n))
    BY <1>0, <1>1, <1>3, <2>2, <2>3, <2>4 DEF Where
  <2>5. \A p \in 1..Len(Phases) : (p > phase' \/ p = phase') => p >= phase'
    BY <1>1, OnePhase
  <2> QED
    BY <1>1, <1>2, <2>1, <2>4, <2>5 DEF Where
<1>6. Lists'
  BY <1>0, <1>1, EmptyIn DEF Lists
<1>7. Stages' /\ Failures'
  BY <1>0, <1>1, <1>2 DEF Stages, Failures
<1>8. Tasks'
  BY <1>0, <1>1, <1>2 DEF Tasks, Active, In
<1> QED
  BY <1>2, <1>4, <1>5, <1>6, <1>7, <1>8 DEF ExecInv

LEMMA TimeOutStep == ExecInv /\ TimeOut => ExecInv'
<1> SUFFICES ASSUME ExecInv, TimeOut PROVE ExecInv'
  OBVIOUS
<1>0. TypeOK /\ ResultNodes /\ Where /\ Lists /\ Stages /\ Failures /\ Tasks
  BY DEF ExecInv
<1>1. /\ pc = "check" /\ phase \in 1..Len(Phases) /\ tasks = <<>> /\ pc' = "giveup"
      /\ timedOut' = TRUE /\ toPlace' = Phases[phase]
      /\ UNCHANGED <<phase, tasks, failedNodes, results, node, retries, calls>>
  BY <1>0, OnePhase DEF TimeOut, nodeVars, Stages, TypeOK
<1>2. /\ ResultNodes'
      /\ \A n : HasResult(n)' <=> HasResult(n)
      /\ \A n : OutcomeOf(n)' = OutcomeOf(n)
  BY <1>0, <1>1, ResultsFrame
<1>3. /\ toPlace' \in Seq(Nodes) /\ Distinct(toPlace')
      /\ \A n : In(toPlace', n) <=> InPhase(n, phase)
      /\ \A n : ~ In(tasks, n) /\ ~ In(tasks', n)
  BY <1>1, PhaseList, EmptyIn
<1>4. TypeOK'
  BY <1>0, <1>1, <1>3 DEF TypeOK
<1>5. Where'
  BY <1>0, <1>1, <1>2, <1>3 DEF Where, NotReached
<1>6. Lists'
  BY <1>0, <1>1, <1>2, <1>3, EmptyIn DEF Lists
<1>7. Stages' /\ Failures'
  BY <1>0, <1>1, <1>2 DEF Stages, Failures
<1>8. Tasks'
  BY <1>0, <1>1, <1>2 DEF Tasks, Active, In
<1> QED
  BY <1>2, <1>4, <1>5, <1>6, <1>7, <1>8 DEF ExecInv

LEMMA DropNodeStep == ExecInv /\ DropNode => ExecInv'
<1> SUFFICES ASSUME ExecInv, DropNode PROVE ExecInv'
  OBVIOUS
<1>0. TypeOK /\ ResultNodes /\ Where /\ Lists /\ Stages /\ Failures /\ Tasks
  BY DEF ExecInv
<1>h. PICK h \in Nodes : h = Head(toPlace)
  BY <1>0 DEF DropNode, TypeOK
<1>1. /\ pc = "giveup" /\ phase \in 1..Len(Phases) /\ timedOut
      /\ toPlace \in Seq(Nodes) /\ toPlace # <<>> /\ tasks = <<>>
      /\ toPlace' = Tail(toPlace)
      /\ IF HasResult(h) THEN UNCHANGED results ELSE Push(h, "skipped")
      /\ UNCHANGED <<pc, phase, tasks, failedNodes, timedOut, node, retries, calls>>
  <2>1. /\ pc = "giveup" /\ toPlace # <<>>
        /\ toPlace' = Tail(toPlace)
        /\ IF HasResult(h) THEN UNCHANGED results ELSE Push(h, "skipped")
        /\ UNCHANGED <<pc, phase, tasks, failedNodes, timedOut, node, retries, calls>>
    BY <1>h DEF DropNode, nodeVars
  <2>2. toPlace \in Seq(Nodes)
    BY <1>0 DEF TypeOK
  <2>3. phase \in 1..Len(Phases) /\ timedOut /\ tasks = <<>>
    BY <1>0, <2>1, OnePhase DEF Stages, TypeOK
  <2> QED
    BY <2>1, <2>2, <2>3
<1>2. /\ toPlace' \in Seq(Nodes) /\ Distinct(toPlace')
      /\ \A n : In(toPlace, n) <=> n = h \/ In(toPlace', n)
      /\ ~ In(toPlace', h)
  BY <1>0, <1>1, <1>h, TailIn, TailDistinct DEF Lists
<1>3. InPhase(h, phase) /\ NotReached(h)
  BY <1>0, <1>1, <1>2 DEF Lists, Where
<1>4. /\ results' \in Seq(Result) /\ ResultNodes'
      /\ \A n \in Nodes : HasResult(n)' <=> n = h \/ HasResult(n)
      /\ OutcomeOf(h)' = "skipped"
      /\ \A n \in Nodes \ {h} : OutcomeOf(n)' = OutcomeOf(n)
  <2>1. results \in Seq(Result) /\ ~ HasResult(h) /\ Push(h, "skipped")
    BY <1>0, <1>1, <1>3 DEF NotReached, TypeOK
  <2> QED
    BY <1>0, <2>1, PushSettles
<1>5. \A n : In(tasks, n)' <=> In(tasks, n)
  BY <1>1 DEF In
<1>6. TypeOK'
  BY <1>0, <1>1, <1>2, <1>4 DEF TypeOK
<1>7. Where'
  <2>1. \A n \in Nodes : n # h => (NotReached(n) => NotReached(n)')
    BY <1>1, <1>4, <1>5 DEF NotReached
  <2>2. \A p \in 1..Len(Phases) : InPhase(h, p) => p = phase
    BY <1>1, <1>3, OnePhase
  <2> QED
    BY <1>0, <1>1, <1>2, <1>4, <1>5, <2>1, <2>2 DEF Where
<1>8. Lists'
  BY <1>0, <1>1, <1>2, <1>3, <1>4, <1>5 DEF Lists, NotReached
<1>9. Stages' /\ Failures'
  BY <1>0, <1>1 DEF Stages, Failures
<1>10. Tasks'
  <2>1. ASSUME NEW n \in Nodes, node[n] # "unplaced", NEW d \in DependsOn[n]
        PROVE  OutcomeOf(d)' = "success"
    <3>1. d \in Nodes /\ OutcomeOf(d) = "success"
      BY <1>0, <2>1, PlanFacts DEF Tasks
    <3>2. d # h
      BY <1>0, <1>3, <3>1, ResultOutcome DEF NotReached, TypeOK
    <3> QED
      BY <1>4, <3>1, <3>2
  <2> QED
    BY <1>0, <1>1, <1>5, <2>1 DEF Tasks, Active
<1> QED
  BY <1>4, <1>6, <1>7, <1>8, <1>9, <1>10 DEF ExecInv

LEMMA DropPhaseStep == ExecInv /\ DropPhase => ExecInv'
<1> SUFFICES ASSUME ExecInv, DropPhase PROVE ExecInv'
  OBVIOUS
<1>0. TypeOK /\ ResultNodes /\ Where /\ Lists /\ Stages /\ Failures /\ Tasks
  BY DEF ExecInv
<1>1. /\ pc = "giveup" /\ toPlace = <<>> /\ tasks = <<>> /\ timedOut
      /\ phase \in 1..Len(Phases) /\ phase + 1 \in 1..Len(Phases)
      /\ phase' = phase + 1 /\ toPlace' = Phases[phase + 1]
      /\ UNCHANGED <<pc, tasks, failedNodes, results, timedOut, node, retries, calls>>
  BY <1>0, OnePhase DEF DropPhase, nodeVars, Stages, TypeOK
<1>2. /\ ResultNodes'
      /\ \A n : HasResult(n)' <=> HasResult(n)
      /\ \A n : OutcomeOf(n)' = OutcomeOf(n)
  BY <1>0, <1>1, ResultsFrame
<1>3. /\ toPlace' \in Seq(Nodes) /\ Distinct(toPlace')
      /\ \A n : In(toPlace', n) <=> InPhase(n, phase + 1)
      /\ \A n : ~ In(tasks, n) /\ ~ In(tasks', n) /\ ~ In(toPlace, n)
  BY <1>1, PhaseList, EmptyIn
<1>4. TypeOK'
  BY <1>0, <1>1, <1>3, OnePhase DEF TypeOK
<1>5. Where'
  <2>1. \A n \in Nodes : NotReached(n)' <=> NotReached(n)
    BY <1>1, <1>2 DEF NotReached, In
  <2>2. \A p \in 1..Len(Phases) : p < phase + 1 => p < phase \/ p = phase
    BY <1>1, OnePhase
  <2>3. \A p \in 1..Len(Phases) : (p > phase + 1 \/ p = phase + 1) => p > phase
    BY <1>1, OnePhase
  <2>4. ASSUME NEW n \in Nodes, NEW p \in 1..Len(Phases), InPhase(n, p)
        PROVE  /\ p < phase + 1 => HasResult(n)
               /\ p > phase + 1 \/ p = phase + 1 => NotReached(n)
    BY <1>0, <1>1, <1>3, <2>2, <2>3, <2>4 DEF Where
  <2> QED
    BY <1>1, <1>2, <1>3, <2>1, <2>4 DEF Where
<1>6. Lists'
  BY <1>0, <1>1, <1>2, <1>3, EmptyIn DEF Lists
<1>7. Stages' /\ Failures'
  BY <1>0, <1>1, <1>2 DEF Stages, Failures
<1>8. Tasks'
  BY <1>0, <1>1, <1>2 DEF Tasks, Active, In
<1> QED
  BY <1>2, <1>4, <1>5, <1>6, <1>7, <1>8 DEF ExecInv

LEMMA FinishPlanStep == ExecInv /\ FinishPlan => ExecInv'
<1> SUFFICES ASSUME ExecInv, FinishPlan PROVE ExecInv'
  OBVIOUS
<1>0. TypeOK /\ ResultNodes /\ Where /\ Lists /\ Stages /\ Failures /\ Tasks
  BY DEF ExecInv
<1>1. /\ \/ pc = "check" /\ phase > Len(Phases)
         \/ pc = "giveup" /\ toPlace = <<>> /\ phase = Len(Phases)
      /\ tasks = <<>> /\ pc' = "done"
      /\ UNCHANGED <<phase, toPlace, tasks, failedNodes, results, timedOut, node,
                     retries, calls>>
  BY <1>0, OnePhase DEF FinishPlan, nodeVars, Stages
<1>2. /\ ResultNodes'
      /\ \A n : HasResult(n)' <=> HasResult(n)
      /\ \A n : OutcomeOf(n)' = OutcomeOf(n)
  BY <1>0, <1>1, ResultsFrame
<1>3. \A n \in Nodes : HasResult(n)
  <2> SUFFICES ASSUME NEW n \in Nodes PROVE HasResult(n)
    OBVIOUS
  <2>1. PICK p \in 1..Len(Phases) : InPhase(n, p)
    BY OnePhase
  <2>2. p < phase \/ (p = phase /\ pc = "giveup" /\ toPlace = <<>>)
    <3>1. p \in Nat /\ phase \in Nat /\ p <= Len(Phases) /\ Len(Phases) \in Nat
      BY <1>0, OnePhase DEF TypeOK
    <3> QED
      BY <1>1, <3>1
  <2>3. ~ In(tasks, n)
    BY <1>1, EmptyIn
  <2>4. toPlace = <<>> => ~ In(toPlace, n)
    BY EmptyIn
  <2> QED
    BY <1>0, <2>1, <2>2, <2>3, <2>4 DEF Where
<1>4. TypeOK'
  BY <1>0, <1>1 DEF TypeOK
<1>5. Where'
  BY <1>0, <1>1, <1>2 DEF Where, NotReached, In
<1>6. Lists'
  BY <1>0, <1>1, <1>2 DEF Lists, In
<1>7. Stages' /\ Failures'
  BY <1>0, <1>1, <1>2, <1>3 DEF Stages, Failures
<1>8. Tasks'
  BY <1>0, <1>1, <1>2 DEF Tasks, Active, In
<1> QED
  BY <1>2, <1>4, <1>5, <1>6, <1>7, <1>8 DEF ExecInv

LEMMA AbortPlanStep == ExecInv /\ AbortPlan => ExecInv'
<1> SUFFICES ASSUME ExecInv, AbortPlan PROVE ExecInv'
  OBVIOUS
<1>0. TypeOK /\ ResultNodes /\ Where /\ Lists /\ Stages /\ Failures /\ Tasks
  BY DEF ExecInv
<1>1. /\ pc = "join" /\ tasks # <<>> /\ pc' = "aborted" /\ phase <= Len(Phases)
      /\ ~ timedOut
      /\ UNCHANGED <<phase, toPlace, tasks, failedNodes, results, timedOut, node,
                     retries, calls>>
  BY <1>0, OnePhase DEF AbortPlan, nodeVars, Stages
<1>2. /\ ResultNodes'
      /\ \A n : HasResult(n)' <=> HasResult(n)
      /\ \A n : OutcomeOf(n)' = OutcomeOf(n)
  BY <1>0, <1>1, ResultsFrame
<1>4. TypeOK'
  BY <1>0, <1>1 DEF TypeOK
<1>5. Where'
  BY <1>0, <1>1, <1>2 DEF Where, NotReached, In
<1>6. Lists'
  BY <1>0, <1>1, <1>2 DEF Lists, In
<1>7. Stages' /\ Failures'
  BY <1>0, <1>1, <1>2 DEF Stages, Failures
<1>8. Tasks'
  BY <1>0, <1>1, <1>2 DEF Tasks, Active, In
<1> QED
  BY <1>2, <1>4, <1>5, <1>6, <1>7, <1>8 DEF ExecInv

\* The actions of a node's task have this in common.
TaskStep(n) ==
    /\ Active(n)
    /\ node' = [node EXCEPT ![n] = node'[n]]
    /\ node'[n] \in {"calling", "backoff", "success", "error"}
    /\ retries' = [retries EXCEPT ![n] = retries'[n]]
    /\ calls' = [calls EXCEPT ![n] = calls'[n]]
    /\ retries'[n] \in 0..MaxRetries
    /\ calls'[n] \in 0..(MaxRetries + 1)
    /\ node'[n] = "calling" => calls'[n] = retries'[n] + 1
    /\ node'[n] = "backoff" => calls'[n] = retries'[n]
    /\ UNCHANGED execVars

LEMMA NodeIsTask ==
    ASSUME ExecInv, NEW n \in Nodes, NodeNext(n)
    PROVE  TaskStep(n)
<1>1. /\ MaxRetries \in Nat
      /\ node \in [Nodes -> {"unplaced", "calling", "backoff", "success", "error"}]
      /\ retries \in [Nodes -> 0..MaxRetries]
      /\ calls \in [Nodes -> 0..(MaxRetries + 1)]
  BY PlanFacts DEF ExecInv, TypeOK
<1>2. /\ node[n] = "calling" => calls[n] = retries[n] + 1
      /\ node[n] = "backoff" => calls[n] = retries[n]
  BY DEF ExecInv, Tasks
<1>3. CASE EndNode(n)
  BY <1>1, <1>3 DEF EndNode, TaskStep, Active
<1>4. CASE RetryNode(n)
  <2>1. retries[n] + 1 \in 0..MaxRetries
    BY <1>1, <1>4 DEF RetryNode
  <2> QED
    BY <1>1, <1>2, <1>4, <2>1 DEF RetryNode, TaskStep, Active
<1>5. CASE CallAgain(n)
  <2>1. calls[n] + 1 \in 0..(MaxRetries + 1)
    BY <1>1, <1>2, <1>5 DEF CallAgain
  <2> QED
    BY <1>1, <1>2, <1>5, <2>1 DEF CallAgain, TaskStep, Active
<1> QED
  BY <1>3, <1>4, <1>5 DEF NodeNext

LEMMA NodeStep ==
    ASSUME ExecInv, NEW h \in Nodes, TaskStep(h)
    PROVE  ExecInv'
<1>0. TypeOK /\ ResultNodes /\ Where /\ Lists /\ Stages /\ Failures /\ Tasks
  BY DEF ExecInv
<1>1. /\ Active(h)
      /\ UNCHANGED <<pc, phase, toPlace, tasks, failedNodes, results, timedOut>>
  BY DEF TaskStep, execVars
<1>2. /\ ResultNodes'
      /\ \A n : HasResult(n)' <=> HasResult(n)
      /\ \A n : OutcomeOf(n)' = OutcomeOf(n)
  BY <1>0, <1>1, ResultsFrame
<1>3. /\ \A n \in Nodes \ {h} : /\ node'[n] = node[n]
                                /\ retries'[n] = retries[n]
                                /\ calls'[n] = calls[n]
      /\ node[h] # "unplaced" /\ node'[h] \in {"calling", "backoff", "success", "error"}
      /\ node'[h] = "calling" => calls'[h] = retries'[h] + 1
      /\ node'[h] = "backoff" => calls'[h] = retries'[h]
  BY <1>0 DEF TaskStep, TypeOK, Active
<1>4. TypeOK'
  <2>1. /\ node' \in [Nodes -> {"unplaced", "calling", "backoff", "success", "error"}]
        /\ retries' \in [Nodes -> 0..MaxRetries]
        /\ calls' \in [Nodes -> 0..(MaxRetries + 1)]
    BY <1>0 DEF TaskStep, TypeOK
  <2> QED
    BY <1>0, <1>1, <2>1 DEF TypeOK
<1>5. Where'
  BY <1>0, <1>1, <1>2, <1>3 DEF Where, NotReached, In
<1>6. Lists'
  BY <1>0, <1>1, <1>2, <1>3 DEF Lists, In
<1>7. Stages' /\ Failures'
  BY <1>0, <1>1, <1>2 DEF Stages, Failures
<1>8. Tasks'
  BY <1>0, <1>1, <1>2, <1>3 DEF Tasks, Active, In
<1> QED
  BY <1>2, <1>4, <1>5, <1>6, <1>7, <1>8 DEF ExecInv

LEMMA StutterStep == ExecInv /\ UNCHANGED vars => ExecInv'
<1> SUFFICES ASSUME ExecInv, UNCHANGED vars PROVE ExecInv'
  OBVIOUS
<1>1. UNCHANGED <<pc, phase, toPlace, tasks, failedNodes, results, timedOut, node,
                  retries, calls>>
  BY DEF vars, execVars, nodeVars
<1>2. TypeOK' /\ ResultNodes' /\ Where' /\ Lists'
  BY <1>1 DEF ExecInv, TypeOK, ResultNodes, Where, Lists, NotReached, In, HasResult
<1>3. Stages' /\ Failures' /\ Tasks'
  BY <1>1 DEF ExecInv, Stages, Failures, Tasks, Active, In, HasResult, OutcomeOf, HasStatus
<1> QED
  BY <1>2, <1>3 DEF ExecInv

LEMMA StepHolds == ExecInv /\ [Next]_vars => ExecInv'
  BY BeginPhaseStep, SkipNodeStep, SpawnNodeStep, AllPlacedStep, JoinNodeStep,
     EndPhaseStep, TimeOutStep, DropNodeStep, DropPhaseStep, FinishPlanStep,
     AbortPlanStep, NodeIsTask, NodeStep, StutterStep
     DEF Next, ExecNext

LEMMA Inductive == Spec => []ExecInv
  BY InitHolds, StepHolds, PTL DEF Spec

-----------------------------------------------------------------------------
(* What follows *)

(* Every variable keeps its type; in particular a tool is called at most    *)
(* MaxRetries + 1 times for a node.                                         *)
THEOREM PlanTypes == Spec => []TypeOK
  BY Inductive, PTL DEF ExecInv

(* No tool is called before all dependencies of its node have succeeded.    *)
THEOREM PlanDependenciesFirst == Spec => []DependenciesFirst
<1>1. ExecInv => DependenciesFirst
  <2> SUFFICES ASSUME ExecInv, NEW n \in Nodes, calls[n] > 0, NEW d \in DependsOn[n]
               PROVE  OutcomeOf(d) = "success"
    BY DEF DependenciesFirst
  <2>1. node[n] # "unplaced"
    BY DEF ExecInv, Tasks
  <2> QED
    BY <2>1 DEF ExecInv, Tasks
<1> QED
  BY <1>1, Inductive, PTL

(* A node gets at most one result, and exactly one if the plan finishes.    *)
THEOREM PlanOneResultEach == Spec => []OneResultEach
<1>1. ExecInv => OneResultEach
  BY DEF ExecInv, OneResultEach, ResultNodes, Stages
<1> QED
  BY <1>1, Inductive, PTL

(* The tasks of two phases never run at the same time.                      *)
THEOREM PlanPhaseBarrier == Spec => []PhaseBarrier
<1>1. ExecInv => PhaseBarrier
  <2> SUFFICES ASSUME ExecInv, NEW m \in Nodes, NEW n \in Nodes, Active(m), Active(n)
               PROVE  \E p \in 1..Len(Phases) : InPhase(m, p) /\ InPhase(n, p)
    BY DEF PhaseBarrier
  <2>1. In(tasks, m) /\ In(tasks, n)
    BY DEF ExecInv, Tasks
  <2>2. pc \in {"place", "join", "aborted"} /\ phase \in 1..Len(Phases)
    <3>1. tasks # <<>>
      BY <2>1, EmptyIn
    <3>2. pc \in {"place", "join", "aborted"}
      BY <3>1 DEF ExecInv, Stages, TypeOK
    <3>3. phase \in Nat \ {0} /\ phase <= Len(Phases)
      BY <3>2, OnePhase DEF ExecInv, Stages, TypeOK
    <3> QED
      BY <3>2, <3>3, OnePhase
  <2> QED
    BY <2>1, <2>2 DEF ExecInv, Lists
<1> QED
  BY <1>1, Inductive, PTL

-----------------------------------------------------------------------------
(* The executor implements the promise of a plan *)

Outcomes == [n \in Nodes |-> OutcomeOf(n)]

\* Pushing a result is settling a node.
LEMMA PushSettlesPromise ==
    ASSUME ExecInv, NEW h \in Nodes, NEW outcome \in {"success", "error", "skipped"},
           ~ HasResult(h), Push(h, outcome), pc # "done", pc' = pc, timedOut' = timedOut
    PROVE  Promise!SettleAs(h, outcome)
<1>1. /\ OutcomeOf(h)' = outcome
      /\ \A n \in Nodes \ {h} : OutcomeOf(n)' = OutcomeOf(n)
  BY PushSettles DEF ExecInv, TypeOK
<1>2. OutcomeOf(h) = "none"
  BY ResultOutcome DEF ExecInv, TypeOK
<1>3. Outcomes' = [Outcomes EXCEPT ![h] = outcome]
  BY <1>1 DEF Outcomes
<1>4. Outcomes[h] = "none"
  BY <1>2 DEF Outcomes
<1> QED
  BY <1>3, <1>4 DEF Promise!SettleAs, Outcomes

LEMMA PromiseStep ==
    ASSUME ExecInv, Next
    PROVE  Promise!PromiseNext \/ UNCHANGED <<Outcomes, timedOut, pc = "done">>
<1>0. TypeOK /\ ResultNodes /\ Where /\ Lists /\ Stages /\ Failures /\ Tasks
  BY DEF ExecInv
<1>1. CASE SkipNode
  <2>h. PICK h \in Nodes : h = Head(toPlace)
    BY <1>0, <1>1 DEF SkipNode, TypeOK
  <2>0. /\ pc = "place" /\ toPlace # <<>>
        /\ Push(h, "skipped") /\ DependsOn[h] \cap failedNodes # {}
        /\ pc' = pc /\ timedOut' = timedOut
    BY <1>1, <2>h DEF SkipNode
  <2>p. phase \in 1..Len(Phases) /\ ~ timedOut
    BY <1>0, <2>0, OnePhase DEF Stages, TypeOK
  <2>t. toPlace \in Seq(Nodes)
    BY <1>0 DEF TypeOK
  <2>1. /\ pc = "place" /\ phase \in 1..Len(Phases) /\ ~ timedOut
        /\ toPlace \in Seq(Nodes) /\ toPlace # <<>>
        /\ Push(h, "skipped") /\ DependsOn[h] \cap failedNodes # {}
        /\ pc' = pc /\ timedOut' = timedOut
    BY <2>0, <2>p, <2>t
  <2>2. ~ HasResult(h)
    <3>1. In(toPlace, h)
      BY <2>h, <2>1, TailIn
    <3> QED
      BY <1>0, <2>1, <3>1 DEF Lists, Where, NotReached
  <2>3. PICK d \in DependsOn[h] : d \in failedNodes
    BY <2>1
  <2>4. d \in Nodes /\ OutcomeOf(d) \in {"error", "skipped"}
    BY <1>0, <2>1, <2>3 DEF Failures
  <2>5. Promise!SkipNode(h)
    BY <2>1, <2>2, <2>4, PushSettlesPromise DEF Promise!SkipNode
  <2> QED
    BY <2>5 DEF Promise!PromiseNext
<1>2. CASE JoinNode
  <2>h. PICK h \in Nodes : h = Head(tasks)
    BY <1>0, <1>2 DEF JoinNode, TypeOK
  <2>1. /\ pc = "join" /\ ~ timedOut /\ tasks \in Seq(Nodes) /\ tasks # <<>>
        /\ node[h] \in {"success", "error"} /\ Push(h, node[h])
        /\ pc' = pc /\ timedOut' = timedOut
    BY <1>0, <1>2, <2>h DEF JoinNode, Stages, TypeOK
  <2>2. ~ HasResult(h)
    BY <1>0, <2>h, <2>1, TailIn DEF Lists
  <2>3. PICK outcome \in {"success", "error"} : outcome = node[h]
    BY <2>1
  <2>4. \A d \in DependsOn[h] : d \in Nodes /\ OutcomeOf(d) = "success"
    BY <1>0, <2>1, PlanFacts DEF Tasks
  <2>5. Promise!SettleAs(h, outcome)
    BY <2>1, <2>2, <2>3, PushSettlesPromise
  <2>6. Promise!Attempt(h)
    BY <2>1, <2>4, <2>5 DEF Promise!Attempt
  <2> QED
    BY <2>6 DEF Promise!PromiseNext
<1>3. CASE DropNode
  <2>h. PICK h \in Nodes : h = Head(toPlace)
    BY <1>0, <1>3 DEF DropNode, TypeOK
  <2>1. /\ pc = "giveup" /\ timedOut /\ phase \in 1..Len(Phases)
        /\ toPlace \in Seq(Nodes) /\ toPlace # <<>>
        /\ IF HasResult(h) THEN UNCHANGED results ELSE Push(h, "skipped")
        /\ pc' = pc /\ timedOut' = timedOut
    BY <1>0, <1>3, <2>h, OnePhase DEF DropNode, Stages, TypeOK
  <2>2. ~ HasResult(h)
    <3>1. In(toPlace, h)
      BY <2>h, <2>1, TailIn
    <3> QED
      BY <1>0, <2>1, <3>1 DEF Lists, Where, NotReached
  <2>3. Promise!DropNode(h)
    BY <2>1, <2>2, PushSettlesPromise DEF Promise!DropNode
  <2> QED
    BY <2>3 DEF Promise!PromiseNext
<1>4. CASE TimeOut
  <2>1. /\ ~ timedOut /\ timedOut' = TRUE /\ pc # "done" /\ pc' # "done"
        /\ UNCHANGED results
    BY <1>0, <1>4 DEF TimeOut, Stages
  <2>2. Outcomes' = Outcomes
    BY <2>1, ResultsFrame DEF Outcomes
  <2>3. Promise!GiveUp
    BY <2>1, <2>2 DEF Promise!GiveUp, Outcomes
  <2> QED
    BY <2>3 DEF Promise!PromiseNext
<1>5. CASE FinishPlan
  <2>1. /\ pc # "done" /\ pc' = "done" /\ UNCHANGED <<results, timedOut>>
    BY <1>5 DEF FinishPlan
  <2>2. Outcomes' = Outcomes
    BY <2>1, ResultsFrame DEF Outcomes
  <2>3. \A n \in Nodes : OutcomeOf(n) # "none"
    <3>1. Stages' /\ pc' = "done"
      BY <1>5, <2>1, FinishPlanStep DEF ExecInv
    <3>2. \A n \in Nodes : HasResult(n)'
      BY <3>1 DEF Stages
    <3> QED
      BY <1>0, <2>1, <3>2, ResultsFrame, ResultOutcome DEF TypeOK
  <2>4. Promise!Finish
    BY <2>1, <2>2, <2>3 DEF Promise!Finish, Outcomes
  <2> QED
    BY <2>4 DEF Promise!PromiseNext
<1>6. CASE BeginPhase \/ SpawnNode \/ AllPlaced \/ EndPhase \/ DropPhase \/ AbortPlan
  <2>1. UNCHANGED <<results, timedOut>> /\ pc # "done" /\ pc' # "done"
    BY <1>6 DEF BeginPhase, SpawnNode, AllPlaced, EndPhase, DropPhase, AbortPlan
  <2> QED
    BY <2>1, ResultsFrame DEF Outcomes
<1>7. CASE \E n \in Nodes : NodeNext(n)
  <2>1. UNCHANGED <<results, timedOut, pc>>
    BY <1>7 DEF NodeNext, EndNode, RetryNode, CallAgain, execVars
  <2> QED
    BY <2>1, ResultsFrame DEF Outcomes
<1> QED
  BY <1>1, <1>2, <1>3, <1>4, <1>5, <1>6, <1>7 DEF Next, ExecNext

(* The executor keeps the promise of a plan, whatever its nodes, tasks,     *)
(* failures, retries and timeouts.                                          *)
THEOREM PlanKeepsPromise == Spec => KeepsPromise
<1>1. Init => Promise!PromiseInit
  <2> SUFFICES ASSUME Init PROVE Promise!PromiseInit
    OBVIOUS
  <2>1. \A n \in Nodes : OutcomeOf(n) = "none"
    <3>1. 1..Len(results) = {}
      BY DEF Init
    <3> QED
      BY <3>1 DEF OutcomeOf, HasStatus
  <2> QED
    BY <2>1 DEF Init, Promise!PromiseInit
<1>2. ExecInv /\ [Next]_vars => [Promise!PromiseNext]_(Promise!promiseVars)
  <2> SUFFICES ASSUME ExecInv, [Next]_vars
               PROVE  Promise!PromiseNext \/ UNCHANGED Promise!promiseVars
    OBVIOUS
  <2>1. CASE Next
    BY <2>1, PromiseStep DEF Promise!promiseVars, Outcomes
  <2>2. CASE UNCHANGED vars
    <3>1. UNCHANGED <<results, timedOut, pc>>
      BY <2>2 DEF vars, execVars
    <3> QED
      BY <3>1, ResultsFrame DEF Promise!promiseVars
  <2> QED
    BY <2>1, <2>2
<1> QED
  BY <1>1, <1>2, Inductive, PTL DEF Spec, KeepsPromise, Promise!PromiseSpec

-----------------------------------------------------------------------------
(***************************************************************************)
(* What is made of the drawing of a flow before it runs, for any nodes and *)
(* edges: the sort takes every node once, an input before its node; the    *)
(* walk along the edges finds cycles that are cycles, and an order in which *)
(* only these go back; the meshes, the depths off the cycles and the chains *)
(* made of these lay the nodes out in phases, each node in one place.       *)
(***************************************************************************)
(* Rounds of a loop, and the sequences they are about                       *)

LEMMA MinIs ==
    ASSUME NEW T \in SUBSET Nat, T # {}
    PROVE  Min(T) \in T /\ \A y \in T : Min(T) <= y
  <1>1. \E x \in T : \A y \in T : x <= y
    BY Least
  <1> QED
    BY <1>1 DEF Min

\* h has the first value and the rounds of a loop whose round is g.
RoundsOf(h, v, n, g) == h = [k \in 0..n |-> IF k = 0 THEN v ELSE g[h[k - 1]]]

LEMMA Rounds ==
    ASSUME NEW V, NEW v \in V, NEW n \in Nat, NEW g \in [V -> V]
    PROVE  \E h \in [0..n -> V] : RoundsOf(h, v, n, g)
  <1> DEFINE G == [k \in 1..n |-> g]
  <1>1. G \in StepsOn(n, V)
    BY DEF StepsOn
  <1>2. PICK h \in Values(n, V) : Built(h, v, n, G)
    <2> HIDE DEF G
    <2> QED
      BY <1>1, Steps
  <1>3. h \in [0..n -> V] /\ h[0] = v /\ \A k \in 1..n : h[k] = g[h[k - 1]]
    BY <1>2 DEF Values, Built
  <1>4. \A k \in 0..n : h[k] = IF k = 0 THEN v ELSE g[h[k - 1]]
    <2> SUFFICES ASSUME NEW k \in 0..n PROVE h[k] = IF k = 0 THEN v ELSE g[h[k - 1]]
      OBVIOUS
    <2>1. CASE k = 0
      BY <1>3, <2>1
    <2>2. CASE k # 0
      <3>1. k \in 1..n
        BY <2>2
      <3> QED
        BY <1>3, <2>2, <3>1
    <2> QED
      BY <2>1, <2>2
  <1>5. RoundsOf(h, v, n, g)
    BY <1>3, <1>4, Zenon DEF RoundsOf
  <1> QED
    BY <1>3, <1>5

\* A loop that goes on only while there is something new among the first n things
\* has ended after n rounds, or has come to all of them.
LEMMA LoopEnded ==
    ASSUME NEW n \in Nat, NEW M \in [0..n -> SUBSET (1..n)], NEW E \in SUBSET (0..n),
           \A k \in 1..n : k - 1 \in E => k \in E,
           \A k \in 1..n : k - 1 \notin E => M[k - 1] \subseteq M[k] /\ M[k] # M[k - 1]
    PROVE  n \in E \/ M[n] = 1..n
  <1> DEFINE P == {k \in 0..n : k \in E \/ Cardinality(M[k]) >= k}
  <1>1. IsFiniteSet(1..n) /\ Cardinality(1..n) = n
    BY FS_Interval
  <1>2. ASSUME NEW k \in 0..n
        PROVE  M[k] \subseteq 1..n /\ IsFiniteSet(M[k]) /\ Cardinality(M[k]) \in Nat
    BY <1>1, FS_Subset, FS_CardinalityType
  <1>3. 0 \in P
    BY <1>2
  <1>4. ASSUME NEW k \in 1..n, k - 1 \in P PROVE k \in P
    <2>1. k - 1 \in 0..n /\ k \in 0..n
      OBVIOUS
    <2>2. CASE k - 1 \in E
      BY <2>1, <2>2
    <2>3. CASE k - 1 \notin E
      <3>1. M[k - 1] \subseteq M[k] /\ M[k] # M[k - 1]
        BY <2>3
      <3>2. Cardinality(M[k - 1]) <= Cardinality(M[k]) /\ Cardinality(M[k - 1]) # Cardinality(M[k])
        BY <1>2, <2>1, <3>1, FS_Subset
      <3>3. Cardinality(M[k - 1]) >= k - 1
        BY <1>4, <2>3
      <3>4. Cardinality(M[k]) \in Nat /\ Cardinality(M[k - 1]) \in Nat
        BY <1>2, <2>1
      <3> QED
        BY <2>1, <3>2, <3>3, <3>4
    <2> QED
      BY <2>2, <2>3
  <1>5. P = 0..n
    <2>1. P \in SUBSET (0..n)
      OBVIOUS
    <2> HIDE DEF P
    <2> QED
      BY <1>3, <1>4, <2>1, Upward
  <1>6. n \in E \/ Cardinality(M[n]) >= n
    BY <1>5
  <1>7. ASSUME Cardinality(M[n]) >= n PROVE M[n] = 1..n
    <2>1. M[n] \subseteq 1..n /\ Cardinality(M[n]) <= n /\ Cardinality(M[n]) \in Nat
      BY <1>1, <1>2, FS_Subset
    <2>2. Cardinality(M[n]) = Cardinality(1..n)
      BY <1>1, <1>7, <2>1
    <2> QED
      BY <1>1, <2>1, <2>2, FS_Subset
  <1> QED
    BY <1>6, <1>7

LEMMA ElementsOf ==
    ASSUME NEW S, NEW s \in Seq(S)
    PROVE  Len(s) \in Nat /\ Elements(s) \subseteq S /\ \A i \in 1..Len(s) : s[i] \in Elements(s)
  BY DEF Elements

LEMMA NoElements == Elements(<<>>) = {} /\ Distinct(<<>>)
  BY DEF Elements, Distinct

LEMMA OneElement ==
    ASSUME NEW S, NEW x \in S
    PROVE  <<x>> \in Seq(S) /\ Elements(<<x>>) = {x} /\ Distinct(<<x>>)
  BY DEF Elements, Distinct

LEMMA ElementsConcat ==
    ASSUME NEW S, NEW s \in Seq(S), NEW t \in Seq(S)
    PROVE  /\ s \o t \in Seq(S) /\ Elements(s \o t) = Elements(s) \cup Elements(t)
           /\ Distinct(s) /\ Distinct(t) /\ Elements(s) \cap Elements(t) = {} => Distinct(s \o t)
  <1> DEFINE q == s \o t
  <1>1. /\ q \in Seq(S) /\ Len(s) \in Nat /\ Len(t) \in Nat /\ Len(q) = Len(s) + Len(t)
        /\ \A i \in 1..Len(s) : q[i] = s[i]
        /\ \A i \in 1..Len(t) : q[Len(s) + i] = t[i]
    OBVIOUS
  <1>2. \A i \in 1..Len(q) : i \in 1..Len(s) \/ i - Len(s) \in 1..Len(t)
    BY <1>1
  <1> HIDE DEF q
  <1>3. \A i \in 1..Len(q) : i - Len(s) \in 1..Len(t) => q[i] = t[i - Len(s)]
    <2> SUFFICES ASSUME NEW i \in 1..Len(q), i - Len(s) \in 1..Len(t) PROVE q[i] = t[i - Len(s)]
      OBVIOUS
    <2>1. Len(s) + (i - Len(s)) = i
      BY <1>1
    <2>2. q[Len(s) + (i - Len(s))] = t[i - Len(s)]
      BY <1>1
    <2> QED
      BY <2>1, <2>2
  <1>4. Elements(q) \subseteq Elements(s) \cup Elements(t)
    <2> SUFFICES ASSUME NEW i \in 1..Len(q) PROVE q[i] \in Elements(s) \cup Elements(t)
      BY DEF Elements
    <2> QED
      BY <1>1, <1>2, <1>3 DEF Elements
  <1>5. Elements(s) \subseteq Elements(q)
    <2> SUFFICES ASSUME NEW i \in 1..Len(s) PROVE s[i] \in Elements(q)
      BY DEF Elements
    <2>1. i \in 1..Len(q) /\ q[i] = s[i]
      BY <1>1
    <2> QED
      BY <2>1 DEF Elements
  <1>6. Elements(t) \subseteq Elements(q)
    <2> SUFFICES ASSUME NEW i \in 1..Len(t) PROVE t[i] \in Elements(q)
      BY DEF Elements
    <2>1. Len(s) + i \in 1..Len(q) /\ q[Len(s) + i] = t[i]
      BY <1>1
    <2> QED
      BY <2>1 DEF Elements
  <1>7. ASSUME Distinct(s), Distinct(t), Elements(s) \cap Elements(t) = {} PROVE Distinct(q)
    <2> SUFFICES ASSUME NEW i \in 1..Len(q), NEW j \in 1..Len(q), q[i] = q[j] PROVE i = j
      BY DEF Distinct
    <2>1. CASE i \in 1..Len(s) /\ j \in 1..Len(s)
      BY <1>1, <1>7, <2>1 DEF Distinct
    <2>2. CASE i - Len(s) \in 1..Len(t) /\ j - Len(s) \in 1..Len(t)
      <3>1. i - Len(s) = j - Len(s)
        BY <1>3, <1>7, <2>2 DEF Distinct
      <3> QED
        BY <1>1, <3>1
    <2>3. \A k, l \in 1..Len(q) :
              k \in 1..Len(s) /\ l - Len(s) \in 1..Len(t) => q[k] # q[l]
      <3> SUFFICES ASSUME NEW k \in 1..Len(s), NEW l \in 1..Len(q), l - Len(s) \in 1..Len(t)
                   PROVE  q[k] # q[l]
        OBVIOUS
      <3>1. q[k] \in Elements(s) /\ q[l] \in Elements(t)
        BY <1>1, <1>3 DEF Elements
      <3> QED
        BY <1>7, <3>1
    <2> QED
      BY <1>2, <2>1, <2>2, <2>3
  <1> QED
    BY <1>1, <1>4, <1>5, <1>6, <1>7 DEF q

LEMMA ElementsAppend ==
    ASSUME NEW S, NEW s \in Seq(S), NEW x \in S
    PROVE  /\ Append(s, x) \in Seq(S) /\ Elements(Append(s, x)) = Elements(s) \cup {x}
           /\ Distinct(s) /\ x \notin Elements(s) => Distinct(Append(s, x))
  <1> DEFINE t == <<x>>
  <1>1. Append(s, x) = s \o t
    OBVIOUS
  <1>2. t \in Seq(S) /\ Elements(t) = {x} /\ Distinct(t)
    BY OneElement
  <1> HIDE DEF t
  <1>3. s \o t \in Seq(S) /\ Elements(s \o t) = Elements(s) \cup {x}
    BY <1>2, ElementsConcat
  <1>4. ASSUME Distinct(s), x \notin Elements(s) PROVE Distinct(s \o t)
    <2>1. Elements(s) \cap Elements(t) = {}
      BY <1>2, <1>4
    <2> QED
      BY <1>2, <1>4, <2>1, ElementsConcat
  <1> QED
    BY <1>1, <1>3, <1>4

LEMMA ElementsTail ==
    ASSUME NEW S, NEW s \in Seq(S), s # <<>>
    PROVE  /\ Head(s) \in S /\ Tail(s) \in Seq(S)
           /\ Elements(s) = {Head(s)} \cup Elements(Tail(s))
           /\ Distinct(s) => Distinct(Tail(s)) /\ Head(s) \notin Elements(Tail(s))
  <1>1. Head(s) \in S /\ Tail(s) \in Seq(S)
    OBVIOUS
  <1>2. \A n : n \in Elements(s) <=> In(s, n)
    BY DEF Elements, In
  <1>3. \A n : n \in Elements(Tail(s)) <=> In(Tail(s), n)
    BY DEF Elements, In
  <1>4. ASSUME NEW n PROVE In(s, n) <=> n = Head(s) \/ In(Tail(s), n)
    BY TailIn
  <1>5. Distinct(s) => Distinct(Tail(s)) /\ ~ In(Tail(s), Head(s))
    BY TailDistinct
  <1> QED
    BY <1>1, <1>2, <1>3, <1>4, <1>5

\* What is kept of a sequence.
ChosenOf(q, s, I) ==
    (\A x \in Elements(q) : \E i \in I : s[i] = x) /\ (\A i \in I : s[i] \in Elements(q))

LEMMA ElementsKeep ==
    ASSUME NEW S, NEW s \in Seq(S), NEW I, I \subseteq 1..Len(s)
    PROVE  /\ Keep(s, I) \in Seq(S)
           /\ ChosenOf(Keep(s, I), s, I)
           /\ (\A i, j \in I : s[i] = s[j] => i = j) => Distinct(Keep(s, I))
  <1> DEFINE q == Keep(s, I)
  <1>1. PICK g : q \in Seq(S) /\ TakenAt(g, q, s, I)
    BY KeepTakes
  <1> HIDE DEF q
  <1>2. Len(q) \in Nat /\ Len(s) \in Nat
    BY <1>1
  <1>3. /\ g \in [1..Len(q) -> 1..Len(s)] /\ Increasing(g, Len(q))
        /\ \A i \in 1..Len(q) : q[i] = s[g[i]] /\ g[i] \in I
        /\ \A j \in I : \E i \in 1..Len(q) : g[i] = j
    BY <1>1 DEF TakenAt
  <1>4. ChosenOf(q, s, I)
    <2>1. \A x \in Elements(q) : \E i \in I : s[i] = x
      BY <1>3 DEF Elements
    <2>2. ASSUME NEW j \in I PROVE s[j] \in Elements(q)
      <3>1. PICK i \in 1..Len(q) : g[i] = j
        BY <1>3
      <3>2. q[i] = s[j]
        BY <1>3, <3>1
      <3> QED
        BY <3>2 DEF Elements
    <2> QED
      BY <2>1, <2>2 DEF ChosenOf
  <1>5. ASSUME \A i, j \in I : s[i] = s[j] => i = j PROVE Distinct(q)
    <2> SUFFICES ASSUME NEW i \in 1..Len(q), NEW j \in 1..Len(q), q[i] = q[j] PROVE i = j
      BY DEF Distinct
    <2>1. g[i] \in I /\ g[j] \in I /\ s[g[i]] = s[g[j]]
      BY <1>3
    <2>2. g[i] = g[j]
      BY <1>5, <2>1
    <2>3. ~ (i < j) /\ ~ (j < i)
      <3>1. g[i] \in 1..Len(s) /\ g[j] \in 1..Len(s)
        BY <1>3
      <3>2. ~ (g[i] < g[j]) /\ ~ (g[j] < g[i])
        BY <2>2, <3>1
      <3> QED
        BY <1>3, <3>2 DEF Increasing
    <2>4. i \in Nat /\ j \in Nat
      BY <1>2
    <2> QED
      BY <2>3, <2>4
  <1> QED
    BY <1>1, <1>4, <1>5 DEF q

-----------------------------------------------------------------------------
(* Drawings *)

LEMMA Drawn ==
    ASSUME NEW f, IsDrawing(f)
    PROVE  /\ Len(f.nodes) \in Nat /\ Len(f.edges) \in Nat
           /\ f.nodes \in Seq(NodeSet(f)) /\ Distinct(f.nodes)
           /\ \A i \in 1..Len(f.edges) : f.edges[i].from \in NodeSet(f) /\ f.edges[i].to \in NodeSet(f)
  <1> DEFINE EdgeKind == [from : NodeSet(f), to : NodeSet(f), label : {"", "true", "false"},
                          kind : {"forward", "reverse", "bidirectional", "error"}]
  <1>1. f.edges \in Seq(EdgeKind)
    BY DEF IsDrawing
  <1>2. f.nodes \in Seq(NodeSet(f)) /\ Distinct(f.nodes)
    BY DEF IsDrawing, Distinct
  <1>3. \A e \in EdgeKind : e.from \in NodeSet(f) /\ e.to \in NodeSet(f)
    OBVIOUS
  <1> HIDE DEF EdgeKind
  <1>4. Len(f.edges) \in Nat /\ \A i \in 1..Len(f.edges) : f.edges[i] \in EdgeKind
    BY <1>1, SeqElements
  <1>5. Len(f.nodes) \in Nat
    BY <1>2, SeqElements
  <1> QED
    BY <1>2, <1>3, <1>4, <1>5

LEMMA NodeStands ==
    ASSUME NEW f, NEW n \in NodeSet(f) PROVE \E i \in 1..Len(f.nodes) : f.nodes[i] = n
  BY DEF NodeSet, Elements

LEMMA InputsAreNodes ==
    ASSUME NEW f, IsDrawing(f), NEW n PROVE Inputs(f, n) \subseteq NodeSet(f)
  BY Drawn DEF Inputs, Entering

LEMMA NodesInAre ==
    ASSUME NEW f, IsDrawing(f), NEW S \in SUBSET NodeSet(f)
    PROVE  NodesIn(f, S) \in Seq(NodeSet(f)) /\ Elements(NodesIn(f, S)) = S /\ Distinct(NodesIn(f, S))
  <1> DEFINE I == {i \in 1..Len(f.nodes) : f.nodes[i] \in S}
             s == f.nodes
             V == NodeSet(f)
  <1>1. I \subseteq 1..Len(s) /\ s \in Seq(V) /\ Distinct(s)
    BY Drawn
  <1>2. NodesIn(f, S) = Keep(s, I)
    BY DEF NodesIn
  <1>3. \A x : x \in S <=> \E i \in I : s[i] = x
    BY NodeStands
  <1>4. \A i, j \in I : s[i] = s[j] => i = j
    BY <1>1 DEF Distinct
  <1> HIDE DEF I, s, V
  <1>5. /\ Keep(s, I) \in Seq(V)
        /\ ChosenOf(Keep(s, I), s, I)
        /\ Distinct(Keep(s, I))
    BY <1>1, <1>4, ElementsKeep
  <1>6. Elements(Keep(s, I)) = S
    BY <1>3, <1>5 DEF ChosenOf
  <1> QED
    BY <1>2, <1>5, <1>6 DEF V

-----------------------------------------------------------------------------
(* The plan of a drawing *)

\* Each node of a sequence has its inputs before it.
InputsBefore(f, s) ==
    \A j \in 1..Len(s) : \A p \in Inputs(f, s[j]) : \E i \in 1..Len(s) : i < j /\ s[i] = p

SortInv(f, s) ==
    /\ Distinct(s.done) /\ Distinct(s.queue) /\ Elements(s.done) \cap Elements(s.queue) = {}
    /\ \A i \in 1..Len(f.edges) :
           i \in s.taken <=> f.edges[i].kind # "reverse" /\ f.edges[i].from \in Elements(s.done)
    /\ \A n \in NodeSet(f) :
           Entering(f, n) \subseteq s.taken <=> n \in Elements(s.done) \cup Elements(s.queue)
    /\ InputsBefore(f, s.done)

SortTypes(f) ==
    [queue : Seq(NodeSet(f)), taken : SUBSET (1..Len(f.edges)), done : Seq(NodeSet(f))]
SortStates(f) == {s \in SortTypes(f) : SortInv(f, s)}

SortStart(f) == [queue |-> Roots(f), taken |-> {}, done |-> <<>>]

LEMMA RootsAre ==
    ASSUME NEW f, IsDrawing(f)
    PROVE  /\ Roots(f) \in Seq(NodeSet(f)) /\ Distinct(Roots(f))
           /\ Elements(Roots(f)) = {n \in NodeSet(f) : Entering(f, n) = {}}
  <1> DEFINE roots == {n \in NodeSet(f) : Entering(f, n) = {}}
             triggers == {n \in roots : f.kind[n] = "trigger"}
             s == NodesIn(f, triggers)
             t == NodesIn(f, roots \ triggers)
  <1>1. triggers \in SUBSET NodeSet(f) /\ roots \ triggers \in SUBSET NodeSet(f)
    OBVIOUS
  <1>2. /\ s \in Seq(NodeSet(f)) /\ Elements(s) = triggers /\ Distinct(s)
        /\ t \in Seq(NodeSet(f)) /\ Elements(t) = roots \ triggers /\ Distinct(t)
    <2> HIDE DEF roots, triggers
    <2> QED
      BY <1>1, NodesInAre
  <1>3. Roots(f) = s \o t
    BY DEF Roots
  <1>4. triggers \cup (roots \ triggers) = roots
    OBVIOUS
  <1> HIDE DEF s, t, triggers
  <1>5. Elements(s) \cap Elements(t) = {}
    BY <1>2
  <1> QED
    BY <1>2, <1>3, <1>4, <1>5, ElementsConcat

LEMMA SortStarts ==
    ASSUME NEW f, IsDrawing(f) PROVE SortStart(f) \in SortStates(f)
  <1>1. Elements(<<>>) = {} /\ Distinct(<<>>) /\ InputsBefore(f, <<>>)
    BY NoElements DEF InputsBefore
  <1>2. SortStart(f) \in SortTypes(f)
    BY RootsAre DEF SortStart, SortTypes
  <1>3. SortInv(f, SortStart(f))
    BY <1>1, RootsAre, Zenon DEF SortInv, SortStart
  <1> QED
    BY <1>2, <1>3 DEF SortStates

\* What the head of the queue takes away, and what it brings into the queue.
TakenWith(f, s) == s.taken \cup Leaving(f, Head(s.queue))
Ends(f) == [i \in 1..Len(f.edges) |-> f.edges[i].to]
ReleasedBy(f, s) == Keep(Ends(f), Releasing(f, Head(s.queue), TakenWith(f, s)))

\* The children that lose their last edge with it.
LEMMA Released ==
    ASSUME NEW f, IsDrawing(f), NEW s
    PROVE  /\ ReleasedBy(f, s) \in Seq(NodeSet(f)) /\ Distinct(ReleasedBy(f, s))
           /\ \A m \in NodeSet(f) :
                  m \in Elements(ReleasedBy(f, s)) <=>
                      /\ Entering(f, m) \subseteq TakenWith(f, s)
                      /\ Entering(f, m) \cap Leaving(f, Head(s.queue)) # {}
  <1> DEFINE R == Releasing(f, Head(s.queue), TakenWith(f, s))
             q == ReleasedBy(f, s)
             V == NodeSet(f)
             ends == Ends(f)
             taken == TakenWith(f, s)
             L == Leaving(f, Head(s.queue))
  <1>1. Len(f.edges) \in Nat /\ \A i \in 1..Len(f.edges) : f.edges[i].to \in V
    BY Drawn
  <1>2. ends \in Seq(V) /\ Len(ends) = Len(f.edges)
    BY <1>1 DEF Ends
  <1>3. \A i : i \in R <=> /\ i \in L /\ Entering(f, f.edges[i].to) \subseteq taken
                           /\ \A j \in L : f.edges[j].to = f.edges[i].to => j <= i
    BY DEF Releasing
  <1>4. L \subseteq 1..Len(f.edges)
    BY DEF Leaving
  <1>5. \A i \in 1..Len(f.edges) : ends[i] = f.edges[i].to
    BY DEF Ends
  <1>6. q = Keep(ends, R)
    BY DEF ReleasedBy
  <1>7. \A i \in L : \A m : i \in Entering(f, m) <=> f.edges[i].to = m
    BY DEF Leaving, Entering
  <1> HIDE DEF R, q, V, ends, taken, L
  <1>8. R \subseteq 1..Len(ends)
    BY <1>2, <1>3, <1>4
  <1>9. \A i, j \in R : ends[i] = ends[j] => i = j
    <2> SUFFICES ASSUME NEW i \in R, NEW j \in R, ends[i] = ends[j] PROVE i = j
      OBVIOUS
    <2>1. i \in L /\ j \in L /\ f.edges[i].to = f.edges[j].to
      BY <1>3, <1>4, <1>5
    <2>2. i <= j /\ j <= i
      BY <1>3, <2>1
    <2>3. i \in Nat /\ j \in Nat
      BY <1>1, <1>4, <2>1
    <2> QED
      BY <2>2, <2>3
  <1>10. q \in Seq(V) /\ Distinct(q) /\ ChosenOf(q, ends, R)
    BY <1>2, <1>6, <1>8, <1>9, ElementsKeep
  <1>11. ASSUME NEW m \in Elements(q)
         PROVE  Entering(f, m) \subseteq taken /\ Entering(f, m) \cap L # {}
    <2>1. PICK i \in R : ends[i] = m
      BY <1>10 DEF ChosenOf
    <2>2. i \in L /\ f.edges[i].to = m /\ Entering(f, m) \subseteq taken
      BY <1>3, <1>4, <1>5, <2>1
    <2> QED
      BY <1>7, <2>2
  <1>12. ASSUME NEW m, Entering(f, m) \subseteq taken, Entering(f, m) \cap L # {}
         PROVE  m \in Elements(q)
    <2> DEFINE T == Entering(f, m) \cap L
    <2>0. T \subseteq 1..Len(f.edges) /\ T # {}
      BY <1>4, <1>12
    <2>1. T \in SUBSET Nat /\ T # {} /\ \A y \in T : y <= Len(f.edges)
      <3> HIDE DEF T
      <3> QED
        BY <1>1, <2>0
    <2>2. PICK i \in T : \A y \in T : y <= i
      <3> HIDE DEF T
      <3> QED
        BY <1>1, <2>1, Greatest
    <2>3. i \in L /\ f.edges[i].to = m
      BY <1>7, <2>2
    <2>4. \A j \in L : f.edges[j].to = m => j <= i
      BY <1>7, <2>2
    <2>5. i \in R
      BY <1>3, <1>12, <2>3, <2>4
    <2> QED
      BY <1>4, <1>5, <1>10, <2>3, <2>5 DEF ChosenOf
  <1> QED
    BY <1>10, <1>11, <1>12 DEF q, V, taken, L

LEMMA TakeNodeKeeps ==
    ASSUME NEW f, IsDrawing(f), NEW s \in SortStates(f)
    PROVE  /\ TakeNode(f, s) \in SortStates(f)
           /\ s.queue # <<>> => TakeNode(f, s).done = Append(s.done, Head(s.queue))
                                /\ Head(s.queue) \in NodeSet(f) \ Elements(s.done)
           /\ s.queue = <<>> => TakeNode(f, s) = s
  <1>0. CASE s.queue = <<>>
    BY <1>0 DEF TakeNode
  <1>1. CASE s.queue # <<>>
    <2> DEFINE n == Head(s.queue)
               taken == s.taken \cup Leaving(f, n)
               q == ReleasedBy(f, s)
               t == TakeNode(f, s)
    <2>1. t = [queue |-> Tail(s.queue) \o q, taken |-> taken, done |-> Append(s.done, n)]
      BY <1>1 DEF TakeNode, ReleasedBy, Ends, TakenWith
    <2>2. /\ q \in Seq(NodeSet(f)) /\ Distinct(q)
          /\ \A m \in NodeSet(f) :
                 m \in Elements(q) <=> Entering(f, m) \subseteq taken /\ Entering(f, m) \cap Leaving(f, n) # {}
      BY Released DEF TakenWith
    <2>3. /\ s \in SortTypes(f) /\ SortInv(f, s)
          /\ s.queue \in Seq(NodeSet(f)) /\ s.done \in Seq(NodeSet(f)) /\ s.taken \subseteq 1..Len(f.edges)
      BY DEF SortStates, SortTypes
    <2>4. /\ n \in NodeSet(f) /\ Tail(s.queue) \in Seq(NodeSet(f))
          /\ Elements(s.queue) = {n} \cup Elements(Tail(s.queue))
          /\ Distinct(Tail(s.queue)) /\ n \notin Elements(Tail(s.queue))
      BY <1>1, <2>3, ElementsTail DEF SortInv
    <2>5. n \notin Elements(s.done)
      BY <2>3, <2>4 DEF SortInv
    <2>6. /\ Append(s.done, n) \in Seq(NodeSet(f)) /\ Distinct(Append(s.done, n))
          /\ Elements(Append(s.done, n)) = Elements(s.done) \cup {n}
      BY <2>3, <2>4, <2>5, ElementsAppend DEF SortInv
    <2> HIDE DEF q, n, t
    <2>7. taken \subseteq 1..Len(f.edges)
      BY <2>3 DEF Leaving
    <2>8. \A i \in Leaving(f, n) : i \notin s.taken
      BY <2>3, <2>5 DEF SortInv, Leaving
    <2>9. Elements(q) \subseteq NodeSet(f)
      BY <2>2, ElementsOf
    <2>10. \A m \in Elements(q) : m \notin Elements(s.done) /\ m \notin Elements(s.queue)
      BY <2>2, <2>3, <2>8, <2>9 DEF SortInv
    <2>11. /\ Tail(s.queue) \o q \in Seq(NodeSet(f)) /\ Distinct(Tail(s.queue) \o q)
           /\ Elements(Tail(s.queue) \o q) = Elements(Tail(s.queue)) \cup Elements(q)
      <3> DEFINE r == Tail(s.queue)
      <3>1. Elements(r) \cap Elements(q) = {} /\ r \in Seq(NodeSet(f)) /\ Distinct(r)
        BY <2>4, <2>10
      <3> HIDE DEF r
      <3>2. /\ r \o q \in Seq(NodeSet(f)) /\ Distinct(r \o q)
            /\ Elements(r \o q) = Elements(r) \cup Elements(q)
        BY <2>2, <3>1, ElementsConcat
      <3> QED
        BY <3>2 DEF r
    <2>12. t \in SortTypes(f)
      BY <2>1, <2>6, <2>7, <2>11 DEF SortTypes
    <2>13. /\ t.queue = Tail(s.queue) \o q /\ t.taken = taken /\ t.done = Append(s.done, n)
      BY <2>1
    <2>14. Elements(t.done) \cap Elements(t.queue) = {}
      BY <2>3, <2>4, <2>6, <2>10, <2>11, <2>13 DEF SortInv
    <2>15. ASSUME NEW i \in 1..Len(f.edges)
           PROVE  i \in t.taken <=> f.edges[i].kind # "reverse" /\ f.edges[i].from \in Elements(t.done)
      BY <2>3, <2>6, <2>13 DEF SortInv, Leaving
    <2>16. ASSUME NEW m \in NodeSet(f)
           PROVE  Entering(f, m) \subseteq t.taken <=> m \in Elements(t.done) \cup Elements(t.queue)
      <3>1. Entering(f, m) \subseteq s.taken <=> m \in Elements(s.done) \cup Elements(s.queue)
        BY <2>3 DEF SortInv
      <3>2. m \in Elements(t.done) \cup Elements(t.queue) <=>
                m \in Elements(s.done) \cup Elements(s.queue) \/ m \in Elements(q)
        BY <2>4, <2>6, <2>11, <2>13
      <3>3. m \in Elements(q) <=> Entering(f, m) \subseteq taken /\ Entering(f, m) \cap Leaving(f, n) # {}
        BY <2>2
      <3>4. Entering(f, m) \subseteq s.taken => Entering(f, m) \subseteq taken
        OBVIOUS
      <3>5. Entering(f, m) \subseteq taken /\ Entering(f, m) \cap Leaving(f, n) = {} =>
                Entering(f, m) \subseteq s.taken
        OBVIOUS
      <3> QED
        BY <2>13, <3>1, <3>2, <3>3, <3>4, <3>5
    <2>17. InputsBefore(f, t.done)
      <3>1. /\ Len(s.done) \in Nat /\ Len(t.done) = Len(s.done) + 1 /\ t.done[Len(s.done) + 1] = n
            /\ \A i \in 1..Len(s.done) : t.done[i] = s.done[i]
        BY <2>3, <2>4, <2>13
      <3> SUFFICES ASSUME NEW j \in 1..Len(t.done), NEW p \in Inputs(f, t.done[j])
                   PROVE  \E i \in 1..Len(t.done) : i < j /\ t.done[i] = p
        BY DEF InputsBefore
      <3>2. CASE j \in 1..Len(s.done)
        <4>1. PICK i \in 1..Len(s.done) : i < j /\ s.done[i] = p
          BY <2>3, <3>1, <3>2 DEF SortInv, InputsBefore
        <4>2. i \in 1..Len(t.done)
          BY <3>1
        <4> QED
          BY <3>1, <4>1, <4>2
      <3>3. CASE j = Len(s.done) + 1
        <4>1. p \in Inputs(f, n)
          BY <3>1, <3>3
        <4>2. PICK e \in Entering(f, n) : f.edges[e].from = p
          BY <4>1 DEF Inputs
        <4>3. Entering(f, n) \subseteq s.taken
          BY <2>3, <2>4 DEF SortInv
        <4>4. p \in Elements(s.done)
          BY <2>3, <4>2, <4>3 DEF SortInv
        <4>5. PICK i \in 1..Len(s.done) : s.done[i] = p
          BY <4>4 DEF Elements
        <4>6. i \in 1..Len(t.done) /\ i < j
          BY <3>1, <3>3
        <4> QED
          BY <3>1, <4>5, <4>6
      <3> QED
        BY <3>1, <3>2, <3>3
    <2>18. SortInv(f, t)
      BY <2>6, <2>11, <2>13, <2>14, <2>15, <2>16, <2>17 DEF SortInv
    <2> QED
      BY <1>1, <2>4, <2>5, <2>12, <2>13, <2>18 DEF SortStates, t, n
  <1> QED
    BY <1>0, <1>1

SortRounds(h, f) ==
    h = [k \in 0..Len(f.nodes) |-> IF k = 0 THEN SortStart(f) ELSE TakeNode(f, h[k - 1])]

LEMMA SortExists ==
    ASSUME NEW f, IsDrawing(f) PROVE \E h : SortRounds(h, f)
  <1> DEFINE V == SortStates(f)
             g == [s \in V |-> TakeNode(f, s)]
             n == Len(f.nodes)
             v == SortStart(f)
  <1>1. g \in [V -> V] /\ v \in V /\ n \in Nat
    BY TakeNodeKeeps, SortStarts, Drawn
  <1>2. \A s \in V : g[s] = TakeNode(f, s)
    OBVIOUS
  <1> HIDE DEF V, g, n, v
  <1>3. PICK h \in [0..n -> V] : RoundsOf(h, v, n, g)
    BY <1>1, Rounds
  <1>4. \A k \in 0..n : h[k] = IF k = 0 THEN v ELSE g[h[k - 1]]
    BY <1>3, Zenon DEF RoundsOf
  <1>5. ASSUME NEW k \in 0..n PROVE h[k] = IF k = 0 THEN v ELSE TakeNode(f, h[k - 1])
    <2>1. CASE k = 0
      BY <1>4, <2>1, Zenon
    <2>2. CASE k # 0
      <3>1. k - 1 \in 0..n
        BY <1>1, <2>2
      <3>2. h[k - 1] \in V
        BY <1>3, <3>1
      <3>3. h[k] = g[h[k - 1]]
        BY <1>4, <2>2, Zenon
      <3> QED
        BY <1>2, <2>2, <3>2, <3>3, Zenon
    <2> QED
      BY <2>1, <2>2
  <1>6. h = [k \in 0..n |-> IF k = 0 THEN v ELSE TakeNode(f, h[k - 1])]
    BY <1>3, <1>5, Zenon
  <1> QED
    BY <1>6 DEF SortRounds, n, v

\* The rounds of the sort, the last of which finds the queue empty.
LEMMA SortEnds ==
    ASSUME NEW f, IsDrawing(f)
    PROVE  \E s \in SortStates(f) : s.queue = <<>> /\ Sorted(f) = s.done
  <1> DEFINE h == CHOOSE x : SortRounds(x, f)
             n == Len(f.nodes)
             V == SortStates(f)
  <1>1. SortRounds(h, f)
    BY SortExists
  <1>2. Sorted(f) = h[n].done
    BY Zenon DEF Sorted, SortRounds, SortStart
  <1>3. n \in Nat
    BY Drawn
  <1>4. \A k \in 0..n : h[k] = IF k = 0 THEN SortStart(f) ELSE TakeNode(f, h[k - 1])
    BY <1>1, Zenon DEF SortRounds
  <1> HIDE DEF h, n
  <1>5. h[0] = SortStart(f) /\ \A k \in 1..n : h[k] = TakeNode(f, h[k - 1])
    <2>1. 0 \in 0..n /\ \A k \in 1..n : k \in 0..n /\ k # 0
      BY <1>3
    <2> QED
      BY <1>4, <2>1, Zenon
  <1> DEFINE P == {k \in 0..n : h[k] \in V}
  <1>6. P = 0..n
    <2> HIDE DEF V
    <2>1. 0 \in P
      BY <1>3, <1>5, SortStarts DEF V
    <2>2. ASSUME NEW k \in 1..n, k - 1 \in P PROVE k \in P
      <3>1. h[k] \in V
        BY <1>5, <2>2, TakeNodeKeeps DEF V
      <3> QED
        BY <1>3, <3>1
    <2>3. P \in SUBSET (0..n)
      OBVIOUS
    <2> HIDE DEF P
    <2> QED
      BY <1>3, <2>1, <2>2, <2>3, Upward
  <1>7. \A k \in 0..n : h[k] \in V
    BY <1>6
  <1> DEFINE M == [k \in 0..n |-> {i \in 1..n : f.nodes[i] \in Elements(h[k].done)}]
             E == {k \in 0..n : h[k].queue = <<>>}
  <1>8. ASSUME NEW k \in 1..n
        PROVE  /\ k - 1 \in E => k \in E
               /\ k - 1 \notin E => M[k - 1] \subseteq M[k] /\ M[k] # M[k - 1]
    <2>1. k - 1 \in 0..n /\ k \in 0..n /\ h[k - 1] \in V /\ h[k] = TakeNode(f, h[k - 1])
      BY <1>3, <1>5, <1>7
    <2>2. CASE h[k - 1].queue = <<>>
      <3>1. h[k] = h[k - 1]
        BY <2>1, <2>2, TakeNodeKeeps
      <3> QED
        BY <2>1, <2>2, <3>1
    <2>3. CASE h[k - 1].queue # <<>>
      <3> DEFINE m == Head(h[k - 1].queue)
      <3>1. h[k].done = Append(h[k - 1].done, m) /\ m \in NodeSet(f) \ Elements(h[k - 1].done)
        BY <2>1, <2>3, TakeNodeKeeps
      <3>2. h[k - 1].done \in Seq(NodeSet(f))
        BY <2>1 DEF SortStates, SortTypes
      <3> HIDE DEF m
      <3>3. Elements(h[k].done) = Elements(h[k - 1].done) \cup {m}
        BY <3>1, <3>2, ElementsAppend
      <3>4. PICK i \in 1..n : f.nodes[i] = m
        BY <3>1, NodeStands DEF n
      <3>5. i \in M[k] /\ i \notin M[k - 1]
        BY <2>1, <3>1, <3>3, <3>4
      <3>6. M[k - 1] \subseteq M[k]
        BY <2>1, <3>3
      <3> QED
        BY <2>1, <2>3, <3>5, <3>6
    <2> QED
      BY <2>2, <2>3
  <1>9. n \in E \/ M[n] = 1..n
    <2>1. M \in [0..n -> SUBSET (1..n)] /\ E \in SUBSET (0..n)
      OBVIOUS
    <2> HIDE DEF M, E
    <2> QED
      BY <1>3, <1>8, <2>1, LoopEnded
  <1>10. n \in 0..n /\ h[n] \in V
    BY <1>3, <1>7
  <1>11. ASSUME M[n] = 1..n PROVE h[n].queue = <<>>
    <2>1. NodeSet(f) \subseteq Elements(h[n].done)
      <3> SUFFICES ASSUME NEW m \in NodeSet(f) PROVE m \in Elements(h[n].done)
        OBVIOUS
      <3>1. PICK i \in 1..n : f.nodes[i] = m
        BY NodeStands DEF n
      <3> QED
        BY <1>10, <1>11, <3>1
    <2>2. h[n].queue \in Seq(NodeSet(f)) /\ Elements(h[n].done) \cap Elements(h[n].queue) = {}
      BY <1>10 DEF SortStates, SortTypes, SortInv
    <2>3. SUFFICES ASSUME h[n].queue # <<>> PROVE FALSE
      OBVIOUS
    <2>4. Head(h[n].queue) \in NodeSet(f) /\ Head(h[n].queue) \in Elements(h[n].queue)
      BY <2>2, <2>3, ElementsTail
    <2> QED
      BY <2>1, <2>2, <2>4
  <1> QED
    BY <1>2, <1>9, <1>10, <1>11

LEMMA SortedIs ==
    ASSUME NEW f, IsDrawing(f)
    PROVE  /\ Sorted(f) \in Seq(NodeSet(f)) /\ Distinct(Sorted(f)) /\ InputsBefore(f, Sorted(f))
           /\ \A n \in NodeSet(f) \ Elements(Sorted(f)) :
                  Inputs(f, n) \cap (NodeSet(f) \ Elements(Sorted(f))) # {}
  <1>1. PICK s \in SortStates(f) : s.queue = <<>> /\ Sorted(f) = s.done
    BY SortEnds
  <1>2. s.done \in Seq(NodeSet(f)) /\ SortInv(f, s) /\ Elements(s.queue) = {}
    BY <1>1, NoElements DEF SortStates, SortTypes
  <1>3. ASSUME NEW n \in NodeSet(f) \ Elements(s.done)
        PROVE  Inputs(f, n) \cap (NodeSet(f) \ Elements(s.done)) # {}
    <2>1. ~ (Entering(f, n) \subseteq s.taken)
      BY <1>2 DEF SortInv
    <2>2. PICK i \in Entering(f, n) : i \notin s.taken
      BY <2>1
    <2>3. i \in 1..Len(f.edges) /\ f.edges[i].kind # "reverse"
      BY DEF Entering
    <2>4. f.edges[i].from \notin Elements(s.done)
      BY <1>2, <2>2, <2>3 DEF SortInv
    <2>5. f.edges[i].from \in Inputs(f, n) /\ f.edges[i].from \in NodeSet(f)
      BY <2>3, Drawn DEF Inputs
    <2> QED
      BY <2>4, <2>5
  <1> QED
    BY <1>1, <1>2, <1>3 DEF SortInv

LEMMA Tangled ==
    ASSUME NEW f, NEW S \in SUBSET NodeSet(f), \A n \in S : Inputs(f, n) \cap S # {}
    PROVE  S \subseteq EntangledIn(f)
  BY DEF EntangledIn

\* What the sort has left out is on a cycle or behind one.
LEMMA PlanOfDrawing ==
    ASSUME NEW f, IsDrawing(f) PROVE PlanIsSound(Prepared(f))
  <1> DEFINE V == NodeSet(f)
             s == Sorted(f)
             rest == V \ Elements(s)
             t == NodesIn(f, rest)
             q == s \o t
             p == Prepared(f)
  <1>1. /\ s \in Seq(V) /\ Distinct(s) /\ InputsBefore(f, s)
        /\ \A n \in rest : Inputs(f, n) \cap rest # {}
    BY SortedIs
  <1>2. t \in Seq(V) /\ Elements(t) = rest /\ Distinct(t)
    BY NodesInAre
  <1>3. p.plan = q /\ NodeSet(p) = V /\ p.entangled = EntangledIn(f) /\ \A n : Inputs(p, n) = Inputs(f, n)
    BY DEF Prepared, BuildExecutionPlan, NodeSet, Inputs, Entering
  <1>4. rest \subseteq EntangledIn(f)
    BY <1>1, Tangled
  <1>5. Elements(s) \subseteq V /\ Elements(s) \cup rest = V /\ Elements(s) \cap rest = {}
    BY <1>1, ElementsOf
  <1> HIDE DEF V, s, t, p, rest
  <1>6. q \in Seq(V) /\ Elements(q) = V /\ Distinct(q)
    <2>1. Elements(s) \cap Elements(t) = {}
      BY <1>2, <1>5
    <2>2. /\ s \o t \in Seq(V) /\ Elements(s \o t) = Elements(s) \cup Elements(t)
          /\ Distinct(s \o t)
      BY <1>1, <1>2, <2>1, ElementsConcat
    <2> QED
      BY <1>2, <1>5, <2>2
  <1>7. /\ Len(s) \in Nat /\ Len(t) \in Nat /\ Len(q) = Len(s) + Len(t)
        /\ \A i \in 1..Len(s) : q[i] = s[i]
    BY <1>1, <1>2
  <1>8. \A i \in 1..Len(q) : q[i] \notin rest => i \in 1..Len(s)
    <2> SUFFICES ASSUME NEW i \in 1..Len(q), i \notin 1..Len(s) PROVE q[i] \in rest
      OBVIOUS
    <2>1. i - Len(s) \in 1..Len(t) /\ q[i] = t[i - Len(s)]
      BY <1>1, <1>2, <1>7
    <2>2. t[i - Len(s)] \in Elements(t)
      BY <2>1 DEF Elements
    <2> QED
      BY <1>2, <2>1, <2>2
  <1> HIDE DEF q
  <1>9. ASSUME NEW i \in 1..Len(q), NEW j \in 1..Len(q), q[i] \in Inputs(f, q[j]) \ EntangledIn(f)
        PROVE  i < j
    <2>1. i \in 1..Len(s) /\ q[i] = s[i]
      BY <1>4, <1>7, <1>8, <1>9
    <2>2. CASE j \in 1..Len(s)
      <3>1. q[j] = s[j]
        BY <1>7, <2>2
      <3>2. PICK k \in 1..Len(s) : k < j /\ s[k] = q[i]
        BY <1>1, <1>9, <2>2, <3>1 DEF InputsBefore
      <3>3. k = i
        BY <1>1, <2>1, <3>2 DEF Distinct
      <3> QED
        BY <3>2, <3>3
    <2>3. CASE j \notin 1..Len(s)
      BY <1>7, <2>1, <2>3
    <2> QED
      BY <2>2, <2>3
  <1>10. /\ q \in Seq(V) /\ V \subseteq Elements(q)
         /\ \A i, j \in 1..Len(q) : q[i] = q[j] => i = j
         /\ \A i, j \in 1..Len(q) : q[i] \in Inputs(p, q[j]) \ p.entangled => i < j
    BY <1>3, <1>6, <1>9 DEF Distinct
  <1> QED
    BY <1>3, <1>10, Zenon DEF PlanIsSound, p

-----------------------------------------------------------------------------
(* The walk along the edges of a drawing                                    *)

\* Every node of C has an input and an output in C.
Circling(f, C) == \A n \in C : Inputs(f, n) \cap C # {} /\ \E m \in C : n \in Inputs(f, m)

\* A cycle, or several that were merged.
IsMesh(f, c) ==
    c \in Seq(NodeSet(f)) /\ Distinct(c) /\ Elements(c) # {} /\ Circling(f, Elements(c))

PathRuns(f, q) == \A i, j \in 1..Len(q) : j = i + 1 => q[i] \in Inputs(f, q[j])

Visits(s) == Elements(s.path) \cup Elements(s.order)

\* The edge i has a node on a cycle, or leads to a node that was left, or to the next of the path.
Spared(f, s, i) ==
    \/ f.edges[i].from \in AllOf(s.cycles) \/ f.edges[i].to \in AllOf(s.cycles)
    \/ f.edges[i].to \in Elements(s.order)
    \/ \E k, l \in 1..Len(s.path) :
           l = k + 1 /\ s.path[k] = f.edges[i].from /\ s.path[l] = f.edges[i].to

\* Outside the cycles, the nodes of the order stand before what they lead to.
OrderRuns(f, s) ==
    \A i \in 1..Len(s.order) : \A n \in NodeSet(f) :
        s.order[i] \in Inputs(f, n) =>
            \/ s.order[i] \in AllOf(s.cycles) \/ n \in AllOf(s.cycles)
            \/ \E j \in 1..Len(s.order) : i < j /\ s.order[j] = n

WalkInv(f, s) ==
    /\ Distinct(s.path) /\ Distinct(s.order) /\ Elements(s.path) \cap Elements(s.order) = {}
    /\ PathRuns(f, s.path)
    /\ \A i \in s.seen : Spared(f, s, i)
    /\ OrderRuns(f, s)
    /\ \A i \in 1..Len(s.cycles) : IsMesh(f, s.cycles[i])

WalkTypes(f) ==
    [path : Seq(NodeSet(f)), seen : SUBSET (1..Len(f.edges)), order : Seq(NodeSet(f)),
     cycles : Seq(Seq(NodeSet(f)))]
WalkStates(f) == {s \in WalkTypes(f) : WalkInv(f, s)}

\* What a round adds to.
WalkGrows(s, t) ==
    /\ s.seen \subseteq t.seen /\ Visits(s) \subseteq Visits(t) /\ Elements(s.order) \subseteq Elements(t.order)
    /\ s.seen # t.seen \/ Visits(s) # Visits(t) \/ Elements(s.order) # Elements(t.order)

WalkStart == [path |-> <<>>, seen |-> {}, order |-> <<>>, cycles |-> <<>>]

LEMMA WalkStarts ==
    ASSUME NEW f, IsDrawing(f) PROVE WalkStart \in WalkStates(f)
  <1>1. WalkStart \in WalkTypes(f)
    BY DEF WalkStart, WalkTypes
  <1>2. Elements(<<>>) = {} /\ Distinct(<<>>) /\ Len(<<>>) = 0
    BY NoElements
  <1>3. WalkInv(f, WalkStart)
    <2>1. /\ WalkStart.path = <<>> /\ WalkStart.seen = {} /\ WalkStart.order = <<>>
          /\ WalkStart.cycles = <<>>
      BY DEF WalkStart
    <2> QED
      BY <1>2, <2>1 DEF WalkInv, PathRuns, OrderRuns
  <1> QED
    BY <1>1, <1>3 DEF WalkStates

LEMMA WalkHas ==
    ASSUME NEW f, NEW s \in WalkStates(f)
    PROVE  /\ s \in WalkTypes(f) /\ WalkInv(f, s)
           /\ s.path \in Seq(NodeSet(f)) /\ s.order \in Seq(NodeSet(f))
           /\ s.seen \subseteq 1..Len(f.edges) /\ s.cycles \in Seq(Seq(NodeSet(f)))
  BY DEF WalkStates, WalkTypes

LEMMA EnterKeeps ==
    ASSUME NEW f, IsDrawing(f), NEW s \in WalkStates(f), s.path = <<>>,
           ~ (NodeSet(f) \subseteq Elements(s.order))
    PROVE  EnterRoot(f, s) \in WalkStates(f) /\ WalkGrows(s, EnterRoot(f, s))
  <1> DEFINE U == {i \in 1..Len(f.nodes) : f.nodes[i] \notin Elements(s.order)}
             r == f.nodes[Min(U)]
             q == <<r>>
             t == EnterRoot(f, s)
  <1>1. U \in SUBSET Nat /\ U # {}
    <2>1. PICK n \in NodeSet(f) : n \notin Elements(s.order)
      OBVIOUS
    <2>2. PICK i \in 1..Len(f.nodes) : f.nodes[i] = n
      BY NodeStands
    <2> QED
      BY <2>1, <2>2, Drawn
  <1>2. Min(U) \in U
    <2> HIDE DEF U
    <2> QED
      BY <1>1, MinIs
  <1>3. r \in NodeSet(f) /\ r \notin Elements(s.order)
    <2> HIDE DEF r
    <2>1. Min(U) \in 1..Len(f.nodes) /\ r = f.nodes[Min(U)] /\ f.nodes[Min(U)] \notin Elements(s.order)
      BY <1>2 DEF r
    <2> QED
      BY <2>1 DEF NodeSet, Elements
  <1>4. t = [s EXCEPT !.path = q]
    BY <1>1, Zenon DEF EnterRoot
  <1> HIDE DEF r, U
  <1>5. /\ q \in Seq(NodeSet(f)) /\ Elements(q) = {r} /\ Distinct(q) /\ Len(q) = 1
    BY <1>3, OneElement
  <1>6. /\ t \in WalkTypes(f) /\ t.path = q /\ t.seen = s.seen /\ t.order = s.order /\ t.cycles = s.cycles
    <2> HIDE DEF q, t
    <2> QED
      BY <1>4, <1>5, WalkHas DEF WalkTypes
  <1>7. WalkInv(f, s) /\ Elements(s.path) = {}
    BY WalkHas, NoElements
  <1> HIDE DEF q, t
  <1>8. PathRuns(f, t.path)
    <2>1. \A i, j \in 1..1 : j # i + 1
      OBVIOUS
    <2> QED
      BY <1>5, <1>6, <2>1 DEF PathRuns
  <1>9. \A i \in t.seen : Spared(f, t, i)
    <2> SUFFICES ASSUME NEW i \in s.seen PROVE Spared(f, t, i)
      BY <1>6
    <2>1. Spared(f, s, i)
      BY <1>7 DEF WalkInv
    <2>2. ~ \E k, l \in 1..Len(s.path) :
              l = k + 1 /\ s.path[k] = f.edges[i].from /\ s.path[l] = f.edges[i].to
      OBVIOUS
    <2> QED
      BY <1>6, <2>1, <2>2 DEF Spared
  <1>10. OrderRuns(f, t) /\ \A i \in 1..Len(t.cycles) : IsMesh(f, t.cycles[i])
    BY <1>6, <1>7 DEF WalkInv, OrderRuns
  <1>11. WalkInv(f, t)
    BY <1>3, <1>5, <1>6, <1>7, <1>8, <1>9, <1>10 DEF WalkInv
  <1>12. WalkGrows(s, t)
    BY <1>3, <1>5, <1>6, <1>7 DEF WalkGrows, Visits
  <1> QED
    BY <1>6, <1>11, <1>12 DEF WalkStates, t

LEMMA ElementsFront ==
    ASSUME NEW S, NEW q \in Seq(S), q # <<>>
    PROVE  /\ SubSeq(q, 1, Len(q) - 1) \in Seq(S) /\ Len(SubSeq(q, 1, Len(q) - 1)) = Len(q) - 1
           /\ Len(q) \in Nat \ {0} /\ q[Len(q)] \in S
           /\ \A i \in 1..(Len(q) - 1) : SubSeq(q, 1, Len(q) - 1)[i] = q[i]
           /\ Elements(q) = Elements(SubSeq(q, 1, Len(q) - 1)) \cup {q[Len(q)]}
           /\ Distinct(q) => /\ Distinct(SubSeq(q, 1, Len(q) - 1))
                             /\ q[Len(q)] \notin Elements(SubSeq(q, 1, Len(q) - 1))
  <1> DEFINE r == SubSeq(q, 1, Len(q) - 1)
  <1>1. Len(q) \in Nat \ {0} /\ q[Len(q)] \in S
    OBVIOUS
  <1>2. r \in Seq(S) /\ Len(r) = Len(q) - 1 /\ \A i \in 1..(Len(q) - 1) : r[i] = q[i]
    <2> DEFINE n == Len(q)
    <2>1. n \in 1..Len(q) /\ r = SubSeq(q, 1, n - 1)
      BY <1>1
    <2> HIDE DEF n, r
    <2>2. r \in Seq(S) /\ Len(r) = n - 1
      BY <2>1
    <2>3. \A i \in 1..(n - 1) : r[i] = q[i]
      BY <2>1
    <2> QED
      BY <2>2, <2>3 DEF n
  <1> HIDE DEF r
  <1>3. \A i \in 1..Len(q) : i \in 1..Len(r) \/ i = Len(q)
    BY <1>1, <1>2
  <1>4. \A i \in 1..Len(r) : i \in 1..Len(q) /\ r[i] = q[i] /\ i # Len(q)
    BY <1>1, <1>2
  <1>5. Elements(q) = Elements(r) \cup {q[Len(q)]}
    <2>1. Len(q) \in 1..Len(q)
      BY <1>1
    <2>2. \A x : x \in Elements(q) <=> \E i \in 1..Len(q) : q[i] = x
      BY DEF Elements
    <2>3. \A x : x \in Elements(r) <=> \E i \in 1..Len(r) : r[i] = x
      BY DEF Elements
    <2>4. \A x \in Elements(q) : x \in Elements(r) \/ x = q[Len(q)]
      BY <1>3, <1>4, <2>2, <2>3
    <2>5. \A x \in Elements(r) : x \in Elements(q)
      BY <1>4, <2>2, <2>3
    <2> QED
      BY <2>1, <2>2, <2>4, <2>5
  <1>6. ASSUME Distinct(q) PROVE Distinct(r) /\ q[Len(q)] \notin Elements(r)
    <2>1. Distinct(r)
      BY <1>4, <1>6 DEF Distinct
    <2>2. Len(q) \in 1..Len(q)
      BY <1>1
    <2>3. q[Len(q)] \notin Elements(r)
      BY <1>4, <1>6, <2>2 DEF Distinct, Elements
    <2> QED
      BY <2>1, <2>3
  <1> QED
    BY <1>1, <1>2, <1>5, <1>6 DEF r

\* q is t followed by s.
Joined(q, t, s) ==
    /\ Len(t) \in Nat /\ Len(s) \in Nat /\ Len(q) = Len(t) + Len(s)
    /\ \A i \in 1..Len(t) : q[i] = t[i]
    /\ \A i \in 1..Len(s) : q[Len(t) + i] = s[i]

LEMMA JoinPlaces ==
    ASSUME NEW S, NEW t \in Seq(S), NEW s \in Seq(S)
    PROVE  Joined(t \o s, t, s)
  BY DEF Joined

LEMMA FrontPlaces ==
    ASSUME NEW S, NEW t \in Seq(S), Len(t) = 1, NEW s \in Seq(S)
    PROVE  /\ Len(s) \in Nat /\ Len(t \o s) = Len(s) + 1 /\ (t \o s)[1] = t[1]
           /\ \A i \in 1..Len(s) : (t \o s)[i + 1] = s[i]
  <1> DEFINE q == t \o s
  <1>1. Joined(q, t, s)
    BY JoinPlaces
  <1> HIDE DEF q
  <1>2. 1 \in 1..Len(t) /\ \A i \in 1..Len(s) : Len(t) + i = i + 1
    BY <1>1 DEF Joined
  <1>3. \A i \in 1..Len(s) : q[i + 1] = s[i]
    BY <1>1, <1>2, Zenon DEF Joined
  <1>4. Len(q) = Len(s) + 1 /\ q[1] = t[1]
    BY <1>1 DEF Joined
  <1> QED
    BY <1>1, <1>3, <1>4 DEF q, Joined

LEMMA FrontedPlaces ==
    ASSUME NEW S, NEW x \in S, NEW s \in Seq(S)
    PROVE  /\ Len(s) \in Nat /\ Len(<<x>> \o s) = Len(s) + 1 /\ (<<x>> \o s)[1] = x
           /\ \A i \in 1..Len(s) : (<<x>> \o s)[i + 1] = s[i]
  <1>1. ASSUME NEW t \in Seq(S), Len(t) = 1, t[1] = x
        PROVE  /\ Len(s) \in Nat /\ Len(t \o s) = Len(s) + 1 /\ (t \o s)[1] = x
               /\ \A i \in 1..Len(s) : (t \o s)[i + 1] = s[i]
    BY <1>1, FrontPlaces
  <1>2. <<x>> \in Seq(S) /\ Len(<<x>>) = 1 /\ <<x>>[1] = x
    OBVIOUS
  <1> QED
    BY <1>1, <1>2, Zenon

LEMMA LeaveKeeps ==
    ASSUME NEW f, IsDrawing(f), NEW s \in WalkStates(f), s.path # <<>>,
           Leaving(f, s.path[Len(s.path)]) \subseteq s.seen
    PROVE  LeaveNode(s) \in WalkStates(f) /\ WalkGrows(s, LeaveNode(s))
  <1> DEFINE V == NodeSet(f)
             p == s.path
             o == s.order
             last == p[Len(p)]
             q == SubSeq(p, 1, Len(p) - 1)
             one == <<last>>
             r == one \o o
             t == LeaveNode(s)
  <1>1. s \in WalkTypes(f) /\ WalkInv(f, s) /\ p \in Seq(V) /\ o \in Seq(V)
    BY WalkHas
  <1>2. /\ Distinct(p) /\ Distinct(o) /\ Elements(p) \cap Elements(o) = {}
    BY <1>1 DEF WalkInv
  <1>3. t = [s EXCEPT !.path = q, !.order = r]
    BY DEF LeaveNode
  <1>4. /\ q \in Seq(V) /\ Len(q) = Len(p) - 1 /\ Len(p) \in Nat \ {0} /\ last \in V
        /\ \A i \in 1..(Len(p) - 1) : q[i] = p[i]
        /\ Elements(p) = Elements(q) \cup {last}
        /\ Distinct(q) /\ last \notin Elements(q)
    <2> HIDE DEF V, p, o
    <2>1. p # <<>>
      BY DEF p
    <2> QED
      BY <1>1, <1>2, <2>1, ElementsFront
  <1>5. one \in Seq(V) /\ Elements(one) = {last} /\ Distinct(one) /\ Len(one) = 1 /\ one[1] = last
    <2> HIDE DEF V, last
    <2> QED
      BY <1>4, OneElement
  <1>6. last \notin Elements(o)
    BY <1>2, <1>4
  <1> HIDE DEF V, p, o, last, q, one, t
  <1>7. r \in Seq(V) /\ Elements(r) = {last} \cup Elements(o) /\ Distinct(r)
    <2>1. Elements(one) \cap Elements(o) = {}
      BY <1>5, <1>6
    <2>2. one \o o \in Seq(V) /\ Elements(one \o o) = Elements(one) \cup Elements(o) /\ Distinct(one \o o)
      BY <1>1, <1>2, <1>5, <2>1, ElementsConcat
    <2> QED
      BY <1>5, <2>2
  <1>8. /\ Len(o) \in Nat /\ Len(r) = Len(o) + 1 /\ r[1] = last
        /\ \A i \in 1..Len(o) : r[i + 1] = o[i]
    <2>1. last \in V /\ o \in Seq(V)
      BY <1>1, <1>4
    <2> QED
      BY <2>1, FrontedPlaces DEF r, one
  <1> HIDE DEF r
  <1>9. /\ t \in WalkTypes(f) /\ t.path = q /\ t.seen = s.seen /\ t.order = r /\ t.cycles = s.cycles
    <2>1. s \in WalkTypes(f) /\ q \in Seq(NodeSet(f)) /\ r \in Seq(NodeSet(f))
      BY <1>1, <1>4, <1>7 DEF V
    <2> QED
      BY <1>3, <2>1 DEF WalkTypes
  <1>10. Elements(q) \cap Elements(r) = {}
    BY <1>2, <1>4, <1>7
  <1>11. PathRuns(f, q)
    <2> SUFFICES ASSUME NEW i \in 1..Len(q), NEW j \in 1..Len(q), j = i + 1
                 PROVE  q[i] \in Inputs(f, q[j])
      BY DEF PathRuns
    <2>1. i \in 1..Len(p) /\ j \in 1..Len(p) /\ q[i] = p[i] /\ q[j] = p[j]
      BY <1>4
    <2> QED
      BY <1>1, <2>1 DEF WalkInv, PathRuns, p
  <1>12. ASSUME NEW i \in s.seen PROVE Spared(f, t, i)
    <2>1. Spared(f, s, i)
      BY <1>1 DEF WalkInv
    <2>2. CASE \E k, l \in 1..Len(p) : l = k + 1 /\ p[k] = f.edges[i].from /\ p[l] = f.edges[i].to
      <3>1. PICK k \in 1..Len(p), l \in 1..Len(p) :
                 l = k + 1 /\ p[k] = f.edges[i].from /\ p[l] = f.edges[i].to
        BY <2>2
      <3>2. CASE l = Len(p)
        <4>1. f.edges[i].to = last
          BY <3>1, <3>2 DEF last
        <4> QED
          BY <1>7, <1>9, <4>1 DEF Spared
      <3>3. CASE l # Len(p)
        <4>1. k \in 1..Len(q) /\ l \in 1..Len(q) /\ q[k] = p[k] /\ q[l] = p[l]
          BY <1>4, <3>1, <3>3
        <4> QED
          BY <1>9, <3>1, <4>1 DEF Spared
      <3> QED
        BY <3>2, <3>3
    <2>3. CASE f.edges[i].to \in Elements(o)
      BY <1>7, <1>9, <2>3 DEF Spared
    <2>4. CASE f.edges[i].from \in AllOf(s.cycles) \/ f.edges[i].to \in AllOf(s.cycles)
      BY <1>9, <2>4 DEF Spared
    <2> QED
      BY <2>1, <2>2, <2>3, <2>4 DEF Spared, p, o
  <1>13. ASSUME NEW n \in NodeSet(f), last \in Inputs(f, n)
         PROVE  last \in AllOf(s.cycles) \/ n \in AllOf(s.cycles) \/ n \in Elements(o)
    <2>1. PICK i \in Entering(f, n) : f.edges[i].from = last
      BY <1>13 DEF Inputs
    <2>2. i \in Leaving(f, last) /\ f.edges[i].to = n
      BY <2>1 DEF Entering, Leaving
    <2>3. i \in s.seen
      BY <2>2 DEF last, p
    <2>4. Spared(f, s, i)
      BY <1>1, <2>3 DEF WalkInv
    <2>5. ASSUME NEW k \in 1..Len(p), NEW l \in 1..Len(p), l = k + 1, p[k] = last
          PROVE  FALSE
      <3>1. k = Len(p)
        <4>1. Len(p) \in 1..Len(p) /\ p[Len(p)] = last
          BY <1>4 DEF last
        <4> QED
          BY <1>2, <2>5, <4>1 DEF Distinct
      <3> QED
        BY <1>4, <2>5, <3>1
    <2> QED
      BY <2>1, <2>2, <2>4, <2>5 DEF Spared, p, o
  <1>14. OrderRuns(f, t)
    <2> SUFFICES ASSUME NEW i \in 1..Len(r), NEW n \in NodeSet(f), r[i] \in Inputs(f, n),
                        r[i] \notin AllOf(s.cycles), n \notin AllOf(s.cycles)
                 PROVE  \E j \in 1..Len(r) : i < j /\ r[j] = n
      BY <1>9 DEF OrderRuns
    <2>1. CASE i = 1
      <3>1. n \in Elements(o)
        BY <1>8, <1>13, <2>1
      <3>2. PICK j \in 1..Len(o) : o[j] = n
        BY <3>1 DEF Elements
      <3>3. j + 1 \in 1..Len(r) /\ i < j + 1 /\ r[j + 1] = n
        BY <1>8, <2>1, <3>2
      <3> QED
        BY <3>3
    <2>2. CASE i # 1
      <3>1. i - 1 \in 1..Len(o) /\ r[i] = o[i - 1]
        <4>1. i - 1 \in 1..Len(o) /\ (i - 1) + 1 = i
          BY <1>8, <2>2
        <4> QED
          BY <1>8, <4>1
      <3>2. PICK j \in 1..Len(o) : i - 1 < j /\ o[j] = n
        BY <1>1, <3>1 DEF WalkInv, OrderRuns, o
      <3>3. j + 1 \in 1..Len(r) /\ i < j + 1 /\ r[j + 1] = n
        BY <1>8, <3>1, <3>2
      <3> QED
        BY <3>3
    <2> QED
      BY <2>1, <2>2
  <1>15. WalkInv(f, t)
    BY <1>1, <1>4, <1>7, <1>9, <1>10, <1>11, <1>12, <1>14 DEF WalkInv
  <1>16. WalkGrows(s, t)
    <2>1. Elements(s.order) = Elements(o) /\ Elements(s.path) = Elements(p)
      BY DEF o, p
    <2>2. Elements(t.order) = {last} \cup Elements(o) /\ Elements(t.path) = Elements(q)
      BY <1>7, <1>9
    <2> QED
      BY <1>4, <1>6, <1>9, <2>1, <2>2 DEF WalkGrows, Visits
  <1> QED
    BY <1>9, <1>15, <1>16 DEF WalkStates, t

\* The path from one of its nodes on.
LEMMA LoopAtIs ==
    ASSUME NEW V, NEW p \in Seq(V), Distinct(p), NEW a \in 1..Len(p)
    PROVE  /\ LoopAt(p, p[a]) \in Seq(V) /\ Distinct(LoopAt(p, p[a]))
           /\ ChosenOf(LoopAt(p, p[a]), p, a..Len(p))
  <1> DEFINE I == {i \in 1..Len(p) : \E j \in 1..i : p[j] = p[a]}
             c == LoopAt(p, p[a])
  <1>1. Len(p) \in Nat
    OBVIOUS
  <1>2. I = a..Len(p)
    <2>1. ASSUME NEW i \in I PROVE i \in a..Len(p)
      <3>1. PICK j \in 1..i : p[j] = p[a]
        OBVIOUS
      <3>2. i \in 1..Len(p) /\ j \in 1..Len(p)
        BY <1>1
      <3>3. j = a
        BY <3>1, <3>2 DEF Distinct
      <3> QED
        BY <1>1, <3>1, <3>2, <3>3
    <2>2. ASSUME NEW i \in a..Len(p) PROVE i \in I
      <3>1. i \in 1..Len(p) /\ a \in 1..i
        BY <1>1
      <3> QED
        BY <3>1
    <2> QED
      BY <2>1, <2>2
  <1>3. c = Keep(p, I)
    BY DEF LoopAt
  <1> HIDE DEF I, c
  <1>4. I \subseteq 1..Len(p)
    BY <1>1, <1>2
  <1>5. \A i, j \in I : p[i] = p[j] => i = j
    BY <1>4 DEF Distinct
  <1>6. c \in Seq(V) /\ Distinct(c) /\ ChosenOf(c, p, I)
    BY <1>3, <1>4, <1>5, ElementsKeep
  <1> QED
    BY <1>2, <1>6 DEF c

\* A node of the path that the last one leads to closes a cycle.
LEMMA LoopCloses ==
    ASSUME NEW f, NEW p \in Seq(NodeSet(f)), Distinct(p), PathRuns(f, p),
           NEW a \in 1..Len(p), p[Len(p)] \in Inputs(f, p[a])
    PROVE  IsMesh(f, LoopAt(p, p[a])) /\ p[a] \in Elements(LoopAt(p, p[a]))
  <1> DEFINE V == NodeSet(f)
             c == LoopAt(p, p[a])
             C == Elements(c)
             N == Len(p)
  <1>1. N \in Nat /\ a \in 1..N /\ N \in a..N /\ a \in a..N
    OBVIOUS
  <1>2. c \in Seq(V) /\ Distinct(c) /\ ChosenOf(c, p, a..N)
    BY LoopAtIs
  <1> HIDE DEF c, N
  <1>3. /\ \A n \in C : \E i \in a..N : p[i] = n
        /\ \A i \in a..N : p[i] \in C
    BY <1>2 DEF ChosenOf
  <1> HIDE DEF C
  <1>4. ASSUME NEW n \in C PROVE Inputs(f, n) \cap C # {}
    <2>1. PICK i \in a..N : p[i] = n
      BY <1>3
    <2>2. CASE i = a
      BY <1>1, <1>3, <2>1, <2>2 DEF N
    <2>3. CASE i # a
      <3>1. i - 1 \in a..N /\ i - 1 \in 1..N /\ i \in 1..N /\ i = (i - 1) + 1
        BY <1>1, <2>3
      <3>2. p[i - 1] \in Inputs(f, n)
        BY <2>1, <3>1 DEF PathRuns, N
      <3> QED
        BY <1>3, <3>1, <3>2
    <2> QED
      BY <2>2, <2>3
  <1>5. ASSUME NEW n \in C PROVE \E m \in C : n \in Inputs(f, m)
    <2>1. PICK i \in a..N : p[i] = n
      BY <1>3
    <2>2. CASE i = N
      BY <1>1, <1>3, <2>1, <2>2 DEF N
    <2>3. CASE i # N
      <3>1. i + 1 \in a..N /\ i + 1 \in 1..N /\ i \in 1..N
        BY <1>1, <2>3
      <3>2. n \in Inputs(f, p[i + 1])
        BY <2>1, <3>1 DEF PathRuns, N
      <3> QED
        BY <1>3, <3>1, <3>2
    <2> QED
      BY <2>2, <2>3
  <1>6. p[a] \in C
    BY <1>1, <1>3
  <1>7. Circling(f, C)
    BY <1>4, <1>5 DEF Circling
  <1> QED
    BY <1>2, <1>6, <1>7 DEF IsMesh, V, C, c

\* q is s with x added.
Appended(q, s, x) ==
    /\ Len(s) \in Nat /\ Len(q) = Len(s) + 1 /\ q[Len(s) + 1] = x
    /\ \A i \in 1..Len(s) : q[i] = s[i]

LEMMA AppendPlaces ==
    ASSUME NEW S, NEW s \in Seq(S), NEW x \in S PROVE Appended(Append(s, x), s, x)
  BY DEF Appended

LEMMA AllOfAppend ==
    ASSUME NEW S, NEW cs \in Seq(Seq(S)), NEW c \in Seq(S)
    PROVE  /\ Append(cs, c) \in Seq(Seq(S)) /\ AllOf(Append(cs, c)) = AllOf(cs) \cup Elements(c)
           /\ Appended(Append(cs, c), cs, c)
  <1> DEFINE q == Append(cs, c)
             T == Seq(S)
  <1>0. cs \in Seq(T) /\ c \in T
    OBVIOUS
  <1>1. q \in Seq(T) /\ Appended(q, cs, c)
    <2> HIDE DEF T
    <2> QED
      BY <1>0, AppendPlaces
  <1> HIDE DEF q
  <1>2. AllOf(cs) \subseteq AllOf(q)
    <2> SUFFICES ASSUME NEW i \in 1..Len(cs) PROVE Elements(cs[i]) \subseteq AllOf(q)
      BY DEF AllOf
    <2>1. i \in 1..Len(q) /\ q[i] = cs[i]
      BY <1>1 DEF Appended
    <2> QED
      BY <2>1 DEF AllOf
  <1>3. Elements(c) \subseteq AllOf(q)
    <2>1. Len(cs) + 1 \in 1..Len(q) /\ q[Len(cs) + 1] = c
      BY <1>1 DEF Appended
    <2> QED
      BY <2>1 DEF AllOf
  <1>4. AllOf(q) \subseteq AllOf(cs) \cup Elements(c)
    <2> SUFFICES ASSUME NEW i \in 1..Len(q) PROVE Elements(q[i]) \subseteq AllOf(cs) \cup Elements(c)
      BY DEF AllOf
    <2>1. CASE i \in 1..Len(cs)
      <3>1. q[i] = cs[i]
        BY <1>1, <2>1 DEF Appended
      <3> QED
        BY <2>1, <3>1 DEF AllOf
    <2>2. CASE i = Len(cs) + 1
      BY <1>1, <2>2 DEF Appended
    <2> QED
      BY <1>1, <2>1, <2>2 DEF Appended
  <1> QED
    BY <1>1, <1>2, <1>3, <1>4 DEF q

\* The path goes on to a child that was not visited.
LEMMA PathFollows ==
    ASSUME NEW f, NEW p \in Seq(NodeSet(f)), NEW o \in Seq(NodeSet(f)), NEW child \in NodeSet(f),
           Distinct(p), Elements(p) \cap Elements(o) = {}, PathRuns(f, p),
           p # <<>>, p[Len(p)] \in Inputs(f, child), child \notin Elements(p) \cup Elements(o)
    PROVE  /\ Append(p, child) \in Seq(NodeSet(f)) /\ Distinct(Append(p, child))
           /\ Elements(Append(p, child)) \cap Elements(o) = {} /\ PathRuns(f, Append(p, child))
           /\ Appended(Append(p, child), p, child)
           /\ Elements(Append(p, child)) = Elements(p) \cup {child}
  <1> DEFINE V == NodeSet(f)
             q == Append(p, child)
  <1>1. /\ q \in Seq(V) /\ Elements(q) = Elements(p) \cup {child} /\ Distinct(q)
        /\ Appended(q, p, child)
    <2>1. p \in Seq(V) /\ child \in V
      OBVIOUS
    <2> HIDE DEF V
    <2> QED
      BY <2>1, ElementsAppend, AppendPlaces
  <1> HIDE DEF q
  <1>2. Elements(q) \cap Elements(o) = {}
    BY <1>1
  <1>3. PathRuns(f, q)
    <2> SUFFICES ASSUME NEW i \in 1..Len(q), NEW j \in 1..Len(q), j = i + 1
                 PROVE  q[i] \in Inputs(f, q[j])
      BY DEF PathRuns
    <2>1. i \in 1..Len(p) /\ q[i] = p[i]
      BY <1>1 DEF Appended
    <2>2. CASE j \in 1..Len(p)
      <3>1. q[j] = p[j]
        BY <1>1, <2>2 DEF Appended
      <3> QED
        BY <2>1, <2>2, <3>1 DEF PathRuns
    <2>3. CASE j \notin 1..Len(p)
      <3>1. i = Len(p) /\ j = Len(p) + 1
        BY <1>1, <2>1, <2>3 DEF Appended
      <3>2. q[j] = child
        BY <1>1, <3>1 DEF Appended
      <3> QED
        BY <2>1, <3>1, <3>2
    <2> QED
      BY <2>2, <2>3
  <1> QED
    BY <1>1, <1>2, <1>3 DEF q

LEMMA FollowKeeps ==
    ASSUME NEW f, IsDrawing(f), NEW s \in WalkStates(f), s.path # <<>>,
           NEW i \in Leaving(f, s.path[Len(s.path)]) \ s.seen
    PROVE  FollowEdge(f, s, i) \in WalkStates(f) /\ WalkGrows(s, FollowEdge(f, s, i))
  <1> DEFINE V == NodeSet(f)
             p == s.path
             o == s.order
             cs == s.cycles
             last == p[Len(p)]
             child == f.edges[i].to
             P == IF child \in Elements(p) \cup Elements(o) THEN p ELSE Append(p, child)
             C == IF child \in Elements(p) THEN Append(cs, LoopAt(p, child)) ELSE cs
             seen == s.seen \cup {i}
             t == FollowEdge(f, s, i)
  <1>1. /\ s \in WalkTypes(f) /\ WalkInv(f, s) /\ p \in Seq(V) /\ o \in Seq(V) /\ cs \in Seq(Seq(V))
        /\ s.seen \subseteq 1..Len(f.edges)
    BY WalkHas
  <1>2. /\ Distinct(p) /\ Distinct(o) /\ Elements(p) \cap Elements(o) = {} /\ PathRuns(f, p)
        /\ OrderRuns(f, s) /\ \A k \in 1..Len(cs) : IsMesh(f, cs[k])
    BY <1>1 DEF WalkInv
  <1>3. t = [s EXCEPT !.seen = seen, !.path = P, !.cycles = C]
    BY Zenon DEF FollowEdge
  <1>4. /\ i \in 1..Len(f.edges) /\ f.edges[i].from = last /\ child \in V /\ last \in Inputs(f, child)
    BY Drawn DEF Leaving, Entering, Inputs
  <1>5. p # <<>>
    OBVIOUS
  <1>6. seen \subseteq 1..Len(f.edges) /\ i \notin s.seen /\ i \in seen /\ s.seen \subseteq seen
    BY <1>1, <1>4
  <1> HIDE DEF V, p, o, cs, last, child, seen, t
  <1>7. /\ P \in Seq(V) /\ Distinct(P) /\ Elements(P) \cap Elements(o) = {} /\ PathRuns(f, P)
        /\ \A k \in 1..Len(p) : k \in 1..Len(P) /\ P[k] = p[k]
        /\ Elements(p) \subseteq Elements(P)
        /\ \/ child \in Elements(p) \cup Elements(o)
           \/ \E k, l \in 1..Len(P) : l = k + 1 /\ P[k] = last /\ P[l] = child
    <2>1. CASE child \in Elements(p) \cup Elements(o)
      <3>1. P = p
        BY <2>1 DEF P
      <3> QED
        BY <1>1, <1>2, <2>1, <3>1
    <2>2. CASE child \notin Elements(p) \cup Elements(o)
      <3>1. P = Append(p, child)
        BY <2>2 DEF P
      <3>2. /\ P \in Seq(V) /\ Distinct(P) /\ Elements(P) \cap Elements(o) = {} /\ PathRuns(f, P)
            /\ Appended(P, p, child) /\ Elements(P) = Elements(p) \cup {child}
        <4>1. /\ p \in Seq(NodeSet(f)) /\ o \in Seq(NodeSet(f)) /\ child \in NodeSet(f)
              /\ p[Len(p)] \in Inputs(f, child)
          BY <1>1, <1>4 DEF V, last
        <4> QED
          BY <1>2, <1>5, <2>2, <3>1, <4>1, PathFollows DEF V
      <3> HIDE DEF P
      <3>3. Len(p) \in 1..Len(p)
        <4>1. Len(p) # 0 /\ Len(p) \in Nat
          BY <1>1, <1>5
        <4> QED
          BY <4>1
      <3>4. Len(p) \in 1..Len(P) /\ Len(p) + 1 \in 1..Len(P) /\ P[Len(p)] = last /\ P[Len(p) + 1] = child
        BY <3>2, <3>3 DEF Appended, last
      <3>5. \A k \in 1..Len(p) : k \in 1..Len(P) /\ P[k] = p[k]
        BY <3>2 DEF Appended
      <3> QED
        BY <3>2, <3>4, <3>5
    <2> QED
      BY <2>1, <2>2
  <1>8. /\ C \in Seq(Seq(V)) /\ (\A k \in 1..Len(C) : IsMesh(f, C[k]))
        /\ AllOf(cs) \subseteq AllOf(C) /\ (child \in Elements(p) => child \in AllOf(C))
    <2>1. CASE child \in Elements(p)
      <3> DEFINE c == LoopAt(p, child)
      <3>1. PICK a \in 1..Len(p) : p[a] = child
        BY <2>1 DEF Elements
      <3>2. IsMesh(f, c) /\ child \in Elements(c)
        <4>1. p \in Seq(NodeSet(f)) /\ p[Len(p)] \in Inputs(f, p[a])
          BY <1>1, <1>4, <3>1 DEF V, last
        <4>2. IsMesh(f, LoopAt(p, p[a])) /\ p[a] \in Elements(LoopAt(p, p[a]))
          BY <1>2, <4>1, LoopCloses
        <4> QED
          BY <3>1, <4>2
      <3>3. C = Append(cs, c)
        BY <2>1 DEF C
      <3> HIDE DEF c, C
      <3>4. c \in Seq(V)
        BY <3>2 DEF IsMesh, V
      <3>5. C \in Seq(Seq(V)) /\ AllOf(C) = AllOf(cs) \cup Elements(c) /\ Appended(C, cs, c)
        BY <1>1, <3>3, <3>4, AllOfAppend
      <3>6. ASSUME NEW k \in 1..Len(C) PROVE IsMesh(f, C[k])
        <4>1. CASE k \in 1..Len(cs)
          BY <1>2, <3>5, <4>1 DEF Appended
        <4>2. CASE k = Len(cs) + 1
          BY <3>2, <3>5, <4>2 DEF Appended
        <4> QED
          BY <3>5, <4>1, <4>2 DEF Appended
      <3> QED
        BY <3>2, <3>5, <3>6
    <2>2. CASE child \notin Elements(p)
      BY <1>1, <1>2, <2>2
    <2> QED
      BY <2>1, <2>2
  <1> HIDE DEF P, C
  <1>9. /\ t \in WalkTypes(f) /\ t.path = P /\ t.seen = seen /\ t.order = o /\ t.cycles = C
    <2>1. P \in Seq(NodeSet(f)) /\ C \in Seq(Seq(NodeSet(f)))
      BY <1>7, <1>8 DEF V
    <2> QED
      BY <1>1, <1>3, <1>6, <2>1 DEF WalkTypes, o
  <1>10. ASSUME NEW k \in seen PROVE Spared(f, t, k)
    <2>1. CASE k = i
      <3>1. f.edges[k].from = last /\ f.edges[k].to = child
        BY <1>4, <2>1 DEF child
      <3>2. \/ child \in AllOf(C) \/ child \in Elements(o)
            \/ \E x, y \in 1..Len(P) : y = x + 1 /\ P[x] = last /\ P[y] = child
        BY <1>7, <1>8
      <3> QED
        BY <1>9, <3>1, <3>2 DEF Spared
    <2>2. CASE k \in s.seen
      <3>1. Spared(f, s, k)
        BY <1>1, <2>2 DEF WalkInv
      <3>2. CASE f.edges[k].from \in AllOf(cs) \/ f.edges[k].to \in AllOf(cs)
        BY <1>8, <1>9, <3>2 DEF Spared
      <3>3. CASE f.edges[k].to \in Elements(o)
        BY <1>9, <3>3 DEF Spared
      <3>4. CASE \E x, y \in 1..Len(p) : y = x + 1 /\ p[x] = f.edges[k].from /\ p[y] = f.edges[k].to
        BY <1>7, <1>9, <3>4 DEF Spared
      <3> QED
        BY <3>1, <3>2, <3>3, <3>4 DEF Spared, p, o, cs
    <2> QED
      BY <2>1, <2>2 DEF seen
  <1>11. OrderRuns(f, t)
    <2>1. \A k \in 1..Len(o) : \A n \in NodeSet(f) :
              o[k] \in Inputs(f, n) =>
                  \/ o[k] \in AllOf(cs) \/ n \in AllOf(cs)
                  \/ \E j \in 1..Len(o) : k < j /\ o[j] = n
      BY <1>2 DEF OrderRuns, o, cs
    <2> QED
      BY <1>8, <1>9, <2>1 DEF OrderRuns
  <1>12. WalkInv(f, t)
    BY <1>2, <1>7, <1>8, <1>9, <1>10, <1>11 DEF WalkInv
  <1>13. WalkGrows(s, t)
    <2>1. s.order = o /\ s.path = p
      BY DEF o, p
    <2> QED
      BY <1>6, <1>7, <1>9, <2>1 DEF WalkGrows, Visits
  <1> QED
    BY <1>9, <1>12, <1>13 DEF WalkStates, t

WalkEnded(f, s) == s.path = <<>> /\ NodeSet(f) \subseteq Elements(s.order)

LEMMA WalkOnKeeps ==
    ASSUME NEW f, IsDrawing(f), NEW s \in WalkStates(f)
    PROVE  /\ WalkOn(f, s) \in WalkStates(f)
           /\ WalkEnded(f, s) => WalkOn(f, s) = s
           /\ ~ WalkEnded(f, s) => WalkGrows(s, WalkOn(f, s))
  <1> DEFINE ahead == Leaving(f, s.path[Len(s.path)]) \ s.seen
             t == WalkOn(f, s)
  <1>1. CASE s.path = <<>>
    <2>1. t = EnterRoot(f, s)
      BY <1>1, Zenon DEF WalkOn
    <2>2. CASE NodeSet(f) \subseteq Elements(s.order)
      <3> DEFINE U == {i \in 1..Len(f.nodes) : f.nodes[i] \notin Elements(s.order)}
      <3>1. U = {}
        BY <2>2 DEF NodeSet, Elements
      <3>2. EnterRoot(f, s) = s
        BY <3>1, Zenon DEF EnterRoot
      <3>3. WalkEnded(f, s)
        BY <1>1, <2>2 DEF WalkEnded
      <3> QED
        BY <2>1, <3>2, <3>3
    <2>3. CASE ~ (NodeSet(f) \subseteq Elements(s.order))
      <3>1. ~ WalkEnded(f, s)
        BY <2>3 DEF WalkEnded
      <3>2. EnterRoot(f, s) \in WalkStates(f) /\ WalkGrows(s, EnterRoot(f, s))
        BY <1>1, <2>3, EnterKeeps
      <3> QED
        BY <2>1, <3>1, <3>2
    <2> QED
      BY <2>2, <2>3
  <1>2. CASE s.path # <<>>
    <2>1. ~ WalkEnded(f, s)
      BY <1>2 DEF WalkEnded
    <2>2. CASE ahead = {}
      <3>1. t = LeaveNode(s)
        BY <1>2, <2>2, Zenon DEF WalkOn
      <3>2. Leaving(f, s.path[Len(s.path)]) \subseteq s.seen
        BY <2>2
      <3>3. LeaveNode(s) \in WalkStates(f) /\ WalkGrows(s, LeaveNode(s))
        BY <1>2, <3>2, LeaveKeeps
      <3> QED
        BY <2>1, <3>1, <3>3
    <2>3. CASE ahead # {}
      <3>1. t = FollowEdge(f, s, Min(ahead))
        BY <1>2, <2>3, Zenon DEF WalkOn
      <3>2. ahead \in SUBSET Nat
        BY Drawn DEF Leaving
      <3>3. Min(ahead) \in ahead
        <4> HIDE DEF ahead
        <4> QED
          BY <2>3, <3>2, MinIs
      <3> DEFINE i == Min(ahead)
      <3>4. i \in Leaving(f, s.path[Len(s.path)]) \ s.seen
        BY <3>3
      <3> HIDE DEF i
      <3>5. FollowEdge(f, s, i) \in WalkStates(f) /\ WalkGrows(s, FollowEdge(f, s, i))
        BY <1>2, <3>4, FollowKeeps
      <3>6. t = FollowEdge(f, s, i)
        BY <3>1 DEF i
      <3> HIDE DEF t
      <3> QED
        BY <2>1, <3>5, <3>6 DEF t
    <2> QED
      BY <2>2, <2>3
  <1> QED
    BY <1>1, <1>2

WalkRounds(f) == Len(f.edges) + 2 * Len(f.nodes)

LEMMA WalkRoundsAre ==
    ASSUME NEW f, IsDrawing(f)
    PROVE  /\ Len(f.edges) \in Nat /\ Len(f.nodes) \in Nat
           /\ WalkRounds(f) = Len(f.edges) + 2 * Len(f.nodes) /\ WalkRounds(f) \in Nat
  <1> DEFINE E == Len(f.edges)
             N == Len(f.nodes)
  <1>1. E \in Nat /\ N \in Nat
    BY Drawn
  <1>2. WalkRounds(f) = E + 2 * N
    BY DEF WalkRounds
  <1> HIDE DEF E, N
  <1>3. WalkRounds(f) \in Nat
    BY <1>1, <1>2
  <1> QED
    BY <1>1, <1>2, <1>3 DEF E, N

\* The edges seen, the nodes entered and the nodes left, each at a place of its own.
Progress(f, s) ==
    {x \in 1..WalkRounds(f) :
        \/ x \in s.seen
        \/ x - Len(f.edges) \in 1..Len(f.nodes) /\ f.nodes[x - Len(f.edges)] \in Visits(s)
        \/ /\ x - Len(f.edges) - Len(f.nodes) \in 1..Len(f.nodes)
           /\ f.nodes[x - Len(f.edges) - Len(f.nodes)] \in Elements(s.order)}

LEMMA Progresses ==
    ASSUME NEW f, IsDrawing(f), NEW s \in WalkStates(f), NEW t \in WalkStates(f), WalkGrows(s, t)
    PROVE  Progress(f, s) \subseteq Progress(f, t) /\ Progress(f, s) # Progress(f, t)
  <1> DEFINE E == Len(f.edges)
             N == Len(f.nodes)
             B == WalkRounds(f)
  <1>1. E \in Nat /\ N \in Nat /\ B \in Nat /\ B = E + 2 * N
    BY WalkRoundsAre
  <1>2. Progress(f, s) \subseteq Progress(f, t)
    BY DEF Progress, WalkGrows
  <1>3. s.seen \subseteq 1..E /\ t.seen \subseteq 1..E
    BY WalkHas
  <1>4. Visits(t) \subseteq NodeSet(f) /\ Elements(t.order) \subseteq NodeSet(f)
    BY WalkHas, ElementsOf DEF Visits
  <1> HIDE DEF E, N, B
  <1>5. CASE s.seen # t.seen
    <2>1. PICK i \in t.seen : i \notin s.seen
      BY <1>5 DEF WalkGrows
    <2>2. i \in 1..B /\ i - E \notin 1..N /\ i - E - N \notin 1..N
      BY <1>1, <1>3
    <2>3. i \in Progress(f, t) /\ i \notin Progress(f, s)
      BY <2>1, <2>2 DEF Progress, E, N, B
    <2> QED
      BY <1>2, <2>3
  <1>6. CASE Visits(s) # Visits(t)
    <2>1. PICK n \in Visits(t) : n \notin Visits(s)
      BY <1>6 DEF WalkGrows
    <2>2. PICK i \in 1..N : f.nodes[i] = n
      BY <1>4, NodeStands DEF N
    <2> DEFINE x == E + i
    <2>3. x \in 1..B /\ x - E = i /\ x \notin 1..E /\ x - E - N \notin 1..N
      BY <1>1
    <2> HIDE DEF x
    <2>4. x \in Progress(f, t) /\ x \notin Progress(f, s)
      BY <1>3, <2>1, <2>2, <2>3 DEF Progress, E, N, B
    <2> QED
      BY <1>2, <2>4
  <1>7. CASE Elements(s.order) # Elements(t.order)
    <2>1. PICK n \in Elements(t.order) : n \notin Elements(s.order)
      BY <1>7 DEF WalkGrows
    <2>2. PICK i \in 1..N : f.nodes[i] = n
      BY <1>4, NodeStands DEF N
    <2> DEFINE x == E + N + i
    <2>3. x \in 1..B /\ x - E - N = i /\ x \notin 1..E /\ x - E \notin 1..N
      BY <1>1
    <2> HIDE DEF x
    <2>4. x \in Progress(f, t) /\ x \notin Progress(f, s)
      BY <1>3, <2>1, <2>2, <2>3 DEF Progress, E, N, B
    <2> QED
      BY <1>2, <2>4
  <1> QED
    BY <1>5, <1>6, <1>7 DEF WalkGrows

LEMMA AllProgress ==
    ASSUME NEW f, IsDrawing(f), NEW s \in WalkStates(f), Progress(f, s) = 1..WalkRounds(f)
    PROVE  WalkEnded(f, s)
  <1> DEFINE E == Len(f.edges)
             N == Len(f.nodes)
             B == WalkRounds(f)
  <1>1. E \in Nat /\ N \in Nat /\ B \in Nat /\ B = E + 2 * N
    BY WalkRoundsAre
  <1>2. s.seen \subseteq 1..E
    BY WalkHas
  <1> HIDE DEF E, N, B
  <1>3. ASSUME NEW n \in NodeSet(f) PROVE n \in Elements(s.order)
    <2>1. PICK i \in 1..N : f.nodes[i] = n
      BY NodeStands DEF N
    <2> DEFINE x == E + N + i
    <2>2. x \in 1..B /\ x - E - N = i /\ x \notin 1..E /\ x - E \notin 1..N
      BY <1>1
    <2> HIDE DEF x
    <2>3. x \in Progress(f, s)
      BY <2>2 DEF B
    <2> QED
      BY <1>2, <2>1, <2>2, <2>3 DEF Progress, E, N, B
  <1>4. s.path \in Seq(NodeSet(f)) /\ Elements(s.path) \cap Elements(s.order) = {}
    BY WalkHas DEF WalkInv
  <1>5. ASSUME s.path # <<>> PROVE FALSE
    <2>1. Head(s.path) \in NodeSet(f) /\ Head(s.path) \in Elements(s.path)
      BY <1>4, <1>5, ElementsTail
    <2> QED
      BY <1>3, <1>4, <2>1
  <1> QED
    BY <1>3, <1>5 DEF WalkEnded

WalkIs(h, f) ==
    h = [k \in 0..WalkRounds(f) |-> IF k = 0 THEN WalkStart ELSE WalkOn(f, h[k - 1])]

LEMMA WalkExists ==
    ASSUME NEW f, IsDrawing(f) PROVE \E h : WalkIs(h, f)
  <1> DEFINE V == WalkStates(f)
             g == [s \in V |-> WalkOn(f, s)]
             n == WalkRounds(f)
             v == WalkStart
  <1>1. g \in [V -> V] /\ v \in V /\ n \in Nat
    BY WalkOnKeeps, WalkStarts, WalkRoundsAre
  <1>2. \A s \in V : g[s] = WalkOn(f, s)
    OBVIOUS
  <1> HIDE DEF V, g, n, v
  <1>3. PICK h \in [0..n -> V] : RoundsOf(h, v, n, g)
    BY <1>1, Rounds
  <1>4. \A k \in 0..n : h[k] = IF k = 0 THEN v ELSE g[h[k - 1]]
    BY <1>3, Zenon DEF RoundsOf
  <1>5. ASSUME NEW k \in 0..n PROVE h[k] = IF k = 0 THEN v ELSE WalkOn(f, h[k - 1])
    <2>1. CASE k = 0
      BY <1>4, <2>1, Zenon
    <2>2. CASE k # 0
      <3>1. k - 1 \in 0..n
        BY <1>1, <2>2
      <3>2. h[k - 1] \in V
        BY <1>3, <3>1
      <3>3. h[k] = g[h[k - 1]]
        BY <1>4, <2>2, Zenon
      <3> QED
        BY <1>2, <2>2, <3>2, <3>3, Zenon
    <2> QED
      BY <2>1, <2>2
  <1>6. h = [k \in 0..n |-> IF k = 0 THEN v ELSE WalkOn(f, h[k - 1])]
    BY <1>3, <1>5, Zenon
  <1> QED
    BY <1>6 DEF WalkIs, n, v

\* The rounds of the walk, after which every node was left.
LEMMA WalkEnds ==
    ASSUME NEW f, IsDrawing(f)
    PROVE  Walk(f) \in WalkStates(f) /\ WalkEnded(f, Walk(f))
  <1> DEFINE h == CHOOSE x : WalkIs(x, f)
             n == WalkRounds(f)
             V == WalkStates(f)
  <1>1. WalkIs(h, f)
    BY WalkExists
  <1>2. Walk(f) = h[n]
    BY Zenon DEF Walk, WalkIs, WalkStart, WalkRounds
  <1>3. n \in Nat
    BY WalkRoundsAre
  <1>4. \A k \in 0..n : h[k] = IF k = 0 THEN WalkStart ELSE WalkOn(f, h[k - 1])
    BY <1>1, Zenon DEF WalkIs
  <1> HIDE DEF h, n
  <1>5. h[0] = WalkStart /\ \A k \in 1..n : h[k] = WalkOn(f, h[k - 1])
    <2>1. 0 \in 0..n /\ \A k \in 1..n : k \in 0..n /\ k # 0
      BY <1>3
    <2> QED
      BY <1>4, <2>1, Zenon
  <1> DEFINE P == {k \in 0..n : h[k] \in V}
  <1>6. P = 0..n
    <2> HIDE DEF V
    <2>1. 0 \in P
      BY <1>3, <1>5, WalkStarts DEF V
    <2>2. ASSUME NEW k \in 1..n, k - 1 \in P PROVE k \in P
      <3>1. h[k] \in V
        BY <1>5, <2>2, WalkOnKeeps DEF V
      <3> QED
        BY <1>3, <3>1
    <2>3. P \in SUBSET (0..n)
      OBVIOUS
    <2> HIDE DEF P
    <2> QED
      BY <1>3, <2>1, <2>2, <2>3, Upward
  <1>7. \A k \in 0..n : h[k] \in V
    BY <1>6
  <1> DEFINE M == [k \in 0..n |-> Progress(f, h[k])]
             E == {k \in 0..n : WalkEnded(f, h[k])}
  <1>8. ASSUME NEW k \in 1..n
        PROVE  /\ k - 1 \in E => k \in E
               /\ k - 1 \notin E => M[k - 1] \subseteq M[k] /\ M[k] # M[k - 1]
    <2>1. k - 1 \in 0..n /\ k \in 0..n /\ h[k - 1] \in V /\ h[k] \in V /\ h[k] = WalkOn(f, h[k - 1])
      BY <1>3, <1>5, <1>7
    <2>2. CASE WalkEnded(f, h[k - 1])
      <3>1. h[k] = h[k - 1]
        BY <2>1, <2>2, WalkOnKeeps
      <3> QED
        BY <2>1, <2>2, <3>1
    <2>3. CASE ~ WalkEnded(f, h[k - 1])
      <3>1. WalkGrows(h[k - 1], h[k])
        BY <2>1, <2>3, WalkOnKeeps
      <3>2. Progress(f, h[k - 1]) \subseteq Progress(f, h[k]) /\ Progress(f, h[k - 1]) # Progress(f, h[k])
        BY <2>1, <3>1, Progresses
      <3> QED
        BY <2>1, <2>3, <3>2
    <2> QED
      BY <2>2, <2>3
  <1>9. n \in E \/ M[n] = 1..n
    <2>1. M \in [0..n -> SUBSET (1..n)] /\ E \in SUBSET (0..n)
      BY DEF Progress, n
    <2> HIDE DEF M, E
    <2> QED
      BY <1>3, <1>8, <2>1, LoopEnded
  <1>10. n \in 0..n /\ h[n] \in V
    BY <1>3, <1>7
  <1>11. ASSUME M[n] = 1..n PROVE WalkEnded(f, h[n])
    <2>1. Progress(f, h[n]) = 1..WalkRounds(f)
      BY <1>10, <1>11 DEF n
    <2> QED
      BY <1>10, <2>1, AllProgress
  <1> QED
    BY <1>2, <1>9, <1>10, <1>11

LEMMA WalkDone ==
    ASSUME NEW f, IsDrawing(f)
    PROVE  /\ Walk(f).order \in Seq(NodeSet(f)) /\ Distinct(Walk(f).order)
           /\ Elements(Walk(f).order) = NodeSet(f)
           /\ Walk(f).cycles \in Seq(Seq(NodeSet(f)))
           /\ \A i \in 1..Len(Walk(f).cycles) : IsMesh(f, Walk(f).cycles[i])
           /\ OrderRuns(f, Walk(f))
  <1> DEFINE s == Walk(f)
  <1>1. s \in WalkStates(f) /\ WalkEnded(f, s)
    BY WalkEnds
  <1> HIDE DEF s
  <1>2. s.order \in Seq(NodeSet(f)) /\ s.cycles \in Seq(Seq(NodeSet(f))) /\ WalkInv(f, s)
    BY <1>1, WalkHas
  <1>3. Elements(s.order) = NodeSet(f)
    BY <1>1, <1>2, ElementsOf DEF WalkEnded
  <1> QED
    BY <1>2, <1>3 DEF WalkInv, s

-----------------------------------------------------------------------------
(* Merging the cycles that share a node                                     *)

LEMMA FewerKept ==
    ASSUME NEW S, NEW s \in Seq(S), NEW j \in 1..Len(s)
    PROVE  Len(Keep(s, (1..Len(s)) \ {j})) < Len(s)
  <1> DEFINE I == (1..Len(s)) \ {j}
             q == Keep(s, I)
             m == Len(q)
             n == Len(s)
  <1>1. PICK g : q \in Seq(S) /\ TakenAt(g, q, s, I)
    BY KeepTakes
  <1>2. m \in Nat /\ n \in Nat
    BY <1>1
  <1>3. g \in [1..m -> 1..n] /\ Increasing(g, m) /\ \A i \in 1..m : g[i] \in I
    BY <1>1 DEF TakenAt
  <1> HIDE DEF m, n, q
  <1>4. IsFiniteSet(1..n) /\ Cardinality(1..n) = n /\ IsFiniteSet(1..m) /\ Cardinality(1..m) = m
    BY <1>2, FS_Interval
  <1> DEFINE J == {g[i] : i \in 1..m}
  <1>5. J \subseteq 1..n /\ J # 1..n
    BY <1>3 DEF n
  <1>6. IsFiniteSet(J) /\ Cardinality(J) < n /\ Cardinality(J) \in Nat
    <2> HIDE DEF J
    <2>1. IsFiniteSet(J) /\ Cardinality(J) <= n /\ Cardinality(J) # n
      BY <1>4, <1>5, FS_Subset
    <2>2. Cardinality(J) \in Nat
      BY <2>1, FS_CardinalityType
    <2> QED
      BY <1>2, <2>1, <2>2
  <1>7. g \in Injection(1..m, J)
    <2>1. ASSUME NEW a \in 1..m, NEW b \in 1..m, g[a] = g[b] PROVE a = b
      <3>1. g[a] \in 1..n /\ g[b] \in 1..n
        BY <1>3
      <3>2. ~ (g[a] < g[b]) /\ ~ (g[b] < g[a])
        BY <2>1, <3>1
      <3>3. ~ (a < b) /\ ~ (b < a)
        BY <1>3, <3>2 DEF Increasing
      <3> QED
        BY <1>2, <3>3
    <2> QED
      BY <1>3, <2>1 DEF Injection, IsInjective
  <1>8. m <= Cardinality(J)
    <2> HIDE DEF J
    <2> QED
      BY <1>4, <1>6, <1>7, FS_Injection
  <1> QED
    BY <1>2, <1>6, <1>8 DEF m, n, q

\* What is not in s yet is added to it.
Added(s, t) == s \o Keep(t, {k \in 1..Len(t) : t[k] \notin Elements(s)})

LEMMA AddedIs ==
    ASSUME NEW V, NEW s \in Seq(V), NEW t \in Seq(V), Distinct(s), Distinct(t)
    PROVE  /\ Added(s, t) \in Seq(V) /\ Distinct(Added(s, t))
           /\ Elements(Added(s, t)) = Elements(s) \cup Elements(t)
  <1> DEFINE I == {k \in 1..Len(t) : t[k] \notin Elements(s)}
             r == Keep(t, I)
  <1>1. \A a, b \in I : t[a] = t[b] => a = b
    BY DEF Distinct
  <1>2. I \subseteq 1..Len(t)
    OBVIOUS
  <1>3. \A k \in I : t[k] \notin Elements(s)
    OBVIOUS
  <1>4. \A k \in 1..Len(t) : k \in I \/ t[k] \in Elements(s)
    OBVIOUS
  <1>0. Added(s, t) = s \o r
    BY DEF Added
  <1> HIDE DEF I, r
  <1>5. r \in Seq(V) /\ ChosenOf(r, t, I) /\ Distinct(r)
    BY <1>1, <1>2, ElementsKeep DEF r
  <1>6. Elements(s) \cap Elements(r) = {}
    BY <1>3, <1>5 DEF ChosenOf
  <1>7. Elements(s) \cup Elements(r) = Elements(s) \cup Elements(t)
    <2>1. Elements(r) \subseteq Elements(t)
      BY <1>2, <1>5 DEF ChosenOf, Elements
    <2>2. Elements(t) \subseteq Elements(s) \cup Elements(r)
      <3> SUFFICES ASSUME NEW k \in 1..Len(t) PROVE t[k] \in Elements(s) \cup Elements(r)
        BY DEF Elements
      <3> QED
        BY <1>4, <1>5 DEF ChosenOf
    <2> QED
      BY <2>1, <2>2
  <1>8. s \o r \in Seq(V) /\ Elements(s \o r) = Elements(s) \cup Elements(r) /\ Distinct(s \o r)
    BY <1>5, <1>6, ElementsConcat
  <1> QED
    BY <1>0, <1>7, <1>8

LEMMA CirclingUnion ==
    ASSUME NEW f, NEW C, NEW D, Circling(f, C), Circling(f, D)
    PROVE  Circling(f, C \cup D)
  BY DEF Circling

Meshes(f, A) ==
    {cs \in Seq(Seq(NodeSet(f))) :
        (\A i \in 1..Len(cs) : IsMesh(f, cs[i])) /\ AllOf(cs) = A}

\* No two share a node.
Apart(cs) == \A i \in 1..Len(cs) : Overlapping(cs, i) = {}

LEMMA MergeKeeps ==
    ASSUME NEW f, NEW A, NEW cs \in Meshes(f, A)
    PROVE  /\ MergeTwo(cs) \in Meshes(f, A)
           /\ Apart(cs) => MergeTwo(cs) = cs
           /\ ~ Apart(cs) => Len(MergeTwo(cs)) < Len(cs)
  <1> DEFINE T == Seq(NodeSet(f))
             U == {k \in 1..Len(cs) : Overlapping(cs, k) # {}}
             i == Min(U)
             O == Overlapping(cs, i)
             j == Min(O)
             both == Added(cs[i], cs[j])
             r == [cs EXCEPT ![i] = both]
             t == MergeTwo(cs)
  <1>1. /\ cs \in Seq(T) /\ (\A k \in 1..Len(cs) : IsMesh(f, cs[k]) /\ cs[k] \in T) /\ AllOf(cs) = A
    BY DEF Meshes, IsMesh
  <1>2. CASE Apart(cs)
    <2>1. U = {}
      BY <1>2 DEF Apart
    <2>2. t = cs
      BY <2>1, Zenon DEF MergeTwo
    <2> QED
      BY <1>2, <2>2
  <1>3. CASE ~ Apart(cs)
    <2>1. U # {} /\ U \in SUBSET Nat
      BY <1>3 DEF Apart
    <2>2. i \in U
      <3> HIDE DEF U
      <3> QED
        BY <2>1, MinIs
    <2>3. i \in 1..Len(cs) /\ O # {}
      BY <2>2
    <2> HIDE DEF i, U
    <2>4. O \in SUBSET Nat
      BY <2>3 DEF Overlapping
    <2>5. j \in O
      <3> HIDE DEF O
      <3> QED
        BY <2>3, <2>4, MinIs
    <2>6. j \in 1..Len(cs) /\ i # j
      BY <2>3, <2>5 DEF Overlapping
    <2>7. t = Keep(r, (1..Len(cs)) \ {j})
      BY <2>1, Zenon DEF MergeTwo, Added, i, U
    <2> HIDE DEF O, j, T
    <2>8. both \in T /\ Distinct(both) /\ Elements(both) = Elements(cs[i]) \cup Elements(cs[j])
      <3>1. cs[i] \in Seq(NodeSet(f)) /\ cs[j] \in Seq(NodeSet(f)) /\ Distinct(cs[i]) /\ Distinct(cs[j])
        BY <1>1, <2>3, <2>6 DEF IsMesh
      <3> QED
        BY <3>1, AddedIs DEF T
    <2> HIDE DEF both
    <2>9. IsMesh(f, both)
      <3>1. Circling(f, Elements(both)) /\ Elements(both) # {}
        BY <1>1, <2>3, <2>6, <2>8, CirclingUnion DEF IsMesh
      <3> QED
        BY <2>8, <3>1 DEF IsMesh, T
    <2>10. /\ r \in Seq(T) /\ Len(r) = Len(cs) /\ r[i] = both
           /\ \A k \in 1..Len(cs) : k # i => r[k] = cs[k]
      BY <1>1, <2>3, <2>8
    <2> DEFINE I == (1..Len(cs)) \ {j}
    <2> HIDE DEF r, t
    <2>11. t \in Seq(T) /\ ChosenOf(t, r, I)
      BY <2>7, <2>10, ElementsKeep
    <2>12. Len(t) < Len(cs)
      BY <2>6, <2>7, <2>10, FewerKept
    <2>13. ASSUME NEW k \in 1..Len(t) PROVE IsMesh(f, t[k])
      <3>1. t[k] \in Elements(t)
        BY DEF Elements
      <3>2. PICK l \in I : r[l] = t[k]
        BY <2>11, <3>1 DEF ChosenOf
      <3> QED
        BY <1>1, <2>9, <2>10, <3>2
    <2>14. AllOf(t) = A
      <3>1. ASSUME NEW n \in AllOf(t) PROVE n \in A
        <4>1. PICK k \in 1..Len(t) : n \in Elements(t[k])
          BY DEF AllOf
        <4>2. t[k] \in Elements(t)
          BY DEF Elements
        <4>3. PICK l \in I : r[l] = t[k]
          BY <2>11, <4>2 DEF ChosenOf
        <4>4. CASE l = i
          <5>1. n \in Elements(cs[i]) \cup Elements(cs[j])
            BY <2>8, <2>10, <4>1, <4>3, <4>4
          <5> QED
            BY <1>1, <2>3, <2>6, <5>1 DEF AllOf
        <4>5. CASE l # i
          <5>1. l \in 1..Len(cs) /\ n \in Elements(cs[l])
            BY <2>10, <4>1, <4>3, <4>5
          <5> QED
            BY <1>1, <5>1 DEF AllOf
        <4> QED
          BY <4>4, <4>5
      <3>2. ASSUME NEW n \in A PROVE n \in AllOf(t)
        <4>1. PICK k \in 1..Len(cs) : n \in Elements(cs[k])
          BY <1>1 DEF AllOf
        <4>2. \E l \in I : n \in Elements(r[l])
          <5>1. i \in I
            BY <2>3, <2>6
          <5>2. CASE k = i \/ k = j
            BY <2>8, <2>10, <4>1, <5>1, <5>2
          <5>3. CASE k # i /\ k # j
            BY <2>10, <4>1, <5>3
          <5> QED
            BY <5>2, <5>3
        <4>3. PICK l \in I : n \in Elements(r[l])
          BY <4>2
        <4>4. r[l] \in Elements(t)
          BY <2>11 DEF ChosenOf
        <4>5. PICK m \in 1..Len(t) : t[m] = r[l]
          BY <4>4 DEF Elements
        <4> QED
          BY <4>3, <4>5 DEF AllOf
      <3> QED
        BY <3>1, <3>2
    <2>15. t \in Meshes(f, A)
      BY <2>11, <2>13, <2>14 DEF Meshes, T
    <2> QED
      BY <1>3, <2>12, <2>15 DEF t
  <1> QED
    BY <1>2, <1>3

MergeRounds(h, cs) ==
    h = [k \in 0..Len(cs) |-> IF k = 0 THEN cs ELSE MergeTwo(h[k - 1])]

Merging(f, A, n) == {t \in Meshes(f, A) : Len(t) <= n}

LEMMA MergingKeeps ==
    ASSUME NEW f, NEW A, NEW n \in Nat, NEW t \in Merging(f, A, n)
    PROVE  /\ MergeTwo(t) \in Merging(f, A, n)
           /\ Apart(t) => MergeTwo(t) = t
           /\ ~ Apart(t) => Len(MergeTwo(t)) < Len(t)
           /\ Len(t) \in Nat /\ Len(MergeTwo(t)) \in Nat
  <1> DEFINE u == MergeTwo(t)
  <1>1. t \in Meshes(f, A) /\ Len(t) <= n
    BY DEF Merging
  <1>2. u \in Meshes(f, A) /\ (Apart(t) => u = t) /\ (~ Apart(t) => Len(u) < Len(t))
    BY <1>1, MergeKeeps
  <1> HIDE DEF u
  <1>3. \A x \in Meshes(f, A) : Len(x) \in Nat
    <2> DEFINE T == Seq(NodeSet(f))
    <2>1. \A x \in Meshes(f, A) : x \in Seq(T)
      BY DEF Meshes
    <2> HIDE DEF T
    <2> QED
      BY <2>1
  <1>4. Len(u) <= n
    BY <1>1, <1>2, <1>3
  <1> QED
    BY <1>1, <1>2, <1>3, <1>4 DEF Merging, u

LEMMA MergeExists ==
    ASSUME NEW f, NEW A, NEW cs \in Meshes(f, A) PROVE \E h : MergeRounds(h, cs)
  <1> DEFINE n == Len(cs)
             V == Merging(f, A, n)
             g == [s \in V |-> MergeTwo(s)]
  <1>1. n \in Nat /\ cs \in V
    <2> DEFINE T == Seq(NodeSet(f))
    <2>1. cs \in Seq(T)
      BY DEF Meshes
    <2> HIDE DEF T
    <2>2. Len(cs) \in Nat /\ Len(cs) <= Len(cs)
      BY <2>1
    <2> QED
      BY <2>2 DEF Merging
  <1> HIDE DEF n
  <1>2. g \in [V -> V]
    BY <1>1, MergingKeeps
  <1>3. \A s \in V : g[s] = MergeTwo(s)
    OBVIOUS
  <1> HIDE DEF V, g
  <1>4. PICK h \in [0..n -> V] : RoundsOf(h, cs, n, g)
    BY <1>1, <1>2, Rounds
  <1>5. \A k \in 0..n : h[k] = IF k = 0 THEN cs ELSE g[h[k - 1]]
    BY <1>4, Zenon DEF RoundsOf
  <1>6. ASSUME NEW k \in 0..n PROVE h[k] = IF k = 0 THEN cs ELSE MergeTwo(h[k - 1])
    <2>1. CASE k = 0
      BY <1>5, <2>1, Zenon
    <2>2. CASE k # 0
      <3>1. k - 1 \in 0..n
        BY <1>1, <2>2
      <3>2. h[k - 1] \in V
        BY <1>4, <3>1
      <3>3. h[k] = g[h[k - 1]]
        BY <1>5, <2>2, Zenon
      <3> QED
        BY <1>3, <2>2, <3>2, <3>3, Zenon
    <2> QED
      BY <2>1, <2>2
  <1>7. h = [k \in 0..n |-> IF k = 0 THEN cs ELSE MergeTwo(h[k - 1])]
    BY <1>4, <1>6, Zenon
  <1> QED
    BY <1>7 DEF MergeRounds, n

LEMMA MergeDone ==
    ASSUME NEW f, NEW A, NEW cs \in Meshes(f, A)
    PROVE  MergeCycles(cs) \in Meshes(f, A) /\ Apart(MergeCycles(cs))
  <1> DEFINE h == CHOOSE x : MergeRounds(x, cs)
             n == Len(cs)
             V == Merging(f, A, n)
  <1>1. MergeRounds(h, cs)
    BY MergeExists
  <1>2. MergeCycles(cs) = h[n]
    BY Zenon DEF MergeCycles, MergeRounds
  <1>3. n \in Nat /\ cs \in V
    <2> DEFINE T == Seq(NodeSet(f))
    <2>1. cs \in Seq(T)
      BY DEF Meshes
    <2> HIDE DEF T
    <2>2. Len(cs) \in Nat /\ Len(cs) <= Len(cs)
      BY <2>1
    <2> QED
      BY <2>2 DEF Merging
  <1>4. \A k \in 0..n : h[k] = IF k = 0 THEN cs ELSE MergeTwo(h[k - 1])
    BY <1>1, Zenon DEF MergeRounds
  <1> HIDE DEF h, n
  <1>5. h[0] = cs /\ \A k \in 1..n : h[k] = MergeTwo(h[k - 1])
    <2>1. 0 \in 0..n /\ \A k \in 1..n : k \in 0..n /\ k # 0
      BY <1>3
    <2> QED
      BY <1>4, <2>1, Zenon
  <1> DEFINE P == {k \in 0..n : h[k] \in V}
  <1>6. P = 0..n
    <2> HIDE DEF V
    <2>1. 0 \in P
      BY <1>3, <1>5
    <2>2. ASSUME NEW k \in 1..n, k - 1 \in P PROVE k \in P
      <3>1. h[k] \in V
        BY <1>3, <1>5, <2>2, MergingKeeps DEF V
      <3> QED
        BY <1>3, <3>1
    <2>3. P \in SUBSET (0..n)
      OBVIOUS
    <2> HIDE DEF P
    <2> QED
      BY <1>3, <2>1, <2>2, <2>3, Upward
  <1>7. \A k \in 0..n : h[k] \in V
    BY <1>6
  <1> DEFINE M == [k \in 0..n |-> {x \in 1..n : x > Len(h[k])}]
             E == {k \in 0..n : Apart(h[k])}
  <1>8. ASSUME NEW k \in 1..n
        PROVE  /\ k - 1 \in E => k \in E
               /\ k - 1 \notin E => M[k - 1] \subseteq M[k] /\ M[k] # M[k - 1]
    <2>1. k - 1 \in 0..n /\ k \in 0..n /\ h[k - 1] \in V /\ h[k] = MergeTwo(h[k - 1])
      BY <1>3, <1>5, <1>7
    <2>2. /\ Apart(h[k - 1]) => h[k] = h[k - 1]
          /\ ~ Apart(h[k - 1]) => Len(h[k]) < Len(h[k - 1])
          /\ Len(h[k - 1]) \in Nat /\ Len(h[k]) \in Nat /\ Len(h[k - 1]) <= n
      BY <1>3, <2>1, MergingKeeps DEF Merging
    <2>3. CASE Apart(h[k - 1])
      BY <2>1, <2>2, <2>3
    <2>4. CASE ~ Apart(h[k - 1])
      <3> DEFINE a == Len(h[k - 1])
                 b == Len(h[k])
      <3>1. a \in Nat /\ b \in Nat /\ b < a /\ a <= n
        BY <2>2, <2>4
      <3>2. M[k - 1] = {x \in 1..n : x > a} /\ M[k] = {x \in 1..n : x > b}
        BY <2>1
      <3> HIDE DEF a, b
      <3>3. {x \in 1..n : x > a} \subseteq {x \in 1..n : x > b}
        BY <1>3, <3>1
      <3>4. a \in {x \in 1..n : x > b} /\ a \notin {x \in 1..n : x > a}
        BY <1>3, <3>1
      <3> QED
        BY <2>1, <2>4, <3>2, <3>3, <3>4
    <2> QED
      BY <2>3, <2>4
  <1>9. n \in E \/ M[n] = 1..n
    <2>1. M \in [0..n -> SUBSET (1..n)] /\ E \in SUBSET (0..n)
      OBVIOUS
    <2> HIDE DEF M, E
    <2> QED
      BY <1>3, <1>8, <2>1, LoopEnded
  <1>10. n \in 0..n /\ h[n] \in V /\ h[n] \in Meshes(f, A)
    BY <1>3, <1>7 DEF Merging
  <1>11. ASSUME M[n] = 1..n PROVE Apart(h[n])
    <2> DEFINE a == Len(h[n])
    <2>1. a \in Nat /\ a <= n
      BY <1>3, <1>10, MergingKeeps DEF Merging
    <2>2. \A x \in 1..n : x > a
      BY <1>10, <1>11
    <2> HIDE DEF a
    <2>3. a = 0
      <3>1. CASE a \in 1..n
        BY <2>1, <2>2, <3>1
      <3>2. CASE a \notin 1..n
        BY <1>3, <2>1, <3>2
      <3> QED
        BY <3>1, <3>2
    <2>4. 1..a = {}
      BY <2>3
    <2> QED
      BY <2>4 DEF Apart, a
  <1> QED
    BY <1>2, <1>9, <1>10, <1>11

LEMMA ApartIs ==
    ASSUME NEW cs, Len(cs) \in Nat, Apart(cs), NEW i \in 1..Len(cs), NEW j \in 1..Len(cs),
           Elements(cs[i]) \cap Elements(cs[j]) # {}
    PROVE  i = j
  <1>1. ASSUME NEW a \in 1..Len(cs), NEW b \in 1..Len(cs), a < b
        PROVE  Elements(cs[a]) \cap Elements(cs[b]) = {}
    <2>1. b \in (a + 1)..Len(cs)
      BY <1>1
    <2>2. Overlapping(cs, a) = {}
      BY DEF Apart
    <2> QED
      BY <2>1, <2>2 DEF Overlapping
  <1>2. i < j \/ j < i \/ i = j
    OBVIOUS
  <1>3. Elements(cs[j]) \cap Elements(cs[i]) # {}
    OBVIOUS
  <1> QED
    BY <1>1, <1>2, <1>3

-----------------------------------------------------------------------------
(* The depths of the nodes outside the cycles *)

LEMMA NodesFinite ==
    ASSUME NEW f, IsDrawing(f) PROVE IsFiniteSet(NodeSet(f))
  <1> DEFINE n == Len(f.nodes)
             g == [i \in 1..n |-> f.nodes[i]]
  <1>1. n \in Nat
    BY Drawn
  <1>2. g \in Surjection(1..n, NodeSet(f))
    BY DEF Surjection, NodeSet, Elements
  <1> HIDE DEF n, g
  <1>3. IsFiniteSet(1..n)
    BY <1>1, FS_Interval
  <1> QED
    BY <1>2, <1>3, FS_Surjection

CyclicOf(f) == AllOf(Walk(f).cycles)
MeshesOf(f) == MergeCycles(Walk(f).cycles)
DepthsOf(f) == DepthLevels(f, CyclicOf(f))
Acyclic(f) == NodeSet(f) \ CyclicOf(f)

FlowDepthsAre(x, f, cyclic) ==
    x = [n \in NodeSet(f) \ cyclic |-> LevelAfter(x, Inputs(f, n) \ cyclic)]

LEMMA DepthsOfFlow ==
    ASSUME NEW f, IsDrawing(f)
    PROVE  /\ DOMAIN DepthsOf(f) = Acyclic(f)
           /\ \A n \in Acyclic(f) : DepthsOf(f)[n] \in 0..Cardinality(Acyclic(f))
           /\ Cardinality(Acyclic(f)) \in Nat
           /\ \A n, m \in Acyclic(f) : m \in Inputs(f, n) => DepthsOf(f)[m] < DepthsOf(f)[n]
           /\ \A n, m \in Acyclic(f) : Inputs(f, n) = {m} => DepthsOf(f)[n] = DepthsOf(f)[m] + 1
  <1> DEFINE cyclic == CyclicOf(f)
             U == Acyclic(f)
             D == [n \in U |-> Inputs(f, n) \ cyclic]
             g == DepthsOf(f)
             order == Walk(f).order
  <1>0. cyclic = AllOf(Walk(f).cycles) /\ U = NodeSet(f) \ cyclic
    BY DEF CyclicOf, Acyclic
  <1> HIDE DEF cyclic, U
  <1>1. \A n \in U : Inputs(f, n) \ cyclic \subseteq U
    BY <1>0, InputsAreNodes
  <1>2. /\ order \in Seq(NodeSet(f)) /\ Distinct(order) /\ Elements(order) = NodeSet(f)
        /\ OrderRuns(f, Walk(f))
    BY WalkDone
  <1>3. ASSUME NEW S \in SUBSET U, S # {} PROVE \E n \in S : (Inputs(f, n) \ cyclic) \cap S = {}
    <2> DEFINE T == {i \in 1..Len(order) : order[i] \in S}
    <2>0. \A n \in S : n \in Elements(order)
      BY <1>0, <1>2
    <2>1. T \in SUBSET Nat /\ T # {}
      <3>1. PICK n \in S : \E i \in 1..Len(order) : order[i] = n
        BY <1>3, <2>0 DEF Elements
      <3> QED
        BY <3>1
    <2>2. PICK i \in T : \A j \in T : i <= j
      <3> HIDE DEF T
      <3> QED
        BY <2>1, Least
    <2>3. ASSUME NEW m \in (Inputs(f, order[i]) \ cyclic) \cap S PROVE FALSE
      <3>1. PICK k \in 1..Len(order) : order[k] = m
        BY <2>0 DEF Elements
      <3>2. order[i] \in NodeSet(f) /\ order[i] \notin cyclic /\ m \notin cyclic
        BY <1>0, <2>2
      <3>3. \E j \in 1..Len(order) : k < j /\ order[j] = order[i]
        BY <1>0, <1>2, <3>1, <3>2 DEF OrderRuns
      <3>4. k < i
        BY <1>2, <2>2, <3>3 DEF Distinct
      <3>5. k \in T
        BY <3>1
      <3>6. i <= k /\ i \in Nat /\ k \in Nat
        BY <1>2, <2>2, <3>5
      <3> QED
        BY <3>4, <3>6
    <2> QED
      BY <2>2, <2>3
  <1>4. Founded(U, D)
    <2>1. IsFiniteSet(U)
      BY <1>0, NodesFinite, FS_Subset
    <2>2. D \in [U -> SUBSET U] /\ \A n \in U : D[n] = Inputs(f, n) \ cyclic
      BY <1>1
    <2> HIDE DEF D
    <2> QED
      BY <1>3, <2>1, <2>2 DEF Founded
  <1>5. ASSUME NEW x PROVE FlowDepthsAre(x, f, cyclic) <=> LevelsAre(x, U, D)
    <2>1. \A n \in U : D[n] = Inputs(f, n) \ cyclic
      OBVIOUS
    <2> HIDE DEF D
    <2> QED
      BY <1>0, <2>1, Zenon DEF FlowDepthsAre, LevelsAre
  <1>6. g = CHOOSE x : FlowDepthsAre(x, f, cyclic)
    BY Zenon DEF DepthsOf, DepthLevels, FlowDepthsAre, LevelAfter, cyclic
  <1>7. \A n \in U : D[n] = Inputs(f, n) \ cyclic
    OBVIOUS
  <1> HIDE DEF D, g
  <1>8. LevelsAre(g, U, D)
    <2>1. \E x : FlowDepthsAre(x, f, cyclic)
      BY <1>4, <1>5, LevelsExist
    <2> QED
      BY <1>5, <1>6, <2>1
  <1>9. /\ g \in [U -> 0..Cardinality(U)] /\ Cardinality(U) \in Nat
        /\ \A n \in U : /\ g[n] = LevelAfter(g, D[n])
                        /\ \A d \in D[n] : d \in U /\ g[d] < g[n]
                        /\ g[n] > 0 => \E d \in D[n] : g[d] + 1 = g[n]
    BY <1>4, <1>8, LevelsOrder
  <1>10. ASSUME NEW n \in U, NEW m \in U, Inputs(f, n) = {m} PROVE g[n] = g[m] + 1
    <2>0. m \notin cyclic
      BY <1>0
    <2>1. D[n] = {m}
      BY <1>7, <1>10, <2>0
    <2>2. g[m] < g[n] /\ (g[n] > 0 => g[m] + 1 = g[n])
      BY <1>9, <2>1
    <2>3. g[n] \in Nat /\ g[m] \in Nat
      BY <1>9
    <2> QED
      BY <2>2, <2>3
  <1>11. \A n, m \in U : m \in Inputs(f, n) => g[m] < g[n]
    BY <1>0, <1>7, <1>9
  <1>12. DOMAIN g = U /\ (\A n \in U : g[n] \in 0..Cardinality(U)) /\ Cardinality(U) \in Nat
    BY <1>9
  <1>13. \A n, m \in U : Inputs(f, n) = {m} => g[n] = g[m] + 1
    BY <1>10
  <1> QED
    BY <1>11, <1>12, <1>13 DEF g, U

-----------------------------------------------------------------------------
(* Chains *)

\* One edge leads from n to m, and no other from n or to m.
OnlyEdge(f, n, m) == \E e \in 1..Len(f.edges) : Leaving(f, n) = {e} /\ Entering(f, m) = {e}

IsChain(f, c) ==
    /\ c \in Seq(NodeSet(f)) /\ c # <<>> /\ Distinct(c)
    /\ \A i, j \in 1..Len(c) : j = i + 1 => OnlyEdge(f, c[i], c[j])

ChainsOff(f, consumed) == {c \in Seq(NodeSet(f)) : IsChain(f, c) /\ Elements(c) \cap consumed = {}}

LEMMA OnlyEdgeIs ==
    ASSUME NEW f, NEW n, NEW m, OnlyEdge(f, n, m)
    PROVE  Inputs(f, m) = {n} /\ \A x : n \in Inputs(f, x) => x = m
  <1>1. PICK e \in 1..Len(f.edges) : Leaving(f, n) = {e} /\ Entering(f, m) = {e}
    BY DEF OnlyEdge
  <1>2. f.edges[e].from = n /\ f.edges[e].to = m
    <2>1. e \in Leaving(f, n) /\ e \in Entering(f, m)
      BY <1>1
    <2> QED
      BY <2>1 DEF Leaving, Entering
  <1>3. Inputs(f, m) = {n}
    BY <1>1, <1>2 DEF Inputs
  <1>4. ASSUME NEW x, n \in Inputs(f, x) PROVE x = m
    <2>1. PICK i \in Entering(f, x) : f.edges[i].from = n
      BY <1>4 DEF Inputs
    <2>2. i \in Leaving(f, n) /\ f.edges[i].to = x
      BY <2>1 DEF Entering, Leaving
    <2> QED
      BY <1>1, <1>2, <2>2
  <1> QED
    BY <1>3, <1>4

LEMMA ExtendKeeps ==
    ASSUME NEW f, NEW consumed, NEW c \in ChainsOff(f, consumed)
    PROVE  ExtendChain(f, c, consumed) \in ChainsOff(f, consumed)
  <1> DEFINE V == NodeSet(f)
             next == NextInChain(f, c, consumed)
             n == CHOOSE x \in next : TRUE
             q == Append(c, n)
  <1>1. /\ c \in Seq(V) /\ c # <<>> /\ Distinct(c) /\ Elements(c) \cap consumed = {}
        /\ \A i, j \in 1..Len(c) : j = i + 1 => OnlyEdge(f, c[i], c[j])
    BY DEF ChainsOff, IsChain
  <1>2. CASE next = {}
    BY <1>2 DEF ExtendChain
  <1>3. CASE next # {}
    <2>1. ExtendChain(f, c, consumed) = q
      BY <1>3 DEF ExtendChain
    <2>2. n \in next
      BY <1>3
    <2>3. /\ n \in V /\ n \notin consumed /\ n \notin Elements(c)
          /\ OnlyEdge(f, c[Len(c)], n)
      BY <2>2 DEF NextInChain, OnlyEdge
    <2> HIDE DEF n, q, V
    <2>4. q \in Seq(V) /\ Elements(q) = Elements(c) \cup {n} /\ Distinct(q)
      BY <1>1, <2>3, ElementsAppend DEF q
    <2>5. Appended(q, c, n)
      BY <1>1, <2>3, AppendPlaces DEF q
    <2>6. q # <<>>
      <3>1. n \in Elements(q)
        BY <2>4
      <3> QED
        BY <3>1, NoElements
    <2>7. ASSUME NEW i \in 1..Len(q), NEW j \in 1..Len(q), j = i + 1
          PROVE  OnlyEdge(f, q[i], q[j])
      <3>1. i \in 1..Len(c) /\ q[i] = c[i]
        BY <2>5, <2>7 DEF Appended
      <3>2. CASE j \in 1..Len(c)
        <4>1. q[j] = c[j]
          BY <2>5, <3>2 DEF Appended
        <4> QED
          BY <1>1, <2>7, <3>1, <3>2, <4>1
      <3>3. CASE j \notin 1..Len(c)
        <4>1. i = Len(c) /\ q[j] = n
          BY <2>5, <2>7, <3>1, <3>3 DEF Appended
        <4> QED
          BY <2>3, <3>1, <4>1
      <3> QED
        BY <3>2, <3>3
    <2>8. IsChain(f, q) /\ Elements(q) \cap consumed = {}
      BY <1>1, <2>3, <2>4, <2>6, <2>7 DEF IsChain, V
    <2> QED
      BY <2>1, <2>4, <2>8 DEF ChainsOff, V
  <1> QED
    BY <1>2, <1>3

ChainRounds(h, f, start, consumed) ==
    h = [k \in 0..Len(f.nodes) |-> IF k = 0 THEN <<start>> ELSE ExtendChain(f, h[k - 1], consumed)]

LEMMA ChainExists ==
    ASSUME NEW f, IsDrawing(f), NEW consumed, NEW start \in NodeSet(f) \ consumed
    PROVE  /\ <<start>> \in ChainsOff(f, consumed)
           /\ \E h : ChainRounds(h, f, start, consumed)
  <1> DEFINE V == ChainsOff(f, consumed)
             g == [s \in V |-> ExtendChain(f, s, consumed)]
             n == Len(f.nodes)
             v == <<start>>
  <1>1. v \in V
    <2>1. v \in Seq(NodeSet(f)) /\ Elements(v) = {start} /\ Distinct(v)
      BY OneElement
    <2>2. v # <<>> /\ Len(v) = 1
      OBVIOUS
    <2> HIDE DEF v
    <2>3. \A i, j \in 1..1 : j # i + 1
      OBVIOUS
    <2>4. IsChain(f, v)
      BY <2>1, <2>2, <2>3 DEF IsChain
    <2> QED
      BY <2>1, <2>4 DEF ChainsOff
  <1>2. g \in [V -> V] /\ n \in Nat
    BY ExtendKeeps, Drawn
  <1>3. \A s \in V : g[s] = ExtendChain(f, s, consumed)
    OBVIOUS
  <1> HIDE DEF V, g, n, v
  <1>4. PICK h \in [0..n -> V] : RoundsOf(h, v, n, g)
    BY <1>1, <1>2, Rounds
  <1>5. \A k \in 0..n : h[k] = IF k = 0 THEN v ELSE g[h[k - 1]]
    BY <1>4, Zenon DEF RoundsOf
  <1>6. ASSUME NEW k \in 0..n PROVE h[k] = IF k = 0 THEN v ELSE ExtendChain(f, h[k - 1], consumed)
    <2>1. CASE k = 0
      BY <1>5, <2>1, Zenon
    <2>2. CASE k # 0
      <3>1. k - 1 \in 0..n
        BY <1>2, <2>2
      <3>2. h[k - 1] \in V
        BY <1>4, <3>1
      <3>3. h[k] = g[h[k - 1]]
        BY <1>5, <2>2, Zenon
      <3> QED
        BY <1>3, <2>2, <3>2, <3>3, Zenon
    <2> QED
      BY <2>1, <2>2
  <1>7. h = [k \in 0..n |-> IF k = 0 THEN v ELSE ExtendChain(f, h[k - 1], consumed)]
    BY <1>4, <1>6, Zenon
  <1> QED
    BY <1>1, <1>7 DEF ChainRounds, n, v, V

LEMMA ChainFromIs ==
    ASSUME NEW f, IsDrawing(f), NEW consumed, NEW start \in NodeSet(f) \ consumed
    PROVE  ChainFrom(f, start, consumed) \in ChainsOff(f, consumed)
  <1> DEFINE h == CHOOSE x : ChainRounds(x, f, start, consumed)
             n == Len(f.nodes)
             V == ChainsOff(f, consumed)
             v == <<start>>
  <1>1. ChainRounds(h, f, start, consumed) /\ v \in V
    BY ChainExists
  <1>2. ChainFrom(f, start, consumed) = h[n]
    BY Zenon DEF ChainFrom, ChainRounds
  <1>3. n \in Nat
    BY Drawn
  <1>4. \A k \in 0..n : h[k] = IF k = 0 THEN v ELSE ExtendChain(f, h[k - 1], consumed)
    BY <1>1, Zenon DEF ChainRounds
  <1> HIDE DEF h, n, v
  <1>5. h[0] = v /\ \A k \in 1..n : h[k] = ExtendChain(f, h[k - 1], consumed)
    <2>1. 0 \in 0..n /\ \A k \in 1..n : k \in 0..n /\ k # 0
      BY <1>3
    <2> QED
      BY <1>4, <2>1, Zenon
  <1> DEFINE P == {k \in 0..n : h[k] \in V}
  <1>6. P = 0..n
    <2> HIDE DEF V
    <2>1. 0 \in P
      BY <1>1, <1>3, <1>5
    <2>2. ASSUME NEW k \in 1..n, k - 1 \in P PROVE k \in P
      <3>1. h[k] \in V
        BY <1>5, <2>2, ExtendKeeps DEF V
      <3> QED
        BY <1>3, <3>1
    <2>3. P \in SUBSET (0..n)
      OBVIOUS
    <2> HIDE DEF P
    <2> QED
      BY <1>3, <2>1, <2>2, <2>3, Upward
  <1>7. n \in 0..n /\ h[n] \in V
    BY <1>3, <1>6
  <1> QED
    BY <1>2, <1>7

\* The chains that were found, no two of which share a node.
ChainLists(f) ==
    {cs \in Seq(Seq(NodeSet(f))) :
        /\ \A i \in 1..Len(cs) : IsChain(f, cs[i]) /\ Len(cs[i]) >= 2
        /\ \A i, j \in 1..Len(cs) : Elements(cs[i]) \cap Elements(cs[j]) # {} => i = j}

LEMMA AddChainKeeps ==
    ASSUME NEW f, IsDrawing(f), NEW cs \in ChainLists(f), NEW start \in NodeSet(f)
    PROVE  AddChain(f, cs, start) \in ChainLists(f)
  <1> DEFINE A == AllOf(cs)
             c == ChainFrom(f, start, A)
             q == Append(cs, c)
             T == Seq(NodeSet(f))
  <1>1. CASE f.kind[start] = "agent" /\ start \notin A /\ Len(c) >= 2
    <2>1. AddChain(f, cs, start) = q
      BY <1>1, Zenon DEF AddChain
    <2>2. c \in T /\ IsChain(f, c) /\ Elements(c) \cap A = {} /\ Len(c) >= 2
      <3> HIDE DEF A
      <3>1. c \in ChainsOff(f, A)
        BY <1>1, ChainFromIs
      <3> HIDE DEF c
      <3> QED
        BY <1>1, <3>1 DEF ChainsOff
    <2>3. /\ cs \in Seq(T)
          /\ \A i \in 1..Len(cs) : IsChain(f, cs[i]) /\ Len(cs[i]) >= 2
          /\ \A i, j \in 1..Len(cs) : Elements(cs[i]) \cap Elements(cs[j]) # {} => i = j
          /\ \A i \in 1..Len(cs) : Elements(cs[i]) \subseteq A
      BY DEF ChainLists, AllOf
    <2> HIDE DEF T, c, A
    <2>4. q \in Seq(T) /\ Appended(q, cs, c)
      BY <2>2, <2>3, AppendPlaces
    <2> HIDE DEF q
    <2>5. \A i \in 1..Len(q) :
              \/ i \in 1..Len(cs) /\ q[i] = cs[i]
              \/ i = Len(cs) + 1 /\ q[i] = c
      <3>1. /\ Len(cs) \in Nat /\ Len(q) = Len(cs) + 1 /\ q[Len(cs) + 1] = c
            /\ \A i \in 1..Len(cs) : q[i] = cs[i]
        BY <2>4 DEF Appended
      <3>2. \A i \in 1..Len(q) : i \in 1..Len(cs) \/ i = Len(cs) + 1
        BY <3>1
      <3> QED
        BY <3>1, <3>2
    <2>6. \A i \in 1..Len(q) : IsChain(f, q[i]) /\ Len(q[i]) >= 2
      BY <2>2, <2>3, <2>5
    <2>7. ASSUME NEW i \in 1..Len(q), NEW j \in 1..Len(q), Elements(q[i]) \cap Elements(q[j]) # {}
          PROVE  i = j
      <3>1. CASE i \in 1..Len(cs) /\ q[i] = cs[i] /\ j \in 1..Len(cs) /\ q[j] = cs[j]
        BY <2>3, <2>7, <3>1
      <3>2. CASE i \in 1..Len(cs) /\ q[i] = cs[i] /\ q[j] = c
        BY <2>2, <2>3, <2>7, <3>2
      <3>3. CASE q[i] = c /\ j \in 1..Len(cs) /\ q[j] = cs[j]
        BY <2>2, <2>3, <2>7, <3>3
      <3> QED
        BY <2>5, <3>1, <3>2, <3>3
    <2>8. q \in ChainLists(f)
      BY <2>4, <2>6, <2>7 DEF ChainLists, T
    <2> QED
      BY <2>1, <2>8
  <1>2. CASE ~ (f.kind[start] = "agent" /\ start \notin A /\ Len(c) >= 2)
    <2>1. AddChain(f, cs, start) = cs
      BY <1>2, Zenon DEF AddChain
    <2> QED
      BY <2>1
  <1> QED
    BY <1>1, <1>2

ChainListsOf(h, f, order) ==
    h = [k \in 0..Len(order) |-> IF k = 0 THEN <<>> ELSE AddChain(f, h[k - 1], order[k])]

LEMMA NoChains ==
    ASSUME NEW f PROVE <<>> \in ChainLists(f)
  BY DEF ChainLists

LEMMA ChainListsExist ==
    ASSUME NEW f, IsDrawing(f), NEW order \in Seq(NodeSet(f))
    PROVE  \E h : ChainListsOf(h, f, order)
  <1> DEFINE V == ChainLists(f)
             n == Len(order)
             G == [k \in 1..n |-> [s \in V |-> AddChain(f, s, order[k])]]
  <1>1. n \in Nat /\ \A k \in 1..n : order[k] \in NodeSet(f)
    OBVIOUS
  <1>2. \A k \in 1..n : \A s \in V : AddChain(f, s, order[k]) \in V
    BY <1>1, AddChainKeeps
  <1> HIDE DEF n, V
  <1>3. G \in StepsOn(n, V)
    <2>1. \A k \in 1..n : [s \in V |-> AddChain(f, s, order[k])] \in [V -> V]
      BY <1>2
    <2> QED
      BY <2>1 DEF StepsOn
  <1>4. \A k \in 1..n : \A s \in V : G[k][s] = AddChain(f, s, order[k])
    OBVIOUS
  <1>5. <<>> \in V
    BY NoChains DEF V
  <1> HIDE DEF G
  <1>6. PICK h \in Values(n, V) : Built(h, <<>>, n, G)
    BY <1>1, <1>3, <1>5, Steps
  <1>7. h \in [0..n -> V] /\ h[0] = <<>> /\ \A k \in 1..n : h[k] = G[k][h[k - 1]]
    BY <1>6 DEF Values, Built
  <1>8. ASSUME NEW k \in 0..n PROVE h[k] = IF k = 0 THEN <<>> ELSE AddChain(f, h[k - 1], order[k])
    <2>1. CASE k = 0
      BY <1>7, <2>1, Zenon
    <2>2. CASE k # 0
      <3>1. k - 1 \in 0..n /\ k \in 1..n
        BY <1>1, <2>2
      <3>2. h[k - 1] \in V /\ h[k] = G[k][h[k - 1]]
        BY <1>7, <3>1
      <3> QED
        BY <1>4, <2>2, <3>1, <3>2, Zenon
    <2> QED
      BY <2>1, <2>2
  <1>9. h = [k \in 0..n |-> IF k = 0 THEN <<>> ELSE AddChain(f, h[k - 1], order[k])]
    BY <1>7, <1>8, Zenon
  <1> QED
    BY <1>9 DEF ChainListsOf, n

LEMMA ChainsAre ==
    ASSUME NEW f, IsDrawing(f)
    PROVE  \E cs \in ChainLists(f) : CollapseChains(f) = Elements(cs)
  <1> DEFINE order == Walk(f).order
             h == CHOOSE x : ChainListsOf(x, f, order)
             n == Len(order)
             V == ChainLists(f)
  <1>1. order \in Seq(NodeSet(f))
    BY WalkDone
  <1>2. ChainListsOf(h, f, order)
    <2> HIDE DEF order
    <2> QED
      BY <1>1, ChainListsExist
  <1>3. CollapseChains(f) = Elements(h[n])
    BY Zenon DEF CollapseChains, ChainListsOf
  <1> HIDE DEF order, h
  <1>4. n \in Nat /\ \A k \in 1..n : order[k] \in NodeSet(f)
    BY <1>1
  <1>5. \A k \in 0..n : h[k] = IF k = 0 THEN <<>> ELSE AddChain(f, h[k - 1], order[k])
    BY <1>2, Zenon DEF ChainListsOf
  <1> HIDE DEF n
  <1>6. h[0] = <<>> /\ \A k \in 1..n : h[k] = AddChain(f, h[k - 1], order[k])
    <2>1. 0 \in 0..n /\ \A k \in 1..n : k \in 0..n /\ k # 0
      BY <1>4
    <2> QED
      BY <1>5, <2>1, Zenon
  <1> DEFINE P == {k \in 0..n : h[k] \in V}
  <1>7. P = 0..n
    <2> HIDE DEF V
    <2>1. 0 \in P
      BY <1>4, <1>6, NoChains DEF V
    <2>2. ASSUME NEW k \in 1..n, k - 1 \in P PROVE k \in P
      <3>1. h[k] \in V
        BY <1>4, <1>6, <2>2, AddChainKeeps DEF V
      <3> QED
        BY <1>4, <3>1
    <2>3. P \in SUBSET (0..n)
      OBVIOUS
    <2> HIDE DEF P
    <2> QED
      BY <1>4, <2>1, <2>2, <2>3, Upward
  <1>8. n \in 0..n /\ h[n] \in V
    BY <1>4, <1>7
  <1> QED
    BY <1>3, <1>8

\* The chains of a flow: each of at least two nodes, and no node in two of them.
LEMMA ChainsOfFlow ==
    ASSUME NEW f, IsDrawing(f)
    PROVE  /\ \A c \in CollapseChains(f) : IsChain(f, c) /\ Len(c) \in Nat /\ Len(c) >= 2
           /\ \A c, d \in CollapseChains(f) : Elements(c) \cap Elements(d) # {} => c = d
  <1>1. PICK cs \in ChainLists(f) : CollapseChains(f) = Elements(cs)
    BY ChainsAre
  <1>2. /\ \A i \in 1..Len(cs) : IsChain(f, cs[i]) /\ Len(cs[i]) >= 2
        /\ \A i, j \in 1..Len(cs) : Elements(cs[i]) \cap Elements(cs[j]) # {} => i = j
    BY DEF ChainLists
  <1>3. \A c \in Elements(cs) : \E i \in 1..Len(cs) : cs[i] = c
    BY DEF Elements
  <1>4. ASSUME NEW c \in Elements(cs) PROVE IsChain(f, c) /\ Len(c) \in Nat /\ Len(c) >= 2
    <2>1. IsChain(f, c) /\ Len(c) >= 2
      BY <1>2, <1>3
    <2>2. Len(c) \in Nat
      BY <2>1 DEF IsChain
    <2> QED
      BY <2>1, <2>2
  <1>5. ASSUME NEW c \in Elements(cs), NEW d \in Elements(cs), Elements(c) \cap Elements(d) # {}
        PROVE  c = d
    <2>1. PICK i \in 1..Len(cs) : cs[i] = c
      BY <1>3
    <2>2. PICK j \in 1..Len(cs) : cs[j] = d
      BY <1>3
    <2> QED
      BY <1>2, <1>5, <2>1, <2>2
  <1> QED
    BY <1>1, <1>4, <1>5

\* The inputs and outputs of the nodes of a chain.
LEMMA ChainInputs ==
    ASSUME NEW f, NEW c, IsChain(f, c), NEW i \in 1..Len(c), NEW j \in 1..Len(c), j = i + 1
    PROVE  Inputs(f, c[j]) = {c[i]} /\ \A x : c[i] \in Inputs(f, x) => x = c[j]
  <1>1. OnlyEdge(f, c[i], c[j])
    BY DEF IsChain
  <1> QED
    BY <1>1, OnlyEdgeIs

\* A chain lies on the cycles, or off them.
LEMMA ChainOffCycles ==
    ASSUME NEW f, NEW c, IsChain(f, c), NEW C, Circling(f, C), NEW i \in 1..Len(c)
    PROVE  c[i] \in C <=> c[1] \in C
  <1> DEFINE n == Len(c) - 1
             P == {k \in 0..n : c[k + 1] \in C <=> c[1] \in C}
  <1>1. Len(c) \in Nat
    BY DEF IsChain
  <1>2. n \in Nat /\ i - 1 \in 0..n /\ (i - 1) + 1 = i /\ Len(c) = n + 1
    BY <1>1
  <1> HIDE DEF n
  <1>3. 0 \in P
    BY <1>2
  <1>4. ASSUME NEW k \in 1..n, k - 1 \in P PROVE k \in P
    <2> DEFINE j == k + 1
    <2>1. j \in 1..Len(c) /\ k \in 1..Len(c) /\ k \in 0..n /\ (k - 1) + 1 = k
      BY <1>2
    <2>2. Inputs(f, c[j]) = {c[k]} /\ \A x : c[k] \in Inputs(f, x) => x = c[j]
      <3>1. j = k + 1
        OBVIOUS
      <3> HIDE DEF j
      <3>2. OnlyEdge(f, c[k], c[j])
        BY <2>1, <3>1 DEF IsChain
      <3> QED
        BY <3>2, OnlyEdgeIs
    <2>3. c[k] \in C <=> c[1] \in C
      BY <1>4, <2>1
    <2>4. c[k] \in C <=> c[j] \in C
      BY <2>1, <2>2 DEF Circling
    <2> QED
      BY <2>1, <2>3, <2>4
  <1>5. P = 0..n
    <2>1. P \in SUBSET (0..n)
      OBVIOUS
    <2> HIDE DEF P
    <2> QED
      BY <1>2, <1>3, <1>4, <2>1, Upward
  <1>6. i - 1 \in P
    BY <1>2, <1>5
  <1> QED
    BY <1>2, <1>6

-----------------------------------------------------------------------------
(* The phases of a drawing *)

LEMMA MeshesAre ==
    ASSUME NEW f, IsDrawing(f)
    PROVE  /\ MeshesOf(f) \in Meshes(f, CyclicOf(f)) /\ Apart(MeshesOf(f))
           /\ Circling(f, CyclicOf(f)) /\ CyclicOf(f) \subseteq NodeSet(f)
  <1> DEFINE cs == Walk(f).cycles
             C == CyclicOf(f)
  <1>1. cs \in Seq(Seq(NodeSet(f))) /\ \A i \in 1..Len(cs) : IsMesh(f, cs[i])
    BY WalkDone
  <1>2. C = AllOf(cs)
    BY DEF CyclicOf
  <1> HIDE DEF cs, C
  <1>3. cs \in Meshes(f, C)
    BY <1>1, <1>2 DEF Meshes
  <1>4. MergeCycles(cs) \in Meshes(f, C) /\ Apart(MergeCycles(cs))
    BY <1>3, MergeDone
  <1>5. \A n \in C : \E i \in 1..Len(cs) : n \in Elements(cs[i])
    BY <1>2 DEF AllOf
  <1>6. \A i \in 1..Len(cs) : Elements(cs[i]) \subseteq C
    BY <1>2 DEF AllOf
  <1>7. ASSUME NEW n \in C
        PROVE  n \in NodeSet(f) /\ Inputs(f, n) \cap C # {} /\ \E m \in C : n \in Inputs(f, m)
    <2>1. PICK i \in 1..Len(cs) : n \in Elements(cs[i])
      BY <1>5
    <2>2. Circling(f, Elements(cs[i])) /\ cs[i] \in Seq(NodeSet(f))
      BY <1>1 DEF IsMesh
    <2>3. Elements(cs[i]) \subseteq NodeSet(f)
      BY <2>2, ElementsOf
    <2> QED
      BY <1>6, <2>1, <2>2, <2>3 DEF Circling
  <1>8. Circling(f, C) /\ C \subseteq NodeSet(f)
    BY <1>7 DEF Circling
  <1> QED
    BY <1>4, <1>8 DEF MeshesOf, cs, C

\* Depths and chains that fit each other.
Leveled(f, U, g, chains) ==
    /\ U \subseteq NodeSet(f) /\ DOMAIN g = U /\ \A n \in U : g[n] \in Nat
    /\ \A n, m \in U : m \in Inputs(f, n) => g[m] < g[n]
    /\ \A n, m \in U : Inputs(f, n) = {m} => g[n] = g[m] + 1
    /\ \A c \in chains : IsChain(f, c) /\ Len(c) \in Nat /\ Len(c) >= 2
    /\ \A c, d \in chains : Elements(c) \cap Elements(d) # {} => c = d
    /\ \A c \in chains : \A i \in 1..Len(c) : c[i] \in U <=> c[1] \in U

\* The nodes of a chain are deeper and deeper.
LEMMA ChainDeepens ==
    ASSUME NEW f, NEW U, NEW g, NEW chains, Leveled(f, U, g, chains),
           NEW c \in chains, c[1] \in U, NEW i \in 1..Len(c)
    PROVE  c[i] \in U /\ g[c[1]] <= g[c[i]]
  <1> DEFINE n == Len(c) - 1
             P == {k \in 0..n : g[c[1]] <= g[c[k + 1]]}
  <1>0. /\ \A x \in U : g[x] \in Nat
        /\ \A x, y \in U : Inputs(f, x) = {y} => g[x] = g[y] + 1
        /\ \A k \in 1..Len(c) : c[k] \in U
        /\ IsChain(f, c)
    BY DEF Leveled
  <1>1. Len(c) \in Nat
    BY <1>0 DEF IsChain
  <1>2. n \in Nat /\ i - 1 \in 0..n /\ (i - 1) + 1 = i /\ Len(c) = n + 1
    BY <1>1
  <1> HIDE DEF n
  <1>3. 0 \in P
    <2>1. 1 \in 1..Len(c) /\ 0 + 1 = 1 /\ 0 \in 0..n
      BY <1>2
    <2>2. g[c[1]] \in Nat
      BY <1>0, <2>1
    <2>3. g[c[1]] <= g[c[0 + 1]]
      BY <2>2
    <2> QED
      BY <2>1, <2>3
  <1>4. ASSUME NEW k \in 1..n, k - 1 \in P PROVE k \in P
    <2> DEFINE j == k + 1
    <2>1. /\ j \in 1..Len(c) /\ k \in 0..n /\ (k - 1) + 1 = k
          /\ k \in 1..Len(c) /\ 1 \in 1..Len(c)
      BY <1>2
    <2>2. Inputs(f, c[j]) = {c[k]}
      <3>1. j = k + 1
        OBVIOUS
      <3> HIDE DEF j
      <3>2. OnlyEdge(f, c[k], c[j])
        BY <1>0, <2>1, <3>1 DEF IsChain
      <3> QED
        BY <3>2, OnlyEdgeIs
    <2>3. g[c[1]] <= g[c[k]]
      BY <1>4, <2>1
    <2>4. g[c[j]] = g[c[k]] + 1
      BY <1>0, <2>1, <2>2
    <2>5. g[c[1]] \in Nat /\ g[c[k]] \in Nat /\ g[c[j]] \in Nat
      BY <1>0, <2>1
    <2>6. g[c[1]] <= g[c[j]]
      BY <2>3, <2>4, <2>5
    <2> QED
      BY <2>1, <2>6
  <1>5. P = 0..n
    <2>1. P \in SUBSET (0..n)
      OBVIOUS
    <2> HIDE DEF P
    <2> QED
      BY <1>2, <1>3, <1>4, <2>1, Upward
  <1>6. i - 1 \in P
    BY <1>2, <1>5
  <1> QED
    BY <1>0, <1>2, <1>6

LEMMA FlowLeveled ==
    ASSUME NEW f, IsDrawing(f)
    PROVE  Leveled(f, Acyclic(f), DepthsOf(f), CollapseChains(f))
  <1> DEFINE U == Acyclic(f)
             C == CyclicOf(f)
             g == DepthsOf(f)
  <1>0. U = NodeSet(f) \ C
    BY DEF Acyclic
  <1>1. /\ DOMAIN g = U /\ \A n \in U : g[n] \in 0..Cardinality(U)
        /\ \A n, m \in U : m \in Inputs(f, n) => g[m] < g[n]
        /\ \A n, m \in U : Inputs(f, n) = {m} => g[n] = g[m] + 1
    BY DepthsOfFlow
  <1> HIDE DEF U, C, g
  <1>2. \A n \in U : g[n] \in Nat
    BY <1>1
  <1>4. ASSUME NEW c \in CollapseChains(f), NEW i \in 1..Len(c) PROVE c[i] \in U <=> c[1] \in U
    <2>1. IsChain(f, c) /\ Len(c) \in Nat /\ Len(c) >= 2
      BY ChainsOfFlow
    <2>2. c[i] \in C <=> c[1] \in C
      <3>1. Circling(f, C)
        BY MeshesAre DEF C
      <3> QED
        BY <2>1, <3>1, ChainOffCycles
    <2>3. c[i] \in NodeSet(f) /\ c[1] \in NodeSet(f)
      <3>1. c \in Seq(NodeSet(f)) /\ 1 \in 1..Len(c)
        BY <2>1 DEF IsChain
      <3> QED
        BY <3>1
    <2> QED
      BY <1>0, <2>2, <2>3
  <1>5. Leveled(f, U, g, CollapseChains(f))
    BY <1>0, <1>1, <1>2, <1>4, ChainsOfFlow DEF Leveled
  <1> QED
    BY <1>5 DEF U, g

\* The units of a depth.
IsCollapsed(u, chains, g, d) ==
    \E c \in chains : u = Unit("collapsed", c) /\ c[1] \in DOMAIN g /\ g[c[1]] = d
IsSingle(u, chains, g, d) ==
    \E n \in DOMAIN g : /\ u = Unit("single", <<n>>) /\ g[n] = d
                        /\ \A c \in chains : n \notin Elements(c)

LEMMA PhaseHas ==
    ASSUME NEW chains, NEW g, NEW d, NEW u
    PROVE  u \in PhaseAt(chains, g, d) <=> IsCollapsed(u, chains, g, d) \/ IsSingle(u, chains, g, d)
  BY DEF PhaseAt, IsCollapsed, IsSingle

LEMMA UnitIs ==
    ASSUME NEW t, NEW s PROVE Unit(t, s).type = t /\ Unit(t, s).nodes = s
  BY DEF Unit

LEMMA OneIsChain ==
    ASSUME NEW f, NEW n \in NodeSet(f) PROVE IsChain(f, <<n>>) /\ Len(<<n>>) = 1 /\ <<n>>[1] = n
  <1> DEFINE v == <<n>>
  <1>1. v \in Seq(NodeSet(f)) /\ Elements(v) = {n} /\ Distinct(v)
    BY OneElement
  <1>2. v # <<>> /\ Len(v) = 1 /\ v[1] = n
    OBVIOUS
  <1> HIDE DEF v
  <1>3. \A i, j \in 1..1 : j # i + 1
    OBVIOUS
  <1>4. IsChain(f, v)
    BY <1>1, <1>2, <1>3 DEF IsChain
  <1> QED
    BY <1>2, <1>4 DEF v

\* A unit of depth d: a chain of one node or more, that begins at this depth.
FitsAt(f, U, g, u, d) ==
    /\ u \in [type : {"single", "collapsed", "mesh"}, nodes : Seq(NodeSet(f))]
    /\ IsChain(f, u.nodes) /\ Len(u.nodes) \in Nat /\ Len(u.nodes) >= 1
    /\ u.type = "single" => Len(u.nodes) = 1
    /\ Len(u.nodes) > 1 => u.type = "collapsed"
    /\ \A k \in 1..Len(u.nodes) : u.nodes[k] \in U /\ d <= g[u.nodes[k]]
    /\ g[u.nodes[1]] = d

LEMMA UnitFits ==
    ASSUME NEW f, NEW U, NEW g, NEW chains, Leveled(f, U, g, chains),
           NEW d, NEW u \in PhaseAt(chains, g, d)
    PROVE  FitsAt(f, U, g, u, d)
  <1>0. /\ U \subseteq NodeSet(f) /\ DOMAIN g = U /\ \A n \in U : g[n] \in Nat
        /\ \A n, m \in U : Inputs(f, n) = {m} => g[n] = g[m] + 1
    BY DEF Leveled
  <1>1. CASE IsCollapsed(u, chains, g, d)
    <2>1. PICK c \in chains : u = Unit("collapsed", c) /\ c[1] \in U /\ g[c[1]] = d
      BY <1>0, <1>1 DEF IsCollapsed
    <2>2. u.type = "collapsed" /\ u.nodes = c
      BY <2>1, UnitIs
    <2>3. IsChain(f, c) /\ Len(c) \in Nat /\ Len(c) >= 2 /\ \A i \in 1..Len(c) : c[i] \in U
      BY <2>1 DEF Leveled
    <2>4. c \in Seq(NodeSet(f))
      BY <2>3 DEF IsChain
    <2>5. u \in [type : {"single", "collapsed", "mesh"}, nodes : Seq(NodeSet(f))]
      BY <2>1, <2>4 DEF Unit
    <2>6. \A k \in 1..Len(c) : d <= g[c[k]]
      BY <2>1, ChainDeepens
    <2> QED
      BY <2>1, <2>2, <2>3, <2>5, <2>6 DEF FitsAt
  <1>2. CASE IsSingle(u, chains, g, d)
    <2>1. PICK n \in U : u = Unit("single", <<n>>) /\ g[n] = d
      BY <1>0, <1>2 DEF IsSingle
    <2> DEFINE c == <<n>>
    <2>2. u.type = "single" /\ u.nodes = c
      BY <2>1, UnitIs
    <2>3. IsChain(f, c) /\ Len(c) = 1 /\ c[1] = n
      BY <1>0, OneIsChain
    <2>4. c \in Seq(NodeSet(f))
      BY <2>3 DEF IsChain
    <2>5. u \in [type : {"single", "collapsed", "mesh"}, nodes : Seq(NodeSet(f))]
      BY <2>1, <2>4 DEF Unit
    <2> HIDE DEF c
    <2>6. g[n] \in Nat
      BY <1>0
    <2>7. \A k \in 1..Len(c) : c[k] \in U /\ d <= g[c[k]]
      <3> SUFFICES ASSUME NEW k \in 1..Len(c) PROVE c[k] \in U /\ d <= g[c[k]]
        OBVIOUS
      <3>1. k = 1
        BY <2>3
      <3>2. c[k] = n
        BY <2>3, <3>1
      <3> QED
        BY <2>1, <2>6, <3>2
    <2>8. Len(c) \in Nat /\ Len(c) >= 1 /\ ~ (Len(c) > 1) /\ g[c[1]] = d
      BY <2>1, <2>3
    <2>9. /\ IsChain(f, u.nodes) /\ Len(u.nodes) \in Nat /\ Len(u.nodes) >= 1
          /\ Len(u.nodes) = 1 /\ ~ (Len(u.nodes) > 1) /\ g[u.nodes[1]] = d
      BY <2>2, <2>3, <2>8, Zenon
    <2>10. \A k \in 1..Len(u.nodes) : u.nodes[k] \in U /\ d <= g[u.nodes[k]]
      BY <2>2, <2>7, Zenon
    <2> QED
      BY <2>5, <2>9, <2>10, Zenon DEF FitsAt
  <1> QED
    BY <1>1, <1>2, PhaseHas

\* A node of U stands in a unit of the depth of some node.
LEMMA UnitExists ==
    ASSUME NEW f, NEW U, NEW g, NEW chains, Leveled(f, U, g, chains), NEW n \in U
    PROVE  \E m \in U : \E u \in PhaseAt(chains, g, g[m]) : n \in Elements(u.nodes)
  <1>0. U \subseteq NodeSet(f) /\ DOMAIN g = U
    BY DEF Leveled
  <1>1. CASE \E c \in chains : n \in Elements(c)
    <2>1. PICK c \in chains : n \in Elements(c)
      BY <1>1
    <2>2. PICK i \in 1..Len(c) : c[i] = n
      BY <2>1 DEF Elements
    <2>3. c[1] \in U
      BY <2>2 DEF Leveled
    <2> DEFINE u == Unit("collapsed", c)
    <2>4. IsCollapsed(u, chains, g, g[c[1]])
      BY <1>0, <2>3 DEF IsCollapsed
    <2>5. u.nodes = c
      BY UnitIs
    <2> HIDE DEF u
    <2> QED
      BY <2>1, <2>3, <2>4, <2>5, PhaseHas
  <1>2. CASE \A c \in chains : n \notin Elements(c)
    <2> DEFINE u == Unit("single", <<n>>)
    <2>1. IsSingle(u, chains, g, g[n])
      BY <1>0, <1>2 DEF IsSingle
    <2>2. u.nodes = <<n>>
      BY UnitIs
    <2>3. Elements(<<n>>) = {n}
      BY OneElement
    <2> HIDE DEF u
    <2>4. u \in PhaseAt(chains, g, g[n]) /\ n \in Elements(u.nodes)
      BY <2>1, <2>2, <2>3, PhaseHas
    <2> QED
      BY <2>4
  <1> QED
    BY <1>1, <1>2

\* A node stands once in one unit.
LEMMA SameUnit ==
    ASSUME NEW f, NEW U, NEW g, NEW chains, Leveled(f, U, g, chains),
           NEW d, NEW u \in PhaseAt(chains, g, d), NEW e, NEW v \in PhaseAt(chains, g, e),
           NEW k \in 1..Len(u.nodes), NEW l \in 1..Len(v.nodes), u.nodes[k] = v.nodes[l]
    PROVE  d = e /\ u = v /\ k = l
  <1>1. FitsAt(f, U, g, u, d) /\ FitsAt(f, U, g, v, e)
    BY UnitFits
  <1>2. u.nodes[k] \in Elements(u.nodes) /\ u.nodes[k] \in Elements(v.nodes)
    BY DEF Elements
  <1>3. ASSUME u = v PROVE d = e /\ k = l
    <2>1. d = e
      BY <1>1, <1>3 DEF FitsAt
    <2>2. Distinct(u.nodes)
      BY <1>1 DEF FitsAt, IsChain
    <2>3. k = l
      BY <1>3, <2>2 DEF Distinct
    <2> QED
      BY <2>1, <2>3
  <1>4. \A a, b : IsSingle(a, chains, g, b) =>
            \E n : a = Unit("single", <<n>>) /\ Elements(a.nodes) = {n}
                   /\ \A c \in chains : n \notin Elements(c)
    <2> SUFFICES ASSUME NEW a, NEW n, a = Unit("single", <<n>>), \A c \in chains : n \notin Elements(c)
                 PROVE  Elements(a.nodes) = {n}
      BY DEF IsSingle
    <2>1. a.nodes = <<n>>
      BY UnitIs
    <2> QED
      BY <2>1, OneElement
  <1>5. \A a, b : IsCollapsed(a, chains, g, b) =>
            \E c \in chains : a = Unit("collapsed", c) /\ Elements(a.nodes) = Elements(c)
    BY UnitIs DEF IsCollapsed
  <1>6. CASE IsCollapsed(u, chains, g, d) /\ IsCollapsed(v, chains, g, e)
    <2>1. PICK c \in chains : u = Unit("collapsed", c) /\ Elements(u.nodes) = Elements(c)
      BY <1>5, <1>6
    <2>2. PICK b \in chains : v = Unit("collapsed", b) /\ Elements(v.nodes) = Elements(b)
      BY <1>5, <1>6
    <2>3. c = b
      BY <1>2, <2>1, <2>2 DEF Leveled
    <2> QED
      BY <1>3, <2>1, <2>2, <2>3
  <1>7. CASE IsSingle(u, chains, g, d) /\ IsSingle(v, chains, g, e)
    <2>1. PICK n : u = Unit("single", <<n>>) /\ Elements(u.nodes) = {n}
      BY <1>4, <1>7, Zenon
    <2>2. PICK m : v = Unit("single", <<m>>) /\ Elements(v.nodes) = {m}
      BY <1>4, <1>7, Zenon
    <2>3. n = m
      BY <1>2, <2>1, <2>2
    <2> QED
      BY <1>3, <2>1, <2>2, <2>3
  <1>8. CASE IsSingle(u, chains, g, d) /\ IsCollapsed(v, chains, g, e)
    <2>1. PICK n : Elements(u.nodes) = {n} /\ \A c \in chains : n \notin Elements(c)
      BY <1>4, <1>8, Zenon
    <2>2. PICK c \in chains : Elements(v.nodes) = Elements(c)
      BY <1>5, <1>8
    <2> QED
      BY <1>2, <2>1, <2>2
  <1>9. CASE IsCollapsed(u, chains, g, d) /\ IsSingle(v, chains, g, e)
    <2>1. PICK n : Elements(v.nodes) = {n} /\ \A c \in chains : n \notin Elements(c)
      BY <1>4, <1>9, Zenon
    <2>2. PICK c \in chains : Elements(u.nodes) = Elements(c)
      BY <1>5, <1>9
    <2> QED
      BY <1>2, <2>1, <2>2
  <1> QED
    BY <1>6, <1>7, <1>8, <1>9, PhaseHas

\* An edge leads to a later depth or to the next node of a chain.
LEMMA EdgeOfUnits ==
    ASSUME NEW f, NEW U, NEW g, NEW chains, Leveled(f, U, g, chains),
           NEW d, NEW u \in PhaseAt(chains, g, d), NEW e, NEW v \in PhaseAt(chains, g, e),
           NEW k \in 1..Len(u.nodes), NEW l \in 1..Len(v.nodes),
           u.nodes[k] \in Inputs(f, v.nodes[l])
    PROVE  /\ d \in Nat /\ e \in Nat
           /\ d < e \/ (u = v /\ u.type = "collapsed" /\ l = k + 1)
  <1>1. FitsAt(f, U, g, u, d) /\ FitsAt(f, U, g, v, e)
    BY UnitFits
  <1>2. /\ \A n \in U : g[n] \in Nat
        /\ \A n, m \in U : m \in Inputs(f, n) => g[m] < g[n]
    BY DEF Leveled
  <1>3. d \in Nat /\ e \in Nat
    <2>1. 1 \in 1..Len(u.nodes) /\ 1 \in 1..Len(v.nodes)
      BY <1>1 DEF FitsAt
    <2> QED
      BY <1>1, <1>2, <2>1 DEF FitsAt
  <1>4. CASE l = 1
    <2>1. u.nodes[k] \in U /\ v.nodes[l] \in U /\ d <= g[u.nodes[k]] /\ g[v.nodes[l]] = e
      BY <1>1, <1>4 DEF FitsAt
    <2>2. g[u.nodes[k]] < g[v.nodes[l]] /\ g[u.nodes[k]] \in Nat
      BY <1>2, <2>1
    <2> QED
      BY <1>3, <2>1, <2>2
  <1>5. CASE l # 1
    <2> DEFINE j == l - 1
    <2>1. Len(v.nodes) \in Nat /\ IsChain(f, v.nodes) /\ (Len(v.nodes) > 1 => v.type = "collapsed")
      BY <1>1 DEF FitsAt
    <2>2. j \in 1..Len(v.nodes) /\ l = j + 1 /\ Len(v.nodes) > 1
      BY <1>5, <2>1
    <2> HIDE DEF j
    <2>3. OnlyEdge(f, v.nodes[j], v.nodes[l])
      BY <2>1, <2>2 DEF IsChain
    <2>4. u.nodes[k] = v.nodes[j]
      BY <2>3, OnlyEdgeIs
    <2>5. u = v /\ k = j
      BY <2>2, <2>4, SameUnit
    <2> QED
      BY <1>3, <2>1, <2>2, <2>5
  <1> QED
    BY <1>4, <1>5

\* The first n phases are those of the depths h[1], ..., h[n], which grow; the others are
\* the meshes.
LaidOut(q, n, h, chains, g, ms) ==
    /\ n \in Nat /\ Len(ms) \in Nat /\ Len(q) = n + Len(ms)
    /\ \A i \in 1..n : h[i] \in Nat /\ q[i] = PhaseAt(chains, g, h[i])
    /\ \A i, j \in 1..n : i < j => h[i] < h[j]
    /\ \A i \in 1..Len(ms) : q[n + i] = {Unit("mesh", ms[i])}
    /\ \A m \in DOMAIN g : PhaseAt(chains, g, g[m]) # {} => \E i \in 1..n : h[i] = g[m]

LEMMA PhaseUnits ==
    ASSUME NEW f, NEW U, NEW g, NEW chains, Leveled(f, U, g, chains), NEW d
    PROVE  PhaseAt(chains, g, d) \subseteq UnitsOf(f)
  <1> SUFFICES ASSUME NEW u \in PhaseAt(chains, g, d) PROVE u \in UnitsOf(f)
    OBVIOUS
  <1>1. FitsAt(f, U, g, u, d)
    BY UnitFits
  <1>2. /\ u \in [type : {"single", "collapsed", "mesh"}, nodes : Seq(NodeSet(f))]
        /\ u.type = "single" => Len(u.nodes) = 1
        /\ u.nodes # <<>>
    BY <1>1 DEF FitsAt, IsChain
  <1> QED
    BY <1>2 DEF UnitsOf

LEMMA MeshUnit ==
    ASSUME NEW f, NEW c, IsMesh(f, c)
    PROVE  {Unit("mesh", c)} \subseteq UnitsOf(f)
  <1> DEFINE u == Unit("mesh", c)
  <1>1. u.type = "mesh" /\ u.nodes = c
    BY UnitIs
  <1>2. c \in Seq(NodeSet(f)) /\ c # <<>>
    BY NoElements DEF IsMesh
  <1>3. u \in [type : {"single", "collapsed", "mesh"}, nodes : Seq(NodeSet(f))]
    BY <1>2 DEF Unit
  <1> HIDE DEF u
  <1>4. u \in UnitsOf(f)
    BY <1>1, <1>2, <1>3 DEF UnitsOf
  <1> QED
    BY <1>4 DEF u

LevelsTo(top, chains, g) == [i \in 1..(top + 1) |-> PhaseAt(chains, g, i - 1)]
MeshPhases(ms) == [i \in 1..Len(ms) |-> {Unit("mesh", ms[i])}]

\* The phases of the depths, with the empty ones left out, and those of the meshes.
LEMMA LaidOutWith ==
    ASSUME NEW f, NEW U, NEW g, NEW chains, Leveled(f, U, g, chains),
           NEW top \in Nat, \A m \in U : g[m] <= top,
           NEW A, NEW ms \in Meshes(f, A),
           NEW I, \A i \in 1..(top + 1) : i \in I <=> LevelsTo(top, chains, g)[i] # {}
    PROVE  /\ Keep(LevelsTo(top, chains, g), I) \o MeshPhases(ms) \in Seq(SUBSET UnitsOf(f))
           /\ \E n, h : LaidOut(Keep(LevelsTo(top, chains, g), I) \o MeshPhases(ms),
                                n, h, chains, g, ms)
  <1> DEFINE S == SUBSET UnitsOf(f)
             levels == LevelsTo(top, chains, g)
             kept == Keep(levels, I)
             meshes == MeshPhases(ms)
             q == kept \o meshes
             n == Len(kept)
  <1>0. top + 1 \in Nat
    OBVIOUS
  <1>1. /\ levels \in Seq(S) /\ Len(levels) = top + 1
        /\ \A i \in 1..(top + 1) : levels[i] = PhaseAt(chains, g, i - 1)
    <2> DEFINE t == top + 1
    <2>1. \A i \in 1..t : PhaseAt(chains, g, i - 1) \in S
      BY PhaseUnits
    <2>2. levels = [i \in 1..t |-> PhaseAt(chains, g, i - 1)]
      BY DEF LevelsTo
    <2> HIDE DEF t, S, levels
    <2>3. levels \in Seq(S) /\ Len(levels) = t /\ \A i \in 1..t : levels[i] = PhaseAt(chains, g, i - 1)
      BY <1>0, <2>1, <2>2 DEF t
    <2> QED
      BY <2>3 DEF t
  <1>2. /\ meshes \in Seq(S) /\ Len(ms) \in Nat /\ Len(meshes) = Len(ms)
        /\ \A i \in 1..Len(ms) : meshes[i] = {Unit("mesh", ms[i])}
    <2> DEFINE t == Len(ms)
               T == Seq(NodeSet(f))
    <2>1. ms \in Seq(T)
      BY DEF Meshes
    <2>2. t \in Nat
      <3> HIDE DEF T
      <3> QED
        BY <2>1
    <2>3. \A i \in 1..t : {Unit("mesh", ms[i])} \in S
      BY MeshUnit DEF Meshes
    <2>4. meshes = [i \in 1..t |-> {Unit("mesh", ms[i])}]
      BY DEF MeshPhases
    <2> HIDE DEF t, S, meshes
    <2>5. meshes \in Seq(S) /\ Len(meshes) = t /\ \A i \in 1..t : meshes[i] = {Unit("mesh", ms[i])}
      BY <2>2, <2>3, <2>4
    <2> QED
      BY <2>2, <2>5 DEF t
  <1>3. \A i \in 1..(top + 1) : i \in I <=> levels[i] # {}
    OBVIOUS
  <1> HIDE DEF S, levels, meshes
  <1>4. PICK p : kept \in Seq(S) /\ TakenAt(p, kept, levels, I)
    BY <1>1, KeepTakes
  <1> HIDE DEF kept
  <1>5. q \in Seq(S)
    BY <1>2, <1>4
  <1>6. Joined(q, kept, meshes)
    BY <1>2, <1>4, JoinPlaces
  <1> HIDE DEF q
  <1>7. n \in Nat
    BY <1>4
  <1>8. /\ p \in [1..n -> 1..(top + 1)] /\ Increasing(p, n)
        /\ \A i \in 1..n : kept[i] = levels[p[i]] /\ p[i] \in I
        /\ \A j \in 1..(top + 1) : j \in I => \E i \in 1..n : p[i] = j
    BY <1>1, <1>4 DEF TakenAt
  <1> HIDE DEF n
  <1> DEFINE h == [i \in 1..n |-> p[i] - 1]
  <1>9. \A i \in 1..n : h[i] \in Nat /\ p[i] = h[i] + 1 /\ h[i] = p[i] - 1
    BY <1>0, <1>7, <1>8
  <1> HIDE DEF h
  <1>10. \A i \in 1..n : q[i] = PhaseAt(chains, g, h[i])
    <2> SUFFICES ASSUME NEW i \in 1..n PROVE q[i] = PhaseAt(chains, g, h[i])
      OBVIOUS
    <2>1. q[i] = kept[i]
      BY <1>6 DEF Joined, n
    <2>2. kept[i] = levels[p[i]] /\ p[i] \in 1..(top + 1)
      BY <1>8
    <2>3. levels[p[i]] = PhaseAt(chains, g, p[i] - 1)
      BY <1>1, <2>2
    <2> QED
      BY <1>9, <2>1, <2>2, <2>3
  <1>11. \A i, j \in 1..n : i < j => h[i] < h[j]
    <2> SUFFICES ASSUME NEW i \in 1..n, NEW j \in 1..n, i < j PROVE h[i] < h[j]
      OBVIOUS
    <2>1. p[i] < p[j]
      BY <1>8 DEF Increasing
    <2> QED
      BY <1>9, <2>1
  <1>12. \A i \in 1..Len(ms) : q[n + i] = {Unit("mesh", ms[i])}
    BY <1>2, <1>6 DEF Joined, n
  <1>13. ASSUME NEW m \in DOMAIN g, PhaseAt(chains, g, g[m]) # {} PROVE \E i \in 1..n : h[i] = g[m]
    <2> DEFINE j == g[m] + 1
    <2>1. g[m] \in Nat /\ g[m] <= top
      BY <1>13 DEF Leveled
    <2>2. j \in 1..(top + 1) /\ j - 1 = g[m]
      BY <2>1
    <2> HIDE DEF j
    <2>3. j \in I
      BY <1>1, <1>3, <1>13, <2>2
    <2>4. PICK i \in 1..n : p[i] = j
      BY <1>8, <2>2, <2>3
    <2> QED
      BY <1>9, <2>2, <2>4
  <1>14. Len(q) = n + Len(ms)
    BY <1>2, <1>6 DEF Joined, n
  <1>15. LaidOut(q, n, h, chains, g, ms)
    BY <1>2, <1>7, <1>9, <1>10, <1>11, <1>12, <1>13, <1>14 DEF LaidOut
  <1> QED
    BY <1>5, <1>15 DEF q, kept, levels, meshes, S

LEMMA PhasesLaidOut ==
    ASSUME NEW f, IsDrawing(f)
    PROVE  /\ CompileStrategy(f) \in Seq(SUBSET UnitsOf(f))
           /\ \E n, h : LaidOut(CompileStrategy(f), n, h, CollapseChains(f), DepthsOf(f), MeshesOf(f))
  <1> DEFINE chains == CollapseChains(f)
             g == DepthsOf(f)
             ms == MeshesOf(f)
             U == Acyclic(f)
             T == {0} \cup {g[n] : n \in DOMAIN g}
             top == Max(T)
             I == {i \in 1..(top + 1) : LevelsTo(top, chains, g)[i] # {}}
  <1>1. Leveled(f, U, g, chains)
    BY FlowLeveled
  <1>2. ms \in Meshes(f, CyclicOf(f))
    BY MeshesAre
  <1>3. Cardinality(U) \in Nat /\ DOMAIN g = U /\ \A n \in U : g[n] \in 0..Cardinality(U)
    BY DepthsOfFlow
  <1>4. top \in Nat /\ \A m \in U : g[m] <= top
    <2> DEFINE b == Cardinality(U)
    <2>1. T \in SUBSET Nat /\ T # {} /\ \A y \in T : y <= b
      BY <1>3
    <2>2. Max(T) \in T /\ \A y \in T : y <= Max(T)
      <3> HIDE DEF T
      <3> QED
        BY <1>3, <2>1, MaxIs
    <2>3. \A m \in U : g[m] \in T
      BY <1>3
    <2> HIDE DEF T
    <2> QED
      BY <2>1, <2>2, <2>3
  <1>5. CompileStrategy(f) = Keep(LevelsTo(top, chains, g), I) \o MeshPhases(ms)
    BY Zenon DEF CompileStrategy, LevelsTo, MeshPhases, MeshesOf, DepthsOf, CyclicOf
  <1> HIDE DEF top
  <1>6. \A i \in 1..(top + 1) : i \in I <=> LevelsTo(top, chains, g)[i] # {}
    OBVIOUS
  <1> HIDE DEF chains, g, ms, U, I, T
  <1>7. /\ Keep(LevelsTo(top, chains, g), I) \o MeshPhases(ms) \in Seq(SUBSET UnitsOf(f))
        /\ \E n, h : LaidOut(Keep(LevelsTo(top, chains, g), I) \o MeshPhases(ms), n, h, chains, g, ms)
    BY <1>1, <1>2, <1>4, <1>6, LaidOutWith
  <1> QED
    BY <1>5, <1>7 DEF chains, g, ms

\* A phase of a depth, or of a mesh.
LEMMA PhaseKinds ==
    ASSUME NEW q, NEW n, NEW h, NEW chains, NEW g, NEW ms, LaidOut(q, n, h, chains, g, ms),
           NEW i \in 1..Len(q), NEW u \in q[i]
    PROVE  \/ i \in 1..n /\ u \in PhaseAt(chains, g, h[i])
           \/ i > n /\ \E x \in 1..Len(ms) : i = n + x /\ u = Unit("mesh", ms[x])
  <1>1. n \in Nat /\ Len(ms) \in Nat /\ Len(q) = n + Len(ms)
    BY DEF LaidOut
  <1>2. CASE i <= n
    <2>1. i \in 1..n
      BY <1>1, <1>2
    <2> QED
      BY <2>1 DEF LaidOut
  <1>3. CASE i > n
    <2> DEFINE x == i - n
    <2>1. x \in 1..Len(ms) /\ i = n + x
      BY <1>1, <1>3
    <2> HIDE DEF x
    <2>2. q[n + x] = {Unit("mesh", ms[x])}
      BY <2>1 DEF LaidOut
    <2> QED
      BY <1>3, <2>1, <2>2
  <1> QED
    BY <1>1, <1>2, <1>3

\* Where the nodes of a unit are: off the cycles, or on them.
LEMMA UnitNodes ==
    ASSUME NEW f, IsDrawing(f), NEW q, NEW n, NEW h,
           LaidOut(q, n, h, CollapseChains(f), DepthsOf(f), MeshesOf(f)),
           NEW i \in 1..Len(q), NEW u \in q[i], NEW k \in 1..Len(u.nodes)
    PROVE  /\ i \in 1..n => u.nodes[k] \in Acyclic(f)
           /\ i > n => u.nodes[k] \in CyclicOf(f)
  <1> DEFINE chains == CollapseChains(f)
             g == DepthsOf(f)
             ms == MeshesOf(f)
  <1>1. Leveled(f, Acyclic(f), g, chains) /\ ms \in Meshes(f, CyclicOf(f))
    BY FlowLeveled, MeshesAre
  <1>2. LaidOut(q, n, h, chains, g, ms)
    OBVIOUS
  <1> HIDE DEF chains, g, ms
  <1>3. n \in Nat /\ Len(ms) \in Nat
    BY <1>2 DEF LaidOut
  <1>4. ASSUME i \in 1..n PROVE u.nodes[k] \in Acyclic(f)
    <2>1. u \in PhaseAt(chains, g, h[i])
      BY <1>2, <1>4 DEF LaidOut
    <2>2. FitsAt(f, Acyclic(f), g, u, h[i])
      BY <1>1, <2>1, UnitFits
    <2> QED
      BY <2>2 DEF FitsAt
  <1>5. ASSUME i > n PROVE u.nodes[k] \in CyclicOf(f)
    <2>1. i \notin 1..n
      BY <1>3, <1>5
    <2>2. PICK x \in 1..Len(ms) : i = n + x /\ u = Unit("mesh", ms[x])
      BY <1>2, <2>1, PhaseKinds
    <2>3. u.nodes = ms[x]
      BY <2>2, UnitIs
    <2>4. u.nodes[k] \in Elements(ms[x])
      BY <2>3 DEF Elements
    <2>5. AllOf(ms) = CyclicOf(f)
      BY <1>1 DEF Meshes
    <2> QED
      BY <2>4, <2>5 DEF AllOf
  <1> QED
    BY <1>4, <1>5

\* One node has one place; an edge off the cycles leads to a later phase or along a chain.
PlacedOnce(f, i, u, k, j, v, l) ==
    /\ u.nodes[k] = v.nodes[l] => i = j /\ u = v /\ k = l
    /\ u.nodes[k] \in Inputs(f, v.nodes[l]) \ EntangledIn(f) =>
           i < j \/ (i = j /\ u = v /\ u.type = "collapsed" /\ l = k + 1)

LEMMA OnePlace ==
    ASSUME NEW f, IsDrawing(f), NEW q, NEW n, NEW h,
           LaidOut(q, n, h, CollapseChains(f), DepthsOf(f), MeshesOf(f)),
           NEW i \in 1..Len(q), NEW u \in q[i], NEW k \in 1..Len(u.nodes),
           NEW j \in 1..Len(q), NEW v \in q[j], NEW l \in 1..Len(v.nodes)
    PROVE  PlacedOnce(f, i, u, k, j, v, l)
  <1> SUFFICES /\ u.nodes[k] = v.nodes[l] => i = j /\ u = v /\ k = l
               /\ u.nodes[k] \in Inputs(f, v.nodes[l]) \ EntangledIn(f) =>
                      i < j \/ (i = j /\ u = v /\ u.type = "collapsed" /\ l = k + 1)
    BY DEF PlacedOnce
  <1> DEFINE chains == CollapseChains(f)
             g == DepthsOf(f)
             ms == MeshesOf(f)
             U == Acyclic(f)
             C == CyclicOf(f)
             a == u.nodes[k]
             b == v.nodes[l]
  <1>1. Leveled(f, U, g, chains) /\ ms \in Meshes(f, C) /\ Apart(ms)
    BY FlowLeveled, MeshesAre
  <1>2. LaidOut(q, n, h, chains, g, ms)
    OBVIOUS
  <1>3. /\ (i \in 1..n => a \in U) /\ (i > n => a \in C)
        /\ (j \in 1..n => b \in U) /\ (j > n => b \in C)
    BY UnitNodes
  <1>4. U \cap C = {}
    BY DEF Acyclic
  <1>5. C \subseteq EntangledIn(f)
    <2>1. C \subseteq NodeSet(f) /\ \A x \in C : Inputs(f, x) \cap C # {}
      BY MeshesAre DEF Circling
    <2> HIDE DEF C
    <2> QED
      BY <2>1, Tangled
  <1> HIDE DEF chains, g, ms, U, C
  <1>6. /\ n \in Nat /\ Len(ms) \in Nat /\ Len(q) = n + Len(ms)
        /\ \A x \in 1..n : h[x] \in Nat
        /\ \A x, y \in 1..n : x < y => h[x] < h[y]
    BY <1>2 DEF LaidOut
  <1>7. \A x \in 1..Len(q) : x \in Nat /\ (x \in 1..n \/ x > n)
    BY <1>6
  <1>8. CASE i \in 1..n /\ j \in 1..n
    <2>1. u \in PhaseAt(chains, g, h[i]) /\ v \in PhaseAt(chains, g, h[j])
      BY <1>2, <1>8 DEF LaidOut
    <2>2. h[i] < h[j] => i < j
      BY <1>6, <1>8
    <2>3. h[i] = h[j] => i = j
      BY <1>6, <1>8
    <2>4. ASSUME a = b PROVE i = j /\ u = v /\ k = l
      <3>1. h[i] = h[j] /\ u = v /\ k = l
        BY <1>1, <2>1, <2>4, SameUnit
      <3> QED
        BY <2>3, <3>1
    <2>5. ASSUME a \in Inputs(f, b)
          PROVE  i < j \/ (i = j /\ u = v /\ u.type = "collapsed" /\ l = k + 1)
      <3>1. h[i] < h[j] \/ (u = v /\ u.type = "collapsed" /\ l = k + 1)
        BY <1>1, <2>1, <2>5, EdgeOfUnits
      <3>2. ASSUME u = v PROVE h[i] = h[j]
        <4>1. k \in 1..Len(v.nodes) /\ u.nodes[k] = v.nodes[k]
          BY <3>2
        <4> QED
          BY <1>1, <2>1, <4>1, SameUnit
      <3> QED
        BY <2>2, <2>3, <3>1, <3>2
    <2> QED
      BY <2>4, <2>5
  <1>9. CASE i \in 1..n /\ j > n
    <2>1. i < j /\ a # b
      BY <1>3, <1>4, <1>6, <1>7, <1>9
    <2> QED
      BY <2>1
  <1>10. CASE i > n /\ j \in 1..n
    <2>1. a # b /\ a \in EntangledIn(f)
      BY <1>3, <1>4, <1>5, <1>10
    <2> QED
      BY <2>1
  <1>11. CASE i > n /\ j > n
    <2>1. a \in EntangledIn(f)
      BY <1>3, <1>5, <1>11
    <2>2. i \notin 1..n /\ j \notin 1..n
      BY <1>6, <1>11
    <2>3. PICK x \in 1..Len(ms) : i = n + x /\ u = Unit("mesh", ms[x])
      BY <1>2, <2>2, PhaseKinds
    <2>4. PICK y \in 1..Len(ms) : j = n + y /\ v = Unit("mesh", ms[y])
      BY <1>2, <2>2, PhaseKinds
    <2>5. u.nodes = ms[x] /\ v.nodes = ms[y]
      BY <2>3, <2>4, UnitIs
    <2>6. ASSUME a = b PROVE i = j /\ u = v /\ k = l
      <3>1. a \in Elements(ms[x]) /\ a \in Elements(ms[y])
        BY <2>5, <2>6 DEF Elements
      <3>2. x = y
        BY <1>1, <1>6, <3>1, ApartIs
      <3>3. Distinct(ms[x])
        BY <1>1 DEF Meshes, IsMesh
      <3>4. k = l
        BY <2>5, <2>6, <3>2, <3>3 DEF Distinct
      <3> QED
        BY <2>3, <2>4, <3>2, <3>4
    <2> QED
      BY <2>1, <2>6
  <1> QED
    BY <1>7, <1>8, <1>9, <1>10, <1>11

LEMMA EveryNode ==
    ASSUME NEW f, IsDrawing(f), NEW q, NEW n, NEW h,
           LaidOut(q, n, h, CollapseChains(f), DepthsOf(f), MeshesOf(f)), NEW x \in NodeSet(f)
    PROVE  \E i \in 1..Len(q) : \E u \in q[i] : x \in Elements(u.nodes)
  <1> DEFINE chains == CollapseChains(f)
             g == DepthsOf(f)
             ms == MeshesOf(f)
             U == Acyclic(f)
             C == CyclicOf(f)
  <1>1. Leveled(f, U, g, chains) /\ AllOf(ms) = C
    BY FlowLeveled, MeshesAre DEF Meshes
  <1>2. LaidOut(q, n, h, chains, g, ms)
    OBVIOUS
  <1>3. x \in U \/ x \in C
    BY DEF Acyclic
  <1> HIDE DEF chains, g, ms, U, C
  <1>4. n \in Nat /\ Len(ms) \in Nat /\ Len(q) = n + Len(ms)
    BY <1>2 DEF LaidOut
  <1>5. CASE x \in U
    <2>1. PICK m \in U : \E u \in PhaseAt(chains, g, g[m]) : x \in Elements(u.nodes)
      BY <1>1, <1>5, UnitExists
    <2>2. PICK u \in PhaseAt(chains, g, g[m]) : x \in Elements(u.nodes)
      BY <2>1
    <2>3. m \in DOMAIN g
      BY <1>1, <2>1 DEF Leveled
    <2>4. PICK i \in 1..n : h[i] = g[m]
      BY <1>2, <2>2, <2>3 DEF LaidOut
    <2>5. i \in 1..Len(q) /\ u \in q[i]
      BY <1>2, <1>4, <2>2, <2>4 DEF LaidOut
    <2> QED
      BY <2>2, <2>5
  <1>6. CASE x \in C
    <2>1. PICK y \in 1..Len(ms) : x \in Elements(ms[y])
      BY <1>1, <1>6 DEF AllOf
    <2> DEFINE i == n + y
               u == Unit("mesh", ms[y])
    <2>2. i \in 1..Len(q)
      BY <1>4
    <2>3. q[i] = {u}
      BY <1>2 DEF LaidOut
    <2>4. x \in Elements(u.nodes)
      BY <2>1, UnitIs
    <2> HIDE DEF i, u
    <2> QED
      BY <2>2, <2>3, <2>4
  <1> QED
    BY <1>3, <1>5, <1>6

\* The phases of compileStandardStrategy.
LEMMA PhasesOfDrawing ==
    ASSUME NEW f, IsDrawing(f) PROVE PhasesAreOrdered(Prepared(f))
  <1> DEFINE p == Prepared(f)
             q == CompileStrategy(f)
  <1>1. /\ p.phases = q /\ NodeSet(p) = NodeSet(f) /\ p.entangled = EntangledIn(f)
        /\ UnitsOf(p) = UnitsOf(f) /\ \A x : Inputs(p, x) = Inputs(f, x)
    BY DEF Prepared, NodeSet, Inputs, Entering, UnitsOf
  <1>2. q \in Seq(SUBSET UnitsOf(f))
    BY PhasesLaidOut
  <1>3. PICK n, h : LaidOut(q, n, h, CollapseChains(f), DepthsOf(f), MeshesOf(f))
    BY PhasesLaidOut
  <1> HIDE DEF p, q
  <1>4. \A x \in NodeSet(f) : \E i \in 1..Len(q) : \E u \in q[i] : x \in Elements(u.nodes)
    BY <1>3, EveryNode
  <1>5. ASSUME NEW i \in 1..Len(q), NEW j \in 1..Len(q), NEW u \in q[i], NEW v \in q[j],
               NEW k \in 1..Len(u.nodes), NEW l \in 1..Len(v.nodes)
        PROVE  PlacedOnce(f, i, u, k, j, v, l)
    BY <1>3, OnePlace
  <1>6. p.phases \in Seq(SUBSET UnitsOf(p))
    BY <1>1, <1>2
  <1>7. \A x \in NodeSet(p) : \E i \in 1..Len(p.phases) : \E u \in p.phases[i] : x \in Elements(u.nodes)
    BY <1>1, <1>4
  <1>8. ASSUME NEW i \in 1..Len(p.phases), NEW j \in 1..Len(p.phases),
               NEW u \in p.phases[i], NEW v \in p.phases[j],
               NEW k \in 1..Len(u.nodes), NEW l \in 1..Len(v.nodes)
        PROVE  /\ u.nodes[k] = v.nodes[l] => i = j /\ u = v /\ k = l
               /\ u.nodes[k] \in Inputs(p, v.nodes[l]) \ p.entangled =>
                      i < j \/ (i = j /\ u = v /\ u.type = "collapsed" /\ l = k + 1)
    <2>1. PlacedOnce(f, i, u, k, j, v, l)
      BY <1>1, <1>5
    <2>2. Inputs(p, v.nodes[l]) \ p.entangled = Inputs(f, v.nodes[l]) \ EntangledIn(f)
      BY <1>1
    <2> QED
      BY <2>1, <2>2, Zenon DEF PlacedOnce
  <1>9. PhasesAreOrdered(p)
    BY <1>6, <1>7, <1>8, Zenon DEF PhasesAreOrdered
  <1> QED
    BY <1>9 DEF p

\* Every flow of the canvas.
FlowsAreSound == \A f \in Flows : FlowIsSound(f)

LEMMA PreparedFlows == FlowsAreSound
  <1> SUFFICES ASSUME NEW f \in Drawings PROVE FlowIsSound(Prepared(f))
    BY DEF FlowsAreSound, Flows
  <1>1. IsDrawing(f)
    BY DrawingsAssumption
  <1> QED
    BY <1>1, PlanOfDrawing, PhasesOfDrawing DEF FlowIsSound

-----------------------------------------------------------------------------
(***************************************************************************)
(* A node of a flow starts after its inputs, success means that nothing was *)
(* left out, and Stop is obeyed: for whatever is drawn on the canvas.      *)
(***************************************************************************)
TypeInv ==
    /\ flow \in Flows
    /\ at \in Nat \ {0}
    /\ mesh \in [round : Nat, member : Nat \ {0}]
    /\ steps \in [1..MaxSteps -> Nat]

(* What each of the ways to execute a flow has for itself.                  *)
Modes ==
    /\ debugMode => mode = "debug"
    /\ open # {} => mode = "conductor"
    /\ stage # "top" => mode = "sequential" /\ at <= Len(flowPlan)
    /\ mode = "idle" => at = 1
    /\ mode # "debug" => \A k \in 1..MaxSteps : steps[k] = 0
    /\ runStatus = "success" => mode \in {"ended", "debug"}

(* Stop leaves neither the debugger nor the gate to go on.                  *)
StopLeaves == aborted => ~ debugMode /\ stage # "gate"

(* Earlier phases are settled, and of this one all but the open units.      *)
ConductorInv ==
    mode = "conductor" =>
        /\ \A i \in 1..Len(phases) : i < at => \A u \in phases[i] : MembersOf(u) \subseteq settled
        /\ open # {} =>
             /\ at <= Len(phases) /\ open \subseteq phases[at]
             /\ \A u \in phases[at] \ open : MembersOf(u) \subseteq settled

SequentialInv ==
    mode = "sequential" => \A j \in 1..Len(flowPlan) : j < at => flowPlan[j] \in settled

(* The cursor may move back, but never past a node that is not settled.     *)
DebugInv ==
    mode = "debug" =>
        \A j \in 1..Len(flowPlan) :
            j < at \/ (\E k \in 1..MaxSteps : j < steps[k]) => flowPlan[j] \in settled

FlowInv ==
    TypeInv /\ Modes /\ StopLeaves /\ ConductorInv /\ SequentialInv /\ DebugInv
        /\ SuccessIsComplete

(* What NodeAfterInputs asks of a step.                                     *)
InOrder ==
    \A n \in begun' : \A p \in Inputs(flow, n) \ flow.entangled :
        p \in settled' \/ \E u \in open' : {p, n} \subseteq MembersOf(u)

Quiet == aborted /\ stage # "breakpoint" => begun' = {}

-----------------------------------------------------------------------------
(* What a sound flow gives.                                                 *)
LEMMA FlowInputs ==
    ASSUME TypeInv, NEW n PROVE Inputs(flow, n) \subseteq NodeSet(flow)
  <1>1. PICK f \in Drawings : flow = Prepared(f)
    BY DEF TypeInv, Flows
  <1>2. IsDrawing(f)
    BY DrawingsAssumption
  <1>3. flow.nodes = f.nodes /\ flow.edges = f.edges
    BY <1>1 DEF Prepared
  <1> DEFINE EdgeKind == [from : NodeSet(f), to : NodeSet(f), label : {"", "true", "false"},
                          kind : {"forward", "reverse", "bidirectional", "error"}]
  <1>4. \A i \in 1..Len(f.edges) : f.edges[i] \in EdgeKind
    <2>1. f.edges \in Seq(EdgeKind)
      BY <1>2 DEF IsDrawing
    <2> HIDE DEF EdgeKind
    <2> QED
      BY <2>1
  <1>5. NodeSet(flow) = NodeSet(f)
    BY <1>3 DEF NodeSet
  <1>6. \A i \in 1..Len(f.edges) : f.edges[i].from \in NodeSet(flow)
    BY <1>4, <1>5
  <1>7. ASSUME NEW m \in Inputs(flow, n) PROVE m \in NodeSet(flow)
    <2>1. PICK i \in 1..Len(flow.edges) : m = flow.edges[i].from
      BY <1>7 DEF Inputs, Entering
    <2> QED
      BY <1>3, <1>6, <2>1
  <1> QED
    BY <1>7

LEMMA PlanOrder ==
    ASSUME TypeInv
    PROVE  /\ Len(flowPlan) \in Nat
           /\ \A n \in NodeSet(flow) : \E i \in 1..Len(flowPlan) : flowPlan[i] = n
           /\ \A i \in 1..Len(flowPlan) : \A p \in Inputs(flow, flowPlan[i]) \ flow.entangled :
                  \E j \in 1..(i - 1) : flowPlan[j] = p
  <1>1. PlanIsSound(flow)
    BY PreparedFlows DEF FlowsAreSound, FlowIsSound, TypeInv
  <1>2. Len(flow.plan) \in Nat
    BY <1>1 DEF PlanIsSound
  <1>3. \A n \in NodeSet(flow) : \E i \in 1..Len(flow.plan) : flow.plan[i] = n
    BY <1>1 DEF PlanIsSound, Elements
  <1>4. ASSUME NEW i \in 1..Len(flow.plan), NEW p \in Inputs(flow, flow.plan[i]) \ flow.entangled
        PROVE  \E j \in 1..(i - 1) : flow.plan[j] = p
    <2>1. PICK j \in 1..Len(flow.plan) : flow.plan[j] = p
      BY <1>3, FlowInputs
    <2>2. j < i
      BY <1>1, <2>1 DEF PlanIsSound
    <2>3. j \in 1..(i - 1)
      BY <1>2, <2>2
    <2> QED
      BY <2>1, <2>3
  <1> QED
    BY <1>2, <1>3, <1>4 DEF flowPlan

LEMMA PhaseOrder ==
    ASSUME TypeInv
    PROVE  /\ Len(phases) \in Nat
           /\ \A n \in NodeSet(flow) : \E i \in 1..Len(phases) :
                  \E u \in phases[i] : n \in MembersOf(u)
           /\ \A i \in 1..Len(phases) : \A u \in phases[i] : \A n \in MembersOf(u) :
                  \A p \in Inputs(flow, n) \ flow.entangled :
                      p \in MembersOf(u) \/ \E j \in 1..(i - 1) : \E v \in phases[j] : p \in MembersOf(v)
  <1>1. PhasesAreOrdered(flow)
    BY PreparedFlows DEF FlowsAreSound, FlowIsSound, TypeInv
  <1>2. Len(flow.phases) \in Nat
    BY <1>1 DEF PhasesAreOrdered
  <1>3. \A n \in NodeSet(flow) : \E i \in 1..Len(flow.phases) :
            \E u \in flow.phases[i] : n \in MembersOf(u)
    BY <1>1 DEF PhasesAreOrdered, MembersOf
  <1>4. ASSUME NEW i \in 1..Len(flow.phases), NEW u \in flow.phases[i], NEW n \in MembersOf(u),
               NEW p \in Inputs(flow, n) \ flow.entangled
        PROVE  p \in MembersOf(u) \/ \E j \in 1..(i - 1) : \E v \in flow.phases[j] : p \in MembersOf(v)
    <2>1. PICK j \in 1..Len(flow.phases) : \E v \in flow.phases[j] : p \in MembersOf(v)
      BY <1>3, FlowInputs
    <2>2. PICK v \in flow.phases[j] : p \in MembersOf(v)
      BY <2>1
    <2>3. PICK k \in 1..Len(v.nodes) : v.nodes[k] = p
      BY <2>2 DEF MembersOf, Elements
    <2>4. PICK l \in 1..Len(u.nodes) : u.nodes[l] = n
      BY DEF MembersOf, Elements
    <2>5. v.nodes[k] \in Inputs(flow, u.nodes[l]) \ flow.entangled =>
              j < i \/ (j = i /\ v = u /\ v.type = "collapsed" /\ l = k + 1)
      BY <1>1 DEF PhasesAreOrdered
    <2>6. j < i \/ v = u
      BY <2>3, <2>4, <2>5
    <2>7. j < i => j \in 1..(i - 1)
      BY <1>2
    <2> QED
      BY <2>2, <2>6, <2>7
  <1> QED
    BY <1>2, <1>3, <1>4 DEF phases

LEMMA UnitShape ==
    ASSUME TypeInv, NEW i \in 1..Len(phases), NEW u \in phases[i]
    PROVE  /\ Len(u.nodes) \in Nat \ {0}
           /\ u.type = "single" => MembersOf(u) = {u.nodes[1]}
           /\ \A k \in 1..Len(u.nodes) : u.nodes[k] \in MembersOf(u)
  <1>1. flow.phases \in Seq(SUBSET UnitsOf(flow))
    BY PreparedFlows DEF FlowsAreSound, FlowIsSound, PhasesAreOrdered, TypeInv
  <1>2. phases[i] \in SUBSET UnitsOf(flow)
    BY <1>1 DEF phases
  <1>3. /\ u.nodes \in Seq(NodeSet(flow)) /\ u.nodes # <<>>
        /\ u.type = "single" => Len(u.nodes) = 1
    BY <1>2 DEF UnitsOf
  <1> QED
    BY <1>3 DEF MembersOf, Elements

-----------------------------------------------------------------------------
(* The conductor *)

LEMMA StartPhaseStep ==
    ASSUME FlowInv, StartPhase PROVE FlowInv' /\ InOrder /\ Quiet
  <1> DEFINE units == {u \in phases[at] : u.type = "single" => u.nodes[1] \notin skip}
             passed == UNION {MembersOf(u) : u \in phases[at] \ units}
  <1>1. /\ open' = units /\ settled' = settled \cup passed
        /\ at' = IF units = {} THEN at + 1 ELSE at
        /\ begun' = UNION {IF u.type = "mesh" THEN {u.nodes[1]} ELSE MembersOf(u) : u \in units}
        /\ mode = "conductor" /\ at <= Len(phases) /\ ~ aborted /\ mesh' = [round |-> 1, member |-> 1]
        /\ UNCHANGED <<flow, mode, stage, steps, runStatus, running, debugMode, aborted>>
    BY DEF StartPhase, buttonVars
  <1>2. at \in Nat \ {0} /\ Len(phases) \in Nat /\ at \in 1..Len(phases) /\ phases' = phases
    BY <1>1, PhaseOrder DEF FlowInv, TypeInv, phases
  <1> HIDE DEF units
  <1>3. units \subseteq phases[at] BY DEF units
  <1>4. \A u \in phases[at] \ units : MembersOf(u) \subseteq settled'
    BY <1>1
  <1>5. TypeInv' BY <1>1, <1>2 DEF FlowInv, TypeInv
  <1>6. Modes' /\ StopLeaves' BY <1>1 DEF FlowInv, Modes, StopLeaves, flowPlan
  <1>7. ConductorInv'
    <2>1. \A i \in 1..Len(phases) : i < at => \A u \in phases[i] : MembersOf(u) \subseteq settled'
      BY <1>1 DEF FlowInv, ConductorInv
    <2>2. CASE units = {}
      BY <2>1, <2>2, <1>1, <1>2, <1>4 DEF ConductorInv
    <2>3. CASE units # {}
      BY <2>1, <2>3, <1>1, <1>2, <1>3, <1>4 DEF ConductorInv
    <2> QED BY <2>2, <2>3
  <1>8. SequentialInv' /\ DebugInv' /\ SuccessIsComplete'
    BY <1>1 DEF FlowInv, Modes, SequentialInv, DebugInv, SuccessIsComplete
  <1>9. InOrder
    <2> SUFFICES ASSUME NEW n \in begun', NEW p \in Inputs(flow, n) \ flow.entangled
                 PROVE  p \in settled' \/ \E u \in open' : {p, n} \subseteq MembersOf(u)
      BY DEF InOrder
    <2>1. PICK u \in units : n \in (IF u.type = "mesh" THEN {u.nodes[1]} ELSE MembersOf(u))
      BY <1>1
    <2>2. n \in MembersOf(u)
      BY <2>1, <1>2, <1>3, UnitShape DEF FlowInv
    <2>3. p \in MembersOf(u) \/ \E j \in 1..(at - 1) : \E v \in phases[j] : p \in MembersOf(v)
      BY <2>2, <1>2, <1>3, PhaseOrder DEF FlowInv
    <2> QED
      BY <2>2, <2>3, <1>1, <1>2 DEF FlowInv, ConductorInv
  <1> QED BY <1>1, <1>5, <1>6, <1>7, <1>8, <1>9 DEF FlowInv, Quiet

(* The run is over, with all phases behind it or after Stop.                *)
LEMMA EndPhasesStep ==
    ASSUME FlowInv, EndPhases \/ AbortPhases PROVE FlowInv' /\ InOrder /\ Quiet
  <1>1. /\ mode = "conductor" /\ mode' = "ended" /\ begun' = {} /\ open = {}
        /\ UNCHANGED <<flow, at, stage, open, mesh, steps, settled, debugMode, aborted>>
    BY DEF EndPhases, AbortPhases, Finalize, canvasVars, buttonVars
  <1>2. runStatus' = "success" => at > Len(phases)
    BY DEF EndPhases, AbortPhases, Finalize
  <1>3. at \in Nat /\ Len(phases) \in Nat
    BY PhaseOrder DEF FlowInv, TypeInv
  <1>4. at > Len(phases) => NodeSet(flow) \subseteq settled
    BY <1>1, <1>3, PhaseOrder DEF FlowInv, ConductorInv
  <1>5. SuccessIsComplete' BY <1>1, <1>2, <1>4 DEF SuccessIsComplete
  <1> QED
    BY <1>1, <1>5 DEF FlowInv, TypeInv, Modes, StopLeaves, ConductorInv, SequentialInv, DebugInv,
                      InOrder, Quiet, flowPlan

(* A unit ends: the phase goes on without it, or is over.                   *)
LEMMA UnitStep ==
    ASSUME FlowInv, NEW u \in open, UnitEnds(u), settled' = settled \cup MembersOf(u),
           begun' = {}, UNCHANGED <<flow, mode, stage, mesh, steps, runStatus, debugMode, aborted>>
    PROVE  FlowInv' /\ InOrder /\ Quiet
  <1>1. /\ mode = "conductor" /\ open' = open \ {u} /\ phases' = phases
        /\ at' = IF open = {u} THEN at + 1 ELSE at
    BY DEF UnitEnds, FlowInv, Modes, phases
  <1>2. at \in Nat \ {0} /\ Len(phases) \in Nat
    BY PhaseOrder DEF FlowInv, TypeInv
  <1>3. \A v \in phases[at] \ open' : MembersOf(v) \subseteq settled'
    BY <1>1 DEF FlowInv, ConductorInv
  <1>4. \A i \in 1..Len(phases) : i < at => \A v \in phases[i] : MembersOf(v) \subseteq settled'
    BY <1>1 DEF FlowInv, ConductorInv
  <1>5. at <= Len(phases) /\ open \subseteq phases[at]
    BY <1>1 DEF FlowInv, ConductorInv
  <1>6. CASE open = {u}
    <2>1. ConductorInv' BY <1>1, <1>2, <1>3, <1>4, <1>6 DEF ConductorInv
    <2> QED
      BY <2>1, <1>1, <1>2, <1>6 DEF FlowInv, TypeInv, Modes, StopLeaves, SequentialInv, DebugInv,
                                SuccessIsComplete, InOrder, Quiet, flowPlan
  <1>7. CASE open # {u}
    <2>1. ConductorInv' BY <1>1, <1>2, <1>3, <1>4, <1>5, <1>7 DEF ConductorInv
    <2> QED
      BY <2>1, <1>1, <1>2, <1>7 DEF FlowInv, TypeInv, Modes, StopLeaves, SequentialInv, DebugInv,
                                SuccessIsComplete, InOrder, Quiet, flowPlan
  <1> QED BY <1>6, <1>7
LEMMA UnitEndSteps ==
    ASSUME FlowInv, SingleEnds \/ ChainEnds \/ MeshEnds PROVE FlowInv' /\ InOrder /\ Quiet
  <1>1. CASE SingleEnds
    <2>1. PICK u \in open :
            /\ u.type = "single" /\ ExecutionOfNodeEnds(u.nodes[1])
            /\ settled' = settled \cup {u.nodes[1]} /\ UnitEnds(u)
            /\ UNCHANGED <<flow, mode, stage, mesh, steps, runStatus, debugMode, aborted>>
      BY <1>1 DEF SingleEnds, buttonVars
    <2>2. begun' = {}
      BY <2>1 DEF ExecutionOfNodeEnds, ConditionHolds, LoopEnds, NodeSucceeds, NodeFails, NodeEnds
    <2>3. at \in 1..Len(phases) /\ u \in phases[at]
      BY PhaseOrder DEF FlowInv, TypeInv, Modes, ConductorInv
    <2>4. settled' = settled \cup MembersOf(u)
      BY <2>1, <2>3, UnitShape DEF FlowInv
    <2> QED BY <2>1, <2>2, <2>4, UnitStep
  <1>2. CASE ChainEnds
    <2>1. PICK u \in open :
            /\ settled' = settled \cup MembersOf(u) /\ UnitEnds(u) /\ begun' = {}
            /\ UNCHANGED <<flow, mode, stage, mesh, steps, runStatus, debugMode, aborted>>
      BY <1>2 DEF ChainEnds, buttonVars
    <2> QED BY <2>1, UnitStep
  <1>3. CASE MeshEnds
    <2>1. PICK u \in open :
            /\ settled' = settled \cup MembersOf(u) /\ UnitEnds(u) /\ begun' = {}
            /\ UNCHANGED <<flow, mode, stage, mesh, steps, runStatus, debugMode, aborted>>
      BY <1>3 DEF MeshEnds, buttonVars
    <2> QED BY <2>1, UnitStep
  <1> QED BY <1>1, <1>2, <1>3

LEMMA MeshStep ==
    ASSUME FlowInv, MeshGoesOn PROVE FlowInv' /\ InOrder /\ Quiet
  <1>1. PICK u \in open :
          /\ ~ aborted
          /\ settled' = settled \cup {u.nodes[mesh.member]}
          /\ begun' = {u.nodes[NextMember(u).member]} /\ mesh' = NextMember(u)
          /\ UNCHANGED <<flow, mode, at, stage, open, steps, runStatus, debugMode, aborted>>
    BY DEF MeshGoesOn, buttonVars
  <1>2. /\ mode = "conductor" /\ at \in 1..Len(phases) /\ u \in phases[at]
        /\ phases' = phases
    BY <1>1, PhaseOrder DEF FlowInv, TypeInv, Modes, ConductorInv, phases
  <1>3. mesh' \in [round : Nat, member : Nat \ {0}] /\ NextMember(u).member \in 1..Len(u.nodes)
    BY <1>1, <1>2, UnitShape DEF FlowInv, TypeInv, NextMember
  <1>4. u.nodes[NextMember(u).member] \in MembersOf(u)
    BY <1>2, <1>3, UnitShape DEF FlowInv
  <1>5. InOrder
    <2> SUFFICES ASSUME NEW p \in Inputs(flow, u.nodes[NextMember(u).member]) \ flow.entangled
                 PROVE  \/ p \in settled'
                        \/ \E v \in open' : {p, u.nodes[NextMember(u).member]} \subseteq MembersOf(v)
      BY <1>1 DEF InOrder
    <2>1. p \in MembersOf(u) \/ \E j \in 1..(at - 1) : \E v \in phases[j] : p \in MembersOf(v)
      BY <1>2, <1>4, PhaseOrder DEF FlowInv
    <2> QED
      BY <2>1, <1>1, <1>2, <1>4 DEF FlowInv, ConductorInv
  <1>6. TypeInv' BY <1>1, <1>3 DEF FlowInv, TypeInv
  <1> QED
    BY <1>1, <1>2, <1>5, <1>6 DEF FlowInv, Modes, StopLeaves, ConductorInv, SequentialInv, DebugInv,
                                  SuccessIsComplete, Quiet, flowPlan

LEMMA FallbackStep ==
    ASSUME FlowInv, Fallback PROVE FlowInv' /\ InOrder /\ Quiet
  <1>1. /\ mode = "conductor" /\ mode' = "sequential" /\ at' = 1 /\ stage' = "top" /\ open' = {}
        /\ settled' = {} /\ begun' = {}
        /\ UNCHANGED <<flow, mesh, steps, runStatus, debugMode, aborted>>
    BY DEF Fallback, buttonVars, FlowInv, Modes
  <1>2. \A j \in 1..Len(flowPlan) : ~ (j < 1)
    BY PlanOrder DEF FlowInv
  <1> QED
    BY <1>1, <1>2 DEF FlowInv, TypeInv, Modes, StopLeaves, ConductorInv, SequentialInv, DebugInv,
                      SuccessIsComplete, InOrder, Quiet, flowPlan

-----------------------------------------------------------------------------
(* Run and the sequential path *)

LEMMA RunStep ==
    ASSUME FlowInv, Run PROVE FlowInv' /\ InOrder /\ Quiet
  <1>1. /\ mode = "idle" /\ at = 1 /\ open = {} /\ mode' \in {"conductor", "sequential"}
        /\ runStatus' = "running" /\ aborted' = FALSE /\ begun' = {}
        /\ UNCHANGED <<flow, at, stage, open, mesh, steps, settled, debugMode>>
    BY DEF Run, FlowInv, Modes, canvasVars
  <1>2. /\ \A j \in 1..Len(flowPlan) : ~ (j < 1)
        /\ \A i \in 1..Len(phases) : ~ (i < 1)
    BY PlanOrder, PhaseOrder DEF FlowInv
  <1> QED
    BY <1>1, <1>2 DEF FlowInv, TypeInv, Modes, StopLeaves, ConductorInv, SequentialInv, DebugInv,
                      SuccessIsComplete, InOrder, Quiet, flowPlan, phases

(* Whoever starts a node of the plan has settled all before it.             *)
LEMMA NodeOfPlan ==
    ASSUME TypeInv, NEW i \in 1..Len(flowPlan),
           \A j \in 1..Len(flowPlan) : j < i => flowPlan[j] \in settled',
           begun' = {flowPlan[i]}
    PROVE  InOrder
  BY PlanOrder DEF InOrder

LEMMA GatePassed ==
    ASSUME FlowInv, mode = "sequential", at <= Len(flowPlan), NEW b \in BOOLEAN, PassGate(b)
    PROVE  FlowInv' /\ InOrder
  <1>1. at \in 1..Len(flowPlan) /\ Len(flowPlan) \in Nat /\ at + 1 \in Nat \ {0} /\ open = {} /\ ~ debugMode
    BY PlanOrder DEF FlowInv, TypeInv, Modes
  <1>2. /\ runStatus' \in {"running", "paused"}
        /\ UNCHANGED <<flow, mode, open, mesh, steps, debugMode>>
    BY DEF PassGate
  <1>3. \A j \in 1..Len(flowPlan) : j < at => flowPlan[j] \in settled
    BY DEF FlowInv, SequentialInv
  <1>4. CASE /\ at' = at + 1 /\ stage' = "top" /\ begun' = {} /\ settled' = settled \cup {flowPlan[at]}
    BY <1>1, <1>2, <1>3, <1>4 DEF FlowInv, TypeInv, Modes, StopLeaves, ConductorInv, SequentialInv,
                                  DebugInv, SuccessIsComplete, InOrder, flowPlan
  <1>5. CASE /\ stage' \in {"breakpoint", "step"} /\ UNCHANGED <<at, settled>>
             /\ begun' = {} \/ begun' = {flowPlan[at]}
    <2>1. InOrder
      BY <1>1, <1>3, <1>5, NodeOfPlan DEF FlowInv, InOrder
    <2> QED
      BY <2>1, <1>1, <1>2, <1>3, <1>5 DEF FlowInv, TypeInv, Modes, StopLeaves, ConductorInv,
                                          SequentialInv, DebugInv, SuccessIsComplete, flowPlan
  <1> QED BY <1>4, <1>5 DEF PassGate, Start, canvasVars

LEMMA SequentialStep ==
    ASSUME FlowInv, SequentialNext PROVE FlowInv' /\ InOrder /\ Quiet
  <1>1. CASE NextNode
    <2>1. mode = "sequential" /\ at <= Len(flowPlan) /\ PassGate(FALSE) /\ ~ aborted
      BY <1>1 DEF NextNode, AtTop
    <2> QED BY <2>1, GatePassed DEF Quiet
  <1>2. CASE Gate
    <2>1. /\ mode = "sequential" /\ at <= Len(flowPlan) /\ ~ aborted /\ stage' = "gate"
          /\ runStatus' = "paused" /\ begun' = {}
          /\ UNCHANGED <<flow, mode, at, open, mesh, steps, settled, debugMode, aborted>>
      BY <1>2 DEF Gate, AtTop, canvasVars, buttonVars
    <2> QED
      BY <2>1 DEF FlowInv, TypeInv, Modes, StopLeaves, ConductorInv, SequentialInv, DebugInv,
                  SuccessIsComplete, InOrder, Quiet, flowPlan
  <1>3. CASE EndPlan \/ LeavePlan
    <2>1. /\ mode = "sequential" /\ stage = "top" /\ mode' = "ended" /\ begun' = {} /\ open = {}
          /\ UNCHANGED <<flow, at, stage, open, mesh, steps, settled, debugMode, aborted>>
      BY <1>3 DEF EndPlan, LeavePlan, AtTop, Finalize, canvasVars, buttonVars, FlowInv, Modes
    <2>2. runStatus' = "success" => at > Len(flowPlan)
      BY <1>3 DEF EndPlan, LeavePlan, Finalize
    <2>3. at \in Nat /\ Len(flowPlan) \in Nat
      BY PlanOrder DEF FlowInv, TypeInv
    <2>4. at > Len(flowPlan) => NodeSet(flow) \subseteq settled
      BY <2>1, <2>3, PlanOrder DEF FlowInv, SequentialInv
    <2>5. SuccessIsComplete' BY <2>1, <2>2, <2>4 DEF SuccessIsComplete
    <2> QED
      BY <2>1, <2>5 DEF FlowInv, TypeInv, Modes, StopLeaves, ConductorInv, SequentialInv, DebugInv,
                        InOrder, Quiet, flowPlan
  <1>4. CASE StepEnds
    <2>1. /\ mode = "sequential" /\ at <= Len(flowPlan) /\ settled' = settled \cup {flowPlan[at]}
          /\ at' = at + 1 /\ stage' = "top" /\ runStatus' = runStatus /\ open = {}
          /\ UNCHANGED <<flow, mode, open, mesh, steps, debugMode, aborted>>
      BY <1>4 DEF StepEnds, buttonVars, FlowInv, Modes
    <2>2. begun' = {}
      BY <1>4 DEF StepEnds, ExecutionOfNodeEnds, ConditionHolds, LoopEnds, NodeSucceeds, NodeFails,
                  NodeEnds
    <2>3. at \in Nat \ {0} /\ Len(flowPlan) \in Nat
      BY PlanOrder DEF FlowInv, TypeInv
    <2> QED
      BY <2>1, <2>2, <2>3 DEF FlowInv, TypeInv, Modes, StopLeaves, ConductorInv, SequentialInv, DebugInv,
                              SuccessIsComplete, InOrder, Quiet, flowPlan
  <1> QED BY <1>1, <1>2, <1>3, <1>4 DEF SequentialNext
-----------------------------------------------------------------------------
(* The debugger *)

LEMMA StartDebugStep ==
    ASSUME FlowInv, StartDebug PROVE FlowInv' /\ InOrder /\ Quiet
  <1>1. /\ mode = "idle" /\ at = 1 /\ open = {} /\ stage = "top" /\ mode' = "debug"
        /\ runStatus' = "paused" /\ aborted' = FALSE /\ begun' = {}
        /\ \A k \in 1..MaxSteps : steps[k] = 0
        /\ UNCHANGED <<flow, at, stage, open, mesh, steps, settled>>
    BY DEF StartDebug, FlowInv, Modes, canvasVars
  <1>2. \A j \in 1..Len(flowPlan) : ~ (j < 1) /\ ~ (j < 0)
    BY PlanOrder DEF FlowInv
  <1> QED
    BY <1>1, <1>2 DEF FlowInv, TypeInv, Modes, StopLeaves, ConductorInv, SequentialInv, DebugInv,
                      SuccessIsComplete, InOrder, Quiet, flowPlan

LEMMA StepStep ==
    ASSUME FlowInv, NEW k \in 1..MaxSteps, Step(k) PROVE FlowInv' /\ InOrder /\ Quiet
  <1>1. PICK i \in Ahead(at, skip) :
          /\ at' = i /\ steps' = [steps EXCEPT ![k] = i] /\ Start(flowPlan[i])
          /\ settled' = settled \cup {flowPlan[j] : j \in at..(i - 1)}
          /\ mode = "debug" /\ debugMode /\ runStatus' = "running"
          /\ UNCHANGED <<flow, mode, stage, open, mesh, debugMode, aborted>>
    BY DEF Step, buttonVars
  <1>2. /\ at \in Nat \ {0} /\ Len(flowPlan) \in Nat /\ i \in at..Len(flowPlan) /\ i \in 1..Len(flowPlan)
        /\ open = {} /\ stage = "top" /\ ~ aborted
    BY <1>1, PlanOrder DEF FlowInv, TypeInv, Modes, StopLeaves, Ahead
  <1>3. \A j \in 1..Len(flowPlan) : j < i => flowPlan[j] \in settled'
    BY <1>1, <1>2 DEF FlowInv, DebugInv
  <1>4. InOrder
    BY <1>1, <1>2, <1>3, NodeOfPlan DEF FlowInv, Start
  <1>5. steps' \in [1..MaxSteps -> Nat] /\ \A l \in 1..MaxSteps : steps'[l] = IF l = k THEN i ELSE steps[l]
    BY <1>1, <1>2 DEF FlowInv, TypeInv
  <1>6. DebugInv'
    BY <1>1, <1>3, <1>5 DEF FlowInv, DebugInv, flowPlan
  <1> QED
    BY <1>1, <1>2, <1>4, <1>5, <1>6 DEF FlowInv, TypeInv, Modes, StopLeaves, ConductorInv,
                                        SequentialInv, SuccessIsComplete, Quiet, flowPlan

LEMMA StepFindsNothingStep ==
    ASSUME FlowInv, StepFindsNothing PROVE FlowInv' /\ InOrder /\ Quiet
  <1>1. /\ mode = "debug" /\ settled' = settled \cup {flowPlan[j] : j \in at..Len(flowPlan)}
        /\ debugMode' = FALSE /\ begun' = {} /\ open = {}
        /\ UNCHANGED <<flow, mode, at, stage, open, mesh, steps, aborted>>
    BY DEF StepFindsNothing, FinalizeDebug, pathVars, buttonVars, FlowInv, Modes
  <1>2. at \in Nat \ {0} /\ Len(flowPlan) \in Nat
    BY PlanOrder DEF FlowInv, TypeInv
  <1>3. \A j \in 1..Len(flowPlan) : flowPlan[j] \in settled'
    BY <1>1, <1>2 DEF FlowInv, DebugInv
  <1>4. NodeSet(flow) \subseteq settled'
    BY <1>3, PlanOrder DEF FlowInv
  <1> QED
    BY <1>1, <1>3, <1>4 DEF FlowInv, TypeInv, Modes, StopLeaves, ConductorInv, SequentialInv, DebugInv,
                            SuccessIsComplete, InOrder, Quiet, flowPlan

LEMMA DebugEndStep ==
    ASSUME FlowInv, NEW k \in 1..MaxSteps, DebugStepEnds(k)
    PROVE  FlowInv' /\ InOrder /\ Quiet
  <1> DEFINE i == steps[k]
  <1>1. /\ mode = "debug" /\ i # 0 /\ steps' = [steps EXCEPT ![k] = 0]
        /\ UNCHANGED <<flow, mode, stage, open, mesh, aborted>>
        /\ StepIsCut(k) \/ StepAdvances(k)
    BY DEF DebugStepEnds, buttonVars
  <1>2. begun' = {}
    BY DEF DebugStepEnds, ExecutionOfNodeEnds, ConditionHolds, LoopEnds, NodeSucceeds, NodeFails,
           NodeEnds
  <1>3. at \in Nat \ {0} /\ Len(flowPlan) \in Nat /\ i \in Nat \ {0} /\ open = {} /\ stage = "top"
    BY <1>1, PlanOrder DEF FlowInv, TypeInv, Modes
  <1>4. steps' \in [1..MaxSteps -> Nat] /\ \A l \in 1..MaxSteps : steps'[l] = IF l = k THEN 0 ELSE steps[l]
    BY <1>1 DEF FlowInv, TypeInv
  <1>5. \A j \in 1..Len(flowPlan) : j < i \/ j < at => flowPlan[j] \in settled
    BY <1>1 DEF FlowInv, DebugInv
  <1>6. at' = at \/ at' = i + 1
    BY <1>1 DEF StepIsCut, StepAdvances
  <1>7. settled \subseteq settled' /\ (i \in 1..Len(flowPlan) => flowPlan[i] \in settled')
    BY <1>1, <1>3 DEF StepIsCut, StepAdvances
  <1>8. \A j \in 1..Len(flowPlan) : j < at' \/ (\E l \in 1..MaxSteps : j < steps'[l]) => flowPlan[j] \in settled'
    <2> SUFFICES ASSUME NEW j \in 1..Len(flowPlan), j < at' \/ (\E l \in 1..MaxSteps : j < steps'[l])
                 PROVE  flowPlan[j] \in settled'
      OBVIOUS
    <2>1. CASE \E l \in 1..MaxSteps : j < steps'[l]
      <3>1. \E l \in 1..MaxSteps : j < steps[l]
        BY <2>1, <1>4
      <3> QED BY <3>1, <1>1, <1>7 DEF FlowInv, DebugInv
    <2>2. CASE j < at'
      BY <2>2, <1>3, <1>5, <1>6, <1>7
    <2> QED BY <2>1, <2>2
  <1>9. runStatus' = "success" => NodeSet(flow) \subseteq settled'
    <2>1. CASE runStatus' = runStatus
      BY <2>1, <1>7 DEF FlowInv, SuccessIsComplete
    <2>2. CASE runStatus' = "success" /\ settled' = settled \cup {flowPlan[j] : j \in i..Len(flowPlan)}
      <3>1. \A j \in 1..Len(flowPlan) : flowPlan[j] \in settled'
        BY <2>2, <1>3, <1>5
      <3> QED BY <3>1, PlanOrder DEF FlowInv
    <2>3. CASE runStatus' = "paused"
      BY <2>3
    <2> QED BY <2>1, <2>2, <2>3, <1>1 DEF StepIsCut, StepAdvances, FinalizeDebug
  <1>10. debugMode' = debugMode \/ debugMode' = FALSE
    BY <1>1 DEF StepIsCut, StepAdvances, FinalizeDebug
  <1>11. at' \in Nat \ {0} BY <1>3, <1>6
  <1> HIDE DEF i
  <1>12. TypeInv' BY <1>1, <1>4, <1>11 DEF FlowInv, TypeInv
  <1>13. Modes' /\ StopLeaves' BY <1>1, <1>3, <1>10 DEF FlowInv, Modes, StopLeaves, flowPlan
  <1>14. DebugInv' BY <1>1, <1>8 DEF DebugInv, flowPlan
  <1> QED
    BY <1>1, <1>2, <1>3, <1>9, <1>12, <1>13, <1>14 DEF FlowInv, ConductorInv, SequentialInv,
                                                       SuccessIsComplete, InOrder, Quiet

-----------------------------------------------------------------------------
(* The buttons *)

LEMMA ReleaseStep ==
    ASSUME FlowInv, LetGo(FALSE), ~ debugMode \/ aborted' = aborted
    PROVE  FlowInv' /\ InOrder /\ Quiet
  <1>1. CASE mode = "sequential" /\ stage = "gate" /\ PassGate(FALSE)
    <2>1. at <= Len(flowPlan) BY <1>1 DEF FlowInv, Modes
    <2> QED BY <2>1, <1>1, GatePassed DEF FlowInv, StopLeaves, Quiet
  <1>2. CASE /\ mode = "sequential" /\ stage = "breakpoint"
             /\ stage' = "step" /\ runStatus' = "running" /\ Start(flowPlan[at])
             /\ UNCHANGED <<flow, mode, at, open, mesh, steps, settled, debugMode>>
    <2>1. at \in 1..Len(flowPlan) /\ Len(flowPlan) \in Nat /\ open = {} /\ ~ debugMode
      BY <1>2, PlanOrder DEF FlowInv, TypeInv, Modes
    <2>2. InOrder
      BY <1>2, <2>1, NodeOfPlan DEF FlowInv, SequentialInv, Start
    <2> QED
      BY <1>2, <2>1, <2>2 DEF FlowInv, TypeInv, Modes, StopLeaves, ConductorInv, SequentialInv, DebugInv,
                              SuccessIsComplete, Quiet, flowPlan
  <1>3. CASE /\ ~ (mode = "sequential" /\ stage \in {"gate", "breakpoint"}) /\ begun' = {}
             /\ UNCHANGED <<flow, mode, at, stage, open, mesh, steps, settled, runStatus, debugMode>>
    BY <1>3 DEF FlowInv, TypeInv, Modes, StopLeaves, ConductorInv, SequentialInv, DebugInv,
                SuccessIsComplete, InOrder, Quiet, flowPlan, phases
  <1> QED BY <1>1, <1>2, <1>3 DEF LetGo, pathVars, canvasVars

LEMMA ButtonStep ==
    ASSUME FlowInv, Pause \/ Resume \/ Abort \/ \E n \in NodeSet(flow) : ToggleBreakpoint(n)
    PROVE  FlowInv' /\ InOrder /\ Quiet
  <1>1. CASE Resume
    BY <1>1, ReleaseStep DEF Resume
  <1>2. CASE Abort /\ ~ debugMode
    BY <1>2, ReleaseStep DEF Abort
  <1>3. CASE Abort /\ debugMode
    <2>1. /\ debugMode' = FALSE /\ begun' = {} /\ mode = "debug" /\ stage = "top"
          /\ UNCHANGED <<flow, mode, at, stage, open, mesh, steps, settled, runStatus>>
      BY <1>3 DEF Abort, pathVars, canvasVars, FlowInv, Modes
    <2> QED
      BY <2>1 DEF FlowInv, TypeInv, Modes, StopLeaves, ConductorInv, SequentialInv, DebugInv,
                  SuccessIsComplete, InOrder, Quiet, flowPlan, phases
  <1>4. CASE Pause \/ \E n \in NodeSet(flow) : ToggleBreakpoint(n)
    <2>1. begun' = {} /\ UNCHANGED <<flow, mode, at, stage, open, mesh, steps, settled, runStatus,
                                     debugMode, aborted>>
      BY <1>4 DEF Pause, ToggleBreakpoint, pathVars, canvasVars
    <2> QED
      BY <2>1 DEF FlowInv, TypeInv, Modes, StopLeaves, ConductorInv, SequentialInv, DebugInv,
                  SuccessIsComplete, InOrder, Quiet, flowPlan, phases
  <1> QED BY <1>1, <1>2, <1>3, <1>4

-----------------------------------------------------------------------------
LEMMA InitInv == FlowInit => FlowInv
  <1> SUFFICES ASSUME FlowInit PROVE FlowInv
    OBVIOUS
  <1>1. steps \in [1..MaxSteps -> Nat] /\ \A k \in 1..MaxSteps : steps[k] = 0
    BY DEF FlowInit, Fresh
  <1>2. TypeInv BY <1>1 DEF FlowInit, Fresh, TypeInv
  <1> QED
    BY <1>1, <1>2 DEF FlowInit, Fresh, FlowInv, Modes, StopLeaves, ConductorInv, SequentialInv, DebugInv,
                      SuccessIsComplete

LEMMA FlowStep ==
    ASSUME FlowInv, FlowNext PROVE FlowInv' /\ InOrder /\ Quiet
  <1>1. CASE ConductorNext
    BY <1>1, StartPhaseStep, EndPhasesStep, UnitEndSteps, MeshStep, FallbackStep DEF ConductorNext
  <1>2. CASE SequentialNext
    BY <1>2, SequentialStep
  <1>3. CASE \E k \in 1..MaxSteps : DebugStepEnds(k) \/ Step(k)
    BY <1>3, DebugEndStep, StepStep
  <1>4. CASE Run \/ StartDebug \/ StepFindsNothing
    BY <1>4, RunStep, StartDebugStep, StepFindsNothingStep
  <1>5. CASE Pause \/ Resume \/ Abort \/ \E n \in NodeSet(flow) : ToggleBreakpoint(n)
    BY <1>5, ButtonStep
  <1> QED BY <1>1, <1>2, <1>3, <1>4, <1>5 DEF FlowNext, ExecutorNext, UserNext

LEMMA FlowStutter ==
    ASSUME FlowInv, UNCHANGED flowVars PROVE FlowInv'
  BY DEF flowVars, pathVars, canvasVars, buttonVars, FlowInv, TypeInv, Modes, StopLeaves, ConductorInv,
         SequentialInv, DebugInv, SuccessIsComplete, flowPlan, phases

(* The invariant the other theorems about flows rest on.                    *)
THEOREM FlowInvariant == FlowSpec => []FlowInv
  <1>1. FlowInit => FlowInv BY InitInv
  <1>2. FlowInv /\ [FlowNext]_flowVars => FlowInv' BY FlowStep, FlowStutter
  <1> QED BY <1>1, <1>2, PTL DEF FlowSpec

(* Whatever is drawn is prepared soundly: the plan has every node once and  *)
(* after its inputs, and the phases have it in one place, after its inputs  *)
(* or behind them in one chain (buildExecutionPlan, detectCycles,           *)
(* mergeBidirectionalGroups, computeDepthLevels, detectCollapseChains,      *)
(* compileStrategy).                                                        *)
THEOREM FlowStrategyIsSound == FlowSpec => []StrategyIsSound
  <1>1. FlowInv => StrategyIsSound
    BY PreparedFlows DEF FlowInv, TypeInv, FlowsAreSound, StrategyIsSound
  <1> QED BY <1>1, FlowInvariant, PTL

(* A flow that is reported as a success has had every node executed or      *)
(* passed over: by phases, in the order of the plan, after a fallback from  *)
(* one to the other, or step by step (run, runSequential, debugStepForward).*)
THEOREM FlowSuccess == FlowSpec => []SuccessIsComplete
  <1>1. FlowInv => SuccessIsComplete BY DEF FlowInv
  <1> QED BY <1>1, FlowInvariant, PTL

(* No node is started before the nodes its input comes from are settled, or *)
(* but together with them in one chain or mesh.                             *)
THEOREM FlowOrder == FlowSpec => NodeAfterInputs
  <1>1. FlowInv /\ [FlowNext]_flowVars => [InOrder]_flowVars BY FlowStep
  <1>2. FlowSpec => [][InOrder]_flowVars
    BY <1>1, FlowInvariant, PTL DEF FlowSpec
  <1> QED BY <1>2 DEF NodeAfterInputs, InOrder

(* After abort() no node is started, but the one whose breakpoint the run   *)
(* stands at.                                                               *)
THEOREM FlowQuiet == FlowSpec => QuietAfterAbort
  <1>1. FlowInv /\ [FlowNext]_flowVars => [Quiet]_flowVars BY FlowStep
  <1>2. FlowSpec => [][Quiet]_flowVars
    BY <1>1, FlowInvariant, PTL DEF FlowSpec
  <1> QED BY <1>2 DEF QuietAfterAbort, Quiet
=============================================================================
