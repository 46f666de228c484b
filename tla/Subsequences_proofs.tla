------------------------- MODULE Subsequences_proofs -------------------------
(***************************************************************************)
(* Facts about sequences that the other proofs need, and the only way they *)
(* have to reason by induction: of any set of numbers there is a least.    *)
(***************************************************************************)
EXTENDS Subsequences, WellFoundedInduction, TLAPS

\* A nonempty set of natural numbers has a least element.
LEMMA Least ==
    ASSUME NEW T \in SUBSET Nat, T # {}
    PROVE  \E x \in T : \A y \in T : x <= y
<1>1. PICK x \in T : \A y \in T : ~ (<<y, x>> \in OpToRel(<, Nat))
  BY NatLessThanWellFounded, WFMin
<1>2. \A y \in T : ~ (y < x)
  BY <1>1 DEF OpToRel
<1> QED
  BY <1>2

\* A bounded one has a greatest.
LEMMA Greatest ==
    ASSUME NEW T \in SUBSET Nat, T # {}, NEW b \in Nat, \A y \in T : y <= b
    PROVE  \E x \in T : \A y \in T : y <= x
<1> DEFINE U == {u \in 0..b : b - u \in T}
<1>1. U \in SUBSET Nat /\ U # {}
  <2>1. PICK y \in T : TRUE
    OBVIOUS
  <2>2. b - y \in 0..b /\ b - (b - y) = y
    BY <2>1
  <2> QED
    BY <2>1, <2>2
<1>2. PICK u \in U : \A v \in U : u <= v
  <2> HIDE DEF U
  <2> QED
    BY <1>1, Least
<1>3. ASSUME NEW y \in T PROVE y <= b - u
  <2>1. b - y \in U
    BY <1>3
  <2>2. u <= b - y /\ u \in 0..b
    BY <1>2, <2>1
  <2> QED
    BY <2>2
<1> QED
  BY <1>2, <1>3

\* f begins with v, and step i leads from f[i - 1] to f[i].
Built(f, v, n, G) == f[0] = v /\ \A i \in 1..n : f[i] = G[i][f[i - 1]]
StepsOn(n, V) == [1..n -> [V -> V]]
Values(n, V) == [0..n -> V]

\* A function that is defined by a first value and a step exists.
LEMMA Steps ==
    ASSUME NEW V, NEW v0 \in V, NEW n \in Nat, NEW G \in StepsOn(n, V)
    PROVE  \E f \in Values(n, V) : Built(f, v0, n, G)
<1> USE DEF Built, StepsOn, Values
<1> DEFINE Good(k) == \E f \in [0..k -> V] : f[0] = v0 /\ \A i \in 1..k : f[i] = G[i][f[i - 1]]
           Bad == {k \in 0..n : ~ Good(k)}
<1>1. Good(0)
  <2> DEFINE h == [i \in 0..0 |-> v0]
  <2>1. h \in [0..0 -> V] /\ h[0] = v0
    OBVIOUS
  <2>2. \A i \in 1..0 : h[i] = G[i][h[i - 1]]
    OBVIOUS
  <2> HIDE DEF h
  <2> QED
    BY <2>1, <2>2
<1>2. ASSUME NEW k \in 0..n, k > 0, Good(k - 1) PROVE Good(k)
  <2>1. PICK f \in [0..(k - 1) -> V] : f[0] = v0 /\ \A i \in 1..(k - 1) : f[i] = G[i][f[i - 1]]
    BY <1>2
  <2> DEFINE g == [i \in 0..k |-> IF i < k THEN f[i] ELSE G[k][f[k - 1]]]
  <2>2. G[k] \in [V -> V] /\ f[k - 1] \in V
    BY <1>2, <2>1
  <2>3. g \in [0..k -> V] /\ g[0] = v0
    BY <1>2, <2>1, <2>2
  <2>4. ASSUME NEW i \in 1..k PROVE g[i] = G[i][g[i - 1]]
    <3>1. CASE i < k
      BY <3>1, <2>1
    <3>2. CASE i = k
      BY <3>2, <2>1
    <3> QED
      BY <3>1, <3>2
  <2> QED
    BY <2>3, <2>4
<1>3. Bad = {}
  <2> SUFFICES ASSUME Bad # {} PROVE FALSE
    OBVIOUS
  <2> HIDE DEF Good
  <2>1. Bad \in SUBSET Nat
    OBVIOUS
  <2>2. PICK k \in Bad : \A j \in Bad : k <= j
    BY <2>1, Least
  <2>3. k \in 0..n /\ ~ Good(k) /\ k # 0
    BY <1>1, <2>2
  <2>4. k - 1 \in 0..n /\ k - 1 \notin Bad
    BY <2>2, <2>3
  <2> QED
    BY <1>2, <2>3, <2>4
<1>4. Good(n)
  <2> HIDE DEF Good
  <2> QED
    BY <1>3
<1> QED
  BY <1>4

\* A property of numbers up to n, as the set that has it.
LEMMA Upward ==
    ASSUME NEW n \in Nat, NEW P \in SUBSET (0..n), 0 \in P,
           \A k \in 1..n : k - 1 \in P => k \in P
    PROVE  P = 0..n
<1> DEFINE Bad == (0..n) \ P
<1> SUFFICES ASSUME Bad # {} PROVE FALSE
  OBVIOUS
<1>1. Bad \in SUBSET Nat
  OBVIOUS
<1>2. PICK k \in Bad : \A j \in Bad : k <= j
  <2> HIDE DEF Bad
  <2> QED
    BY <1>1, Least
<1>3. k \in 1..n
  BY <1>2
<1>4. k - 1 \in 0..n /\ ~ (k <= k - 1)
  BY <1>3
<1>5. k - 1 \in P
  BY <1>2, <1>4
<1> QED
  BY <1>2, <1>3, <1>5

LEMMA SeqElements ==
    ASSUME NEW S, NEW s \in Seq(S)
    PROVE  Len(s) \in Nat /\ \A i \in 1..Len(s) : s[i] \in S
OBVIOUS

-----------------------------------------------------------------------------
Increasing(g, n) == \A i, j \in 1..n : i < j => g[i] < g[j]

\* k is what s has at the places that g lists, which are those in I.
TakenAt(g, k, s, I) ==
    /\ g \in [1..Len(k) -> 1..Len(s)]
    /\ Increasing(g, Len(k))
    /\ \A i \in 1..Len(k) : k[i] = s[g[i]] /\ g[i] \in I
    /\ \A j \in 1..Len(s) : j \in I => \E i \in 1..Len(k) : g[i] = j

KeptUpTo(f, s, I) ==
    f = [n \in 0..Len(s) |->
            IF n = 0 THEN <<>>
            ELSE IF n \in I THEN Append(f[n - 1], s[n]) ELSE f[n - 1]]

LEMMA KeptExists ==
    ASSUME NEW S, NEW s \in Seq(S), NEW I
    PROVE  \E f : KeptUpTo(f, s, I)
<1> DEFINE G == [n \in 1..Len(s) |->
                    [q \in Seq(S) |-> IF n \in I THEN Append(q, s[n]) ELSE q]]
<1>1. G \in [1..Len(s) -> [Seq(S) -> Seq(S)]]
  OBVIOUS
<1>2. Len(s) \in Nat /\ <<>> \in Seq(S)
  OBVIOUS
<1>3. PICK f \in [0..Len(s) -> Seq(S)] :
         f[0] = <<>> /\ \A n \in 1..Len(s) : f[n] = G[n][f[n - 1]]
  <2> DEFINE V == Seq(S)
             v0 == <<>>
             m == Len(s)
  <2>1. G \in StepsOn(m, V) /\ v0 \in V /\ m \in Nat
    BY <1>1, <1>2 DEF StepsOn
  <2> HIDE DEF G, V, v0, m
  <2>2. \E f \in Values(m, V) : Built(f, v0, m, G)
    BY <2>1, Steps
  <2> QED
    BY <2>2 DEF V, v0, m, Values, Built
<1>4. ASSUME NEW n \in 1..Len(s)
      PROVE  f[n] = IF n \in I THEN Append(f[n - 1], s[n]) ELSE f[n - 1]
  <2>1. f[n - 1] \in Seq(S)
    <3>1. n - 1 \in 0..Len(s)
      BY <1>2
    <3> QED
      BY <1>3, <3>1
  <2>2. f[n] = G[n][f[n - 1]]
    BY <1>3
  <2> QED
    BY <2>1, <2>2
<1>5. KeptUpTo(f, s, I)
  <2> DEFINE h == [n \in 0..Len(s) |->
                     IF n = 0 THEN <<>>
                     ELSE IF n \in I THEN Append(f[n - 1], s[n]) ELSE f[n - 1]]
  <2>1. ASSUME NEW n \in 0..Len(s) PROVE f[n] = h[n]
    <3>1. CASE n = 0
      BY <1>3, <3>1
    <3>2. CASE n # 0
      <4>1. n \in 1..Len(s)
        BY <1>2, <3>2
      <4> QED
        BY <1>4, <3>2, <4>1, Zenon
    <3> QED
      BY <3>1, <3>2
  <2>2. f = h
    BY <1>3, <2>1
  <2> QED
    BY <2>2 DEF KeptUpTo
<1> QED
  BY <1>5

LEMMA KeptByKeep ==
    ASSUME NEW S, NEW s \in Seq(S), NEW I
    PROVE  \E f : KeptUpTo(f, s, I) /\ Keep(s, I) = f[Len(s)]
<1> DEFINE f == CHOOSE h : KeptUpTo(h, s, I)
<1>1. KeptUpTo(f, s, I)
  BY KeptExists
<1>2. Keep(s, I) = f[Len(s)]
  BY Zenon DEF Keep, KeptUpTo
<1> QED
  BY <1>1, <1>2

(* Keep returns the elements at the places in I, all of them, each once and *)
(* in their order.                                                           *)
LEMMA KeepTakes ==
    ASSUME NEW S, NEW s \in Seq(S), NEW I
    PROVE  Keep(s, I) \in Seq(S) /\ \E g : TakenAt(g, Keep(s, I), s, I)
<1>1. PICK f : KeptUpTo(f, s, I) /\ Keep(s, I) = f[Len(s)]
  BY KeptByKeep
<1> DEFINE Taken(n) == f[n] \in Seq(S) /\ \E g : TakenAt(g, f[n], SubSeq(s, 1, n), I)
           P == {n \in 0..Len(s) : Taken(n)}
<1>2. Len(s) \in Nat
  OBVIOUS
<1>3. /\ f[0] = <<>>
      /\ \A n \in 1..Len(s) : f[n] = IF n \in I THEN Append(f[n - 1], s[n]) ELSE f[n - 1]
  <2>1. 0 \in 0..Len(s) /\ \A n \in 1..Len(s) : n \in 0..Len(s) /\ n # 0
    BY <1>2
  <2> QED
    BY <1>1, <2>1, Zenon DEF KeptUpTo
<1>4. Taken(0)
  <2> DEFINE g == [i \in 1..0 |-> 1]
  <2>1. SubSeq(s, 1, 0) = <<>>
    OBVIOUS
  <2>2. TakenAt(g, <<>>, <<>>, I)
    BY DEF TakenAt, Increasing
  <2>3. <<>> \in Seq(S)
    OBVIOUS
  <2> HIDE DEF g
  <2> QED
    BY <1>3, <2>1, <2>2, <2>3
<1>5. ASSUME NEW n \in 1..Len(s), Taken(n - 1) PROVE Taken(n)
  <2> DEFINE old == SubSeq(s, 1, n - 1)
             new == SubSeq(s, 1, n)
             q   == f[n - 1]
  <2>1. /\ Len(old) = n - 1 /\ Len(new) = n
        /\ \A i \in 1..(n - 1) : new[i] = old[i]
        /\ new[n] = s[n] /\ s[n] \in S
    BY <1>2
  <2>2. PICK g : q \in Seq(S) /\ TakenAt(g, q, old, I)
    BY <1>5
  <2>3. Len(q) \in Nat
    BY <2>2
  <2> HIDE DEF old, new, q
  <2>4. CASE n \in I
    <3> DEFINE k == Append(q, s[n])
               h == [i \in 1..(Len(q) + 1) |-> IF i <= Len(q) THEN g[i] ELSE n]
    <3>1. /\ f[n] = k /\ k \in Seq(S) /\ Len(k) = Len(q) + 1
          /\ \A i \in 1..Len(q) : k[i] = q[i]
          /\ k[Len(q) + 1] = s[n]
      <4>1. f[n] = k
        BY <1>3, <2>4, Zenon DEF q
      <4> QED
        BY <2>1, <2>2, <4>1
    <3>2. h \in [1..Len(k) -> 1..Len(new)]
      BY <2>1, <2>2, <2>3, <3>1 DEF TakenAt
    <3>3. \A i \in 1..Len(q) : h[i] = g[i] /\ g[i] \in 1..(n - 1)
      BY <2>1, <2>2, <2>3 DEF TakenAt
    <3>4. h[Len(q) + 1] = n
      BY <2>3
    <3> HIDE DEF k, h
    <3>5. \A i \in 1..Len(k) : i \in 1..Len(q) \/ i = Len(q) + 1
      BY <2>3, <3>1
    <3>6. Increasing(h, Len(k))
      <4> SUFFICES ASSUME NEW i \in 1..Len(k), NEW j \in 1..Len(k), i < j PROVE h[i] < h[j]
        BY DEF Increasing
      <4>1. i \in 1..Len(q)
        BY <2>3, <3>1
      <4>2. CASE j \in 1..Len(q)
        BY <2>2, <3>3, <4>1, <4>2 DEF TakenAt, Increasing
      <4>3. CASE j = Len(q) + 1
        BY <3>3, <3>4, <4>1, <4>3
      <4> QED
        BY <3>5, <4>2, <4>3
    <3>7. ASSUME NEW i \in 1..Len(k) PROVE k[i] = new[h[i]] /\ h[i] \in I
      <4>1. CASE i \in 1..Len(q)
        <5>1. q[i] = old[g[i]] /\ g[i] \in I
          BY <2>2, <4>1 DEF TakenAt
        <5> QED
          BY <2>1, <3>1, <3>3, <4>1, <5>1
      <4>2. CASE i = Len(q) + 1
        BY <2>1, <2>4, <3>1, <3>4, <4>2
      <4> QED
        BY <3>5, <4>1, <4>2
    <3>8. ASSUME NEW j \in 1..Len(new), j \in I PROVE \E i \in 1..Len(k) : h[i] = j
      <4>1. CASE j = n
        BY <2>3, <3>1, <3>4, <4>1
      <4>2. CASE j # n
        <5>1. j \in 1..Len(old)
          BY <2>1, <4>2
        <5>2. PICK i \in 1..Len(q) : g[i] = j
          BY <2>2, <3>8, <5>1, Zenon DEF TakenAt
        <5>3. h[i] = j
          BY <3>3, <5>2
        <5>4. i \in 1..Len(k)
          BY <2>3, <3>1
        <5> QED
          BY <5>3, <5>4
      <4> QED
        BY <4>1, <4>2
    <3>9. TakenAt(h, k, new, I)
      BY <3>2, <3>6, <3>7, <3>8 DEF TakenAt
    <3> QED
      BY <3>1, <3>9 DEF new
  <2>5. CASE n \notin I
    <3>1. f[n] = q
      BY <1>3, <2>5 DEF q
    <3>2. \A i \in 1..Len(q) : g[i] \in 1..(n - 1)
      BY <2>1, <2>2, <2>3 DEF TakenAt
    <3>3. TakenAt(g, q, new, I)
      <4>1. g \in [1..Len(q) -> 1..Len(new)]
        BY <2>1, <2>2 DEF TakenAt
      <4>2. \A i \in 1..Len(q) : q[i] = new[g[i]] /\ g[i] \in I
        BY <2>1, <2>2, <3>2 DEF TakenAt
      <4>3. \A j \in 1..Len(new) : j \in I => j \in 1..Len(old)
        BY <2>1, <2>5
      <4> QED
        BY <2>2, <4>1, <4>2, <4>3 DEF TakenAt
    <3> QED
      BY <2>2, <3>1, <3>3 DEF new
  <2> QED
    BY <2>4, <2>5
<1>6. P = 0..Len(s)
  <2> HIDE DEF Taken
  <2>1. 0 \in P /\ P \in SUBSET (0..Len(s))
    BY <1>2, <1>4
  <2>2. \A k \in 1..Len(s) : k - 1 \in P => k \in P
    BY <1>2, <1>5
  <2> HIDE DEF P
  <2> QED
    BY <1>2, <2>1, <2>2, Upward
<1>7. Taken(Len(s))
  <2> HIDE DEF Taken
  <2> QED
    BY <1>2, <1>6
<1>8. SubSeq(s, 1, Len(s)) = s
  OBVIOUS
<1> QED
  BY <1>1, <1>7, <1>8

\* An increasing enumeration of all numbers up to m is the identity.
LEMMA IncreasingOnto ==
    ASSUME NEW n \in Nat, NEW m \in Nat, NEW g \in [1..n -> 1..m], Increasing(g, n),
           \A j \in 1..m : \E i \in 1..n : g[i] = j
    PROVE  n = m /\ \A i \in 1..n : g[i] = i
<1> DEFINE Bad == {i \in 1..n : g[i] # i}
<1>1. Bad = {}
  <2> SUFFICES ASSUME Bad # {} PROVE FALSE
    OBVIOUS
  <2>1. PICK k \in Bad : \A i \in Bad : k <= i
    <3>1. Bad \in SUBSET Nat
      OBVIOUS
    <3> HIDE DEF Bad
    <3> QED
      BY <3>1, Least
  <2>2. \A i \in 1..n : i < k => g[i] = i
    BY <2>1
  <2>3. k \in 1..n /\ g[k] \in 1..m /\ g[k] # k
    BY <2>1
  <2>4. g[k] > k
    <3>1. CASE k = 1
      BY <2>3, <3>1
    <3>2. CASE k > 1
      <4>1. k - 1 \in 1..n /\ k - 1 < k /\ g[k - 1] = k - 1
        BY <2>2, <2>3, <3>2
      <4>2. g[k - 1] < g[k]
        BY <2>3, <4>1 DEF Increasing
      <4> QED
        BY <2>3, <4>1, <4>2
    <3> QED
      BY <2>3, <3>1, <3>2
  <2>5. k \in 1..m
    BY <2>3, <2>4
  <2>6. PICK l \in 1..n : g[l] = k
    BY <2>5
  <2>7. ~ (l < k)
    BY <2>2, <2>6
  <2>8. l = k \/ g[k] < g[l]
    BY <2>3, <2>6, <2>7 DEF Increasing
  <2> QED
    BY <2>3, <2>4, <2>6, <2>8
<1>2. \A i \in 1..n : g[i] = i
  BY <1>1
<1>3. n <= m
  BY <1>2
<1>4. m <= n
  BY <1>2
<1> QED
  BY <1>2, <1>3, <1>4

\* If every place is chosen, all is kept.
LEMMA KeepAll ==
    ASSUME NEW S, NEW s \in Seq(S), NEW I, 1..Len(s) \subseteq I
    PROVE  Keep(s, I) = s
<1>1. Len(s) \in Nat
  OBVIOUS
<1>2. PICK g : Keep(s, I) \in Seq(S) /\ TakenAt(g, Keep(s, I), s, I)
  BY KeepTakes
<1>3. Len(Keep(s, I)) \in Nat
  BY <1>2
<1>4. Len(Keep(s, I)) = Len(s) /\ \A i \in 1..Len(Keep(s, I)) : g[i] = i
  <2>1. /\ g \in [1..Len(Keep(s, I)) -> 1..Len(s)]
        /\ Increasing(g, Len(Keep(s, I)))
        /\ \A j \in 1..Len(s) : \E i \in 1..Len(Keep(s, I)) : g[i] = j
    BY <1>2 DEF TakenAt
  <2> QED
    BY <1>1, <1>3, <2>1, IncreasingOnto
<1>5. \A i \in 1..Len(s) : Keep(s, I)[i] = s[i]
  BY <1>2, <1>4 DEF TakenAt
<1> QED
  BY <1>2, <1>4, <1>5
=============================================================================
