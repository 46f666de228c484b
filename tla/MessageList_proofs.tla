-------------------------- MODULE MessageList_proofs --------------------------
(***************************************************************************)
(* What the passes over a message list keep: whatever a truncation removes *)
(* from a well paired list that ends with a question, the rest is again    *)
(* well paired and ends with it.                                           *)
(***************************************************************************)
EXTENDS MessageList, Subsequences_proofs, SequenceTheorems

\* A set of messages with room for those that stand in for lost results.
Listable(M) ==
    \E Ids, Labels : M = MessageSet(Ids, Labels) /\ NoId \in Ids /\ "synthetic" \in Labels

Roles == {"system", "user", "assistant", "tool"}

LEMMA MadeTypes ==
    ASSUME NEW Ids, NoId \in Ids, NEW Labels, NEW label \in Labels
    PROVE  /\ \A role \in Roles : Plain(role, label) \in MessageSet(Ids, Labels)
           /\ \A c \in Ids, n \in Nat : Result(c, n, label) \in MessageSet(Ids, Labels)
           /\ \A cs \in Seq(Ids) :
                Message("assistant", cs, NoId, 1, {label}) \in MessageSet(Ids, Labels)
<1>1. <<>> \in Seq(Ids) /\ 1 \in Nat
  OBVIOUS
<1>2. {label} \in SUBSET Labels
  OBVIOUS
<1>3. ASSUME NEW role \in Roles, NEW cs \in Seq(Ids), NEW id \in Ids, NEW n \in Nat
      PROVE  Message(role, cs, id, n, {label}) \in MessageSet(Ids, Labels)
  BY <1>2 DEF Message, MessageSet, Roles
<1> QED
  BY <1>1, <1>3 DEF Plain, Result, Roles

-----------------------------------------------------------------------------
(* Searching a list *)

LEMMA MinIs ==
    ASSUME NEW T \in SUBSET Nat, T # {}
    PROVE  Min(T) \in T /\ \A y \in T : Min(T) <= y
<1>1. \E x \in T : \A y \in T : x <= y
  BY Least
<1> QED
  BY <1>1 DEF Min

LEMMA MaxOf ==
    ASSUME NEW T \in SUBSET Nat, T # {}, NEW b \in Nat, \A y \in T : y <= b
    PROVE  Max(T) \in T /\ \A y \in T : y <= Max(T)
<1>1. \E x \in T : \A y \in T : y <= x
  BY Greatest
<1>2. \E x \in T : \A y \in T : x >= y
  BY <1>1
<1> QED
  BY <1>2 DEF Max

\* The first of the places J from i on, or the one behind the end.
First(n, i, J) == Min({j \in i..n : j \in J} \cup {n + 1})

LEMMA FirstIs ==
    ASSUME NEW n \in Nat, NEW i \in 1..(n + 1), NEW J
    PROVE  /\ First(n, i, J) \in i..(n + 1)
           /\ \A j \in i..n : j < First(n, i, J) => j \notin J
           /\ First(n, i, J) <= n => First(n, i, J) \in J
<1> DEFINE T == {j \in i..n : j \in J} \cup {n + 1}
<1>1. T \in SUBSET Nat /\ T # {} /\ n + 1 \in T
  OBVIOUS
<1>2. \A j \in T : j \in i..(n + 1) /\ (j <= n => j \in J)
  OBVIOUS
<1>3. \A j \in i..n : j \in J => j \in T
  OBVIOUS
<1>4. Min(T) = First(n, i, J)
  BY DEF First
<1> HIDE DEF T
<1>5. Min(T) \in T /\ \A y \in T : Min(T) <= y
  BY <1>1, MinIs
<1> QED
  BY <1>2, <1>3, <1>4, <1>5

\* The messages of a list with one of the roles R.
Having(s, R) == {j \in 1..Len(s) : s[j].role \in R}
Speakers == {"user", "assistant"}

LEMMA Typed ==
    ASSUME NEW M, Listable(M), NEW s \in Seq(M)
    PROVE  /\ Len(s) \in Nat
           /\ \A i \in 1..Len(s) : s[i] \in M /\ s[i].role \in Roles
<1>1. Len(s) \in Nat /\ \A i \in 1..Len(s) : s[i] \in M
  BY SeqElements
<1>2. \A m \in M : m.role \in Roles
  BY DEF Listable, MessageSet, Roles
<1> QED
  BY <1>1, <1>2

LEMMA Searches ==
    ASSUME NEW M, Listable(M), NEW s \in Seq(M), NEW i \in Nat \ {0}
    PROVE  /\ FirstFrom(s, i, LAMBDA m : m.role # "system")
                = First(Len(s), i, Having(s, Roles \ {"system"}))
           /\ FirstFrom(s, i, LAMBDA m : m.role # "tool")
                = First(Len(s), i, Having(s, Roles \ {"tool"}))
           /\ FirstFrom(s, i, LAMBDA m : m.role = "user")
                = First(Len(s), i, Having(s, {"user"}))
           /\ FirstFrom(s, i, LAMBDA m : m.role \notin {"tool", "system"})
                = First(Len(s), i, Having(s, Speakers))
<1>1. \A j \in i..Len(s) : j \in 1..Len(s) /\ s[j].role \in Roles
  BY Typed
<1>2. {j \in i..Len(s) : s[j].role # "system"}
        = {j \in i..Len(s) : j \in Having(s, Roles \ {"system"})}
  BY <1>1 DEF Having, Roles
<1>3. {j \in i..Len(s) : s[j].role # "tool"}
        = {j \in i..Len(s) : j \in Having(s, Roles \ {"tool"})}
  BY <1>1 DEF Having, Roles
<1>4. {j \in i..Len(s) : s[j].role = "user"} = {j \in i..Len(s) : j \in Having(s, {"user"})}
  BY <1>1 DEF Having, Roles
<1>5. {j \in i..Len(s) : s[j].role \notin {"tool", "system"}}
        = {j \in i..Len(s) : j \in Having(s, Speakers)}
  BY <1>1 DEF Having, Roles, Speakers
<1> QED
  BY <1>2, <1>3, <1>4, <1>5, Zenon DEF FirstFrom, First

LEMMA FirstNonSystemIs ==
    ASSUME NEW M, Listable(M), NEW s \in Seq(M)
    PROVE  /\ FirstNonSystem(s) \in 1..(Len(s) + 1)
           /\ \A i \in 1..Len(s) : i < FirstNonSystem(s) => s[i].role = "system"
<1> DEFINE J == Having(s, Roles \ {"system"})
           f == First(Len(s), 1, J)
<1>1. Len(s) \in Nat /\ \A i \in 1..Len(s) : s[i].role \in Roles
  BY Typed
<1>2. FirstFrom(s, 1, LAMBDA m : m.role # "system") = f
  <2>1. 1 \in Nat \ {0}
    OBVIOUS
  <2> QED
    BY <2>1, Searches, Zenon
<1>3. f \in 1..(Len(s) + 1) /\ \A j \in 1..Len(s) : j < f => j \notin J
  <2> HIDE DEF J
  <2> QED
    BY <1>1, FirstIs
<1>4. \A j \in 1..Len(s) : j < f => s[j].role = "system"
  BY <1>1, <1>3 DEF Having
<1> HIDE DEF f
<1>5. FirstNonSystem(s) = IF f > Len(s) THEN 1 ELSE f
  BY <1>2, Zenon DEF FirstNonSystem
<1> QED
  BY <1>1, <1>3, <1>4, <1>5

LEMMA FirstNonSystemFound ==
    ASSUME NEW M, Listable(M), NEW s \in Seq(M), s # <<>>, s[1].role = "system",
           NEW u \in 1..Len(s), s[u].role # "system"
    PROVE  FirstNonSystem(s) > 1
<1> DEFINE J == Having(s, Roles \ {"system"})
           f == First(Len(s), 1, J)
<1>1. Len(s) \in Nat /\ \A i \in 1..Len(s) : s[i].role \in Roles
  BY Typed
<1>2. FirstFrom(s, 1, LAMBDA m : m.role # "system") = f
  <2>1. 1 \in Nat \ {0}
    OBVIOUS
  <2> QED
    BY <2>1, Searches, Zenon
<1>3. /\ f \in 1..(Len(s) + 1) /\ \A j \in 1..Len(s) : j < f => j \notin J
      /\ f <= Len(s) => f \in J
  <2> HIDE DEF J
  <2> QED
    BY <1>1, FirstIs
<1>4. u \in J /\ 1 \notin J
  BY <1>1 DEF Having
<1> HIDE DEF f, J
<1>5. f <= Len(s)
  BY <1>1, <1>3, <1>4
<1>6. f # 1
  BY <1>3, <1>4, <1>5
<1>7. FirstNonSystem(s) = IF f > Len(s) THEN 1 ELSE f
  BY <1>2, Zenon DEF FirstNonSystem
<1> QED
  BY <1>1, <1>3, <1>5, <1>6, <1>7

-----------------------------------------------------------------------------
(* Calls and their results *)

\* Every call is answered; no two results have the same id; every result has
\* an id somebody called.
Answered(s) ==
    \A i \in Indices(s) : HasCalls(s[i]) =>
        \A c \in ToSet(s[i].calls) : \E j \in (i + 1)..Len(s) : Answers(s, i, j) /\ s[j].id = c
OneAnswer(s) ==
    \A j, k \in Indices(s) :
        s[j].role = "tool" /\ s[k].role = "tool" /\ s[j].id = s[k].id => j = k
Called(s) ==
    \A j \in Indices(s) : s[j].role = "tool" =>
        \E i \in Indices(s) : HasCalls(s[i]) /\ s[j].id \in ToSet(s[i].calls)

LEMMA PairedIs ==
    ASSUME NEW M, Listable(M), NEW s \in Seq(M)
    PROVE  WellPaired(s) <=> Answered(s) /\ OneAnswer(s) /\ Called(s)
<1>1. Len(s) \in Nat
  BY Typed
<1>2. ASSUME WellPaired(s) PROVE Answered(s) /\ OneAnswer(s) /\ Called(s)
  <2>1. Answered(s) /\ OneAnswer(s)
    BY <1>2 DEF WellPaired, Answered, OneAnswer
  <2>2. ASSUME NEW j \in Indices(s), s[j].role = "tool"
        PROVE  \E i \in Indices(s) : HasCalls(s[i]) /\ s[j].id \in ToSet(s[i].calls)
    <3>1. PICK i \in 1..(j - 1) : Answers(s, i, j)
      BY <1>2, <2>2 DEF WellPaired
    <3> QED
      BY <1>1, <3>1 DEF Answers, Indices
  <2> QED
    BY <2>1, <2>2 DEF Called
<1>3. ASSUME Answered(s), OneAnswer(s), Called(s) PROVE WellPaired(s)
  <2>1. ASSUME NEW j \in Indices(s), s[j].role = "tool"
        PROVE  \E i \in 1..(j - 1) : Answers(s, i, j)
    <3>1. PICK i \in Indices(s) : HasCalls(s[i]) /\ s[j].id \in ToSet(s[i].calls)
      BY <1>3, <2>1 DEF Called
    <3>2. PICK k \in (i + 1)..Len(s) : Answers(s, i, k) /\ s[k].id = s[j].id
      BY <1>3, <3>1 DEF Answered
    <3>3. k \in Indices(s) /\ s[k].role = "tool"
      BY <1>1, <3>2 DEF Indices, Answers
    <3>4. k = j
      BY <1>3, <2>1, <3>2, <3>3 DEF OneAnswer
    <3> QED
      BY <1>1, <3>2, <3>4 DEF Indices
  <2> QED
    BY <1>3, <2>1 DEF WellPaired, Answered, OneAnswer
<1> QED
  BY <1>2, <1>3

\* t is a part of s, as far as roles, calls and ids go.
Thins(g, t, s) ==
    /\ g \in [1..Len(t) -> 1..Len(s)]
    /\ Increasing(g, Len(t))
    /\ \A i \in 1..Len(t) :
         t[i].role = s[g[i]].role /\ t[i].calls = s[g[i]].calls /\ t[i].id = s[g[i]].id
\* No call is left without its results, no result without its call.
KeepsAnswers(g, t, s) ==
    \A i \in 1..Len(t) : HasCalls(s[g[i]]) =>
        \A j \in (g[i] + 1)..Len(s) : Answers(s, g[i], j) => \E k \in 1..Len(t) : g[k] = j
KeepsCalls(g, t, s) ==
    \A k \in 1..Len(t) : s[g[k]].role = "tool" =>
        \A i \in 1..(g[k] - 1) : Answers(s, i, g[k]) => \E h \in 1..Len(t) : g[h] = i

LEMMA ThinnedOneAnswer ==
    ASSUME NEW M, Listable(M), NEW s \in Seq(M), NEW t \in Seq(M), NEW g,
           Thins(g, t, s), OneAnswer(s)
    PROVE  OneAnswer(t)
<1>1. Len(s) \in Nat /\ Len(t) \in Nat
  BY Typed
<1> SUFFICES ASSUME NEW j \in 1..Len(t), NEW k \in 1..Len(t),
                    t[j].role = "tool", t[k].role = "tool", t[j].id = t[k].id
             PROVE  j = k
  BY DEF OneAnswer, Indices
<1>2. g[j] = g[k]
  <2>1. /\ g[j] \in 1..Len(s) /\ s[g[j]].role = "tool" /\ s[g[j]].id = t[j].id
        /\ g[k] \in 1..Len(s) /\ s[g[k]].role = "tool" /\ s[g[k]].id = t[k].id
    BY DEF Thins
  <2> QED
    BY <2>1 DEF OneAnswer, Indices
<1> QED
  BY <1>1, <1>2 DEF Thins, Increasing

LEMMA ThinnedAnswered ==
    ASSUME NEW M, Listable(M), NEW s \in Seq(M), NEW t \in Seq(M), NEW g,
           Thins(g, t, s), KeepsAnswers(g, t, s), Answered(s)
    PROVE  Answered(t)
<1>1. Len(s) \in Nat /\ Len(t) \in Nat
  BY Typed
<1> SUFFICES ASSUME NEW i \in 1..Len(t), HasCalls(t[i]), NEW c \in ToSet(t[i].calls)
             PROVE  \E k \in (i + 1)..Len(t) : Answers(t, i, k) /\ t[k].id = c
  BY DEF Answered, Indices
<1>2. g[i] \in 1..Len(s) /\ HasCalls(s[g[i]]) /\ c \in ToSet(s[g[i]].calls)
  BY DEF Thins, HasCalls
<1>3. PICK j \in (g[i] + 1)..Len(s) : Answers(s, g[i], j) /\ s[j].id = c
  BY <1>2 DEF Answered, Indices
<1>4. PICK k \in 1..Len(t) : g[k] = j
  BY <1>2, <1>3 DEF KeepsAnswers
<1>5. k \in (i + 1)..Len(t)
  <2>1. CASE k = i
    BY <1>1, <1>2, <1>3, <1>4, <2>1
  <2>2. CASE k < i
    <3>1. g[k] < g[i]
      BY <2>2 DEF Thins, Increasing
    <3> QED
      BY <1>1, <1>2, <1>3, <1>4, <3>1
  <2> QED
    BY <1>1, <2>1, <2>2
<1>6. t[k].role = "tool" /\ t[k].id = c /\ t[k].id \in ToSet(t[i].calls)
  BY <1>3, <1>4 DEF Answers, Thins
<1>7. ASSUME NEW h \in (i + 1)..(k - 1) PROVE t[h].role \in {"tool", "system"}
  <2>1. h \in 1..Len(t) /\ i < h /\ h < k
    BY <1>1, <1>7
  <2>2. g[h] \in 1..Len(s) /\ g[i] < g[h] /\ g[h] < g[k]
    BY <2>1 DEF Thins, Increasing
  <2>3. g[h] \in (g[i] + 1)..(j - 1)
    BY <1>1, <1>2, <1>3, <1>4, <2>2
  <2> QED
    BY <1>3, <2>1, <2>3 DEF Answers, Thins
<1> QED
  BY <1>5, <1>6, <1>7 DEF Answers

LEMMA ThinnedCalled ==
    ASSUME NEW M, Listable(M), NEW s \in Seq(M), NEW t \in Seq(M), NEW g,
           Thins(g, t, s), KeepsCalls(g, t, s), WellPaired(s)
    PROVE  Called(t)
<1>1. Len(s) \in Nat /\ Len(t) \in Nat
  BY Typed
<1> SUFFICES ASSUME NEW k \in 1..Len(t), t[k].role = "tool"
             PROVE  \E h \in 1..Len(t) : HasCalls(t[h]) /\ t[k].id \in ToSet(t[h].calls)
  BY DEF Called, Indices
<1>2. g[k] \in 1..Len(s) /\ s[g[k]].role = "tool" /\ s[g[k]].id = t[k].id
  BY DEF Thins
<1>3. PICK i \in 1..(g[k] - 1) : Answers(s, i, g[k])
  BY <1>2 DEF WellPaired, Indices
<1>4. PICK h \in 1..Len(t) : g[h] = i
  BY <1>2, <1>3 DEF KeepsCalls
<1> QED
  BY <1>2, <1>3, <1>4 DEF Answers, Thins, HasCalls

-----------------------------------------------------------------------------
(* Keeping some messages of a list *)

LEMMA TakenThins ==
    ASSUME NEW s, NEW t, NEW I, NEW g, TakenAt(g, t, s, I)
    PROVE  Thins(g, t, s)
BY DEF TakenAt, Thins

\* The results of the calls among I are among I; so are the calls of its
\* results; so is the last user message.
ResultsToo(s, I) ==
    \A i \in 1..Len(s) : i \in I /\ HasCalls(s[i]) =>
        \A j \in (i + 1)..Len(s) : Answers(s, i, j) => j \in I
CallsToo(s, I) ==
    \A j \in 1..Len(s) : j \in I /\ s[j].role = "tool" =>
        \A i \in 1..(j - 1) : Answers(s, i, j) => i \in I
LastUserToo(s, I) ==
    \A u \in 1..Len(s) :
        s[u].role = "user" /\ (\A j \in (u + 1)..Len(s) : s[j].role # "user") => u \in I

LEMMA TakenHalf ==
    ASSUME NEW M, Listable(M), NEW s \in Seq(M), NEW t \in Seq(M), NEW I, NEW g,
           TakenAt(g, t, s, I),
           ResultsToo(s, I), Answered(s), OneAnswer(s)
    PROVE  Answered(t) /\ OneAnswer(t)
<1>1. Thins(g, t, s)
  BY TakenThins
<1>2. Len(s) \in Nat /\ Len(t) \in Nat
  BY Typed
<1>3. KeepsAnswers(g, t, s)
  <2> SUFFICES ASSUME NEW i \in 1..Len(t), HasCalls(s[g[i]]),
                      NEW j \in (g[i] + 1)..Len(s), Answers(s, g[i], j)
               PROVE  \E k \in 1..Len(t) : g[k] = j
    BY DEF KeepsAnswers
  <2>1. g[i] \in 1..Len(s) /\ g[i] \in I
    BY DEF TakenAt
  <2>2. j \in I /\ j \in 1..Len(s)
    BY <1>2, <2>1 DEF ResultsToo
  <2> QED
    BY <2>2 DEF TakenAt
<1> QED
  BY <1>1, <1>3, ThinnedAnswered, ThinnedOneAnswer

LEMMA TakenCalled ==
    ASSUME NEW M, Listable(M), NEW s \in Seq(M), NEW t \in Seq(M), NEW I, NEW g,
           TakenAt(g, t, s, I),
           CallsToo(s, I), WellPaired(s)
    PROVE  Called(t)
<1>1. Thins(g, t, s)
  BY TakenThins
<1>2. Len(s) \in Nat /\ Len(t) \in Nat
  BY Typed
<1>3. KeepsCalls(g, t, s)
  <2> SUFFICES ASSUME NEW k \in 1..Len(t), s[g[k]].role = "tool",
                      NEW i \in 1..(g[k] - 1), Answers(s, i, g[k])
               PROVE  \E h \in 1..Len(t) : g[h] = i
    BY DEF KeepsCalls
  <2>1. g[k] \in 1..Len(s) /\ g[k] \in I
    BY DEF TakenAt
  <2>2. i \in I /\ i \in 1..Len(s)
    BY <1>2, <2>1 DEF CallsToo
  <2> QED
    BY <2>2 DEF TakenAt
<1> QED
  BY <1>1, <1>3, ThinnedCalled

\* The last user message bears a label of L.
LastBears(s, L) ==
    \E u \in Indices(s) :
        /\ s[u].role = "user" /\ s[u].labels \cap L # {}
        /\ \A j \in (u + 1)..Len(s) : s[j].role # "user"
\* Every user message with an attachment bears a label of L.
OwnAttached(s, L) ==
    \A i \in Indices(s) :
        s[i].role = "user" /\ "attachment" \in s[i].labels => s[i].labels \cap L # {}

LEMMA TakenAsks ==
    ASSUME NEW M, NEW L, Listable(M), NEW s \in Seq(M), NEW t \in Seq(M), NEW I, NEW g,
           TakenAt(g, t, s, I),
           LastUserToo(s, I), LastBears(s, L)
    PROVE  LastBears(t, L)
<1>1. Len(s) \in Nat /\ Len(t) \in Nat
  BY Typed
<1>2. PICK u \in 1..Len(s) :
         /\ s[u].role = "user" /\ s[u].labels \cap L # {}
         /\ \A j \in (u + 1)..Len(s) : s[j].role # "user"
  BY DEF LastBears, Indices
<1>3. u \in I
  BY <1>2 DEF LastUserToo
<1>4. PICK v \in 1..Len(t) : g[v] = u
  BY <1>3 DEF TakenAt
<1>5. t[v].role = "user" /\ t[v].labels \cap L # {}
  BY <1>2, <1>4 DEF TakenAt
<1>6. ASSUME NEW j \in (v + 1)..Len(t) PROVE t[j].role # "user"
  <2>1. j \in 1..Len(t) /\ v < j
    BY <1>1
  <2>2. g[j] \in 1..Len(s) /\ g[v] < g[j] /\ t[j] = s[g[j]]
    BY <2>1 DEF TakenAt, Increasing
  <2>3. g[j] \in (u + 1)..Len(s)
    BY <1>1, <1>4, <2>2
  <2> QED
    BY <1>2, <2>2, <2>3
<1> QED
  BY <1>5, <1>6 DEF LastBears, Indices

LEMMA TakenAttachments ==
    ASSUME NEW L, NEW s, NEW t, NEW I, NEW g, TakenAt(g, t, s, I), OwnAttached(s, L)
    PROVE  OwnAttached(t, L)
BY DEF TakenAt, OwnAttached, Indices

LEMMA TakenFirst ==
    ASSUME NEW M, Listable(M), NEW s \in Seq(M), NEW t \in Seq(M), NEW I, NEW g,
           TakenAt(g, t, s, I),
           s # <<>>, 1 \in I
    PROVE  t # <<>> /\ t[1] = s[1]
<1>1. Len(s) \in Nat /\ Len(t) \in Nat /\ 1 \in 1..Len(s)
  BY Typed
<1>2. PICK i \in 1..Len(t) : g[i] = 1
  BY <1>1 DEF TakenAt
<1>3. 1 \in 1..Len(t) /\ g[1] \in 1..Len(s)
  BY <1>1, <1>2 DEF TakenAt
<1>4. i = 1
  <2>1. CASE 1 < i
    <3>1. g[1] < g[i]
      BY <1>3, <2>1 DEF TakenAt, Increasing
    <3> QED
      BY <1>1, <1>2, <1>3, <3>1
  <2> QED
    BY <1>1, <1>2, <2>1
<1>5. t[1] = s[1]
  BY <1>2, <1>4 DEF TakenAt
<1> QED
  BY <1>1, <1>3, <1>5

\* The results in t are results in s.
SameResults(t, s) ==
    \A j \in Indices(t) : t[j].role = "tool" =>
        \E k \in Indices(s) : s[k].role = "tool" /\ s[k].id = t[j].id

LEMMA ThinnedResults ==
    ASSUME NEW s, NEW t, NEW g, Thins(g, t, s)
    PROVE  SameResults(t, s)
BY DEF Thins, SameResults, Indices

LEMMA SameResultsTransitive ==
    ASSUME NEW r, NEW s, NEW t, SameResults(s, r), SameResults(t, s)
    PROVE  SameResults(t, r)
BY DEF SameResults

-----------------------------------------------------------------------------
(* FlattenSeq *)

FlattenedUpTo(f, seqs) ==
    f = [i \in 1..Len(seqs) |-> IF i = 1 THEN seqs[i] ELSE f[i - 1] \o seqs[i]]

LEMMA FlattenExists ==
    ASSUME NEW S, NEW seqs \in Seq(Seq(S))
    PROVE  \E f : FlattenedUpTo(f, seqs)
<1> DEFINE G == [i \in 1..Len(seqs) |-> [q \in Seq(S) |-> q \o seqs[i]]]
<1>1. Len(seqs) \in Nat /\ \A i \in 1..Len(seqs) : seqs[i] \in Seq(S)
  OBVIOUS
<1>2. PICK f \in [0..Len(seqs) -> Seq(S)] :
         f[0] = <<>> /\ \A i \in 1..Len(seqs) : f[i] = G[i][f[i - 1]]
  <2> DEFINE V == Seq(S)
             v0 == <<>>
             m == Len(seqs)
  <2>1. G \in StepsOn(m, V) /\ v0 \in V /\ m \in Nat
    BY <1>1 DEF StepsOn
  <2> HIDE DEF G, V, v0, m
  <2>2. \E f \in Values(m, V) : Built(f, v0, m, G)
    BY <2>1, Steps
  <2> QED
    BY <2>2 DEF V, v0, m, Values, Built
<1>3. ASSUME NEW i \in 1..Len(seqs) PROVE f[i] = f[i - 1] \o seqs[i]
  <2>1. f[i - 1] \in Seq(S)
    <3>1. i - 1 \in 0..Len(seqs)
      BY <1>1
    <3> DEFINE V == Seq(S)
    <3>2. f \in [0..Len(seqs) -> V]
      OBVIOUS
    <3> HIDE DEF V
    <3>3. f[i - 1] \in V
      BY <3>1, <3>2
    <3> QED
      BY <3>3 DEF V
  <2> QED
    BY <1>2, <2>1
<1> DEFINE flat == [i \in 1..Len(seqs) |-> f[i]]
<1>4. ASSUME NEW i \in 1..Len(seqs)
      PROVE  flat[i] = IF i = 1 THEN seqs[i] ELSE flat[i - 1] \o seqs[i]
  <2>1. CASE i = 1
    <3>1. f[i - 1] = <<>>
      BY <1>2, <2>1
    <3>2. <<>> \o seqs[i] = seqs[i]
      BY <1>1
    <3> QED
      BY <1>3, <2>1, <3>1, <3>2
  <2>2. CASE i # 1
    <3>1. i - 1 \in 1..Len(seqs)
      BY <1>1, <2>2
    <3> QED
      BY <1>3, <2>2, <3>1
  <2> QED
    BY <2>1, <2>2
<1>5. flat = [i \in 1..Len(seqs) |-> IF i = 1 THEN seqs[i] ELSE flat[i - 1] \o seqs[i]]
  <2> DEFINE h == [i \in 1..Len(seqs) |-> IF i = 1 THEN seqs[i] ELSE flat[i - 1] \o seqs[i]]
  <2>1. \A i \in 1..Len(seqs) : flat[i] = h[i]
    <3> HIDE DEF flat
    <3> QED
      BY <1>4, Zenon
  <2>2. flat = [i \in 1..Len(seqs) |-> flat[i]]
    OBVIOUS
  <2>3. [i \in 1..Len(seqs) |-> flat[i]] = h
    <3> HIDE DEF flat
    <3> QED
      BY <1>4, Zenon
  <2> QED
    BY <2>2, <2>3
<1> QED
  <2> HIDE DEF flat
  <2> QED
    BY <1>5 DEF FlattenedUpTo

LEMMA FlattenByFlatten ==
    ASSUME NEW S, NEW seqs \in Seq(Seq(S)), seqs # <<>>
    PROVE  \E f : FlattenedUpTo(f, seqs) /\ FlattenSeq(seqs) = f[Len(seqs)]
<1> DEFINE f == CHOOSE h : FlattenedUpTo(h, seqs)
<1>1. FlattenedUpTo(f, seqs)
  BY FlattenExists
<1>2. Len(seqs) # 0
  OBVIOUS
<1>3. FlattenSeq(seqs) = f[Len(seqs)]
  BY <1>2, Zenon DEF FlattenSeq, FlattenedUpTo
<1> QED
  BY <1>1, <1>3

(* Flattening builds up from nothing, one sequence after the other.          *)
LEMMA Flattened ==
    ASSUME NEW S, NEW seqs \in Seq(Seq(S))
    PROVE  \E f \in [0..Len(seqs) -> Seq(S)] :
             /\ f[0] = <<>> /\ \A i \in 1..Len(seqs) : f[i] = f[i - 1] \o seqs[i]
             /\ FlattenSeq(seqs) = f[Len(seqs)]
<1>1. Len(seqs) \in Nat /\ \A i \in 1..Len(seqs) : seqs[i] \in Seq(S)
  OBVIOUS
<1>2. CASE seqs = <<>>
  <2> DEFINE f == [i \in 0..0 |-> <<>>]
  <2>1. FlattenSeq(seqs) = <<>>
    BY <1>2 DEF FlattenSeq
  <2>2. Len(seqs) = 0
    BY <1>2
  <2>3. f \in [0..Len(seqs) -> Seq(S)] /\ f[0] = <<>>
    BY <2>2
  <2> HIDE DEF f
  <2> QED
    BY <2>1, <2>2, <2>3
<1>3. CASE seqs # <<>>
  <2>1. PICK f : FlattenedUpTo(f, seqs) /\ FlattenSeq(seqs) = f[Len(seqs)]
    BY <1>3, FlattenByFlatten
  <2>2. \A i \in 1..Len(seqs) : f[i] = IF i = 1 THEN seqs[i] ELSE f[i - 1] \o seqs[i]
    BY <2>1, Zenon DEF FlattenedUpTo
  <2> DEFINE h == [i \in 0..Len(seqs) |-> IF i = 0 THEN <<>> ELSE f[i]]
             V == Seq(S)
             P == {i \in 0..Len(seqs) : h[i] \in V}
  <2>3. h[0] = <<>> /\ \A i \in 1..Len(seqs) : h[i] = f[i]
    BY <1>1
  <2>4. ASSUME NEW i \in 1..Len(seqs), h[i - 1] \in Seq(S) PROVE h[i] = h[i - 1] \o seqs[i]
    <3>1. CASE i = 1
      BY <1>1, <2>2, <2>3, <3>1
    <3>2. CASE i # 1
      <4>1. i - 1 \in 1..Len(seqs)
        BY <1>1, <3>2
      <4> QED
        BY <2>2, <2>3, <3>2, <4>1
    <3> QED
      BY <3>1, <3>2
  <2>5. h = [i \in 0..Len(seqs) |-> h[i]]
    OBVIOUS
  <2> HIDE DEF h
  <2>6. \A k \in 1..Len(seqs) : k - 1 \in P => k \in P
    <3> SUFFICES ASSUME NEW k \in 1..Len(seqs), k - 1 \in P PROVE k \in P
      OBVIOUS
    <3>1. h[k] = h[k - 1] \o seqs[k]
      BY <2>4
    <3>2. h[k - 1] \in Seq(S) /\ seqs[k] \in Seq(S)
      BY <1>1
    <3>3. h[k - 1] \o seqs[k] \in V
      BY <3>2
    <3>4. k \in 0..Len(seqs)
      BY <1>1
    <3> HIDE DEF V
    <3> QED
      BY <3>1, <3>3, <3>4
  <2>7. P = 0..Len(seqs)
    <3>1. <<>> \in V
      OBVIOUS
    <3> HIDE DEF V
    <3>2. P \in SUBSET (0..Len(seqs)) /\ 0 \in P
      BY <1>1, <2>3, <3>1
    <3> HIDE DEF P
    <3> QED
      BY <1>1, <2>6, <3>2, Upward
  <2>8. h \in [0..Len(seqs) -> Seq(S)]
    BY <2>5, <2>7
  <2>9. \A i \in 1..Len(seqs) : h[i] = h[i - 1] \o seqs[i]
    <3> SUFFICES ASSUME NEW i \in 1..Len(seqs) PROVE h[i] = h[i - 1] \o seqs[i]
      OBVIOUS
    <3>1. i - 1 \in 0..Len(seqs)
      BY <1>1
    <3>2. h[i - 1] \in V
      <4> HIDE DEF V
      <4> QED
        BY <2>7, <3>1
    <3> QED
      BY <2>4, <3>2
  <2>10. FlattenSeq(seqs) = h[Len(seqs)]
    BY <1>1, <1>3, <2>1, <2>3
  <2> QED
    BY <2>3, <2>8, <2>9, <2>10
<1> QED
  BY <1>2, <1>3

LEMMA FlattenSingles ==
    ASSUME NEW S, NEW s \in Seq(S)
    PROVE  FlattenSeq([i \in 1..Len(s) |-> <<s[i]>>]) = s
<1> DEFINE seqs == [i \in 1..Len(s) |-> <<s[i]>>]
<1>1. Len(s) \in Nat /\ \A i \in 1..Len(s) : s[i] \in S
  OBVIOUS
<1>2. seqs \in Seq(Seq(S)) /\ Len(seqs) = Len(s) /\ \A i \in 1..Len(s) : seqs[i] = <<s[i]>>
  <2>1. \A i \in 1..Len(s) : <<s[i]>> \in Seq(S)
    BY <1>1
  <2> QED
    BY <1>1, <2>1
<1> HIDE DEF seqs
<1>3. PICK f \in [0..Len(s) -> Seq(S)] :
         /\ f[0] = <<>> /\ \A i \in 1..Len(s) : f[i] = f[i - 1] \o seqs[i]
         /\ FlattenSeq(seqs) = f[Len(s)]
  <2>1. PICK f \in [0..Len(seqs) -> Seq(S)] :
           /\ f[0] = <<>> /\ \A i \in 1..Len(seqs) : f[i] = f[i - 1] \o seqs[i]
           /\ FlattenSeq(seqs) = f[Len(seqs)]
    BY <1>2, Flattened
  <2> QED
    BY <1>2, <2>1, Zenon
<1> DEFINE P == {n \in 0..Len(s) : f[n] = SubSeq(s, 1, n)}
<1>4. P = 0..Len(s)
  <2>1. 0 \in P /\ P \in SUBSET (0..Len(s))
    BY <1>1, <1>3
  <2>2. ASSUME NEW k \in 1..Len(s), k - 1 \in P PROVE k \in P
    <3>1. f[k] = SubSeq(s, 1, k - 1) \o <<s[k]>>
      BY <1>2, <1>3, <2>2
    <3>2. SubSeq(s, 1, k - 1) \o <<s[k]>> = SubSeq(s, 1, k)
      BY <1>1
    <3> QED
      BY <1>1, <3>1, <3>2
  <2> HIDE DEF P
  <2> QED
    BY <1>1, <2>1, <2>2, Upward
<1>5. Len(s) \in P
  BY <1>1, <1>4
<1>6. f[Len(s)] = SubSeq(s, 1, Len(s))
  BY <1>5
<1>7. SubSeq(s, 1, Len(s)) = s
  OBVIOUS
<1> QED
  BY <1>3, <1>6, <1>7 DEF seqs

-----------------------------------------------------------------------------
(* sanitize_tool_pairs *)

Lost(s, i) ==
    Keep(s[i].calls, {k \in Indices(s[i].calls) : s[i].calls[k] \notin AnsweredIds(s, i)})
Filled(s, i) ==
    IF HasCalls(s[i])
    THEN <<s[i]>> \o [k \in 1..Len(Lost(s, i)) |-> Result(Lost(s, i)[k], 1, "synthetic")]
    ELSE <<s[i]>>

LEMMA FillIs ==
    ASSUME NEW s
    PROVE  FillResults(s) = FlattenSeq([i \in Indices(s) |-> Filled(s, i)])
BY Zenon DEF FillResults, Filled, Lost

LEMMA FillResultsTypes ==
    ASSUME NEW M, Listable(M), NEW s \in Seq(M)
    PROVE  FillResults(s) \in Seq(M)
<1> DEFINE seqs == [i \in Indices(s) |-> Filled(s, i)]
<1>1. Len(s) \in Nat /\ \A i \in 1..Len(s) : s[i] \in M
  BY Typed
<1>0. PICK Ids, Labels : M = MessageSet(Ids, Labels) /\ NoId \in Ids /\ "synthetic" \in Labels
  BY DEF Listable
<1>2. ASSUME NEW i \in 1..Len(s) PROVE Filled(s, i) \in Seq(M)
  <2> DEFINE calls == s[i].calls
             lost == Lost(s, i)
             results == [k \in 1..Len(lost) |-> Result(lost[k], 1, "synthetic")]
  <2>1. calls \in Seq(Ids)
    BY <1>0, <1>1 DEF MessageSet
  <2>2. lost \in Seq(Ids)
    BY <2>1, KeepTakes DEF Lost
  <2>3. Len(lost) \in Nat /\ \A k \in 1..Len(lost) : lost[k] \in Ids
    <3> HIDE DEF lost
    <3> QED
      BY <2>2, SeqElements
  <2>4. ASSUME NEW c \in Ids PROVE Result(c, 1, "synthetic") \in M
    <3>1. \A n \in Nat : Result(c, n, "synthetic") \in M
      BY <1>0, MadeTypes
    <3> QED
      BY <3>1
  <2> HIDE DEF lost
  <2>5. results \in Seq(M)
    BY <2>3, <2>4
  <2>6. <<s[i]>> \in Seq(M)
    BY <1>1
  <2> HIDE DEF results
  <2>7. <<s[i]>> \o results \in Seq(M)
    BY <2>5, <2>6
  <2> QED
    BY <2>6, <2>7, Zenon DEF Filled, results, lost
<1>3. seqs \in Seq(Seq(M))
  <2> DEFINE V == Seq(M)
  <2>1. \A i \in 1..Len(s) : Filled(s, i) \in V
    BY <1>2
  <2> HIDE DEF V
  <2>2. seqs \in Seq(V)
    BY <1>1, <2>1 DEF Indices
  <2> QED
    BY <2>2 DEF V
<1> HIDE DEF seqs
<1>4. PICK f \in [0..Len(seqs) -> Seq(M)] : FlattenSeq(seqs) = f[Len(seqs)]
  BY <1>3, Flattened
<1>5. FlattenSeq(seqs) \in Seq(M)
  <2> DEFINE V == Seq(M)
             n == Len(seqs)
  <2>1. n \in Nat
    BY <1>3
  <2>2. f \in [0..n -> V]
    OBVIOUS
  <2> HIDE DEF V, n
  <2>3. f[n] \in V
    BY <2>1, <2>2
  <2> QED
    BY <1>4, <2>3 DEF V, n
<1> QED
  BY <1>5, FillIs DEF seqs

-----------------------------------------------------------------------------
(* A list whose last user message asks: it bears a label of L *)

Asks(s, L) == s # <<>> /\ s[1].role = "system" /\ LastBears(s, L) /\ OwnAttached(s, L)
\* t asks what s asks, as far as L tells, after the same prompt, and has no other results.
Carries(t, s, L) == SameResults(t, s) /\ (Asks(s, L) => Asks(t, L) /\ t[1] = s[1])

LEMMA CarriesTransitive ==
    ASSUME NEW L, NEW r, NEW s, NEW t, Carries(s, r, L), Carries(t, s, L)
    PROVE  Carries(t, r, L)
BY SameResultsTransitive DEF Carries

LEMMA TakenCarries ==
    ASSUME NEW L, NEW M, Listable(M), NEW s \in Seq(M), NEW t \in Seq(M), NEW I, NEW g,
           TakenAt(g, t, s, I), LastUserToo(s, I), Asks(s, L) => 1 \in I
    PROVE  Carries(t, s, L)
<1>1. SameResults(t, s)
  BY TakenThins, ThinnedResults
<1>2. ASSUME Asks(s, L) PROVE Asks(t, L) /\ t[1] = s[1]
  <2>1. s # <<>> /\ LastBears(s, L) /\ OwnAttached(s, L) /\ s[1].role = "system"
    BY <1>2 DEF Asks
  <2>2. t # <<>> /\ t[1] = s[1]
    BY <1>2, <2>1, TakenFirst
  <2>3. LastBears(t, L)
    BY <2>1, TakenAsks
  <2>4. OwnAttached(t, L)
    BY <2>1, TakenAttachments
  <2> QED
    BY <2>1, <2>2, <2>3, <2>4 DEF Asks
<1> QED
  BY <1>1, <1>2 DEF Carries

-----------------------------------------------------------------------------
(* What sanitize_tool_pairs removes *)

\* No call is answered by a result in front of everybody who speaks.
LEMMA StripKeeps ==
    ASSUME NEW L, NEW M, Listable(M), NEW s \in Seq(M)
    PROVE  /\ StripLeadingResults(s) \in Seq(M)
           /\ Carries(StripLeadingResults(s), s, L)
           /\ Answered(s) /\ OneAnswer(s) =>
                Answered(StripLeadingResults(s)) /\ OneAnswer(StripLeadingResults(s))
<1> DEFINE t     == StripLeadingResults(s)
           first == FirstNonSystem(s)
           J     == Having(s, Roles \ {"tool"})
           end   == First(Len(s), first, J)
           I     == {i \in 1..Len(s) : i < first \/ i >= end}
<1>1. Len(s) \in Nat /\ \A i \in 1..Len(s) : s[i].role \in Roles
  BY Typed
<1>2. first \in 1..(Len(s) + 1) /\ \A i \in 1..Len(s) : i < first => s[i].role = "system"
  BY FirstNonSystemIs
<1> HIDE DEF first
<1>3. end \in first..(Len(s) + 1) /\ \A j \in first..Len(s) : j < end => j \notin J
  <2> HIDE DEF J
  <2> QED
    BY <1>1, <1>2, FirstIs
<1>4. t = Keep(s, I)
  <2>1. first \in Nat \ {0}
    BY <1>1, <1>2
  <2>2. FirstFrom(s, first, LAMBDA m : m.role # "tool") = end
    BY <2>1, Searches, Zenon
  <2> QED
    BY <2>2, Zenon DEF StripLeadingResults, first, Indices
<1>5. \A j \in 1..Len(s) : j \notin I => j \in first..Len(s) /\ s[j].role = "tool"
  <2> SUFFICES ASSUME NEW j \in 1..Len(s), j \notin I
               PROVE  j \in first..Len(s) /\ s[j].role = "tool"
    OBVIOUS
  <2>1. j \in first..Len(s) /\ j < end
    BY <1>1, <1>2, <1>3
  <2>2. j \notin J
    BY <1>3, <2>1
  <2> QED
    BY <1>1, <2>1, <2>2 DEF Having, Roles
<1>6. \A i, j \in 1..Len(s) : i \in I /\ j \notin I /\ i < j => s[i].role = "system"
  <2> SUFFICES ASSUME NEW i \in 1..Len(s), NEW j \in 1..Len(s), i \in I, j \notin I, i < j
               PROVE  s[i].role = "system"
    OBVIOUS
  <2>1. i < first
    BY <1>1, <1>2, <1>3
  <2> QED
    BY <1>2, <2>1
<1>7. Asks(s, L) => 1 \in I
  <2>1. Asks(s, L) => s[1].role = "system" /\ 1 \in 1..Len(s)
    BY <1>1 DEF Asks
  <2> QED
    BY <1>5, <2>1
<1> HIDE DEF I, t, end
<1>8. PICK g : TakenAt(g, t, s, I)
  BY <1>4, KeepTakes
<1>9. t \in Seq(M)
  BY <1>4, KeepTakes
<1>10. LastUserToo(s, I)
  BY <1>5 DEF LastUserToo
<1>11. ResultsToo(s, I)
  <2> SUFFICES ASSUME NEW i \in 1..Len(s), i \in I, HasCalls(s[i]), NEW j \in (i + 1)..Len(s)
               PROVE  j \in I
    BY DEF ResultsToo
  <2>1. j \in 1..Len(s) /\ i < j
    BY <1>1
  <2> QED
    BY <1>6, <2>1 DEF HasCalls
<1> QED
  BY <1>7, <1>8, <1>9, <1>10, <1>11, TakenCarries, TakenHalf DEF t

\* Where every call is answered there is nothing to fill in.
LEMMA FillsNothing ==
    ASSUME NEW M, Listable(M), NEW s \in Seq(M), Answered(s)
    PROVE  FillResults(s) = s
<1>1. Len(s) \in Nat /\ \A i \in 1..Len(s) : s[i] \in M /\ s[i].role \in Roles
  BY Typed
<1>2. ASSUME NEW i \in 1..Len(s), HasCalls(s[i]), NEW c \in ToSet(s[i].calls)
      PROVE  c \in AnsweredIds(s, i)
  <2> DEFINE J   == Having(s, Speakers)
             end == First(Len(s), i + 1, J)
  <2>1. PICK j \in (i + 1)..Len(s) : Answers(s, i, j) /\ s[j].id = c
    BY <1>2 DEF Answered, Indices
  <2>2. /\ end \in (i + 1)..(Len(s) + 1)
        /\ end <= Len(s) => end \in J
    <3>1. i + 1 \in 1..(Len(s) + 1)
      BY <1>1
    <3> HIDE DEF J
    <3> QED
      BY <1>1, <3>1, FirstIs
  <2>3. AnsweredIds(s, i) = {s[k].id : k \in {h \in (i + 1)..(end - 1) : s[h].role = "tool"}}
    <3>1. i + 1 \in Nat \ {0}
      BY <1>1
    <3>2. FirstFrom(s, i + 1, LAMBDA m : m.role \notin {"tool", "system"}) = end
      BY <3>1, Searches, Zenon
    <3> QED
      BY <3>2, Zenon DEF AnsweredIds
  <2>4. end > j
    <3>1. CASE end <= Len(s) /\ end <= j
      <4>1. s[end].role \in Speakers
        BY <2>2, <3>1 DEF Having
      <4>2. end # j
        BY <2>1, <4>1 DEF Answers, Speakers
      <4>3. end \in (i + 1)..(j - 1)
        BY <1>1, <2>1, <2>2, <3>1, <4>2
      <4>4. s[end].role \in {"tool", "system"}
        BY <2>1, <4>3 DEF Answers
      <4> QED
        BY <4>1, <4>4 DEF Speakers
    <3> HIDE DEF end
    <3> QED
      BY <1>1, <2>1, <2>2, <3>1
  <2> HIDE DEF end
  <2>5. j \in (i + 1)..(end - 1) /\ s[j].role = "tool"
    BY <1>1, <2>1, <2>2, <2>4 DEF Answers
  <2> QED
    BY <2>1, <2>3, <2>5
<1>3. ASSUME NEW i \in 1..Len(s) PROVE Filled(s, i) = <<s[i]>>
  <2>1. CASE HasCalls(s[i])
    <3>1. PICK Ids, Labels : M = MessageSet(Ids, Labels)
      BY DEF Listable
    <3>2. s[i].calls \in Seq(Ids)
      BY <1>1, <3>1 DEF MessageSet
    <3> DEFINE I == {k \in Indices(s[i].calls) : s[i].calls[k] \notin AnsweredIds(s, i)}
    <3>3. \A k \in Indices(s[i].calls) : s[i].calls[k] \in ToSet(s[i].calls)
      BY <3>2 DEF ToSet, Indices
    <3>4. \A k : k \notin I
      BY <1>2, <2>1, <3>3
    <3>5. Lost(s, i) = Keep(s[i].calls, I)
      BY DEF Lost
    <3> HIDE DEF I
    <3>6. PICK g : TakenAt(g, Lost(s, i), s[i].calls, I)
      BY <3>2, <3>5, KeepTakes
    <3>7. Lost(s, i) \in Seq(Ids)
      BY <3>2, <3>5, KeepTakes
    <3>8. Len(Lost(s, i)) = 0
      <4>1. Len(Lost(s, i)) \in Nat
        BY <3>7
      <4> QED
        BY <3>4, <3>6, <4>1 DEF TakenAt
    <3>9. [k \in 1..Len(Lost(s, i)) |-> Result(Lost(s, i)[k], 1, "synthetic")] = <<>>
      BY <3>8
    <3>10. <<s[i]>> \o <<>> = <<s[i]>>
      OBVIOUS
    <3> QED
      BY <2>1, <3>9, <3>10, Zenon DEF Filled
  <2>2. CASE ~ HasCalls(s[i])
    BY <2>2, Zenon DEF Filled
  <2> QED
    BY <2>1, <2>2
<1>4. FillResults(s) = FlattenSeq([i \in 1..Len(s) |-> <<s[i]>>])
  <2>1. [i \in 1..Len(s) |-> Filled(s, i)] = [i \in 1..Len(s) |-> <<s[i]>>]
    BY <1>3, Zenon
  <2> QED
    BY <2>1, FillIs, Zenon DEF Indices
<1> QED
  BY <1>4, FlattenSingles

\* A result is removed only if nobody called it.
LEMMA DropKeeps ==
    ASSUME NEW L, NEW M, Listable(M), NEW s \in Seq(M)
    PROVE  /\ DropOrphans(s) \in Seq(M)
           /\ Carries(DropOrphans(s), s, L)
           /\ Answered(s) /\ OneAnswer(s) => WellPaired(DropOrphans(s))
<1> DEFINE t    == DropOrphans(s)
           Known(i) == \E j \in 1..(i - 1) :
                         s[j].role = "assistant" /\ s[i].id \in ToSet(s[j].calls)
           I    == {i \in Indices(s) : s[i].role = "tool" => Known(i)}
<1>1. Len(s) \in Nat /\ \A i \in 1..Len(s) : s[i] \in M
  BY Typed
<1>2. t = Keep(s, I)
  BY Zenon DEF DropOrphans
<1>3. \A i \in 1..Len(s) : s[i].role # "tool" => i \in I
  BY DEF Indices
<1>4. \A i \in 1..Len(s) : i \in I /\ s[i].role = "tool" => Known(i)
  OBVIOUS
<1>5. \A i \in 1..Len(s) : Known(i) => i \in I
  BY DEF Indices
<1>6. PICK g : TakenAt(g, t, s, I)
  <2> HIDE DEF I, t
  <2> QED
    BY <1>2, KeepTakes
<1>7. t \in Seq(M)
  <2> HIDE DEF I, t
  <2> QED
    BY <1>2, KeepTakes
<1> HIDE DEF I, t
<1>8. LastUserToo(s, I)
  BY <1>3 DEF LastUserToo
<1>9. Asks(s, L) => 1 \in I
  BY <1>1, <1>3 DEF Asks
<1>10. ResultsToo(s, I)
  <2> SUFFICES ASSUME NEW i \in 1..Len(s), NEW j \in (i + 1)..Len(s), Answers(s, i, j)
               PROVE  j \in I
    BY DEF ResultsToo
  <2>1. s[i].role = "assistant" /\ s[j].id \in ToSet(s[i].calls)
    BY DEF Answers, HasCalls
  <2>2. i \in 1..(j - 1) /\ j \in 1..Len(s)
    BY <1>1
  <2> QED
    BY <1>5, <2>1, <2>2
<1>11. ASSUME Answered(s), OneAnswer(s) PROVE WellPaired(t)
  <2>1. Answered(t) /\ OneAnswer(t)
    BY <1>6, <1>7, <1>10, <1>11, TakenHalf
  <2>2. Called(t)
    <3> SUFFICES ASSUME NEW k \in 1..Len(t), t[k].role = "tool"
                 PROVE  \E h \in 1..Len(t) : HasCalls(t[h]) /\ t[k].id \in ToSet(t[h].calls)
      BY DEF Called, Indices
    <3>1. g[k] \in 1..Len(s) /\ g[k] \in I /\ t[k] = s[g[k]]
      BY <1>6 DEF TakenAt
    <3>2. PICK j \in 1..(g[k] - 1) :
             s[j].role = "assistant" /\ s[g[k]].id \in ToSet(s[j].calls)
      BY <1>4, <3>1
    <3>3. j \in 1..Len(s)
      BY <1>1, <3>1
    <3>4. j \in I
      BY <1>3, <3>2, <3>3
    <3>5. PICK h \in 1..Len(t) : g[h] = j
      BY <1>6, <3>3, <3>4 DEF TakenAt
    <3>6. t[h] = s[j]
      BY <1>6, <3>5 DEF TakenAt
    <3>7. s[j].calls # <<>>
      BY <3>2 DEF ToSet
    <3> QED
      BY <3>1, <3>2, <3>6, <3>7 DEF HasCalls
  <2> QED
    BY <1>7, <2>1, <2>2, PairedIs
<1> QED
  BY <1>6, <1>7, <1>8, <1>9, <1>11, TakenCarries DEF t

LEMMA SanitizeKeeps ==
    ASSUME NEW L, NEW M, Listable(M), NEW s \in Seq(M)
    PROVE  /\ SanitizeToolPairs(s) \in Seq(M)
           /\ Answered(s) /\ OneAnswer(s) =>
                WellPaired(SanitizeToolPairs(s)) /\ Carries(SanitizeToolPairs(s), s, L)
<1> DEFINE stripped == StripLeadingResults(s)
           filled   == FillResults(stripped)
<1>1. stripped \in Seq(M) /\ Carries(stripped, s, L)
      /\ (Answered(s) /\ OneAnswer(s) => Answered(stripped) /\ OneAnswer(stripped))
  BY StripKeeps
<1> HIDE DEF stripped
<1>2. filled \in Seq(M)
  BY <1>1, FillResultsTypes
<1>3. Answered(stripped) => filled = stripped
  BY <1>1, FillsNothing
<1> HIDE DEF filled
<1>4. /\ DropOrphans(filled) \in Seq(M) /\ Carries(DropOrphans(filled), filled, L)
      /\ Answered(filled) /\ OneAnswer(filled) => WellPaired(DropOrphans(filled))
  BY <1>2, DropKeeps
<1>5. SanitizeToolPairs(s) = DropOrphans(filled)
  BY DEF SanitizeToolPairs, filled, stripped
<1>6. ASSUME Answered(s), OneAnswer(s)
      PROVE  WellPaired(DropOrphans(filled)) /\ Carries(DropOrphans(filled), s, L)
  <2>1. filled = stripped /\ Answered(filled) /\ OneAnswer(filled)
    BY <1>1, <1>3, <1>6
  <2> QED
    BY <1>1, <1>4, <2>1, CarriesTransitive
<1> QED
  BY <1>4, <1>5, <1>6

-----------------------------------------------------------------------------
(* normalize_role_alternation *)

\* The list is cut at a user message: nobody's call is separated from its result.
LEMMA DropLeadingKeeps ==
    ASSUME NEW L, NEW M, Listable(M), NEW s \in Seq(M)
    PROVE  /\ DropLeading(s) \in Seq(M)
           /\ WellPaired(s) => WellPaired(DropLeading(s))
           /\ Carries(DropLeading(s), s, L)
<1> DEFINE t     == DropLeading(s)
           first == FirstNonSystem(s)
           J     == Having(s, {"user"})
           user  == First(Len(s), first, J)
           I     == {i \in 1..Len(s) : i < first \/ i >= user}
<1>1. Len(s) \in Nat /\ \A i \in 1..Len(s) : s[i].role \in Roles
  BY Typed
<1>2. first \in 1..(Len(s) + 1) /\ \A i \in 1..Len(s) : i < first => s[i].role = "system"
  BY FirstNonSystemIs
<1>3. Asks(s, L) => first > 1
  <2> SUFFICES ASSUME Asks(s, L) PROVE first > 1
    OBVIOUS
  <2>1. PICK u \in 1..Len(s) : s[u].role = "user"
    BY DEF Asks, LastBears, Indices
  <2>2. s[1].role = "system"
    BY DEF Asks
  <2> QED
    BY <1>1, <2>1, <2>2, FirstNonSystemFound
<1> HIDE DEF first
<1>4. /\ user \in first..(Len(s) + 1) /\ \A j \in first..Len(s) : j < user => j \notin J
      /\ user <= Len(s) => user \in J
  <2> HIDE DEF J
  <2> QED
    BY <1>1, <1>2, FirstIs
<1>5. t = Keep(s, I)
  <2>1. first \in Nat \ {0}
    BY <1>1, <1>2
  <2>2. FirstFrom(s, first, LAMBDA m : m.role = "user") = user
    BY <2>1, Searches, Zenon
  <2> QED
    BY <2>2, Zenon DEF DropLeading, first, Indices
<1>6. user <= Len(s) => s[user].role = "user"
  BY <1>4 DEF Having
<1>7. \A j \in 1..Len(s) : j \notin I => j \in first..Len(s) /\ j < user /\ s[j].role # "user"
  <2> SUFFICES ASSUME NEW j \in 1..Len(s), j \notin I
               PROVE  j \in first..Len(s) /\ j < user /\ s[j].role # "user"
    OBVIOUS
  <2>1. j \in first..Len(s) /\ j < user
    BY <1>1, <1>2, <1>4
  <2>2. j \notin J
    BY <1>4, <2>1
  <2> QED
    BY <1>1, <2>1, <2>2 DEF Having
<1>8. \A j \in 1..Len(s) : j \in I => j < first \/ j >= user
  OBVIOUS
<1>9. \A j \in 1..Len(s) : j >= user => j \in I
  OBVIOUS
<1>10. Asks(s, L) => 1 \in I
  BY <1>1, <1>3 DEF Asks
<1> HIDE DEF I, t, user
<1>11. PICK g : TakenAt(g, t, s, I)
  BY <1>5, KeepTakes
<1>12. t \in Seq(M)
  BY <1>5, KeepTakes
<1>13. LastUserToo(s, I)
  BY <1>7 DEF LastUserToo
<1>14. Carries(t, s, L)
  BY <1>10, <1>11, <1>12, <1>13, TakenCarries
<1>15. ResultsToo(s, I)
  <2> SUFFICES ASSUME NEW i \in 1..Len(s), i \in I, HasCalls(s[i]), NEW j \in (i + 1)..Len(s)
               PROVE  j \in I
    BY DEF ResultsToo
  <2>1. s[i].role # "system"
    BY DEF HasCalls
  <2>2. i >= user
    BY <1>1, <1>2, <1>4, <1>8, <2>1
  <2>3. j \in 1..Len(s) /\ j >= user
    BY <1>1, <1>2, <1>4, <2>2
  <2> QED
    BY <1>9, <2>3
<1>16. CallsToo(s, I)
  <2> SUFFICES ASSUME NEW j \in 1..Len(s), j \in I, s[j].role = "tool",
                      NEW i \in 1..(j - 1), Answers(s, i, j)
               PROVE  i \in I
    BY DEF CallsToo
  <2>1. i \in 1..Len(s) /\ i < j
    BY <1>1
  <2>2. j >= user
    BY <1>2, <1>8
  <2>3. CASE i < user
    <3>1. user \in 1..Len(s) /\ user # j
      BY <1>1, <1>2, <1>4, <1>6, <2>2
    <3>2. user \in (i + 1)..(j - 1)
      BY <1>1, <2>1, <2>2, <2>3, <3>1
    <3>3. s[user].role \in {"tool", "system"}
      BY <3>2 DEF Answers
    <3> QED
      BY <1>6, <3>1, <3>3
  <2>4. CASE i >= user
    BY <1>9, <2>1, <2>4
  <2> QED
    BY <1>1, <1>2, <1>4, <2>1, <2>3, <2>4
<1>17. ASSUME WellPaired(s) PROVE WellPaired(t)
  <2>1. Answered(s) /\ OneAnswer(s)
    BY <1>17, PairedIs
  <2>2. Answered(t) /\ OneAnswer(t)
    BY <1>11, <1>12, <1>15, <2>1, TakenHalf
  <2>3. Called(t)
    BY <1>11, <1>12, <1>16, <1>17, TakenCalled
  <2> QED
    BY <1>12, <2>2, <2>3, PairedIs
<1> QED
  BY <1>12, <1>14, <1>17 DEF t

MergeStep(q, x, role) ==
    IF q # <<>> /\ Mergeable(Last(q), role) /\ Mergeable(x, role)
    THEN Append(Front(q), Joined(Last(q), x))
    ELSE Append(q, x)

LEMMA JoinedIs ==
    ASSUME NEW M, Listable(M), NEW m \in M, NEW n \in M
    PROVE  /\ Joined(m, n) \in M
           /\ Joined(m, n).role = m.role /\ Joined(m, n).calls = m.calls
           /\ Joined(m, n).id = m.id
           /\ "attachment" \in m.labels => Joined(m, n) = m
           /\ "attachment" \notin m.labels =>
                Joined(m, n).labels = m.labels \cup (n.labels \ {"attachment"})
<1>1. PICK Ids, Labels : M = MessageSet(Ids, Labels)
  BY DEF Listable
<1> DEFINE size   == m.size + n.size
           labels == m.labels \cup (n.labels \ {"attachment"})
           y      == [m EXCEPT !.size = size, !.labels = labels]
<1>2. size \in Nat /\ labels \in SUBSET Labels
  BY <1>1 DEF MessageSet
<1>3. Joined(m, n) = IF "attachment" \in m.labels THEN m ELSE y
  BY DEF Joined
<1> HIDE DEF size, labels
<1>4. y \in M
  BY <1>1, <1>2 DEF MessageSet
<1>5. y.role = m.role /\ y.calls = m.calls /\ y.id = m.id /\ y.labels = labels
  BY <1>1 DEF MessageSet
<1> HIDE DEF y
<1> QED
  BY <1>3, <1>4, <1>5 DEF labels

\* The first case of a step, and the second.
MergesLast(q, x, role, r) ==
    /\ Mergeable(q[Len(q)], role) /\ Mergeable(x, role)
    /\ Len(q) > 0 /\ Len(r) = Len(q)
    /\ \A i \in 1..Len(r) : i < Len(r) => r[i] = q[i]
    /\ r[Len(r)] = Joined(q[Len(q)], x)
Appends(q, x, r) ==
    /\ Len(r) = Len(q) + 1
    /\ \A i \in 1..Len(q) : r[i] = q[i]
    /\ r[Len(r)] = x

LEMMA MergeStepIs ==
    ASSUME NEW M, Listable(M), NEW q \in Seq(M), NEW x \in M, NEW role
    PROVE  /\ MergeStep(q, x, role) \in Seq(M)
           /\ \/ MergesLast(q, x, role, MergeStep(q, x, role))
              \/ Appends(q, x, MergeStep(q, x, role))
<1> DEFINE r == MergeStep(q, x, role)
<1>1. Len(q) \in Nat /\ \A i \in 1..Len(q) : q[i] \in M
  BY SeqElements
<1>2. CASE q # <<>> /\ Mergeable(Last(q), role) /\ Mergeable(x, role)
  <2>1. Len(q) > 0 /\ Last(q) = q[Len(q)] /\ q[Len(q)] \in M
    BY <1>1, <1>2 DEF Last
  <2>2. r = Append(SubSeq(q, 1, Len(q) - 1), Joined(q[Len(q)], x))
    BY <1>2, <2>1, Zenon DEF MergeStep, Front
  <2>3. Joined(q[Len(q)], x) \in M
    BY <2>1, JoinedIs
  <2> HIDE DEF r
  <2>4. /\ r \in Seq(M) /\ Len(r) = Len(q)
        /\ \A i \in 1..Len(r) : i < Len(r) => r[i] = q[i]
        /\ r[Len(r)] = Joined(q[Len(q)], x)
    <3> DEFINE front == SubSeq(q, 1, Len(q) - 1)
               y     == Joined(q[Len(q)], x)
    <3>1. /\ front \in Seq(M) /\ Len(front) = Len(q) - 1
          /\ \A i \in 1..(Len(q) - 1) : front[i] = q[i]
      <4> DEFINE b == Len(q) - 1
      <4>1. b \in 0..Len(q) /\ \A i \in 1..b : i \in 1..Len(q) /\ i + 1 - 1 = i
        BY <1>1, <2>1
      <4>2. front = SubSeq(q, 1, b)
        OBVIOUS
      <4> HIDE DEF b, front
      <4>3. front \in Seq(M) /\ Len(front) = b
        BY <1>1, <4>1, <4>2
      <4>4. \A i \in 1..b : front[i] = q[i]
        BY <1>1, <4>1, <4>2
      <4> QED
        BY <4>3, <4>4 DEF b
    <3>2. r = Append(front, y) /\ y \in M
      BY <2>2, <2>3
    <3> HIDE DEF front, y
    <3>3. /\ r \in Seq(M) /\ Len(r) = Len(front) + 1
          /\ \A i \in 1..Len(front) : r[i] = front[i]
          /\ r[Len(front) + 1] = y
      BY <3>1, <3>2
    <3>4. Len(r) = Len(q) /\ r[Len(r)] = y
      BY <1>1, <2>1, <3>1, <3>3
    <3> QED
      BY <1>1, <2>1, <3>1, <3>3, <3>4 DEF y
  <2>5. MergesLast(q, x, role, r)
    BY <1>2, <2>1, <2>4 DEF MergesLast
  <2> QED
    BY <2>4, <2>5 DEF r
<1>3. CASE ~ (q # <<>> /\ Mergeable(Last(q), role) /\ Mergeable(x, role))
  <2>1. r = Append(q, x)
    BY <1>3, Zenon DEF MergeStep
  <2> HIDE DEF r
  <2>2. r \in Seq(M) /\ Appends(q, x, r)
    BY <1>1, <2>1 DEF Appends
  <2> QED
    BY <2>2 DEF r
<1> QED
  BY <1>2, <1>3

MergedUpTo(f, s, role) ==
    f = [n \in 0..Len(s) |->
            IF n = 0 THEN <<>>
            ELSE LET done == f[n - 1]
                 IN  IF /\ done # <<>>
                        /\ Mergeable(Last(done), role)
                        /\ Mergeable(s[n], role)
                     THEN Append(Front(done), Joined(Last(done), s[n]))
                     ELSE Append(done, s[n])]

LEMMA MergedExists ==
    ASSUME NEW M, Listable(M), NEW s \in Seq(M), NEW role
    PROVE  \E f : MergedUpTo(f, s, role)
<1> DEFINE V == Seq(M)
           v0 == <<>>
           m == Len(s)
           G == [n \in 1..m |-> [q \in V |-> MergeStep(q, s[n], role)]]
<1>1. m \in Nat /\ v0 \in V /\ \A n \in 1..m : s[n] \in M
  BY Typed
<1>2. \A n \in 1..m, q \in V : MergeStep(q, s[n], role) \in V
  BY <1>1, MergeStepIs
<1>3. G \in StepsOn(m, V)
  <2> HIDE DEF V
  <2> QED
    BY <1>2 DEF StepsOn
<1>4. PICK f \in [0..m -> V] : f[0] = v0 /\ \A n \in 1..m : f[n] = G[n][f[n - 1]]
  <2> HIDE DEF G, V, v0, m
  <2>1. \E f \in Values(m, V) : Built(f, v0, m, G)
    BY <1>1, <1>3, Steps
  <2> QED
    BY <2>1 DEF Values, Built
<1>5. ASSUME NEW n \in 1..m PROVE f[n] = MergeStep(f[n - 1], s[n], role)
  <2>1. n - 1 \in 0..m
    BY <1>1
  <2>2. f[n - 1] \in V
    <3> HIDE DEF V, m
    <3> QED
      BY <2>1
  <2> HIDE DEF V
  <2> QED
    BY <1>4, <2>2
<1> DEFINE h == [n \in 0..Len(s) |->
                   IF n = 0 THEN <<>>
                   ELSE LET done == f[n - 1]
                        IN  IF /\ done # <<>>
                               /\ Mergeable(Last(done), role)
                               /\ Mergeable(s[n], role)
                            THEN Append(Front(done), Joined(Last(done), s[n]))
                            ELSE Append(done, s[n])]
<1>6. ASSUME NEW n \in 0..Len(s) PROVE f[n] = h[n]
  <2>1. CASE n = 0
    BY <1>4, <2>1
  <2>2. CASE n # 0
    <3>1. n \in 1..m
      BY <1>1, <2>2
    <3>2. f[n] = MergeStep(f[n - 1], s[n], role)
      BY <1>5, <3>1
    <3> QED
      BY <2>2, <3>2, Zenon DEF MergeStep
  <2> QED
    BY <2>1, <2>2
<1>7. f = h
  <2>1. f = [n \in 0..m |-> f[n]]
    <3> HIDE DEF V, m
    <3> QED
      OBVIOUS
  <2>2. [n \in 0..m |-> f[n]] = h
    <3> HIDE DEF V
    <3> QED
      BY <1>6, Zenon
  <2> QED
    BY <2>1, <2>2
<1> QED
  <2> HIDE DEF V, m
  <2> QED
    BY <1>7, Zenon DEF MergedUpTo

\* The elements of q are the first of the groups that s[1..n] was merged into.
Parts(g, q, s, role, n) ==
    /\ g \in [1..Len(q) -> 1..n]
    /\ Increasing(g, Len(q))
    /\ \A i \in 1..Len(q) :
         q[i].role = s[g[i]].role /\ q[i].calls = s[g[i]].calls /\ q[i].id = s[g[i]].id
    /\ \A j \in 1..n : ~ Mergeable(s[j], role) => \E i \in 1..Len(q) : g[i] = j
AskedUpTo(s, n, L) ==
    \E u \in 1..n :
        /\ s[u].role = "user" /\ s[u].labels \cap L # {}
        /\ \A j \in (u + 1)..n : s[j].role # "user"

LEMMA MergeStepParts ==
    ASSUME NEW M, Listable(M), NEW s \in Seq(M), NEW role, NEW n \in 1..Len(s),
           NEW q \in Seq(M), NEW g, Parts(g, q, s, role, n - 1)
    PROVE  \E h : Parts(h, MergeStep(q, s[n], role), s, role, n)
<1> DEFINE r == MergeStep(q, s[n], role)
<1>1. Len(s) \in Nat /\ s[n] \in M /\ Len(q) \in Nat /\ \A i \in 1..Len(q) : q[i] \in M
  BY Typed
<1>2. MergesLast(q, s[n], role, r) \/ Appends(q, s[n], r)
  BY <1>1, MergeStepIs
<1> HIDE DEF r
<1>3. CASE MergesLast(q, s[n], role, r)
  <2>1. Len(r) = Len(q) /\ Len(q) \in 1..Len(q)
    BY <1>1, <1>3 DEF MergesLast
  <2>2. \A i \in 1..Len(q) :
           r[i].role = q[i].role /\ r[i].calls = q[i].calls /\ r[i].id = q[i].id
    <3> SUFFICES ASSUME NEW i \in 1..Len(q)
                 PROVE  r[i].role = q[i].role /\ r[i].calls = q[i].calls /\ r[i].id = q[i].id
      OBVIOUS
    <3>1. CASE i < Len(q)
      BY <1>3, <2>1, <3>1 DEF MergesLast
    <3>2. CASE i = Len(q)
      <4>1. r[i] = Joined(q[i], s[n])
        BY <1>3, <2>1, <3>2 DEF MergesLast
      <4> QED
        BY <1>1, <4>1, JoinedIs
    <3> QED
      BY <1>1, <3>1, <3>2
  <2>3. g \in [1..Len(r) -> 1..n]
    BY <1>1, <2>1 DEF Parts
  <2>4. \A j \in 1..n : ~ Mergeable(s[j], role) => j \in 1..(n - 1)
    BY <1>1, <1>3 DEF MergesLast
  <2>5. Parts(g, r, s, role, n)
    BY <2>1, <2>2, <2>3, <2>4 DEF Parts
  <2> QED
    BY <2>5 DEF r
<1>4. CASE Appends(q, s[n], r)
  <2> DEFINE h == [i \in 1..(Len(q) + 1) |-> IF i <= Len(q) THEN g[i] ELSE n]
  <2>1. Len(r) = Len(q) + 1 /\ r[Len(q) + 1] = s[n] /\ \A i \in 1..Len(q) : r[i] = q[i]
    BY <1>4 DEF Appends
  <2>2. \A i \in 1..Len(q) : g[i] \in 1..(n - 1) /\ h[i] = g[i]
    BY <1>1 DEF Parts
  <2>3. h[Len(q) + 1] = n
    BY <1>1
  <2>0. n \in 1..n /\ \A k \in 1..(n - 1) : k \in 1..n /\ k < n
    BY <1>1
  <2>4. h \in [1..Len(r) -> 1..n]
    <3>1. \A i \in 1..(Len(q) + 1) : i <= Len(q) => i \in 1..Len(q)
      BY <1>1
    <3>2. \A i \in 1..(Len(q) + 1) : (IF i <= Len(q) THEN g[i] ELSE n) \in 1..n
      BY <2>0, <2>2, <3>1
    <3> QED
      BY <2>1, <3>2
  <2> HIDE DEF h
  <2>5. \A i \in 1..Len(r) : i \in 1..Len(q) \/ i = Len(q) + 1
    BY <1>1, <2>1
  <2>6. Increasing(h, Len(r))
    <3> SUFFICES ASSUME NEW i \in 1..Len(r), NEW j \in 1..Len(r), i < j PROVE h[i] < h[j]
      BY DEF Increasing
    <3>1. i \in 1..Len(q)
      BY <1>1, <2>1
    <3>2. CASE j \in 1..Len(q)
      BY <2>2, <3>1, <3>2 DEF Parts, Increasing
    <3>3. CASE j = Len(q) + 1
      BY <2>0, <2>2, <2>3, <3>1, <3>3
    <3> QED
      BY <2>5, <3>2, <3>3
  <2>7. \A i \in 1..Len(r) :
           r[i].role = s[h[i]].role /\ r[i].calls = s[h[i]].calls /\ r[i].id = s[h[i]].id
    <3> SUFFICES ASSUME NEW i \in 1..Len(r)
                 PROVE  /\ r[i].role = s[h[i]].role /\ r[i].calls = s[h[i]].calls
                        /\ r[i].id = s[h[i]].id
      OBVIOUS
    <3>1. CASE i \in 1..Len(q)
      BY <2>1, <2>2, <3>1 DEF Parts
    <3>2. CASE i = Len(q) + 1
      BY <2>1, <2>3, <3>2
    <3> QED
      BY <2>5, <3>1, <3>2
  <2>8. \A j \in 1..n : ~ Mergeable(s[j], role) => \E i \in 1..Len(r) : h[i] = j
    <3> SUFFICES ASSUME NEW j \in 1..n, ~ Mergeable(s[j], role)
                 PROVE  \E i \in 1..Len(r) : h[i] = j
      OBVIOUS
    <3>1. CASE j = n
      BY <1>1, <2>1, <2>3, <3>1
    <3>2. CASE j # n
      <4>1. j \in 1..(n - 1)
        BY <1>1, <3>2
      <4>2. PICK i \in 1..Len(q) : g[i] = j
        BY <4>1 DEF Parts
      <4>3. h[i] = j
        BY <2>2, <4>2
      <4>4. i \in 1..Len(r)
        BY <1>1, <2>1
      <4> QED
        BY <4>3, <4>4
    <3> QED
      BY <3>1, <3>2
  <2>9. Parts(h, r, s, role, n)
    BY <2>4, <2>6, <2>7, <2>8 DEF Parts
  <2> QED
    BY <2>9 DEF r
<1> QED
  BY <1>2, <1>3, <1>4

LEMMA MergeStepAttachments ==
    ASSUME NEW L, NEW M, Listable(M), NEW s \in Seq(M), NEW role, NEW n \in 1..Len(s),
           NEW q \in Seq(M), OwnAttached(s, L), OwnAttached(q, L)
    PROVE  OwnAttached(MergeStep(q, s[n], role), L)
<1> DEFINE r == MergeStep(q, s[n], role)
<1>1. Len(s) \in Nat /\ s[n] \in M /\ Len(q) \in Nat /\ \A i \in 1..Len(q) : q[i] \in M
  BY Typed
<1>2. MergesLast(q, s[n], role, r) \/ Appends(q, s[n], r)
  BY <1>1, MergeStepIs
<1> HIDE DEF r
<1> SUFFICES ASSUME NEW i \in 1..Len(r), r[i].role = "user", "attachment" \in r[i].labels
             PROVE  r[i].labels \cap L # {}
  BY DEF OwnAttached, Indices, r
<1>3. CASE MergesLast(q, s[n], role, r)
  <2>1. Len(r) = Len(q) /\ i \in 1..Len(q)
    BY <1>1, <1>3 DEF MergesLast
  <2>2. CASE i < Len(q)
    <3>1. r[i] = q[i]
      BY <1>3, <2>1, <2>2 DEF MergesLast
    <3> QED
      BY <2>1, <3>1 DEF OwnAttached, Indices
  <2>3. CASE i = Len(q)
    <3>1. r[i] = Joined(q[i], s[n]) /\ q[i] \in M
      BY <1>1, <1>3, <2>1, <2>3 DEF MergesLast
    <3>2. "attachment" \in q[i].labels /\ r[i] = q[i]
      BY <1>1, <3>1, JoinedIs
    <3> QED
      BY <2>1, <3>2 DEF OwnAttached, Indices
  <2> QED
    BY <1>1, <2>1, <2>2, <2>3
<1>4. CASE Appends(q, s[n], r)
  <2>1. CASE i \in 1..Len(q)
    BY <1>4, <2>1 DEF Appends, OwnAttached, Indices
  <2>2. CASE i = Len(q) + 1
    BY <1>4, <2>2 DEF Appends, OwnAttached, Indices
  <2> QED
    BY <1>1, <1>4, <2>1, <2>2 DEF Appends
<1> QED
  BY <1>2, <1>3, <1>4

LEMMA MergeStepAsks ==
    ASSUME NEW L, "attachment" \notin L,
           NEW M, Listable(M), NEW s \in Seq(M), NEW role, NEW n \in 1..Len(s),
           NEW q \in Seq(M), OwnAttached(q, L),
           AskedUpTo(s, n - 1, L) => LastBears(q, L), AskedUpTo(s, n, L)
    PROVE  LastBears(MergeStep(q, s[n], role), L)
<1> DEFINE r == MergeStep(q, s[n], role)
<1>1. Len(s) \in Nat /\ s[n] \in M /\ Len(q) \in Nat /\ \A i \in 1..Len(q) : q[i] \in M
  BY Typed
<1>2. MergesLast(q, s[n], role, r) \/ Appends(q, s[n], r)
  BY <1>1, MergeStepIs
<1> HIDE DEF r
<1>3. PICK u \in 1..n :
         /\ s[u].role = "user" /\ s[u].labels \cap L # {}
         /\ \A j \in (u + 1)..n : s[j].role # "user"
  BY DEF AskedUpTo
<1>4. Len(r) \in 1..Len(r) /\ (Len(r) + 1)..Len(r) = {}
  BY <1>1, <1>2 DEF MergesLast, Appends
<1>5. ASSUME s[n].role = "user" PROVE u = n /\ s[n].labels \cap L # {}
  <2>1. CASE u # n
    <3>1. n \in (u + 1)..n
      BY <1>1, <2>1
    <3> QED
      BY <1>3, <1>5, <3>1
  <2> QED
    BY <1>3, <2>1
<1>6. ASSUME s[n].role # "user" PROVE LastBears(q, L)
  <2>1. u # n
    BY <1>3, <1>6
  <2>2. u \in 1..(n - 1) /\ \A j \in (u + 1)..(n - 1) : j \in (u + 1)..n
    BY <1>1, <2>1
  <2>3. AskedUpTo(s, n - 1, L)
    BY <1>3, <2>2 DEF AskedUpTo
  <2> QED
    BY <2>3
<1>7. CASE MergesLast(q, s[n], role, r) /\ s[n].role = "user"
  <2>1. /\ Len(r) = Len(q) /\ Len(q) \in 1..Len(q) /\ q[Len(q)] \in M
        /\ q[Len(q)].role = "user" /\ r[Len(r)] = Joined(q[Len(q)], s[n])
    BY <1>1, <1>7 DEF MergesLast, Mergeable
  <2>2. r[Len(r)].role = "user"
    BY <1>1, <2>1, JoinedIs
  <2>3. r[Len(r)].labels \cap L # {}
    <3>1. CASE "attachment" \in q[Len(q)].labels
      <4>1. r[Len(r)] = q[Len(q)]
        BY <1>1, <2>1, <3>1, JoinedIs
      <4>2. q[Len(q)].labels \cap L # {}
        BY <2>1, <3>1 DEF OwnAttached, Indices
      <4> QED
        BY <4>1, <4>2
    <3>2. CASE "attachment" \notin q[Len(q)].labels
      <4>1. r[Len(r)].labels = q[Len(q)].labels \cup (s[n].labels \ {"attachment"})
        BY <1>1, <2>1, <3>2, JoinedIs
      <4>2. PICK x \in L : x \in s[n].labels
        BY <1>5, <1>7
      <4>3. x # "attachment"
        OBVIOUS
      <4> QED
        BY <4>1, <4>2, <4>3
    <3> QED
      BY <3>1, <3>2
  <2>4. LastBears(r, L)
    BY <1>4, <2>2, <2>3 DEF LastBears, Indices
  <2> QED
    BY <2>4 DEF r
<1>8. CASE Appends(q, s[n], r) /\ s[n].role = "user"
  <2>1. r[Len(r)] = s[n]
    BY <1>8 DEF Appends
  <2>2. LastBears(r, L)
    BY <1>4, <1>5, <1>8, <2>1 DEF LastBears, Indices
  <2> QED
    BY <2>2 DEF r
<1>9. CASE s[n].role # "user"
  <2>1. PICK v \in 1..Len(q) :
           /\ q[v].role = "user" /\ q[v].labels \cap L # {}
           /\ \A j \in (v + 1)..Len(q) : q[j].role # "user"
    BY <1>6, <1>9 DEF LastBears, Indices
  <2>2. v \in 1..Len(r) /\ r[v] = q[v]
    <3>1. CASE MergesLast(q, s[n], role, r)
      <4>1. q[Len(q)].role # "user" /\ Len(r) = Len(q)
        BY <1>9, <3>1 DEF MergesLast, Mergeable
      <4>2. v < Len(r) /\ v \in 1..Len(r)
        BY <1>1, <2>1, <4>1
      <4> QED
        BY <3>1, <4>2 DEF MergesLast
    <3>2. CASE Appends(q, s[n], r)
      BY <1>1, <3>2 DEF Appends
    <3> QED
      BY <1>2, <3>1, <3>2
  <2>3. ASSUME NEW j \in (v + 1)..Len(r) PROVE r[j].role # "user"
    <3>1. CASE MergesLast(q, s[n], role, r)
      <4>1. Len(r) = Len(q) /\ j \in 1..Len(q) /\ j \in (v + 1)..Len(q)
        BY <1>1, <3>1 DEF MergesLast
      <4>2. CASE j < Len(q)
        BY <2>1, <3>1, <4>1, <4>2 DEF MergesLast
      <4>3. CASE j = Len(q)
        <5>1. r[j] = Joined(q[j], s[n]) /\ q[j] \in M
          BY <1>1, <3>1, <4>1, <4>3 DEF MergesLast
        <5>2. r[j].role = q[j].role
          BY <1>1, <5>1, JoinedIs
        <5> QED
          BY <2>1, <4>1, <5>2
      <4> QED
        BY <1>1, <4>1, <4>2, <4>3
    <3>2. CASE Appends(q, s[n], r)
      <4>1. CASE j = Len(r)
        BY <1>9, <3>2, <4>1 DEF Appends
      <4>2. CASE j # Len(r)
        <5>1. Len(r) = Len(q) + 1 /\ Len(q) \in Nat
          BY <1>1, <3>2 DEF Appends
        <5>2. j \in (v + 1)..Len(q) /\ j \in 1..Len(q)
          BY <1>1, <4>2, <5>1
        <5> QED
          BY <2>1, <3>2, <5>2 DEF Appends
      <4> QED
        BY <4>1, <4>2
    <3> QED
      BY <1>2, <3>1, <3>2
  <2>4. LastBears(r, L)
    BY <2>1, <2>2, <2>3 DEF LastBears, Indices
  <2> QED
    BY <2>4 DEF r
<1> QED
  BY <1>2, <1>7, <1>8, <1>9

LEMMA MergeStepFirst ==
    ASSUME NEW M, Listable(M), NEW s \in Seq(M), NEW role \in Speakers, NEW n \in 1..Len(s),
           NEW q \in Seq(M), s[1].role = "system",
           IF n = 1 THEN q = <<>> ELSE q # <<>> /\ q[1] = s[1]
    PROVE  MergeStep(q, s[n], role) # <<>> /\ MergeStep(q, s[n], role)[1] = s[1]
<1> DEFINE r == MergeStep(q, s[n], role)
<1>1. Len(s) \in Nat /\ s[n] \in M /\ Len(q) \in Nat
  BY Typed
<1>2. (MergesLast(q, s[n], role, r) \/ Appends(q, s[n], r)) /\ r \in Seq(M)
  BY <1>1, MergeStepIs
<1> HIDE DEF r
<1>3. CASE MergesLast(q, s[n], role, r)
  <2>1. n # 1 /\ q[1] = s[1]
    BY <1>3 DEF MergesLast
  <2>2. q[Len(q)].role # "system"
    BY <1>3 DEF MergesLast, Mergeable, Speakers
  <2>3. 1 < Len(r) /\ 1 \in 1..Len(r)
    BY <1>1, <1>3, <2>1, <2>2 DEF MergesLast
  <2>4. r[1] = q[1] /\ r # <<>>
    BY <1>2, <1>3, <2>3 DEF MergesLast
  <2> QED
    BY <2>1, <2>4 DEF r
<1>4. CASE Appends(q, s[n], r)
  <2>1. r # <<>>
    BY <1>1, <1>2, <1>4 DEF Appends
  <2>2. CASE n = 1
    <3>1. Len(r) = 1 /\ r[Len(r)] = s[1]
      BY <1>4, <2>2 DEF Appends
    <3> QED
      BY <2>1, <3>1 DEF r
  <2>3. CASE n # 1
    <3>1. 1 \in 1..Len(q) /\ q[1] = s[1]
      BY <1>1, <2>3
    <3> QED
      BY <1>4, <2>1, <3>1 DEF Appends, r
  <2> QED
    BY <2>2, <2>3
<1> QED
  BY <1>2, <1>3, <1>4

\* Neighbours may be merged if neither carries calls or is a result.
LEMMA MergeKeeps ==
    ASSUME NEW L, "attachment" \notin L, NEW M, Listable(M), NEW s \in Seq(M), NEW role \in Speakers
    PROVE  /\ MergeNeighbours(s, role) \in Seq(M)
           /\ WellPaired(s) => WellPaired(MergeNeighbours(s, role))
           /\ Carries(MergeNeighbours(s, role), s, L)
<1> DEFINE f == CHOOSE f : MergedUpTo(f, s, role)
           t == MergeNeighbours(s, role)
           Done(n) == /\ f[n] \in Seq(M)
                      /\ \E g : Parts(g, f[n], s, role, n)
                      /\ Asks(s, L) => /\ OwnAttached(f[n], L)
                                       /\ AskedUpTo(s, n, L) => LastBears(f[n], L)
                                       /\ IF n = 0 THEN f[n] = <<>>
                                          ELSE f[n] # <<>> /\ f[n][1] = s[1]
           P == {n \in 0..Len(s) : Done(n)}
<1>1. Len(s) \in Nat /\ \A i \in 1..Len(s) : s[i] \in M
  BY Typed
<1>2. MergedUpTo(f, s, role)
  BY MergedExists
<1>3. t = f[Len(s)]
  BY Zenon DEF MergeNeighbours, MergedUpTo
<1> HIDE DEF f, t
<1>4. f[0] = <<>> /\ \A n \in 1..Len(s) : f[n] = MergeStep(f[n - 1], s[n], role)
  <2>1. 0 \in 0..Len(s) /\ \A n \in 1..Len(s) : n \in 0..Len(s) /\ n # 0
    BY <1>1
  <2> QED
    BY <1>2, <2>1, Zenon DEF MergedUpTo, MergeStep
<1>5. Done(0)
  <2> DEFINE g == [i \in 1..0 |-> 1]
  <2>1. <<>> \in Seq(M) /\ Len(<<>>) = 0
    OBVIOUS
  <2>2. g \in [1..0 -> 1..0]
    OBVIOUS
  <2> HIDE DEF g
  <2>3. Parts(g, <<>>, s, role, 0)
    BY <2>1, <2>2 DEF Parts, Increasing
  <2>4. OwnAttached(<<>>, L) /\ ~ AskedUpTo(s, 0, L)
    BY <2>1 DEF OwnAttached, AskedUpTo, Indices
  <2> QED
    BY <1>4, <2>1, <2>3, <2>4
<1>6. ASSUME NEW n \in 1..Len(s), Done(n - 1) PROVE Done(n)
  <2> DEFINE q == f[n - 1]
  <2>1. f[n] = MergeStep(q, s[n], role)
    BY <1>4
  <2>2. q \in Seq(M) /\ s[n] \in M /\ n # 0 /\ n \in Nat
    BY <1>1, <1>6
  <2>3. PICK g : Parts(g, q, s, role, n - 1)
    BY <1>6
  <2>4. Asks(s, L) => /\ OwnAttached(q, L)
                      /\ AskedUpTo(s, n - 1, L) => LastBears(q, L)
                      /\ IF n = 1 THEN q = <<>> ELSE q # <<>> /\ q[1] = s[1]
    <3>1. n - 1 = 0 <=> n = 1
      BY <2>2
    <3> QED
      BY <1>6, <3>1
  <2> HIDE DEF q
  <2>5. f[n] \in Seq(M)
    BY <2>1, <2>2, MergeStepIs
  <2>6. \E h : Parts(h, f[n], s, role, n)
    BY <2>1, <2>2, <2>3, MergeStepParts
  <2>7. ASSUME Asks(s, L)
        PROVE  /\ OwnAttached(f[n], L)
               /\ AskedUpTo(s, n, L) => LastBears(f[n], L)
               /\ f[n] # <<>> /\ f[n][1] = s[1]
    <3>1. OwnAttached(s, L) /\ s[1].role = "system"
      BY <2>7 DEF Asks
    <3>2. OwnAttached(f[n], L)
      BY <2>1, <2>2, <2>4, <2>7, <3>1, MergeStepAttachments
    <3>3. AskedUpTo(s, n, L) => LastBears(f[n], L)
      BY <2>1, <2>2, <2>4, <2>7, MergeStepAsks
    <3>4. f[n] # <<>> /\ f[n][1] = s[1]
      BY <2>1, <2>2, <2>4, <2>7, <3>1, MergeStepFirst
    <3> QED
      BY <3>2, <3>3, <3>4
  <2> QED
    BY <2>2, <2>5, <2>6, <2>7
<1>7. Done(Len(s))
  <2> HIDE DEF Done
  <2>1. 0 \in P /\ P \in SUBSET (0..Len(s))
    BY <1>1, <1>5
  <2>2. \A k \in 1..Len(s) : k - 1 \in P => k \in P
    BY <1>1, <1>6
  <2> HIDE DEF P
  <2>3. P = 0..Len(s)
    BY <1>1, <2>1, <2>2, Upward
  <2> QED
    BY <1>1, <2>3 DEF P
<1>8. t \in Seq(M)
  BY <1>3, <1>7
<1>9. PICK g : Parts(g, t, s, role, Len(s))
  BY <1>3, <1>7
<1>10. Thins(g, t, s)
  BY <1>9 DEF Parts, Thins
<1>11. \A j \in 1..Len(s) : HasCalls(s[j]) \/ s[j].role = "tool" => \E i \in 1..Len(t) : g[i] = j
  <2>1. \A j \in 1..Len(s) : HasCalls(s[j]) \/ s[j].role = "tool" => ~ Mergeable(s[j], role)
    BY DEF Mergeable, Speakers
  <2> QED
    BY <1>9, <2>1 DEF Parts
<1>12. ASSUME WellPaired(s) PROVE WellPaired(t)
  <2>1. KeepsAnswers(g, t, s)
    <3> SUFFICES ASSUME NEW i \in 1..Len(t), NEW j \in (g[i] + 1)..Len(s), Answers(s, g[i], j)
                 PROVE  \E k \in 1..Len(t) : g[k] = j
      BY DEF KeepsAnswers
    <3>1. g[i] \in 1..Len(s)
      BY <1>10 DEF Thins
    <3>2. j \in 1..Len(s) /\ s[j].role = "tool"
      BY <1>1, <3>1 DEF Answers
    <3> QED
      BY <1>11, <3>2
  <2>2. KeepsCalls(g, t, s)
    <3> SUFFICES ASSUME NEW k \in 1..Len(t), NEW i \in 1..(g[k] - 1), Answers(s, i, g[k])
                 PROVE  \E h \in 1..Len(t) : g[h] = i
      BY DEF KeepsCalls
    <3>1. g[k] \in 1..Len(s)
      BY <1>10 DEF Thins
    <3>2. i \in 1..Len(s) /\ HasCalls(s[i])
      BY <1>1, <3>1 DEF Answers
    <3> QED
      BY <1>11, <3>2
  <2>3. Answered(s) /\ OneAnswer(s)
    BY <1>12, PairedIs
  <2>4. Answered(t) /\ OneAnswer(t)
    BY <1>8, <1>10, <2>1, <2>3, ThinnedAnswered, ThinnedOneAnswer
  <2>5. Called(t)
    BY <1>8, <1>10, <1>12, <2>2, ThinnedCalled
  <2> QED
    BY <1>8, <2>4, <2>5, PairedIs
<1>13. Carries(t, s, L)
  <2>1. SameResults(t, s)
    BY <1>10, ThinnedResults
  <2>2. ASSUME Asks(s, L) PROVE Asks(t, L) /\ t[1] = s[1]
    <3>1. AskedUpTo(s, Len(s), L) /\ Len(s) # 0 /\ s[1].role = "system"
      BY <1>1, <2>2 DEF Asks, LastBears, AskedUpTo, Indices
    <3>2. OwnAttached(t, L) /\ LastBears(t, L) /\ t # <<>> /\ t[1] = s[1]
      BY <1>3, <1>7, <2>2, <3>1
    <3> QED
      BY <3>1, <3>2 DEF Asks
  <2> QED
    BY <2>1, <2>2 DEF Carries
<1> QED
  BY <1>8, <1>12, <1>13 DEF t

LEMMA NormalizeKeeps ==
    ASSUME NEW L, "attachment" \notin L, NEW M, Listable(M), NEW s \in Seq(M)
    PROVE  /\ NormalizeRoleAlternation(s) \in Seq(M)
           /\ WellPaired(s) => WellPaired(NormalizeRoleAlternation(s))
           /\ Carries(NormalizeRoleAlternation(s), s, L)
<1> DEFINE dropped == DropLeading(s)
           users   == MergeNeighbours(dropped, "user")
           both    == MergeNeighbours(users, "assistant")
<1>1. dropped \in Seq(M) /\ (WellPaired(s) => WellPaired(dropped)) /\ Carries(dropped, s, L)
  BY DropLeadingKeeps
<1> HIDE DEF dropped
<1>2. users \in Seq(M) /\ (WellPaired(dropped) => WellPaired(users)) /\ Carries(users, dropped, L)
  BY <1>1, MergeKeeps DEF Speakers
<1> HIDE DEF users
<1>3. both \in Seq(M) /\ (WellPaired(users) => WellPaired(both)) /\ Carries(both, users, L)
  BY <1>2, MergeKeeps DEF Speakers
<1> HIDE DEF both
<1>4. Carries(both, s, L)
  BY <1>1, <1>2, <1>3, CarriesTransitive
<1>5. NormalizeRoleAlternation(s) = both
  BY DEF NormalizeRoleAlternation, both, users, dropped
<1> QED
  BY <1>1, <1>2, <1>3, <1>4, <1>5

-----------------------------------------------------------------------------
(* truncate_mid_loop *)

LEMMA LastUserIs ==
    ASSUME NEW M, Listable(M), NEW s \in Seq(M)
    PROVE  /\ LastUser(s) \in 0..Len(s) /\ (Len(s) > 0 => LastUser(s) > 0)
           /\ \A u \in 1..Len(s) : s[u].role = "user" =>
                u <= LastUser(s) /\ s[LastUser(s)].role = "user"
<1> DEFINE users == {i \in Indices(s) : s[i].role = "user"}
<1>1. Len(s) \in Nat
  BY Typed
<1>2. \A i \in users : i \in 1..Len(s) /\ s[i].role = "user"
  BY DEF Indices
<1>3. \A i \in 1..Len(s) : s[i].role = "user" => i \in users
  BY DEF Indices
<1>4. LastUser(s) = IF users = {} THEN Len(s) ELSE Max(users)
  BY DEF LastUser
<1>5. CASE users = {}
  BY <1>1, <1>3, <1>4, <1>5
<1>6. CASE users # {}
  <2>1. users \in SUBSET Nat /\ \A y \in users : y <= Len(s)
    BY <1>1, <1>2
  <2> HIDE DEF users
  <2>2. Max(users) \in users /\ \A y \in users : y <= Max(users)
    BY <1>1, <1>6, <2>1, MaxOf
  <2> QED
    BY <1>1, <1>2, <1>3, <1>4, <1>6, <2>2
<1> QED
  BY <1>5, <1>6

LEMMA FittingIs ==
    ASSUME NEW M, Listable(M), NEW s \in Seq(M), NEW prompt, NEW window
    PROVE  /\ Fitting(prompt, s, window) \in 0..Len(s)
           /\ Len(s) > 0 => Fitting(prompt, s, window) <= LastUser(s) - 1
<1> DEFINE Fits(k) == \/ Tokens(prompt) + Tokens(SubSeq(s, k + 1, Len(s))) <= window
                      \/ k >= LastUser(s) - 1
           T == {k \in 0..Len(s) : Fits(k)}
<1>1. Len(s) \in Nat
  BY Typed
<1>2. LastUser(s) \in 0..Len(s) /\ (Len(s) > 0 => LastUser(s) > 0)
  BY LastUserIs
<1>3. Fits(Len(s)) /\ (Len(s) > 0 => Fits(LastUser(s) - 1))
  BY <1>1, <1>2
<1>4. Fitting(prompt, s, window) = Min(T)
  BY DEF Fitting
<1> HIDE DEF Fits
<1>5. Len(s) \in T /\ (Len(s) > 0 => LastUser(s) - 1 \in T)
  BY <1>1, <1>2, <1>3
<1>6. T \in SUBSET Nat /\ T # {} /\ \A k \in T : k \in 0..Len(s)
  BY <1>5
<1> HIDE DEF T
<1>7. Min(T) \in T /\ \A y \in T : Min(T) <= y
  BY <1>6, MinIs
<1> QED
  BY <1>4, <1>5, <1>6, <1>7

\* The last user message stays.
LEMMA CutIs ==
    ASSUME NEW M, Listable(M), NEW s \in Seq(M), NEW prompt, NEW window
    PROVE  /\ CutOf(prompt, s, window) \in 0..Len(s)
           /\ \A u \in 1..Len(s) : s[u].role = "user" => CutOf(prompt, s, window) <= LastUser(s) - 1
<1> DEFINE fit      == Fitting(prompt, s, window)
           J        == Having(s, Roles \ {"tool"})
           K        == Having(s, {"user"})
           noResult == First(Len(s), fit + 1, J)
           turn     == First(Len(s), noResult, K)
           last     == LastUser(s)
<1>1. Len(s) \in Nat /\ \A i \in 1..Len(s) : s[i].role \in Roles
  BY Typed
<1>2. fit \in 0..Len(s) /\ (Len(s) > 0 => fit <= last - 1)
  BY FittingIs
<1>3. last \in 0..Len(s) /\ \A u \in 1..Len(s) : s[u].role = "user" => s[last].role = "user"
  BY LastUserIs
<1> HIDE DEF last, fit
<1>4. /\ noResult \in (fit + 1)..(Len(s) + 1)
      /\ \A j \in (fit + 1)..Len(s) : j < noResult => j \notin J
  <2>1. fit + 1 \in 1..(Len(s) + 1)
    BY <1>1, <1>2
  <2> HIDE DEF J
  <2> QED
    BY <1>1, <2>1, FirstIs
<1>5. FirstFrom(s, fit + 1, LAMBDA m : m.role # "tool") = noResult
  <2>1. fit + 1 \in Nat \ {0}
    BY <1>2
  <2> QED
    BY <2>1, Searches, Zenon
<1>6. ASSUME NEW u \in 1..Len(s), s[u].role = "user" PROVE noResult <= last
  <2>1. last \in (fit + 1)..Len(s) /\ last \in J
    BY <1>1, <1>2, <1>3, <1>6 DEF Having, Roles
  <2> HIDE DEF noResult, J
  <2> QED
    BY <1>1, <1>4, <2>1
<1> HIDE DEF noResult, J
<1>7. turn \in noResult..(Len(s) + 1)
  <2>1. noResult \in 1..(Len(s) + 1)
    BY <1>1, <1>2, <1>4
  <2> HIDE DEF K
  <2> QED
    BY <1>1, <2>1, FirstIs
<1>8. FirstFrom(s, noResult, LAMBDA m : m.role = "user") = turn
  <2>1. noResult \in Nat \ {0}
    BY <1>1, <1>2, <1>4
  <2> QED
    BY <2>1, Searches, Zenon
<1> HIDE DEF turn
<1>9. CutOf(prompt, s, window)
        = IF noResult >= last THEN noResult - 1 ELSE Min({turn, last}) - 1
  BY <1>5, <1>8, Zenon DEF CutOf, fit, last
<1>10. {turn, last} \in SUBSET Nat
  BY <1>1, <1>2, <1>3, <1>4, <1>7
<1>11. Min({turn, last}) \in {turn, last} /\ Min({turn, last}) <= last
  <2> DEFINE T == {turn, last}
  <2>1. T \in SUBSET Nat /\ T # {} /\ last \in T
    BY <1>10
  <2> HIDE DEF T
  <2>2. Min(T) \in T /\ Min(T) <= last
    BY <2>1, MinIs
  <2> QED
    BY <2>2 DEF T
<1> DEFINE c     == CutOf(prompt, s, window)
           least == Min({turn, last})
<1>12. c = IF noResult >= last THEN noResult - 1 ELSE least - 1
  BY <1>9
<1>13. (least = turn \/ least = last) /\ least <= last
  BY <1>11
<1> HIDE DEF c, least
<1>14. c \in 0..Len(s)
  BY <1>1, <1>2, <1>3, <1>4, <1>7, <1>12, <1>13
<1>15. ASSUME NEW u \in 1..Len(s), s[u].role = "user" PROVE c <= last - 1
  BY <1>1, <1>2, <1>3, <1>4, <1>6, <1>7, <1>12, <1>13, <1>15
<1> QED
  BY <1>14, <1>15 DEF c, last

\* The prompt, and what is left behind the cut.
LEMMA FrontCut ==
    ASSUME NEW M, Listable(M), NEW s \in Seq(M), s # <<>>, NEW cut \in 0..(Len(s) - 1)
    PROVE  LET t == <<s[1]>> \o SubSeq(Tail(s), cut + 1, Len(Tail(s)))
               I == {i \in 1..Len(s) : i = 1 \/ i >= cut + 2}
           IN  t \in Seq(M) /\ \E g : TakenAt(g, t, s, I)
<1> DEFINE rest == Tail(s)
           back == SubSeq(rest, cut + 1, Len(rest))
           t == <<s[1]>> \o back
           I == {i \in 1..Len(s) : i = 1 \/ i >= cut + 2}
           n == Len(s) - cut
           g == [i \in 1..n |-> IF i = 1 THEN 1 ELSE i + cut]
<1>1. Len(s) \in Nat /\ \A i \in 1..Len(s) : s[i] \in M
  BY Typed
<1>2. 1 \in 1..Len(s) /\ n \in 1..Len(s)
  BY <1>1
<1>3. rest \in Seq(M) /\ Len(rest) = Len(s) - 1 /\ \A i \in 1..Len(rest) : rest[i] = s[i + 1]
  BY <1>1
<1> HIDE DEF rest
<1>4. /\ back \in Seq(M) /\ Len(back) = n - 1
      /\ \A i \in 1..(n - 1) : back[i] = s[i + cut + 1]
  <2> DEFINE a == cut + 1
             b == Len(rest)
  <2>1. a \in 1..(b + 1) /\ b \in Nat /\ b - a + 1 = n - 1
        /\ \A i \in 1..(n - 1) : a + i - 1 \in 1..b /\ a + i - 1 + 1 = i + cut + 1
    BY <1>1, <1>3
  <2>2. SubSeq(rest, a, b) \in Seq(M) /\ Len(SubSeq(rest, a, b)) = n - 1
    <3> HIDE DEF a, b, n
    <3>1. \A i \in a..b : rest[i] \in M
      BY <1>3, <2>1, SeqElements DEF b
    <3> QED
      BY <2>1, <3>1, SubSeqProperties
  <2>3. \A i \in 1..(n - 1) : SubSeq(rest, a, b)[i] = rest[a + i - 1]
    <3> HIDE DEF a, b, n
    <3>1. \A i \in a..b : rest[i] \in M
      BY <1>3, <2>1, SeqElements DEF b
    <3> QED
      BY <2>1, <3>1, SubSeqProperties
  <2>4. \A i \in 1..(n - 1) : rest[a + i - 1] = s[i + cut + 1]
    <3> SUFFICES ASSUME NEW i \in 1..(n - 1) PROVE rest[a + i - 1] = s[i + cut + 1]
      OBVIOUS
    <3>1. rest[a + i - 1] = s[a + i - 1 + 1]
      <4> HIDE DEF a, n
      <4> QED
        BY <1>3, <2>1
    <3> QED
      BY <2>1, <3>1
  <2> QED
    BY <2>2, <2>3, <2>4
<1> HIDE DEF back
<1>5. /\ t \in Seq(M) /\ Len(t) = n /\ t[1] = s[1]
      /\ \A i \in 1..n : i # 1 => t[i] = s[i + cut]
  <2>1. s[1] \in M /\ t \in Seq(M) /\ Len(t) = n /\ t[1] = s[1]
    BY <1>1, <1>2, <1>4
  <2>2. ASSUME NEW i \in 1..n, i # 1 PROVE t[i] = s[i + cut]
    <3>1. i - 1 \in 1..(n - 1) /\ i - 1 + cut + 1 = i + cut
      BY <1>1, <2>2
    <3>2. t[i] = back[i - 1]
      BY <1>1, <1>2, <1>4, <2>2
    <3> QED
      BY <1>4, <3>1, <3>2
  <2> QED
    BY <2>1, <2>2
<1> HIDE DEF t
<1>6. g \in [1..Len(t) -> 1..Len(s)]
  BY <1>1, <1>5
<1>7. Increasing(g, Len(t))
  BY <1>1, <1>5 DEF Increasing
<1>8. \A i \in 1..Len(t) : t[i] = s[g[i]] /\ g[i] \in I
  BY <1>1, <1>5
<1>9. \A j \in 1..Len(s) : j \in I => \E i \in 1..Len(t) : g[i] = j
  <2> SUFFICES ASSUME NEW j \in 1..Len(s), j \in I PROVE \E i \in 1..Len(t) : g[i] = j
    OBVIOUS
  <2>1. CASE j = 1
    BY <1>2, <1>5, <2>1
  <2>2. CASE j # 1
    <3>1. j - cut \in 1..n /\ j - cut # 1 /\ j - cut + cut = j
      BY <1>1, <2>2
    <3> QED
      BY <1>5, <3>1
  <2> QED
    BY <2>1, <2>2
<1> HIDE DEF g, I
<1>10. TakenAt(g, t, s, I)
  BY <1>6, <1>7, <1>8, <1>9 DEF TakenAt
<1> QED
  BY <1>5, <1>10 DEF t, I, back, rest

Cut(s, window) ==
    LET hasPrompt == s[1].role = "system"
        prompt    == IF hasPrompt THEN <<s[1]>> ELSE <<>>
        rest      == IF hasPrompt THEN Tail(s) ELSE s
    IN  CutOf(prompt, rest, window)
Back(s, window) ==
    IF s[1].role = "system"
    THEN <<s[1]>> \o SubSeq(Tail(s), Cut(s, window) + 1, Len(Tail(s)))
    ELSE <<>> \o SubSeq(s, Cut(s, window) + 1, Len(s))

LEMMA TruncateIs ==
    ASSUME NEW s, NEW window
    PROVE  \/ TruncateMidLoop(s, window) = s
           \/ /\ ~ Len(s) <= 3
              /\ TruncateMidLoop(s, window)
                   = NormalizeRoleAlternation(SanitizeToolPairs(Back(s, window)))
<1>1. CASE s[1].role = "system"
  BY <1>1, Zenon DEF TruncateMidLoop, Cut, Back
<1>2. CASE s[1].role # "system"
  BY <1>2, Zenon DEF TruncateMidLoop, Cut, Back
<1> QED
  BY <1>1, <1>2

LEMMA BackTypes ==
    ASSUME NEW M, Listable(M), NEW s \in Seq(M), s # <<>>, NEW window
    PROVE  Back(s, window) \in Seq(M)
<1> DEFINE prompt == IF s[1].role = "system" THEN <<s[1]>> ELSE <<>>
           rest   == IF s[1].role = "system" THEN Tail(s) ELSE s
           cut    == CutOf(prompt, rest, window)
<1>1. Len(s) \in Nat /\ \A i \in 1..Len(s) : s[i] \in M
  BY Typed
<1>2. rest \in Seq(M)
  BY <1>1
<1>3. Cut(s, window) = cut
  BY Zenon DEF Cut
<1>4. rest = IF s[1].role = "system" THEN Tail(s) ELSE s
  OBVIOUS
<1> HIDE DEF rest, prompt
<1>5. cut \in 0..Len(rest)
  BY <1>2, CutIs
<1> HIDE DEF cut
<1>6. CASE s[1].role = "system"
  <2>1. cut \in 0..(Len(s) - 1)
    BY <1>1, <1>4, <1>5, <1>6
  <2>2. <<s[1]>> \o SubSeq(Tail(s), cut + 1, Len(Tail(s))) \in Seq(M)
    BY <2>1, FrontCut
  <2> QED
    BY <1>3, <1>6, <2>2, Zenon DEF Back
<1>7. CASE s[1].role # "system"
  <2>1. Back(s, window) = <<>> \o SubSeq(s, cut + 1, Len(s))
    BY <1>3, <1>7, Zenon DEF Back
  <2>2. SubSeq(s, cut + 1, Len(s)) \in Seq(M)
    <3> DEFINE a == cut + 1
               b == Len(s)
    <3>1. a \in Int /\ b \in Int /\ \A i \in a..b : s[i] \in M
      BY <1>1, <1>4, <1>5, <1>7
    <3> HIDE DEF a, b
    <3>2. SubSeq(s, a, b) \in Seq(M)
      BY <3>1, SubSeqProperties
    <3> QED
      BY <3>2 DEF a, b
  <2> HIDE DEF cut
  <2> QED
    BY <2>1, <2>2
<1> QED
  BY <1>6, <1>7

(* Truncation keeps a list a list of messages.                              *)
LEMMA TruncateTypes ==
    ASSUME NEW M, Listable(M), NEW s \in Seq(M), NEW window
    PROVE  TruncateMidLoop(s, window) \in Seq(M)
<1>1. CASE TruncateMidLoop(s, window) = s
  BY <1>1
<1>2. CASE TruncateMidLoop(s, window) # s
  <2>1. /\ s # <<>>
        /\ TruncateMidLoop(s, window)
             = NormalizeRoleAlternation(SanitizeToolPairs(Back(s, window)))
    <3>1. Len(<<>>) = 0
      OBVIOUS
    <3> QED
      BY <1>2, <3>1, TruncateIs
  <2>2. Back(s, window) \in Seq(M)
    BY <2>1, BackTypes
  <2>3. SanitizeToolPairs(Back(s, window)) \in Seq(M)
    BY <2>2, SanitizeKeeps
  <2>4. "attachment" \notin {}
    OBVIOUS
  <2> QED
    BY <2>1, <2>3, <2>4, NormalizeKeeps
<1> QED
  BY <1>1, <1>2

\* Cutting the front off separates no call from its results, and leaves the question.
LEMMA BackKeeps ==
    ASSUME NEW L, NEW M, Listable(M), NEW s \in Seq(M), NEW window, WellPaired(s), Asks(s, L)
    PROVE  /\ Back(s, window) \in Seq(M)
           /\ Answered(Back(s, window)) /\ OneAnswer(Back(s, window))
           /\ Carries(Back(s, window), s, L)
<1> DEFINE rest == Tail(s)
           cut  == Cut(s, window)
           t    == Back(s, window)
           I    == {i \in 1..Len(s) : i = 1 \/ i >= cut + 2}
<1>1. Len(s) \in Nat /\ \A i \in 1..Len(s) : s[i] \in M
  BY Typed
<1>2. s # <<>> /\ s[1].role = "system" /\ 1 \in 1..Len(s)
  BY <1>1 DEF Asks
<1>3. rest \in Seq(M) /\ Len(rest) = Len(s) - 1 /\ \A i \in 1..Len(rest) : rest[i] = s[i + 1]
  BY <1>1, <1>2
<1>4. cut = CutOf(<<s[1]>>, rest, window)
  BY <1>2, Zenon DEF Cut
<1>5. t = <<s[1]>> \o SubSeq(rest, cut + 1, Len(rest))
  BY <1>2, Zenon DEF Back
<1> HIDE DEF rest, cut, t
<1>6. /\ cut \in 0..Len(rest)
      /\ \A u \in 1..Len(rest) : rest[u].role = "user" => cut <= LastUser(rest) - 1
  BY <1>3, <1>4, CutIs
<1>7. cut \in 0..(Len(s) - 1)
  BY <1>3, <1>6
<1>8. t \in Seq(M) /\ \E g : TakenAt(g, t, s, I)
  BY <1>2, <1>5, <1>7, FrontCut DEF rest
<1>9. \A i \in 1..Len(s) : i \in I <=> i = 1 \/ i >= cut + 2
  OBVIOUS
<1> HIDE DEF I
<1>10. PICK g : TakenAt(g, t, s, I)
  BY <1>8
<1>11. ResultsToo(s, I)
  <2> SUFFICES ASSUME NEW i \in 1..Len(s), i \in I, HasCalls(s[i]), NEW j \in (i + 1)..Len(s)
               PROVE  j \in I
    BY DEF ResultsToo
  <2>1. i # 1
    BY <1>2 DEF HasCalls
  <2>2. j \in 1..Len(s) /\ j >= cut + 2
    BY <1>1, <1>7, <1>9, <2>1
  <2> QED
    BY <1>9, <2>2
<1>12. LastUserToo(s, I)
  <2> SUFFICES ASSUME NEW u \in 1..Len(s), s[u].role = "user",
                      \A j \in (u + 1)..Len(s) : s[j].role # "user"
               PROVE  u \in I
    BY DEF LastUserToo
  <2>1. u # 1
    BY <1>2
  <2>2. u - 1 \in 1..Len(rest) /\ rest[u - 1] = s[u]
    BY <1>1, <1>3, <2>1
  <2>3. LastUser(rest) \in 1..Len(rest) /\ rest[LastUser(rest)].role = "user"
        /\ LastUser(rest) >= u - 1
    BY <1>1, <1>3, <2>2, LastUserIs
  <2>4. s[LastUser(rest) + 1].role = "user" /\ LastUser(rest) + 1 \in 1..Len(s)
    BY <1>1, <1>3, <2>3
  <2>5. LastUser(rest) + 1 <= u
    BY <1>1, <2>3, <2>4
  <2>6. cut <= LastUser(rest) - 1
    BY <1>6, <2>2
  <2>7. u >= cut + 2
    BY <1>7, <2>3, <2>5, <2>6
  <2> QED
    BY <1>9, <2>7
<1>13. 1 \in I
  BY <1>2, <1>9
<1>14. Carries(t, s, L)
  BY <1>8, <1>10, <1>12, <1>13, TakenCarries
<1>15. Answered(s) /\ OneAnswer(s)
  BY PairedIs
<1>16. Answered(t) /\ OneAnswer(t)
  BY <1>8, <1>10, <1>11, <1>15, TakenHalf
<1> QED
  BY <1>8, <1>14, <1>16 DEF t

(* Truncation keeps a list well paired, with its prompt and its question.   *)
LEMMA TruncateKeeps ==
    ASSUME NEW L, "attachment" \notin L, NEW M, Listable(M), NEW s \in Seq(M), NEW window,
           WellPaired(s), Asks(s, L)
    PROVE  /\ WellPaired(TruncateMidLoop(s, window))
           /\ Carries(TruncateMidLoop(s, window), s, L)
<1> DEFINE back      == Back(s, window)
           sanitized == SanitizeToolPairs(back)
<1>1. CASE TruncateMidLoop(s, window) = s
  <2>1. Carries(s, s, L)
    BY DEF Carries, SameResults
  <2> QED
    BY <1>1, <2>1
<1>2. CASE TruncateMidLoop(s, window) # s
  <2>1. TruncateMidLoop(s, window) = NormalizeRoleAlternation(sanitized)
    BY <1>2, TruncateIs
  <2>2. back \in Seq(M) /\ Answered(back) /\ OneAnswer(back) /\ Carries(back, s, L)
    BY BackKeeps
  <2> HIDE DEF back
  <2>3. sanitized \in Seq(M) /\ WellPaired(sanitized) /\ Carries(sanitized, back, L)
    BY <2>2, SanitizeKeeps
  <2> HIDE DEF sanitized
  <2>4. /\ WellPaired(NormalizeRoleAlternation(sanitized))
        /\ Carries(NormalizeRoleAlternation(sanitized), sanitized, L)
    BY <2>3, NormalizeKeeps
  <2> QED
    BY <2>1, <2>2, <2>3, <2>4, CarriesTransitive
<1> QED
  BY <1>1, <1>2
=============================================================================
