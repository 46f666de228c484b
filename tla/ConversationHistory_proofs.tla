---------------------- MODULE ConversationHistory_proofs ----------------------
(***************************************************************************)
(* However turns, crashes and compactions interleave, a question is not    *)
(* forgotten, the list that is sent is well paired, and its last user      *)
(* message is the question of the turn while few compactions come between. *)
(***************************************************************************)
EXTENDS ConversationHistory, MessageList_proofs, FiniteSetTheorems

-----------------------------------------------------------------------------
(* Lists whose results follow their calls, as far as both are there: what    *)
(* any part of the rows has, and all that filling in results needs.          *)

OneCall(s) ==
    \A i, j \in Indices(s) : HasCalls(s[i]) /\ HasCalls(s[j]) =>
        \A c \in ToSet(s[i].calls) : c \in ToSet(s[j].calls) => i = j
CallsOnce(m) == \A k, l \in Indices(m.calls) : m.calls[k] = m.calls[l] => k = l
Follows(s) ==
    \A i, j \in Indices(s) :
        HasCalls(s[i]) /\ s[j].role = "tool" /\ s[j].id \in ToSet(s[i].calls) =>
            i < j /\ Answers(s, i, j)
Sound(s) ==
    /\ OneAnswer(s)
    /\ OneCall(s)
    /\ \A i \in Indices(s) : HasCalls(s[i]) => CallsOnce(s[i])
    /\ Follows(s)

LEMMA Reflects ==
    ASSUME NEW n \in Nat, NEW m \in Nat, NEW g \in [1..n -> 1..m], Increasing(g, n),
           NEW i \in 1..n, NEW j \in 1..n
    PROVE  /\ g[i] = g[j] => i = j
           /\ g[i] < g[j] => i < j
<1>1. CASE i < j
  BY <1>1 DEF Increasing
<1>2. CASE j < i
  <2>1. g[j] < g[i] /\ g[i] \in 1..m /\ g[j] \in 1..m
    BY <1>2 DEF Increasing
  <2> QED
    BY <2>1
<1>3. CASE i = j
  BY <1>3
<1> QED
  BY <1>1, <1>2, <1>3

\* Every part of such a list is one.
LEMMA ThinnedSound ==
    ASSUME NEW M, Listable(M), NEW s \in Seq(M), NEW t \in Seq(M), NEW g,
           Thins(g, t, s), Sound(s)
    PROVE  Sound(t)
<1>1. Len(s) \in Nat /\ Len(t) \in Nat
  BY Typed
<1>2. /\ g \in [1..Len(t) -> 1..Len(s)] /\ Increasing(g, Len(t))
      /\ \A i \in 1..Len(t) : /\ t[i].role = s[g[i]].role /\ t[i].calls = s[g[i]].calls
                              /\ t[i].id = s[g[i]].id /\ g[i] \in 1..Len(s)
                              /\ HasCalls(t[i]) => HasCalls(s[g[i]])
  BY DEF Thins, HasCalls
<1>3. OneAnswer(t)
  BY ThinnedOneAnswer DEF Sound
<1>4. OneCall(t)
  <2> SUFFICES ASSUME NEW i \in 1..Len(t), NEW j \in 1..Len(t), HasCalls(t[i]), HasCalls(t[j]),
                      NEW c \in ToSet(t[i].calls), c \in ToSet(t[j].calls)
               PROVE  i = j
    BY DEF OneCall, Indices
  <2>1. g[i] = g[j]
    BY <1>2 DEF Sound, OneCall, Indices
  <2> QED
    BY <1>1, <1>2, <2>1 DEF Increasing
<1>5. ASSUME NEW i \in Indices(t), HasCalls(t[i]) PROVE CallsOnce(t[i])
  <2>1. CallsOnce(s[g[i]]) /\ t[i].calls = s[g[i]].calls
    BY <1>2, <1>5 DEF Sound, Indices
  <2> QED
    BY <2>1 DEF CallsOnce
<1>6. Follows(t)
  <2> SUFFICES ASSUME NEW i \in 1..Len(t), NEW j \in 1..Len(t), HasCalls(t[i]),
                      t[j].role = "tool", t[j].id \in ToSet(t[i].calls)
               PROVE  i < j /\ Answers(t, i, j)
    BY DEF Follows, Indices
  <2>1. g[i] < g[j] /\ Answers(s, g[i], g[j])
    BY <1>2 DEF Sound, Follows, Indices
  <2>2. i < j
    BY <1>1, <1>2, <2>1, Reflects
  <2>3. ASSUME NEW k \in (i + 1)..(j - 1) PROVE t[k].role \in {"tool", "system"}
    <3>1. k \in 1..Len(t) /\ i < k /\ k < j
      BY <1>1, <2>3
    <3>2. g[i] < g[k] /\ g[k] < g[j]
      BY <1>2, <3>1 DEF Increasing
    <3>3. g[k] \in (g[i] + 1)..(g[j] - 1)
      BY <1>1, <1>2, <3>1, <3>2
    <3> QED
      BY <1>2, <2>1, <3>1, <3>3 DEF Answers
  <2> QED
    BY <2>2, <2>3 DEF Answers
<1> QED
  BY <1>3, <1>4, <1>5, <1>6 DEF Sound

LEMMA TakenSound ==
    ASSUME NEW M, Listable(M), NEW s \in Seq(M), NEW I, Sound(s)
    PROVE  Keep(s, I) \in Seq(M) /\ Sound(Keep(s, I)) /\ \E g : TakenAt(g, Keep(s, I), s, I)
<1>1. Keep(s, I) \in Seq(M) /\ \E g : TakenAt(g, Keep(s, I), s, I)
  BY KeepTakes
<1> QED
  BY <1>1, TakenThins, ThinnedSound

-----------------------------------------------------------------------------
(* Filling in results *)

LEMMA Concat ==
    ASSUME NEW S, NEW a \in Seq(S), NEW b \in Seq(S)
    PROVE  /\ a \o b \in Seq(S) /\ Len(a) \in Nat /\ Len(b) \in Nat
           /\ Len(a \o b) = Len(a) + Len(b)
           /\ \A i \in 1..Len(a) : (a \o b)[i] = a[i]
           /\ \A i \in 1..Len(b) : (a \o b)[Len(a) + i] = b[i]
OBVIOUS

\* m is a result that fills in for a call at i.
FillsIn(m, s, i) ==
    /\ HasCalls(s[i]) /\ m.role = "tool" /\ m.calls = <<>>
    /\ m.id \in ToSet(s[i].calls) /\ m.id \notin AnsweredIds(s, i)

\* b is the message at i and the results that fill in for its calls.
Block(b, s, i) ==
    /\ Len(b) \in Nat \ {0} /\ b[1] = s[i]
    /\ \A p \in 2..Len(b) : FillsIn(b[p], s, i)
    /\ \A p, q \in 2..Len(b) : b[p].id = b[q].id => p = q
    /\ HasCalls(s[i]) =>
         \A c \in ToSet(s[i].calls) \ AnsweredIds(s, i) :
             \E p \in 2..Len(b) : b[p].id = c

LEMMA FilledIs ==
    ASSUME NEW M, Listable(M), NEW s \in Seq(M), NEW i \in 1..Len(s),
           HasCalls(s[i]) => CallsOnce(s[i])
    PROVE  Filled(s, i) \in Seq(M) /\ Block(Filled(s, i), s, i)
<1> DEFINE b == Filled(s, i)
           calls == s[i].calls
           lost == Lost(s, i)
           I == {k \in Indices(calls) : calls[k] \notin AnsweredIds(s, i)}
           results == [k \in 1..Len(lost) |-> Result(lost[k], 1, "synthetic")]
<1>1. s[i] \in M
  BY Typed
<1>2. PICK Ids, Labels : M = MessageSet(Ids, Labels) /\ NoId \in Ids /\ "synthetic" \in Labels
  BY DEF Listable
<1>3. calls \in Seq(Ids)
  BY <1>1, <1>2 DEF MessageSet
<1>4. lost \in Seq(Ids) /\ \E g : TakenAt(g, lost, calls, I)
  <2>1. lost = Keep(calls, I)
    BY DEF Lost
  <2> HIDE DEF I, calls, lost
  <2> QED
    BY <1>3, <2>1, KeepTakes
<1>5. ASSUME NEW c \in Ids
      PROVE  /\ Result(c, 1, "synthetic") \in M
             /\ Result(c, 1, "synthetic").role = "tool"
             /\ Result(c, 1, "synthetic").calls = <<>>
             /\ Result(c, 1, "synthetic").id = c
  <2>1. \A n \in Nat : Result(c, n, "synthetic") \in M
    BY <1>2, MadeTypes
  <2> QED
    BY <2>1 DEF Result, Message
<1>6. \A k \in Indices(calls) : k \in I <=> calls[k] \notin AnsweredIds(s, i)
  OBVIOUS
<1> HIDE DEF I
<1>7. PICK g : TakenAt(g, lost, calls, I)
  BY <1>4
<1>8. Len(lost) \in Nat /\ \A k \in 1..Len(lost) : lost[k] \in Ids
  <2> HIDE DEF lost
  <2> QED
    BY <1>4, SeqElements
<1>9. Len(calls) \in Nat /\ \A k \in 1..Len(calls) : calls[k] \in Ids
  <2> HIDE DEF calls
  <2> QED
    BY <1>3, SeqElements
<1> HIDE DEF lost
<1>10. /\ results \in Seq(M) /\ Len(results) = Len(lost)
       /\ \A k \in 1..Len(lost) : results[k] = Result(lost[k], 1, "synthetic")
  BY <1>5, <1>8
<1>11. <<s[i]>> \in Seq(M) /\ Len(<<s[i]>>) = 1 /\ <<s[i]>>[1] = s[i]
  BY <1>1
<1> HIDE DEF results
<1>12. CASE ~ HasCalls(s[i])
  <2>1. b = <<s[i]>>
    BY <1>12, Zenon DEF Filled
  <2> HIDE DEF b
  <2>2. b \in Seq(M) /\ Len(b) = 1 /\ b[1] = s[i]
    BY <1>11, <2>1
  <2> QED
    BY <1>12, <2>2 DEF b, Block
<1>13. CASE HasCalls(s[i])
  <2>1. b = <<s[i]>> \o results
    BY <1>13, Zenon DEF Filled, results, lost
  <2>2. /\ b \in Seq(M) /\ Len(b) = 1 + Len(lost) /\ b[1] = s[i]
        /\ \A k \in 1..Len(lost) : b[1 + k] = results[k]
    <3>1. b \in Seq(M) /\ Len(b) = Len(<<s[i]>>) + Len(results)
          /\ (\A k \in 1..Len(<<s[i]>>) : b[k] = <<s[i]>>[k])
          /\ \A k \in 1..Len(results) : b[Len(<<s[i]>>) + k] = results[k]
      <4> HIDE DEF b
      <4> QED
        BY <1>10, <1>11, <2>1, Concat
    <3> HIDE DEF b
    <3>2. 1 \in 1..Len(<<s[i]>>)
      BY <1>11
    <3> QED
      BY <1>10, <1>11, <3>1, <3>2
  <2> HIDE DEF b
  <2>3. \A p \in 2..Len(b) : p - 1 \in 1..Len(lost) /\ b[p] = Result(lost[p - 1], 1, "synthetic")
    <3> SUFFICES ASSUME NEW p \in 2..Len(b)
                 PROVE  p - 1 \in 1..Len(lost) /\ b[p] = Result(lost[p - 1], 1, "synthetic")
      OBVIOUS
    <3>1. p - 1 \in 1..Len(lost) /\ 1 + (p - 1) = p
      BY <1>8, <2>2
    <3> QED
      BY <1>10, <2>2, <3>1
  <2>4. \A k \in 1..Len(lost) : /\ g[k] \in 1..Len(calls) /\ lost[k] = calls[g[k]]
                                /\ calls[g[k]] \notin AnsweredIds(s, i)
                                /\ calls[g[k]] \in ToSet(calls)
    <3> HIDE DEF calls
    <3>1. ASSUME NEW k \in 1..Len(lost)
          PROVE  g[k] \in 1..Len(calls) /\ lost[k] = calls[g[k]] /\ g[k] \in I
      BY <1>7, <3>1 DEF TakenAt
    <3>2. ASSUME NEW k \in 1..Len(lost) PROVE calls[g[k]] \notin AnsweredIds(s, i)
      BY <1>6, <3>1 DEF Indices
    <3>3. ASSUME NEW k \in 1..Len(lost) PROVE calls[g[k]] \in ToSet(calls)
      BY <3>1 DEF ToSet
    <3> QED
      BY <3>1, <3>2, <3>3
  <2>5. ASSUME NEW p \in 2..Len(b) PROVE FillsIn(b[p], s, i) /\ b[p].id = lost[p - 1]
    <3>1. p - 1 \in 1..Len(lost) /\ b[p] = Result(lost[p - 1], 1, "synthetic")
      BY <2>3
    <3>2. lost[p - 1] \in Ids
      BY <1>8, <3>1
    <3>3. b[p].role = "tool" /\ b[p].calls = <<>> /\ b[p].id = lost[p - 1]
      BY <1>5, <3>1, <3>2
    <3>4. lost[p - 1] \in ToSet(calls) /\ lost[p - 1] \notin AnsweredIds(s, i)
      BY <2>4, <3>1
    <3> QED
      BY <1>13, <3>3, <3>4 DEF FillsIn
  <2>6. ASSUME NEW p \in 2..Len(b), NEW q \in 2..Len(b), b[p].id = b[q].id PROVE p = q
    <3> DEFINE k == p - 1
               l == q - 1
    <3>1. k \in 1..Len(lost) /\ l \in 1..Len(lost)
      BY <2>3
    <3>2. lost[k] = lost[l]
      BY <2>5, <2>6
    <3>3. calls[g[k]] = calls[g[l]] /\ g[k] \in Indices(calls) /\ g[l] \in Indices(calls)
      BY <2>4, <3>1, <3>2 DEF Indices
    <3>4. g[k] = g[l]
      BY <1>13, <3>3 DEF CallsOnce
    <3> HIDE DEF k, l
    <3>5. k = l
      BY <1>7, <1>8, <1>9, <3>1, <3>4 DEF TakenAt, Increasing
    <3> QED
      BY <3>5 DEF k, l
  <2>7. ASSUME NEW c \in ToSet(calls) \ AnsweredIds(s, i) PROVE \E p \in 2..Len(b) : b[p].id = c
    <3>1. PICK k \in 1..Len(calls) : calls[k] = c
      <4> HIDE DEF calls
      <4> QED
        BY <1>3, <2>7 DEF ToSet
    <3>2. k \in I
      BY <1>6, <3>1 DEF Indices
    <3>3. PICK h \in 1..Len(lost) : g[h] = k
      BY <1>7, <3>1, <3>2 DEF TakenAt
    <3>4. lost[h] = c
      BY <2>4, <3>1, <3>3
    <3>5. h + 1 \in 2..Len(b) /\ (h + 1) - 1 = h
      BY <1>8, <2>2
    <3>6. b[h + 1].id = lost[(h + 1) - 1]
      BY <2>5, <3>5
    <3> QED
      BY <3>4, <3>5, <3>6
  <2>8. Len(b) \in Nat \ {0}
    BY <1>8, <2>2
  <2> QED
    BY <1>13, <2>2, <2>5, <2>6, <2>7, <2>8 DEF b, Block
<1> QED
  BY <1>12, <1>13

\* r spreads the first n messages of s: the message at i is at h[i] now, and what
\* stands behind it up to the next one fills in for its calls; o leads back.
Spread(o, h, r, s, n) ==
    /\ o \in [1..Len(r) -> 1..n] /\ h \in [1..n -> 1..Len(r)]
    /\ \A p, q \in 1..Len(r) : p <= q => o[p] <= o[q]
    /\ \A i \in 1..n : o[h[i]] = i /\ r[h[i]] = s[i]
    /\ \A p \in 1..Len(r) : p = h[o[p]] \/ (h[o[p]] < p /\ FillsIn(r[p], s, o[p]))
    /\ \A p, q \in 1..Len(r) :
         o[p] = o[q] /\ p # h[o[p]] /\ q # h[o[q]] /\ r[p].id = r[q].id => p = q
    /\ \A i \in 1..n : HasCalls(s[i]) =>
         \A c \in ToSet(s[i].calls) \ AnsweredIds(s, i) :
             \E p \in 1..Len(r) : o[p] = i /\ p # h[i] /\ r[p].id = c

LEMMA SpreadStep ==
    ASSUME NEW M, NEW s, NEW n \in Nat \ {0}, NEW r \in Seq(M), NEW b \in Seq(M),
           NEW o, NEW h, Spread(o, h, r, s, n - 1), Block(b, s, n)
    PROVE  \E o2, h2 : Spread(o2, h2, r \o b, s, n)
<1> DEFINE t == r \o b
           m == Len(r)
           o2 == [p \in 1..Len(t) |-> IF p <= m THEN o[p] ELSE n]
           h2 == [i \in 1..n |-> IF i < n THEN h[i] ELSE m + 1]
<1>1. /\ m \in Nat /\ Len(b) \in Nat /\ Len(t) = m + Len(b)
      /\ \A i \in 1..m : t[i] = r[i]
      /\ \A i \in 1..Len(b) : t[m + i] = b[i]
  BY Concat
<1> HIDE DEF t
<1>2. /\ o \in [1..m -> 1..(n - 1)] /\ h \in [1..(n - 1) -> 1..m]
      /\ \A p, q \in 1..m : p <= q => o[p] <= o[q]
      /\ \A i \in 1..(n - 1) : o[h[i]] = i /\ r[h[i]] = s[i]
      /\ \A p \in 1..m : p = h[o[p]] \/ (h[o[p]] < p /\ FillsIn(r[p], s, o[p]))
      /\ \A p, q \in 1..m :
           o[p] = o[q] /\ p # h[o[p]] /\ q # h[o[q]] /\ r[p].id = r[q].id => p = q
      /\ \A i \in 1..(n - 1) : HasCalls(s[i]) =>
           \A c \in ToSet(s[i].calls) \ AnsweredIds(s, i) :
               \E p \in 1..m : o[p] = i /\ p # h[i] /\ r[p].id = c
  BY DEF Spread
<1>3. /\ Len(b) >= 1 /\ b[1] = s[n]
      /\ \A p \in 2..Len(b) : FillsIn(b[p], s, n)
      /\ \A p, q \in 2..Len(b) : b[p].id = b[q].id => p = q
      /\ HasCalls(s[n]) =>
           \A c \in ToSet(s[n].calls) \ AnsweredIds(s, n) : \E p \in 2..Len(b) : b[p].id = c
  BY DEF Block
<1> HIDE DEF m
<1>4. \A p \in 1..Len(t) :
        \/ p \in 1..m /\ o2[p] = o[p] /\ o[p] \in 1..(n - 1) /\ t[p] = r[p]
        \/ p \in (m + 1)..Len(t) /\ o2[p] = n
             /\ p - m \in 1..Len(b) /\ t[p] = b[p - m]
  <2> SUFFICES ASSUME NEW p \in 1..Len(t)
               PROVE  \/ p \in 1..m /\ o2[p] = o[p] /\ o[p] \in 1..(n - 1) /\ t[p] = r[p]
                      \/ p \in (m + 1)..Len(t) /\ o2[p] = n
                           /\ p - m \in 1..Len(b) /\ t[p] = b[p - m]
    OBVIOUS
  <2>1. CASE p <= m
    <3>1. p \in 1..m
      BY <1>1, <2>1
    <3>2. o[p] \in 1..(n - 1)
      BY <1>2, <3>1
    <3> QED
      BY <1>1, <2>1, <3>1, <3>2
  <2>2. CASE ~ p <= m
    <3>1. p - m \in 1..Len(b) /\ m + (p - m) = p /\ p \in (m + 1)..Len(t)
      BY <1>1, <2>2
    <3>2. t[p] = b[p - m]
      BY <1>1, <3>1
    <3> QED
      BY <2>2, <3>1, <3>2
  <2> QED
    BY <2>1, <2>2
<1>5. \A i \in 1..n :
        \/ i \in 1..(n - 1) /\ h2[i] = h[i] /\ h[i] \in 1..m
        \/ i = n /\ h2[i] = m + 1
  <2> SUFFICES ASSUME NEW i \in 1..n
               PROVE  \/ i \in 1..(n - 1) /\ h2[i] = h[i] /\ h[i] \in 1..m
                      \/ i = n /\ h2[i] = m + 1
    OBVIOUS
  <2>1. CASE i < n
    <3>1. i \in 1..(n - 1)
      BY <2>1
    <3> QED
      BY <1>2, <2>1, <3>1
  <2> QED
    BY <2>1
<1>6. o2 \in [1..Len(t) -> 1..n]
  <2>1. \A p \in 1..Len(t) : (IF p <= m THEN o[p] ELSE n) \in 1..n
    BY <1>1, <1>2
  <2> QED
    BY <2>1
<1>7. h2 \in [1..n -> 1..Len(t)]
  <2>1. \A i \in 1..n : (IF i < n THEN h[i] ELSE m + 1) \in 1..Len(t)
    BY <1>1, <1>2, <1>3
  <2> QED
    BY <2>1
<1> HIDE DEF o2, h2
<1>8. m + 1 \in 1..Len(t) /\ (m + 1) - m = 1 /\ ~ (m + 1 \in 1..m)
  <2>1. m \in Nat /\ Len(b) \in Nat /\ Len(t) = m + Len(b)
    BY <1>1
  <2>2. Len(b) >= 1
    BY <1>3
  <2> QED
    BY <2>1, <2>2
<1>9. \A p, q \in 1..Len(t) : p <= q => o2[p] <= o2[q]
  <2> SUFFICES ASSUME NEW p \in 1..Len(t), NEW q \in 1..Len(t), p <= q
               PROVE  o2[p] <= o2[q]
    OBVIOUS
  <2>1. CASE q \in 1..m
    <3>1. p \in 1..m /\ ~ (p \in (m + 1)..Len(t)) /\ ~ (q \in (m + 1)..Len(t))
      BY <1>1, <2>1
    <3>2. o2[p] = o[p] /\ o2[q] = o[q]
      BY <1>4, <3>1
    <3> QED
      BY <1>2, <2>1, <3>1, <3>2
  <2>2. CASE ~ (q \in 1..m)
    <3>1. o2[q] = n
      BY <1>4, <2>2
    <3>2. o2[p] \in 1..n
      BY <1>6
    <3> QED
      BY <3>1, <3>2
  <2> QED
    BY <2>1, <2>2
<1>10. \A i \in 1..n : o2[h2[i]] = i /\ t[h2[i]] = s[i]
  <2> SUFFICES ASSUME NEW i \in 1..n PROVE o2[h2[i]] = i /\ t[h2[i]] = s[i]
    OBVIOUS
  <2>1. CASE i = n /\ h2[i] = m + 1
    <3>1. o2[m + 1] = n /\ t[m + 1] = b[1]
      BY <1>4, <1>8
    <3> QED
      BY <1>3, <2>1, <3>1
  <2>2. CASE i \in 1..(n - 1) /\ h2[i] = h[i] /\ h[i] \in 1..m
    <3>1. h[i] \in 1..Len(t) /\ ~ (h[i] \in (m + 1)..Len(t))
      BY <1>1, <2>2
    <3>2. o2[h[i]] = o[h[i]] /\ t[h[i]] = r[h[i]]
      BY <1>4, <3>1
    <3> QED
      BY <1>2, <2>2, <3>2
  <2> QED
    BY <1>5, <2>1, <2>2
\* Where a place of t is, and what is its own message.
<1>11. \A p \in 1..Len(t) :
         \/ p \in 1..m /\ o2[p] = o[p] /\ o2[p] \in 1..(n - 1) /\ h2[o2[p]] = h[o[p]]
              /\ t[p] = r[p]
         \/ p \in (m + 1)..Len(t) /\ o2[p] = n /\ h2[o2[p]] = m + 1
              /\ p - m \in 1..Len(b) /\ t[p] = b[p - m]
  <2> SUFFICES ASSUME NEW p \in 1..Len(t)
               PROVE  \/ p \in 1..m /\ o2[p] = o[p] /\ o2[p] \in 1..(n - 1)
                           /\ h2[o2[p]] = h[o[p]] /\ t[p] = r[p]
                      \/ p \in (m + 1)..Len(t) /\ o2[p] = n /\ h2[o2[p]] = m + 1
                           /\ p - m \in 1..Len(b) /\ t[p] = b[p - m]
    OBVIOUS
  <2>1. CASE p \in 1..m /\ o2[p] = o[p] /\ o[p] \in 1..(n - 1) /\ t[p] = r[p]
    <3>1. o[p] \in 1..n /\ o[p] # n
      BY <2>1
    <3> QED
      BY <1>5, <2>1, <3>1
  <2>2. CASE p \in (m + 1)..Len(t) /\ o2[p] = n /\ p - m \in 1..Len(b) /\ t[p] = b[p - m]
    <3>1. n \in 1..n /\ ~ (n \in 1..(n - 1))
      OBVIOUS
    <3> QED
      BY <1>5, <2>2, <3>1
  <2> QED
    BY <1>4, <2>1, <2>2
<1>12. \A p \in 1..Len(t) : p = h2[o2[p]] \/ (h2[o2[p]] < p /\ FillsIn(t[p], s, o2[p]))
  <2> SUFFICES ASSUME NEW p \in 1..Len(t)
               PROVE  p = h2[o2[p]] \/ (h2[o2[p]] < p /\ FillsIn(t[p], s, o2[p]))
    OBVIOUS
  <2>1. CASE p \in 1..m /\ o2[p] = o[p] /\ h2[o2[p]] = h[o[p]] /\ t[p] = r[p]
    BY <1>2, <2>1
  <2>2. CASE /\ p \in (m + 1)..Len(t) /\ o2[p] = n /\ h2[o2[p]] = m + 1
             /\ p - m \in 1..Len(b) /\ t[p] = b[p - m]
    <3>1. p = m + 1 \/ (p - m \in 2..Len(b) /\ m + 1 < p)
      BY <1>1, <2>2
    <3> QED
      BY <1>3, <2>2, <3>1
  <2> QED
    BY <1>11, <2>1, <2>2
<1>13. \A p, q \in 1..Len(t) :
         o2[p] = o2[q] /\ p # h2[o2[p]] /\ q # h2[o2[q]] /\ t[p].id = t[q].id => p = q
  <2> SUFFICES ASSUME NEW p \in 1..Len(t), NEW q \in 1..Len(t), o2[p] = o2[q],
                      p # h2[o2[p]], q # h2[o2[q]], t[p].id = t[q].id
               PROVE  p = q
    OBVIOUS
  <2>1. CASE o2[p] = n
    <3>0. ASSUME NEW j \in 1..Len(t), o2[j] = n, j # h2[o2[j]]
          PROVE  j \in (m + 1)..Len(t) /\ j # m + 1 /\ t[j] = b[j - m]
      <4>1. ~ (n \in 1..(n - 1))
        OBVIOUS
      <4> QED
        BY <1>11, <3>0, <4>1
    <3>1. /\ p \in (m + 1)..Len(t) /\ p # m + 1 /\ t[p] = b[p - m]
          /\ q \in (m + 1)..Len(t) /\ q # m + 1 /\ t[q] = b[q - m]
      BY <2>1, <3>0
    <3>2. p - m \in 2..Len(b) /\ q - m \in 2..Len(b)
      BY <1>1, <3>1
    <3>3. p - m = q - m
      BY <1>3, <3>1, <3>2
    <3> QED
      BY <1>1, <3>3
  <2>2. CASE o2[p] # n
    <3>1. /\ p \in 1..m /\ o2[p] = o[p] /\ h2[o2[p]] = h[o[p]] /\ t[p] = r[p]
          /\ q \in 1..m /\ o2[q] = o[q] /\ h2[o2[q]] = h[o[q]] /\ t[q] = r[q]
      BY <1>11, <2>2
    <3>2. o[p] = o[q] /\ p # h[o[p]] /\ q # h[o[q]] /\ r[p].id = r[q].id
      BY <3>1
    <3>3. \A x, y \in 1..m :
            o[x] = o[y] /\ x # h[o[x]] /\ y # h[o[y]] /\ r[x].id = r[y].id => x = y
      BY <1>2
    <3> QED
      BY <3>1, <3>2, <3>3
  <2> QED
    BY <2>1, <2>2
<1>14. \A i \in 1..n : HasCalls(s[i]) =>
         \A c \in ToSet(s[i].calls) \ AnsweredIds(s, i) :
             \E p \in 1..Len(t) : o2[p] = i /\ p # h2[i] /\ t[p].id = c
  <2> SUFFICES ASSUME NEW i \in 1..n, HasCalls(s[i]),
                      NEW c \in ToSet(s[i].calls) \ AnsweredIds(s, i)
               PROVE  \E p \in 1..Len(t) : o2[p] = i /\ p # h2[i] /\ t[p].id = c
    OBVIOUS
  <2>1. CASE i = n /\ h2[i] = m + 1
    <3>1. PICK q \in 2..Len(b) : b[q].id = c
      BY <1>3, <2>1
    <3>2. m + q \in 1..Len(t) /\ m + q # m + 1 /\ ~ (m + q \in 1..m) /\ (m + q) - m = q
      BY <1>1, <3>1
    <3>3. o2[m + q] = n /\ t[m + q] = b[q]
      BY <1>4, <3>2
    <3> QED
      BY <2>1, <3>1, <3>2, <3>3
  <2>2. CASE i \in 1..(n - 1) /\ h2[i] = h[i]
    <3>1. PICK p \in 1..m : o[p] = i /\ p # h[i] /\ r[p].id = c
      BY <1>2, <2>2
    <3>2. p \in 1..Len(t) /\ ~ (p \in (m + 1)..Len(t))
      BY <1>1
    <3>3. o2[p] = o[p] /\ t[p] = r[p]
      BY <1>4, <3>2
    <3> QED
      BY <2>2, <3>1, <3>2, <3>3
  <2> QED
    BY <1>5, <2>1, <2>2
<1>15. Spread(o2, h2, t, s, n)
  BY <1>6, <1>7, <1>9, <1>10, <1>12, <1>13, <1>14 DEF Spread
<1> QED
  BY <1>15 DEF t

LEMMA FillSpreads ==
    ASSUME NEW M, Listable(M), NEW s \in Seq(M),
           \A i \in Indices(s) : HasCalls(s[i]) => CallsOnce(s[i])
    PROVE  \E o, h : Spread(o, h, FillResults(s), s, Len(s))
<1> DEFINE seqs == [i \in Indices(s) |-> Filled(s, i)]
           V == Seq(M)
<1>1. Len(s) \in Nat
  BY Typed
<1>2. \A i \in 1..Len(s) : Filled(s, i) \in V /\ Block(Filled(s, i), s, i)
  BY FilledIs DEF Indices
<1>3. seqs \in Seq(V) /\ Len(seqs) = Len(s) /\ \A i \in 1..Len(s) : seqs[i] = Filled(s, i)
  <2> HIDE DEF V
  <2> QED
    BY <1>1, <1>2 DEF Indices
<1> HIDE DEF seqs
<1>4. PICK f \in [0..Len(s) -> V] :
         /\ f[0] = <<>> /\ \A i \in 1..Len(s) : f[i] = f[i - 1] \o seqs[i]
         /\ FlattenSeq(seqs) = f[Len(s)]
  <2>1. PICK f \in [0..Len(seqs) -> Seq(M)] :
           /\ f[0] = <<>> /\ \A i \in 1..Len(seqs) : f[i] = f[i - 1] \o seqs[i]
           /\ FlattenSeq(seqs) = f[Len(seqs)]
    BY <1>3, Flattened
  <2> QED
    BY <1>3, <2>1, Zenon DEF V
<1> DEFINE Done(n) == \E o, h : Spread(o, h, f[n], s, n)
           P == {n \in 0..Len(s) : Done(n)}
<1>5. Done(0)
  <2> DEFINE e == [p \in 1..0 |-> 1]
  <2>1. Len(<<>>) = 0
    OBVIOUS
  <2>2. e \in [1..0 -> 1..0]
    OBVIOUS
  <2> HIDE DEF e
  <2>3. Spread(e, e, <<>>, s, 0)
    BY <2>1, <2>2 DEF Spread
  <2> QED
    BY <1>4, <2>3
<1>6. ASSUME NEW n \in 1..Len(s), Done(n - 1) PROVE Done(n)
  <2>1. n \in Nat \ {0} /\ n - 1 \in 0..Len(s)
    BY <1>1
  <2>2. f[n - 1] \in V
    <3> HIDE DEF V
    <3> QED
      BY <1>4, <2>1
  <2>3. f[n] = f[n - 1] \o Filled(s, n)
    BY <1>3, <1>4
  <2>4. PICK o, h : Spread(o, h, f[n - 1], s, n - 1)
    BY <1>6
  <2>5. Filled(s, n) \in V /\ Block(Filled(s, n), s, n)
    BY <1>2
  <2> DEFINE r == f[n - 1]
             b == Filled(s, n)
  <2> HIDE DEF r, b
  <2>6. \E o2, h2 : Spread(o2, h2, r \o b, s, n)
    <3>1. r \in Seq(M) /\ b \in Seq(M) /\ Spread(o, h, r, s, n - 1) /\ Block(b, s, n)
      BY <2>2, <2>4, <2>5 DEF r, b
    <3> QED
      BY <2>1, <3>1, SpreadStep
  <2> QED
    BY <2>3, <2>6 DEF r, b
<1>7. Done(Len(s))
  <2> HIDE DEF Done
  <2>1. 0 \in P /\ P \in SUBSET (0..Len(s))
    BY <1>1, <1>5
  <2>2. \A k \in 1..Len(s) : k - 1 \in P => k \in P
    BY <1>1, <1>6
  <2> HIDE DEF P
  <2>3. P = 0..Len(s)
    BY <1>1, <2>1, <2>2, Upward
  <2> QED
    BY <1>1, <2>3 DEF P
<1> QED
  BY <1>4, <1>7, FillIs DEF seqs

\* What counts as answered is what is answered before anybody else speaks.
LEMMA AnsweredIdsAre ==
    ASSUME NEW M, Listable(M), NEW s \in Seq(M), NEW i \in 1..Len(s), HasCalls(s[i])
    PROVE  /\ \A j \in (i + 1)..Len(s) : Answers(s, i, j) => s[j].id \in AnsweredIds(s, i)
           /\ \A c \in ToSet(s[i].calls) : c \in AnsweredIds(s, i) =>
                \E j \in (i + 1)..Len(s) : Answers(s, i, j) /\ s[j].id = c
<1> DEFINE J   == Having(s, Speakers)
           end == First(Len(s), i + 1, J)
<1>1. Len(s) \in Nat /\ \A k \in 1..Len(s) : s[k] \in M /\ s[k].role \in Roles
  BY Typed
<1>2. /\ end \in (i + 1)..(Len(s) + 1)
      /\ \A k \in (i + 1)..Len(s) : k < end => k \notin J
      /\ end <= Len(s) => end \in J
  <2>1. i + 1 \in 1..(Len(s) + 1)
    BY <1>1
  <2> HIDE DEF J
  <2> QED
    BY <1>1, <2>1, FirstIs
<1>3. AnsweredIds(s, i) = {s[k].id : k \in {h \in (i + 1)..(end - 1) : s[h].role = "tool"}}
  <2>1. i + 1 \in Nat \ {0}
    BY <1>1
  <2>2. FirstFrom(s, i + 1, LAMBDA m : m.role \notin {"tool", "system"}) = end
    BY <2>1, Searches, Zenon
  <2> QED
    BY <2>2, Zenon DEF AnsweredIds
<1>4. \A k \in 1..Len(s) : k \in J <=> s[k].role \in Speakers
  BY DEF Having
<1> HIDE DEF end, J
<1>5. ASSUME NEW j \in (i + 1)..Len(s), Answers(s, i, j) PROVE s[j].id \in AnsweredIds(s, i)
  <2>1. s[j].role = "tool" /\ \A k \in (i + 1)..(j - 1) : s[k].role \in {"tool", "system"}
    BY <1>5 DEF Answers
  <2>2. end > j
    <3> SUFFICES ASSUME end <= j PROVE FALSE
      BY <1>1, <1>2
    <3>1. end \in 1..Len(s) /\ s[end].role \in Speakers
      BY <1>1, <1>2, <1>4
    <3>2. end = j \/ end \in (i + 1)..(j - 1)
      BY <1>1, <1>2
    <3> QED
      BY <2>1, <3>1, <3>2 DEF Speakers
  <2>3. j \in (i + 1)..(end - 1)
    BY <1>1, <1>2, <2>2
  <2> QED
    BY <1>3, <2>1, <2>3
<1>6. ASSUME NEW c \in ToSet(s[i].calls), c \in AnsweredIds(s, i)
      PROVE  \E j \in (i + 1)..Len(s) : Answers(s, i, j) /\ s[j].id = c
  <2>1. PICK j \in (i + 1)..(end - 1) : s[j].role = "tool" /\ s[j].id = c
    BY <1>3, <1>6
  <2>2. j \in (i + 1)..Len(s)
    BY <1>1, <1>2
  <2>3. ASSUME NEW k \in (i + 1)..(j - 1) PROVE s[k].role \in {"tool", "system"}
    <3>1. k \in 1..Len(s) /\ k \in (i + 1)..Len(s) /\ k < end
      BY <1>1, <1>2, <2>1, <2>3
    <3> QED
      BY <1>1, <1>2, <1>4, <3>1 DEF Roles, Speakers
  <2> QED
    BY <2>1, <2>2, <2>3 DEF Answers
<1> QED
  BY <1>5, <1>6

\* A result right behind a summary.
ResultBehind(s) ==
    \E i \in 2..Len(s) :
        s[i].role = "tool" /\ s[i - 1].role = "system" /\ "summary" \in s[i - 1].labels

\* With results filled in, every call is answered once; a result without a call
\* is one that the list had.
LEMMA FillSound ==
    ASSUME NEW M, Listable(M), NEW s \in Seq(M), Sound(s)
    PROVE  /\ FillResults(s) \in Seq(M)
           /\ Answered(FillResults(s)) /\ OneAnswer(FillResults(s))
           /\ Called(s) => Called(FillResults(s))
           /\ ResultBehind(s) => ResultBehind(FillResults(s))
<1> DEFINE r == FillResults(s)
<1>1. r \in Seq(M)
  BY FillResultsTypes
<1>2. PICK o, h : Spread(o, h, r, s, Len(s))
  BY FillSpreads DEF Sound
<1> HIDE DEF r
<1>3. Len(s) \in Nat /\ Len(r) \in Nat
  BY <1>1, Typed
<1> DEFINE n == Len(s)
           m == Len(r)
<1>4. /\ o \in [1..m -> 1..n] /\ h \in [1..n -> 1..m]
      /\ \A p, q \in 1..m : p <= q => o[p] <= o[q]
      /\ \A i \in 1..n : o[h[i]] = i /\ r[h[i]] = s[i]
      /\ \A p \in 1..m : p = h[o[p]] \/ (h[o[p]] < p /\ FillsIn(r[p], s, o[p]))
      /\ \A p, q \in 1..m :
           o[p] = o[q] /\ p # h[o[p]] /\ q # h[o[q]] /\ r[p].id = r[q].id => p = q
      /\ \A i \in 1..n : HasCalls(s[i]) =>
           \A c \in ToSet(s[i].calls) \ AnsweredIds(s, i) :
               \E p \in 1..m : o[p] = i /\ p # h[i] /\ r[p].id = c
  BY <1>2 DEF Spread
<1> HIDE DEF n, m
<1>5. n \in Nat /\ m \in Nat
  BY <1>3 DEF n, m
<1>6. /\ \A i, j \in 1..n : HasCalls(s[i]) /\ HasCalls(s[j]) =>
           \A c \in ToSet(s[i].calls) : c \in ToSet(s[j].calls) => i = j
      /\ \A i, j \in 1..n : HasCalls(s[i]) /\ s[j].role = "tool" /\ s[j].id \in ToSet(s[i].calls) =>
           i < j /\ Answers(s, i, j)
      /\ \A j, k \in 1..n :
           s[j].role = "tool" /\ s[k].role = "tool" /\ s[j].id = s[k].id => j = k
  BY DEF Sound, OneAnswer, OneCall, Follows, Indices, n
<1>7. ASSUME NEW i \in 1..n, NEW j \in 1..n, i < j PROVE h[i] < h[j]
  <2>1. h[i] \in 1..m /\ h[j] \in 1..m /\ o[h[i]] = i /\ o[h[j]] = j
    BY <1>4
  <2>2. ~ (h[j] <= h[i])
    BY <1>4, <1>7, <2>1
  <2> QED
    BY <2>1, <2>2
\* A result that fills in is for nobody whom s answers.
<1>8. ASSUME NEW q \in 1..m, q # h[o[q]], NEW j \in 1..n, s[j].role = "tool"
      PROVE  r[q].id # s[j].id
  <2> SUFFICES ASSUME r[q].id = s[j].id PROVE FALSE
    OBVIOUS
  <2>1. o[q] \in 1..n /\ FillsIn(r[q], s, o[q])
    BY <1>4, <1>8
  <2>2. HasCalls(s[o[q]]) /\ s[j].id \in ToSet(s[o[q]].calls) /\ s[j].id \notin AnsweredIds(s, o[q])
    BY <2>1 DEF FillsIn
  <2>3. o[q] < j /\ Answers(s, o[q], j)
    BY <1>6, <1>8, <2>1, <2>2
  <2>4. j \in (o[q] + 1)..Len(s)
    BY <1>5, <2>1, <2>3 DEF n
  <2>5. s[j].id \in AnsweredIds(s, o[q])
    <3> DEFINE i == o[q]
    <3>1. i \in 1..Len(s) /\ HasCalls(s[i]) /\ j \in (i + 1)..Len(s) /\ Answers(s, i, j)
      BY <2>1, <2>2, <2>3, <2>4 DEF n
    <3> HIDE DEF i
    <3>2. s[j].id \in AnsweredIds(s, i)
      BY <3>1, AnsweredIdsAre
    <3> QED
      BY <3>2 DEF i
  <2> QED
    BY <2>2, <2>5
<1>9. OneAnswer(r)
  <2> SUFFICES ASSUME NEW p \in 1..m, NEW q \in 1..m,
                      r[p].role = "tool", r[q].role = "tool", r[p].id = r[q].id
               PROVE  p = q
    BY DEF OneAnswer, Indices, m
  <2>1. CASE p = h[o[p]] /\ q = h[o[q]]
    <3>1. r[p] = s[o[p]] /\ r[q] = s[o[q]] /\ o[p] \in 1..n /\ o[q] \in 1..n
      BY <1>4, <2>1
    <3>2. o[p] = o[q]
      BY <1>6, <3>1
    <3> QED
      BY <2>1, <3>2
  <2>2. CASE p = h[o[p]] /\ q # h[o[q]]
    <3>1. r[p] = s[o[p]] /\ o[p] \in 1..n
      BY <1>4, <2>2
    <3> QED
      BY <1>8, <2>2, <3>1
  <2>3. CASE p # h[o[p]] /\ q = h[o[q]]
    <3>1. r[q] = s[o[q]] /\ o[q] \in 1..n
      BY <1>4, <2>3
    <3> QED
      BY <1>8, <2>3, <3>1
  <2>4. CASE p # h[o[p]] /\ q # h[o[q]]
    <3>1. FillsIn(r[p], s, o[p]) /\ FillsIn(r[q], s, o[q]) /\ o[p] \in 1..n /\ o[q] \in 1..n
      BY <1>4, <2>4
    <3>2. o[p] = o[q]
      BY <1>6, <3>1 DEF FillsIn
    <3> QED
      BY <1>4, <2>4, <3>2
  <2> QED
    BY <2>1, <2>2, <2>3, <2>4
\* What answers in s answers in r.
<1>10. ASSUME NEW i \in 1..n, NEW j \in 1..n, i < j, Answers(s, i, j)
       PROVE  h[j] \in (h[i] + 1)..m /\ Answers(r, h[i], h[j]) /\ r[h[j]].id = s[j].id
  <2>1. h[i] \in 1..m /\ h[j] \in 1..m /\ h[i] < h[j] /\ r[h[i]] = s[i] /\ r[h[j]] = s[j]
    BY <1>4, <1>7, <1>10
  <2>2. ASSUME NEW q \in (h[i] + 1)..(h[j] - 1) PROVE r[q].role \in {"tool", "system"}
    <3>1. q \in 1..m /\ h[i] < q /\ q < h[j]
      BY <1>5, <2>1, <2>2
    <3>2. o[q] \in 1..n /\ i <= o[q] /\ o[q] <= j
      BY <1>4, <2>1, <3>1
    <3>3. CASE q # h[o[q]]
      BY <1>4, <3>1, <3>3 DEF FillsIn
    <3>4. CASE q = h[o[q]]
      <4>1. o[q] # i /\ o[q] # j
        BY <3>1, <3>4
      <4>2. o[q] \in (i + 1)..(j - 1)
        BY <3>2, <4>1
      <4>3. r[q] = s[o[q]]
        BY <1>4, <3>2, <3>4
      <4> QED
        BY <1>10, <4>2, <4>3 DEF Answers
    <3> QED
      BY <3>3, <3>4
  <2> QED
    BY <1>5, <1>10, <2>1, <2>2 DEF Answers
<1>11. Answered(r)
  <2> SUFFICES ASSUME NEW p \in 1..m, HasCalls(r[p]), NEW c \in ToSet(r[p].calls)
               PROVE  \E q \in (p + 1)..m : Answers(r, p, q) /\ r[q].id = c
    BY DEF Answered, Indices, m
  <2> DEFINE i == o[p]
  <2>1. p = h[i] /\ i \in 1..n /\ r[p] = s[i]
    BY <1>4 DEF FillsIn, HasCalls
  <2> HIDE DEF i
  <2>2. CASE c \in AnsweredIds(s, i)
    <3>1. i \in 1..Len(s) /\ HasCalls(s[i]) /\ c \in ToSet(s[i].calls)
      BY <2>1 DEF n
    <3>2. PICK j \in (i + 1)..Len(s) : Answers(s, i, j) /\ s[j].id = c
      BY <2>2, <3>1, AnsweredIdsAre
    <3>3. j \in 1..n /\ i < j
      BY <1>5, <2>1 DEF n
    <3> QED
      BY <1>10, <2>1, <3>2, <3>3
  <2>3. CASE c \notin AnsweredIds(s, i)
    <3>1. PICK q \in 1..m : o[q] = i /\ q # h[i] /\ r[q].id = c
      BY <1>4, <2>1, <2>3
    <3>2. h[i] < q /\ r[q].role = "tool"
      BY <1>4, <3>1 DEF FillsIn
    <3>3. ASSUME NEW k \in (p + 1)..(q - 1) PROVE r[k].role \in {"tool", "system"}
      <4>1. k \in 1..m /\ p <= k /\ k <= q /\ k # p
        BY <1>5, <3>3
      <4>2. o[k] \in 1..n /\ o[p] <= o[k] /\ o[k] <= o[q]
        BY <1>4, <4>1
      <4>3. o[p] = i
        BY <1>4, <2>1
      <4>4. o[k] = i
        BY <2>1, <3>1, <4>2, <4>3
      <4> QED
        BY <1>4, <2>1, <4>1, <4>4 DEF FillsIn
    <3>4. q \in (p + 1)..m
      BY <1>5, <2>1, <3>2
    <3> QED
      BY <3>1, <3>2, <3>3, <3>4 DEF Answers
  <2> QED
    BY <2>2, <2>3
<1>12. ASSUME Called(s) PROVE Called(r)
  <2> SUFFICES ASSUME NEW q \in 1..m, r[q].role = "tool"
               PROVE  \E p \in 1..m : HasCalls(r[p]) /\ r[q].id \in ToSet(r[p].calls)
    BY DEF Called, Indices, m
  <2>1. CASE q # h[o[q]]
    <3>1. FillsIn(r[q], s, o[q]) /\ o[q] \in 1..n
      BY <1>4, <2>1
    <3>2. h[o[q]] \in 1..m /\ r[h[o[q]]] = s[o[q]]
      BY <1>4, <3>1
    <3> QED
      BY <3>1, <3>2 DEF FillsIn
  <2>2. CASE q = h[o[q]]
    <3>1. o[q] \in 1..n /\ r[q] = s[o[q]]
      BY <1>4, <2>2
    <3>2. PICK i \in 1..n : HasCalls(s[i]) /\ s[o[q]].id \in ToSet(s[i].calls)
      BY <1>12, <3>1 DEF Called, Indices, n
    <3>3. h[i] \in 1..m /\ r[h[i]] = s[i]
      BY <1>4
    <3> QED
      BY <3>1, <3>2, <3>3
  <2> QED
    BY <2>1, <2>2
<1>13. ASSUME ResultBehind(s) PROVE ResultBehind(r)
  <2>1. PICK i \in 2..n : s[i].role = "tool" /\ s[i - 1].role = "system" /\ "summary" \in s[i - 1].labels
    BY <1>13 DEF ResultBehind, n
  <2>2. i \in 1..n /\ i - 1 \in 1..n /\ i - 1 < i
    BY <1>5
  <2>3. /\ h[i - 1] < h[i] /\ h[i - 1] \in 1..m /\ h[i] \in 1..m
        /\ r[h[i]] = s[i] /\ r[h[i - 1]] = s[i - 1] /\ o[h[i - 1]] = i - 1 /\ o[h[i]] = i
    BY <1>4, <1>7, <2>2
  <2> DEFINE q == h[i] - 1
  <2>4. q \in 1..m /\ h[i - 1] <= q /\ q <= h[i] /\ q # h[i] /\ h[i] \in 2..m
    BY <1>5, <2>3
  <2> HIDE DEF q
  <2>5. o[q] \in 1..n /\ i - 1 <= o[q] /\ o[q] <= i
    BY <1>4, <2>3, <2>4
  <2>6. q = h[o[q]]
    <3> SUFFICES ASSUME q # h[o[q]] PROVE FALSE
      OBVIOUS
    <3>1. h[o[q]] < q /\ HasCalls(s[o[q]])
      BY <1>4, <2>4 DEF FillsIn
    <3>2. o[q] # i
      BY <2>3, <2>4, <3>1
    <3>3. o[q] = i - 1
      BY <2>2, <2>5, <3>2
    <3> QED
      BY <2>1, <3>1, <3>3 DEF HasCalls
  <2>7. o[q] # i
    BY <2>4, <2>6
  <2>8. o[q] = i - 1
    BY <2>2, <2>5, <2>7
  <2>9. r[h[i] - 1] = s[i - 1]
    BY <2>3, <2>6, <2>8 DEF q
  <2> QED
    BY <2>1, <2>3, <2>4, <2>9 DEF ResultBehind, m
<1> QED
  BY <1>1, <1>9, <1>11, <1>12, <1>13 DEF r

-----------------------------------------------------------------------------
(* Lists put together *)

\* All ids in s are from U.
Uses(s, U) ==
    \A i \in 1..Len(s) :
        /\ s[i].role = "tool" => s[i].id \in U
        /\ HasCalls(s[i]) => \A c \in ToSet(s[i].calls) : c \in U
Distinct(s) == \A i, j \in 1..Len(s) : s[i] = s[j] => i = j
\* A result without its call has no more than other results and summaries before it.
FrontOrCalled(s) ==
    \A j \in 1..Len(s) : s[j].role = "tool" =>
        \/ \E i \in 1..Len(s) : HasCalls(s[i]) /\ s[j].id \in ToSet(s[i].calls)
        \/ \A k \in 1..(j - 1) : s[k].role \in {"tool", "system"}

\* Where the places of a \o b are.
LEMMA Places ==
    ASSUME NEW M, NEW a \in Seq(M), NEW b \in Seq(M)
    PROVE  /\ Len(a) \in Nat /\ Len(b) \in Nat /\ Len(a \o b) = Len(a) + Len(b)
           /\ \A p \in 1..Len(a) : p \in 1..Len(a \o b) /\ (a \o b)[p] = a[p]
           /\ \A p \in 1..Len(b) : Len(a) + p \in 1..Len(a \o b) /\ (a \o b)[Len(a) + p] = b[p]
           /\ \A p \in 1..Len(a \o b) :
                \/ p \in 1..Len(a) /\ (a \o b)[p] = a[p]
                \/ p > Len(a) /\ p - Len(a) \in 1..Len(b) /\ (a \o b)[p] = b[p - Len(a)]
<1>1. /\ Len(a) \in Nat /\ Len(b) \in Nat /\ Len(a \o b) = Len(a) + Len(b)
      /\ \A p \in 1..Len(a) : (a \o b)[p] = a[p]
      /\ \A p \in 1..Len(b) : (a \o b)[Len(a) + p] = b[p]
  BY Concat
<1> DEFINE t == a \o b
<1> HIDE DEF t
<1>2. \A p \in 1..Len(a) : p \in 1..Len(t) /\ t[p] = a[p]
  BY <1>1 DEF t
<1>3. \A p \in 1..Len(b) : Len(a) + p \in 1..Len(t) /\ t[Len(a) + p] = b[p]
  BY <1>1 DEF t
<1>4. ASSUME NEW p \in 1..Len(t)
      PROVE  \/ p \in 1..Len(a) /\ t[p] = a[p]
             \/ p > Len(a) /\ p - Len(a) \in 1..Len(b) /\ t[p] = b[p - Len(a)]
  <2>1. CASE p <= Len(a)
    BY <1>1, <1>2, <2>1
  <2>2. CASE ~ (p <= Len(a))
    <3>1. Len(t) = Len(a) + Len(b)
      BY <1>1 DEF t
    <3>2. p > Len(a) /\ p - Len(a) \in 1..Len(b) /\ Len(a) + (p - Len(a)) = p
      BY <1>1, <2>2, <3>1
    <3> QED
      BY <1>3, <3>2
  <2> QED
    BY <2>1, <2>2
<1> QED
  BY <1>1, <1>2, <1>3, <1>4 DEF t

LEMMA JoinedSound ==
    ASSUME NEW M, NEW a \in Seq(M), NEW b \in Seq(M), NEW U, NEW V, U \cap V = {},
           Uses(a, U), Uses(b, V), Sound(a), Sound(b)
    PROVE  Sound(a \o b)
<1> DEFINE t == a \o b
           la == Len(a)
           InA(p) == p \in 1..la /\ t[p] = a[p]
           InB(p) == p > la /\ p - la \in 1..Len(b) /\ t[p] = b[p - la]
<1>1. /\ la \in Nat /\ Len(b) \in Nat /\ Len(t) = la + Len(b)
      /\ \A p \in 1..la : p \in 1..Len(t) /\ t[p] = a[p]
      /\ \A p \in 1..Len(b) : la + p \in 1..Len(t) /\ t[la + p] = b[p]
      /\ \A p \in 1..Len(t) : InA(p) \/ InB(p)
  BY Places
<1> HIDE DEF t
\* What is called on one side is not answered or called on the other.
<1>2. ASSUME NEW p \in 1..Len(t), NEW q \in 1..Len(t), HasCalls(t[p]),
             \/ HasCalls(t[q]) /\ \E c \in ToSet(t[p].calls) : c \in ToSet(t[q].calls)
             \/ t[q].role = "tool" /\ t[q].id \in ToSet(t[p].calls)
      PROVE  (InA(p) /\ InA(q)) \/ (InB(p) /\ InB(q))
  <2>1. InA(p) \/ InB(p)
    BY <1>1
  <2>2. InA(q) \/ InB(q)
    BY <1>1
  <2>3. ASSUME InA(p), InB(q) PROVE FALSE
    BY <1>2, <2>3 DEF Uses
  <2>4. ASSUME InB(p), InA(q) PROVE FALSE
    BY <1>2, <2>4 DEF Uses
  <2> QED
    BY <2>1, <2>2, <2>3, <2>4
<1>3. OneAnswer(t)
  <2> SUFFICES ASSUME NEW p \in 1..Len(t), NEW q \in 1..Len(t),
                      t[p].role = "tool", t[q].role = "tool", t[p].id = t[q].id
               PROVE  p = q
    BY DEF OneAnswer, Indices
  <2>1. InA(p) \/ InB(p)
    BY <1>1
  <2>2. InA(q) \/ InB(q)
    BY <1>1
  <2>3. CASE InA(p) /\ InA(q)
    BY <2>3 DEF Sound, OneAnswer, Indices
  <2>4. CASE InB(p) /\ InB(q)
    <3>1. p - la = q - la
      BY <2>4 DEF Sound, OneAnswer, Indices
    <3> QED
      BY <1>1, <3>1
  <2>5. ASSUME InA(p), InB(q) PROVE FALSE
    BY <2>5 DEF Uses
  <2>6. ASSUME InB(p), InA(q) PROVE FALSE
    BY <2>6 DEF Uses
  <2> QED
    BY <2>1, <2>2, <2>3, <2>4, <2>5, <2>6
<1>4. OneCall(t)
  <2> SUFFICES ASSUME NEW p \in 1..Len(t), NEW q \in 1..Len(t), HasCalls(t[p]), HasCalls(t[q]),
                      NEW c \in ToSet(t[p].calls), c \in ToSet(t[q].calls)
               PROVE  p = q
    BY DEF OneCall, Indices
  <2>1. (InA(p) /\ InA(q)) \/ (InB(p) /\ InB(q))
    BY <1>2
  <2>2. CASE InA(p) /\ InA(q)
    BY <2>2 DEF Sound, OneCall, Indices
  <2>3. CASE InB(p) /\ InB(q)
    <3>1. p - la = q - la
      BY <2>3 DEF Sound, OneCall, Indices
    <3> QED
      BY <1>1, <3>1
  <2> QED
    BY <2>1, <2>2, <2>3
<1>5. ASSUME NEW p \in 1..Len(t), HasCalls(t[p]) PROVE CallsOnce(t[p])
  <2>1. InA(p) \/ InB(p)
    BY <1>1
  <2> QED
    BY <1>5, <2>1 DEF Sound, Indices
<1>6. Follows(t)
  <2> SUFFICES ASSUME NEW p \in 1..Len(t), NEW q \in 1..Len(t), HasCalls(t[p]),
                      t[q].role = "tool", t[q].id \in ToSet(t[p].calls)
               PROVE  p < q /\ Answers(t, p, q)
    BY DEF Follows, Indices
  <2>1. (InA(p) /\ InA(q)) \/ (InB(p) /\ InB(q))
    BY <1>2
  <2>2. CASE InA(p) /\ InA(q)
    <3>1. p < q /\ Answers(a, p, q)
      BY <2>2 DEF Sound, Follows, Indices
    <3>2. ASSUME NEW k \in (p + 1)..(q - 1) PROVE t[k].role \in {"tool", "system"}
      <4>1. k \in 1..la
        BY <1>1, <2>2
      <4> QED
        BY <1>1, <3>1, <4>1 DEF Answers
    <3> QED
      BY <3>1, <3>2 DEF Answers
  <2>3. CASE InB(p) /\ InB(q)
    <3>1. p - la < q - la /\ Answers(b, p - la, q - la)
      BY <2>3 DEF Sound, Follows, Indices
    <3>2. ASSUME NEW k \in (p + 1)..(q - 1) PROVE t[k].role \in {"tool", "system"}
      <4>1. k - la \in (p - la + 1)..(q - la - 1) /\ k - la \in 1..Len(b) /\ la + (k - la) = k
        BY <1>1, <2>3
      <4>2. t[k] = b[k - la]
        BY <1>1, <4>1
      <4> QED
        BY <3>1, <4>1, <4>2 DEF Answers
    <3>3. p < q
      BY <1>1, <3>1
    <3> QED
      BY <3>2, <3>3 DEF Answers
  <2> QED
    BY <2>1, <2>2, <2>3
<1>7. Sound(t)
  BY <1>3, <1>4, <1>5, <1>6 DEF Sound, Indices
<1> QED
  BY <1>7 DEF t

LEMMA JoinedRest ==
    ASSUME NEW M, NEW a \in Seq(M), NEW b \in Seq(M)
    PROVE  /\ \A U : Uses(a, U) /\ Uses(b, U) => Uses(a \o b, U)
           /\ FrontOrCalled(a) /\ Called(b) => FrontOrCalled(a \o b)
           /\ Called(a) /\ Called(b) => Called(a \o b)
           /\ Distinct(a) /\ Distinct(b) /\ (\A i \in 1..Len(a), j \in 1..Len(b) : a[i] # b[j]) =>
                Distinct(a \o b)
<1> DEFINE t == a \o b
           la == Len(a)
           InA(p) == p \in 1..la /\ t[p] = a[p]
           InB(p) == p > la /\ p - la \in 1..Len(b) /\ t[p] = b[p - la]
<1>1. /\ la \in Nat /\ Len(b) \in Nat /\ Len(t) = la + Len(b)
      /\ \A p \in 1..la : p \in 1..Len(t) /\ t[p] = a[p]
      /\ \A p \in 1..Len(b) : la + p \in 1..Len(t) /\ t[la + p] = b[p]
      /\ \A p \in 1..Len(t) : InA(p) \/ InB(p)
  BY Places
<1> HIDE DEF t
<1>2. ASSUME NEW U, Uses(a, U), Uses(b, U) PROVE Uses(t, U)
  BY <1>1, <1>2 DEF Uses
<1>3. ASSUME Called(b), NEW p \in 1..Len(t), InB(p), t[p].role = "tool"
      PROVE  \E i \in 1..Len(t) : HasCalls(t[i]) /\ t[p].id \in ToSet(t[i].calls)
  <2>1. PICK i \in 1..Len(b) : HasCalls(b[i]) /\ b[p - la].id \in ToSet(b[i].calls)
    BY <1>3 DEF Called, Indices
  <2> QED
    BY <1>1, <1>3, <2>1
<1>4. ASSUME FrontOrCalled(a), Called(b) PROVE FrontOrCalled(t)
  <2> SUFFICES ASSUME NEW p \in 1..Len(t), t[p].role = "tool", InA(p)
               PROVE  \/ \E i \in 1..Len(t) : HasCalls(t[i]) /\ t[p].id \in ToSet(t[i].calls)
                      \/ \A k \in 1..(p - 1) : t[k].role \in {"tool", "system"}
    BY <1>1, <1>3, <1>4 DEF FrontOrCalled
  <2>1. CASE \E i \in 1..la : HasCalls(a[i]) /\ a[p].id \in ToSet(a[i].calls)
    BY <1>1, <2>1
  <2>2. CASE \A k \in 1..(p - 1) : a[k].role \in {"tool", "system"}
    <3>1. \A k \in 1..(p - 1) : k \in 1..la
      BY <1>1
    <3> QED
      BY <1>1, <2>2, <3>1
  <2> QED
    BY <1>4, <2>1, <2>2 DEF FrontOrCalled
<1>5. ASSUME Called(a), Called(b) PROVE Called(t)
  <2> SUFFICES ASSUME NEW p \in 1..Len(t), t[p].role = "tool", InA(p)
               PROVE  \E i \in 1..Len(t) : HasCalls(t[i]) /\ t[p].id \in ToSet(t[i].calls)
    BY <1>1, <1>3, <1>5 DEF Called, Indices
  <2>1. PICK i \in 1..la : HasCalls(a[i]) /\ a[p].id \in ToSet(a[i].calls)
    BY <1>5 DEF Called, Indices
  <2> QED
    BY <1>1, <2>1
<1>6. ASSUME Distinct(a), Distinct(b), \A i \in 1..Len(a), j \in 1..Len(b) : a[i] # b[j]
      PROVE  Distinct(t)
  <2> SUFFICES ASSUME NEW p \in 1..Len(t), NEW q \in 1..Len(t), t[p] = t[q] PROVE p = q
    BY DEF Distinct
  <2>1. CASE InA(p) /\ InA(q)
    BY <1>6, <2>1 DEF Distinct
  <2>2. CASE InB(p) /\ InB(q)
    <3>1. p - la = q - la
      BY <1>6, <2>2 DEF Distinct
    <3> QED
      BY <1>1, <3>1
  <2> QED
    BY <1>1, <1>6, <2>1, <2>2
<1> QED
  BY <1>2, <1>4, <1>5, <1>6 DEF t

\* A summary between two rows.
LEMMA InsertedKeeps ==
    ASSUME NEW M, NEW a \in Seq(M), NEW b \in Seq(M), NEW x \in M, x.role = "system"
    PROVE  /\ Sound(a \o b) => Sound(Append(a, x) \o b)
           /\ FrontOrCalled(a \o b) => FrontOrCalled(Append(a, x) \o b)
           /\ Distinct(a \o b) /\ (\A i \in 1..Len(a \o b) : (a \o b)[i] # x) =>
                Distinct(Append(a, x) \o b)
<1> DEFINE s  == a \o b
           ax == Append(a, x)
           t  == ax \o b
           la == Len(a)
           Place(i) == IF i <= la THEN i ELSE i + 1
<1>1. /\ la \in Nat /\ Len(b) \in Nat /\ Len(s) = la + Len(b)
      /\ \A p \in 1..la : s[p] = a[p]
      /\ \A p \in 1..Len(b) : s[la + p] = b[p]
  BY Concat
<1>2. /\ ax \in Seq(M) /\ Len(ax) = la + 1
      /\ \A p \in 1..la : ax[p] = a[p]
      /\ ax[la + 1] = x
  BY <1>1
<1>3. /\ Len(t) = la + 1 + Len(b)
      /\ \A p \in 1..(la + 1) : t[p] = ax[p]
      /\ \A p \in 1..Len(b) : t[la + 1 + p] = b[p]
  <2>0. ax \in Seq(M)
    BY <1>2
  <2> HIDE DEF ax
  <2>1. /\ Len(t) = Len(ax) + Len(b)
        /\ \A p \in 1..Len(ax) : t[p] = ax[p]
        /\ \A p \in 1..Len(b) : t[Len(ax) + p] = b[p]
    BY <2>0, Concat
  <2> HIDE DEF t
  <2> QED
    BY <1>2, <2>1
<1> HIDE DEF s, t, ax
<1>4. \A i \in 1..Len(s) : Place(i) \in 1..Len(t) /\ Place(i) # la + 1 /\ t[Place(i)] = s[i]
  <2> SUFFICES ASSUME NEW i \in 1..Len(s)
               PROVE  Place(i) \in 1..Len(t) /\ Place(i) # la + 1 /\ t[Place(i)] = s[i]
    OBVIOUS
  <2>1. CASE i <= la
    <3>1. i \in 1..la /\ i \in 1..(la + 1) /\ Place(i) = i
      BY <1>1, <2>1
    <3> QED
      BY <1>1, <1>2, <1>3, <3>1
  <2>2. CASE ~ (i <= la)
    <3>1. i - la \in 1..Len(b) /\ Place(i) = la + 1 + (i - la) /\ i = la + (i - la)
      BY <1>1, <2>2
    <3>2. t[Place(i)] = b[i - la] /\ s[i] = b[i - la]
      BY <1>1, <1>3, <3>1
    <3> QED
      BY <1>1, <1>3, <3>1, <3>2
  <2> QED
    BY <2>1, <2>2
<1>5. \A p \in 1..Len(t) : p = la + 1 \/ \E i \in 1..Len(s) : Place(i) = p
  <2> SUFFICES ASSUME NEW p \in 1..Len(t), p # la + 1 PROVE \E i \in 1..Len(s) : Place(i) = p
    OBVIOUS
  <2>1. CASE p <= la
    <3>1. p \in 1..Len(s) /\ Place(p) = p
      BY <1>1, <1>3, <2>1
    <3> QED
      BY <3>1
  <2>2. CASE ~ (p <= la)
    <3>1. p - 1 \in 1..Len(s) /\ Place(p - 1) = p
      BY <1>1, <1>3, <2>2
    <3> QED
      BY <3>1
  <2> QED
    BY <2>1, <2>2
<1>6. \A i, j \in 1..Len(s) : (i < j <=> Place(i) < Place(j)) /\ (Place(i) = Place(j) => i = j)
  BY <1>1
<1>7. t[la + 1].role = "system" /\ t[la + 1] = x /\ ~ HasCalls(t[la + 1])
  BY <1>1, <1>2, <1>3 DEF HasCalls
<1> HIDE DEF Place
\* Whoever calls or answers was there before.
<1>8. \A p \in 1..Len(t) : HasCalls(t[p]) \/ t[p].role # "system" =>
        \E i \in 1..Len(s) : Place(i) = p /\ t[p] = s[i]
  BY <1>4, <1>5, <1>7
<1>9. ASSUME Sound(s) PROVE Sound(t)
  <2>1. OneAnswer(t)
    <3> SUFFICES ASSUME NEW p \in 1..Len(t), NEW q \in 1..Len(t),
                        t[p].role = "tool", t[q].role = "tool", t[p].id = t[q].id
                 PROVE  p = q
      BY DEF OneAnswer, Indices
    <3>1. PICK i \in 1..Len(s) : Place(i) = p /\ t[p] = s[i]
      BY <1>8
    <3>2. PICK j \in 1..Len(s) : Place(j) = q /\ t[q] = s[j]
      BY <1>8
    <3> QED
      BY <1>9, <3>1, <3>2 DEF Sound, OneAnswer, Indices
  <2>2. OneCall(t)
    <3> SUFFICES ASSUME NEW p \in 1..Len(t), NEW q \in 1..Len(t), HasCalls(t[p]), HasCalls(t[q]),
                        NEW c \in ToSet(t[p].calls), c \in ToSet(t[q].calls)
                 PROVE  p = q
      BY DEF OneCall, Indices
    <3>1. PICK i \in 1..Len(s) : Place(i) = p /\ t[p] = s[i]
      BY <1>8
    <3>2. PICK j \in 1..Len(s) : Place(j) = q /\ t[q] = s[j]
      BY <1>8
    <3> QED
      BY <1>9, <3>1, <3>2 DEF Sound, OneCall, Indices
  <2>3. ASSUME NEW p \in 1..Len(t), HasCalls(t[p]) PROVE CallsOnce(t[p])
    BY <1>8, <1>9, <2>3 DEF Sound, Indices
  <2>4. Follows(t)
    <3> SUFFICES ASSUME NEW p \in 1..Len(t), NEW q \in 1..Len(t), HasCalls(t[p]),
                        t[q].role = "tool", t[q].id \in ToSet(t[p].calls)
                 PROVE  p < q /\ Answers(t, p, q)
      BY DEF Follows, Indices
    <3>1. PICK i \in 1..Len(s) : Place(i) = p /\ t[p] = s[i]
      BY <1>8
    <3>2. PICK j \in 1..Len(s) : Place(j) = q /\ t[q] = s[j]
      BY <1>8
    <3>3. i < j /\ Answers(s, i, j)
      BY <1>9, <3>1, <3>2 DEF Sound, Follows, Indices
    <3>4. p < q
      BY <1>6, <3>1, <3>2, <3>3
    <3>5. ASSUME NEW k \in (p + 1)..(q - 1) PROVE t[k].role \in {"tool", "system"}
      <4>1. k \in 1..Len(t) /\ p < k /\ k < q
        BY <1>1, <1>3, <3>5
      <4>2. CASE k = la + 1
        BY <1>7, <4>2
      <4>3. CASE k # la + 1
        <5>1. PICK l \in 1..Len(s) : Place(l) = k
          BY <1>5, <4>1, <4>3
        <5>2. l \in (i + 1)..(j - 1) /\ t[k] = s[l]
          BY <1>1, <1>4, <1>6, <3>1, <3>2, <4>1, <5>1
        <5> QED
          BY <3>3, <5>2 DEF Answers
      <4> QED
        BY <4>2, <4>3
    <3> QED
      BY <3>4, <3>5 DEF Answers
  <2> QED
    BY <2>1, <2>2, <2>3, <2>4 DEF Sound, Indices
<1>10. ASSUME FrontOrCalled(s) PROVE FrontOrCalled(t)
  <2> SUFFICES ASSUME NEW p \in 1..Len(t), t[p].role = "tool"
               PROVE  \/ \E i \in 1..Len(t) : HasCalls(t[i]) /\ t[p].id \in ToSet(t[i].calls)
                      \/ \A k \in 1..(p - 1) : t[k].role \in {"tool", "system"}
    BY DEF FrontOrCalled
  <2>1. PICK j \in 1..Len(s) : Place(j) = p /\ t[p] = s[j]
    BY <1>8
  <2>2. CASE \E i \in 1..Len(s) : HasCalls(s[i]) /\ s[j].id \in ToSet(s[i].calls)
    BY <1>4, <2>1, <2>2
  <2>3. CASE \A k \in 1..(j - 1) : s[k].role \in {"tool", "system"}
    <3> SUFFICES ASSUME NEW k \in 1..(p - 1), k # la + 1 PROVE t[k].role \in {"tool", "system"}
      BY <1>7
    <3>1. k \in 1..Len(t) /\ k < p
      BY <1>1, <1>3
    <3>2. PICK l \in 1..Len(s) : Place(l) = k
      BY <1>5, <3>1
    <3>3. l \in 1..(j - 1) /\ t[k] = s[l]
      BY <1>1, <1>4, <1>6, <2>1, <3>1, <3>2
    <3> QED
      BY <2>3, <3>3
  <2> QED
    BY <1>10, <2>1, <2>2, <2>3 DEF FrontOrCalled
<1>11. ASSUME Distinct(s), \A i \in 1..Len(s) : s[i] # x PROVE Distinct(t)
  <2> SUFFICES ASSUME NEW p \in 1..Len(t), NEW q \in 1..Len(t), t[p] = t[q] PROVE p = q
    BY DEF Distinct
  <2>1. CASE p = la + 1
    BY <1>4, <1>5, <1>7, <1>11, <2>1
  <2>2. CASE q = la + 1
    BY <1>4, <1>5, <1>7, <1>11, <2>2
  <2>3. CASE p # la + 1 /\ q # la + 1
    <3>1. PICK i \in 1..Len(s) : Place(i) = p
      BY <1>5, <2>3
    <3>2. PICK j \in 1..Len(s) : Place(j) = q
      BY <1>5, <2>3
    <3> QED
      BY <1>4, <1>11, <3>1, <3>2 DEF Distinct
  <2> QED
    BY <2>1, <2>2, <2>3
<1> QED
  BY <1>9, <1>10, <1>11 DEF s, t, ax

\* The first row goes.
LEMMA TailKeeps ==
    ASSUME NEW M, Listable(M), NEW s \in Seq(M), s # <<>>
    PROVE  /\ Tail(s) \in Seq(M)
           /\ Sound(s) => Sound(Tail(s))
           /\ Sound(s) /\ FrontOrCalled(s) => FrontOrCalled(Tail(s))
           /\ Distinct(s) => Distinct(Tail(s))
<1> DEFINE t == Tail(s)
           g == [i \in 1..Len(t) |-> i + 1]
<1>1. /\ t \in Seq(M) /\ Len(s) \in Nat \ {0} /\ Len(t) = Len(s) - 1
      /\ \A i \in 1..Len(t) : t[i] = s[i + 1]
  OBVIOUS
<1> HIDE DEF t
<1>2. Thins(g, t, s)
  <2>1. \A i \in 1..Len(t) : i + 1 \in 1..Len(s)
    BY <1>1
  <2> QED
    BY <1>1, <2>1 DEF Thins, Increasing
<1>3. ASSUME Sound(s) PROVE Sound(t)
  BY <1>1, <1>2, <1>3, ThinnedSound
<1>4. ASSUME Sound(s), FrontOrCalled(s) PROVE FrontOrCalled(t)
  <2> SUFFICES ASSUME NEW j \in 1..Len(t), t[j].role = "tool"
               PROVE  \/ \E i \in 1..Len(t) : HasCalls(t[i]) /\ t[j].id \in ToSet(t[i].calls)
                      \/ \A k \in 1..(j - 1) : t[k].role \in {"tool", "system"}
    BY DEF FrontOrCalled
  <2>1. j + 1 \in 1..Len(s) /\ s[j + 1] = t[j]
    BY <1>1
  <2>2. CASE \E i \in 1..Len(s) : HasCalls(s[i]) /\ s[j + 1].id \in ToSet(s[i].calls)
    <3>1. PICK i \in 1..Len(s) : HasCalls(s[i]) /\ s[j + 1].id \in ToSet(s[i].calls)
      BY <2>2
    <3>2. CASE i = 1
      <4>1. Answers(s, 1, j + 1)
        BY <1>4, <2>1, <3>1, <3>2 DEF Sound, Follows, Indices
      <4>2. \A k \in 1..(j - 1) : k \in 1..Len(t) /\ k + 1 \in 2..j
        BY <1>1
      <4>3. \A k \in 2..j : s[k].role \in {"tool", "system"}
        BY <4>1 DEF Answers
      <4> QED
        BY <1>1, <4>2, <4>3
    <3>3. CASE i # 1
      <4>1. i - 1 \in 1..Len(t) /\ (i - 1) + 1 = i
        BY <1>1, <3>3
      <4>2. t[i - 1] = s[i]
        BY <1>1, <4>1
      <4> QED
        BY <2>1, <3>1, <4>1, <4>2
    <3> QED
      BY <3>2, <3>3
  <2>3. CASE \A k \in 1..((j + 1) - 1) : s[k].role \in {"tool", "system"}
    <3>1. \A k \in 1..(j - 1) : k \in 1..Len(t) /\ k + 1 \in 1..((j + 1) - 1)
      BY <1>1
    <3> QED
      BY <1>1, <2>3, <3>1
  <2> QED
    BY <1>4, <2>1, <2>2, <2>3 DEF FrontOrCalled
<1>5. ASSUME Distinct(s) PROVE Distinct(t)
  <2> SUFFICES ASSUME NEW i \in 1..Len(t), NEW j \in 1..Len(t), t[i] = t[j] PROVE i = j
    BY DEF Distinct
  <2>1. i + 1 = j + 1
    BY <1>1, <1>5 DEF Distinct
  <2> QED
    BY <2>1
<1> QED
  BY <1>1, <1>3, <1>4, <1>5 DEF t

\* What comes last is lost.
LEMMA FrontKeeps ==
    ASSUME NEW M, Listable(M), NEW a \in Seq(M), NEW b \in Seq(M)
    PROVE  /\ Sound(a \o b) => Sound(a)
           /\ Sound(a \o b) /\ FrontOrCalled(a \o b) => FrontOrCalled(a)
           /\ Distinct(a \o b) => Distinct(a)
<1> DEFINE s == a \o b
           g == [i \in 1..Len(a) |-> i]
<1>1. /\ s \in Seq(M) /\ Len(s) \in Nat /\ Len(a) \in Nat /\ Len(a) <= Len(s)
      /\ \A i \in 1..Len(a) : i \in 1..Len(s) /\ s[i] = a[i]
  <2>1. s \in Seq(M)
    OBVIOUS
  <2> QED
    BY <2>1, Places
<1> HIDE DEF s
<1>2. Thins(g, a, s)
  BY <1>1 DEF Thins, Increasing
<1>3. ASSUME Sound(s) PROVE Sound(a)
  BY <1>1, <1>2, <1>3, ThinnedSound
<1>4. ASSUME Sound(s), FrontOrCalled(s) PROVE FrontOrCalled(a)
  <2> SUFFICES ASSUME NEW j \in 1..Len(a), a[j].role = "tool"
               PROVE  \/ \E i \in 1..Len(a) : HasCalls(a[i]) /\ a[j].id \in ToSet(a[i].calls)
                      \/ \A k \in 1..(j - 1) : a[k].role \in {"tool", "system"}
    BY DEF FrontOrCalled
  <2>1. j \in 1..Len(s) /\ s[j] = a[j]
    BY <1>1
  <2>2. CASE \E i \in 1..Len(s) : HasCalls(s[i]) /\ s[j].id \in ToSet(s[i].calls)
    <3>1. PICK i \in 1..Len(s) : HasCalls(s[i]) /\ s[j].id \in ToSet(s[i].calls)
      BY <2>2
    <3>2. i < j
      BY <1>4, <2>1, <3>1 DEF Sound, Follows, Indices
    <3>3. i \in 1..Len(a)
      BY <1>1, <3>2
    <3> QED
      BY <1>1, <2>1, <3>1, <3>3
  <2>3. CASE \A k \in 1..(j - 1) : s[k].role \in {"tool", "system"}
    <3>1. \A k \in 1..(j - 1) : k \in 1..Len(a)
      BY <1>1
    <3> QED
      BY <1>1, <2>3, <3>1
  <2> QED
    BY <1>4, <2>1, <2>2, <2>3 DEF FrontOrCalled
<1>5. ASSUME Distinct(s) PROVE Distinct(a)
  BY <1>1, <1>5 DEF Distinct
<1> QED
  BY <1>3, <1>4, <1>5 DEF s

-----------------------------------------------------------------------------
(* The rows of a turn *)

OwnIds(t) == {<<t, k, i>> : k \in Nat, i \in Nat}
RoundIds(t, k) == {<<t, k, i>> : i \in Nat}
IdsUpTo(t, n) == {<<t, k, i>> : k \in 1..n, i \in Nat}
RowIds == {NoId} \cup UNION {OwnIds(t) : t \in Turns}
RowLabels ==
    Turns \cup Texts \cup Compactors \cup
        {"question", "blank", "summary", "prompt", "recap", "shift", "synthetic"}
AllRows == MessageSet(RowIds, RowLabels)

\* A message of turn t behind its question.
OwnRow(m, t) ==
    /\ m.role \in {"assistant", "tool"}
    /\ m.labels \cap Turns = {t}
    /\ m.role = "tool" => m.id \in OwnIds(t)
    /\ HasCalls(m) => \A c \in ToSet(m.calls) : c \in OwnIds(t)
OwnRows(s, t) == \A i \in 1..Len(s) : OwnRow(s[i], t)
AllCall(s) == \A i \in 1..Len(s) : s[i].role = "assistant" => HasCalls(s[i])

LEMMA RowsListable == Listable(AllRows)
<1>1. NoId \in RowIds /\ "synthetic" \in RowLabels
  BY DEF RowIds, RowLabels
<1> QED
  BY <1>1 DEF Listable, AllRows

LEMMA RowIs ==
    ASSUME NEW role \in Roles, NEW calls \in Seq(RowIds), NEW id \in RowIds, NEW size \in Nat,
           NEW t \in Turns, NEW text \in RowLabels
    PROVE  /\ Row(role, calls, id, size, t, text) \in AllRows
           /\ Row(role, calls, id, size, t, text).role = role
           /\ Row(role, calls, id, size, t, text).calls = calls
           /\ Row(role, calls, id, size, t, text).id = id
           /\ Row(role, calls, id, size, t, text).labels = {t, text}
<1>1. {t, text} \in SUBSET RowLabels
  BY DEF RowLabels
<1> HIDE DEF RowIds, RowLabels
<1> QED
  BY <1>1 DEF Row, Message, AllRows, MessageSet, Roles

LEMMA TextsAreNoTurns ==
    /\ \A t \in Turns, x \in Texts \cup {"blank"} : {t, x} \cap Turns = {t}
    /\ \A x \in Texts \cup {"question", "blank", "summary"} : x \in RowLabels
<1>1. \A x \in Texts \cup {"blank"} : x \notin Turns
  BY HistoryAssumption DEF HistoryAssumption
<1> QED
  BY <1>1 DEF RowLabels

LEMMA ExchangeIs ==
    ASSUME NEW t \in Turns, NEW k \in Nat, NEW outputs \in Seq(Outputs), outputs # <<>>
    PROVE  /\ Exchange(t, k, outputs) \in Seq(AllRows)
           /\ Sound(Exchange(t, k, outputs)) /\ Called(Exchange(t, k, outputs))
           /\ Distinct(Exchange(t, k, outputs))
           /\ Uses(Exchange(t, k, outputs), RoundIds(t, k))
           /\ OwnRows(Exchange(t, k, outputs), t) /\ AllCall(Exchange(t, k, outputs))
<1> DEFINE n == Len(outputs)
           ids == [i \in 1..n |-> <<t, k, i>>]
           head == Row("assistant", ids, NoId, 1, t, "blank")
           Own(i) == Row("tool", <<>>, ids[i], outputs[i].size, t, outputs[i].text)
           results == [i \in 1..n |-> Own(i)]
           e == <<head>> \o results
<1>1. n \in Nat /\ n >= 1 /\ \A i \in 1..n : outputs[i] \in Outputs
  BY SeqElements
<1>2. \A i \in 1..n : outputs[i].size \in Nat /\ outputs[i].text \in Texts
  BY <1>1, HistoryAssumption DEF HistoryAssumption, Texts
<1> HIDE DEF n
<1>3. \A i \in 1..n : <<t, k, i>> \in RowIds
  BY <1>1 DEF RowIds, OwnIds
<1>4. ids \in Seq(RowIds) /\ Len(ids) = n /\ \A i \in 1..n : ids[i] = <<t, k, i>> /\ ids[i] \in RowIds
  <2> HIDE DEF RowIds
  <2> QED
    BY <1>1, <1>3
<1>5. \A c : c \in ToSet(ids) <=> \E i \in 1..n : c = <<t, k, i>>
  BY <1>4 DEF ToSet
<1> HIDE DEF ids
<1>6. /\ head \in AllRows /\ head.role = "assistant" /\ head.calls = ids /\ head.labels \cap Turns = {t}
  <2>1. "assistant" \in Roles /\ NoId \in RowIds /\ 1 \in Nat /\ "blank" \in RowLabels
    BY DEF Roles, RowIds, RowLabels
  <2>2. {t, "blank"} \cap Turns = {t}
    BY TextsAreNoTurns
  <2> QED
    BY <1>4, <2>1, <2>2, RowIs
<1>7. ASSUME NEW i \in 1..n
      PROVE  /\ Own(i) \in AllRows /\ Own(i).role = "tool" /\ Own(i).calls = <<>>
             /\ Own(i).id = <<t, k, i>> /\ Own(i).labels \cap Turns = {t}
  <2> DEFINE size == outputs[i].size
             text == outputs[i].text
             none == <<>>
             m == Row("tool", none, ids[i], size, t, text)
  <2>1. "tool" \in Roles /\ none \in Seq(RowIds) /\ ids[i] \in RowIds /\ size \in Nat
        /\ text \in RowLabels
    BY <1>2, <1>4, TextsAreNoTurns DEF Roles
  <2>2. {t, text} \cap Turns = {t}
    BY <1>2, TextsAreNoTurns
  <2>3. Own(i) = m
    BY Zenon
  <2> HIDE DEF size, text, none, Own
  <2>4. /\ m \in AllRows /\ m.role = "tool" /\ m.calls = none
        /\ m.id = ids[i] /\ m.labels = {t, text}
    BY <2>1, RowIs
  <2> QED
    BY <1>4, <2>2, <2>3, <2>4 DEF none
<1> HIDE DEF head, Own
<1>8. results \in Seq(AllRows) /\ Len(results) = n /\ \A i \in 1..n : results[i] = Own(i)
  BY <1>1, <1>7
<1> HIDE DEF results
<1>9. <<head>> \in Seq(AllRows) /\ Len(<<head>>) = 1 /\ <<head>>[1] = head
  BY <1>6
<1>10. e \in Seq(AllRows) /\ Len(e) = n + 1 /\ e[1] = head /\ \A i \in 1..n : e[1 + i] = Own(i)
  <2>1. /\ e \in Seq(AllRows) /\ Len(e) = Len(<<head>>) + Len(results)
        /\ \A i \in 1..Len(<<head>>) : e[i] = <<head>>[i]
        /\ \A i \in 1..Len(results) : e[Len(<<head>>) + i] = results[i]
    BY <1>8, <1>9, Concat
  <2>2. 1 \in 1..Len(<<head>>)
    BY <1>9
  <2> HIDE DEF e
  <2> QED
    BY <1>1, <1>8, <1>9, <2>1, <2>2
<1>11. Exchange(t, k, outputs) = e
  BY Zenon DEF Exchange, e, results, Own, head, ids, n, Indices
<1> HIDE DEF e
<1>12. /\ HasCalls(e[1]) /\ e[1].role = "assistant" /\ e[1].calls = ids
       /\ \A p \in 2..(n + 1) : /\ e[p] \in AllRows /\ e[p].role = "tool" /\ ~ HasCalls(e[p])
                                /\ e[p].id = <<t, k, p - 1>> /\ p - 1 \in 1..n
                                /\ e[p].labels \cap Turns = {t}
  <2>1. HasCalls(e[1])
    BY <1>1, <1>4, <1>6, <1>10 DEF HasCalls
  <2>2. ASSUME NEW p \in 2..(n + 1)
        PROVE  /\ e[p] \in AllRows /\ e[p].role = "tool" /\ ~ HasCalls(e[p])
               /\ e[p].id = <<t, k, p - 1>> /\ p - 1 \in 1..n /\ e[p].labels \cap Turns = {t}
    <3>1. p - 1 \in 1..n /\ 1 + (p - 1) = p
      BY <1>1
    <3>2. e[p] = Own(p - 1)
      BY <1>10, <3>1
    <3> QED
      BY <1>7, <3>1, <3>2 DEF HasCalls
  <2> QED
    BY <1>6, <1>10, <2>1, <2>2
<1>13. \A p \in 1..Len(e) : p = 1 \/ p \in 2..(n + 1)
  BY <1>1, <1>10
<1>14. Sound(e)
  <2>1. OneAnswer(e)
    <3> SUFFICES ASSUME NEW p \in 1..Len(e), NEW q \in 1..Len(e),
                        e[p].role = "tool", e[q].role = "tool", e[p].id = e[q].id
                 PROVE  p = q
      BY DEF OneAnswer, Indices
    <3>1. p \in 2..(n + 1) /\ q \in 2..(n + 1)
      BY <1>12, <1>13
    <3>2. <<t, k, p - 1>> = <<t, k, q - 1>>
      BY <1>12, <3>1
    <3>3. p - 1 = q - 1
      BY <3>2
    <3> QED
      BY <1>1, <3>1, <3>3
  <2>2. OneCall(e)
    BY <1>12, <1>13 DEF OneCall, Indices
  <2>3. ASSUME NEW p \in 1..Len(e), HasCalls(e[p]) PROVE CallsOnce(e[p])
    <3>1. e[p].calls = ids
      BY <1>12, <1>13, <2>3
    <3> QED
      BY <1>4, <3>1 DEF CallsOnce, Indices
  <2>4. Follows(e)
    <3> SUFFICES ASSUME NEW p \in 1..Len(e), NEW q \in 1..Len(e), HasCalls(e[p]),
                        e[q].role = "tool", e[q].id \in ToSet(e[p].calls)
                 PROVE  p < q /\ Answers(e, p, q)
      BY DEF Follows, Indices
    <3>1. p = 1 /\ q \in 2..(n + 1)
      BY <1>12, <1>13
    <3>2. ASSUME NEW l \in (p + 1)..(q - 1) PROVE e[l].role \in {"tool", "system"}
      <4>1. l \in 2..(n + 1)
        BY <1>1, <3>1
      <4> QED
        BY <1>12, <4>1
    <3>3. p < q
      BY <3>1
    <3> QED
      BY <3>2, <3>3 DEF Answers
  <2> QED
    BY <2>1, <2>2, <2>3, <2>4 DEF Sound, Indices
<1>15. Called(e)
  <2> SUFFICES ASSUME NEW p \in 1..Len(e), e[p].role = "tool"
               PROVE  HasCalls(e[1]) /\ e[p].id \in ToSet(e[1].calls) /\ 1 \in 1..Len(e)
    BY Zenon DEF Called, Indices
  <2>1. p \in 2..(n + 1)
    BY <1>12, <1>13
  <2> QED
    <3>1. e[p].id = <<t, k, p - 1>> /\ p - 1 \in 1..n
      BY <1>12, <2>1
    <3>2. e[p].id \in ToSet(ids)
      BY <1>5, <3>1
    <3> QED
      BY <1>1, <1>10, <1>12, <3>2
<1>16. Distinct(e)
  <2> SUFFICES ASSUME NEW p \in 1..Len(e), NEW q \in 1..Len(e), e[p] = e[q] PROVE p = q
    BY DEF Distinct
  <2>1. CASE p = 1 \/ q = 1
    BY <1>12, <1>13, <2>1
  <2>2. CASE p # 1 /\ q # 1
    <3>1. p \in 2..(n + 1) /\ q \in 2..(n + 1)
      BY <1>13, <2>2
    <3>2. <<t, k, p - 1>> = <<t, k, q - 1>>
      BY <1>12, <3>1
    <3>3. p - 1 = q - 1
      BY <3>2
    <3> QED
      BY <1>1, <3>1, <3>3
  <2> QED
    BY <2>1, <2>2
<1>17. \A c \in ToSet(ids) : c \in RoundIds(t, k) /\ c \in OwnIds(t)
  BY <1>1, <1>5 DEF RoundIds, OwnIds
<1>18. \A p \in 2..(n + 1) : e[p].id \in RoundIds(t, k) /\ e[p].id \in OwnIds(t)
  <2> SUFFICES ASSUME NEW p \in 2..(n + 1)
               PROVE  e[p].id \in RoundIds(t, k) /\ e[p].id \in OwnIds(t)
    OBVIOUS
  <2>1. e[p].id = <<t, k, p - 1>> /\ p - 1 \in Nat
    BY <1>1, <1>12
  <2> QED
    BY <2>1 DEF RoundIds, OwnIds
<1>19. Uses(e, RoundIds(t, k))
  BY <1>12, <1>13, <1>17, <1>18 DEF Uses
<1>20. OwnRows(e, t)
  <2> SUFFICES ASSUME NEW p \in 1..Len(e) PROVE OwnRow(e[p], t)
    BY DEF OwnRows
  <2>1. CASE p = 1
    BY <1>6, <1>10, <1>12, <1>17, <2>1 DEF OwnRow
  <2>2. CASE p \in 2..(n + 1)
    BY <1>12, <1>18, <2>2 DEF OwnRow
  <2> QED
    BY <1>13, <2>1, <2>2
<1>21. AllCall(e)
  BY <1>12, <1>13 DEF AllCall
<1> QED
  BY <1>10, <1>11, <1>14, <1>15, <1>16, <1>19, <1>20, <1>21

GoodRows(s, t, U) ==
    /\ s \in Seq(AllRows) /\ Sound(s) /\ Called(s) /\ Distinct(s)
    /\ Uses(s, U) /\ OwnRows(s, t) /\ AllCall(s)

LEMMA GoodJoined ==
    ASSUME NEW t, NEW a, NEW b, NEW U, NEW V, U \cap V = {}, GoodRows(a, t, U), GoodRows(b, t, V)
    PROVE  GoodRows(a \o b, t, U \cup V)
<1> DEFINE M == AllRows
           s == a \o b
           W == U \cup V
<1>1. a \in Seq(M) /\ b \in Seq(M) /\ s \in Seq(M)
  <2>1. a \in Seq(M) /\ b \in Seq(M)
    BY DEF GoodRows
  <2> HIDE DEF M
  <2> QED
    BY <2>1
<1>2. /\ Len(a) \in Nat /\ Len(b) \in Nat
      /\ \A p \in 1..Len(s) :
           \/ p \in 1..Len(a) /\ s[p] = a[p]
           \/ p > Len(a) /\ p - Len(a) \in 1..Len(b) /\ s[p] = b[p - Len(a)]
  <2> HIDE DEF M
  <2> QED
    BY <1>1, Places
<1>3. Sound(s)
  <2> HIDE DEF M
  <2>1. Uses(a, U) /\ Uses(b, V) /\ Sound(a) /\ Sound(b)
    BY DEF GoodRows
  <2> QED
    BY <1>1, <2>1, JoinedSound
<1>4. ASSUME NEW i \in 1..Len(a), NEW j \in 1..Len(b), a[i] = b[j] PROVE FALSE
  <2>1. OwnRow(a[i], t) /\ (a[i].role = "assistant" => HasCalls(a[i])) /\ a[i] \in AllRows
    <3>1. a[i] \in M
      <4> HIDE DEF M
      <4> QED
        BY <1>1, SeqElements
    <3> QED
      BY <3>1 DEF GoodRows, OwnRows, AllCall
  <2>2. CASE a[i].role = "tool"
    BY <1>4, <2>2 DEF GoodRows, Uses
  <2>3. CASE HasCalls(a[i])
    <3>1. a[i].calls \in Seq(RowIds) /\ a[i].calls # <<>>
      <4> HIDE DEF RowIds, RowLabels
      <4> QED
        BY <2>1, <2>3 DEF AllRows, MessageSet, HasCalls
    <3> DEFINE calls == a[i].calls
    <3>2. 1 \in 1..Len(calls)
      <4> HIDE DEF calls
      <4>1. calls \in Seq(RowIds) /\ calls # <<>>
        BY <3>1 DEF calls
      <4> QED
        BY <4>1
    <3>3. calls[1] \in ToSet(calls)
      BY <3>2 DEF ToSet
    <3> QED
      BY <1>4, <2>3, <3>3 DEF GoodRows, Uses
  <2> QED
    BY <2>1, <2>2, <2>3 DEF OwnRow
<1>5. Uses(a, W) /\ Uses(b, W)
  BY DEF GoodRows, Uses
<1> HIDE DEF W
<1>6. Uses(s, W) /\ Called(s) /\ Distinct(s)
  <2> HIDE DEF M
  <2>1. Called(a) /\ Called(b) /\ Distinct(a) /\ Distinct(b)
    BY DEF GoodRows
  <2> QED
    BY <1>1, <1>4, <1>5, <2>1, JoinedRest
<1> HIDE DEF s
<1>7. OwnRows(s, t) /\ AllCall(s)
  BY <1>2 DEF GoodRows, OwnRows, AllCall
<1> QED
  BY <1>1, <1>3, <1>6, <1>7 DEF GoodRows, s, W

LEMMA RoundsAre ==
    ASSUME NEW t \in Turns, NEW n \in Nat, NEW outputs,
           \A k \in 1..n : outputs[k] \in Seq(Outputs) /\ outputs[k] # <<>>
    PROVE  GoodRows(FlattenSeq([k \in 1..n |-> Exchange(t, k, outputs[k])]), t, IdsUpTo(t, n))
<1> DEFINE M == AllRows
           V == Seq(M)
           seqs == [k \in 1..n |-> Exchange(t, k, outputs[k])]
<1>1. \A k \in 1..n : GoodRows(Exchange(t, k, outputs[k]), t, RoundIds(t, k))
  <2> SUFFICES ASSUME NEW k \in 1..n PROVE GoodRows(Exchange(t, k, outputs[k]), t, RoundIds(t, k))
    OBVIOUS
  <2> DEFINE out == outputs[k]
  <2>1. out \in Seq(Outputs) /\ out # <<>> /\ k \in Nat
    OBVIOUS
  <2> HIDE DEF out
  <2>2. GoodRows(Exchange(t, k, out), t, RoundIds(t, k))
    BY <2>1, ExchangeIs DEF GoodRows
  <2> QED
    BY <2>2 DEF out
<1>2. \A k \in 1..n : Exchange(t, k, outputs[k]) \in V
  BY <1>1 DEF GoodRows
<1>3. seqs \in Seq(V) /\ Len(seqs) = n /\ \A k \in 1..n : seqs[k] = Exchange(t, k, outputs[k])
  <2> HIDE DEF V
  <2> QED
    BY <1>2
<1> HIDE DEF seqs
<1>4. PICK f \in [0..n -> V] :
         /\ f[0] = <<>> /\ \A i \in 1..n : f[i] = f[i - 1] \o seqs[i]
         /\ FlattenSeq(seqs) = f[n]
  <2>1. seqs \in Seq(Seq(M))
    BY <1>3 DEF V
  <2> HIDE DEF M
  <2>2. PICK f \in [0..Len(seqs) -> Seq(M)] :
           /\ f[0] = <<>> /\ \A i \in 1..Len(seqs) : f[i] = f[i - 1] \o seqs[i]
           /\ FlattenSeq(seqs) = f[Len(seqs)]
    BY <2>1, Flattened
  <2> QED
    BY <1>3, <2>2, Zenon DEF V
<1> DEFINE Done(k) == GoodRows(f[k], t, IdsUpTo(t, k))
           P == {k \in 0..n : Done(k)}
<1>5. Done(0)
  <2> DEFINE e == <<>>
  <2>1. e \in V /\ Len(e) = 0
    OBVIOUS
  <2>2. f[0] = e
    BY <1>4
  <2> HIDE DEF e
  <2>3. /\ Sound(e) /\ Called(e) /\ Distinct(e) /\ Uses(e, IdsUpTo(t, 0))
        /\ OwnRows(e, t) /\ AllCall(e)
    BY <2>1 DEF Sound, OneAnswer, OneCall, Follows, Called, Distinct, Uses, OwnRows, AllCall, Indices
  <2> QED
    BY <2>1, <2>2, <2>3 DEF GoodRows
<1>6. ASSUME NEW k \in 1..n, Done(k - 1) PROVE Done(k)
  <2> DEFINE a == f[k - 1]
             b == seqs[k]
             U == IdsUpTo(t, k - 1)
             W == RoundIds(t, k)
  <2>1. GoodRows(a, t, U) /\ GoodRows(b, t, W)
    BY <1>1, <1>3, <1>6
  <2>2. U \cap W = {}
    BY DEF IdsUpTo, RoundIds
  <2>3. U \cup W = IdsUpTo(t, k)
    <3>1. \A x \in U : x \in IdsUpTo(t, k)
      BY DEF IdsUpTo
    <3>2. \A x \in W : x \in IdsUpTo(t, k)
      BY DEF IdsUpTo, RoundIds
    <3>3. ASSUME NEW x \in IdsUpTo(t, k) PROVE x \in U \cup W
      <4>1. PICK l \in 1..k, i \in Nat : x = <<t, l, i>>
        BY <3>3 DEF IdsUpTo
      <4>2. CASE l = k
        BY <4>1, <4>2 DEF RoundIds
      <4>3. CASE l # k
        <5>1. l \in 1..(k - 1)
          BY <4>3
        <5> QED
          BY <4>1, <5>1 DEF IdsUpTo
      <4> QED
        BY <4>2, <4>3
    <3> QED
      BY <3>1, <3>2, <3>3
  <2>4. f[k] = a \o b
    BY <1>4
  <2> HIDE DEF a, b, U, W
  <2>5. GoodRows(a \o b, t, U \cup W)
    BY <2>1, <2>2, GoodJoined
  <2> QED
    BY <2>3, <2>4, <2>5
<1>7. Done(n)
  <2> HIDE DEF Done
  <2>1. 0 \in P /\ P \in SUBSET (0..n)
    BY <1>5
  <2>2. \A k \in 1..n : k - 1 \in P => k \in P
    BY <1>6
  <2> HIDE DEF P
  <2>3. P = 0..n
    BY <2>1, <2>2, Upward
  <2>4. n \in 0..n
    OBVIOUS
  <2>5. n \in P
    BY <2>3, <2>4, Zenon
  <2> QED
    BY <2>5, Zenon DEF P
<1> QED
  BY <1>4, <1>7 DEF seqs

LEMMA RowsOfIs ==
    ASSUME NEW t \in Turns, NEW x \in RowsOf(t)
    PROVE  /\ x \in Seq(AllRows) /\ Sound(x) /\ Called(x) /\ Distinct(x)
           /\ Uses(x, OwnIds(t)) /\ OwnRows(x, t) /\ x # <<>>
<1>1. PICK outputs \in UNION {RoundsOf(batch) : batch \in Batches}, final \in Finals :
        x = TurnRows(t, outputs, final)
  BY DEF RowsOf
<1>2. PICK batch \in Batches : outputs \in RoundsOf(batch)
  BY <1>1
<1> DEFINE last == Row("assistant", <<>>, NoId, 1, t, final)
           a == FlattenSeq([k \in 1..Len(batch) |-> Exchange(t, k, outputs[k])])
           b == <<last>>
           M == AllRows
<1>3. Len(batch) \in Nat /\ \A k \in 1..Len(batch) : batch[k] \in Nat \ {0}
  <2>1. batch \in Seq(Nat \ {0})
    BY HistoryAssumption DEF HistoryAssumption
  <2> QED
    BY <2>1
<1>4. ASSUME NEW k \in 1..Len(batch) PROVE outputs[k] \in Seq(Outputs) /\ outputs[k] # <<>>
  <2>1. /\ outputs[k] \in UNION {[1..n -> Outputs] : n \in ToSet(batch)}
        /\ Len(outputs[k]) = batch[k]
    <3> DEFINE Sets == UNION {[1..n -> Outputs] : n \in ToSet(batch)}
    <3>1. /\ outputs \in [1..Len(batch) -> Sets]
          /\ \A l \in 1..Len(batch) : Len(outputs[l]) = batch[l]
      BY <1>2, Zenon DEF RoundsOf, Indices
    <3> HIDE DEF Sets
    <3>2. outputs[k] \in Sets /\ Len(outputs[k]) = batch[k]
      BY <3>1
    <3> QED
      BY <3>2 DEF Sets
  <2>2. PICK n \in ToSet(batch) : outputs[k] \in [1..n -> Outputs]
    BY <2>1
  <2>3. n \in Nat
    BY <1>3, <2>2 DEF ToSet
  <2>4. outputs[k] \in Seq(Outputs)
    BY <2>2, <2>3
  <2> QED
    BY <1>3, <2>1, <2>4
<1>5. GoodRows(a, t, IdsUpTo(t, Len(batch)))
  BY <1>3, <1>4, RoundsAre
<1> HIDE DEF a
<1>6. /\ last \in M /\ last.role = "assistant" /\ last.calls = <<>> /\ last.labels \cap Turns = {t}
      /\ ~ HasCalls(last)
  <2> DEFINE none == <<>>
             m == Row("assistant", none, NoId, 1, t, final)
  <2>1. "assistant" \in Roles /\ none \in Seq(RowIds) /\ NoId \in RowIds /\ 1 \in Nat
    BY DEF Roles, RowIds
  <2>2. final \in Texts
    BY DEF Texts
  <2>3. final \in RowLabels /\ {t, final} \cap Turns = {t}
    BY <2>2, TextsAreNoTurns
  <2> HIDE DEF none
  <2>4. m \in AllRows /\ m.role = "assistant" /\ m.calls = none /\ m.labels = {t, final}
    BY <2>1, <2>3, RowIs
  <2> QED
    BY <2>3, <2>4 DEF none, HasCalls
<1> HIDE DEF last
<1>7. a \in Seq(M) /\ b \in Seq(M) /\ Len(b) = 1 /\ b[1] = last /\ a \o b \in Seq(M)
  <2>1. a \in Seq(M) /\ last \in M
    BY <1>5, <1>6 DEF GoodRows
  <2> HIDE DEF M
  <2> QED
    BY <2>1
<1>8. x = a \o b
  <2> DEFINE Sets == UNION {[1..n -> Outputs] : n \in ToSet(batch)}
  <2>1. outputs \in [1..Len(batch) -> Sets]
    BY <1>2, Zenon DEF RoundsOf, Indices
  <2> HIDE DEF Sets
  <2>2. Len(outputs) = Len(batch)
    BY <1>3, <2>1
  <2> QED
    BY <1>1, <2>2, Zenon DEF TurnRows, a, b, last, Indices
<1> HIDE DEF b
<1>9. /\ Sound(b) /\ Called(b) /\ Distinct(b) /\ Uses(b, {}) /\ Uses(b, OwnIds(t)) /\ OwnRows(b, t)
  <2>1. \A i \in 1..Len(b) : i = 1 /\ b[i] = last
    BY <1>7
  <2> QED
    BY <1>6, <2>1 DEF Sound, OneAnswer, OneCall, Follows, Called, Distinct, Uses, OwnRows, OwnRow,
                      Indices
<1>10. Uses(a, OwnIds(t))
  <2>1. \A y \in IdsUpTo(t, Len(batch)) : y \in OwnIds(t)
    BY <1>3 DEF IdsUpTo, OwnIds
  <2> QED
    BY <1>5, <2>1 DEF GoodRows, Uses
<1>11. \A i \in 1..Len(a), j \in 1..Len(b) : a[i] # b[j]
  <2>1. \A j \in 1..Len(b) : b[j] = last
    BY <1>7
  <2> QED
    BY <1>5, <1>6, <2>1 DEF GoodRows, AllCall
<1>12. Sound(x)
  <2> DEFINE U == OwnIds(t)
             N == {}
  <2>1. U \cap N = {} /\ Uses(a, U) /\ Uses(b, N) /\ Sound(a) /\ Sound(b)
    BY <1>5, <1>9, <1>10 DEF GoodRows
  <2> HIDE DEF U, N, M
  <2> QED
    BY <1>7, <1>8, <2>1, JoinedSound
<1>13. Called(x) /\ Distinct(x) /\ Uses(x, OwnIds(t))
  <2> DEFINE U == OwnIds(t)
  <2>1. Called(a) /\ Called(b) /\ Distinct(a) /\ Distinct(b) /\ Uses(a, U) /\ Uses(b, U)
    BY <1>5, <1>9, <1>10 DEF GoodRows
  <2> HIDE DEF U, M
  <2> QED
    BY <1>7, <1>8, <1>11, <2>1, JoinedRest DEF U
<1>14. /\ Len(x) = Len(a) + 1 /\ Len(a) \in Nat
       /\ \A p \in 1..Len(x) :
            \/ p \in 1..Len(a) /\ x[p] = a[p]
            \/ p - Len(a) \in 1..Len(b) /\ x[p] = b[p - Len(a)]
  <2>1. a \in Seq(M) /\ b \in Seq(M) /\ Len(b) = 1
    BY <1>7
  <2> HIDE DEF M
  <2>2. /\ Len(a) \in Nat /\ Len(a \o b) = Len(a) + Len(b)
        /\ \A p \in 1..Len(a \o b) :
             \/ p \in 1..Len(a) /\ (a \o b)[p] = a[p]
             \/ p > Len(a) /\ p - Len(a) \in 1..Len(b) /\ (a \o b)[p] = b[p - Len(a)]
    <3> HIDE DEF a, b
    <3>1. a \in Seq(M) /\ b \in Seq(M)
      BY <2>1
    <3>2. Len(a) \in Nat /\ Len(a \o b) = Len(a) + Len(b)
      BY <3>1, Places
    <3>3. \A p \in 1..Len(a \o b) :
             \/ p \in 1..Len(a) /\ (a \o b)[p] = a[p]
             \/ p > Len(a) /\ p - Len(a) \in 1..Len(b) /\ (a \o b)[p] = b[p - Len(a)]
      BY <3>1, Places
    <3> QED
      BY <3>2, <3>3
  <2> HIDE DEF a, b
  <2> QED
    BY <1>8, <2>1, <2>2
<1>15. OwnRows(x, t) /\ x # <<>>
  BY <1>5, <1>9, <1>14 DEF GoodRows, OwnRows
<1> QED
  BY <1>7, <1>8, <1>12, <1>13, <1>15

-----------------------------------------------------------------------------
(* Rows come at the end and go at the front *)

LEMMA SeqSame ==
    ASSUME NEW M, NEW s \in Seq(M), NEW t \in Seq(M), Len(s) = Len(t),
           \A i \in 1..Len(s) : s[i] = t[i]
    PROVE  s = t
OBVIOUS

LEMMA Ends ==
    ASSUME NEW M, NEW s \in Seq(M), NEW t \in Seq(M), NEW x \in M
    PROVE  /\ Append(s, x) = s \o <<x>> /\ <<x>> \in Seq(M) /\ Append(s, x) \in Seq(M)
           /\ s \o <<>> = s
           /\ t # <<>> => Append(s, Head(t)) \o Tail(t) = s \o t /\ Tail(t) \in Seq(M)
           /\ s # <<>> => Tail(s) \o t = Tail(s \o t) /\ s \o t # <<>>
           /\ s # <<>> => RemoveAt(s, 1) = Tail(s)
<1>1. Append(s, x) = s \o <<x>> /\ <<x>> \in Seq(M) /\ Append(s, x) \in Seq(M)
  OBVIOUS
<1>2. s \o <<>> = s
  OBVIOUS
<1>3. ASSUME t # <<>> PROVE Append(s, Head(t)) \o Tail(t) = s \o t /\ Tail(t) \in Seq(M)
  <2> DEFINE y == Head(t)
             z == Tail(t)
             a == Append(s, y)
             l == a \o z
             r == s \o t
  <2>1. y \in M /\ z \in Seq(M) /\ Len(z) = Len(t) - 1 /\ Len(t) \in Nat \ {0} /\ y = t[1]
        /\ \A i \in 1..Len(z) : z[i] = t[i + 1]
    BY <1>3
  <2> HIDE DEF y, z
  <2>2. a \in Seq(M) /\ Len(a) = Len(s) + 1 /\ Len(s) \in Nat /\ a[Len(s) + 1] = y
        /\ \A i \in 1..Len(s) : a[i] = s[i]
    BY <2>1
  <2> HIDE DEF a
  <2>3. /\ l \in Seq(M) /\ Len(l) = Len(a) + Len(z)
        /\ \A i \in 1..Len(a) : l[i] = a[i]
        /\ \A i \in 1..Len(z) : l[Len(a) + i] = z[i]
    <3>1. a \in Seq(M) /\ z \in Seq(M)
      BY <2>1, <2>2
    <3> QED
      BY <3>1, Concat
  <2>4. /\ r \in Seq(M) /\ Len(r) = Len(s) + Len(t)
        /\ \A i \in 1..Len(s) : r[i] = s[i]
        /\ \A i \in 1..Len(t) : r[Len(s) + i] = t[i]
    BY Concat
  <2> HIDE DEF l, r
  <2>5. Len(l) = Len(r)
    BY <2>1, <2>2, <2>3, <2>4
  <2>6. ASSUME NEW i \in 1..Len(l) PROVE l[i] = r[i]
    <3>1. CASE i <= Len(s)
      <4>1. i \in 1..Len(s) /\ i \in 1..Len(a)
        BY <2>2, <3>1
      <4> QED
        BY <2>2, <2>3, <2>4, <4>1
    <3>2. CASE i = Len(s) + 1
      <4>1. i \in 1..Len(a) /\ 1 \in 1..Len(t) /\ i = Len(s) + 1
        BY <2>1, <2>2, <3>2
      <4>2. l[i] = y
        BY <2>2, <2>3, <4>1
      <4>3. r[i] = t[1]
        BY <2>4, <4>1
      <4> QED
        BY <2>1, <4>2, <4>3
    <3>3. CASE i > Len(s) + 1
      <4> DEFINE k == i - (Len(s) + 1)
      <4>1. k \in 1..Len(z) /\ k + 1 \in 1..Len(t) /\ i = Len(a) + k /\ i = Len(s) + (k + 1)
        BY <2>1, <2>2, <2>3, <3>3
      <4> HIDE DEF k
      <4>2. l[i] = z[k]
        BY <2>3, <4>1
      <4>3. r[i] = t[k + 1]
        BY <2>4, <4>1
      <4> QED
        BY <2>1, <4>1, <4>2, <4>3
    <3> QED
      BY <2>2, <2>3, <3>1, <3>2, <3>3
  <2>7. l = r
    BY <2>3, <2>4, <2>5, <2>6, SeqSame
  <2> QED
    BY <2>1, <2>7 DEF a, l, r, y, z
<1>4. ASSUME s # <<>> PROVE Tail(s) \o t = Tail(s \o t) /\ s \o t # <<>>
  <2> DEFINE z == Tail(s)
             l == z \o t
             u == s \o t
             r == Tail(u)
  <2>1. z \in Seq(M) /\ Len(z) = Len(s) - 1 /\ Len(s) \in Nat \ {0}
        /\ \A i \in 1..Len(z) : z[i] = s[i + 1]
    BY <1>4
  <2> HIDE DEF z
  <2>2. /\ l \in Seq(M) /\ Len(l) = Len(z) + Len(t) /\ Len(t) \in Nat
        /\ \A i \in 1..Len(z) : l[i] = z[i]
        /\ \A i \in 1..Len(t) : l[Len(z) + i] = t[i]
    <3>1. z \in Seq(M)
      BY <2>1
    <3> QED
      BY <3>1, Concat
  <2>3. /\ u \in Seq(M) /\ Len(u) = Len(s) + Len(t)
        /\ \A i \in 1..Len(s) : u[i] = s[i]
        /\ \A i \in 1..Len(t) : u[Len(s) + i] = t[i]
    BY Concat
  <2> HIDE DEF l, u
  <2>4. u # <<>>
    BY <2>1, <2>2, <2>3
  <2>5. r \in Seq(M) /\ Len(r) = Len(u) - 1 /\ \A i \in 1..Len(r) : r[i] = u[i + 1]
    BY <2>3, <2>4
  <2> HIDE DEF r
  <2>6. Len(l) = Len(r)
    BY <2>1, <2>2, <2>3, <2>5
  <2>7. ASSUME NEW i \in 1..Len(l) PROVE l[i] = r[i]
    <3>1. CASE i <= Len(z)
      <4>1. i \in 1..Len(z) /\ i + 1 \in 1..Len(s) /\ i \in 1..Len(r)
        BY <2>1, <2>6, <3>1
      <4> QED
        BY <2>1, <2>2, <2>3, <2>5, <4>1
    <3>2. CASE i > Len(z)
      <4> DEFINE k == i - Len(z)
      <4>1. k \in 1..Len(t) /\ i = Len(z) + k /\ i + 1 = Len(s) + k /\ i \in 1..Len(r)
        BY <2>1, <2>2, <2>6, <3>2
      <4> HIDE DEF k
      <4>2. l[i] = t[k]
        BY <2>2, <4>1
      <4>3. r[i] = u[i + 1]
        BY <2>5, <4>1
      <4>4. u[i + 1] = t[k]
        BY <2>3, <4>1
      <4> QED
        BY <4>2, <4>3, <4>4
    <3> QED
      BY <2>1, <2>2, <3>1, <3>2
  <2>8. l = r
    BY <2>2, <2>5, <2>6, <2>7, SeqSame
  <2> QED
    BY <2>4, <2>8 DEF l, r, u, z
<1>5. ASSUME s # <<>> PROVE RemoveAt(s, 1) = Tail(s)
  <2> DEFINE e == SubSeq(s, 1, 1 - 1)
             z == SubSeq(s, 1 + 1, Len(s))
             u == Tail(s)
  <2>1. e \in Seq(M) /\ Len(e) = 0 /\ e = <<>>
    OBVIOUS
  <2>2. Len(s) \in Nat \ {0} /\ z \in Seq(M) /\ Len(z) = Len(s) - 1 /\ \A i \in 1..Len(z) : z[i] = s[i + 1]
    <3> DEFINE m == 1 + 1
               n == Len(s)
               y == SubSeq(s, m, n)
    <3>1. m \in 1..(n + 1) /\ n \in Nat \ {0} /\ m = 2 /\ n = Len(s)
      BY <1>5
    <3> HIDE DEF m, n
    <3>2. /\ y \in Seq(M) /\ Len(y) = n - m + 1
          /\ \A i \in 1..(n - m + 1) : y[i] = s[m + i - 1]
      BY <3>1, SubSeqProperties
    <3>3. \A i \in 1..Len(y) : i \in 1..(n - m + 1) /\ m + i - 1 = i + 1
      BY <3>1, <3>2
    <3> HIDE DEF y
    <3>4. Len(y) = n - 1 /\ \A i \in 1..Len(y) : y[i] = s[i + 1]
      BY <3>1, <3>2, <3>3
    <3> QED
      BY <3>1, <3>2, <3>4 DEF y, m, n
  <2>3. u \in Seq(M) /\ Len(u) = Len(s) - 1 /\ \A i \in 1..Len(u) : u[i] = s[i + 1]
    BY <1>5
  <2>4. RemoveAt(s, 1) = e \o z
    BY Zenon DEF RemoveAt
  <2> HIDE DEF e, z, u
  <2>5. e \o z = z
    BY <2>1, <2>2
  <2>6. z = u
    BY <2>2, <2>3, SeqSame
  <2> QED
    BY <2>4, <2>5, <2>6 DEF u
<1> QED
  BY <1>1, <1>2, <1>3, <1>4, <1>5

-----------------------------------------------------------------------------
(* The state: what is inductive *)

CompactionSteps == {"waiting", "summarise", "delete", "insert", "done"}
AskedSoFar == {Questions[i] : i \in 1..asked}
\* The turns that may have rows behind their question.
Answering == {Questions[i] : i \in 1..(IF pc \in {"asked", "thinking"} THEN asked - 1 ELSE asked)}
OldRows(c) == ToSet(compactor[c].old)
Seen == ToSet(rows) \cup UNION {OldRows(c) : c \in Compactors}

HistoryTypes ==
    /\ rows \in Seq(AllRows) /\ todo \in Seq(AllRows)
    /\ pc \in {"idle", "asked", "thinking", "storing"}
    /\ asked \in 0..Len(Questions)
    /\ pc # "idle" => asked \in 1..Len(Questions) /\ turn = Questions[asked]
    /\ pc = "storing" <=> todo # <<>>
    /\ compactor \in [Compactors -> [at : CompactionSteps, old : Seq(AllRows)]]
    /\ checkpoints \subseteq Turns
    /\ faults \subseteq {"checkpoint", "summary"}

\* The rows, with those still to be stored.
Shaped ==
    /\ Sound(rows \o todo) /\ FrontOrCalled(rows \o todo)
    /\ Distinct(rows \o todo)

\* A row tells which turn it is of; a summary, whose it is.
DatedRow(m) ==
    /\ m.role \in {"assistant", "tool"} => \E t \in Answering : OwnRow(m, t)
    /\ m.role = "user" => \E t \in AskedSoFar : m = Question(t)
    /\ m.role = "system" =>
         "summary" \in m.labels /\ \A c \in Compactors : c \in m.labels => compactor[c].at = "done"
Dated == \A m \in Seen : DatedRow(m)
Pending ==
    \A i \in 1..Len(todo) : OwnRow(todo[i], turn) /\ \A c \in Compactors : todo[i] \notin OldRows(c)

\* What a compaction summarises is at the front of the rows, as far as it is there.
OldFirst ==
    \A c \in Compactors : \A i, j \in 1..Len(rows) :
        i < j /\ rows[j] \in OldRows(c) => rows[i] \in OldRows(c)
CheckpointHolds ==
    \A c \in Compactors :
        compactor[c].at \in {"delete", "insert"} /\ "checkpoint" \notin faults =>
            QuestionsIn(compactor[c].old) \subseteq checkpoints

HistoryInv ==
    /\ HistoryTypes /\ Shaped /\ Dated /\ Pending /\ OldFirst
    /\ CheckpointHolds /\ NothingForgotten

LEMMA QuestionsAre ==
    ASSUME NEW s, NEW q
    PROVE  q \in QuestionsIn(s) <=>
             q \in Turns /\ \E i \in 1..Len(s) : /\ q \in s[i].labels
                                                  /\ s[i].labels \cap {"question", "summary"} # {}
<1> DEFINE Tells(n) == n.labels \cap {"question", "summary"} # {}
<1>1. q \in QuestionsIn(s) <=> \E m \in ToSet(s) : Tells(m) /\ q \in m.labels \cap Turns
  <2> DEFINE N == {n \in ToSet(s) : Tells(n)}
             Of(m) == m.labels \cap Turns
  <2>1. QuestionsIn(s) = UNION {Of(m) : m \in N}
    BY Zenon DEF QuestionsIn
  <2>2. \A m : m \in N <=> m \in ToSet(s) /\ Tells(m)
    BY Zenon
  <2> HIDE DEF N
  <2>3. q \in QuestionsIn(s) <=> \E m \in N : q \in Of(m)
    <3> HIDE DEF Of
    <3> QED
      BY <2>1
  <2> HIDE DEF Tells
  <2> QED
    BY <2>2, <2>3
<1>2. \A m : m \in ToSet(s) <=> \E i \in 1..Len(s) : s[i] = m
  BY DEF ToSet
<1> QED
  BY <1>1, <1>2

LEMMA SetOf ==
    ASSUME NEW s, NEW m
    PROVE  m \in ToSet(s) <=> \E i \in 1..Len(s) : s[i] = m
BY DEF ToSet

LEMMA TurnsOfQuestions ==
    /\ Len(Questions) \in Nat
    /\ \A i \in 1..Len(Questions) : Questions[i] \in Turns
    /\ \A i, j \in 1..Len(Questions) : Questions[i] = Questions[j] => i = j
<1>1. Questions \in Seq(Turns) /\ \A i, j \in 1..Len(Questions) : Questions[i] = Questions[j] => i = j
  BY HistoryAssumption DEF HistoryAssumption
<1> HIDE DEF Turns
<1> QED
  BY <1>1

LEMMA QuestionIs ==
    ASSUME NEW t \in Turns
    PROVE  /\ Question(t) \in AllRows /\ Question(t).role = "user"
           /\ Question(t).labels = {t, "question"} /\ ~ HasCalls(Question(t))
<1> DEFINE none == <<>>
           m == Row("user", none, NoId, 1, t, "question")
<1>1. "user" \in Roles /\ none \in Seq(RowIds) /\ NoId \in RowIds /\ 1 \in Nat /\ "question" \in RowLabels
  BY DEF Roles, RowIds, RowLabels
<1> HIDE DEF none
<1>2. m \in AllRows /\ m.role = "user" /\ m.labels = {t, "question"}
  BY <1>1, RowIs
<1> QED
  BY <1>2 DEF Question, none, HasCalls

LEMMA SummaryIs ==
    ASSUME HistoryTypes, NEW c \in Compactors
    PROVE  /\ Summary(c) \in AllRows /\ Summary(c).role = "system" /\ ~ HasCalls(Summary(c))
           /\ Summary(c).labels = {"summary", c} \cup QuestionsIn(compactor[c].old)
<1> DEFINE L == {"summary", c} \cup QuestionsIn(compactor[c].old)
<1>1. QuestionsIn(compactor[c].old) \subseteq Turns
  BY QuestionsAre
<1>2. L \in SUBSET RowLabels
  BY <1>1 DEF RowLabels
<1> HIDE DEF L
<1>3. NoId \in RowIds /\ <<>> \in Seq(RowIds)
  BY DEF RowIds
<1>4. Summary(c) = Message("system", <<>>, NoId, 1, L)
  BY DEF Summary, L
<1> HIDE DEF RowIds, RowLabels
<1>5. Summary(c) \in AllRows
  BY <1>2, <1>3, <1>4 DEF Message, AllRows, MessageSet
<1>6. Summary(c).role = "system" /\ Summary(c).calls = <<>> /\ Summary(c).labels = L
  BY <1>4 DEF Message
<1> QED
  BY <1>5, <1>6 DEF L, HasCalls

LEMMA HistoryInitial ==
    ASSUME HistoryInit
    PROVE  HistoryInv
<1> DEFINE e == <<>>
<1>1. rows = e /\ todo = e /\ Len(e) = 0 /\ e \in Seq(AllRows) /\ rows \o todo = e
  BY DEF HistoryInit
<1>2. compactor = [c \in Compactors |-> Waiting] /\ Waiting.at = "waiting" /\ Waiting.old = e
  BY DEF HistoryInit, Waiting
<1>3. HistoryTypes
  <2>1. Waiting \in [at : CompactionSteps, old : Seq(AllRows)]
    BY DEF Waiting, CompactionSteps
  <2>2. compactor \in [Compactors -> [at : CompactionSteps, old : Seq(AllRows)]]
    BY <1>2, <2>1
  <2>3. asked = 0 /\ pc = "idle" /\ checkpoints = {} /\ faults = {}
    BY DEF HistoryInit
  <2>4. asked \in 0..Len(Questions)
    BY <2>3, TurnsOfQuestions
  <2> QED
    BY <1>1, <2>2, <2>3, <2>4 DEF HistoryTypes
<1> HIDE DEF e
<1>4. Shaped
  BY <1>1 DEF Shaped, Sound, OneAnswer, OneCall, Follows, FrontOrCalled, Distinct, Indices
<1>5. Seen = {}
  <2>1. \A m : m \notin ToSet(e)
    BY <1>1, SetOf
  <2>2. \A c \in Compactors : compactor[c].old = e
    BY <1>2
  <2> QED
    BY <1>1, <2>1, <2>2 DEF Seen, OldRows
<1>6. Dated /\ Pending /\ OldFirst
  BY <1>1, <1>5 DEF Dated, Pending, OldFirst
<1>7. CheckpointHolds
  BY <1>2 DEF CheckpointHolds
<1>8. NothingForgotten
  <2>1. 1..asked = {}
    BY DEF HistoryInit
  <2>2. {Questions[i] : i \in 1..asked} = {}
    BY <2>1
  <2> QED
    BY <2>2 DEF NothingForgotten
<1> QED
  BY <1>3, <1>4, <1>6, <1>7, <1>8 DEF HistoryInv

-----------------------------------------------------------------------------
(* What the steps leave as it is *)

LEMMA TypedUses ==
    ASSUME NEW s \in Seq(AllRows)
    PROVE  Uses(s, RowIds)
<1> SUFFICES ASSUME NEW i \in 1..Len(s)
             PROVE  /\ s[i].id \in RowIds
                    /\ \A c \in ToSet(s[i].calls) : c \in RowIds
  BY DEF Uses
<1>1. s[i] \in AllRows
  <2> HIDE DEF AllRows
  <2> QED
    BY SeqElements
<1>2. s[i].id \in RowIds /\ s[i].calls \in Seq(RowIds)
  <2> HIDE DEF RowIds, RowLabels
  <2> QED
    BY <1>1 DEF AllRows, MessageSet
<1>3. ASSUME NEW calls \in Seq(RowIds), NEW c \in ToSet(calls) PROVE c \in RowIds
  <2>1. PICK j \in 1..Len(calls) : calls[j] = c
    BY <1>3, SetOf
  <2> HIDE DEF RowIds
  <2> QED
    BY <2>1, SeqElements
<1> QED
  BY <1>2, <1>3

LEMMA DatedStays ==
    ASSUME Dated, \A m \in Seen' : m \in Seen \/ DatedRow(m)',
           AskedSoFar \subseteq AskedSoFar', Answering \subseteq Answering',
           \A c \in Compactors : compactor[c].at = "done" => compactor'[c].at = "done"
    PROVE  Dated'
<1> SUFFICES ASSUME NEW m \in Seen' PROVE DatedRow(m)'
  BY DEF Dated
<1>1. CASE DatedRow(m)'
  BY <1>1
<1>2. CASE m \in Seen
  <2>1. DatedRow(m)
    BY <1>2 DEF Dated
  <2> HIDE DEF Answering, AskedSoFar, OwnRow
  <2> QED
    BY <2>1 DEF DatedRow
<1> QED
  BY <1>1, <1>2

\* More was asked, or the turn went on.
LEMMA AskedGrows ==
    ASSUME HistoryTypes, HistoryTypes',
           \/ asked' = asked /\ (pc' \in {"asked", "thinking"} => pc \in {"asked", "thinking"})
           \/ asked' = asked + 1
    PROVE  AskedSoFar \subseteq AskedSoFar' /\ Answering \subseteq Answering'
<1>1. asked \in Nat /\ asked' \in Nat
  BY TurnsOfQuestions DEF HistoryTypes
<1>2. AskedSoFar \subseteq AskedSoFar'
  BY <1>1 DEF AskedSoFar
<1>3. Answering \subseteq Answering'
  <2> DEFINE m == IF pc \in {"asked", "thinking"} THEN asked - 1 ELSE asked
  <2>1. m \in Int /\ m' \in Int /\ m <= m'
    <3>1. /\ \/ pc \in {"asked", "thinking"} /\ m = asked - 1
             \/ pc \notin {"asked", "thinking"} /\ m = asked
          /\ \/ pc' \in {"asked", "thinking"} /\ m' = asked' - 1
             \/ pc' \notin {"asked", "thinking"} /\ m' = asked'
      BY Zenon
    <3> HIDE DEF m
    <3>2. m \in Int /\ m' \in Int
      BY <1>1, <3>1
    <3>3. CASE asked' = asked + 1
      BY <1>1, <3>1, <3>3
    <3>4. CASE asked' = asked /\ (pc' \in {"asked", "thinking"} => pc \in {"asked", "thinking"})
      <4>1. m = asked - 1 \/ m' = asked'
        BY <3>1, <3>4, Zenon
      <4> QED
        BY <1>1, <3>1, <3>4, <4>1
    <3> QED
      BY <3>2, <3>3, <3>4
  <2>2. Answering = {Questions[i] : i \in 1..m} /\ Answering' = {Questions[i] : i \in 1..m'}
    BY DEF Answering
  <2> HIDE DEF m
  <2> QED
    BY <2>1, <2>2
<1> QED
  BY <1>2, <1>3

\* Every compaction keeps its rows or lets them go.
OldsShrink == \A c \in Compactors : compactor'[c].old \in {compactor[c].old, <<>>}

LEMMA OldsShrinkTo ==
    ASSUME OldsShrink
    PROVE  \A c \in Compactors : OldRows(c)' \in {OldRows(c), {}}
<1>1. \A m : m \notin ToSet(<<>>)
  <2>1. Len(<<>>) = 0
    OBVIOUS
  <2> QED
    BY <2>1, SetOf
<1>2. ToSet(<<>>) = {}
  BY <1>1
<1> QED
  BY <1>2 DEF OldsShrink, OldRows

LEMMA SameRows ==
    ASSUME rows' = rows, OldsShrink
    PROVE  /\ Seen' \subseteq Seen
           /\ OldFirst => OldFirst'
           /\ Pending /\ todo' = todo /\ turn' = turn => Pending'
<1>1. \A c \in Compactors : OldRows(c)' \in {OldRows(c), {}}
  BY OldsShrinkTo
<1> HIDE DEF OldRows
<1>2. Seen' \subseteq Seen
  BY <1>1 DEF Seen
<1>3. OldFirst => OldFirst'
  BY <1>1 DEF OldFirst
<1>4. Pending /\ todo' = todo /\ turn' = turn => Pending'
  BY <1>1 DEF Pending
<1> QED
  BY <1>2, <1>3, <1>4

LEMMA RowAdded ==
    ASSUME HistoryTypes, NEW m \in AllRows, AddMessage(m), OldsShrink,
           \A c \in Compactors : compactor'[c].old = <<>> \/ m \notin OldRows(c)
    PROVE  /\ rows' \in Seq(AllRows)
           /\ \A x \in Seen' : x \in Seen \/ x = m
           /\ OldFirst => OldFirst'
           /\ \A q : q \in QuestionsIn(rows) => q \in QuestionsIn(rows')
           /\ \A q \in m.labels \cap Turns :
                m.labels \cap {"question", "summary"} # {} => q \in QuestionsIn(rows')
<1> DEFINE M == AllRows
           n == Len(rows)
<1>1. rows \in Seq(M) /\ m \in M /\ rows' = Append(rows, m)
  BY DEF HistoryTypes, AddMessage
<1>2. /\ rows' \in Seq(M) /\ n \in Nat /\ Len(rows') = n + 1
      /\ rows'[n + 1] = m /\ \A i \in 1..n : rows'[i] = rows[i]
  <2> HIDE DEF M
  <2> QED
    BY <1>1
<1> HIDE DEF n
<1>3. \A c \in Compactors : OldRows(c)' = {} \/ (OldRows(c)' = OldRows(c) /\ m \notin OldRows(c)')
  <2> SUFFICES ASSUME NEW c \in Compactors
               PROVE  OldRows(c)' = {} \/ (OldRows(c)' = OldRows(c) /\ m \notin OldRows(c)')
    OBVIOUS
  <2>1. OldRows(c)' \in {OldRows(c), {}}
    BY OldsShrinkTo
  <2>2. CASE compactor'[c].old = <<>>
    <3>1. Len(compactor'[c].old) = 0
      BY <2>2
    <3>2. \A x : x \notin OldRows(c)'
      BY <3>1, SetOf DEF OldRows
    <3> QED
      BY <3>2
  <2>3. CASE m \notin OldRows(c)
    BY <2>1, <2>3
  <2> QED
    BY <2>2, <2>3
<1>4. \A i \in 1..(n + 1) : i \in 1..n \/ i = n + 1
  BY <1>2
<1>5. \A x \in Seen' : x \in Seen \/ x = m
  <2>1. \A x \in ToSet(rows') : x \in ToSet(rows) \/ x = m
    BY <1>2, <1>4, SetOf DEF n
  <2> HIDE DEF OldRows
  <2> QED
    BY <1>3, <2>1 DEF Seen
<1>6. OldFirst => OldFirst'
  <2> SUFFICES ASSUME OldFirst, NEW c \in Compactors, NEW i \in 1..(n + 1), NEW j \in 1..(n + 1),
                      i < j, rows'[j] \in OldRows(c)'
               PROVE  rows'[i] \in OldRows(c)'
    BY <1>2 DEF OldFirst
  <2> HIDE DEF OldRows
  <2>1. OldRows(c)' = OldRows(c) /\ rows'[j] # m
    BY <1>3
  <2>2. j \in 1..n /\ i \in 1..n
    BY <1>2, <1>4, <2>1
  <2> QED
    BY <1>2, <2>1, <2>2 DEF OldFirst, n
<1>7. \A q : q \in QuestionsIn(rows) => q \in QuestionsIn(rows')
  <2>1. \A i \in 1..n : i \in 1..Len(rows')
    BY <1>2
  <2> QED
    BY <1>2, <2>1, QuestionsAre DEF n
<1>8. \A q \in m.labels \cap Turns :
        m.labels \cap {"question", "summary"} # {} => q \in QuestionsIn(rows')
  <2>1. n + 1 \in 1..Len(rows')
    BY <1>2
  <2> QED
    BY <1>2, <2>1, QuestionsAre
<1> QED
  BY <1>2, <1>5, <1>6, <1>7, <1>8

LEMMA AtIs ==
    ASSUME HistoryTypes, NEW c \in Compactors, NEW place \in CompactionSteps,
           NEW old \in Seq(AllRows), At(c, place, old)
    PROVE  /\ compactor' \in [Compactors -> [at : CompactionSteps, old : Seq(AllRows)]]
           /\ compactor'[c].at = place /\ compactor'[c].old = old
           /\ \A d \in Compactors : d # c => compactor'[d] = compactor[d]
<1> DEFINE r == [at |-> place, old |-> old]
           R == [at : CompactionSteps, old : Seq(AllRows)]
<1>1. r \in R /\ r.at = place /\ r.old = old
  OBVIOUS
<1>2. compactor' = [compactor EXCEPT ![c] = r] /\ compactor \in [Compactors -> R]
  BY DEF At, HistoryTypes
<1> HIDE DEF r, R
<1>3. compactor' \in [Compactors -> R] /\ compactor'[c] = r
      /\ \A d \in Compactors : d # c => compactor'[d] = compactor[d]
  BY <1>1, <1>2
<1> QED
  BY <1>1, <1>3 DEF R

\* A question is in a row, in a checkpoint or in hand.
Covered(q) ==
    \/ q \in QuestionsIn(rows) \/ q \in checkpoints
    \/ \E c \in Compactors : /\ compactor[c].at \in {"delete", "insert"}
                              /\ q \in QuestionsIn(compactor[c].old)

LEMMA CoveredIs ==
    NothingForgotten <=>
        (faults # {"checkpoint", "summary"} => \A q \in AskedSoFar : Covered(q))
<1> DEFINE C == {d \in Compactors : compactor[d].at \in {"delete", "insert"}}
           H == UNION {QuestionsIn(compactor[c].old) : c \in C}
<1>1. \A q : q \in H <=> \E c \in C : q \in QuestionsIn(compactor[c].old)
  OBVIOUS
<1>2. NothingForgotten <=>
        (faults # {"checkpoint", "summary"} =>
            AskedSoFar \subseteq QuestionsIn(rows) \cup checkpoints \cup H)
  BY DEF NothingForgotten, AskedSoFar
<1>3. \A q : Covered(q) <=> q \in QuestionsIn(rows) \cup checkpoints \cup H
  <2> HIDE DEF H
  <2>1. \A q : q \in H <=> \E c \in Compactors : /\ compactor[c].at \in {"delete", "insert"}
                                                 /\ q \in QuestionsIn(compactor[c].old)
    BY <1>1
  <2> QED
    BY <2>1 DEF Covered
<1> HIDE DEF H
<1> QED
  BY <1>2, <1>3

LEMMA CoveredNext ==
    (NothingForgotten <=>
        (faults # {"checkpoint", "summary"} => \A q \in AskedSoFar : Covered(q)))'
BY CoveredIs, PTL

-----------------------------------------------------------------------------
(* Each step *)

\* A step of the turn that stores nothing: a list is sent, or the turn fails.
LEMMA QuietKeeps ==
    ASSUME HistoryInv, pc \in {"asked", "thinking"}, pc' \in {"thinking", "idle"},
           UNCHANGED <<rows, turn, asked, todo, compactVars, crashes, faults>>
    PROVE  HistoryInv'
<1>1. /\ rows' = rows /\ turn' = turn /\ asked' = asked /\ todo' = todo
      /\ compactor' = compactor /\ checkpoints' = checkpoints /\ faults' = faults
  BY DEF compactVars
<1>2. HistoryTypes /\ HistoryTypes'
  BY <1>1 DEF HistoryInv, HistoryTypes
<1>3. Shaped'
  BY <1>1 DEF HistoryInv, Shaped
<1>4. OldsShrink
  BY <1>1 DEF OldsShrink
<1>5. AskedSoFar \subseteq AskedSoFar' /\ Answering \subseteq Answering'
  BY <1>1, <1>2, AskedGrows
<1>6. Seen' \subseteq Seen /\ OldFirst' /\ Pending'
  BY <1>1, <1>4, SameRows DEF HistoryInv
<1>7. Dated'
  BY <1>1, <1>5, <1>6, DatedStays DEF HistoryInv
<1>8. CheckpointHolds' /\ NothingForgotten'
  BY <1>1 DEF HistoryInv, CheckpointHolds, NothingForgotten
<1> QED
  BY <1>2, <1>3, <1>6, <1>7, <1>8 DEF HistoryInv

\* A question that nobody asked before is in no row, and in none that was read.
LEMMA QuestionIsNew ==
    ASSUME HistoryInv, asked < Len(Questions)
    PROVE  /\ asked + 1 \in 1..Len(Questions) /\ Questions[asked + 1] \in Turns
           /\ Questions[asked + 1] \notin AskedSoFar
           /\ Question(Questions[asked + 1]) \notin Seen
<1> DEFINE t == Questions[asked + 1]
<1>1. asked + 1 \in 1..Len(Questions) /\ asked \in Nat
  BY TurnsOfQuestions DEF HistoryInv, HistoryTypes
<1>2. t \in Turns
  BY <1>1, TurnsOfQuestions
<1>3. t \notin AskedSoFar
  BY <1>1, TurnsOfQuestions DEF AskedSoFar
<1>4. ASSUME Question(t) \in Seen PROVE FALSE
  <2>1. PICK u \in AskedSoFar : Question(t) = Question(u)
    BY <1>2, <1>4, QuestionIs DEF HistoryInv, Dated, DatedRow
  <2>2. u \in Turns
    BY <1>1, TurnsOfQuestions DEF AskedSoFar, HistoryInv, HistoryTypes
  <2>3. {t, "question"} = {u, "question"}
    BY <1>2, <2>1, <2>2, QuestionIs
  <2>4. "question" \notin Turns
    BY HistoryAssumption DEF HistoryAssumption
  <2>5. t = u
    BY <1>2, <2>2, <2>3, <2>4
  <2> QED
    BY <1>3, <2>1, <2>5
<1> QED
  BY <1>1, <1>2, <1>3, <1>4

LEMMA AskKeeps ==
    ASSUME HistoryInv, Ask
    PROVE  HistoryInv'
<1> DEFINE t == Questions[asked + 1]
           q == Question(t)
           M == AllRows
           none == <<>>
<1>1. /\ pc = "idle" /\ pc' = "asked" /\ asked' = asked + 1 /\ turn' = t /\ AddMessage(q)
      /\ todo' = todo /\ compactor' = compactor /\ checkpoints' = checkpoints /\ faults' = faults
      /\ asked < Len(Questions)
  BY DEF Ask, compactVars
<1>2. /\ asked + 1 \in 1..Len(Questions) /\ t \in Turns /\ t \notin AskedSoFar /\ q \notin Seen
  BY <1>1, QuestionIsNew
<1>3. q \in M /\ q.role = "user" /\ q.labels = {t, "question"} /\ ~ HasCalls(q)
  BY <1>2, QuestionIs
<1>4. todo = none /\ todo' = none /\ rows \in Seq(M)
  BY <1>1 DEF HistoryInv, HistoryTypes
<1>5. OldsShrink /\ \A c \in Compactors : q \notin OldRows(c)
  BY <1>1, <1>2 DEF OldsShrink, Seen
<1> HIDE DEF t, q
<1>6. /\ rows' \in Seq(M) /\ (\A x \in Seen' : x \in Seen \/ x = q) /\ OldFirst'
      /\ (\A u : u \in QuestionsIn(rows) => u \in QuestionsIn(rows'))
      /\ (\A u \in q.labels \cap Turns :
            q.labels \cap {"question", "summary"} # {} => u \in QuestionsIn(rows'))
  <2>1. HistoryTypes /\ OldFirst
    BY DEF HistoryInv
  <2> QED
    BY <1>1, <1>3, <1>5, <2>1, RowAdded
<1>7. HistoryTypes'
  <2>1. asked' \in 0..Len(Questions) /\ asked' \in 1..Len(Questions) /\ turn' = Questions[asked']
    BY <1>1, <1>2 DEF t
  <2> HIDE DEF M
  <2> QED
    BY <1>1, <1>4, <1>6, <2>1 DEF HistoryInv, HistoryTypes, M
<1>8. Shaped'
  <2> DEFINE b == <<q>>
             N == {}
             U == RowIds
  <2>1. rows \o todo = rows /\ rows' = rows \o b /\ rows' \o todo' = rows' /\ b \in Seq(M)
    <3> HIDE DEF M
    <3>1. rows' = Append(rows, q)
      BY <1>1 DEF AddMessage
    <3>2. rows' = rows \o b /\ b \in Seq(M)
      BY <1>3, <1>4, <3>1, Ends
    <3>3. rows \o none = rows
      BY <1>4, <3>2, Ends
    <3>4. rows' \in Seq(M)
      BY <1>6
    <3>5. rows' \o none = rows'
      BY <3>4, <1>3, Ends
    <3> QED
      BY <1>4, <3>2, <3>3, <3>5
  <2>2. Sound(rows) /\ FrontOrCalled(rows) /\ Distinct(rows)
    BY <2>1 DEF HistoryInv, Shaped
  <2>3. Len(b) = 1 /\ \A i \in 1..Len(b) : i = 1 /\ b[i] = q
    OBVIOUS
  <2> HIDE DEF b
  <2>4. Sound(b) /\ Called(b) /\ Distinct(b) /\ Uses(b, N)
    BY <1>3, <2>3 DEF Sound, OneAnswer, OneCall, Follows, Called, Distinct, Uses, Indices
  <2>5. Uses(rows, U) /\ U \cap N = {}
    BY <1>4, TypedUses
  <2>6. \A i \in 1..Len(rows), j \in 1..Len(b) : rows[i] # b[j]
    BY <1>2, <2>3, SetOf DEF Seen
  <2> HIDE DEF M, N, U
  <2>7. Sound(rows')
    BY <1>4, <2>1, <2>2, <2>4, <2>5, JoinedSound
  <2>8. FrontOrCalled(rows') /\ Distinct(rows')
    BY <1>4, <2>1, <2>2, <2>4, <2>6, JoinedRest
  <2> QED
    BY <2>1, <2>7, <2>8 DEF Shaped
<1>9. AskedSoFar \subseteq AskedSoFar' /\ Answering \subseteq Answering'
  BY <1>1, <1>7, AskedGrows DEF HistoryInv
<1>10. t \in AskedSoFar' /\ \A u \in AskedSoFar' : u \in AskedSoFar \/ u = t
  <2>1. asked \in Nat
    BY TurnsOfQuestions DEF HistoryInv, HistoryTypes
  <2>2. asked' \in 1..asked'
    BY <1>1, <2>1
  <2>3. \A i \in 1..asked' : i \in 1..asked \/ i = asked + 1
    BY <1>1, <2>1
  <2> QED
    BY <1>1, <2>2, <2>3 DEF AskedSoFar, t
<1>11. Dated'
  <2>1. ASSUME NEW x, x = q PROVE DatedRow(x)'
    <3>1. x = Question(t) /\ x.role = "user" /\ t \in AskedSoFar'
      BY <1>3, <1>10, <2>1 DEF q
    <3>2. \E u \in AskedSoFar' : x = Question(u)
      BY <3>1
    <3> QED
      BY <3>1, <3>2 DEF DatedRow
  <2>2. \A x \in Seen' : x \in Seen \/ DatedRow(x)'
    BY <1>6, <2>1
  <2> QED
    BY <1>1, <1>9, <2>2, DatedStays DEF HistoryInv
<1>12. Pending'
  BY <1>4 DEF Pending
<1>13. CheckpointHolds'
  BY <1>1 DEF HistoryInv, CheckpointHolds
<1>14. NothingForgotten'
  <2> SUFFICES ASSUME faults # {"checkpoint", "summary"}, NEW u \in AskedSoFar' PROVE Covered(u)'
    BY <1>1, CoveredNext
  <2>1. CASE u \in AskedSoFar
    <3>1. Covered(u)
      BY <2>1, CoveredIs DEF HistoryInv
    <3> QED
      BY <1>1, <1>6, <3>1 DEF Covered
  <2>2. CASE u = t
    <3>1. u \in QuestionsIn(rows')
      BY <1>2, <1>3, <1>6, <2>2
    <3> QED
      BY <3>1 DEF Covered
  <2> QED
    BY <1>10, <2>1, <2>2
<1> QED
  BY <1>6, <1>7, <1>8, <1>11, <1>12, <1>13, <1>14 DEF HistoryInv

\* The rows of a turn that has stored none are in no list yet.
LEMMA OwnRowIsNew ==
    ASSUME HistoryInv, pc = "thinking"
    PROVE  /\ turn \in Turns
           /\ Uses(rows, UNION {OwnIds(t) : t \in Turns \ {turn}})
           /\ \A m \in Seen : ~ OwnRow(m, turn)
<1> DEFINE O(t) == OwnIds(t)
           U == UNION {O(t) : t \in Turns \ {turn}}
<1>1. asked \in 1..Len(Questions) /\ turn = Questions[asked] /\ asked \in Nat /\ turn \in Turns
  BY TurnsOfQuestions DEF HistoryInv, HistoryTypes
<1>2. \A t \in Answering : t \in Turns /\ t # turn
  <2>1. Answering = {Questions[i] : i \in 1..(asked - 1)}
    BY DEF Answering
  <2>2. \A i \in 1..(asked - 1) : i \in 1..Len(Questions) /\ i # asked
    BY <1>1
  <2> QED
    BY <1>1, <2>1, <2>2, TurnsOfQuestions
<1>3. ASSUME NEW m \in Seen, m.role \in {"assistant", "tool"}
      PROVE  \E t \in Turns : t # turn /\ OwnRow(m, t)
  BY <1>2, <1>3 DEF HistoryInv, Dated, DatedRow
<1>4. ASSUME NEW m \in Seen, OwnRow(m, turn) PROVE FALSE
  <2>1. m.role \in {"assistant", "tool"} /\ m.labels \cap Turns = {turn}
    BY <1>4 DEF OwnRow
  <2>2. PICK t \in Turns : t # turn /\ OwnRow(m, t)
    BY <1>3, <2>1
  <2>3. m.labels \cap Turns = {t}
    BY <2>2 DEF OwnRow
  <2> QED
    BY <2>1, <2>2, <2>3
<1>5. Uses(rows, U)
  <2> SUFFICES ASSUME NEW i \in 1..Len(rows)
               PROVE  /\ rows[i].role = "tool" => rows[i].id \in U
                      /\ HasCalls(rows[i]) => \A c \in ToSet(rows[i].calls) : c \in U
    BY DEF Uses
  <2>1. rows[i] \in Seen
    BY SetOf DEF Seen
  <2>2. CASE rows[i].role \in {"assistant", "tool"}
    <3>1. PICK t \in Turns : t # turn /\ OwnRow(rows[i], t)
      BY <1>3, <2>1, <2>2
    <3>2. \A x \in O(t) : x \in U
      <4> HIDE DEF O
      <4> QED
        BY <3>1
    <3> HIDE DEF U
    <3> QED
      BY <3>1, <3>2 DEF OwnRow
  <2>3. CASE rows[i].role \notin {"assistant", "tool"}
    BY <2>3 DEF HasCalls
  <2> QED
    BY <2>2, <2>3
<1> QED
  BY <1>1, <1>4, <1>5

LEMMA AnswerKeeps ==
    ASSUME HistoryInv, Answer
    PROVE  HistoryInv'
<1> DEFINE M == AllRows
           U == UNION {OwnIds(t) : t \in Turns \ {turn}}
           V == OwnIds(turn)
           none == <<>>
<1>1. /\ pc = "thinking" /\ pc' = "storing" /\ todo' \in RowsOf(turn)
      /\ rows' = rows /\ turn' = turn /\ asked' = asked
      /\ compactor' = compactor /\ checkpoints' = checkpoints /\ faults' = faults
  BY DEF Answer, compactVars
<1>2. turn \in Turns /\ Uses(rows, U) /\ \A m \in Seen : ~ OwnRow(m, turn)
  BY <1>1, OwnRowIsNew
<1>3. /\ todo' \in Seq(M) /\ Sound(todo') /\ Called(todo') /\ Distinct(todo')
      /\ Uses(todo', V) /\ OwnRows(todo', turn) /\ todo' # <<>>
  <2>1. ASSUME NEW t \in Turns, NEW x \in RowsOf(t)
        PROVE  /\ x \in Seq(M) /\ Sound(x) /\ Called(x) /\ Distinct(x)
               /\ Uses(x, OwnIds(t)) /\ OwnRows(x, t) /\ x # <<>>
    BY <2>1, RowsOfIs
  <2> HIDE DEF M
  <2> QED
    BY <1>1, <1>2, <2>1
<1>4. U \cap V = {}
  <2>1. ASSUME NEW t \in Turns, t # turn, NEW x \in OwnIds(t), x \in V PROVE FALSE
    BY <2>1 DEF OwnIds
  <2> QED
    BY <2>1
<1>5. /\ todo = none /\ rows \in Seq(M) /\ rows \o none = rows
  <2>1. todo = none /\ rows \in Seq(M)
    BY <1>1 DEF HistoryInv, HistoryTypes
  <2> HIDE DEF M
  <2> QED
    BY <2>1
<1>6. Sound(rows) /\ FrontOrCalled(rows) /\ Distinct(rows)
  BY <1>5 DEF HistoryInv, Shaped
<1>7. HistoryTypes'
  <2> HIDE DEF M
  <2> QED
    BY <1>1, <1>3, <1>5 DEF HistoryInv, HistoryTypes, M
<1> HIDE DEF U, V, M
<1>8. ASSUME NEW i \in 1..Len(todo') PROVE OwnRow(todo'[i], turn) /\ todo'[i] \notin Seen
  BY <1>2, <1>3, <1>8 DEF OwnRows
<1>9. Shaped'
  <2>1. \A i \in 1..Len(rows), j \in 1..Len(todo') : rows[i] # todo'[j]
    <3>1. \A i \in 1..Len(rows) : rows[i] \in Seen
      BY SetOf DEF Seen
    <3> QED
      BY <1>8, <3>1
  <2>2. Sound(rows \o todo')
    BY <1>2, <1>3, <1>4, <1>5, <1>6, JoinedSound
  <2>3. FrontOrCalled(rows \o todo') /\ Distinct(rows \o todo')
    BY <1>3, <1>5, <1>6, <2>1, JoinedRest
  <2> QED
    BY <1>1, <2>2, <2>3 DEF Shaped
<1>10. OldsShrink
  BY <1>1 DEF OldsShrink
<1>11. Seen' \subseteq Seen /\ OldFirst'
  BY <1>1, <1>10, SameRows DEF HistoryInv
<1>12. AskedSoFar \subseteq AskedSoFar' /\ Answering \subseteq Answering'
  BY <1>1, <1>7, AskedGrows DEF HistoryInv
<1>13. Dated'
  BY <1>1, <1>11, <1>12, DatedStays DEF HistoryInv
<1>14. Pending'
  <2>1. \A c \in Compactors : OldRows(c)' \subseteq Seen
    BY <1>1 DEF OldRows, Seen
  <2> HIDE DEF OldRows
  <2> QED
    BY <1>1, <1>8, <2>1 DEF Pending
<1>15. CheckpointHolds' /\ NothingForgotten'
  BY <1>1 DEF HistoryInv, CheckpointHolds, NothingForgotten
<1> QED
  BY <1>7, <1>9, <1>11, <1>13, <1>14, <1>15 DEF HistoryInv

LEMMA StoreKeeps ==
    ASSUME HistoryInv, StoreMessage
    PROVE  HistoryInv'
<1> DEFINE M == AllRows
           m == Head(todo)
           n == Len(todo)
<1>1. /\ pc = "storing" /\ AddMessage(m) /\ todo' = Tail(todo)
      /\ pc' = IF todo' = <<>> THEN "idle" ELSE "storing"
      /\ turn' = turn /\ asked' = asked /\ compactor' = compactor
      /\ checkpoints' = checkpoints /\ faults' = faults
  BY DEF StoreMessage, compactVars
<1>2. rows \in Seq(M) /\ todo \in Seq(M) /\ todo # <<>> /\ asked \in 1..Len(Questions) /\ turn = Questions[asked]
  BY <1>1 DEF HistoryInv, HistoryTypes
<1>3. /\ m \in M /\ m = todo[1] /\ n \in Nat \ {0} /\ Tail(todo) \in Seq(M) /\ Len(Tail(todo)) = n - 1
      /\ \A i \in 1..(n - 1) : Tail(todo)[i] = todo[i + 1]
  <2> HIDE DEF M
  <2> QED
    BY <1>2
<1> HIDE DEF m, n
<1>4. OldsShrink /\ \A c \in Compactors : m \notin OldRows(c)
  BY <1>1, <1>3 DEF HistoryInv, Pending, OldsShrink, n
<1>5. OwnRow(m, turn)
  BY <1>3 DEF HistoryInv, Pending, n
<1>6. /\ rows' \in Seq(M) /\ (\A x \in Seen' : x \in Seen \/ x = m) /\ OldFirst'
      /\ (\A u : u \in QuestionsIn(rows) => u \in QuestionsIn(rows'))
  <2>1. HistoryTypes /\ OldFirst
    BY DEF HistoryInv
  <2> QED
    BY <1>1, <1>3, <1>4, <2>1, RowAdded
<1>7. HistoryTypes'
  <2>1. pc' \in {"idle", "storing"} /\ (pc' = "storing" <=> todo' # <<>>)
    BY <1>1
  <2> HIDE DEF M
  <2> QED
    BY <1>1, <1>2, <1>3, <1>6, <2>1 DEF HistoryInv, HistoryTypes, M
<1>8. Shaped'
  <2>1. rows' \o todo' = rows \o todo
    <3> HIDE DEF M
    <3>1. rows' = Append(rows, Head(todo))
      BY <1>1 DEF AddMessage, m
    <3>2. Append(rows, Head(todo)) \o Tail(todo) = rows \o todo
      BY <1>2, <1>3, Ends
    <3> QED
      BY <1>1, <3>1, <3>2
  <2> QED
    BY <2>1 DEF HistoryInv, Shaped
<1>9. AskedSoFar \subseteq AskedSoFar' /\ Answering \subseteq Answering'
  BY <1>1, <1>7, AskedGrows DEF HistoryInv
<1>10. Dated'
  <2>1. turn \in Answering'
    <3>1. Answering' = {Questions[i] : i \in 1..asked'}
      BY <1>1 DEF Answering
    <3>2. asked' \in 1..asked' /\ turn = Questions[asked']
      BY <1>1, <1>2, TurnsOfQuestions
    <3> QED
      BY <3>1, <3>2
  <2>2. ASSUME NEW x, x = m PROVE DatedRow(x)'
    <3>1. OwnRow(x, turn) /\ x.role \in {"assistant", "tool"}
      BY <1>5, <2>2 DEF OwnRow
    <3> HIDE DEF Answering
    <3> QED
      BY <2>1, <3>1 DEF DatedRow
  <2>3. \A x \in Seen' : x \in Seen \/ DatedRow(x)'
    BY <1>6, <2>2
  <2> QED
    BY <1>1, <1>9, <2>3, DatedStays DEF HistoryInv
<1>11. Pending'
  <2>1. Len(todo') = n - 1 /\ \A i \in 1..(n - 1) : i + 1 \in 1..n /\ todo'[i] = todo[i + 1]
    BY <1>1, <1>3
  <2> QED
    BY <1>1, <2>1 DEF HistoryInv, Pending, n, OldRows
<1>12. CheckpointHolds'
  BY <1>1 DEF HistoryInv, CheckpointHolds
<1>13. NothingForgotten'
  <2> SUFFICES ASSUME faults # {"checkpoint", "summary"}, NEW u \in AskedSoFar' PROVE Covered(u)'
    BY <1>1, CoveredNext
  <2>1. u \in AskedSoFar
    BY <1>1 DEF AskedSoFar
  <2>2. Covered(u)
    BY <2>1, CoveredIs DEF HistoryInv
  <2> QED
    BY <1>1, <1>6, <2>2 DEF Covered
<1> QED
  BY <1>6, <1>7, <1>8, <1>10, <1>11, <1>12, <1>13 DEF HistoryInv

\* A compaction goes on with its rows, or lets them go.
LEMMA CompactionKeeps ==
    ASSUME HistoryInv, NEW c \in Compactors, NEW place \in CompactionSteps,
           NEW old \in {compactor[c].old, <<>>}, At(c, place, old), compactor[c].at # "done",
           UNCHANGED <<rows, turnVars>>,
           checkpoints' \subseteq Turns, faults' \subseteq {"checkpoint", "summary"}
    PROVE  HistoryTypes' /\ Shaped' /\ Dated' /\ Pending' /\ OldFirst'
<1>1. /\ rows' = rows /\ pc' = pc /\ turn' = turn /\ asked' = asked /\ todo' = todo
  BY DEF turnVars
<1>2. old \in Seq(AllRows)
  <2>1. compactor[c].old \in Seq(AllRows) /\ <<>> \in Seq(AllRows)
    BY DEF HistoryInv, HistoryTypes
  <2> HIDE DEF AllRows
  <2> QED
    BY <2>1, Zenon
<1>3. /\ compactor' \in [Compactors -> [at : CompactionSteps, old : Seq(AllRows)]]
      /\ compactor'[c].at = place /\ compactor'[c].old = old
      /\ \A d \in Compactors : d # c => compactor'[d] = compactor[d]
  BY <1>2, AtIs DEF HistoryInv
<1>4. HistoryTypes'
  <2> HIDE DEF AllRows
  <2> QED
    BY <1>1, <1>3 DEF HistoryInv, HistoryTypes
<1>5. Shaped'
  BY <1>1 DEF HistoryInv, Shaped
<1>6. OldsShrink
  BY <1>3 DEF OldsShrink
<1>7. Seen' \subseteq Seen /\ OldFirst' /\ Pending'
  BY <1>1, <1>6, SameRows DEF HistoryInv
<1>8. AskedSoFar \subseteq AskedSoFar' /\ Answering \subseteq Answering'
  BY <1>1, <1>4, AskedGrows DEF HistoryInv
<1>9. \A d \in Compactors : compactor[d].at = "done" => compactor'[d].at = "done"
  BY <1>3
<1>10. Dated'
  BY <1>7, <1>8, <1>9, DatedStays DEF HistoryInv
<1> QED
  BY <1>4, <1>5, <1>7, <1>10

LEMMA GiveUpKeeps ==
    ASSUME HistoryInv, NEW c \in Compactors, GiveUp(c)
    PROVE  HistoryInv'
<1> DEFINE none == <<>>
<1>1. /\ compactor[c].at = "summarise" /\ At(c, "done", none) /\ UNCHANGED <<rows, turnVars>>
      /\ rows' = rows /\ asked' = asked /\ checkpoints' = checkpoints /\ faults' = faults
  BY DEF GiveUp, turnVars
<1>2. "done" \in CompactionSteps /\ none \in Seq(AllRows) /\ none \in {compactor[c].old, <<>>}
  BY DEF CompactionSteps
<1> HIDE DEF none
<1>3. HistoryTypes' /\ Shaped' /\ Dated' /\ Pending' /\ OldFirst'
  <2>1. checkpoints' \subseteq Turns /\ faults' \subseteq {"checkpoint", "summary"}
    BY <1>1 DEF HistoryInv, HistoryTypes
  <2> QED
    BY <1>1, <1>2, <2>1, CompactionKeeps
<1>4. /\ compactor'[c].at = "done"
      /\ \A d \in Compactors : d # c => compactor'[d] = compactor[d]
  BY <1>1, <1>2, AtIs DEF HistoryInv
<1>5. CheckpointHolds'
  BY <1>1, <1>4 DEF HistoryInv, CheckpointHolds
<1>6. NothingForgotten'
  <2> SUFFICES ASSUME faults # {"checkpoint", "summary"}, NEW u \in AskedSoFar' PROVE Covered(u)'
    BY <1>1, CoveredNext
  <2>1. Covered(u)
    BY <1>1, CoveredIs DEF HistoryInv, AskedSoFar
  <2> QED
    BY <1>1, <1>4, <2>1 DEF Covered
<1> QED
  BY <1>3, <1>5, <1>6 DEF HistoryInv

LEMMA CheckpointKeeps ==
    ASSUME HistoryInv, NEW c \in Compactors, Checkpoint(c)
    PROVE  HistoryInv'
<1> DEFINE old == compactor[c].old
<1>1. /\ compactor[c].at = "summarise" /\ At(c, "delete", old) /\ UNCHANGED <<rows, turnVars>>
      /\ rows' = rows /\ asked' = asked
      /\ \/ checkpoints' = checkpoints \cup QuestionsIn(old) /\ faults' = faults
         \/ checkpoints' = checkpoints /\ faults' = faults \cup {"checkpoint"}
  BY DEF Checkpoint, turnVars
<1>2. "delete" \in CompactionSteps /\ old \in Seq(AllRows) /\ old \in {compactor[c].old, <<>>}
  BY DEF CompactionSteps, HistoryInv, HistoryTypes
<1>3. QuestionsIn(old) \subseteq Turns
  BY QuestionsAre
<1>4. checkpoints' \subseteq Turns /\ faults' \subseteq {"checkpoint", "summary"}
  BY <1>1, <1>3 DEF HistoryInv, HistoryTypes
<1>5. HistoryTypes' /\ Shaped' /\ Dated' /\ Pending' /\ OldFirst'
  <2> HIDE DEF old
  <2> QED
    BY <1>1, <1>2, <1>4, CompactionKeeps
<1>6. /\ compactor'[c].at = "delete" /\ compactor'[c].old = old
      /\ \A d \in Compactors : d # c => compactor'[d] = compactor[d]
  <2> HIDE DEF old
  <2> QED
    BY <1>1, <1>2, AtIs DEF HistoryInv
<1>7. CheckpointHolds'
  <2> SUFFICES ASSUME NEW d \in Compactors, compactor'[d].at \in {"delete", "insert"},
                      "checkpoint" \notin faults'
               PROVE  QuestionsIn(compactor'[d].old) \subseteq checkpoints'
    BY DEF CheckpointHolds
  <2>1. checkpoints' = checkpoints \cup QuestionsIn(old) /\ faults' = faults
    BY <1>1
  <2>2. CASE d = c
    BY <1>6, <2>1, <2>2
  <2>3. CASE d # c
    BY <1>6, <2>1, <2>3 DEF HistoryInv, CheckpointHolds
  <2> QED
    BY <2>2, <2>3
<1>8. NothingForgotten'
  <2> SUFFICES ASSUME faults' # {"checkpoint", "summary"}, NEW u \in AskedSoFar' PROVE Covered(u)'
    BY CoveredNext
  <2>1. faults # {"checkpoint", "summary"}
    BY <1>1
  <2>2. Covered(u)
    BY <1>1, <2>1, CoveredIs DEF HistoryInv, AskedSoFar
  <2>3. \A d \in Compactors : d = c \/ compactor'[d] = compactor[d]
    BY <1>6
  <2> QED
    BY <1>1, <1>6, <2>2, <2>3 DEF Covered
<1> QED
  BY <1>5, <1>7, <1>8 DEF HistoryInv

LEMMA StatementFailsKeeps ==
    ASSUME HistoryInv, NEW c \in Compactors, StatementFails(c)
    PROVE  HistoryInv'
<1> DEFINE none == <<>>
<1>1. /\ compactor[c].at \in {"delete", "insert"} /\ At(c, "done", none)
      /\ UNCHANGED <<rows, turnVars>>
      /\ rows' = rows /\ asked' = asked /\ checkpoints' = checkpoints
      /\ faults' = faults \cup {"summary"}
  BY DEF StatementFails, turnVars
<1>2. "done" \in CompactionSteps /\ none \in Seq(AllRows) /\ none \in {compactor[c].old, <<>>}
  BY DEF CompactionSteps
<1> HIDE DEF none
<1>3. HistoryTypes' /\ Shaped' /\ Dated' /\ Pending' /\ OldFirst'
  <2>1. checkpoints' \subseteq Turns /\ faults' \subseteq {"checkpoint", "summary"}
    BY <1>1 DEF HistoryInv, HistoryTypes
  <2>2. compactor[c].at # "done"
    BY <1>1
  <2> QED
    BY <1>1, <1>2, <2>1, <2>2, CompactionKeeps
<1>4. /\ compactor'[c].at = "done"
      /\ \A d \in Compactors : d # c => compactor'[d] = compactor[d]
  BY <1>1, <1>2, AtIs DEF HistoryInv
<1>5. CheckpointHolds'
  BY <1>1, <1>4 DEF HistoryInv, CheckpointHolds
<1>6. NothingForgotten'
  <2> SUFFICES ASSUME faults' # {"checkpoint", "summary"}, NEW u \in AskedSoFar' PROVE Covered(u)'
    BY CoveredNext
  <2>1. faults # {"checkpoint", "summary"} /\ "checkpoint" \notin faults
    BY <1>1 DEF HistoryInv, HistoryTypes
  <2>2. Covered(u)
    BY <1>1, <2>1, CoveredIs DEF HistoryInv, AskedSoFar
  <2>3. u \in QuestionsIn(compactor[c].old) => u \in checkpoints
    BY <1>1, <2>1 DEF HistoryInv, CheckpointHolds
  <2>4. \A d \in Compactors : d = c \/ compactor'[d] = compactor[d]
    BY <1>4
  <2> QED
    BY <1>1, <2>2, <2>3, <2>4 DEF Covered
<1> QED
  BY <1>3, <1>5, <1>6 DEF HistoryInv

\* A compaction reads the rows but the most recent.
LEMMA ReadMessagesKeeps ==
    ASSUME HistoryInv, NEW c \in Compactors, ReadMessages(c)
    PROVE  HistoryInv'
<1> DEFINE M == AllRows
           n == Len(rows)
           m == n - KeepRecent
           old == SubSeq(rows, 1, m)
<1>1. /\ compactor[c].at = "waiting" /\ n > KeepRecent /\ At(c, "summarise", old)
      /\ rows' = rows /\ pc' = pc /\ turn' = turn /\ asked' = asked /\ todo' = todo
      /\ checkpoints' = checkpoints /\ faults' = faults
  BY DEF ReadMessages, turnVars
<1>2. rows \in Seq(M) /\ todo \in Seq(M) /\ HistoryTypes
  BY DEF HistoryInv, HistoryTypes
<1>3. n \in Nat /\ m \in 1..n
  <2>1. KeepRecent \in Nat
    BY HistoryAssumption DEF HistoryAssumption
  <2>2. n \in Nat
    BY <1>2
  <2> HIDE DEF n
  <2> QED
    BY <1>1, <2>1, <2>2
<1> HIDE DEF n, m
<1>4. /\ old \in Seq(M) /\ Len(old) = m /\ \A i \in 1..m : old[i] = rows[i]
  <2> DEFINE a == 1
             b == m
             y == SubSeq(rows, a, b)
  <2>1. a \in 1..(Len(rows) + 1) /\ b \in a..Len(rows) /\ a = 1 /\ b = m
    BY <1>3 DEF n
  <2> HIDE DEF a, b, M
  <2>2. /\ y \in Seq(M) /\ Len(y) = b - a + 1
        /\ \A i \in 1..(b - a + 1) : y[i] = rows[a + i - 1]
    BY <1>2, <2>1, SubSeqProperties
  <2>3. \A i \in 1..m : i \in 1..(b - a + 1) /\ a + i - 1 = i
    BY <1>3, <2>1
  <2> HIDE DEF y
  <2>4. y \in Seq(M) /\ Len(y) = m /\ \A i \in 1..m : y[i] = rows[i]
    BY <1>3, <2>1, <2>2, <2>3
  <2> QED
    BY <2>4 DEF y, a, b
<1> HIDE DEF old
<1>5. /\ compactor' \in [Compactors -> [at : CompactionSteps, old : Seq(AllRows)]]
      /\ compactor'[c].at = "summarise" /\ compactor'[c].old = old
      /\ \A d \in Compactors : d # c => compactor'[d] = compactor[d]
  <2>1. "summarise" \in CompactionSteps
    BY DEF CompactionSteps
  <2> QED
    BY <1>1, <1>2, <1>4, <2>1, AtIs
<1>6. HistoryTypes'
  <2> HIDE DEF M
  <2> QED
    BY <1>1, <1>2, <1>5 DEF HistoryTypes
<1>7. Shaped'
  BY <1>1 DEF HistoryInv, Shaped
<1>8. /\ \A x : x \in OldRows(c)' <=> \E i \in 1..m : rows[i] = x
      /\ \A d \in Compactors : d # c => OldRows(d)' = OldRows(d)
  <2>1. \A x : x \in ToSet(old) <=> \E i \in 1..m : rows[i] = x
    BY <1>4, SetOf
  <2> QED
    BY <1>5, <2>1 DEF OldRows
<1>9. \A i \in 1..m : i \in 1..n
  BY <1>3
<1>10. Seen' \subseteq Seen
  <2>1. \A x \in OldRows(c)' : x \in ToSet(rows)
    BY <1>8, <1>9, SetOf DEF n
  <2> HIDE DEF OldRows
  <2> QED
    BY <1>1, <1>8, <2>1 DEF Seen
<1>11. \A i, j \in 1..n : rows[i] = rows[j] => i = j
  <2>1. Distinct(rows)
    BY <1>2, RowsListable, FrontKeeps DEF HistoryInv, Shaped
  <2> QED
    BY <2>1 DEF Distinct, n, Indices
<1>12. OldFirst'
  <2> SUFFICES ASSUME NEW d \in Compactors, NEW i \in 1..n, NEW j \in 1..n, i < j,
                      rows[j] \in OldRows(d)'
               PROVE  rows[i] \in OldRows(d)'
    BY <1>1 DEF OldFirst, n
  <2>1. CASE d = c
    <3>1. PICK k \in 1..m : rows[k] = rows[j]
      BY <1>8, <2>1
    <3>2. k = j
      BY <1>9, <1>11, <3>1
    <3>3. i \in 1..m
      BY <1>3, <3>1, <3>2
    <3> QED
      BY <1>8, <2>1, <3>3
  <2>2. CASE d # c
    <3> HIDE DEF OldRows
    <3> QED
      BY <1>8, <2>2 DEF HistoryInv, OldFirst, n
  <2> QED
    BY <2>1, <2>2
<1>13. Pending'
  <2> SUFFICES ASSUME NEW i \in 1..Len(todo), NEW d \in Compactors, todo[i] \in OldRows(d)'
               PROVE  FALSE
    BY <1>1 DEF HistoryInv, Pending
  <2>1. CASE d = c
    <3>1. PICK k \in 1..m : rows[k] = todo[i]
      BY <1>8, <2>1
    <3> DEFINE t == rows \o todo
    <3>2. /\ Len(t) = n + Len(todo) /\ Len(todo) \in Nat
          /\ (\A x \in 1..n : t[x] = rows[x]) /\ \A x \in 1..Len(todo) : t[n + x] = todo[x]
      BY <1>2, Concat DEF n
    <3> HIDE DEF t
    <3>3. t[k] = t[n + i] /\ k \in 1..Len(t) /\ n + i \in 1..Len(t) /\ k # n + i
      BY <1>3, <1>9, <3>1, <3>2
    <3> QED
      BY <3>3 DEF HistoryInv, Shaped, Distinct, t, Indices
  <2>2. CASE d # c
    <3> HIDE DEF OldRows
    <3> QED
      BY <1>8, <2>2 DEF HistoryInv, Pending
  <2> QED
    BY <2>1, <2>2
<1>14. AskedSoFar \subseteq AskedSoFar' /\ Answering \subseteq Answering'
  BY <1>1, <1>2, <1>6, AskedGrows
<1>15. Dated'
  <2>1. \A d \in Compactors : compactor[d].at = "done" => compactor'[d].at = "done"
    BY <1>1, <1>5
  <2> QED
    BY <1>10, <1>14, <2>1, DatedStays DEF HistoryInv
<1>16. CheckpointHolds'
  BY <1>1, <1>5 DEF HistoryInv, CheckpointHolds
<1>17. NothingForgotten'
  <2> SUFFICES ASSUME faults # {"checkpoint", "summary"}, NEW u \in AskedSoFar' PROVE Covered(u)'
    BY <1>1, CoveredNext
  <2>1. Covered(u)
    BY <1>1, CoveredIs DEF HistoryInv, AskedSoFar
  <2> QED
    BY <1>1, <1>5, <2>1 DEF Covered
<1> QED
  BY <1>6, <1>7, <1>12, <1>13, <1>15, <1>16, <1>17 DEF HistoryInv

\* A compaction is done, its summary stored.
LEMMA InsertSummaryKeeps ==
    ASSUME HistoryInv, NEW c \in Compactors, InsertSummary(c)
    PROVE  HistoryInv'
<1> DEFINE M == AllRows
           x == Summary(c)
           none == <<>>
<1>1. /\ compactor[c].at = "insert" /\ At(c, "done", none) /\ AddMessage(x)
      /\ pc' = pc /\ turn' = turn /\ asked' = asked /\ todo' = todo
      /\ checkpoints' = checkpoints /\ faults' = faults
  BY DEF InsertSummary, turnVars
<1>2. rows \in Seq(M) /\ todo \in Seq(M) /\ HistoryTypes
  BY DEF HistoryInv, HistoryTypes
<1>3. /\ x \in M /\ x.role = "system" /\ ~ HasCalls(x)
      /\ x.labels = {"summary", c} \cup QuestionsIn(compactor[c].old)
  BY <1>2, SummaryIs
<1>4. /\ compactor' \in [Compactors -> [at : CompactionSteps, old : Seq(AllRows)]]
      /\ compactor'[c].at = "done" /\ compactor'[c].old = none
      /\ \A d \in Compactors : d # c => compactor'[d] = compactor[d]
  <2>1. "done" \in CompactionSteps /\ none \in Seq(AllRows)
    BY DEF CompactionSteps
  <2> HIDE DEF none
  <2> QED
    BY <1>1, <1>2, <2>1, AtIs
<1>5. x \notin Seen
  BY <1>1, <1>3 DEF HistoryInv, Dated, DatedRow
<1> HIDE DEF x
<1>6. OldsShrink /\ \A d \in Compactors : x \notin OldRows(d)
  BY <1>4, <1>5 DEF OldsShrink, Seen
<1>7. /\ rows' \in Seq(M) /\ (\A y \in Seen' : y \in Seen \/ y = x) /\ OldFirst'
      /\ (\A u : u \in QuestionsIn(rows) => u \in QuestionsIn(rows'))
      /\ (\A u \in x.labels \cap Turns :
            x.labels \cap {"question", "summary"} # {} => u \in QuestionsIn(rows'))
  <2>1. OldFirst
    BY DEF HistoryInv
  <2> QED
    BY <1>1, <1>2, <1>3, <1>6, <2>1, RowAdded
<1>8. HistoryTypes'
  <2> HIDE DEF M
  <2> QED
    BY <1>1, <1>2, <1>4, <1>7 DEF HistoryTypes, M
<1>9. /\ \A i \in 1..Len(todo) : todo[i] # x
      /\ \A i \in 1..Len(rows) : rows[i] # x
  <2>1. \A i \in 1..Len(rows) : rows[i] # x
    BY <1>5, SetOf DEF Seen
  <2>2. \A i \in 1..Len(todo) : todo[i] # x
    BY <1>3 DEF HistoryInv, Pending, OwnRow
  <2> QED
    BY <2>1, <2>2
<1>10. Shaped'
  <2> DEFINE t == rows \o todo
  <2>1. \A i \in 1..Len(t) : t[i] # x
    <3>1. /\ Len(t) = Len(rows) + Len(todo) /\ Len(rows) \in Nat /\ Len(todo) \in Nat
          /\ (\A i \in 1..Len(rows) : t[i] = rows[i])
          /\ \A i \in 1..Len(todo) : t[Len(rows) + i] = todo[i]
      BY <1>2, Concat
    <3> HIDE DEF t
    <3> SUFFICES ASSUME NEW i \in 1..Len(t) PROVE t[i] # x
      OBVIOUS
    <3>2. CASE i <= Len(rows)
      BY <1>9, <3>1, <3>2
    <3>3. CASE i > Len(rows)
      <4>1. i - Len(rows) \in 1..Len(todo) /\ i = Len(rows) + (i - Len(rows))
        BY <3>1, <3>3
      <4> QED
        BY <1>9, <3>1, <4>1
    <3> QED
      BY <3>1, <3>2, <3>3
  <2>2. rows' \o todo' = Append(rows, x) \o todo
    BY <1>1 DEF AddMessage
  <2>3. Sound(t) /\ FrontOrCalled(t) /\ Distinct(t)
    BY DEF HistoryInv, Shaped
  <2> HIDE DEF M
  <2>4. /\ Sound(Append(rows, x) \o todo) /\ FrontOrCalled(Append(rows, x) \o todo)
        /\ Distinct(Append(rows, x) \o todo)
    BY <1>2, <1>3, <2>1, <2>3, InsertedKeeps
  <2> QED
    BY <2>2, <2>4 DEF Shaped
<1>11. AskedSoFar \subseteq AskedSoFar' /\ Answering \subseteq Answering'
  BY <1>1, <1>2, <1>8, AskedGrows
<1>12. Dated'
  <2>1. ASSUME NEW y, y = x PROVE DatedRow(y)'
    <3>1. ASSUME NEW d \in Compactors, d \in x.labels PROVE d = c
      <4>1. Turns \cap Compactors = {} /\ "summary" \notin Compactors
        BY HistoryAssumption DEF HistoryAssumption
      <4>2. d \in {"summary", c} \/ d \in Turns
        BY <1>3, <3>1, QuestionsAre
      <4> QED
        BY <4>1, <4>2
    <3>2. "summary" \in x.labels /\ x.role = "system"
      BY <1>3
    <3> QED
      BY <1>4, <2>1, <3>1, <3>2 DEF DatedRow
  <2>2. \A y \in Seen' : y \in Seen \/ DatedRow(y)'
    BY <1>7, <2>1
  <2>3. \A d \in Compactors : compactor[d].at = "done" => compactor'[d].at = "done"
    BY <1>4
  <2> QED
    BY <1>11, <2>2, <2>3, DatedStays DEF HistoryInv
<1>13. Pending'
  <2>1. \A d \in Compactors : OldRows(d)' \in {OldRows(d), {}}
    BY <1>6, OldsShrinkTo
  <2> HIDE DEF OldRows
  <2> QED
    BY <1>1, <2>1 DEF HistoryInv, Pending
<1>14. CheckpointHolds'
  BY <1>1, <1>4 DEF HistoryInv, CheckpointHolds
<1>15. NothingForgotten'
  <2> SUFFICES ASSUME faults # {"checkpoint", "summary"}, NEW u \in AskedSoFar' PROVE Covered(u)'
    BY <1>1, CoveredNext
  <2>1. Covered(u) /\ u \in Turns
    BY <1>1, CoveredIs, TurnsOfQuestions DEF HistoryInv, HistoryTypes, AskedSoFar
  <2>2. u \in QuestionsIn(compactor[c].old) => u \in QuestionsIn(rows')
    BY <1>3, <1>7, <2>1
  <2>3. \A d \in Compactors : d = c \/ compactor'[d] = compactor[d]
    BY <1>4
  <2> QED
    BY <1>1, <1>7, <2>1, <2>2, <2>3 DEF Covered
<1> QED
  BY <1>7, <1>8, <1>10, <1>12, <1>13, <1>14, <1>15 DEF HistoryInv

\* One of the rows that a compaction summarises is deleted: the first of all.
LEMMA DeletesFirst ==
    ASSUME HistoryInv, NEW c \in Compactors, RowsToDelete(c) # {}
    PROVE  /\ rows # <<>> /\ rows[1] \in OldRows(c)
           /\ FirstFrom(rows, 1, LAMBDA m : m \in RowsToDelete(c)) = 1
<1> DEFINE D == RowsToDelete(c)
           J == {j \in 1..Len(rows) : rows[j] \in D}
           n == Len(rows)
<1>1. n \in Nat
  BY DEF HistoryInv, HistoryTypes
<1>2. \A m : m \in D <=> m \in ToSet(rows) /\ m \in OldRows(c)
  BY DEF RowsToDelete, OldRows
<1> HIDE DEF D, n
<1>3. PICK j \in 1..n : rows[j] \in D
  <2>1. PICK m : m \in D
    BY DEF D
  <2>2. PICK j \in 1..n : rows[j] = m
    BY <1>2, <2>1, SetOf DEF n
  <2> QED
    BY <2>1, <2>2
<1>4. 1 \in 1..n /\ 1 \in 1..Len(rows) /\ rows[1] \in OldRows(c)
  <2>1. 1 \in 1..n
    BY <1>1, <1>3
  <2>2. j = 1 \/ 1 < j
    BY <1>1, <1>3
  <2> QED
    BY <1>2, <1>3, <2>1, <2>2 DEF HistoryInv, OldFirst, n
<1>5. rows[1] \in D
  BY <1>2, <1>4, SetOf
<1>6. Min(J \cup {n + 1}) = 1
  <2>1. \A i \in J \cup {n + 1} : i \in Nat /\ 1 <= i
    BY <1>1 DEF n
  <2>2. 1 \in J \cup {n + 1}
    BY <1>4, <1>5
  <2> HIDE DEF J
  <2> DEFINE K == J \cup {n + 1}
  <2>3. K \in SUBSET Nat /\ K # {} /\ 1 \in K /\ \A i \in K : 1 <= i
    BY <2>1, <2>2
  <2> HIDE DEF K
  <2>4. Min(K) \in K /\ \A i \in K : Min(K) <= i
    BY <2>3, MinIs
  <2>5. Min(K) = 1
    <3>1. Min(K) \in Nat /\ Min(K) <= 1 /\ 1 <= Min(K)
      BY <2>3, <2>4
    <3> HIDE DEF K
    <3> QED
      BY <3>1
  <2> QED
    BY <2>5 DEF K
<1>7. FirstFrom(rows, 1, LAMBDA m : m \in D) = Min(J \cup {n + 1})
  BY Zenon DEF FirstFrom, n
<1> QED
  BY <1>1, <1>4, <1>6, <1>7 DEF D, n

LEMMA DeleteOldKeeps ==
    ASSUME HistoryInv, NEW c \in Compactors, DeleteOld(c)
    PROVE  HistoryInv'
<1> DEFINE M == AllRows
           old == compactor[c].old
<1>1. /\ compactor[c].at = "delete" /\ UNCHANGED turnVars
      /\ pc' = pc /\ turn' = turn /\ asked' = asked /\ todo' = todo
      /\ checkpoints' = checkpoints /\ faults' = faults
  BY DEF DeleteOld, turnVars
<1>2. rows \in Seq(M) /\ todo \in Seq(M) /\ HistoryTypes
  BY DEF HistoryInv, HistoryTypes
<1>3. CASE RowsToDelete(c) = {}
  <2>1. At(c, "insert", old) /\ rows' = rows
    BY <1>3 DEF DeleteOld
  <2>2. /\ "insert" \in CompactionSteps /\ old \in Seq(AllRows) /\ old \in {compactor[c].old, <<>>}
    BY <1>2 DEF CompactionSteps, HistoryTypes
  <2> HIDE DEF old
  <2>3. HistoryTypes' /\ Shaped' /\ Dated' /\ Pending' /\ OldFirst'
    <3>1. checkpoints' \subseteq Turns /\ faults' \subseteq {"checkpoint", "summary"}
      BY <1>1, <1>2 DEF HistoryTypes
    <3>2. compactor[c].at # "done" /\ UNCHANGED <<rows, turnVars>>
      BY <1>1, <2>1
    <3> QED
      BY <2>1, <2>2, <3>1, <3>2, CompactionKeeps
  <2>4. /\ compactor'[c].at = "insert" /\ compactor'[c].old = old
        /\ \A d \in Compactors : d # c => compactor'[d] = compactor[d]
    BY <1>2, <2>1, <2>2, AtIs
  <2>5. \A d \in Compactors :
          /\ compactor'[d].old = compactor[d].old
          /\ compactor'[d].at \in {"delete", "insert"} <=> compactor[d].at \in {"delete", "insert"}
    BY <1>1, <2>4 DEF old
  <2>6. CheckpointHolds'
    BY <1>1, <2>5 DEF HistoryInv, CheckpointHolds
  <2>7. NothingForgotten'
    <3> SUFFICES ASSUME faults # {"checkpoint", "summary"}, NEW u \in AskedSoFar' PROVE Covered(u)'
      BY <1>1, CoveredNext
    <3>1. Covered(u)
      BY <1>1, CoveredIs DEF HistoryInv, AskedSoFar
    <3> QED
      BY <1>1, <2>1, <2>5, <3>1 DEF Covered
  <2> QED
    BY <2>3, <2>6, <2>7 DEF HistoryInv
<1>4. CASE RowsToDelete(c) # {}
  <2> DEFINE n == Len(rows)
  <2>1. /\ rows' = RemoveAt(rows, FirstFrom(rows, 1, LAMBDA m : m \in RowsToDelete(c)))
        /\ compactor' = compactor
    BY <1>4, Zenon DEF DeleteOld
  <2>2. rows # <<>> /\ rows[1] \in OldRows(c) /\ rows' = RemoveAt(rows, 1)
    <3>1. /\ rows # <<>> /\ rows[1] \in OldRows(c)
          /\ FirstFrom(rows, 1, LAMBDA m : m \in RowsToDelete(c)) = 1
      BY <1>4, DeletesFirst
    <3> QED
      BY <2>1, <3>1, Zenon
  <2>3. /\ rows' = Tail(rows) /\ Tail(rows) \o todo = Tail(rows \o todo) /\ rows \o todo # <<>>
        /\ rows \o todo \in Seq(M)
    <3>1. PICK x \in M : TRUE
      <4>1. rows[1] \in M
        <5> HIDE DEF M
        <5>1. 1 \in 1..Len(rows)
          BY <1>2, <2>2
        <5> QED
          BY <1>2, <5>1, SeqElements
      <4> QED
        BY <4>1
    <3> HIDE DEF M
    <3>2. RemoveAt(rows, 1) = Tail(rows) /\ Tail(rows) \o todo = Tail(rows \o todo)
          /\ rows \o todo # <<>>
      <4>1. rows \in Seq(M) /\ todo \in Seq(M) /\ rows # <<>>
        BY <1>2, <2>2
      <4>2. RemoveAt(rows, 1) = Tail(rows)
        BY <3>1, <4>1, Ends
      <4>3. Tail(rows) \o todo = Tail(rows \o todo)
        BY <3>1, <4>1, Ends
      <4>4. rows \o todo # <<>>
        BY <3>1, <4>1, Ends
      <4> QED
        BY <4>2, <4>3, <4>4
    <3>3. rows \o todo \in Seq(M)
      BY <1>2
    <3> QED
      BY <2>2, <3>2, <3>3
  <2>4. /\ n \in Nat \ {0} /\ rows' \in Seq(M) /\ Len(rows') = n - 1
        /\ \A i \in 1..(n - 1) : rows'[i] = rows[i + 1]
    <3> HIDE DEF M
    <3>1. rows \in Seq(M) /\ rows # <<>>
      BY <1>2, <2>2
    <3>2. rows' = Tail(rows)
      BY <2>3
    <3> QED
      BY <3>1, <3>2
  <2> HIDE DEF n
  <2>5. HistoryTypes'
    <3> HIDE DEF M
    <3> QED
      BY <1>1, <1>2, <2>1, <2>4 DEF HistoryTypes, M
  <2>6. Shaped'
    <3> DEFINE t == rows \o todo
    <3>1. t \in Seq(M) /\ t # <<>> /\ Sound(t) /\ FrontOrCalled(t) /\ Distinct(t)
      BY <2>3 DEF HistoryInv, Shaped
    <3>2. rows' \o todo' = Tail(t)
      BY <1>1, <2>3
    <3> HIDE DEF t
    <3>3. Sound(Tail(t)) /\ FrontOrCalled(Tail(t)) /\ Distinct(Tail(t))
      <4>1. Listable(M)
        BY RowsListable
      <4> HIDE DEF M
      <4> QED
        BY <3>1, <4>1, TailKeeps
    <3> QED
      BY <3>2, <3>3 DEF Shaped
  <2>7. \A i \in 1..(n - 1) : i + 1 \in 1..n /\ rows'[i] = rows[i + 1]
    BY <2>4
  <2>8. Seen' \subseteq Seen
    <3>1. \A x \in ToSet(rows') : x \in ToSet(rows)
      BY <2>4, <2>7, SetOf DEF n
    <3>2. \A d \in Compactors : OldRows(d)' = OldRows(d)
      BY <2>1 DEF OldRows
    <3> HIDE DEF OldRows
    <3> QED
      BY <3>1, <3>2 DEF Seen
  <2>9. OldFirst'
    <3> SUFFICES ASSUME NEW d \in Compactors, NEW i \in 1..(n - 1), NEW j \in 1..(n - 1), i < j,
                        rows'[j] \in OldRows(d)'
                 PROVE  rows'[i] \in OldRows(d)'
      BY <2>4 DEF OldFirst
    <3>1. OldRows(d)' = OldRows(d)
      BY <2>1 DEF OldRows
    <3> HIDE DEF OldRows
    <3>2. i + 1 < j + 1
      BY <2>4
    <3> QED
      BY <2>7, <3>1, <3>2 DEF HistoryInv, OldFirst, n
  <2>10. Pending'
    BY <1>1, <2>1 DEF HistoryInv, Pending, OldRows
  <2>11. AskedSoFar \subseteq AskedSoFar' /\ Answering \subseteq Answering'
    BY <1>1, <1>2, <2>5, AskedGrows
  <2>12. Dated'
    BY <2>1, <2>8, <2>11, DatedStays DEF HistoryInv
  <2>13. CheckpointHolds'
    BY <1>1, <2>1 DEF HistoryInv, CheckpointHolds
  <2>14. NothingForgotten'
    <3> SUFFICES ASSUME faults # {"checkpoint", "summary"}, NEW u \in AskedSoFar' PROVE Covered(u)'
      BY <1>1, CoveredNext
    <3>1. Covered(u)
      BY <1>1, CoveredIs DEF HistoryInv, AskedSoFar
    <3>2. CASE u \in QuestionsIn(rows)
      <4>1. PICK i \in 1..n : /\ u \in Turns /\ u \in rows[i].labels
                               /\ rows[i].labels \cap {"question", "summary"} # {}
        BY <3>2, QuestionsAre DEF n
      <4>2. CASE i = 1
        <5>1. PICK k \in 1..Len(old) : old[k] = rows[1]
          BY <2>2, SetOf DEF OldRows
        <5>2. u \in QuestionsIn(old)
          BY <4>1, <4>2, <5>1, QuestionsAre
        <5> QED
          BY <1>1, <2>1, <5>2 DEF Covered
      <4>3. CASE i # 1
        <5>1. i - 1 \in 1..Len(rows') /\ rows'[i - 1] = rows[i]
          BY <2>4, <4>1, <4>3
        <5>2. u \in QuestionsIn(rows')
          BY <4>1, <5>1, QuestionsAre
        <5> QED
          BY <5>2 DEF Covered
      <4> QED
        BY <4>2, <4>3
    <3>3. CASE u \notin QuestionsIn(rows)
      BY <1>1, <2>1, <3>1, <3>3 DEF Covered
    <3> QED
      BY <3>2, <3>3
  <2> QED
    BY <2>5, <2>6, <2>9, <2>10, <2>12, <2>13, <2>14 DEF HistoryInv
<1> QED
  BY <1>3, <1>4

\* The process dies: what was not stored is lost, and so are summaries in hand.
LEMMA CrashKeeps ==
    ASSUME HistoryInv, Crash
    PROVE  HistoryInv'
<1> DEFINE M == AllRows
           none == <<>>
           gone == [at |-> "done", old |-> none]
           R == [at : CompactionSteps, old : Seq(AllRows)]
           InHand == \E c \in Compactors : compactor[c].at \in {"delete", "insert"}
<1>1. /\ pc' = "idle" /\ todo' = none /\ rows' = rows /\ turn' = turn /\ asked' = asked
      /\ checkpoints' = checkpoints
      /\ compactor' = [c \in Compactors |-> IF compactor[c] = Waiting THEN Waiting ELSE gone]
  BY DEF Crash
<1>2. \/ InHand /\ faults' = faults \cup {"summary"}
      \/ ~ InHand /\ faults' = faults
  BY Zenon DEF Crash
<1>3. rows \in Seq(M) /\ todo \in Seq(M) /\ HistoryTypes
  BY DEF HistoryInv, HistoryTypes
<1>4. gone \in R /\ Waiting \in R /\ Waiting.old = none /\ Waiting.at = "waiting"
      /\ gone.at = "done" /\ gone.old = none
  BY DEF CompactionSteps, Waiting
<1>5. /\ \A c \in Compactors : compactor'[c] \in R
      /\ \A c \in Compactors : compactor'[c].old = none
      /\ \A c \in Compactors : compactor'[c].at \notin {"delete", "insert"}
      /\ \A c \in Compactors : compactor[c].at = "done" => compactor'[c].at = "done"
  <2> SUFFICES ASSUME NEW c \in Compactors
               PROVE  /\ compactor'[c] \in R /\ compactor'[c].old = none
                      /\ compactor'[c].at \notin {"delete", "insert"}
                      /\ compactor[c].at = "done" => compactor'[c].at = "done"
    OBVIOUS
  <2> HIDE DEF gone, R, none
  <2>1. \/ compactor[c] = Waiting /\ compactor'[c] = Waiting
        \/ compactor[c] # Waiting /\ compactor'[c] = gone
    BY <1>1
  <2> QED
    BY <1>4, <2>1
<1>6. HistoryTypes'
  <2> HIDE DEF R
  <2>1. compactor' \in [Compactors -> R]
    BY <1>1, <1>5
  <2>2. faults' \subseteq {"checkpoint", "summary"}
    BY <1>2, <1>3 DEF HistoryTypes
  <2>3. todo' \in Seq(AllRows)
    BY <1>1
  <2> HIDE DEF M
  <2> QED
    BY <1>1, <1>3, <2>1, <2>2, <2>3 DEF HistoryTypes, R, M
<1>7. Shaped'
  <2>1. rows' \o todo' = rows
    <3> HIDE DEF M
    <3> QED
      BY <1>1, <1>3
  <2> HIDE DEF M
  <2>2. Sound(rows) /\ FrontOrCalled(rows) /\ Distinct(rows)
    <3>1. Listable(M)
      BY RowsListable DEF M
    <3> QED
      BY <1>3, <3>1, FrontKeeps DEF HistoryInv, Shaped
  <2> QED
    BY <2>1, <2>2 DEF Shaped
<1>8. OldsShrink
  <2> HIDE DEF R, gone
  <2> QED
    BY <1>5 DEF OldsShrink
<1>9. Seen' \subseteq Seen /\ OldFirst'
  BY <1>1, <1>8, SameRows DEF HistoryInv
<1>10. Pending'
  BY <1>1 DEF Pending
<1>11. AskedSoFar \subseteq AskedSoFar' /\ Answering \subseteq Answering'
  BY <1>1, <1>3, <1>6, AskedGrows
<1>12. Dated'
  BY <1>5, <1>9, <1>11, DatedStays DEF HistoryInv
<1>13. CheckpointHolds'
  BY <1>5 DEF CheckpointHolds
<1>14. NothingForgotten'
  <2> SUFFICES ASSUME faults' # {"checkpoint", "summary"}, NEW u \in AskedSoFar' PROVE Covered(u)'
    BY CoveredNext
  <2>1. faults # {"checkpoint", "summary"}
    BY <1>2
  <2>2. Covered(u)
    BY <1>1, <2>1, CoveredIs DEF HistoryInv, AskedSoFar
  <2>3. CASE InHand
    <3>1. "checkpoint" \notin faults
      BY <1>2, <1>3, <2>3 DEF HistoryTypes
    <3> QED
      BY <1>1, <2>2, <3>1 DEF Covered, HistoryInv, CheckpointHolds
  <2>4. CASE ~ InHand
    BY <1>1, <2>2, <2>4 DEF Covered
  <2> QED
    BY <2>3, <2>4
<1> QED
  BY <1>6, <1>7, <1>9, <1>10, <1>12, <1>13, <1>14 DEF HistoryInv

LEMMA HistoryStep ==
    ASSUME HistoryInv, [HistoryNext]_historyVars
    PROVE  HistoryInv'
<1>1. CASE Ask
  BY <1>1, AskKeeps
<1>2. CASE LoadConversation \/ AssembleContext \/ AssembleShifted
  <2>1. /\ pc = "asked" /\ pc' = "thinking"
        /\ UNCHANGED <<rows, turn, asked, todo, compactVars, crashes, faults>>
    BY <1>2, Zenon DEF LoadConversation, AssembleContext, AssembleShifted, Send
  <2> QED
    BY <2>1, QuietKeeps
<1>3. CASE Answer
  BY <1>3, AnswerKeeps
<1>4. CASE TurnFails
  BY <1>4, QuietKeeps DEF TurnFails
<1>5. CASE StoreMessage
  BY <1>5, StoreKeeps
<1>6. ASSUME NEW c \in Compactors,
             \/ ReadMessages(c) \/ GiveUp(c) \/ Checkpoint(c)
             \/ DeleteOld(c) \/ InsertSummary(c) \/ StatementFails(c)
      PROVE  HistoryInv'
  BY <1>6, ReadMessagesKeeps, GiveUpKeeps, CheckpointKeeps, DeleteOldKeeps,
     InsertSummaryKeeps, StatementFailsKeeps
<1>7. CASE Crash
  BY <1>7, CrashKeeps
<1>8. CASE UNCHANGED historyVars
  <2>1. /\ rows' = rows /\ pc' = pc /\ turn' = turn /\ asked' = asked /\ todo' = todo
        /\ compactor' = compactor /\ checkpoints' = checkpoints /\ faults' = faults
    BY <1>8 DEF historyVars, turnVars, compactVars
  <2>2. HistoryTypes'
    BY <2>1 DEF HistoryInv, HistoryTypes
  <2>3. Shaped'
    BY <2>1 DEF HistoryInv, Shaped
  <2>4. OldsShrink
    BY <2>1 DEF OldsShrink
  <2>5. Seen' \subseteq Seen /\ OldFirst' /\ Pending'
    BY <2>1, <2>4, SameRows DEF HistoryInv
  <2>6. AskedSoFar \subseteq AskedSoFar' /\ Answering \subseteq Answering'
    BY <2>1, <2>2, AskedGrows DEF HistoryInv
  <2>7. Dated'
    BY <2>1, <2>5, <2>6, DatedStays DEF HistoryInv
  <2>8. CheckpointHolds' /\ NothingForgotten'
    BY <2>1 DEF HistoryInv, CheckpointHolds, NothingForgotten
  <2> QED
    BY <2>2, <2>3, <2>5, <2>7, <2>8 DEF HistoryInv
<1> QED
  BY <1>1, <1>2, <1>3, <1>4, <1>5, <1>6, <1>7, <1>8 DEF HistoryNext

LEMMA HistoryInvHolds == HistorySpec => []HistoryInv
<1>1. HistoryInit => HistoryInv
  BY HistoryInitial
<1>2. HistoryInv /\ [HistoryNext]_historyVars => HistoryInv'
  BY HistoryStep
<1> QED
  BY <1>1, <1>2, PTL DEF HistorySpec

(* No question is forgotten unless both its checkpoint and its summary      *)
(* failed, for any number of compactions that overlap each other, the turns *)
(* and crashes.                                                             *)
THEOREM QuestionsAreKept == HistorySpec => []NothingForgotten
<1>1. HistoryInv => NothingForgotten
  BY DEF HistoryInv
<1> QED
  BY <1>1, HistoryInvHolds, PTL

-----------------------------------------------------------------------------
(* What the context builder sends *)

\* The end of a list; results that lose their calls come first there.
LEMMA EndKeeps ==
    ASSUME NEW M, Listable(M), NEW s \in Seq(M), NEW t \in Seq(M), NEW cut \in 0..Len(s),
           Len(t) = Len(s) - cut, \A i \in 1..Len(t) : t[i] = s[i + cut], Sound(s)
    PROVE  Sound(t) /\ (FrontOrCalled(s) => FrontOrCalled(t))
<1> DEFINE g == [i \in 1..Len(t) |-> i + cut]
<1>1. /\ Len(s) \in Nat /\ Len(t) \in Nat
      /\ \A i \in 1..Len(t) : i + cut \in 1..Len(s) /\ t[i] = s[i + cut]
  BY Typed
<1>2. Thins(g, t, s)
  BY <1>1 DEF Thins, Increasing
<1>3. Sound(t)
  <2> HIDE DEF g
  <2> QED
    BY <1>2, ThinnedSound
<1>4. ASSUME FrontOrCalled(s), NEW j \in 1..Len(t), t[j].role = "tool"
      PROVE  \/ \E i \in 1..Len(t) : HasCalls(t[i]) /\ t[j].id \in ToSet(t[i].calls)
             \/ \A k \in 1..(j - 1) : t[k].role \in {"tool", "system"}
  <2>1. /\ \A k \in 1..(j - 1) : k \in 1..Len(t) /\ k + cut \in 1..((j + cut) - 1)
        /\ j + cut \in 1..Len(s) /\ s[j + cut].role = "tool" /\ s[j + cut].id = t[j].id
    BY <1>1, <1>4
  <2>2. CASE \E i \in 1..Len(s) : HasCalls(s[i]) /\ s[j + cut].id \in ToSet(s[i].calls)
    <3>1. PICK i \in 1..Len(s) : HasCalls(s[i]) /\ s[j + cut].id \in ToSet(s[i].calls)
      BY <2>2
    <3>2. i < j + cut /\ Answers(s, i, j + cut)
      BY <2>1, <3>1 DEF Sound, Follows, Indices
    <3>3. CASE i <= cut
      <4>1. \A k \in 1..(j - 1) : k + cut \in (i + 1)..((j + cut) - 1)
        BY <1>1, <3>3
      <4> QED
        BY <1>1, <2>1, <3>2, <4>1 DEF Answers
    <3>4. CASE i > cut
      <4>1. i - cut \in 1..Len(t) /\ (i - cut) + cut = i
        BY <1>1, <3>4
      <4>2. t[i - cut] = s[i]
        BY <1>1, <4>1
      <4> QED
        BY <2>1, <3>1, <4>1, <4>2
    <3> QED
      BY <3>3, <3>4
  <2>3. CASE \A k \in 1..((j + cut) - 1) : s[k].role \in {"tool", "system"}
    BY <1>1, <2>1, <2>3
  <2> QED
    BY <1>4, <2>1, <2>2, <2>3 DEF FrontOrCalled
<1> QED
  BY <1>3, <1>4 DEF FrontOrCalled

\* What is read is the end of the rows, all of them or Newest.
LEMMA ReadPlaces ==
    ASSUME HistoryInv
    PROVE  /\ Read(Newest) \in Seq(AllRows)
           /\ \E cut \in 0..Len(rows) :
                /\ Len(Read(Newest)) = Len(rows) - cut
                /\ \A i \in 1..Len(Read(Newest)) : Read(Newest)[i] = rows[i + cut]
                /\ cut = 0 \/ Len(Read(Newest)) = Newest
<1> DEFINE M == AllRows
           n == Len(rows)
           b == n - Newest + 1
           a == Max({1, b})
           t == SubSeq(rows, a, n)
           cut == a - 1
<1>1. rows \in Seq(M)
  BY DEF HistoryInv, HistoryTypes
<1>2. n \in Nat /\ Newest \in Nat /\ n = Len(rows) /\ \A i \in 1..n : rows[i] \in M
  <2> HIDE DEF M
  <2> QED
    BY <1>1, HistoryAssumption, SeqElements DEF HistoryAssumption
<1>3. Read(Newest) = t
  BY DEF Read, t, a, b, n
<1> HIDE DEF n, M
<1>4. b \in Int /\ b <= n + 1 /\ (b = n - Newest + 1)
  BY <1>2
<1> HIDE DEF b
<1>5. a \in 1..(n + 1) /\ (a = 1 \/ a = b)
  <2>1. \E x \in {1, b} : \A y \in {1, b} : x >= y
    BY <1>4
  <2>2. Max({1, b}) \in {1, b} /\ \A y \in {1, b} : Max({1, b}) >= y
    BY <2>1 DEF Max
  <2> QED
    BY <1>2, <1>4, <2>2
<1> HIDE DEF a
<1>6. /\ t \in Seq(M) /\ Len(t) = n - a + 1
      /\ \A i \in 1..(n - a + 1) : t[i] = rows[a + i - 1]
  <2>1. \A i \in a..n : rows[i] \in M
    BY <1>2, <1>5
  <2>2. a \in 1..(Len(rows) + 1)
    BY <1>2, <1>5
  <2> QED
    BY <1>1, <1>2, <2>1, <2>2, SubSeqProperties
<1> HIDE DEF t
<1>7. Len(t) = n - cut /\ \A i \in 1..Len(t) : i \in 1..(n - a + 1) /\ a + i - 1 = i + cut
  BY <1>2, <1>5, <1>6
<1>8. cut \in 0..n /\ (cut = 0 \/ Len(t) = Newest)
  BY <1>2, <1>4, <1>5, <1>7
<1> HIDE DEF cut
<1>9. \A i \in 1..Len(t) : t[i] = rows[i + cut]
  BY <1>6, <1>7
<1> QED
  BY <1>2, <1>3, <1>6, <1>7, <1>8, <1>9 DEF M

LEMMA ReadIs ==
    ASSUME HistoryInv
    PROVE  /\ Read(Newest) \in Seq(AllRows)
           /\ Sound(Read(Newest)) /\ FrontOrCalled(Read(Newest))
           /\ \A i \in 1..Len(Read(Newest)) : Read(Newest)[i] \in ToSet(rows)
<1> DEFINE M == AllRows
           n == Len(rows)
           t == Read(Newest)
<1>1. rows \in Seq(M) /\ todo \in Seq(M) /\ Sound(rows \o todo) /\ FrontOrCalled(rows \o todo)
  BY DEF HistoryInv, HistoryTypes, Shaped
<1>2. Listable(M)
  BY RowsListable
<1>3. t \in Seq(M) /\ \E cut \in 0..n : Len(t) = n - cut /\ \A i \in 1..Len(t) : t[i] = rows[i + cut]
  BY ReadPlaces
<1> HIDE DEF M, n, t
<1>4. Sound(rows) /\ FrontOrCalled(rows) /\ n \in Nat
  BY <1>1, <1>2, FrontKeeps, Typed DEF n
<1>5. PICK cut \in 0..n : Len(t) = n - cut /\ \A i \in 1..Len(t) : t[i] = rows[i + cut]
  BY <1>3
<1>6. Sound(t) /\ FrontOrCalled(t)
  BY <1>1, <1>2, <1>3, <1>4, <1>5, EndKeeps DEF n
<1>7. ASSUME NEW i \in 1..Len(t) PROVE t[i] \in ToSet(rows)
  <2>1. i + cut \in 1..n /\ t[i] = rows[i + cut]
    BY <1>4, <1>5
  <2> QED
    BY <2>1, SetOf DEF n
<1> QED
  BY <1>3, <1>6, <1>7 DEF M, t

RestoreStep(raw, kept, v, n) ==
    LET at == FirstFrom(raw, v.cursor + 1, LAMBDA m : SameText(m, raw[n]))
    IN  IF n \notin kept THEN v
        ELSE [cursor |-> at,
              list   |-> Append(v.list, [raw[n] EXCEPT !.calls = raw[at].calls,
                                                       !.id = raw[at].id])]

\* After n rows, the list has calls and ids of rows up to the cursor, which is behind none
\* of those that were not looked at.
Restores(v, M, raw, n) ==
    /\ v \in [cursor : Nat, list : Seq(M)]
    /\ v.cursor <= n
    /\ \E g : /\ Thins(g, v.list, raw)
              /\ \A i \in 1..Len(v.list) : g[i] <= v.cursor

LEMMA RestoreStepIs ==
    ASSUME NEW M, Listable(M), NEW raw \in Seq(M), NEW kept, NEW n \in 1..Len(raw), NEW v,
           Restores(v, M, raw, n - 1)
    PROVE  Restores(RestoreStep(raw, kept, v, n), M, raw, n)
<1> DEFINE at == FirstFrom(raw, v.cursor + 1, LAMBDA m : SameText(m, raw[n]))
           J  == {j \in (v.cursor + 1)..Len(raw) : SameText(raw[j], raw[n])}
           K  == J \cup {Len(raw) + 1}
           x  == [raw[n] EXCEPT !.calls = raw[at].calls, !.id = raw[at].id]
           r  == RestoreStep(raw, kept, v, n)
<1>1. Len(raw) \in Nat /\ \A i \in 1..Len(raw) : raw[i] \in M
  BY Typed
<1>2. v.cursor \in Nat /\ v.list \in Seq(M) /\ v.cursor <= n - 1 /\ v \in [cursor : Nat, list : Seq(M)]
  BY DEF Restores
<1>3. PICK g : Thins(g, v.list, raw) /\ \A i \in 1..Len(v.list) : g[i] <= v.cursor
  BY DEF Restores
<1>4. CASE n \notin kept
  <2>1. r = v
    BY <1>4, Zenon DEF RestoreStep
  <2>2. v.cursor <= n
    BY <1>1, <1>2
  <2> QED
    BY <1>2, <1>3, <2>1, <2>2 DEF Restores
<1>5. CASE n \in kept
  <2>1. at \in (v.cursor + 1)..n /\ SameText(raw[at], raw[n])
    <3>1. at = Min(K)
      BY Zenon DEF FirstFrom
    <3>2. n \in (v.cursor + 1)..Len(raw)
      BY <1>1, <1>2
    <3>3. n \in K /\ \A j \in K : j \in Nat /\ j > v.cursor /\ (j <= Len(raw) => SameText(raw[j], raw[n]))
      BY <1>1, <1>2, <3>2 DEF SameText
    <3> HIDE DEF K, at
    <3>4. K \in SUBSET Nat /\ K # {}
      BY <3>3
    <3>5. at \in K /\ at <= n
      BY <3>1, <3>3, <3>4, MinIs
    <3>6. at \in Nat /\ at > v.cursor /\ at <= Len(raw)
      BY <1>1, <3>3, <3>5
    <3>7. SameText(raw[at], raw[n])
      BY <3>3, <3>5, <3>6
    <3>8. at \in (v.cursor + 1)..n
      BY <1>1, <1>2, <3>5, <3>6
    <3> QED
      BY <3>7, <3>8
  <2>2. r = [cursor |-> at, list |-> Append(v.list, x)]
    BY <1>5, Zenon DEF RestoreStep
  <2> HIDE DEF at
  <2>3. at \in 1..Len(raw) /\ at \in Nat /\ at <= n
    BY <1>1, <1>2, <2>1
  <2>4. x \in M /\ x.role = raw[at].role /\ x.calls = raw[at].calls /\ x.id = raw[at].id
    <3>1. PICK Ids, Labels : M = MessageSet(Ids, Labels)
      BY DEF Listable
    <3>2. raw[n] \in M /\ raw[at] \in M
      BY <1>1, <2>3
    <3>3. raw[at].role = raw[n].role
      BY <2>1 DEF SameText
    <3>4. x \in M
      BY <3>1, <3>2 DEF MessageSet
    <3>5. x.role = raw[n].role /\ x.calls = raw[at].calls /\ x.id = raw[at].id
      BY <3>1, <3>2 DEF MessageSet
    <3> QED
      BY <3>3, <3>4, <3>5
  <2> DEFINE q == v.list
             t == Append(q, x)
             m == Len(q)
             h == [i \in 1..(m + 1) |-> IF i \in 1..m THEN g[i] ELSE at]
  <2> HIDE DEF x, r
  <2>5. t \in Seq(M) /\ m \in Nat /\ Len(t) = m + 1 /\ t[m + 1] = x /\ \A i \in 1..m : t[i] = q[i]
    BY <1>2, <2>4
  <2>6. r.cursor = at /\ r.list = t /\ r \in [cursor : Nat, list : Seq(M)]
    <3> HIDE DEF t
    <3> QED
      BY <2>2, <2>3, <2>5 DEF t
  <2> HIDE DEF q, t, m
  <2>7. /\ g \in [1..m -> 1..Len(raw)] /\ Increasing(g, m)
        /\ \A i \in 1..m : /\ q[i].role = raw[g[i]].role /\ q[i].calls = raw[g[i]].calls
                           /\ q[i].id = raw[g[i]].id /\ g[i] <= v.cursor
    BY <1>3 DEF Thins, q, m
  <2>8. \A i \in 1..(m + 1) : i \in 1..m \/ (i = m + 1 /\ i \notin 1..m)
    BY <2>5
  <2>9. h \in [1..(m + 1) -> 1..Len(raw)] /\ (\A i \in 1..m : h[i] = g[i]) /\ h[m + 1] = at
    <3>1. \A i \in 1..m : i \in 1..(m + 1)
      BY <2>5
    <3>2. m + 1 \in 1..(m + 1) /\ m + 1 \notin 1..m
      BY <2>5
    <3> QED
      BY <2>3, <2>7, <3>1, <3>2
  <2> HIDE DEF h
  <2>10. Increasing(h, m + 1)
    <3> SUFFICES ASSUME NEW i \in 1..(m + 1), NEW j \in 1..(m + 1), i < j PROVE h[i] < h[j]
      BY DEF Increasing
    <3>1. i \in 1..m
      BY <2>5
    <3>2. CASE j \in 1..m
      BY <2>7, <2>9, <3>1, <3>2 DEF Increasing
    <3>3. CASE j = m + 1
      <4>1. g[i] <= v.cursor /\ g[i] \in 1..Len(raw) /\ h[i] = g[i] /\ h[j] = at
        BY <2>7, <2>9, <3>1, <3>3
      <4> QED
        BY <1>1, <1>2, <2>1, <4>1
    <3> QED
      BY <2>8, <3>2, <3>3
  <2>11. Thins(h, t, raw)
    <3>1. ASSUME NEW i \in 1..(m + 1)
          PROVE  t[i].role = raw[h[i]].role /\ t[i].calls = raw[h[i]].calls /\ t[i].id = raw[h[i]].id
      <4>1. CASE i \in 1..m
        BY <2>5, <2>7, <2>9, <4>1
      <4>2. CASE i = m + 1
        BY <2>4, <2>5, <2>9, <4>2
      <4> QED
        BY <2>8, <4>1, <4>2
    <3> QED
      BY <2>5, <2>9, <2>10, <3>1 DEF Thins
  <2>12. \A i \in 1..(m + 1) : h[i] <= at
    <3> SUFFICES ASSUME NEW i \in 1..(m + 1) PROVE h[i] <= at
      OBVIOUS
    <3>1. CASE i \in 1..m
      <4>1. h[i] = g[i] /\ g[i] <= v.cursor /\ g[i] \in 1..Len(raw)
        BY <2>7, <2>9, <3>1
      <4> QED
        BY <1>1, <1>2, <2>1, <4>1
    <3>2. CASE i = m + 1
      BY <2>3, <2>9, <3>2
    <3> QED
      BY <2>8, <3>1, <3>2
  <2>13. \A i \in 1..Len(r.list) : h[i] <= r.cursor
    BY <2>5, <2>6, <2>12
  <2>14. r.cursor <= n
    BY <2>3, <2>6
  <2> QED
    BY <2>6, <2>11, <2>13, <2>14 DEF Restores, r
<1> QED
  BY <1>4, <1>5

RestoredUpTo(f, raw, kept) ==
    f = [n \in 0..Len(raw) |->
            IF n = 0 THEN [cursor |-> 0, list |-> <<>>]
            ELSE LET done == f[n - 1]
                     at   == FirstFrom(raw, done.cursor + 1, LAMBDA m : SameText(m, raw[n]))
                 IN  IF n \notin kept THEN done
                     ELSE [cursor |-> at,
                           list   |-> Append(done.list, [raw[n] EXCEPT !.calls = raw[at].calls,
                                                                       !.id = raw[at].id])]]

LEMMA RestoresNone ==
    ASSUME NEW M, NEW raw
    PROVE  Restores([cursor |-> 0, list |-> <<>>], M, raw, 0)
<1> DEFINE v == [cursor |-> 0, list |-> <<>>]
           g == [i \in 1..0 |-> 1]
<1>1. v \in [cursor : Nat, list : Seq(M)] /\ v.cursor = 0 /\ Len(v.list) = 0
  OBVIOUS
<1>2. g \in [1..0 -> 1..Len(raw)]
  OBVIOUS
<1> HIDE DEF g, v
<1>3. Thins(g, v.list, raw) /\ \A i \in 1..Len(v.list) : g[i] <= v.cursor
  BY <1>1, <1>2 DEF Thins, Increasing
<1>4. v.cursor <= 0
  BY <1>1
<1>5. Restores(v, M, raw, 0)
  BY <1>1, <1>3, <1>4 DEF Restores
<1> QED
  BY <1>5 DEF v

LEMMA RestoredExists ==
    ASSUME NEW M, Listable(M), NEW raw \in Seq(M), NEW kept
    PROVE  \E f : RestoredUpTo(f, raw, kept)
<1> DEFINE V == [cursor : Nat, list : Seq(M)]
           v0 == [cursor |-> 0, list |-> <<>>]
           m == Len(raw)
           S(v, n) == RestoreStep(raw, kept, v, n)
           G == [n \in 1..m |-> [v \in V |-> IF S(v, n) \in V THEN S(v, n) ELSE v]]
<1>1. m \in Nat /\ Restores(v0, M, raw, 0)
  BY Typed, RestoresNone
<1>2. v0 \in V
  OBVIOUS
<1>3. G \in StepsOn(m, V)
  <2> HIDE DEF V, S
  <2> QED
    BY DEF StepsOn
<1>4. PICK f \in [0..m -> V] : f[0] = v0 /\ \A n \in 1..m : f[n] = G[n][f[n - 1]]
  <2> HIDE DEF G, V, v0, m
  <2>1. \E f \in Values(m, V) : Built(f, v0, m, G)
    BY <1>1, <1>2, <1>3, Steps
  <2> QED
    BY <2>1 DEF Values, Built
<1>5. ASSUME NEW n \in 1..m PROVE n - 1 \in 0..m /\ f[n - 1] \in V /\ n \in 0..m
  <2>1. n - 1 \in 0..m /\ n \in 0..m
    BY <1>1
  <2> HIDE DEF V, m
  <2> QED
    BY <2>1
<1>6. ASSUME NEW n \in 1..m, Restores(f[n - 1], M, raw, n - 1)
      PROVE  f[n] = S(f[n - 1], n) /\ Restores(f[n], M, raw, n)
  <2>1. Restores(S(f[n - 1], n), M, raw, n)
    BY <1>6, RestoreStepIs
  <2>2. S(f[n - 1], n) \in V
    BY <2>1 DEF Restores
  <2>3. f[n] = G[n][f[n - 1]]
    BY <1>4
  <2> HIDE DEF V, S, m
  <2>4. f[n] = S(f[n - 1], n)
    BY <1>5, <2>2, <2>3
  <2> QED
    BY <2>1, <2>4
<1> HIDE DEF G, V, S
<1>7. \A n \in 0..m : Restores(f[n], M, raw, n)
  <2> DEFINE P == {n \in 0..m : Restores(f[n], M, raw, n)}
  <2>1. 0 \in P /\ P \in SUBSET (0..m)
    BY <1>1, <1>4
  <2>2. \A n \in 1..m : n - 1 \in P => n \in P
    BY <1>5, <1>6
  <2> HIDE DEF P
  <2>3. P = 0..m
    BY <1>1, <2>1, <2>2, Upward
  <2> QED
    BY <2>3 DEF P
<1>8. \A n \in 1..m : f[n] = RestoreStep(raw, kept, f[n - 1], n)
  BY <1>5, <1>6, <1>7 DEF S
<1> DEFINE h == [n \in 0..Len(raw) |->
                   IF n = 0 THEN [cursor |-> 0, list |-> <<>>]
                   ELSE LET done == f[n - 1]
                            at   == FirstFrom(raw, done.cursor + 1, LAMBDA x : SameText(x, raw[n]))
                        IN  IF n \notin kept THEN done
                            ELSE [cursor |-> at,
                                  list   |-> Append(done.list,
                                                    [raw[n] EXCEPT !.calls = raw[at].calls,
                                                                   !.id = raw[at].id])]]
<1>9. ASSUME NEW n \in 0..Len(raw) PROVE f[n] = h[n]
  <2>1. CASE n = 0
    BY <1>4, <2>1
  <2>2. CASE n # 0
    <3>1. n \in 1..m
      BY <1>1, <2>2
    <3>2. f[n] = RestoreStep(raw, kept, f[n - 1], n)
      BY <1>8, <3>1
    <3> QED
      BY <2>2, <3>2, Zenon DEF RestoreStep
  <2> QED
    BY <2>1, <2>2
<1>10. f = h
  <2>1. f = [n \in 0..m |-> f[n]]
    <3> HIDE DEF m
    <3> QED
      OBVIOUS
  <2>2. [n \in 0..m |-> f[n]] = h
    BY <1>9, Zenon
  <2> QED
    BY <2>1, <2>2
<1> QED
  <2> HIDE DEF m
  <2> QED
    BY <1>10, Zenon DEF RestoredUpTo

\* The list that is restored has roles, calls and ids of rows, in the order of these.
LEMMA RestoredIs ==
    ASSUME NEW M, Listable(M), NEW raw \in Seq(M), NEW kept
    PROVE  Restored(raw, kept) \in Seq(M) /\ \E g : Thins(g, Restored(raw, kept), raw)
<1> DEFINE f == CHOOSE f : RestoredUpTo(f, raw, kept)
           P == {n \in 0..Len(raw) : Restores(f[n], M, raw, n)}
<1>1. Len(raw) \in Nat
  BY Typed
<1>2. RestoredUpTo(f, raw, kept)
  BY RestoredExists
<1>3. Restored(raw, kept) = f[Len(raw)].list
  BY Zenon DEF Restored, RestoredUpTo
<1> HIDE DEF f
<1>4. /\ f[0] = [cursor |-> 0, list |-> <<>>]
      /\ \A n \in 1..Len(raw) : f[n] = RestoreStep(raw, kept, f[n - 1], n)
  <2>1. 0 \in 0..Len(raw) /\ \A n \in 1..Len(raw) : n \in 0..Len(raw) /\ n # 0
    BY <1>1
  <2> QED
    BY <1>2, <2>1, Zenon DEF RestoredUpTo, RestoreStep
<1>5. 0 \in P /\ P \in SUBSET (0..Len(raw))
  BY <1>1, <1>4, RestoresNone
<1>6. \A n \in 1..Len(raw) : n - 1 \in P => n \in P
  <2> SUFFICES ASSUME NEW n \in 1..Len(raw), Restores(f[n - 1], M, raw, n - 1)
               PROVE  Restores(f[n], M, raw, n) /\ n \in 0..Len(raw)
    OBVIOUS
  <2>1. f[n] = RestoreStep(raw, kept, f[n - 1], n) /\ n \in 0..Len(raw)
    BY <1>1, <1>4
  <2> QED
    BY <2>1, RestoreStepIs
<1>7. Restores(f[Len(raw)], M, raw, Len(raw))
  <2> HIDE DEF P
  <2>1. P = 0..Len(raw)
    BY <1>1, <1>5, <1>6, Upward
  <2> QED
    BY <1>1, <2>1 DEF P
<1> QED
  BY <1>3, <1>7 DEF Restores

LEMMA MergedFirst ==
    ASSUME NEW M, Listable(M), NEW s \in Seq(M), NEW role, MergeNeighbours(s, role) # <<>>
    PROVE  s # <<>> /\ MergeNeighbours(s, role)[1].role = s[1].role
<1> DEFINE f == CHOOSE f : MergedUpTo(f, s, role)
           t == MergeNeighbours(s, role)
           Done(n) == /\ f[n] \in Seq(M)
                      /\ IF n = 0 THEN f[n] = <<>>
                         ELSE Len(f[n]) > 0 /\ f[n][1].role = s[1].role
           P == {n \in 0..Len(s) : Done(n)}
<1>1. Len(s) \in Nat /\ \A i \in 1..Len(s) : s[i] \in M
  BY Typed
<1>2. MergedUpTo(f, s, role)
  BY MergedExists
<1>3. t = f[Len(s)]
  BY Zenon DEF MergeNeighbours, MergedUpTo
<1> HIDE DEF f, t
<1>4. f[0] = <<>> /\ \A n \in 1..Len(s) : f[n] = MergeStep(f[n - 1], s[n], role)
  <2>1. 0 \in 0..Len(s) /\ \A n \in 1..Len(s) : n \in 0..Len(s) /\ n # 0
    BY <1>1
  <2> QED
    BY <1>2, <2>1, Zenon DEF MergedUpTo, MergeStep
<1>5. Done(0)
  <2>1. <<>> \in Seq(M)
    OBVIOUS
  <2> QED
    BY <1>4, <2>1
<1>6. ASSUME NEW n \in 1..Len(s), Done(n - 1) PROVE Done(n)
  <2> DEFINE q == f[n - 1]
             x == s[n]
             r == f[n]
  <2>1. r = MergeStep(q, x, role) /\ q \in Seq(M) /\ x \in M
    BY <1>1, <1>4, <1>6
  <2>2. IF n = 1 THEN q = <<>> ELSE Len(q) > 0 /\ q[1].role = s[1].role
    <3>1. n - 1 = 0 <=> n = 1
      OBVIOUS
    <3> QED
      BY <1>6, <3>1
  <2> HIDE DEF q, r
  <2>3. /\ r \in Seq(M) /\ (MergesLast(q, x, role, r) \/ Appends(q, x, r))
        /\ Len(q) \in Nat /\ Len(r) \in Nat /\ \A i \in 1..Len(q) : q[i] \in M
    <3>1. r \in Seq(M) /\ (MergesLast(q, x, role, r) \/ Appends(q, x, r))
      BY <2>1, MergeStepIs
    <3> QED
      BY <2>1, <3>1, Typed
  <2>4. CASE MergesLast(q, x, role, r)
    <3>1. Len(q) > 0 /\ Len(r) = Len(q) /\ r[Len(r)] = Joined(q[Len(q)], x)
          /\ \A i \in 1..Len(r) : i < Len(r) => r[i] = q[i]
      BY <2>4 DEF MergesLast
    <3>2. n # 1 /\ q[1].role = s[1].role
      <4>1. Len(<<>>) = 0
        OBVIOUS
      <4> QED
        BY <2>2, <3>1, <4>1
    <3>3. Joined(q[Len(q)], x).role = q[Len(q)].role
      <4>1. q[Len(q)] \in M
        BY <2>3, <3>1
      <4> QED
        BY <2>1, <4>1, JoinedIs
    <3>4. r[1].role = q[1].role
      <4>1. CASE Len(r) = 1
        BY <3>1, <3>3, <4>1
      <4>2. CASE Len(r) # 1
        <5>1. 1 \in 1..Len(r) /\ 1 < Len(r)
          BY <2>3, <3>1, <4>2
        <5> QED
          BY <3>1, <5>1
      <4> QED
        BY <4>1, <4>2
    <3> QED
      BY <2>3, <3>1, <3>2, <3>4 DEF r
  <2>5. CASE Appends(q, x, r)
    <3>1. Len(r) = Len(q) + 1 /\ (\A i \in 1..Len(q) : r[i] = q[i]) /\ r[Len(r)] = x
      BY <2>5 DEF Appends
    <3>2. CASE n = 1
      <4>1. Len(q) = 0
        BY <2>2, <3>2
      <4> QED
        BY <2>3, <3>1, <3>2, <4>1 DEF r
    <3>3. CASE n # 1
      <4>1. 1 \in 1..Len(q) /\ q[1].role = s[1].role
        BY <2>2, <2>3, <3>3
      <4> QED
        BY <2>3, <3>1, <4>1 DEF r
    <3> QED
      BY <3>2, <3>3
  <2> QED
    BY <2>3, <2>4, <2>5
<1>7. Done(Len(s))
  <2> HIDE DEF Done
  <2>1. 0 \in P /\ P \in SUBSET (0..Len(s))
    BY <1>1, <1>5
  <2>2. \A k \in 1..Len(s) : k - 1 \in P => k \in P
    BY <1>1, <1>6
  <2> HIDE DEF P
  <2>3. P = 0..Len(s)
    BY <1>1, <2>1, <2>2, Upward
  <2> QED
    BY <1>1, <2>3 DEF P
<1>8. Len(s) # 0
  BY <1>3, <1>7 DEF t
<1> QED
  BY <1>1, <1>3, <1>7, <1>8 DEF t

LEMMA DropLeadingFirst ==
    ASSUME NEW M, Listable(M), NEW s \in Seq(M), DropLeading(s) # <<>>
    PROVE  DropLeading(s)[1].role \in {"system", "user"}
<1> DEFINE t     == DropLeading(s)
           first == FirstNonSystem(s)
           J     == Having(s, {"user"})
           user  == First(Len(s), first, J)
           I     == {i \in 1..Len(s) : i < first \/ i >= user}
<1>1. Len(s) \in Nat
  BY Typed
<1>2. first \in 1..(Len(s) + 1) /\ \A i \in 1..Len(s) : i < first => s[i].role = "system"
  BY FirstNonSystemIs
<1> HIDE DEF first
<1>3. user \in first..(Len(s) + 1) /\ (user <= Len(s) => user \in J)
  <2> HIDE DEF J
  <2> QED
    BY <1>1, <1>2, FirstIs
<1>4. t = Keep(s, I)
  <2>1. first \in Nat \ {0}
    BY <1>1, <1>2
  <2>2. FirstFrom(s, first, LAMBDA m : m.role = "user") = user
    BY <2>1, Searches, Zenon
  <2> QED
    BY <2>2, Zenon DEF DropLeading, first, Indices
<1>5. user <= Len(s) => s[user].role = "user"
  BY <1>3 DEF Having
<1>6. \A j \in 1..Len(s) : j \in I <=> j < first \/ j >= user
  OBVIOUS
<1> HIDE DEF I, user
<1>7. t \in Seq(M) /\ \E g : TakenAt(g, t, s, I)
  <2> HIDE DEF t
  <2> QED
    BY <1>4, KeepTakes
<1>8. t # <<>>
  OBVIOUS
<1> HIDE DEF t
<1>9. PICK g : TakenAt(g, t, s, I)
  BY <1>7
<1>10. Len(t) \in Nat /\ 1 \in 1..Len(t) /\ g[1] \in 1..Len(s) /\ t[1] = s[g[1]] /\ g[1] \in I
  BY <1>7, <1>8, <1>9 DEF TakenAt
<1>11. CASE g[1] < first
  BY <1>2, <1>10, <1>11 DEF t
<1>12. CASE g[1] >= user
  <2>1. user \in 1..Len(s)
    BY <1>1, <1>2, <1>3, <1>10, <1>12
  <2>2. user \in I
    BY <1>1, <1>6, <2>1
  <2>3. PICK k \in 1..Len(t) : g[k] = user
    BY <1>9, <2>1, <2>2 DEF TakenAt
  <2>4. k = 1 \/ g[1] < g[k]
    BY <1>9, <1>10, <2>3 DEF TakenAt, Increasing
  <2>5. g[1] = user
    BY <1>1, <1>10, <1>12, <2>1, <2>3, <2>4
  <2> QED
    BY <1>5, <1>10, <2>1, <2>5 DEF t
<1> QED
  BY <1>6, <1>10, <1>11, <1>12

LEMMA NormalizedFirst ==
    ASSUME NEW M, Listable(M), NEW s \in Seq(M), NormalizeRoleAlternation(s) # <<>>
    PROVE  NormalizeRoleAlternation(s)[1].role \in {"system", "user"}
<1> DEFINE dropped == DropLeading(s)
           users   == MergeNeighbours(dropped, "user")
           both    == MergeNeighbours(users, "assistant")
<1>1. dropped \in Seq(M)
  BY DropLeadingKeeps
<1>2. dropped # <<>> => dropped[1].role \in {"system", "user"}
  BY DropLeadingFirst
<1> HIDE DEF dropped
<1>3. users \in Seq(M) /\ (users # <<>> => dropped # <<>> /\ users[1].role = dropped[1].role)
  <2>1. "user" \in Speakers
    BY DEF Speakers
  <2>2. PICK L : L = {}
    OBVIOUS
  <2>3. users \in Seq(M)
    <3>1. "attachment" \notin L
      BY <2>2
    <3> QED
      BY <1>1, <2>1, <3>1, MergeKeeps
  <2> QED
    BY <1>1, <2>3, MergedFirst
<1> HIDE DEF users
<1>4. both # <<>> => users # <<>> /\ both[1].role = users[1].role
  BY <1>3, MergedFirst
<1> HIDE DEF both
<1>5. NormalizeRoleAlternation(s) = both
  BY DEF NormalizeRoleAlternation, both, users, dropped
<1> QED
  BY <1>2, <1>3, <1>4, <1>5

LEMMA SanitizedPaired ==
    ASSUME NEW M, Listable(M), NEW s \in Seq(M), Sound(s)
    PROVE  SanitizeToolPairs(s) \in Seq(M) /\ WellPaired(SanitizeToolPairs(s))
<1> DEFINE stripped == StripLeadingResults(s)
           filled   == FillResults(stripped)
<1>1. stripped \in Seq(M) /\ Sound(stripped)
  BY TakenSound, Zenon DEF StripLeadingResults
<1> HIDE DEF stripped
<1>2. filled \in Seq(M) /\ Answered(filled) /\ OneAnswer(filled)
  BY <1>1, FillSound
<1> HIDE DEF filled
<1>3. DropOrphans(filled) \in Seq(M) /\ WellPaired(DropOrphans(filled))
  BY <1>2, DropKeeps
<1>4. SanitizeToolPairs(s) = DropOrphans(filled)
  BY DEF SanitizeToolPairs, filled, stripped
<1> QED
  BY <1>3, <1>4

LEMMA PlainIs ==
    ASSUME NEW label \in RowLabels
    PROVE  /\ Plain("system", label) \in AllRows /\ Plain("system", label).role = "system"
           /\ Plain("system", label).labels = {label} /\ ~ HasCalls(Plain("system", label))
<1>1. NoId \in RowIds /\ "system" \in Roles
  BY DEF RowIds, Roles
<1> HIDE DEF RowIds, RowLabels
<1>2. Plain("system", label) \in AllRows
  BY <1>1, MadeTypes DEF AllRows
<1> QED
  BY <1>2 DEF Plain, Message, HasCalls

\* A system message that is no summary has only others of the kind before it.
Fronted(s) ==
    \A i \in 1..Len(s) : s[i].role = "system" /\ "summary" \notin s[i].labels =>
        \A k \in 1..i : s[k].role = "system"

\* System messages in front.
LEMMA PromptedSound ==
    ASSUME NEW s \in Seq(AllRows), Sound(s), NEW a \in Seq(AllRows),
           \A i \in 1..Len(a) : a[i].role = "system"
    PROVE  /\ a \o s \in Seq(AllRows) /\ Sound(a \o s)
           /\ FrontOrCalled(s) => FrontOrCalled(a \o s)
           /\ Fronted(s) => Fronted(a \o s)
<1> DEFINE M == AllRows
           t == a \o s
           N == {}
           U == RowIds
           n == Len(a)
<1>1. Uses(s, U)
  BY TypedUses
<1> HIDE DEF M, U, N
<1>2. Sound(a) /\ Uses(a, N) /\ N \cap U = {}
  BY DEF Sound, OneAnswer, OneCall, Follows, Uses, Indices, HasCalls, N
<1>3. s \in Seq(M) /\ a \in Seq(M)
  BY DEF M
<1>4. Sound(t) /\ t \in Seq(M)
  <2>1. t \in Seq(M)
    BY <1>3, Concat
  <2> QED
    BY <1>1, <1>2, <1>3, <2>1, JoinedSound
<1>5. /\ Len(s) \in Nat /\ n \in Nat /\ Len(t) = n + Len(s)
      /\ \A p \in 1..Len(s) : n + p \in 1..Len(t) /\ t[n + p] = s[p]
      /\ \A p \in 1..Len(t) :
           \/ p \in 1..n /\ t[p] = a[p]
           \/ p > n /\ p - n \in 1..Len(s) /\ t[p] = s[p - n]
  BY <1>3, Places
<1> HIDE DEF t, n
<1>6. \A p \in 1..n : p \in 1..Len(t) /\ t[p].role = "system"
  BY <1>5 DEF n
<1>7. ASSUME FrontOrCalled(s), NEW j \in 1..Len(t), t[j].role = "tool"
      PROVE  \/ \E i \in 1..Len(t) : HasCalls(t[i]) /\ t[j].id \in ToSet(t[i].calls)
             \/ \A k \in 1..(j - 1) : t[k].role \in {"tool", "system"}
  <2>1. j - n \in 1..Len(s) /\ t[j] = s[j - n]
    BY <1>5, <1>6, <1>7
  <2>2. CASE \E i \in 1..Len(s) : HasCalls(s[i]) /\ s[j - n].id \in ToSet(s[i].calls)
    BY <1>5, <2>1, <2>2
  <2>3. CASE \A k \in 1..((j - n) - 1) : s[k].role \in {"tool", "system"}
    <3> SUFFICES ASSUME NEW k \in 1..(j - 1) PROVE t[k].role \in {"tool", "system"}
      OBVIOUS
    <3>1. j \in 1..Len(t) /\ Len(t) \in Nat /\ n \in Nat
      BY <1>5, <1>7
    <3>2. k \in 1..Len(t)
      BY <3>1
    <3>3. CASE k \in 1..n
      BY <1>6, <3>3
    <3>4. CASE k > n
      <4>1. k - n \in 1..((j - n) - 1) /\ ~ k \in 1..n
        BY <3>1, <3>4
      <4>2. t[k] = s[k - n]
        BY <1>5, <3>2, <4>1
      <4> QED
        BY <2>3, <4>1, <4>2
    <3> QED
      BY <3>1, <3>3, <3>4
  <2> QED
    BY <1>7, <2>1, <2>2, <2>3 DEF FrontOrCalled
<1>8. ASSUME Fronted(s), NEW i \in 1..Len(t), t[i].role = "system", "summary" \notin t[i].labels,
             NEW k \in 1..i
      PROVE  t[k].role = "system"
  <2>1. k \in 1..Len(t) /\ (k > n => i > n /\ k - n \in 1..(i - n))
    BY <1>5
  <2>2. CASE k \in 1..n
    BY <1>6, <2>2
  <2>3. CASE k > n
    <3>1. i > n /\ k - n \in 1..(i - n) /\ i - n \in 1..Len(s) /\ t[i] = s[i - n] /\ t[k] = s[k - n]
      BY <1>5, <2>1, <2>3
    <3> QED
      BY <1>8, <3>1 DEF Fronted
  <2> QED
    BY <1>5, <2>1, <2>2, <2>3
<1> QED
  BY <1>4, <1>7, <1>8 DEF FrontOrCalled, Fronted, t, M

LEMMA PromptIs ==
    /\ Prompt \in AllRows /\ Prompt.role = "system"
    /\ <<Prompt>> \in Seq(AllRows) /\ Len(<<Prompt>>) = 1 /\ <<Prompt>>[1] = Prompt
<1>1. Prompt \in AllRows /\ Prompt.role = "system"
  <2>1. "prompt" \in RowLabels
    BY DEF RowLabels
  <2> QED
    BY <2>1, PlainIs DEF Prompt
<1> DEFINE M == AllRows
<1>2. Prompt \in M
  BY <1>1
<1> HIDE DEF M
<1>3. <<Prompt>> \in Seq(M) /\ Len(<<Prompt>>) = 1 /\ <<Prompt>>[1] = Prompt
  BY <1>2
<1> QED
  BY <1>1, <1>3 DEF M

LEMMA AssembledPaired ==
    ASSUME HistoryInv, NEW budget
    PROVE  /\ Assembled(budget) \in Seq(AllRows) /\ WellPaired(Assembled(budget))
           /\ Assembled(budget) # <<>> => Assembled(budget)[1].role \in {"system", "user"}
<1> DEFINE M    == AllRows
           raw  == Read(Newest)
           list == Restored(raw, Trimmed(raw, budget))
           all  == <<Prompt>> \o list
           san  == SanitizeToolPairs(all)
<1>1. Listable(M)
  BY RowsListable
<1>2. raw \in Seq(M) /\ Sound(raw)
  BY ReadIs
<1> HIDE DEF raw, M
<1>3. list \in Seq(M) /\ \E g : Thins(g, list, raw)
  BY <1>1, <1>2, RestoredIs
<1> HIDE DEF list
<1>4. Sound(list)
  BY <1>1, <1>2, <1>3, ThinnedSound
<1>5. all \in Seq(M) /\ Sound(all)
  <2> DEFINE a == <<Prompt>>
  <2>1. a \in Seq(AllRows) /\ \A i \in 1..Len(a) : a[i].role = "system"
    BY PromptIs
  <2> HIDE DEF a
  <2>2. a \o list \in Seq(AllRows) /\ Sound(a \o list)
    BY <1>3, <1>4, <2>1, PromptedSound DEF M
  <2> QED
    BY <2>2 DEF a, M
<1> HIDE DEF all
<1>6. san \in Seq(M) /\ WellPaired(san)
  BY <1>1, <1>5, SanitizedPaired
<1>7. Assembled(budget) = NormalizeRoleAlternation(san)
  BY DEF Assembled, san, all, list, raw
<1> HIDE DEF san
<1>8. /\ NormalizeRoleAlternation(san) \in Seq(M) /\ WellPaired(NormalizeRoleAlternation(san))
      /\ NormalizeRoleAlternation(san) # <<>> =>
           NormalizeRoleAlternation(san)[1].role \in {"system", "user"}
  <2>1. /\ NormalizeRoleAlternation(san) \in Seq(M) /\ WellPaired(NormalizeRoleAlternation(san))
        /\ Carries(NormalizeRoleAlternation(san), san, {})
    <3>1. "attachment" \notin {}
      OBVIOUS
    <3> QED
      BY <1>1, <1>6, <3>1, NormalizeKeeps
  <2> QED
    BY <1>1, <1>6, <2>1, NormalizedFirst
<1> QED
  BY <1>7, <1>8 DEF M

\* Without calls and results there is nothing to pair.
LEMMA WithoutToolsPaired ==
    ASSUME NEW s \in Seq(AllRows), s # <<>>, s[1].role \in {"system", "user"}
    PROVE  WellPaired(WithoutTools(s))
<1> DEFINE M    == AllRows
           shift == Plain("system", "shift")
           rest == Tail(s)
           I    == {i \in Indices(rest) : rest[i].role # "tool" /\ ~ HasCalls(rest[i])}
           kept == Keep(rest, I)
           a    == <<s[1], shift>>
           t    == a \o kept
           Quiet(m) == m.role # "tool" /\ ~ HasCalls(m)
<1>1. rest \in Seq(M) /\ s[1] \in M
  <2> HIDE DEF M
  <2>1. s \in Seq(M) /\ s # <<>>
    BY DEF M
  <2> QED
    BY <2>1
<1>2. shift \in M /\ Quiet(shift)
  <2>1. "shift" \in RowLabels
    BY DEF RowLabels
  <2> QED
    BY <2>1, PlainIs
<1> HIDE DEF shift, rest
<1>3. kept \in Seq(M) /\ \A i \in 1..Len(kept) : Quiet(kept[i])
  <2>1. \A i \in I : Quiet(rest[i])
    OBVIOUS
  <2> HIDE DEF I, M
  <2>2. kept \in Seq(M) /\ \E g : TakenAt(g, kept, rest, I)
    BY <1>1, KeepTakes
  <2> HIDE DEF kept, Quiet
  <2> QED
    BY <2>1, <2>2 DEF TakenAt
<1>4. Quiet(s[1])
  BY DEF HasCalls
<1> HIDE DEF kept, Quiet, M
<1>5. a \in Seq(M) /\ Len(a) = 2 /\ a[1] = s[1] /\ a[2] = shift
  BY <1>1, <1>2
<1> HIDE DEF a
<1>6. \A p \in 1..Len(t) : Quiet(t[p])
  <2>1. \A p \in 1..Len(t) :
             \/ p \in 1..Len(a) /\ t[p] = a[p]
             \/ p > Len(a) /\ p - Len(a) \in 1..Len(kept) /\ t[p] = kept[p - Len(a)]
    <3>1. a \in Seq(M) /\ kept \in Seq(M)
      BY <1>3, <1>5
    <3> QED
      BY <3>1, Places
  <2>2. \A p \in 1..Len(a) : p = 1 \/ p = 2
    BY <1>5
  <2> HIDE DEF t
  <2> QED
    BY <1>2, <1>3, <1>4, <1>5, <2>1, <2>2
<1>7. WithoutTools(s) = t
  BY Zenon DEF WithoutTools, t, a, kept, I, rest, shift
<1> HIDE DEF t
<1> QED
  BY <1>6, <1>7 DEF WellPaired, Indices, Quiet

-----------------------------------------------------------------------------
(* What load_conversation sends *)

\* A result that nobody calls has a system message before it, and no more than
\* other results in between.
Behind(s, k, j) == s[k].role = "system" /\ \A h \in (k + 1)..(j - 1) : s[h].role = "tool"
Traced(s) ==
    \A j \in 1..Len(s) : s[j].role = "tool" =>
        \/ \E i \in 1..Len(s) : HasCalls(s[i]) /\ s[j].id \in ToSet(s[i].calls)
        \/ \E k \in 1..(j - 1) : Behind(s, k, j)

LEMMA TakenFronted ==
    ASSUME NEW M, Listable(M), NEW s \in Seq(M), NEW t \in Seq(M), NEW I, NEW g,
           TakenAt(g, t, s, I), Fronted(s)
    PROVE  Fronted(t)
<1>1. Len(s) \in Nat /\ Len(t) \in Nat
  BY Typed
<1> SUFFICES ASSUME NEW i \in 1..Len(t), t[i].role = "system", "summary" \notin t[i].labels,
                    NEW k \in 1..i
             PROVE  t[k].role = "system"
  BY DEF Fronted
<1>2. k \in 1..Len(t) /\ (k = i \/ k < i)
  BY <1>1
<1>3. /\ g[i] \in 1..Len(s) /\ t[i] = s[g[i]] /\ g[k] \in 1..Len(s) /\ t[k] = s[g[k]]
      /\ k < i => g[k] < g[i]
  BY <1>2 DEF TakenAt, Increasing
<1>4. k = i \/ g[k] \in 1..g[i]
  BY <1>2, <1>3
<1> QED
  BY <1>3, <1>4 DEF Fronted

\* Without some results of the list, the others are called or in front as before.
LEMMA TakenFrontOrCalled ==
    ASSUME NEW M, Listable(M), NEW s \in Seq(M), NEW t \in Seq(M), NEW I, NEW g,
           TakenAt(g, t, s, I), \A i \in 1..Len(s) : s[i].role # "tool" => i \in I,
           FrontOrCalled(s)
    PROVE  FrontOrCalled(t)
<1>1. Len(s) \in Nat /\ Len(t) \in Nat
  BY Typed
<1> SUFFICES ASSUME NEW j \in 1..Len(t), t[j].role = "tool"
             PROVE  \/ \E i \in 1..Len(t) : HasCalls(t[i]) /\ t[j].id \in ToSet(t[i].calls)
                    \/ \A k \in 1..(j - 1) : t[k].role \in {"tool", "system"}
  BY DEF FrontOrCalled
<1>2. g[j] \in 1..Len(s) /\ t[j] = s[g[j]]
  BY DEF TakenAt
<1>3. CASE \E i \in 1..Len(s) : HasCalls(s[i]) /\ s[g[j]].id \in ToSet(s[i].calls)
  <2>1. PICK i \in 1..Len(s) : HasCalls(s[i]) /\ s[g[j]].id \in ToSet(s[i].calls)
    BY <1>3
  <2>2. i \in I
    BY <2>1 DEF HasCalls
  <2>3. PICK h \in 1..Len(t) : g[h] = i
    BY <2>2 DEF TakenAt
  <2>4. t[h] = s[i]
    BY <2>3 DEF TakenAt
  <2> QED
    BY <1>2, <2>1, <2>4
<1>4. CASE \A k \in 1..(g[j] - 1) : s[k].role \in {"tool", "system"}
  <2> SUFFICES ASSUME NEW k \in 1..(j - 1) PROVE t[k].role \in {"tool", "system"}
    OBVIOUS
  <2>1. k \in 1..Len(t) /\ k < j
    BY <1>1
  <2>2. g[k] \in 1..Len(s) /\ g[k] < g[j] /\ t[k] = s[g[k]]
    BY <2>1 DEF TakenAt, Increasing
  <2>3. g[k] \in 1..(g[j] - 1)
    BY <1>1, <1>2, <2>2
  <2> QED
    BY <1>4, <2>2, <2>3
<1> QED
  BY <1>2, <1>3, <1>4 DEF FrontOrCalled

LEMMA TakenBehind ==
    ASSUME NEW M, Listable(M), NEW s \in Seq(M), NEW t \in Seq(M), NEW I, NEW g,
           TakenAt(g, t, s, I), NEW p \in 1..Len(t), NEW k \in 1..(g[p] - 1),
           Behind(s, k, g[p]), k \in I
    PROVE  \E q \in 1..(p - 1) : Behind(t, q, p) /\ t[q] = s[k]
<1>1. Len(s) \in Nat /\ Len(t) \in Nat
  BY Typed
<1>2. g[p] \in 1..Len(s) /\ k \in 1..Len(s) /\ k < g[p] /\ g \in [1..Len(t) -> 1..Len(s)]
  BY <1>1 DEF TakenAt
<1>3. PICK q \in 1..Len(t) : g[q] = k
  BY <1>2 DEF TakenAt
<1>4. q < p
  BY <1>1, <1>2, <1>3, Reflects DEF TakenAt
<1>5. t[q] = s[k]
  BY <1>3 DEF TakenAt
<1>6. ASSUME NEW h \in (q + 1)..(p - 1) PROVE t[h].role = "tool"
  <2>1. h \in 1..Len(t) /\ q < h /\ h < p
    BY <1>1
  <2>2. g[h] \in 1..Len(s) /\ g[q] < g[h] /\ g[h] < g[p] /\ t[h] = s[g[h]]
    BY <2>1 DEF TakenAt, Increasing
  <2>3. g[h] \in (k + 1)..(g[p] - 1)
    BY <1>1, <1>2, <1>3, <2>2
  <2> QED
    BY <2>2, <2>3 DEF Behind
<1>7. q \in 1..(p - 1)
  BY <1>1, <1>4
<1> QED
  BY <1>5, <1>6, <1>7 DEF Behind

\* The last system message before a result, if nobody spoke since an earlier one.
LEMMA LastSystem ==
    ASSUME NEW M, Listable(M), NEW s \in Seq(M), NEW j \in 1..Len(s), NEW e \in 1..(j - 1),
           s[e].role = "system", \A h \in (e + 1)..(j - 1) : s[h].role \in {"tool", "system"}
    PROVE  \E k \in 1..(j - 1) : Behind(s, k, j)
<1> DEFINE T == {k \in 1..(j - 1) : s[k].role = "system"}
<1>1. Len(s) \in Nat /\ j \in Nat
  BY Typed
<1>2. e \in T /\ T \in SUBSET Nat /\ \A y \in T : y <= j
  BY <1>1
<1>3. \A y \in T : y \in 1..(j - 1) /\ s[y].role = "system"
  OBVIOUS
<1>4. \A y \in 1..(j - 1) : s[y].role = "system" => y \in T
  OBVIOUS
<1> HIDE DEF T
<1>5. PICK k \in T : \A y \in T : y <= k
  BY <1>1, <1>2, Greatest
<1>6. k \in 1..(j - 1) /\ s[k].role = "system" /\ e <= k
  BY <1>2, <1>3, <1>5
<1>7. ASSUME NEW h \in (k + 1)..(j - 1) PROVE s[h].role = "tool"
  <2>1. h \in (e + 1)..(j - 1) /\ h \in 1..(j - 1) /\ ~ (h <= k)
    BY <1>1, <1>6
  <2>2. h \notin T
    BY <1>5, <2>1
  <2> QED
    BY <1>4, <2>1, <2>2
<1> QED
  BY <1>6, <1>7 DEF Behind

\* The results of a call that are not right behind it have a system message before them.
LEMMA ResultsAtIs ==
    ASSUME NEW M, Listable(M), NEW s \in Seq(M), NEW i \in 1..Len(s)
    PROVE  /\ \A j \in ResultsAt(s, i) : j \in (i + 1)..Len(s) /\ s[j].role = "tool"
           /\ \A j \in (i + 1)..Len(s) : Answers(s, i, j) /\ j \notin ResultsAt(s, i) =>
                \E k \in 1..(j - 1) : Behind(s, k, j)
<1> DEFINE J   == Having(s, Roles \ {"tool"})
           end == First(Len(s), i + 1, J)
<1>1. Len(s) \in Nat /\ \A k \in 1..Len(s) : s[k] \in M /\ s[k].role \in Roles
  BY Typed
<1>2. /\ end \in (i + 1)..(Len(s) + 1)
      /\ \A k \in (i + 1)..Len(s) : k < end => k \notin J
      /\ end <= Len(s) => end \in J
  <2>1. i + 1 \in 1..(Len(s) + 1)
    BY <1>1
  <2> HIDE DEF J
  <2> QED
    BY <1>1, <2>1, FirstIs
<1>3. ResultsAt(s, i) = {j \in (i + 1)..(end - 1) : s[j].id \in ToSet(s[i].calls)}
  <2>1. i + 1 \in Nat \ {0}
    BY <1>1
  <2>2. FirstFrom(s, i + 1, LAMBDA m : m.role # "tool") = end
    BY <2>1, Searches, Zenon
  <2> QED
    BY <2>2, Zenon DEF ResultsAt
<1>4. \A k \in 1..Len(s) : k \in J <=> s[k].role # "tool"
  BY <1>1 DEF Having, Roles
<1> HIDE DEF end, J
<1>5. ASSUME NEW j \in ResultsAt(s, i) PROVE j \in (i + 1)..Len(s) /\ s[j].role = "tool"
  <2>1. j \in (i + 1)..(end - 1)
    BY <1>3
  <2>2. j \in (i + 1)..Len(s) /\ j \in 1..Len(s) /\ j < end
    BY <1>1, <1>2, <2>1
  <2> QED
    BY <1>2, <1>4, <2>2
<1>6. ASSUME NEW j \in (i + 1)..Len(s), Answers(s, i, j), j \notin ResultsAt(s, i)
      PROVE  \E k \in 1..(j - 1) : Behind(s, k, j)
  <2>1. /\ s[j].role = "tool" /\ s[j].id \in ToSet(s[i].calls)
        /\ \A k \in (i + 1)..(j - 1) : s[k].role \in {"tool", "system"}
    BY <1>6 DEF Answers
  <2>2. j \notin (i + 1)..(end - 1)
    BY <1>3, <1>6, <2>1
  <2>3. end \in 1..Len(s) /\ end <= j /\ j \in 1..Len(s)
    BY <1>1, <1>2, <2>2
  <2>4. s[end].role # "tool"
    BY <1>2, <1>4, <2>3
  <2>5. end \in (i + 1)..(j - 1)
    <3>1. end # j
      BY <2>1, <2>4
    <3> QED
      BY <1>1, <1>2, <2>3, <3>1
  <2>6. s[end].role = "system"
    BY <2>1, <2>4, <2>5
  <2>7. end \in 1..(j - 1) /\ \A h \in (end + 1)..(j - 1) : h \in (i + 1)..(j - 1)
    BY <1>1, <2>5
  <2> QED
    BY <2>1, <2>3, <2>6, <2>7, LastSystem
<1> QED
  BY <1>5, <1>6

LEMMA DeleteFailedIs ==
    ASSUME NEW M, Listable(M), NEW s \in Seq(M), Sound(s), FrontOrCalled(s), Fronted(s),
           s[1].role = "system"
    PROVE  /\ DeleteFailed(s) \in Seq(M) /\ Sound(DeleteFailed(s))
           /\ Traced(DeleteFailed(s)) /\ Fronted(DeleteFailed(s))
<1> DEFINE t == DeleteFailed(s)
           R(k) == ResultsAt(s, k)
           F == FailedAt(s)
           failed == F \cup UNION {R(i) : i \in F}
           I == {i \in Indices(s) : i \notin failed /\ ~ (Bare(s[i]) /\ "giveup" \in s[i].labels)}
<1>1. Len(s) \in Nat /\ \A i \in 1..Len(s) : s[i] \in M /\ s[i].role \in Roles
  BY Typed
<1>2. t = Keep(s, I)
  BY Zenon DEF DeleteFailed
<1>3. \A i \in F : i \in 1..Len(s) /\ HasCalls(s[i])
  BY DEF FailedAt, Indices
<1> HIDE DEF F
<1>4. \A i \in F : \A j \in R(i) : s[j].role = "tool"
  BY <1>3, ResultsAtIs
<1> HIDE DEF R
<1>5. \A i \in failed : i \in F \/ s[i].role = "tool"
  BY <1>4
<1>6. \A i \in F : \A j \in R(i) : j \in failed
  OBVIOUS
<1> HIDE DEF failed
<1>7. \A i \in 1..Len(s) : s[i].role = "system" => i \in I
  BY <1>3, <1>5 DEF HasCalls, Bare, Indices
<1>8. \A i \in 1..Len(s) : HasCalls(s[i]) => i \in I \/ i \in F
  BY <1>5 DEF HasCalls, Bare, Indices
<1>9. \A j \in I : j \notin failed
  OBVIOUS
<1> HIDE DEF I, t
<1>10. t \in Seq(M) /\ Sound(t) /\ \E g : TakenAt(g, t, s, I)
  BY <1>2, TakenSound
<1>11. PICK g : TakenAt(g, t, s, I)
  BY <1>10
<1>12. Fronted(t)
  BY <1>10, <1>11, TakenFronted
<1>13. ASSUME NEW p \in 1..Len(t), t[p].role = "tool"
       PROVE  \/ \E i \in 1..Len(t) : HasCalls(t[i]) /\ t[p].id \in ToSet(t[i].calls)
              \/ \E q \in 1..(p - 1) : Behind(t, q, p)
  <2> DEFINE j == g[p]
  <2>1. j \in 1..Len(s) /\ t[p] = s[j] /\ j \in I
    BY <1>11 DEF TakenAt
  <2>2. ASSUME NEW k \in 1..(j - 1), Behind(s, k, j) PROVE \E q \in 1..(p - 1) : Behind(t, q, p)
    <3>1. k \in 1..Len(s)
      BY <1>1, <2>1
    <3>2. k \in I
      BY <1>7, <2>2, <3>1 DEF Behind
    <3> QED
      BY <1>10, <1>11, <2>2, <3>2, TakenBehind
  <2> HIDE DEF j
  <2>3. CASE \E i \in 1..Len(s) : HasCalls(s[i]) /\ s[j].id \in ToSet(s[i].calls)
    <3>1. PICK i \in 1..Len(s) : HasCalls(s[i]) /\ s[j].id \in ToSet(s[i].calls)
      BY <2>3
    <3>2. i < j /\ Answers(s, i, j)
      BY <1>13, <2>1, <3>1 DEF Sound, Follows, Indices
    <3>3. CASE i \in I
      <4>1. PICK h \in 1..Len(t) : g[h] = i
        BY <1>11, <3>3 DEF TakenAt
      <4>2. t[h] = s[i]
        BY <1>11, <4>1 DEF TakenAt
      <4> QED
        BY <2>1, <3>1, <4>2
    <3>4. CASE i \notin I
      <4>1. i \in F
        BY <1>8, <3>1, <3>4
      <4>2. j \notin R(i) /\ j \in (i + 1)..Len(s)
        BY <1>1, <1>6, <1>9, <2>1, <3>2, <4>1
      <4>3. \E k \in 1..(j - 1) : Behind(s, k, j)
        BY <3>2, <4>2, ResultsAtIs DEF R
      <4> QED
        BY <2>2, <4>3
    <3> QED
      BY <3>3, <3>4
  <2>4. CASE \A k \in 1..(j - 1) : s[k].role \in {"tool", "system"}
    <3>1. 1 \in 1..(j - 1)
      <4>1. j # 1
        BY <1>13, <2>1
      <4> QED
        BY <1>1, <2>1, <4>1
    <3>2. \A h \in (1 + 1)..(j - 1) : h \in 1..(j - 1)
      OBVIOUS
    <3>3. \E k \in 1..(j - 1) : Behind(s, k, j)
      BY <2>1, <2>4, <3>1, <3>2, LastSystem
    <3> QED
      BY <2>2, <3>3
  <2> QED
    BY <1>13, <2>1, <2>3, <2>4 DEF FrontOrCalled
<1> QED
  BY <1>10, <1>12, <1>13 DEF Traced, t

LEMMA DeleteEmptyIs ==
    ASSUME NEW M, Listable(M), NEW s \in Seq(M), Sound(s), Traced(s), Fronted(s)
    PROVE  /\ DeleteEmpty(s) \in Seq(M) /\ Sound(DeleteEmpty(s))
           /\ Traced(DeleteEmpty(s)) /\ Fronted(DeleteEmpty(s))
<1> DEFINE t == DeleteEmpty(s)
           I == {i \in Indices(s) : ~ (Bare(s[i]) /\ "word" \in s[i].labels)}
<1>1. Len(s) \in Nat
  BY Typed
<1>2. t = Keep(s, I)
  BY Zenon DEF DeleteEmpty
<1>3. \A i \in 1..Len(s) : s[i].role = "system" \/ HasCalls(s[i]) => i \in I
  BY DEF HasCalls, Bare, Indices
<1> HIDE DEF I, t
<1>4. t \in Seq(M) /\ Sound(t) /\ \E g : TakenAt(g, t, s, I)
  BY <1>2, TakenSound
<1>5. PICK g : TakenAt(g, t, s, I)
  BY <1>4
<1>6. Fronted(t)
  BY <1>4, <1>5, TakenFronted
<1>7. ASSUME NEW p \in 1..Len(t), t[p].role = "tool"
      PROVE  \/ \E i \in 1..Len(t) : HasCalls(t[i]) /\ t[p].id \in ToSet(t[i].calls)
             \/ \E q \in 1..(p - 1) : Behind(t, q, p)
  <2> DEFINE j == g[p]
  <2>1. j \in 1..Len(s) /\ t[p] = s[j]
    BY <1>5 DEF TakenAt
  <2>2. ASSUME NEW k \in 1..(j - 1), Behind(s, k, j) PROVE \E q \in 1..(p - 1) : Behind(t, q, p)
    <3>1. k \in 1..Len(s)
      BY <1>1, <2>1
    <3>2. k \in I
      BY <1>3, <2>2, <3>1 DEF Behind
    <3> QED
      BY <1>4, <1>5, <2>2, <3>2, TakenBehind
  <2> HIDE DEF j
  <2>3. CASE \E i \in 1..Len(s) : HasCalls(s[i]) /\ s[j].id \in ToSet(s[i].calls)
    <3>1. PICK i \in 1..Len(s) : HasCalls(s[i]) /\ s[j].id \in ToSet(s[i].calls)
      BY <2>3
    <3>2. PICK h \in 1..Len(t) : g[h] = i
      BY <1>3, <1>5, <3>1 DEF TakenAt
    <3>3. t[h] = s[i]
      BY <1>5, <3>2 DEF TakenAt
    <3> QED
      BY <2>1, <3>1, <3>3
  <2>4. CASE \E k \in 1..(j - 1) : Behind(s, k, j)
    BY <2>2, <2>4
  <2> QED
    BY <1>7, <2>1, <2>3, <2>4 DEF Traced
<1> QED
  BY <1>4, <1>6, <1>7 DEF Traced, t

LEMMA FirstNonSystemAt ==
    ASSUME NEW M, Listable(M), NEW s \in Seq(M), NEW k \in Nat, k + 1 \in 1..Len(s),
           \A i \in 1..k : s[i].role = "system", s[k + 1].role # "system"
    PROVE  FirstNonSystem(s) = k + 1
<1> DEFINE J == Having(s, Roles \ {"system"})
           f == First(Len(s), 1, J)
<1>1. Len(s) \in Nat /\ \A i \in 1..Len(s) : s[i].role \in Roles
  BY Typed
<1>2. FirstFrom(s, 1, LAMBDA m : m.role # "system") = f
  <2>1. 1 \in Nat \ {0}
    OBVIOUS
  <2> QED
    BY <2>1, Searches, Zenon
<1>3. /\ f \in 1..(Len(s) + 1) /\ \A j \in 1..Len(s) : j < f => j \notin J
      /\ f <= Len(s) => f \in J
  <2> HIDE DEF J
  <2> QED
    BY <1>1, FirstIs
<1>4. k + 1 \in J /\ \A i \in 1..k : i \notin J
  BY <1>1 DEF Having
<1> HIDE DEF f, J
<1>5. f <= k + 1
  BY <1>1, <1>3, <1>4
<1>6. ~ (f <= k)
  BY <1>1, <1>3, <1>4
<1>7. FirstNonSystem(s) = IF f > Len(s) THEN 1 ELSE f
  BY <1>2, Zenon DEF FirstNonSystem
<1> QED
  BY <1>1, <1>3, <1>5, <1>6, <1>7

\* What strip_leading_results leaves without a call stands behind a summary.
LEMMA StripTraced ==
    ASSUME NEW M, Listable(M), NEW s \in Seq(M), Sound(s), Traced(s), Fronted(s)
    PROVE  /\ StripLeadingResults(s) \in Seq(M) /\ Sound(StripLeadingResults(s))
           /\ Called(StripLeadingResults(s)) \/ ResultBehind(StripLeadingResults(s))
<1> DEFINE t     == StripLeadingResults(s)
           first == FirstNonSystem(s)
           J     == Having(s, Roles \ {"tool"})
           end   == First(Len(s), first, J)
           I     == {i \in 1..Len(s) : i < first \/ i >= end}
<1>1. Len(s) \in Nat /\ \A i \in 1..Len(s) : s[i].role \in Roles
  BY Typed
<1>2. first \in 1..(Len(s) + 1) /\ \A i \in 1..Len(s) : i < first => s[i].role = "system"
  BY FirstNonSystemIs
<1>3. \A k \in Nat : k + 1 \in 1..Len(s) /\ (\A i \in 1..k : s[i].role = "system")
                       /\ s[k + 1].role # "system" => first = k + 1
  BY FirstNonSystemAt
<1> HIDE DEF first
<1>4. /\ end \in first..(Len(s) + 1) /\ \A j \in first..Len(s) : j < end => j \notin J
      /\ end <= Len(s) => end \in J
  <2> HIDE DEF J
  <2> QED
    BY <1>1, <1>2, FirstIs
<1>5. t = Keep(s, I)
  <2>1. first \in Nat \ {0}
    BY <1>1, <1>2
  <2>2. FirstFrom(s, first, LAMBDA m : m.role # "tool") = end
    BY <2>1, Searches, Zenon
  <2> QED
    BY <2>2, Zenon DEF StripLeadingResults, first, Indices
<1>6. \A j \in 1..Len(s) : j \in J <=> s[j].role # "tool"
  BY <1>1 DEF Having, Roles
<1>7. \A j \in 1..Len(s) : s[j].role # "tool" => j \in I
  <2> SUFFICES ASSUME NEW j \in 1..Len(s), j \notin I PROVE s[j].role = "tool"
    OBVIOUS
  <2>1. ~ (j < first) /\ ~ (j >= end)
    OBVIOUS
  <2> HIDE DEF I, end, J
  <2>2. j \in first..Len(s) /\ j < end
    BY <1>1, <1>2, <1>4, <2>1
  <2> QED
    BY <1>4, <1>6, <2>2
<1>8. \A j \in I : j < first \/ j >= end
  OBVIOUS
<1> HIDE DEF I, t, end, J
<1>9. t \in Seq(M) /\ Sound(t) /\ \E g : TakenAt(g, t, s, I)
  BY <1>5, TakenSound
<1>10. PICK g : TakenAt(g, t, s, I)
  BY <1>9
<1>11. Len(t) \in Nat
  BY <1>9, Typed
<1>12. ASSUME ~ Called(t) PROVE ResultBehind(t)
  <2>1. PICK p \in 1..Len(t) :
           /\ t[p].role = "tool"
           /\ ~ \E i \in 1..Len(t) : HasCalls(t[i]) /\ t[p].id \in ToSet(t[i].calls)
    BY <1>12 DEF Called, Indices
  <2> DEFINE j == g[p]
  <2>2. j \in 1..Len(s) /\ t[p] = s[j] /\ j \in I
    BY <1>10 DEF TakenAt
  <2>3. ~ \E i \in 1..Len(s) : HasCalls(s[i]) /\ s[j].id \in ToSet(s[i].calls)
    <3> SUFFICES ASSUME NEW i \in 1..Len(s), HasCalls(s[i]), s[j].id \in ToSet(s[i].calls)
                 PROVE  FALSE
      OBVIOUS
    <3>1. i \in I
      BY <1>7 DEF HasCalls
    <3>2. PICK h \in 1..Len(t) : g[h] = i
      BY <1>10, <3>1 DEF TakenAt
    <3>3. t[h] = s[i]
      BY <1>10, <3>2 DEF TakenAt
    <3> QED
      BY <2>1, <2>2, <3>3
  <2>4. PICK k \in 1..(j - 1) : Behind(s, k, j)
    BY <2>1, <2>2, <2>3 DEF Traced
  <2>5. k \in 1..Len(s) /\ k \in Nat /\ k < j /\ s[k].role = "system"
    BY <1>1, <2>2, <2>4 DEF Behind
  <2>6. PICK q \in 1..(p - 1) : Behind(t, q, p) /\ t[q] = s[k]
    <3>1. k \in I
      BY <1>7, <2>5
    <3> QED
      BY <1>9, <1>10, <2>4, <3>1, TakenBehind
  <2>7. CASE "summary" \in s[k].labels
    <3>1. q + 1 \in 2..Len(t) /\ (q + 1) - 1 = q /\ (q + 1 = p \/ q + 1 \in (q + 1)..(p - 1))
      BY <1>11
    <3>2. t[q + 1].role = "tool"
      BY <2>1, <2>6, <3>1 DEF Behind
    <3> QED
      BY <2>5, <2>6, <2>7, <3>1, <3>2 DEF ResultBehind
  <2>8. CASE "summary" \notin s[k].labels
    <3>1. \A i \in 1..k : s[i].role = "system"
      BY <2>5, <2>8 DEF Fronted
    <3>2. \A i \in (k + 1)..j : s[i].role = "tool"
      <4> SUFFICES ASSUME NEW i \in (k + 1)..j PROVE s[i].role = "tool"
        OBVIOUS
      <4>1. i = j \/ i \in (k + 1)..(j - 1)
        BY <1>1, <2>2, <2>5
      <4> QED
        BY <2>1, <2>2, <2>4, <4>1 DEF Behind
    <3>3. k + 1 \in (k + 1)..j /\ k + 1 \in 1..Len(s)
      BY <1>1, <2>2, <2>5
    <3>4. s[k + 1].role # "system"
      BY <3>2, <3>3
    <3>5. first = k + 1
      BY <1>3, <2>5, <3>1, <3>3, <3>4
    <3>6. end <= j
      BY <1>1, <1>2, <1>8, <2>2, <2>5, <3>5
    <3>7. end \in 1..Len(s) /\ end \in (k + 1)..j
      BY <1>1, <1>2, <1>4, <2>2, <3>5, <3>6
    <3>8. s[end].role # "tool"
      BY <1>4, <1>6, <3>7
    <3> QED
      BY <3>2, <3>7, <3>8
  <2> QED
    BY <2>7, <2>8
<1> QED
  BY <1>9, <1>12 DEF t

\* The newest that fit, behind the prompt and a note of what was cut.
LEMMA CutToBudgetIs ==
    ASSUME NEW s \in Seq(AllRows), Sound(s), FrontOrCalled(s), Fronted(s),
           s # <<>>, s[1].role = "system", NEW budget
    PROVE  /\ CutToBudget(s, budget) \in Seq(AllRows) /\ Sound(CutToBudget(s, budget))
           /\ FrontOrCalled(CutToBudget(s, budget)) /\ Fronted(CutToBudget(s, budget))
           /\ CutToBudget(s, budget)[1].role = "system"
<1> DEFINE M     == AllRows
           rest  == Tail(s)
           k     == Fitting(<<s[1]>>, rest, budget)
           recap == Plain("system", "recap")
           a     == <<s[1], recap>>
           u     == SubSeq(rest, k + 1, Len(rest))
           cut   == k + 1
           Good(t) == /\ t \in Seq(AllRows) /\ Sound(t) /\ FrontOrCalled(t) /\ Fronted(t)
                      /\ t[1].role = "system"
<1>1. Listable(M)
  BY RowsListable
<1>2. s \in Seq(M)
  BY DEF M
<1> HIDE DEF M
<1>3. /\ rest \in Seq(M) /\ Len(s) \in Nat \ {0} /\ Len(rest) = Len(s) - 1 /\ s[1] \in M
      /\ \A i \in 1..Len(rest) : rest[i] = s[i + 1]
  BY <1>2
<1> HIDE DEF rest
<1>4. k \in 0..Len(rest)
  BY <1>1, <1>3, FittingIs
<1> HIDE DEF k
<1>5. /\ u \in Seq(M) /\ Len(u) = Len(rest) - k
      /\ \A i \in 1..Len(u) : u[i] = rest[i + k]
  BY <1>3, <1>4
<1> HIDE DEF u
<1>6. /\ cut \in 0..Len(s) /\ Len(u) = Len(s) - cut
      /\ \A i \in 1..Len(u) : u[i] = s[i + cut]
  BY <1>3, <1>4, <1>5
<1>7. Sound(u) /\ FrontOrCalled(u)
  <2> HIDE DEF cut
  <2> QED
    BY <1>1, <1>2, <1>5, <1>6, EndKeeps
<1>8. Fronted(u)
  <2> SUFFICES ASSUME NEW i \in 1..Len(u), u[i].role = "system", "summary" \notin u[i].labels,
                      NEW h \in 1..i
               PROVE  u[h].role = "system"
    BY DEF Fronted
  <2>1. i + cut \in 1..Len(s) /\ h + cut \in 1..(i + cut) /\ h \in 1..Len(u)
    BY <1>3, <1>6
  <2> QED
    BY <1>6, <2>1 DEF Fronted
<1>9. recap \in AllRows /\ recap.role = "system"
  <2>1. "recap" \in RowLabels
    BY DEF RowLabels
  <2> QED
    BY <2>1, PlainIs
<1> HIDE DEF recap
<1>10. a \in Seq(AllRows) /\ Len(a) = 2 /\ a[1] = s[1] /\ a[2] = recap
  BY <1>3, <1>9 DEF M
<1>11. \A i \in 1..Len(a) : a[i].role = "system"
  <2>1. \A i \in 1..Len(a) : i = 1 \/ i = 2
    BY <1>10
  <2> QED
    BY <1>9, <1>10, <2>1
<1> HIDE DEF a
<1>12. u \in Seq(AllRows)
  BY <1>5 DEF M
<1>13. /\ a \o u \in Seq(AllRows) /\ Sound(a \o u)
       /\ FrontOrCalled(a \o u) /\ Fronted(a \o u)
  BY <1>7, <1>8, <1>10, <1>11, <1>12, PromptedSound
<1>14. (a \o u)[1] = s[1]
  <2>1. 1 \in 1..Len(a)
    BY <1>10
  <2>2. a \in Seq(AllRows)
    BY <1>10
  <2>3. \A i \in 1..Len(a) : (a \o u)[i] = a[i]
    BY <1>12, <2>2, Concat
  <2> QED
    BY <1>10, <2>1, <2>3
<1>15. Good(a \o u)
  BY <1>13, <1>14
<1>16. Good(s)
  OBVIOUS
<1> HIDE DEF Good
<1>17. CutToBudget(s, budget) = s \/ CutToBudget(s, budget) = a \o u
  BY Zenon DEF CutToBudget, a, u, k, rest, recap
<1>18. Good(CutToBudget(s, budget))
  BY <1>15, <1>16, <1>17
<1> QED
  BY <1>18 DEF Good

LEMMA OfThisAgentIs ==
    ASSUME NEW s \in Seq(AllRows), Sound(s), FrontOrCalled(s), Fronted(s), s # <<>>,
           s[1].role = "system"
    PROVE  /\ OfThisAgent(s) \in Seq(AllRows) /\ Sound(OfThisAgent(s))
           /\ FrontOrCalled(OfThisAgent(s)) /\ Fronted(OfThisAgent(s))
           /\ OfThisAgent(s) # <<>> /\ OfThisAgent(s)[1].role = "system"
<1> DEFINE M == AllRows
           I == {i \in Indices(s) : ~ (s[i].role = "tool" /\ "delegated" \in s[i].labels)}
           t == Keep(s, I)
<1>1. Listable(M)
  BY RowsListable
<1>2. s \in Seq(M)
  BY DEF M
<1> HIDE DEF M
<1>3. OfThisAgent(s) = t
  BY Zenon DEF OfThisAgent
<1>4. \A i \in 1..Len(s) : s[i].role # "tool" => i \in I
  BY DEF Indices
<1>5. Len(s) \in Nat /\ 1 \in 1..Len(s)
  BY <1>2
<1>6. 1 \in I
  BY <1>4, <1>5
<1> HIDE DEF I
<1>7. t \in Seq(M) /\ Sound(t) /\ \E g : TakenAt(g, t, s, I)
  BY <1>1, <1>2, TakenSound
<1> HIDE DEF t
<1>8. PICK g : TakenAt(g, t, s, I)
  BY <1>7
<1>9. FrontOrCalled(t)
  BY <1>1, <1>2, <1>4, <1>7, <1>8, TakenFrontOrCalled
<1>10. Fronted(t)
  BY <1>1, <1>2, <1>7, <1>8, TakenFronted
<1>11. t # <<>> /\ t[1] = s[1]
  BY <1>1, <1>2, <1>6, <1>7, <1>8, TakenFirst
<1> QED
  BY <1>3, <1>7, <1>9, <1>10, <1>11 DEF M

-----------------------------------------------------------------------------
(* What keeps the question of the turn last *)

\* t asks what s asks, after the same prompt.
AsksToo(t, s, L) == Asks(s, L) => Asks(t, L) /\ t[1] = s[1]

\* A list that begins with system messages asks what its end asks.
LEMMA PromptedAsks ==
    ASSUME NEW M, NEW a \in Seq(M), NEW b \in Seq(M), NEW L, Len(a) > 0,
           \A i \in 1..Len(a) : a[i].role = "system", LastBears(b, L), OwnAttached(b, L)
    PROVE  Asks(a \o b, L) /\ (a \o b)[1] = a[1]
<1> DEFINE t == a \o b
           n == Len(a)
<1>1. /\ Len(b) \in Nat /\ n \in Nat /\ Len(t) = n + Len(b)
      /\ \A p \in 1..n : p \in 1..Len(t) /\ t[p] = a[p]
      /\ \A p \in 1..Len(b) : n + p \in 1..Len(t) /\ t[n + p] = b[p]
      /\ \A p \in 1..Len(t) :
           \/ p \in 1..n /\ t[p] = a[p]
           \/ p > n /\ p - n \in 1..Len(b) /\ t[p] = b[p - n]
  BY Places
<1>2. n > 0 /\ \A p \in 1..n : a[p].role = "system"
  OBVIOUS
<1> HIDE DEF t, n
<1>3. 1 \in 1..n /\ t[1] = a[1] /\ a[1].role = "system" /\ Len(t) > 0
  BY <1>1, <1>2
<1>4. t # <<>>
  <2>1. Len(<<>>) = 0
    OBVIOUS
  <2> QED
    BY <1>3, <2>1
<1>5. PICK u \in 1..Len(b) : /\ b[u].role = "user" /\ b[u].labels \cap L # {}
                            /\ \A j \in (u + 1)..Len(b) : b[j].role # "user"
  BY DEF LastBears, Indices
<1>6. n + u \in 1..Len(t) /\ t[n + u] = b[u]
  BY <1>1
<1>7. ASSUME NEW j \in (n + u + 1)..Len(t) PROVE t[j].role # "user"
  <2>1. j \in 1..Len(t) /\ j \notin 1..n /\ j - n \in (u + 1)..Len(b)
    BY <1>1
  <2>2. t[j] = b[j - n]
    BY <1>1, <2>1
  <2> QED
    BY <1>5, <2>1, <2>2
<1>8. LastBears(t, L)
  BY <1>5, <1>6, <1>7 DEF LastBears, Indices
<1>9. OwnAttached(t, L)
  <2> SUFFICES ASSUME NEW i \in 1..Len(t), t[i].role = "user", "attachment" \in t[i].labels
               PROVE  t[i].labels \cap L # {}
    BY DEF OwnAttached, Indices
  <2>1. i - n \in 1..Len(b) /\ t[i] = b[i - n]
    BY <1>1, <1>2
  <2> QED
    BY <2>1 DEF OwnAttached, Indices
<1> QED
  BY <1>3, <1>4, <1>8, <1>9 DEF Asks, t

\* The end of a list asks what the list asks, if its last user message is there.
LEMMA EndAsks ==
    ASSUME NEW M, Listable(M), NEW s \in Seq(M), NEW t \in Seq(M), NEW cut \in 0..Len(s), NEW L,
           Len(t) = Len(s) - cut, \A i \in 1..Len(t) : t[i] = s[i + cut],
           LastBears(s, L), OwnAttached(s, L),
           NEW u \in 1..Len(s), u > cut, s[u].role = "user"
    PROVE  LastBears(t, L) /\ OwnAttached(t, L)
<1>1. Len(s) \in Nat /\ Len(t) \in Nat
  BY Typed
<1>2. PICK v \in 1..Len(s) : /\ s[v].role = "user" /\ s[v].labels \cap L # {}
                            /\ \A j \in (v + 1)..Len(s) : s[j].role # "user"
  BY DEF LastBears, Indices
<1>3. u <= v
  BY <1>1, <1>2
<1>4. v - cut \in 1..Len(t) /\ (v - cut) + cut = v
  BY <1>1, <1>3
<1>5. t[v - cut] = s[v]
  BY <1>4
<1>6. ASSUME NEW j \in (v - cut + 1)..Len(t) PROVE t[j].role # "user"
  <2>1. j \in 1..Len(t) /\ j + cut \in (v + 1)..Len(s)
    BY <1>1, <1>4
  <2> QED
    BY <1>2, <2>1
<1>7. LastBears(t, L)
  BY <1>2, <1>4, <1>5, <1>6 DEF LastBears, Indices
<1>8. OwnAttached(t, L)
  <2>1. \A i \in 1..Len(t) : i + cut \in 1..Len(s)
    BY <1>1
  <2> QED
    BY <2>1 DEF OwnAttached, Indices
<1> QED
  BY <1>7, <1>8

\* Results that are filled in are no user messages.
LEMMA FillAsks ==
    ASSUME NEW M, Listable(M), NEW s \in Seq(M), Sound(s), NEW L
    PROVE  AsksToo(FillResults(s), s, L)
<1> DEFINE r == FillResults(s)
<1>1. r \in Seq(M)
  BY FillResultsTypes
<1>2. PICK o, h : Spread(o, h, r, s, Len(s))
  BY FillSpreads DEF Sound
<1> HIDE DEF r
<1>3. Len(s) \in Nat /\ Len(r) \in Nat
  BY <1>1, Typed
<1>4. /\ \A p \in 1..Len(r) : o[p] \in 1..Len(s) /\ h[o[p]] \in 1..Len(r)
      /\ \A i \in 1..Len(s) : h[i] \in 1..Len(r) /\ o[h[i]] = i /\ r[h[i]] = s[i]
      /\ \A p, q \in 1..Len(r) : p <= q => o[p] <= o[q]
      /\ \A p \in 1..Len(r) : p = h[o[p]] \/ (h[o[p]] < p /\ FillsIn(r[p], s, o[p]))
  BY <1>2 DEF Spread
<1>5. \A p \in 1..Len(r) : r[p].role = "user" => p = h[o[p]] /\ r[p] = s[o[p]]
  BY <1>4 DEF FillsIn
<1> SUFFICES ASSUME Asks(s, L) PROVE Asks(r, L) /\ r[1] = s[1]
  BY DEF AsksToo, r
<1>6. r # <<>> /\ r[1] = s[1] /\ r[1].role = "system"
  <2>1. 1 \in 1..Len(s) /\ s[1].role = "system"
    BY <1>3 DEF Asks
  <2>2. h[1] \in 1..Len(r) /\ o[h[1]] = 1 /\ r[h[1]] = s[1]
    BY <1>4, <2>1
  <2>3. 1 \in 1..Len(r) /\ 1 <= h[1]
    BY <1>3, <2>2
  <2>4. o[1] = 1
    <3>1. o[1] <= 1 /\ o[1] \in 1..Len(s)
      BY <1>4, <2>2, <2>3
    <3> QED
      BY <1>3, <3>1
  <2>5. h[1] = 1
    BY <1>3, <1>4, <2>2, <2>3, <2>4
  <2>6. r # <<>>
    <3>1. Len(<<>>) = 0
      OBVIOUS
    <3> QED
      BY <1>3, <2>3, <3>1
  <2> QED
    BY <2>1, <2>2, <2>5, <2>6
<1>7. PICK u \in 1..Len(s) : /\ s[u].role = "user" /\ s[u].labels \cap L # {}
                            /\ \A j \in (u + 1)..Len(s) : s[j].role # "user"
  BY DEF Asks, LastBears, Indices
<1>8. ASSUME NEW j \in (h[u] + 1)..Len(r), r[j].role = "user" PROVE FALSE
  <2>1. h[u] \in 1..Len(r) /\ o[h[u]] = u
    BY <1>4
  <2>2. j \in 1..Len(r) /\ h[u] <= j /\ h[u] # j
    BY <1>3, <2>1
  <2>3. j = h[o[j]] /\ r[j] = s[o[j]] /\ o[j] \in 1..Len(s)
    BY <1>4, <1>5, <1>8, <2>2
  <2>4. u <= o[j] /\ o[j] # u
    BY <1>4, <2>1, <2>2, <2>3
  <2>5. o[j] \in (u + 1)..Len(s)
    BY <1>3, <2>3, <2>4
  <2> QED
    BY <1>7, <1>8, <2>3, <2>5
<1>9. LastBears(r, L)
  <2>1. h[u] \in 1..Len(r) /\ r[h[u]] = s[u]
    BY <1>4
  <2> QED
    BY <1>7, <1>8, <2>1 DEF LastBears, Indices
<1>10. OwnAttached(r, L)
  <2> SUFFICES ASSUME NEW i \in 1..Len(r), r[i].role = "user", "attachment" \in r[i].labels
               PROVE  r[i].labels \cap L # {}
    BY DEF OwnAttached, Indices
  <2>1. o[i] \in 1..Len(s) /\ r[i] = s[o[i]]
    BY <1>4, <1>5
  <2> QED
    BY <2>1 DEF Asks, OwnAttached, Indices
<1> QED
  BY <1>6, <1>9, <1>10 DEF Asks

LEMMA SanitizeAsks ==
    ASSUME NEW M, Listable(M), NEW s \in Seq(M), Sound(s), NEW L
    PROVE  SanitizeToolPairs(s) \in Seq(M) /\ AsksToo(SanitizeToolPairs(s), s, L)
<1> DEFINE stripped == StripLeadingResults(s)
           filled   == FillResults(stripped)
<1>1. stripped \in Seq(M) /\ Carries(stripped, s, L)
  BY StripKeeps
<1>2. Sound(stripped)
  BY TakenSound, Zenon DEF StripLeadingResults
<1> HIDE DEF stripped
<1>3. filled \in Seq(M) /\ AsksToo(filled, stripped, L)
  BY <1>1, <1>2, FillResultsTypes, FillAsks
<1> HIDE DEF filled
<1>4. DropOrphans(filled) \in Seq(M) /\ Carries(DropOrphans(filled), filled, L)
  BY <1>3, DropKeeps
<1>5. SanitizeToolPairs(s) = DropOrphans(filled)
  BY DEF SanitizeToolPairs, filled, stripped
<1> QED
  BY <1>1, <1>3, <1>4, <1>5 DEF Carries, AsksToo

\* A part of the list that has its prompt and all user messages.
LEMMA TakenAsksToo ==
    ASSUME NEW M, Listable(M), NEW s \in Seq(M), NEW I, NEW L, s # <<>> => 1 \in I,
           \A i \in 1..Len(s) : s[i].role = "user" => i \in I
    PROVE  Keep(s, I) \in Seq(M) /\ AsksToo(Keep(s, I), s, L)
<1> DEFINE t == Keep(s, I)
<1>1. t \in Seq(M) /\ \E g : TakenAt(g, t, s, I)
  BY KeepTakes
<1> HIDE DEF t
<1>2. LastUserToo(s, I)
  BY DEF LastUserToo
<1>3. Asks(s, L) => 1 \in I
  BY DEF Asks
<1>4. Carries(t, s, L)
  BY <1>1, <1>2, <1>3, TakenCarries
<1> QED
  BY <1>1, <1>4 DEF Carries, AsksToo, t

\* The prompt and the end of the list from before its last user message on.
LEMMA CutToBudgetAsks ==
    ASSUME NEW s \in Seq(AllRows), NEW budget, NEW L
    PROVE  AsksToo(CutToBudget(s, budget), s, L)
<1> SUFFICES ASSUME Asks(s, L)
             PROVE  Asks(CutToBudget(s, budget), L) /\ CutToBudget(s, budget)[1] = s[1]
  BY DEF AsksToo
<1> DEFINE M     == AllRows
           rest  == Tail(s)
           k     == Fitting(<<s[1]>>, rest, budget)
           recap == Plain("system", "recap")
           a     == <<s[1], recap>>
           u     == SubSeq(rest, k + 1, Len(rest))
           cut   == k + 1
<1>1. Listable(M)
  BY RowsListable
<1>2. s \in Seq(M) /\ s # <<>> /\ s[1].role = "system"
  BY DEF Asks, M
<1>3. recap \in M /\ recap.role = "system"
  <2>1. "recap" \in RowLabels
    BY DEF RowLabels
  <2> QED
    BY <2>1, PlainIs
<1> HIDE DEF M, recap
<1>4. /\ rest \in Seq(M) /\ Len(s) \in Nat \ {0} /\ Len(rest) = Len(s) - 1 /\ s[1] \in M
      /\ \A i \in 1..Len(rest) : rest[i] = s[i + 1]
  BY <1>2
<1> HIDE DEF rest
<1>5. PICK v \in 1..Len(s) : /\ s[v].role = "user" /\ s[v].labels \cap L # {}
                            /\ \A j \in (v + 1)..Len(s) : s[j].role # "user"
  BY DEF Asks, LastBears, Indices
<1>6. v > 1 /\ Len(rest) > 0 /\ v - 1 \in 1..Len(rest) /\ (v - 1) + 1 = v
  <2>1. v # 1
    BY <1>2, <1>5
  <2> QED
    BY <1>4, <2>1
<1>7. LastUser(rest) \in 1..(v - 1)
  <2>1. LastUser(rest) \in 0..Len(rest) /\ LastUser(rest) > 0
    BY <1>1, <1>4, <1>6, LastUserIs
  <2>2. rest[v - 1].role = "user"
    BY <1>4, <1>5, <1>6
  <2>3. rest[LastUser(rest)].role = "user"
    BY <1>1, <1>4, <1>6, <2>2, LastUserIs
  <2>4. LastUser(rest) + 1 \in 1..Len(s) /\ rest[LastUser(rest)] = s[LastUser(rest) + 1]
    BY <1>4, <2>1
  <2>5. LastUser(rest) + 1 \notin (v + 1)..Len(s)
    BY <1>5, <2>3, <2>4
  <2> QED
    BY <1>4, <2>1, <2>4, <2>5
<1>8. k \in 0..Len(rest) /\ k <= LastUser(rest) - 1
  BY <1>1, <1>4, <1>6, FittingIs
<1> HIDE DEF k
<1>9. /\ u \in Seq(M) /\ Len(u) = Len(rest) - k
      /\ \A i \in 1..Len(u) : u[i] = rest[i + k]
  BY <1>4, <1>8
<1> HIDE DEF u
<1>10. /\ cut \in 0..Len(s) /\ Len(u) = Len(s) - cut /\ v > cut
       /\ \A i \in 1..Len(u) : u[i] = s[i + cut]
  <2>1. cut \in 0..Len(s) /\ Len(u) = Len(s) - cut /\ v > cut
    BY <1>4, <1>7, <1>8, <1>9
  <2>2. \A i \in 1..Len(u) : i + k \in 1..Len(rest) /\ (i + k) + 1 = i + cut
    BY <1>4, <1>8, <1>9
  <2> QED
    BY <1>4, <1>9, <2>1, <2>2
<1> HIDE DEF cut
<1>11. LastBears(u, L) /\ OwnAttached(u, L)
  <2>1. LastBears(s, L) /\ OwnAttached(s, L)
    BY DEF Asks
  <2> QED
    BY <1>1, <1>2, <1>5, <1>9, <1>10, <2>1, EndAsks
<1>12. a \in Seq(M) /\ Len(a) = 2 /\ a[1] = s[1] /\ a[2] = recap
  BY <1>3, <1>4
<1> HIDE DEF a
<1>13. Len(a) > 0 /\ \A i \in 1..Len(a) : a[i].role = "system"
  <2>1. \A i \in 1..Len(a) : i = 1 \/ i = 2
    BY <1>12
  <2> QED
    BY <1>2, <1>3, <1>12, <2>1
<1>14. Asks(a \o u, L) /\ (a \o u)[1] = s[1]
  <2>1. Asks(a \o u, L) /\ (a \o u)[1] = a[1]
    <3>1. a \in Seq(M) /\ u \in Seq(M)
      BY <1>9, <1>12
    <3> QED
      BY <1>11, <1>13, <3>1, PromptedAsks
  <2> QED
    BY <1>12, <2>1
<1>15. CutToBudget(s, budget) = s \/ CutToBudget(s, budget) = a \o u
  BY Zenon DEF CutToBudget, a, u, k, rest, recap
<1> QED
  BY <1>14, <1>15

\* What is deleted and what is left out are results, calls and answers.
LEMMA LeftOutAsks ==
    ASSUME NEW M, Listable(M), NEW s \in Seq(M), NEW L
    PROVE  /\ AsksToo(OfThisAgent(s), s, L)
           /\ AsksToo(DeleteFailed(s), s, L)
           /\ AsksToo(DeleteEmpty(s), s, L)
<1> SUFFICES ASSUME Asks(s, L)
             PROVE  /\ AsksToo(OfThisAgent(s), s, L)
                    /\ AsksToo(DeleteFailed(s), s, L)
                    /\ AsksToo(DeleteEmpty(s), s, L)
  BY DEF AsksToo
<1>1. Len(s) \in Nat /\ 1 \in 1..Len(s) /\ s[1].role = "system"
  <2>1. s # <<>> /\ s[1].role = "system"
    BY DEF Asks
  <2> QED
    BY <2>1
<1>2. AsksToo(OfThisAgent(s), s, L)
  <2> DEFINE I == {i \in Indices(s) : ~ (s[i].role = "tool" /\ "delegated" \in s[i].labels)}
  <2>1. OfThisAgent(s) = Keep(s, I)
    BY Zenon DEF OfThisAgent
  <2>2. 1 \in I /\ \A i \in 1..Len(s) : s[i].role = "user" => i \in I
    BY <1>1 DEF Indices
  <2> HIDE DEF I
  <2> QED
    BY <2>1, <2>2, TakenAsksToo
<1>3. AsksToo(DeleteFailed(s), s, L)
  <2> DEFINE R(k) == ResultsAt(s, k)
             F == FailedAt(s)
             failed == F \cup UNION {R(i) : i \in F}
             I == {i \in Indices(s) : i \notin failed /\ ~ (Bare(s[i]) /\ "giveup" \in s[i].labels)}
  <2>1. DeleteFailed(s) = Keep(s, I)
    BY Zenon DEF DeleteFailed
  <2>2. \A i \in F : i \in 1..Len(s) /\ HasCalls(s[i])
    BY DEF FailedAt, Indices
  <2> HIDE DEF F
  <2>3. \A i \in F : \A j \in R(i) : s[j].role = "tool"
    BY <2>2, ResultsAtIs
  <2> HIDE DEF R
  <2>4. \A i \in failed : HasCalls(s[i]) \/ s[i].role = "tool"
    BY <2>2, <2>3
  <2> HIDE DEF failed
  <2>5. \A i \in 1..Len(s) : s[i].role \in {"user", "system"} => i \in I
    BY <2>4 DEF HasCalls, Bare, Indices
  <2>6. 1 \in I /\ \A i \in 1..Len(s) : s[i].role = "user" => i \in I
    BY <1>1, <2>5
  <2> HIDE DEF I
  <2> QED
    BY <2>1, <2>6, TakenAsksToo
<1>4. AsksToo(DeleteEmpty(s), s, L)
  <2> DEFINE I == {i \in Indices(s) : ~ (Bare(s[i]) /\ "word" \in s[i].labels)}
  <2>1. DeleteEmpty(s) = Keep(s, I)
    BY Zenon DEF DeleteEmpty
  <2>2. 1 \in I /\ \A i \in 1..Len(s) : s[i].role = "user" => i \in I
    BY <1>1 DEF Indices, Bare
  <2> HIDE DEF I
  <2> QED
    BY <2>1, <2>2, TakenAsksToo
<1> QED
  BY <1>2, <1>3, <1>4

LEMMA BehindPrompt ==
    ASSUME NEW s \in Seq(AllRows), NEW L, LastBears(s, L), OwnAttached(s, L)
    PROVE  Asks(<<Prompt>> \o s, L) /\ (<<Prompt>> \o s)[1] = Prompt
<1> DEFINE a == <<Prompt>>
<1>1. a \in Seq(AllRows) /\ Len(a) = 1 /\ a[1] = Prompt /\ Prompt.role = "system"
  BY PromptIs
<1> HIDE DEF a
<1>2. Len(a) > 0 /\ \A i \in 1..Len(a) : a[i].role = "system"
  BY <1>1
<1>3. Asks(a \o s, L) /\ (a \o s)[1] = a[1]
  BY <1>1, <1>2, PromptedAsks
<1> QED
  BY <1>1, <1>3 DEF a

\* t has messages of raw at chosen places, all users among the first n of raw that are in kept.
Mirrors(k, t, raw, kept, n) ==
    /\ k \in [1..Len(t) -> 1..n]
    /\ Increasing(k, Len(t))
    /\ \A i \in 1..Len(t) : t[i].role = raw[k[i]].role /\ t[i].labels = raw[k[i]].labels
    /\ \A j \in 1..n : j \in kept => \E i \in 1..Len(t) : k[i] = j

LEMMA MirrorsAsks ==
    ASSUME NEW M, Listable(M), NEW raw \in Seq(M), NEW t \in Seq(M), NEW kept, NEW k, NEW L,
           Mirrors(k, t, raw, kept, Len(raw)), OwnAttached(raw, L),
           NEW u \in 1..Len(raw), u \in kept, raw[u].role = "user", raw[u].labels \cap L # {},
           \A j \in (u + 1)..Len(raw) : raw[j].role # "user"
    PROVE  LastBears(t, L) /\ OwnAttached(t, L)
<1>1. Len(raw) \in Nat /\ Len(t) \in Nat
  BY Typed
<1>2. /\ \A i \in 1..Len(t) : /\ k[i] \in 1..Len(raw)
                              /\ t[i].role = raw[k[i]].role /\ t[i].labels = raw[k[i]].labels
      /\ \A i, j \in 1..Len(t) : i < j => k[i] < k[j]
  BY DEF Mirrors, Increasing
<1>3. PICK v \in 1..Len(t) : k[v] = u
  BY DEF Mirrors
<1>4. ASSUME NEW j \in (v + 1)..Len(t) PROVE t[j].role # "user"
  <2>1. j \in 1..Len(t) /\ v < j
    BY <1>1
  <2>2. k[j] \in 1..Len(raw) /\ u < k[j]
    BY <1>2, <1>3, <2>1
  <2>3. k[j] \in (u + 1)..Len(raw)
    BY <1>1, <2>2
  <2> QED
    BY <1>2, <2>1, <2>3
<1>5. LastBears(t, L)
  BY <1>2, <1>3, <1>4 DEF LastBears, Indices
<1>6. OwnAttached(t, L)
  BY <1>2 DEF OwnAttached, Indices
<1> QED
  BY <1>5, <1>6

LEMMA RestoreStepMirrors ==
    ASSUME NEW M, Listable(M), NEW raw \in Seq(M), NEW kept, NEW n \in 1..Len(raw), NEW v,
           Restores(v, M, raw, n - 1), NEW k, Mirrors(k, v.list, raw, kept, n - 1)
    PROVE  \E h : Mirrors(h, RestoreStep(raw, kept, v, n).list, raw, kept, n)
<1> DEFINE at == FirstFrom(raw, v.cursor + 1, LAMBDA m : SameText(m, raw[n]))
           x  == [raw[n] EXCEPT !.calls = raw[at].calls, !.id = raw[at].id]
           q  == v.list
           t  == Append(q, x)
           m  == Len(q)
           r  == RestoreStep(raw, kept, v, n)
<1>1. Len(raw) \in Nat /\ \A i \in 1..Len(raw) : raw[i] \in M
  BY Typed
<1>2. q \in Seq(M) /\ m \in Nat
  <2>1. v.list \in Seq(M)
    BY DEF Restores
  <2> QED
    BY <2>1, Typed
<1>3. /\ k \in [1..m -> 1..(n - 1)]
      /\ \A i, j \in 1..m : i < j => k[i] < k[j]
      /\ \A i \in 1..m : q[i].role = raw[k[i]].role /\ q[i].labels = raw[k[i]].labels
      /\ \A j \in 1..(n - 1) : j \in kept => \E i \in 1..m : k[i] = j
  BY DEF Mirrors, Increasing
<1>4. \A j \in 1..n : j \in 1..(n - 1) \/ j = n
  BY <1>1
<1>5. CASE n \notin kept
  <2>1. r = v
    BY <1>5, Zenon DEF RestoreStep
  <2> HIDE DEF r, q, m
  <2>2. k \in [1..m -> 1..n]
    <3>1. \A i \in 1..(n - 1) : i \in 1..n
      BY <1>1
    <3> QED
      BY <1>3, <3>1
  <2>3. \A j \in 1..n : j \in kept => \E i \in 1..m : k[i] = j
    BY <1>3, <1>4, <1>5
  <2>4. Mirrors(k, q, raw, kept, n)
    BY <1>3, <2>2, <2>3 DEF Mirrors, Increasing, m
  <2> QED
    BY <2>1, <2>4 DEF q, r
<1>6. CASE n \in kept
  <2> DEFINE h == [i \in 1..(m + 1) |-> IF i \in 1..m THEN k[i] ELSE n]
  <2>1. r = [cursor |-> at, list |-> t]
    BY <1>6, Zenon DEF RestoreStep
  <2>2. x.role = raw[n].role /\ x.labels = raw[n].labels
    <3>1. PICK Ids, Labels : M = MessageSet(Ids, Labels)
      BY DEF Listable
    <3>2. raw[n] \in M
      BY <1>1
    <3> HIDE DEF at
    <3> QED
      BY <3>1, <3>2 DEF MessageSet
  <2> HIDE DEF at, x, r, q
  <2>3. /\ Len(t) = m + 1 /\ t[m + 1] = x /\ \A i \in 1..m : t[i] = q[i]
    BY <1>2
  <2>4. r.list = t
    BY <2>1
  <2> HIDE DEF t, m
  <2>5. \A i \in 1..(m + 1) : i \in 1..m \/ (i = m + 1 /\ i \notin 1..m)
    BY <1>2
  <2>6. h \in [1..(m + 1) -> 1..n] /\ (\A i \in 1..m : h[i] = k[i]) /\ h[m + 1] = n
    <3>1. \A i \in 1..m : i \in 1..(m + 1)
      BY <1>2
    <3>2. m + 1 \in 1..(m + 1) /\ m + 1 \notin 1..m /\ n \in 1..n
      BY <1>1, <1>2
    <3>3. \A i \in 1..m : k[i] \in 1..n
      BY <1>1, <1>3
    <3> QED
      BY <3>1, <3>2, <3>3
  <2> HIDE DEF h
  <2>7. \A i, j \in 1..(m + 1) : i < j => h[i] < h[j]
    <3> SUFFICES ASSUME NEW i \in 1..(m + 1), NEW j \in 1..(m + 1), i < j PROVE h[i] < h[j]
      OBVIOUS
    <3>1. i \in 1..m /\ k[i] \in 1..(n - 1) /\ h[i] = k[i]
      BY <1>2, <1>3, <2>6
    <3>2. CASE j \in 1..m
      BY <1>3, <2>6, <3>1, <3>2
    <3>3. CASE j = m + 1
      BY <1>1, <2>6, <3>1, <3>3
    <3> QED
      BY <2>5, <3>2, <3>3
  <2>8. ASSUME NEW i \in 1..(m + 1)
        PROVE  t[i].role = raw[h[i]].role /\ t[i].labels = raw[h[i]].labels
    <3>1. CASE i \in 1..m
      BY <1>3, <2>3, <2>6, <3>1
    <3>2. CASE i = m + 1
      BY <2>2, <2>3, <2>6, <3>2
    <3> QED
      BY <2>5, <3>1, <3>2
  <2>9. ASSUME NEW j \in 1..n, j \in kept PROVE \E i \in 1..(m + 1) : h[i] = j
    <3>1. m + 1 \in 1..(m + 1) /\ \A i \in 1..m : i \in 1..(m + 1)
      BY <1>2
    <3> QED
      BY <1>3, <1>4, <2>6, <2>9, <3>1
  <2>10. Mirrors(h, t, raw, kept, n)
    BY <2>3, <2>6, <2>7, <2>8, <2>9 DEF Mirrors, Increasing
  <2> QED
    BY <2>4, <2>10 DEF r
<1> QED
  BY <1>5, <1>6

\* The list that is restored has the roles and texts of the rows that stay.
LEMMA RestoredMirrors ==
    ASSUME NEW M, Listable(M), NEW raw \in Seq(M), NEW kept
    PROVE  \E k : Mirrors(k, Restored(raw, kept), raw, kept, Len(raw))
<1> DEFINE f == CHOOSE f : RestoredUpTo(f, raw, kept)
           Good(n) == Restores(f[n], M, raw, n) /\ \E k : Mirrors(k, f[n].list, raw, kept, n)
           P == {n \in 0..Len(raw) : Good(n)}
<1>1. Len(raw) \in Nat
  BY Typed
<1>2. RestoredUpTo(f, raw, kept)
  BY RestoredExists
<1>3. Restored(raw, kept) = f[Len(raw)].list
  BY Zenon DEF Restored, RestoredUpTo
<1> HIDE DEF f
<1>4. /\ f[0] = [cursor |-> 0, list |-> <<>>]
      /\ \A n \in 1..Len(raw) : f[n] = RestoreStep(raw, kept, f[n - 1], n)
  <2>1. 0 \in 0..Len(raw) /\ \A n \in 1..Len(raw) : n \in 0..Len(raw) /\ n # 0
    BY <1>1
  <2> QED
    BY <1>2, <2>1, Zenon DEF RestoredUpTo, RestoreStep
<1>5. Good(0)
  <2> DEFINE k == [i \in 1..0 |-> 1]
  <2>1. f[0].list = <<>> /\ Len(<<>>) = 0
    BY <1>4
  <2>2. k \in [1..0 -> 1..0]
    OBVIOUS
  <2> HIDE DEF k
  <2>3. Mirrors(k, f[0].list, raw, kept, 0)
    BY <2>1, <2>2 DEF Mirrors, Increasing
  <2> QED
    BY <1>4, <2>3, RestoresNone
<1>6. ASSUME NEW n \in 1..Len(raw), Good(n - 1) PROVE Good(n)
  <2>1. f[n] = RestoreStep(raw, kept, f[n - 1], n)
    BY <1>4
  <2>2. Restores(f[n], M, raw, n)
    BY <1>6, <2>1, RestoreStepIs
  <2>3. PICK k : Mirrors(k, f[n - 1].list, raw, kept, n - 1)
    BY <1>6
  <2>4. \E h : Mirrors(h, RestoreStep(raw, kept, f[n - 1], n).list, raw, kept, n)
    BY <1>6, <2>3, RestoreStepMirrors
  <2> QED
    BY <2>1, <2>2, <2>4
<1> HIDE DEF Good
<1>7. 0 \in P /\ P \in SUBSET (0..Len(raw)) /\ \A n \in 1..Len(raw) : n - 1 \in P => n \in P
  <2>1. \A n \in 1..Len(raw) : n \in 0..Len(raw)
    BY <1>1
  <2> QED
    BY <1>1, <1>5, <1>6, <2>1
<1>8. Good(Len(raw))
  <2> HIDE DEF P
  <2>1. P = 0..Len(raw)
    BY <1>1, <1>7, Upward
  <2> QED
    BY <1>1, <2>1 DEF P
<1> QED
  BY <1>3, <1>8 DEF Good

\* The newest third stays, whatever the budget.
LEMMA NewestStays ==
    ASSUME NEW s, Len(s) \in Nat, NEW budget, NEW u \in 1..Len(s),
           100 * (Len(s) - u) < 35 * Len(s)
    PROVE  u \in Trimmed(s, budget)
<1> DEFINE n == Len(s)
           d == (n * 35 + 99) \div 100
<1>1. d \in Int /\ 100 * d <= n * 35 + 99 /\ n * 35 + 99 < 100 * d + 100
  OBVIOUS
<1>2. BandStart(n, 35) = n - d
  BY DEF BandStart
<1> HIDE DEF d
<1>3. u >= BandStart(n, 35) + 1
  BY <1>1, <1>2
<1>4. u \in Indices(s)
  BY DEF Indices
<1> HIDE DEF n
<1>5. u >= BandStart(Len(s), 35) + 1
  BY <1>3 DEF n
<1> QED
  BY <1>4, <1>5, Zenon DEF Trimmed

LEMMA AssembledAsks ==
    ASSUME HistoryInv, NEW budget, NEW L, "attachment" \notin L, OwnAttached(Read(Newest), L),
           NEW u \in 1..Len(Read(Newest)),
           Read(Newest)[u].role = "user", Read(Newest)[u].labels \cap L # {},
           \A j \in (u + 1)..Len(Read(Newest)) : Read(Newest)[j].role # "user",
           100 * (Len(Read(Newest)) - u) < 35 * Len(Read(Newest))
    PROVE  Asks(Assembled(budget), L) /\ Assembled(budget)[1] = Prompt
<1> DEFINE M    == AllRows
           raw  == Read(Newest)
           kept == Trimmed(raw, budget)
           list == Restored(raw, kept)
           all  == <<Prompt>> \o list
           san  == SanitizeToolPairs(all)
<1>1. Listable(M)
  BY RowsListable
<1>2. raw \in Seq(M) /\ Sound(raw)
  BY ReadIs
<1> HIDE DEF M
<1>3. Len(raw) \in Nat
  BY <1>1, <1>2, Typed
<1>4. u \in kept
  BY <1>3, NewestStays
<1> HIDE DEF kept
<1>5. list \in Seq(M) /\ \E g : Thins(g, list, raw)
  BY <1>1, <1>2, RestoredIs
<1>6. LastBears(list, L) /\ OwnAttached(list, L)
  <2>1. \E k : Mirrors(k, list, raw, kept, Len(raw))
    BY <1>1, <1>2, RestoredMirrors
  <2> HIDE DEF list
  <2> QED
    BY <1>1, <1>2, <1>4, <1>5, <2>1, MirrorsAsks
<1> HIDE DEF list
<1>7. Sound(list)
  BY <1>1, <1>2, <1>5, ThinnedSound
<1>8. all \in Seq(M) /\ Sound(all)
  <2> DEFINE a == <<Prompt>>
  <2>1. a \in Seq(AllRows) /\ \A i \in 1..Len(a) : a[i].role = "system"
    BY PromptIs
  <2> HIDE DEF a
  <2>2. a \o list \in Seq(AllRows) /\ Sound(a \o list)
    BY <1>5, <1>7, <2>1, PromptedSound DEF M
  <2> QED
    BY <2>2 DEF a, M
<1>9. Asks(all, L) /\ all[1] = Prompt
  BY <1>5, <1>6, BehindPrompt DEF M
<1> HIDE DEF all
<1>10. san \in Seq(M) /\ AsksToo(san, all, L)
  BY <1>1, <1>8, SanitizeAsks
<1>11. Assembled(budget) = NormalizeRoleAlternation(san)
  BY DEF Assembled, san, all, list, kept, raw
<1> HIDE DEF san
<1>12. Carries(NormalizeRoleAlternation(san), san, L)
  BY <1>1, <1>10, NormalizeKeeps
<1> QED
  BY <1>9, <1>10, <1>11, <1>12 DEF AsksToo, Carries

LEMMA WithoutToolsAsks ==
    ASSUME NEW s \in Seq(AllRows), NEW L
    PROVE  AsksToo(WithoutTools(s), s, L)
<1> SUFFICES ASSUME Asks(s, L) PROVE Asks(WithoutTools(s), L) /\ WithoutTools(s)[1] = s[1]
  BY DEF AsksToo
<1> DEFINE M    == AllRows
           shift == Plain("system", "shift")
           rest == Tail(s)
           I    == {i \in Indices(rest) : rest[i].role # "tool" /\ ~ HasCalls(rest[i])}
           kept == Keep(rest, I)
           a    == <<s[1], shift>>
<1>1. Listable(M)
  BY RowsListable
<1>2. s \in Seq(M) /\ s # <<>> /\ s[1].role = "system"
  BY DEF Asks, M
<1>3. shift \in M /\ shift.role = "system"
  <2>1. "shift" \in RowLabels
    BY DEF RowLabels
  <2> QED
    BY <2>1, PlainIs
<1> HIDE DEF M, shift
<1>4. /\ rest \in Seq(M) /\ Len(s) \in Nat \ {0} /\ Len(rest) = Len(s) - 1 /\ s[1] \in M
      /\ \A i \in 1..Len(rest) : rest[i] = s[i + 1]
  BY <1>2
<1> HIDE DEF rest
<1>5. PICK v \in 1..Len(s) : /\ s[v].role = "user" /\ s[v].labels \cap L # {}
                            /\ \A j \in (v + 1)..Len(s) : s[j].role # "user"
  BY DEF Asks, LastBears, Indices
<1>6. 1 \in 0..Len(s) /\ v > 1
  <2>1. v # 1
    BY <1>2, <1>5
  <2> QED
    BY <1>4, <2>1
<1>7. LastBears(rest, L) /\ OwnAttached(rest, L)
  <2>1. LastBears(s, L) /\ OwnAttached(s, L)
    BY DEF Asks
  <2> QED
    BY <1>1, <1>2, <1>4, <1>5, <1>6, <2>1, EndAsks
<1>8. kept \in Seq(M) /\ LastBears(kept, L) /\ OwnAttached(kept, L)
  <2>1. \A i \in 1..Len(rest) : rest[i].role = "user" => i \in I
    BY DEF Indices, HasCalls
  <2> HIDE DEF I
  <2>2. kept \in Seq(M) /\ \E g : TakenAt(g, kept, rest, I)
    BY <1>4, KeepTakes
  <2> HIDE DEF kept
  <2>3. LastUserToo(rest, I)
    BY <2>1 DEF LastUserToo
  <2> QED
    BY <1>1, <1>4, <1>7, <2>2, <2>3, TakenAsks, TakenAttachments
<1> HIDE DEF kept
<1>9. a \in Seq(M) /\ Len(a) = 2 /\ a[1] = s[1] /\ a[2] = shift
  BY <1>3, <1>4
<1> HIDE DEF a
<1>10. Len(a) > 0 /\ \A i \in 1..Len(a) : a[i].role = "system"
  <2>1. \A i \in 1..Len(a) : i = 1 \/ i = 2
    BY <1>9
  <2> QED
    BY <1>2, <1>3, <1>9, <2>1
<1>11. Asks(a \o kept, L) /\ (a \o kept)[1] = a[1]
  <2>1. a \in Seq(M) /\ kept \in Seq(M)
    BY <1>8, <1>9
  <2> QED
    BY <1>8, <1>10, <2>1, PromptedAsks
<1>12. WithoutTools(s) = a \o kept
  BY Zenon DEF WithoutTools, a, kept, I, rest, shift
<1> QED
  BY <1>9, <1>11, <1>12

LEMMA LoadedIs ==
    ASSUME HistoryInv, NEW budget, NEW scoped, NEW L
    PROVE  /\ WellPaired(Loaded(budget, scoped)) \/ BehindSummary(Loaded(budget, scoped))
           /\ AsksToo(Loaded(budget, scoped), <<Prompt>> \o Read(Newest), L)
<1> DEFINE M    == AllRows
           raw  == Read(Newest)
           a    == <<Prompt>>
           all  == a \o raw
           mine == IF scoped THEN OfThisAgent(all) ELSE all
           cut  == CutToBudget(mine, budget)
           met  == DeleteFailed(cut)
           said == DeleteEmpty(met)
           back == StripLeadingResults(said)
           list == FillResults(back)
           Good(s) == s \in Seq(AllRows) /\ Sound(s) /\ FrontOrCalled(s) /\ Fronted(s)
<1>1. Listable(M)
  BY RowsListable
<1>2. /\ raw \in Seq(AllRows) /\ Sound(raw) /\ FrontOrCalled(raw)
      /\ \A i \in 1..Len(raw) : raw[i] \in ToSet(rows)
  BY ReadIs
<1> HIDE DEF raw
<1>3. Fronted(raw)
  <2>1. \A m \in ToSet(rows) : m.role = "system" => "summary" \in m.labels
    BY DEF HistoryInv, Dated, DatedRow, Seen
  <2> QED
    BY <1>2, <2>1 DEF Fronted
<1> HIDE DEF M
<1>4. Prompt.role = "system"
  BY PromptIs
<1>5. a \in Seq(AllRows) /\ Len(a) = 1 /\ a[1] = Prompt
  BY PromptIs
<1> HIDE DEF a
<1>6. Good(all)
  <2>1. \A i \in 1..Len(a) : a[i].role = "system"
    BY <1>4, <1>5
  <2> QED
    BY <1>2, <1>3, <1>5, <2>1, PromptedSound
<1>7. all # <<>> /\ all[1].role = "system"
  <2>1. /\ Len(all) = Len(a) + Len(raw) /\ Len(raw) \in Nat
        /\ \A i \in 1..Len(a) : all[i] = a[i]
    BY <1>2, <1>5, Concat
  <2>2. Len(all) # 0 /\ 1 \in 1..Len(a)
    BY <1>5, <2>1
  <2> HIDE DEF all
  <2> QED
    BY <1>4, <1>5, <2>1, <2>2
<1> HIDE DEF all
<1>8. Good(mine) /\ mine # <<>> /\ mine[1].role = "system" /\ AsksToo(mine, all, L)
  <2>1. CASE scoped
    <3>1. mine = OfThisAgent(all)
      BY <2>1
    <3>2. /\ OfThisAgent(all) \in Seq(AllRows) /\ Sound(OfThisAgent(all))
          /\ FrontOrCalled(OfThisAgent(all)) /\ Fronted(OfThisAgent(all))
          /\ OfThisAgent(all) # <<>> /\ OfThisAgent(all)[1].role = "system"
      BY <1>6, <1>7, OfThisAgentIs
    <3>3. AsksToo(OfThisAgent(all), all, L)
      BY <1>6, LeftOutAsks, RowsListable
    <3> HIDE DEF mine
    <3> QED
      BY <3>1, <3>2, <3>3
  <2>2. CASE ~ scoped
    <3>1. mine = all
      BY <2>2
    <3> HIDE DEF mine
    <3> QED
      BY <1>6, <1>7, <3>1 DEF AsksToo
  <2> QED
    BY <2>1, <2>2
<1> HIDE DEF mine
<1>9. Good(cut) /\ cut[1].role = "system"
  BY <1>8, CutToBudgetIs
<1> DEFINE AskedBy(s) == AsksToo(s, all, L)
<1>10. AskedBy(cut)
  BY <1>8, CutToBudgetAsks DEF AsksToo
<1> HIDE DEF cut
<1>11. met \in Seq(M) /\ Sound(met) /\ Traced(met) /\ Fronted(met) /\ AskedBy(met)
  <2>1. cut \in Seq(M)
    BY <1>9 DEF M
  <2>2. AskedBy(met)
    BY <1>1, <1>10, <2>1, LeftOutAsks DEF AsksToo
  <2> QED
    BY <1>1, <1>9, <2>1, <2>2, DeleteFailedIs
<1> HIDE DEF met
<1>12. said \in Seq(M) /\ Sound(said) /\ Traced(said) /\ Fronted(said) /\ AskedBy(said)
  <2>1. AskedBy(said)
    BY <1>1, <1>11, LeftOutAsks DEF AsksToo
  <2> QED
    BY <1>1, <1>11, <2>1, DeleteEmptyIs
<1> HIDE DEF said
<1>13. back \in Seq(M) /\ Sound(back) /\ (Called(back) \/ ResultBehind(back)) /\ AskedBy(back)
  <2>1. AskedBy(back)
    BY <1>1, <1>12, StripKeeps DEF AsksToo, Carries
  <2> QED
    BY <1>1, <1>12, <2>1, StripTraced
<1> HIDE DEF back
<1>14. /\ list \in Seq(M) /\ Answered(list) /\ OneAnswer(list)
       /\ Called(back) => Called(list)
       /\ ResultBehind(back) => ResultBehind(list)
       /\ AskedBy(list)
  <2>1. AskedBy(list)
    BY <1>1, <1>13, FillAsks DEF AsksToo
  <2> QED
    BY <1>1, <1>13, <2>1, FillSound
<1>15. Loaded(budget, scoped) = list
  BY Zenon DEF Loaded, list, back, said, met, cut, mine, all, a, raw
<1> HIDE DEF list
<1>16. Called(list) => WellPaired(list)
  BY <1>1, <1>14, PairedIs
<1>17. ResultBehind(list) => BehindSummary(list)
  BY DEF ResultBehind, BehindSummary, Indices
<1> QED
  BY <1>13, <1>14, <1>15, <1>16, <1>17 DEF all, a, raw

-----------------------------------------------------------------------------
(* Every list that is sent is well paired *)

\* What the builder makes, with or without the tools left out.
LEMMA BuiltPaired ==
    ASSUME HistoryInv, NEW budget
    PROVE  /\ WellPaired(Assembled(budget))
           /\ (\E m \in ToSet(Assembled(budget)) : m.role = "assistant") =>
                WellPaired(WithoutTools(Assembled(budget)))
<1> DEFINE list == Assembled(budget)
<1>1. /\ list \in Seq(AllRows) /\ WellPaired(list)
      /\ list # <<>> => list[1].role \in {"system", "user"}
  BY AssembledPaired
<1> HIDE DEF list
<1>2. ASSUME NEW m \in ToSet(list) PROVE list # <<>>
  BY <1>2 DEF ToSet
<1>3. (\E m \in ToSet(list) : m.role = "assistant") => WellPaired(WithoutTools(list))
  BY <1>1, <1>2, WithoutToolsPaired
<1> QED
  BY <1>1, <1>3 DEF list

LEMMA NothingPaired == WellPaired(NothingSent.list)
<1>1. NothingSent.list = <<>>
  BY DEF NothingSent
<1>2. WellPaired(<<>>)
  BY DEF WellPaired, Indices
<1> QED
  BY <1>1, <1>2

LEMMA SentStep ==
    ASSUME HistoryInv, SentIsPaired, [HistoryNext]_historyVars
    PROVE  SentIsPaired'
<1>1. CASE LoadConversation
  <2>1. PICK budget \in Budgets, scoped \in BOOLEAN : Send("load", Loaded(budget, scoped))
    BY <1>1 DEF LoadConversation
  <2>2. sent'.by = "load" /\ sent'.list = Loaded(budget, scoped)
    BY <2>1 DEF Send
  <2>3. /\ WellPaired(Loaded(budget, scoped)) \/ BehindSummary(Loaded(budget, scoped))
        /\ AsksToo(Loaded(budget, scoped), <<Prompt>> \o Read(Newest), {turn})
    BY LoadedIs
  <2> QED
    BY <2>2, <2>3 DEF SentIsPaired
<1>2. CASE AssembleContext
  <2>1. PICK budget \in Budgets : Send("builder", Assembled(budget))
    BY <1>2 DEF AssembleContext
  <2>2. sent'.list = Assembled(budget)
    BY <2>1 DEF Send
  <2> QED
    BY <2>2, BuiltPaired DEF SentIsPaired
<1>3. CASE AssembleShifted
  <2>1. PICK budget \in Budgets : /\ \E m \in ToSet(Assembled(budget)) : m.role = "assistant"
                                  /\ Send("builder", WithoutTools(Assembled(budget)))
    BY <1>3, Zenon DEF AssembleShifted
  <2>2. sent'.list = WithoutTools(Assembled(budget))
    BY <2>1 DEF Send
  <2> QED
    BY <2>1, <2>2, BuiltPaired DEF SentIsPaired
<1>4. CASE Answer \/ TurnFails \/ Crash
  <2>1. sent' = NothingSent
    BY <1>4 DEF Answer, TurnFails, Crash
  <2> QED
    BY <2>1, NothingPaired DEF SentIsPaired
<1>5. CASE UNCHANGED sent
  BY <1>5 DEF SentIsPaired
<1>6. ASSUME Ask \/ StoreMessage PROVE UNCHANGED sent
  BY <1>6 DEF Ask, StoreMessage
<1>7. ASSUME NEW c \in Compactors,
             \/ ReadMessages(c) \/ GiveUp(c) \/ Checkpoint(c)
             \/ DeleteOld(c) \/ InsertSummary(c) \/ StatementFails(c)
      PROVE  UNCHANGED sent
  BY <1>7 DEF ReadMessages, GiveUp, Checkpoint, DeleteOld, InsertSummary, StatementFails, turnVars
<1>8. ASSUME UNCHANGED historyVars PROVE UNCHANGED sent
  BY <1>8 DEF historyVars, turnVars
<1> QED
  BY <1>1, <1>2, <1>3, <1>4, <1>5, <1>6, <1>7, <1>8 DEF HistoryNext

(* A list that is sent is well paired however the rows were cut, compacted   *)
(* or left half stored; on the path of load_conversation a result may stand   *)
(* without its call only behind a summary.                                   *)
THEOREM SentListsArePaired == HistorySpec => []SentIsPaired
<1>1. HistoryInit => SentIsPaired
  BY NothingPaired DEF HistoryInit, SentIsPaired
<1>2. HistoryInv /\ SentIsPaired /\ [HistoryNext]_historyVars => SentIsPaired'
  BY SentStep
<1> QED
  BY <1>1, <1>2, HistoryInvHolds, PTL DEF HistorySpec

-----------------------------------------------------------------------------
(* The question of a turn while it waits to be sent *)

\* Rows stored behind the last question.
RowsSince == Len(rows) - LastUser(rows)

\* While a question waits to be sent, so few rows were stored behind it that no
\* compaction takes it, that it is among those read, and in their newest third.
FewBehind ==
    pc = "asked" =>
        /\ RowsSince < KeepRecent
        /\ 100 * RowsSince < 35 * Min({Newest, Len(rows)})

\* The question of the turn is the last one, and no compaction has it.
LatestAt(u) ==
    /\ u \in 1..Len(rows) /\ rows[u] = Question(turn)
    /\ \A j \in (u + 1)..Len(rows) : rows[j].role # "user"
    /\ \A c \in Compactors : rows[u] \notin OldRows(c)
LatestWaits == pc = "asked" => \E u \in 1..Len(rows) : LatestAt(u)

LEMMA RowsAre ==
    ASSUME HistoryInv
    PROVE  /\ rows \in Seq(AllRows) /\ Len(rows) \in Nat /\ Distinct(rows)
           /\ KeepRecent \in Nat /\ Newest \in Nat
<1> DEFINE M == AllRows
<1>1. rows \in Seq(M) /\ todo \in Seq(M) /\ Distinct(rows \o todo)
  BY DEF HistoryInv, HistoryTypes, Shaped
<1>2. Listable(M)
  BY RowsListable
<1> HIDE DEF M
<1>3. Len(rows) \in Nat /\ Distinct(rows)
  BY <1>1, <1>2, FrontKeeps
<1>4. KeepRecent \in Nat /\ Newest \in Nat
  BY HistoryAssumption DEF HistoryAssumption
<1> QED
  BY <1>1, <1>3, <1>4 DEF M

LEMMA TurnIs ==
    ASSUME HistoryInv, pc = "asked"
    PROVE  turn \in Turns /\ Question(turn).role = "user" /\ Question(turn).labels = {turn, "question"}
<1>1. turn = Questions[asked] /\ asked \in 1..Len(Questions)
  BY DEF HistoryInv, HistoryTypes
<1>2. turn \in Turns
  BY <1>1, TurnsOfQuestions
<1> QED
  BY <1>2, QuestionIs

LEMMA LastUserAt ==
    ASSUME NEW s \in Seq(AllRows), NEW u \in 1..Len(s), s[u].role = "user",
           \A j \in (u + 1)..Len(s) : s[j].role # "user"
    PROVE  LastUser(s) = u
<1> DEFINE M == AllRows
<1>1. Listable(M) /\ s \in Seq(M)
  BY RowsListable
<1> HIDE DEF M
<1>2. Len(s) \in Nat
  BY <1>1, Typed
<1>3. u <= LastUser(s) /\ s[LastUser(s)].role = "user" /\ LastUser(s) \in 0..Len(s)
  BY <1>1, LastUserIs
<1>4. LastUser(s) \notin (u + 1)..Len(s)
  BY <1>3
<1> QED
  BY <1>2, <1>3, <1>4

LEMMA LatestIsLast ==
    ASSUME HistoryInv, pc = "asked", NEW u, LatestAt(u)
    PROVE  LastUser(rows) = u
<1>1. rows \in Seq(AllRows)
  BY RowsAre
<1>2. u \in 1..Len(rows) /\ rows[u].role = "user" /\ \A j \in (u + 1)..Len(rows) : rows[j].role # "user"
  BY TurnIs DEF LatestAt
<1> QED
  BY <1>1, <1>2, LastUserAt

LEMMA LatestFew ==
    ASSUME HistoryInv, pc = "asked", NEW u, LatestAt(u), FewBehind
    PROVE  /\ u \in 1..Len(rows) /\ Len(rows) - u < KeepRecent
           /\ 100 * (Len(rows) - u) < 35 * Newest /\ 100 * (Len(rows) - u) < 35 * Len(rows)
<1>1. RowsSince = Len(rows) - u /\ u \in 1..Len(rows)
  BY LatestIsLast DEF RowsSince, LatestAt
<1>2. Len(rows) \in Nat /\ Newest \in Nat /\ KeepRecent \in Nat
  BY RowsAre
<1> DEFINE n == Len(rows)
           m == Min({Newest, n})
<1>3. m \in Nat /\ m <= Newest /\ m <= n
  <2> HIDE DEF n
  <2> DEFINE T == {Newest, n}
  <2>1. T \in SUBSET Nat /\ T # {} /\ Newest \in T /\ n \in T
    BY <1>2 DEF n
  <2> HIDE DEF T
  <2>2. Min(T) \in T /\ \A y \in T : Min(T) <= y
    BY <2>1, MinIs
  <2>3. Min(T) \in Nat /\ Min(T) <= Newest /\ Min(T) <= n
    BY <2>1, <2>2
  <2> QED
    BY <2>3 DEF T
<1>4. n - u < KeepRecent /\ 100 * (n - u) < 35 * m
  BY <1>1 DEF FewBehind
<1> HIDE DEF n, m
<1>5. n \in Nat /\ u \in 1..n
  BY <1>1, <1>2 DEF n
<1>6. 100 * (n - u) < 35 * Newest /\ 100 * (n - u) < 35 * n
  BY <1>2, <1>3, <1>4, <1>5
<1> QED
  BY <1>1, <1>4, <1>6 DEF n

\* A list built now asks the question of the turn last, behind the prompt.
LEMMA LatestIsSent ==
    ASSUME HistoryInv, pc = "asked", NEW u, LatestAt(u), FewBehind, NEW L \in {{turn}, {"question"}},
           NEW budget, NEW scoped
    PROVE  /\ Asks(Loaded(budget, scoped), L) /\ Loaded(budget, scoped)[1] = Prompt
           /\ Asks(Assembled(budget), L) /\ Assembled(budget)[1] = Prompt
<1> DEFINE raw == Read(Newest)
           n == Len(rows)
           m == Len(raw)
<1>1. /\ u \in 1..n /\ 100 * (n - u) < 35 * Newest /\ 100 * (n - u) < 35 * n
      /\ n \in Nat /\ Newest \in Nat
  BY LatestFew, RowsAre
<1>2. PICK cut \in 0..n :
        /\ raw \in Seq(AllRows) /\ m = n - cut
        /\ \A i \in 1..m : raw[i] = rows[i + cut]
        /\ cut = 0 \/ m = Newest
  BY ReadPlaces
<1>3. /\ rows[u] = Question(turn)
      /\ \A j \in (u + 1)..n : rows[j].role # "user"
  BY DEF LatestAt
<1>4. turn \in Turns /\ Question(turn).role = "user" /\ Question(turn).labels = {turn, "question"}
  BY TurnIs
<1>5. "attachment" \notin L /\ Question(turn).labels \cap L # {}
  <2>1. turn # "attachment"
    BY <1>4, HistoryAssumption DEF HistoryAssumption
  <2> QED
    BY <1>4, <2>1
<1>6. \A i \in 1..n : rows[i].role = "user" => "attachment" \notin rows[i].labels
  <2> SUFFICES ASSUME NEW i \in 1..n, rows[i].role = "user" PROVE "attachment" \notin rows[i].labels
    OBVIOUS
  <2>1. rows[i] \in Seen
    BY SetOf DEF Seen
  <2>2. PICK t \in AskedSoFar : rows[i] = Question(t)
    BY <2>1 DEF HistoryInv, Dated, DatedRow
  <2>3. t \in Turns
    <3>1. asked \in 0..Len(Questions)
      BY DEF HistoryInv, HistoryTypes
    <3> QED
      BY <3>1, TurnsOfQuestions DEF AskedSoFar
  <2>4. rows[i].labels = {t, "question"} /\ t # "attachment"
    BY <2>2, <2>3, QuestionIs, HistoryAssumption DEF HistoryAssumption
  <2> QED
    BY <2>4
<1> HIDE DEF n, m, raw
<1>7. u > cut /\ u - cut \in 1..m /\ (u - cut) + cut = u /\ m - (u - cut) = n - u
  BY <1>1, <1>2
<1> DEFINE v == u - cut
<1>8. raw[v] = Question(turn)
  BY <1>2, <1>3, <1>7
<1>9. ASSUME NEW j \in (v + 1)..m PROVE raw[j].role # "user"
  <2>1. j \in 1..m /\ j + cut \in (u + 1)..n
    BY <1>1, <1>2, <1>7
  <2> QED
    BY <1>2, <1>3, <2>1
<1>10. 100 * (m - v) < 35 * m
  BY <1>1, <1>2, <1>7
<1>11. OwnAttached(raw, L)
  <2>1. \A i \in 1..m : i + cut \in 1..n
    BY <1>1, <1>2
  <2> QED
    BY <1>2, <1>6, <2>1 DEF OwnAttached, Indices, m
<1>12. v \in 1..m
  BY <1>7
<1> HIDE DEF v
<1>13. LastBears(raw, L)
  BY <1>4, <1>5, <1>8, <1>9, <1>12 DEF LastBears, Indices, m
<1>14. Asks(Assembled(budget), L) /\ Assembled(budget)[1] = Prompt
  BY <1>4, <1>5, <1>8, <1>9, <1>10, <1>11, <1>12, AssembledAsks DEF m, raw
<1>15. AsksToo(Loaded(budget, scoped), <<Prompt>> \o raw, L)
  BY LoadedIs DEF raw
<1>16. Asks(<<Prompt>> \o raw, L) /\ (<<Prompt>> \o raw)[1] = Prompt
  BY <1>2, <1>11, <1>13, BehindPrompt
<1> QED
  BY <1>14, <1>15, <1>16 DEF AsksToo

\* Both labels are on the last user message.
LEMMA AskedLast ==
    ASSUME NEW s, NEW t, LastBears(s, {t}), LastBears(s, {"question"})
    PROVE  \E i \in Indices(s) :
             /\ s[i].role = "user" /\ {t, "question"} \subseteq s[i].labels
             /\ \A j \in (i + 1)..Len(s) : s[j].role # "user"
<1>1. PICK u \in 1..Len(s) : /\ s[u].role = "user" /\ s[u].labels \cap {t} # {}
                            /\ \A j \in (u + 1)..Len(s) : s[j].role # "user"
  BY DEF LastBears, Indices
<1>2. PICK v \in 1..Len(s) : /\ s[v].role = "user" /\ s[v].labels \cap {"question"} # {}
                            /\ \A j \in (v + 1)..Len(s) : s[j].role # "user"
  BY DEF LastBears, Indices
<1>3. u \notin (v + 1)..Len(s) /\ v \notin (u + 1)..Len(s)
  BY <1>1, <1>2
<1>4. u = v
  BY <1>3
<1> QED
  BY <1>1, <1>2, <1>4 DEF Indices

\* Nothing is sent but while the model thinks.
SentOnly == sent.by # "none" => pc = "thinking"

LEMMA LatestSentStep ==
    ASSUME HistoryInv, LatestWaits, FewBehind, SentOnly, QuestionIsSent,
           [HistoryNext]_historyVars
    PROVE  QuestionIsSent' /\ SentOnly'
<1> DEFINE Good(list) == /\ list[1] = Prompt
                         /\ \E i \in Indices(list) :
                              /\ list[i].role = "user" /\ {turn, "question"} \subseteq list[i].labels
                              /\ \A j \in (i + 1)..Len(list) : list[j].role # "user"
<1>1. ASSUME NEW list, \A L \in {{turn}, {"question"}} : Asks(list, L),
             list[1] = Prompt
      PROVE  Good(list)
  <2>1. Asks(list, {turn}) /\ Asks(list, {"question"})
    BY <1>1
  <2> QED
    BY <1>1, <2>1, AskedLast DEF Asks
<1>2. ASSUME NEW by, NEW list, Send(by, list), Good(list)
      PROVE  QuestionIsSent' /\ SentOnly'
  <2>1. sent'.list = list /\ turn' = turn /\ pc' = "thinking"
    BY <1>2 DEF Send
  <2> QED
    BY <1>2, <2>1 DEF QuestionIsSent, SentOnly
<1>3. ASSUME NEW budget, NEW scoped, pc = "asked"
      PROVE  /\ Good(Loaded(budget, scoped)) /\ Good(Assembled(budget))
             /\ Good(WithoutTools(Assembled(budget)))
  <2>1. PICK u \in 1..Len(rows) : LatestAt(u)
    BY <1>3 DEF LatestWaits
  <2>2. \A L \in {{turn}, {"question"}} :
          /\ Asks(Loaded(budget, scoped), L) /\ Loaded(budget, scoped)[1] = Prompt
          /\ Asks(Assembled(budget), L) /\ Assembled(budget)[1] = Prompt
    BY <1>3, <2>1, LatestIsSent
  <2>3. Assembled(budget) \in Seq(AllRows)
    BY AssembledPaired
  <2>4. \A L \in {{turn}, {"question"}} :
          Asks(WithoutTools(Assembled(budget)), L) /\ WithoutTools(Assembled(budget))[1] = Prompt
    BY <2>2, <2>3, WithoutToolsAsks DEF AsksToo
  <2> QED
    BY <1>1, <2>2, <2>4
<1>4. CASE LoadConversation
  <2>1. PICK budget \in Budgets, scoped \in BOOLEAN : Send("load", Loaded(budget, scoped))
    BY <1>4 DEF LoadConversation
  <2>2. pc = "asked"
    BY <2>1 DEF Send
  <2> QED
    BY <1>2, <1>3, <2>1, <2>2
<1>5. CASE AssembleContext
  <2>1. PICK budget \in Budgets : Send("builder", Assembled(budget))
    BY <1>5 DEF AssembleContext
  <2>2. pc = "asked"
    BY <2>1 DEF Send
  <2> QED
    BY <1>2, <1>3, <2>1, <2>2
<1>6. CASE AssembleShifted
  <2>1. PICK budget \in Budgets : Send("builder", WithoutTools(Assembled(budget)))
    BY <1>6, Zenon DEF AssembleShifted
  <2>2. pc = "asked"
    BY <2>1 DEF Send
  <2> QED
    BY <1>2, <1>3, <2>1, <2>2
<1>7. CASE Answer \/ TurnFails \/ Crash
  <2>1. sent'.by = "none"
    BY <1>7 DEF Answer, TurnFails, Crash, NothingSent
  <2> QED
    BY <2>1 DEF QuestionIsSent, SentOnly
<1>8. CASE Ask \/ StoreMessage
  <2>1. sent' = sent /\ pc # "thinking"
    BY <1>8 DEF Ask, StoreMessage
  <2>2. sent'.by = "none"
    BY <2>1 DEF SentOnly
  <2> QED
    BY <2>2 DEF QuestionIsSent, SentOnly
<1>9. CASE sent' = sent /\ turn' = turn /\ pc' = pc
  BY <1>9 DEF QuestionIsSent, SentOnly
<1>10. ASSUME NEW c \in Compactors,
              \/ ReadMessages(c) \/ GiveUp(c) \/ Checkpoint(c)
              \/ DeleteOld(c) \/ InsertSummary(c) \/ StatementFails(c)
       PROVE  sent' = sent /\ turn' = turn /\ pc' = pc
  BY <1>10 DEF ReadMessages, GiveUp, Checkpoint, DeleteOld, InsertSummary, StatementFails, turnVars
<1>11. ASSUME UNCHANGED historyVars PROVE sent' = sent /\ turn' = turn /\ pc' = pc
  BY <1>11 DEF historyVars, turnVars
<1> HIDE DEF Good
<1> QED
  BY <1>4, <1>5, <1>6, <1>7, <1>8, <1>9, <1>10, <1>11 DEF HistoryNext

\* The question of a turn that has been asked is the last row.
LEMMA AskIsLatest ==
    ASSUME HistoryInv, Ask, NEW n, n = Len(rows)
    PROVE  Len(rows') = n + 1 /\ LatestAt(n + 1)'
<1> DEFINE t == Questions[asked + 1]
           q == Question(t)
           M == AllRows
<1>1. /\ turn' = t /\ rows' = Append(rows, q) /\ compactor' = compactor
      /\ asked < Len(Questions)
  BY DEF Ask, AddMessage, compactVars
<1>2. t \in Turns /\ q \notin Seen /\ q \in M
  BY <1>1, QuestionIsNew, QuestionIs
<1>3. rows \in Seq(M) /\ n \in Nat
  BY RowsAre
<1>4. q = Question(t)
  OBVIOUS
<1> HIDE DEF t, q, M
<1>5. Len(rows') = n + 1 /\ rows'[n + 1] = q
  BY <1>1, <1>2, <1>3
<1>6. \A c \in Compactors : rows'[n + 1] \notin OldRows(c)'
  <2>1. \A c \in Compactors : OldRows(c)' = OldRows(c)
    BY <1>1 DEF OldRows
  <2> HIDE DEF OldRows
  <2> QED
    BY <1>2, <1>5, <2>1 DEF Seen
<1>7. n + 1 \in 1..Len(rows') /\ \A j \in ((n + 1) + 1)..Len(rows') : rows'[j].role # "user"
  BY <1>3, <1>5
<1>8. rows'[n + 1] = Question(turn')
  BY <1>1, <1>4, <1>5
<1> HIDE DEF OldRows
<1> QED
  BY <1>5, <1>6, <1>7, <1>8 DEF LatestAt

LEMMA LatestStays ==
    ASSUME NEW u, LatestAt(u), rows' = rows, turn' = turn, OldsShrink
    PROVE  LatestAt(u)'
<1>1. \A c \in Compactors : OldRows(c)' \in {OldRows(c), {}}
  BY OldsShrinkTo
<1> HIDE DEF OldRows
<1> QED
  BY <1>1 DEF LatestAt

\* The rows that a compaction reads.
LEMMA OldRowsAre ==
    ASSUME HistoryInv, NEW c \in Compactors, ReadMessages(c)
    PROVE  /\ Len(rows) > KeepRecent /\ rows' = rows /\ UNCHANGED turnVars
           /\ compactor[c].at = "waiting" /\ compactor'[c].at = "summarise"
           /\ \A i \in 1..Len(rows) : rows[i] \in OldRows(c)' => i <= Len(rows) - KeepRecent
           /\ \A d \in Compactors : d # c => compactor'[d] = compactor[d]
<1> DEFINE M == AllRows
           n == Len(rows)
           m == n - KeepRecent
           old == SubSeq(rows, 1, m)
<1>1. /\ compactor[c].at = "waiting" /\ n > KeepRecent /\ At(c, "summarise", old)
      /\ rows' = rows /\ UNCHANGED turnVars
  BY DEF ReadMessages
<1>2. rows \in Seq(M) /\ HistoryTypes /\ n \in Nat /\ KeepRecent \in Nat /\ Distinct(rows)
  BY RowsAre DEF HistoryInv
<1> HIDE DEF n
<1>3. m \in 1..n
  BY <1>1, <1>2
<1> HIDE DEF m
<1>4. /\ old \in Seq(M) /\ Len(old) = m /\ \A i \in 1..m : old[i] = rows[i]
  <2> HIDE DEF M
  <2> QED
    BY <1>2, <1>3 DEF n
<1> HIDE DEF old
<1>5. /\ compactor'[c].at = "summarise" /\ compactor'[c].old = old
      /\ \A d \in Compactors : d # c => compactor'[d] = compactor[d]
  <2>1. "summarise" \in CompactionSteps
    BY DEF CompactionSteps
  <2> QED
    BY <1>1, <1>2, <1>4, <2>1, AtIs
<1>6. ASSUME NEW i \in 1..n, rows[i] \in OldRows(c)' PROVE i <= m
  <2>1. rows[i] \in ToSet(old)
    BY <1>5, <1>6 DEF OldRows
  <2>2. PICK j \in 1..m : rows[j] = rows[i]
    BY <1>4, <2>1, SetOf
  <2>3. j \in 1..n
    BY <1>2, <1>3
  <2>4. i = j
    BY <1>2, <2>2, <2>3 DEF Distinct, n
  <2> QED
    BY <2>4
<1> HIDE DEF OldRows
<1> QED
  BY <1>1, <1>5, <1>6 DEF n, m

LEMMA LatestRead ==
    ASSUME HistoryInv, pc = "asked", FewBehind, NEW u, LatestAt(u), NEW c \in Compactors, ReadMessages(c)
    PROVE  LatestAt(u)'
<1>1. /\ rows' = rows /\ turn' = turn
      /\ \A i \in 1..Len(rows) : rows[i] \in OldRows(c)' => i <= Len(rows) - KeepRecent
      /\ \A d \in Compactors : d # c => compactor'[d] = compactor[d]
  BY OldRowsAre DEF turnVars
<1>2. u \in 1..Len(rows) /\ Len(rows) - u < KeepRecent /\ Len(rows) \in Nat /\ KeepRecent \in Nat
  BY LatestFew, RowsAre
<1>3. ~ (u <= Len(rows) - KeepRecent)
  BY <1>2
<1>4. \A d \in Compactors : d # c => OldRows(d)' = OldRows(d)
  BY <1>1 DEF OldRows
<1> HIDE DEF OldRows
<1>5. \A d \in Compactors : rows[u] \notin OldRows(d)'
  BY <1>1, <1>2, <1>3, <1>4 DEF LatestAt
<1> QED
  BY <1>1, <1>5 DEF LatestAt

\* A row less, and not the question.
LEMMA LatestDeleted ==
    ASSUME HistoryInv, NEW u, LatestAt(u), NEW c \in Compactors, DeleteOld(c), RowsToDelete(c) # {}
    PROVE  /\ Len(rows') = Len(rows) - 1 /\ LatestAt(u - 1)'
<1> DEFINE n == Len(rows)
           M == AllRows
<1>1. /\ rows' = RemoveAt(rows, FirstFrom(rows, 1, LAMBDA m : m \in RowsToDelete(c)))
      /\ compactor' = compactor /\ turn' = turn
  <2>1. turn' = turn
    BY DEF DeleteOld, turnVars
  <2> QED
    BY <2>1, Zenon DEF DeleteOld
<1>2. rows # <<>> /\ rows[1] \in OldRows(c) /\ rows' = RemoveAt(rows, 1)
  <2>1. /\ rows # <<>> /\ rows[1] \in OldRows(c)
        /\ FirstFrom(rows, 1, LAMBDA m : m \in RowsToDelete(c)) = 1
    BY DeletesFirst
  <2> QED
    BY <1>1, <2>1, Zenon
<1>3. rows \in Seq(M) /\ n \in Nat
  BY RowsAre
<1> HIDE DEF M
<1>4. rows' = Tail(rows)
  <2>1. PICK x \in M : TRUE
    <3>1. 1 \in 1..Len(rows)
      BY <1>2, <1>3
    <3>2. rows[1] \in M
      BY <1>3, <3>1, SeqElements
    <3> QED
      BY <3>2
  <2>2. RemoveAt(rows, 1) = Tail(rows)
    BY <1>2, <1>3, <2>1, Ends
  <2> QED
    BY <1>2, <2>2
<1>5. Len(rows') = n - 1 /\ \A i \in 1..(n - 1) : rows'[i] = rows[i + 1]
  BY <1>2, <1>3, <1>4
<1> HIDE DEF n
<1>6. u \in 1..n /\ u # 1
  BY <1>2 DEF LatestAt, n
<1>7. u - 1 \in 1..(n - 1) /\ (u - 1) + 1 = u
  BY <1>3, <1>6
<1>8. \A d \in Compactors : OldRows(d)' = OldRows(d)
  BY <1>1 DEF OldRows
<1> HIDE DEF OldRows
<1>9. rows'[u - 1] = rows[u]
  BY <1>5, <1>7
<1>10. ASSUME NEW j \in ((u - 1) + 1)..(n - 1) PROVE rows'[j].role # "user"
  <2>1. j \in 1..(n - 1) /\ j + 1 \in (u + 1)..n
    BY <1>3, <1>6
  <2> QED
    BY <1>5, <2>1 DEF LatestAt, n
<1>11. LatestAt(u - 1)'
  BY <1>1, <1>5, <1>7, <1>8, <1>9, <1>10 DEF LatestAt
<1> QED
  BY <1>5, <1>11 DEF n

\* A summary is no question.
LEMMA LatestInserted ==
    ASSUME HistoryInv, NEW u, LatestAt(u), NEW c \in Compactors, InsertSummary(c)
    PROVE  Len(rows') = Len(rows) + 1 /\ LatestAt(u)'
<1> DEFINE x == Summary(c)
           n == Len(rows)
           M == AllRows
           none == <<>>
<1>1. /\ At(c, "done", none) /\ rows' = Append(rows, x) /\ turn' = turn
  BY DEF InsertSummary, AddMessage, turnVars
<1>2. x \in M /\ x.role = "system" /\ HistoryTypes
  BY SummaryIs DEF HistoryInv
<1>3. rows \in Seq(M) /\ n \in Nat
  BY RowsAre
<1>4. OldsShrink
  <2>1. "done" \in CompactionSteps /\ none \in Seq(AllRows)
    BY DEF CompactionSteps
  <2> HIDE DEF none
  <2>2. compactor'[c].old = none /\ \A d \in Compactors : d # c => compactor'[d] = compactor[d]
    BY <1>1, <1>2, <2>1, AtIs
  <2> QED
    BY <2>2 DEF OldsShrink, none
<1> HIDE DEF M, x
<1>5. Len(rows') = n + 1 /\ rows'[n + 1] = x /\ \A i \in 1..n : rows'[i] = rows[i]
  BY <1>1, <1>2, <1>3
<1> HIDE DEF n
<1>6. \A d \in Compactors : OldRows(d)' \in {OldRows(d), {}}
  BY <1>4, OldsShrinkTo
<1> HIDE DEF OldRows
<1>7. u \in 1..n /\ u \in 1..(n + 1)
  BY <1>3 DEF LatestAt, n
<1>8. ASSUME NEW j \in (u + 1)..(n + 1) PROVE rows'[j].role # "user"
  <2>1. j \in (u + 1)..n \/ j = n + 1
    BY <1>3, <1>7
  <2>2. j \in (u + 1)..n => j \in 1..n
    BY <1>7
  <2> QED
    BY <1>2, <1>5, <2>1, <2>2 DEF LatestAt, n
<1>9. LatestAt(u)'
  BY <1>1, <1>5, <1>6, <1>7, <1>8 DEF LatestAt
<1> QED
  BY <1>5, <1>9 DEF n

\* The actions of a compaction that leave the rows as they are.
LEMMA QuietCompaction ==
    ASSUME HistoryInv, NEW c \in Compactors,
           \/ GiveUp(c) \/ Checkpoint(c) \/ StatementFails(c)
           \/ DeleteOld(c) /\ RowsToDelete(c) = {}
    PROVE  /\ rows' = rows /\ UNCHANGED turnVars /\ OldsShrink
           /\ compactor[c].at \in {"summarise", "delete", "insert"}
           /\ \A d \in Compactors : d # c => compactor'[d] = compactor[d]
<1> DEFINE none == <<>>
           old == compactor[c].old
<1>1. PICK place \in CompactionSteps, o \in {none, old} : At(c, place, o)
  <2>1. CASE GiveUp(c) \/ StatementFails(c)
    BY <2>1 DEF GiveUp, StatementFails, CompactionSteps
  <2>2. CASE Checkpoint(c)
    BY <2>2 DEF Checkpoint, CompactionSteps
  <2>3. CASE DeleteOld(c) /\ RowsToDelete(c) = {}
    BY <2>3 DEF DeleteOld, CompactionSteps
  <2> QED
    BY <2>1, <2>2, <2>3
<1>2. rows' = rows /\ UNCHANGED turnVars /\ compactor[c].at \in {"summarise", "delete", "insert"}
  BY DEF GiveUp, Checkpoint, StatementFails, DeleteOld
<1>3. HistoryTypes /\ o \in Seq(AllRows)
  <2>1. none \in Seq(AllRows) /\ old \in Seq(AllRows)
    BY DEF HistoryInv, HistoryTypes
  <2> HIDE DEF none, old
  <2> QED
    BY <2>1 DEF HistoryInv
<1> HIDE DEF none, old
<1>4. /\ compactor'[c].at = place /\ compactor'[c].old = o
      /\ \A d \in Compactors : d # c => compactor'[d] = compactor[d]
  BY <1>1, <1>3, AtIs
<1>5. OldsShrink
  BY <1>1, <1>4 DEF OldsShrink, none, old
<1> QED
  BY <1>2, <1>4, <1>5

LEMMA LatestStep ==
    ASSUME HistoryInv, LatestWaits, FewBehind, [HistoryNext]_historyVars
    PROVE  LatestWaits'
<1> SUFFICES ASSUME pc' = "asked" PROVE \E u \in 1..Len(rows') : LatestAt(u)'
  BY DEF LatestWaits
<1>1. SUFFICES \E u : LatestAt(u)'
  BY DEF LatestAt
<1>2. CASE Ask
  BY <1>2, AskIsLatest
<1>3. ASSUME pc = "asked", NEW u, LatestAt(u), rows' = rows, turn' = turn, OldsShrink
      PROVE  \E v : LatestAt(v)'
  BY <1>3, LatestStays
<1>4. ASSUME NEW c \in Compactors,
             \/ ReadMessages(c) \/ GiveUp(c) \/ Checkpoint(c)
             \/ DeleteOld(c) \/ InsertSummary(c) \/ StatementFails(c)
      PROVE  \E v : LatestAt(v)'
  <2>1. pc = "asked"
    BY <1>4 DEF ReadMessages, GiveUp, Checkpoint, DeleteOld, InsertSummary, StatementFails, turnVars
  <2>2. PICK u \in 1..Len(rows) : LatestAt(u)
    BY <2>1 DEF LatestWaits
  <2>3. CASE ReadMessages(c)
    BY <2>1, <2>2, <2>3, LatestRead
  <2>4. CASE InsertSummary(c)
    BY <2>2, <2>4, LatestInserted
  <2>5. CASE DeleteOld(c) /\ RowsToDelete(c) # {}
    BY <2>2, <2>5, LatestDeleted
  <2>6. CASE \/ GiveUp(c) \/ Checkpoint(c) \/ StatementFails(c)
             \/ DeleteOld(c) /\ RowsToDelete(c) = {}
    <3>1. rows' = rows /\ turn' = turn /\ OldsShrink
      BY <2>6, QuietCompaction DEF turnVars
    <3> QED
      BY <1>3, <2>1, <2>2, <3>1
  <2> QED
    BY <1>4, <2>3, <2>4, <2>5, <2>6
<1>5. CASE UNCHANGED historyVars
  <2>1. rows' = rows /\ turn' = turn /\ compactor' = compactor /\ pc' = pc
    BY <1>5 DEF historyVars, turnVars, compactVars
  <2>2. PICK u \in 1..Len(rows) : LatestAt(u)
    BY <2>1 DEF LatestWaits
  <2>3. OldsShrink
    BY <2>1 DEF OldsShrink
  <2> QED
    BY <1>3, <2>1, <2>2, <2>3
<1>6. ASSUME LoadConversation \/ AssembleContext \/ AssembleShifted PROVE FALSE
  <2>1. pc' = "thinking"
    BY <1>6, Zenon DEF LoadConversation, AssembleContext, AssembleShifted, Send
  <2> QED
    BY <2>1
<1>7. ASSUME Answer \/ TurnFails \/ StoreMessage \/ Crash PROVE FALSE
  BY <1>7 DEF Answer, TurnFails, StoreMessage, Crash
<1> QED
  BY <1>2, <1>4, <1>5, <1>6, <1>7 DEF HistoryNext

(* While few rows come between a question and the list that is built for it, *)
(* that list begins with the prompt, and its last user message is that       *)
(* question, on every path, for any budget, turns, crashes and number of      *)
(* compactions.                                                              *)
THEOREM RecentQuestionsAreSent == HistorySpec /\ []FewBehind => []QuestionIsSent
<1> DEFINE Inv == LatestWaits /\ SentOnly /\ QuestionIsSent
<1>1. HistoryInit => Inv
  BY DEF HistoryInit, NothingSent, LatestWaits, SentOnly, QuestionIsSent
<1>2. HistoryInv /\ FewBehind /\ Inv /\ [HistoryNext]_historyVars => Inv'
  BY LatestStep, LatestSentStep
<1>3. Inv => QuestionIsSent
  OBVIOUS
<1> HIDE DEF Inv
<1> QED
  BY <1>1, <1>2, <1>3, HistoryInvHolds, PTL DEF HistorySpec

-----------------------------------------------------------------------------
(* When few compactions can come between *)

FewCompactions ==
    /\ IsFiniteSet(Compactors)
    /\ Newest > 0 /\ KeepRecent > 0
    /\ 100 * Cardinality(Compactors) < 35 * Min({Newest, KeepRecent + 1})

Busy == {"summarise", "delete", "insert"}
Finished == {c \in Compactors : compactor[c].at = "done"}

\* A compaction under way leaves the newest rows.
Spares(c) ==
    compactor[c].at \in Busy =>
        /\ Len(rows) >= KeepRecent
        /\ \A i \in 1..Len(rows) : rows[i] \in OldRows(c) => i <= Len(rows) - KeepRecent
Window == \A c \in Compactors : Spares(c)

\* Behind the question are summaries of compactions that have finished.
Recent ==
    pc = "asked" =>
        /\ RowsSince <= Cardinality(Finished)
        /\ RowsSince > 0 => Len(rows) >= KeepRecent
        /\ RowsSince > 0 /\ RowsSince = Cardinality(Compactors) => Len(rows) >= KeepRecent + 1

LEMMA SparesStays ==
    ASSUME NEW c \in Compactors, Spares(c), rows' = rows, compactor'[c] = compactor[c]
    PROVE  Spares(c)'
<1>1. OldRows(c)' = OldRows(c)
  BY DEF OldRows
<1> HIDE DEF OldRows
<1> QED
  BY <1>1 DEF Spares

LEMMA SparesIdle ==
    ASSUME NEW c \in Compactors, compactor'[c].at \notin Busy
    PROVE  Spares(c)'
BY DEF Spares

\* A row that the compaction does not have comes behind.
LEMMA SparesAdded ==
    ASSUME HistoryInv, NEW m \in AllRows, AddMessage(m), NEW c \in Compactors, Spares(c),
           m \notin OldRows(c), compactor'[c] = compactor[c]
    PROVE  Spares(c)'
<1> DEFINE n == Len(rows)
           M == AllRows
<1>1. rows \in Seq(M) /\ n \in Nat /\ m \in M /\ rows' = Append(rows, m) /\ KeepRecent \in Nat
  BY RowsAre DEF AddMessage
<1> HIDE DEF M
<1>2. Len(rows') = n + 1 /\ rows'[n + 1] = m /\ \A i \in 1..n : rows'[i] = rows[i]
  BY <1>1
<1>3. OldRows(c)' = OldRows(c) /\ compactor'[c].at = compactor[c].at
  BY DEF OldRows
<1> HIDE DEF OldRows, n
<1> SUFFICES ASSUME compactor[c].at \in Busy
             PROVE  /\ n + 1 >= KeepRecent
                    /\ \A i \in 1..(n + 1) : rows'[i] \in OldRows(c) => i <= (n + 1) - KeepRecent
  BY <1>2, <1>3 DEF Spares
<1>4. n >= KeepRecent /\ \A i \in 1..n : rows[i] \in OldRows(c) => i <= n - KeepRecent
  BY DEF Spares, n
<1>5. ASSUME NEW i \in 1..(n + 1), rows'[i] \in OldRows(c) PROVE i <= (n + 1) - KeepRecent
  <2>1. i \in 1..n
    BY <1>1, <1>2, <1>5
  <2>2. i <= n - KeepRecent
    BY <1>2, <1>4, <1>5, <2>1
  <2> QED
    BY <1>1, <2>1, <2>2
<1>6. n + 1 >= KeepRecent
  BY <1>1, <1>4
<1> QED
  BY <1>5, <1>6

\* The first row goes, of which every compaction that is under way spares those behind.
LEMMA SparesDeleted ==
    ASSUME HistoryInv, Window, NEW c \in Compactors, DeleteOld(c), RowsToDelete(c) # {}
    PROVE  /\ Window' /\ Len(rows) >= KeepRecent + 1 /\ Len(rows') = Len(rows) - 1
           /\ compactor' = compactor /\ compactor[c].at = "delete"
<1> DEFINE n == Len(rows)
           M == AllRows
<1>1. /\ rows' = RemoveAt(rows, FirstFrom(rows, 1, LAMBDA m : m \in RowsToDelete(c)))
      /\ compactor' = compactor /\ compactor[c].at = "delete"
  <2>1. compactor[c].at = "delete"
    BY DEF DeleteOld
  <2> QED
    BY <2>1, Zenon DEF DeleteOld
<1>2. rows # <<>> /\ rows[1] \in OldRows(c) /\ rows' = RemoveAt(rows, 1)
  <2>1. /\ rows # <<>> /\ rows[1] \in OldRows(c)
        /\ FirstFrom(rows, 1, LAMBDA m : m \in RowsToDelete(c)) = 1
    BY DeletesFirst
  <2> QED
    BY <1>1, <2>1, Zenon
<1>3. rows \in Seq(M) /\ n \in Nat /\ KeepRecent \in Nat
  BY RowsAre
<1> HIDE DEF M
<1>4. rows' = Tail(rows)
  <2>1. PICK x \in M : TRUE
    <3>1. 1 \in 1..Len(rows)
      BY <1>2, <1>3
    <3>2. rows[1] \in M
      BY <1>3, <3>1, SeqElements
    <3> QED
      BY <3>2
  <2>2. RemoveAt(rows, 1) = Tail(rows)
    BY <1>2, <1>3, <2>1, Ends
  <2> QED
    BY <1>2, <2>2
<1>5. Len(rows') = n - 1 /\ 1 \in 1..n /\ \A i \in 1..(n - 1) : rows'[i] = rows[i + 1]
  BY <1>2, <1>3, <1>4
<1> HIDE DEF n, OldRows
<1>6. 1 <= n - KeepRecent
  <2>1. compactor[c].at \in Busy /\ Spares(c)
    BY <1>1 DEF Busy, Window
  <2> QED
    BY <1>2, <1>5, <2>1 DEF Spares, n
<1>7. ASSUME NEW d \in Compactors PROVE Spares(d)'
  <2>1. OldRows(d)' = OldRows(d)
    BY <1>1 DEF OldRows
  <2> SUFFICES ASSUME compactor[d].at \in Busy
               PROVE  /\ n - 1 >= KeepRecent
                      /\ \A i \in 1..(n - 1) : rows'[i] \in OldRows(d) => i <= (n - 1) - KeepRecent
    BY <1>1, <1>5, <2>1 DEF Spares
  <2>2. \A i \in 1..n : rows[i] \in OldRows(d) => i <= n - KeepRecent
    BY DEF Window, Spares, n
  <2>3. n - 1 >= KeepRecent
    BY <1>3, <1>6
  <2>4. ASSUME NEW i \in 1..(n - 1), rows'[i] \in OldRows(d) PROVE i <= (n - 1) - KeepRecent
    <3>1. i + 1 \in 1..n
      BY <1>3
    <3>2. i + 1 <= n - KeepRecent
      BY <1>5, <2>2, <2>4, <3>1
    <3> QED
      BY <1>3, <3>2
  <2> QED
    BY <2>3, <2>4
<1>8. n >= KeepRecent + 1
  BY <1>3, <1>6
<1> QED
  BY <1>1, <1>5, <1>7, <1>8 DEF Window, n

LEMMA InsertedIs ==
    ASSUME HistoryInv, NEW c \in Compactors, InsertSummary(c)
    PROVE  /\ Summary(c) \in AllRows /\ Summary(c) \notin Seen /\ AddMessage(Summary(c))
           /\ compactor[c].at = "insert" /\ compactor'[c].at = "done"
           /\ \A d \in Compactors : d # c => compactor'[d] = compactor[d]
<1> DEFINE none == <<>>
<1>1. compactor[c].at = "insert" /\ At(c, "done", none) /\ AddMessage(Summary(c)) /\ HistoryTypes
  BY DEF InsertSummary, HistoryInv
<1>2. /\ Summary(c) \in AllRows /\ Summary(c).role = "system"
      /\ Summary(c).labels = {"summary", c} \cup QuestionsIn(compactor[c].old)
  BY <1>1, SummaryIs
<1>3. Summary(c) \notin Seen
  BY <1>1, <1>2 DEF HistoryInv, Dated, DatedRow
<1>4. compactor'[c].at = "done" /\ \A d \in Compactors : d # c => compactor'[d] = compactor[d]
  <2>1. "done" \in CompactionSteps /\ none \in Seq(AllRows)
    BY DEF CompactionSteps
  <2> HIDE DEF none
  <2> QED
    BY <1>1, <2>1, AtIs
<1> QED
  BY <1>1, <1>2, <1>3, <1>4

LEMMA WindowStep ==
    ASSUME HistoryInv, Window, [HistoryNext]_historyVars
    PROVE  Window'
<1>1. ASSUME rows' = rows, compactor' = compactor PROVE Window'
  BY <1>1, SparesStays DEF Window
<1>2. CASE Ask
  <2> DEFINE q == Question(Questions[asked + 1])
  <2>1. AddMessage(q) /\ compactor' = compactor /\ asked < Len(Questions)
    BY <1>2 DEF Ask, compactVars
  <2>2. q \in AllRows /\ q \notin Seen
    BY <2>1, QuestionIsNew, QuestionIs
  <2>3. \A c \in Compactors : q \notin OldRows(c)
    BY <2>2 DEF Seen
  <2> HIDE DEF q, OldRows
  <2> QED
    BY <2>1, <2>2, <2>3, SparesAdded DEF Window
<1>3. CASE LoadConversation \/ AssembleContext \/ AssembleShifted
  <2>1. rows' = rows /\ compactor' = compactor
    BY <1>3, Zenon DEF LoadConversation, AssembleContext, AssembleShifted, Send, compactVars
  <2> QED
    BY <1>1, <2>1
<1>4. CASE Answer \/ TurnFails
  BY <1>1, <1>4 DEF Answer, TurnFails, compactVars
<1>5. CASE StoreMessage
  <2> DEFINE m == Head(todo)
             M == AllRows
  <2>1. AddMessage(m) /\ compactor' = compactor /\ pc = "storing"
    BY <1>5 DEF StoreMessage, compactVars
  <2>2. todo \in Seq(M) /\ todo # <<>>
    BY <2>1 DEF HistoryInv, HistoryTypes
  <2>3. \A c \in Compactors, i \in 1..Len(todo) : todo[i] \notin OldRows(c)
    BY DEF HistoryInv, Pending
  <2> HIDE DEF M, OldRows
  <2>4. m \in M /\ 1 \in 1..Len(todo) /\ m = todo[1]
    BY <2>2
  <2>5. m \in AllRows /\ \A c \in Compactors : m \notin OldRows(c)
    BY <2>3, <2>4 DEF M
  <2> HIDE DEF m
  <2> QED
    BY <2>1, <2>5, SparesAdded DEF Window
<1>6. ASSUME NEW c \in Compactors,
             \/ ReadMessages(c) \/ GiveUp(c) \/ Checkpoint(c)
             \/ DeleteOld(c) \/ InsertSummary(c) \/ StatementFails(c)
      PROVE  Window'
  <2>1. CASE ReadMessages(c)
    <3>1. /\ Len(rows) > KeepRecent /\ rows' = rows
          /\ \A i \in 1..Len(rows) : rows[i] \in OldRows(c)' => i <= Len(rows) - KeepRecent
          /\ \A d \in Compactors : d # c => compactor'[d] = compactor[d]
      BY <2>1, OldRowsAre
    <3>2. Len(rows) \in Nat /\ KeepRecent \in Nat
      BY RowsAre
    <3>3. Spares(c)'
      <4> HIDE DEF OldRows
      <4> QED
        BY <3>1, <3>2 DEF Spares
    <3> QED
      BY <3>1, <3>3, SparesStays DEF Window
  <2>2. CASE InsertSummary(c)
    <3> DEFINE x == Summary(c)
    <3>1. /\ x \in AllRows /\ x \notin Seen /\ AddMessage(x) /\ compactor'[c].at = "done"
          /\ \A d \in Compactors : d # c => compactor'[d] = compactor[d]
      BY <2>2, InsertedIs
    <3>2. \A d \in Compactors : x \notin OldRows(d)
      BY <3>1 DEF Seen
    <3>3. Spares(c)'
      BY <3>1, SparesIdle DEF Busy
    <3> HIDE DEF x, OldRows
    <3>4. \A d \in Compactors : d # c => Spares(d)'
      BY <3>1, <3>2, SparesAdded DEF Window
    <3> QED
      BY <3>3, <3>4 DEF Window
  <2>3. CASE DeleteOld(c) /\ RowsToDelete(c) # {}
    BY <2>3, SparesDeleted
  <2>4. CASE \/ GiveUp(c) \/ Checkpoint(c) \/ StatementFails(c)
             \/ DeleteOld(c) /\ RowsToDelete(c) = {}
    <3>1. /\ rows' = rows /\ OldsShrink /\ compactor[c].at \in Busy
          /\ \A d \in Compactors : d # c => compactor'[d] = compactor[d]
      BY <2>4, QuietCompaction DEF Busy
    <3>2. OldRows(c)' \in {OldRows(c), {}}
      BY <3>1, OldsShrinkTo
    <3>3. Spares(c)'
      <4> HIDE DEF OldRows
      <4> QED
        BY <3>1, <3>2 DEF Window, Spares
    <3> QED
      BY <3>1, <3>3, SparesStays DEF Window
  <2> QED
    BY <1>6, <2>1, <2>2, <2>3, <2>4
<1>7. CASE Crash
  <2>1. compactor' = [c \in Compactors |->
                        IF compactor[c] = Waiting THEN Waiting ELSE [at |-> "done", old |-> <<>>]]
    BY <1>7 DEF Crash
  <2>2. \A c \in Compactors : compactor'[c].at \notin Busy
    BY <2>1 DEF Waiting, Busy
  <2> QED
    BY <2>2, SparesIdle DEF Window
<1>8. CASE UNCHANGED historyVars
  BY <1>1, <1>8 DEF historyVars, compactVars
<1> QED
  BY <1>2, <1>3, <1>4, <1>5, <1>6, <1>7, <1>8 DEF HistoryNext

\* How many rows came behind the question, before and after a step.
LEMMA SinceIs ==
    ASSUME HistoryInv, pc = "asked", NEW u, LatestAt(u)
    PROVE  RowsSince = Len(rows) - u
BY LatestIsLast DEF RowsSince

LEMMA SinceNext ==
    ASSUME HistoryInv', pc' = "asked", NEW u, LatestAt(u)'
    PROVE  RowsSince' = Len(rows') - u
<1>1. rows' \in Seq(AllRows)
  BY DEF HistoryInv, HistoryTypes
<1>2. turn' \in Turns
  <2>1. turn' = Questions[asked'] /\ asked' \in 1..Len(Questions)
    BY DEF HistoryInv, HistoryTypes
  <2> QED
    BY <2>1, TurnsOfQuestions
<1>3. /\ u \in 1..Len(rows') /\ rows'[u] = Question(turn')
      /\ \A j \in (u + 1)..Len(rows') : rows'[j].role # "user"
  BY DEF LatestAt
<1>4. rows'[u].role = "user"
  BY <1>2, <1>3, QuestionIs
<1>5. LastUser(rows') = u
  BY <1>1, <1>3, <1>4, LastUserAt
<1> QED
  BY <1>5 DEF RowsSince

LEMMA FinishedGrows ==
    ASSUME IsFiniteSet(Compactors),
           \A c \in Compactors : compactor[c].at = "done" => compactor'[c].at = "done"
    PROVE  /\ Cardinality(Finished) \in Nat /\ Cardinality(Finished') \in Nat
           /\ Cardinality(Finished) <= Cardinality(Finished')
<1>1. Finished \subseteq Finished' /\ Finished \subseteq Compactors /\ Finished' \subseteq Compactors
  BY DEF Finished
<1> HIDE DEF Finished
<1>2. IsFiniteSet(Finished) /\ IsFiniteSet(Finished')
  BY <1>1, FS_Subset
<1>3. Cardinality(Finished) \in Nat /\ Cardinality(Finished') \in Nat
  BY <1>2, FS_CardinalityType
<1> QED
  BY <1>1, <1>2, <1>3, FS_Subset

LEMMA RecentStep ==
    ASSUME FewCompactions, HistoryInv, HistoryInv', LatestWaits, FewBehind, Window, Recent,
           [HistoryNext]_historyVars
    PROVE  Recent'
<1> SUFFICES ASSUME pc' = "asked"
             PROVE  /\ RowsSince' <= Cardinality(Finished')
                    /\ RowsSince' > 0 => Len(rows') >= KeepRecent
                    /\ RowsSince' > 0 /\ RowsSince' = Cardinality(Compactors) =>
                         Len(rows') >= KeepRecent + 1
  BY DEF Recent
<1> DEFINE Held(k, f, n) == /\ k <= f
                            /\ k > 0 => n >= KeepRecent
                            /\ k > 0 /\ k = Cardinality(Compactors) => n >= KeepRecent + 1
<1>1. IsFiniteSet(Compactors) /\ Cardinality(Compactors) \in Nat
  BY FS_CardinalityType DEF FewCompactions
<1>2. Len(rows) \in Nat /\ KeepRecent \in Nat
  BY RowsAre
<1>3. pc = "asked" => Held(RowsSince, Cardinality(Finished), Len(rows))
  BY DEF Recent
<1>4. CASE Ask
  <2>1. PICK n : n = Len(rows)
    OBVIOUS
  <2>2. Len(rows') = n + 1 /\ LatestAt(n + 1)'
    BY <1>4, <2>1, AskIsLatest
  <2>3. RowsSince' = 0
    BY <1>2, <2>1, <2>2, SinceNext
  <2>4. Cardinality(Finished') \in Nat
    <3>1. compactor' = compactor
      BY <1>4 DEF Ask, compactVars
    <3> QED
      BY <1>1, <3>1, FinishedGrows
  <2> QED
    BY <2>3, <2>4
<1>5. ASSUME pc = "asked", rows' = rows,
             \A c \in Compactors : compactor[c].at = "done" => compactor'[c].at = "done"
      PROVE  Held(RowsSince', Cardinality(Finished'), Len(rows'))
  <2>1. RowsSince' = RowsSince
    BY <1>5 DEF RowsSince
  <2>2. PICK u \in 1..Len(rows) : LatestAt(u)
    BY <1>5 DEF LatestWaits
  <2>3. RowsSince \in Int
    BY <1>2, <1>5, <2>2, SinceIs
  <2>4. /\ Cardinality(Finished) \in Nat /\ Cardinality(Finished') \in Nat
        /\ Cardinality(Finished) <= Cardinality(Finished')
    BY <1>1, <1>5, FinishedGrows
  <2> HIDE DEF RowsSince, Finished
  <2> QED
    BY <1>3, <1>5, <2>1, <2>3, <2>4
<1>6. ASSUME NEW c \in Compactors,
             \/ ReadMessages(c) \/ GiveUp(c) \/ Checkpoint(c)
             \/ DeleteOld(c) \/ InsertSummary(c) \/ StatementFails(c)
      PROVE  Held(RowsSince', Cardinality(Finished'), Len(rows'))
  <2>1. pc = "asked"
    BY <1>6 DEF ReadMessages, GiveUp, Checkpoint, DeleteOld, InsertSummary, StatementFails, turnVars
  <2>2. PICK u \in 1..Len(rows) : LatestAt(u)
    BY <2>1 DEF LatestWaits
  <2>3. RowsSince = Len(rows) - u /\ Held(RowsSince, Cardinality(Finished), Len(rows))
    BY <1>3, <2>1, <2>2, SinceIs
  <2>4. CASE ReadMessages(c)
    BY <1>5, <2>1, <2>4, OldRowsAre
  <2>5. CASE \/ GiveUp(c) \/ Checkpoint(c) \/ StatementFails(c)
             \/ DeleteOld(c) /\ RowsToDelete(c) = {}
    <3>1. /\ rows' = rows /\ compactor[c].at \in {"summarise", "delete", "insert"}
          /\ \A d \in Compactors : d # c => compactor'[d] = compactor[d]
      BY <2>5, QuietCompaction
    <3> QED
      BY <1>5, <2>1, <3>1
  <2>6. CASE DeleteOld(c) /\ RowsToDelete(c) # {}
    <3>1. /\ Len(rows) >= KeepRecent + 1 /\ Len(rows') = Len(rows) - 1
          /\ compactor' = compactor /\ compactor[c].at = "delete"
      BY <2>6, SparesDeleted
    <3>2. LatestAt(u - 1)'
      BY <2>2, <2>6, LatestDeleted
    <3>3. RowsSince' = Len(rows') - (u - 1)
      BY <3>2, SinceNext
    <3>4. Finished' = Finished
      BY <3>1 DEF Finished
    <3>5. Cardinality(Finished) \in Nat /\ Cardinality(Finished) < Cardinality(Compactors)
      <4>1. Finished \subseteq Compactors /\ Finished # Compactors
        BY <3>1 DEF Finished
      <4> HIDE DEF Finished
      <4>2. IsFiniteSet(Finished) /\ Cardinality(Finished) <= Cardinality(Compactors)
            /\ Cardinality(Finished) # Cardinality(Compactors)
        BY <1>1, <4>1, FS_Subset
      <4>3. Cardinality(Finished) \in Nat
        BY <4>2, FS_CardinalityType
      <4> QED
        BY <1>1, <4>2, <4>3
    <3>6. RowsSince' = RowsSince /\ RowsSince \in Int
      BY <1>2, <2>3, <3>1, <3>3
    <3> HIDE DEF RowsSince, Finished
    <3> QED
      BY <1>1, <1>2, <2>3, <3>1, <3>4, <3>5, <3>6
  <2>7. CASE InsertSummary(c)
    <3>1. Len(rows') = Len(rows) + 1 /\ LatestAt(u)'
      BY <2>2, <2>7, LatestInserted
    <3>2. RowsSince' = Len(rows') - u
      BY <3>1, SinceNext
    <3>3. /\ compactor[c].at = "insert" /\ compactor'[c].at = "done"
          /\ \A d \in Compactors : d # c => compactor'[d] = compactor[d]
      BY <2>7, InsertedIs
    <3>4. Finished' = Finished \cup {c} /\ c \notin Finished /\ Finished \subseteq Compactors
      BY <3>3 DEF Finished
    <3>5. Cardinality(Finished') = Cardinality(Finished) + 1 /\ Cardinality(Finished) \in Nat
      <4> HIDE DEF Finished
      <4>1. IsFiniteSet(Finished)
        BY <1>1, <3>4, FS_Subset
      <4> QED
        BY <3>4, <4>1, FS_AddElement, FS_CardinalityType
    <3>6. Len(rows) >= KeepRecent
      BY <3>3 DEF Window, Spares, Busy
    <3>7. RowsSince' = RowsSince + 1 /\ RowsSince \in Int /\ Len(rows') >= KeepRecent + 1
      BY <1>2, <2>3, <3>1, <3>2, <3>6
    <3> HIDE DEF RowsSince, Finished
    <3> QED
      BY <1>2, <2>3, <3>1, <3>5, <3>7
  <2> QED
    BY <1>6, <2>4, <2>5, <2>6, <2>7
<1>7. CASE UNCHANGED historyVars
  <2>1. rows' = rows /\ compactor' = compactor /\ pc' = pc
    BY <1>7 DEF historyVars, turnVars, compactVars
  <2> QED
    BY <1>5, <2>1
<1>8. ASSUME LoadConversation \/ AssembleContext \/ AssembleShifted PROVE FALSE
  <2>1. pc' = "thinking"
    BY <1>8, Zenon DEF LoadConversation, AssembleContext, AssembleShifted, Send
  <2> QED
    BY <2>1
<1>9. ASSUME Answer \/ TurnFails \/ StoreMessage \/ Crash PROVE FALSE
  BY <1>9 DEF Answer, TurnFails, StoreMessage, Crash
<1> QED
  BY <1>4, <1>6, <1>7, <1>8, <1>9 DEF HistoryNext

LEMMA RecentAreFew ==
    ASSUME FewCompactions, HistoryInv, LatestWaits, Recent
    PROVE  FewBehind
<1> SUFFICES ASSUME pc = "asked"
             PROVE  /\ RowsSince < KeepRecent
                    /\ 100 * RowsSince < 35 * Min({Newest, Len(rows)})
  BY DEF FewBehind
<1> DEFINE n == Len(rows)
           k == Cardinality(Compactors)
           f == Cardinality(Finished)
           a == Min({Newest, KeepRecent + 1})
           b == Min({Newest, n})
           r == RowsSince
<1>1. n \in Nat /\ Newest \in Nat /\ KeepRecent \in Nat /\ Newest > 0 /\ KeepRecent > 0
  BY RowsAre DEF FewCompactions
<1>2. IsFiniteSet(Compactors) /\ k \in Nat /\ 100 * k < 35 * a
  BY FS_CardinalityType DEF FewCompactions
<1>3. f \in Nat /\ f <= k
  <2>1. Finished \subseteq Compactors
    BY DEF Finished
  <2> HIDE DEF Finished
  <2> QED
    BY <1>2, <2>1, FS_Subset, FS_CardinalityType
<1>4. PICK u \in 1..n : LatestAt(u)
  BY DEF LatestWaits
<1>5. r = n - u
  BY <1>4, SinceIs
<1>6. /\ r <= f
      /\ r > 0 => n >= KeepRecent
      /\ r > 0 /\ r = k => n >= KeepRecent + 1
  BY DEF Recent
<1>7. ASSUME NEW x \in Nat, NEW y \in Nat
      PROVE  /\ Min({x, y}) \in {x, y} /\ Min({x, y}) <= x /\ Min({x, y}) <= y
  <2> DEFINE T == {x, y}
  <2>1. T \in SUBSET Nat /\ T # {} /\ x \in T /\ y \in T
    OBVIOUS
  <2> HIDE DEF T
  <2>2. Min(T) \in T /\ \A z \in T : Min(T) <= z
    BY <2>1, MinIs
  <2> QED
    BY <2>1, <2>2 DEF T
<1> HIDE DEF n, k, f, r
<1>8. a \in {Newest, KeepRecent + 1} /\ a <= Newest /\ a <= KeepRecent + 1
  BY <1>1, <1>7
<1>9. b \in {Newest, n} /\ b <= Newest /\ b <= n
  BY <1>1, <1>7
<1> HIDE DEF a, b
<1>10. r \in Nat /\ r <= k /\ n > 0
  BY <1>1, <1>2, <1>3, <1>5, <1>6
<1>11. r < KeepRecent
  BY <1>1, <1>2, <1>8, <1>10
<1>12. 100 * r < 35 * b
  <2>1. CASE r = 0
    BY <1>1, <1>9, <1>10, <2>1
  <2>2. CASE r > 0 /\ r = k
    <3>1. a <= b
      BY <1>1, <1>6, <1>8, <1>9, <2>2
    <3> QED
      BY <1>1, <1>2, <1>8, <1>9, <1>10, <2>2, <3>1
  <2>3. CASE r > 0 /\ r < k
    <3>1. a - 1 <= b
      BY <1>1, <1>6, <1>8, <1>9, <2>3
    <3> QED
      BY <1>1, <1>2, <1>8, <1>9, <1>10, <2>3, <3>1
  <2> QED
    BY <1>2, <1>10, <2>1, <2>2, <2>3
<1> QED
  BY <1>11, <1>12 DEF r, b, n

(* If few compactions of the session are called at all, at most two with the *)
(* values of the code, then few rows come between, and the last user message *)
(* of every list that is sent is the question of its turn.                   *)
THEOREM QuestionsAreSent ==
    ASSUME FewCompactions
    PROVE  HistorySpec => []QuestionIsSent
<1> DEFINE Inv == LatestWaits /\ Window /\ Recent
<1>1. HistoryInit => Inv
  BY DEF HistoryInit, LatestWaits, Window, Spares, Waiting, Busy, Recent
<1>2. HistoryInv /\ HistoryInv' /\ Inv /\ [HistoryNext]_historyVars => Inv'
  BY RecentAreFew, LatestStep, WindowStep, RecentStep
<1>3. HistoryInv /\ Inv => FewBehind
  BY RecentAreFew
<1> HIDE DEF Inv
<1>4. HistorySpec => []FewBehind
  BY <1>1, <1>2, <1>3, HistoryInvHolds, PTL DEF HistorySpec
<1> QED
  BY <1>4, RecentQuestionsAreSent, PTL
=============================================================================
