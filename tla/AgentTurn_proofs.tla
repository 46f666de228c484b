--------------------------- MODULE AgentTurn_proofs ---------------------------
(***************************************************************************)
(* Whatever the model answers and the tools do, the list a provider is     *)
(* given is well paired and asks the question, and what an uncut turn      *)
(* stores is whole.                                                        *)
(***************************************************************************)
EXTENDS AgentTurn, MessageList_proofs

-----------------------------------------------------------------------------
(* Lists in the middle of a round *)

\* Only results and injected messages stand behind i.
Quiet(s, i) == \A k \in (i + 1)..Len(s) : s[k].role \in {"tool", "system"}
\* Every call but those with one of the ids is answered; these may still be.
AnsweredBut(s, ids) ==
    \A i \in Indices(s) : HasCalls(s[i]) =>
        \A c \in ToSet(s[i].calls) :
            \/ \E j \in (i + 1)..Len(s) : Answers(s, i, j) /\ s[j].id = c
            \/ c \in ids /\ Quiet(s, i)
Awaiting(s, ids) ==
    \A c \in ids :
        /\ \E i \in Indices(s) : HasCalls(s[i]) /\ c \in ToSet(s[i].calls) /\ Quiet(s, i)
        /\ \A j \in Indices(s) : s[j].role = "tool" => s[j].id # c
OpenPaired(s, ids) ==
    /\ AnsweredBut(s, ids)
    /\ OneAnswer(s)
    /\ Called(s)
    /\ Awaiting(s, ids)

LEMMA ClosedIsPaired ==
    ASSUME NEW M, Listable(M), NEW s \in Seq(M)
    PROVE  OpenPaired(s, {}) <=> WellPaired(s)
<1>1. AnsweredBut(s, {}) <=> Answered(s)
  BY DEF AnsweredBut, Answered
<1>2. Awaiting(s, {})
  BY DEF Awaiting
<1> QED
  BY <1>1, <1>2, PairedIs DEF OpenPaired

\* r is s with m behind it.
Extended(r, s, m) ==
    /\ Len(r) = Len(s) + 1
    /\ \A i \in 1..Len(s) : i \in 1..Len(r) /\ r[i] = s[i]
    /\ r[Len(s) + 1] = m
    /\ \A i \in 1..Len(r) : i \in 1..Len(s) \/ i = Len(s) + 1
    /\ Len(s) + 1 \in 1..Len(r)

LEMMA Appended ==
    ASSUME NEW M, Listable(M), NEW s \in Seq(M), NEW m \in M
    PROVE  Append(s, m) \in Seq(M) /\ Append(s, m) # <<>> /\ Extended(Append(s, m), s, m)
<1>1. Len(s) \in Nat
  BY Typed
<1> DEFINE r == Append(s, m)
<1>2. r \in Seq(M) /\ r # <<>> /\ Len(r) = Len(s) + 1 /\ r[Len(s) + 1] = m
  OBVIOUS
<1>3. \A i \in 1..Len(s) : r[i] = s[i]
  OBVIOUS
<1> HIDE DEF r
<1>4. Extended(r, s, m)
  BY <1>1, <1>2, <1>3 DEF Extended
<1> QED
  BY <1>2, <1>4 DEF r

LEMMA AnswersRemain ==
    ASSUME NEW M, Listable(M), NEW s \in Seq(M), NEW m \in M, NEW r, Extended(r, s, m),
           NEW i \in 1..Len(s), NEW j \in (i + 1)..Len(s)
    PROVE  /\ j \in (i + 1)..Len(r) /\ r[j] = s[j] /\ r[i] = s[i]
           /\ Answers(s, i, j) => Answers(r, i, j)
<1>1. Len(s) \in Nat
  BY Typed
<1>2. j \in (i + 1)..Len(r) /\ r[j] = s[j] /\ r[i] = s[i]
  BY <1>1 DEF Extended
<1>3. \A k \in (i + 1)..(j - 1) : r[k] = s[k]
  BY <1>1 DEF Extended
<1> QED
  BY <1>2, <1>3 DEF Answers

LEMMA QuietRemains ==
    ASSUME NEW M, Listable(M), NEW s \in Seq(M), NEW m \in M, NEW r, Extended(r, s, m),
           NEW i \in 1..Len(s), Quiet(s, i), m.role \in {"tool", "system"}
    PROVE  Quiet(r, i)
<1>1. Len(s) \in Nat
  BY Typed
<1> SUFFICES ASSUME NEW k \in (i + 1)..Len(r) PROVE r[k].role \in {"tool", "system"}
  BY DEF Quiet
<1>2. CASE k = Len(s) + 1
  BY <1>2 DEF Extended
<1>3. CASE k # Len(s) + 1
  <2>1. k \in (i + 1)..Len(s) /\ r[k] = s[k]
    BY <1>1, <1>3 DEF Extended
  <2> QED
    BY <2>1 DEF Quiet
<1> QED
  BY <1>2, <1>3

\* A message that neither calls nor answers: anybody's when nothing is awaited,
\* an injected one while results are.
LEMMA PushOther ==
    ASSUME NEW M, Listable(M), NEW s \in Seq(M), NEW m \in M, NEW r, Extended(r, s, m), NEW ids,
           OpenPaired(s, ids), m.role # "tool", ~ HasCalls(m), ids = {} \/ m.role = "system"
    PROVE  OpenPaired(r, ids)
<1>1. Len(s) \in Nat
  BY Typed
<1>2. AnsweredBut(r, ids)
  <2> SUFFICES ASSUME NEW i \in 1..Len(r), HasCalls(r[i]), NEW c \in ToSet(r[i].calls)
               PROVE  \/ \E j \in (i + 1)..Len(r) : Answers(r, i, j) /\ r[j].id = c
                      \/ c \in ids /\ Quiet(r, i)
    BY DEF AnsweredBut, Indices
  <2>1. i \in 1..Len(s) /\ r[i] = s[i]
    BY DEF Extended
  <2>2. CASE \E j \in (i + 1)..Len(s) : Answers(s, i, j) /\ s[j].id = c
    BY <2>1, <2>2, AnswersRemain
  <2>3. CASE c \in ids /\ Quiet(s, i)
    BY <2>1, <2>3, QuietRemains
  <2> QED
    BY <2>1, <2>2, <2>3 DEF OpenPaired, AnsweredBut, Indices
<1>3. \A j \in 1..Len(r) : r[j].role = "tool" => j \in 1..Len(s) /\ r[j] = s[j]
  BY DEF Extended
<1>4. OneAnswer(r)
  BY <1>3 DEF OpenPaired, OneAnswer, Indices
<1>5. Called(r)
  <2> SUFFICES ASSUME NEW j \in 1..Len(r), r[j].role = "tool"
               PROVE  \E i \in 1..Len(r) : HasCalls(r[i]) /\ r[j].id \in ToSet(r[i].calls)
    BY DEF Called, Indices
  <2>1. PICK i \in 1..Len(s) : HasCalls(s[i]) /\ s[j].id \in ToSet(s[i].calls)
    BY <1>3 DEF OpenPaired, Called, Indices
  <2> QED
    BY <1>3, <2>1 DEF Extended
<1>6. Awaiting(r, ids)
  <2> SUFFICES ASSUME NEW c \in ids
               PROVE  /\ \E i \in 1..Len(r) :
                           HasCalls(r[i]) /\ c \in ToSet(r[i].calls) /\ Quiet(r, i)
                      /\ \A j \in 1..Len(r) : r[j].role = "tool" => r[j].id # c
    BY DEF Awaiting, Indices
  <2>1. PICK i \in 1..Len(s) : HasCalls(s[i]) /\ c \in ToSet(s[i].calls) /\ Quiet(s, i)
    BY DEF OpenPaired, Awaiting, Indices
  <2>2. i \in 1..Len(r) /\ r[i] = s[i] /\ Quiet(r, i)
    BY <2>1, QuietRemains DEF Extended
  <2>3. \A j \in 1..Len(s) : s[j].role = "tool" => s[j].id # c
    BY DEF OpenPaired, Awaiting, Indices
  <2> QED
    BY <1>3, <2>1, <2>2, <2>3
<1> QED
  BY <1>2, <1>4, <1>5, <1>6 DEF OpenPaired

\* The model calls: its results are awaited.
LEMMA PushCalls ==
    ASSUME NEW M, Listable(M), NEW s \in Seq(M), NEW m \in M, NEW r, Extended(r, s, m),
           OpenPaired(s, {}), HasCalls(m),
           \A j \in 1..Len(s) : s[j].role = "tool" => s[j].id \notin ToSet(m.calls)
    PROVE  OpenPaired(r, ToSet(m.calls))
<1>1. Len(s) \in Nat /\ m.role # "tool"
  BY Typed DEF HasCalls
<1>2. Quiet(r, Len(s) + 1)
  BY <1>1 DEF Quiet, Extended
<1>3. AnsweredBut(r, ToSet(m.calls))
  <2> SUFFICES ASSUME NEW i \in 1..Len(r), HasCalls(r[i]), NEW c \in ToSet(r[i].calls)
               PROVE  \/ \E j \in (i + 1)..Len(r) : Answers(r, i, j) /\ r[j].id = c
                      \/ c \in ToSet(m.calls) /\ Quiet(r, i)
    BY DEF AnsweredBut, Indices
  <2>1. CASE i = Len(s) + 1
    BY <1>2, <2>1 DEF Extended
  <2>2. CASE i \in 1..Len(s)
    <3>1. r[i] = s[i]
      BY <2>2 DEF Extended
    <3>2. PICK j \in (i + 1)..Len(s) : Answers(s, i, j) /\ s[j].id = c
      BY <2>2, <3>1 DEF OpenPaired, AnsweredBut, Indices
    <3> QED
      BY <2>2, <3>2, AnswersRemain
  <2> QED
    BY <2>1, <2>2 DEF Extended
<1>4. \A j \in 1..Len(r) : r[j].role = "tool" => j \in 1..Len(s) /\ r[j] = s[j]
  BY <1>1 DEF Extended
<1>5. OneAnswer(r)
  BY <1>4 DEF OpenPaired, OneAnswer, Indices
<1>6. Called(r)
  <2> SUFFICES ASSUME NEW j \in 1..Len(r), r[j].role = "tool"
               PROVE  \E i \in 1..Len(r) : HasCalls(r[i]) /\ r[j].id \in ToSet(r[i].calls)
    BY DEF Called, Indices
  <2>1. PICK i \in 1..Len(s) : HasCalls(s[i]) /\ s[j].id \in ToSet(s[i].calls)
    BY <1>4 DEF OpenPaired, Called, Indices
  <2> QED
    BY <1>4, <2>1 DEF Extended
<1>7. Awaiting(r, ToSet(m.calls))
  <2>1. Len(s) + 1 \in Indices(r) /\ r[Len(s) + 1] = m
    BY DEF Extended, Indices
  <2>2. \A j \in Indices(r) : r[j].role = "tool" => r[j].id \notin ToSet(m.calls)
    BY <1>4 DEF Indices
  <2> QED
    BY <1>2, <2>1, <2>2 DEF Awaiting
<1> QED
  BY <1>3, <1>5, <1>6, <1>7 DEF OpenPaired

\* A result that is awaited arrives.
LEMMA PushResult ==
    ASSUME NEW M, Listable(M), NEW s \in Seq(M), NEW m \in M, NEW r, Extended(r, s, m), NEW ids,
           OpenPaired(s, ids), m.role = "tool", m.id \in ids
    PROVE  OpenPaired(r, ids \ {m.id})
<1>1. Len(s) \in Nat /\ ~ HasCalls(m)
  BY Typed DEF HasCalls
<1>2. PICK a \in 1..Len(s) : HasCalls(s[a]) /\ m.id \in ToSet(s[a].calls) /\ Quiet(s, a)
  BY DEF OpenPaired, Awaiting, Indices
<1>3. \A j \in 1..Len(s) : s[j].role = "tool" => s[j].id # m.id
  BY DEF OpenPaired, Awaiting, Indices
<1>4. AnsweredBut(r, ids \ {m.id})
  <2> SUFFICES ASSUME NEW i \in 1..Len(r), HasCalls(r[i]), NEW c \in ToSet(r[i].calls)
               PROVE  \/ \E j \in (i + 1)..Len(r) : Answers(r, i, j) /\ r[j].id = c
                      \/ c \in ids \ {m.id} /\ Quiet(r, i)
    BY DEF AnsweredBut, Indices
  <2>1. i \in 1..Len(s) /\ r[i] = s[i]
    BY <1>1 DEF Extended
  <2>2. CASE \E j \in (i + 1)..Len(s) : Answers(s, i, j) /\ s[j].id = c
    BY <2>1, <2>2, AnswersRemain
  <2>3. CASE c \in ids /\ Quiet(s, i) /\ c # m.id
    BY <2>1, <2>3, QuietRemains
  <2>4. CASE c \in ids /\ Quiet(s, i) /\ c = m.id
    <3> DEFINE j == Len(s) + 1
    <3>1. j \in (i + 1)..Len(r) /\ r[j] = m
      BY <1>1, <2>1 DEF Extended
    <3>2. \A k \in (i + 1)..(j - 1) : r[k].role \in {"tool", "system"}
      <4>1. \A k \in (i + 1)..(j - 1) : k \in (i + 1)..Len(s) /\ k \in 1..Len(s)
        BY <1>1, <2>1
      <4> QED
        BY <2>4, <4>1 DEF Quiet, Extended
    <3> HIDE DEF j
    <3>3. Answers(r, i, j) /\ r[j].id = c
      BY <2>4, <3>1, <3>2 DEF Answers
    <3> QED
      BY <3>1, <3>3
  <2> QED
    BY <2>1, <2>2, <2>3, <2>4 DEF OpenPaired, AnsweredBut, Indices
<1>5. OneAnswer(r)
  <2> SUFFICES ASSUME NEW j \in 1..Len(r), NEW k \in 1..Len(r),
                      r[j].role = "tool", r[k].role = "tool", r[j].id = r[k].id
               PROVE  j = k
    BY DEF OneAnswer, Indices
  <2>1. CASE j \in 1..Len(s) /\ k \in 1..Len(s)
    BY <2>1 DEF Extended, OpenPaired, OneAnswer, Indices
  <2>2. CASE j \in 1..Len(s) /\ k = Len(s) + 1
    BY <1>3, <2>2 DEF Extended
  <2>3. CASE k \in 1..Len(s) /\ j = Len(s) + 1
    BY <1>3, <2>3 DEF Extended
  <2> QED
    BY <2>1, <2>2, <2>3 DEF Extended
<1>6. Called(r)
  <2> SUFFICES ASSUME NEW j \in 1..Len(r), r[j].role = "tool"
               PROVE  \E i \in 1..Len(r) : HasCalls(r[i]) /\ r[j].id \in ToSet(r[i].calls)
    BY DEF Called, Indices
  <2>1. CASE j = Len(s) + 1
    BY <1>2, <2>1 DEF Extended
  <2>2. CASE j \in 1..Len(s)
    <3>1. PICK i \in 1..Len(s) : HasCalls(s[i]) /\ s[j].id \in ToSet(s[i].calls)
      BY <2>2 DEF OpenPaired, Called, Indices, Extended
    <3> QED
      BY <2>2, <3>1 DEF Extended
  <2> QED
    BY <2>1, <2>2 DEF Extended
<1>7. Awaiting(r, ids \ {m.id})
  <2> SUFFICES ASSUME NEW c \in ids, c # m.id
               PROVE  /\ \E i \in 1..Len(r) :
                           HasCalls(r[i]) /\ c \in ToSet(r[i].calls) /\ Quiet(r, i)
                      /\ \A j \in 1..Len(r) : r[j].role = "tool" => r[j].id # c
    BY DEF Awaiting, Indices
  <2>1. PICK i \in 1..Len(s) : HasCalls(s[i]) /\ c \in ToSet(s[i].calls) /\ Quiet(s, i)
    BY DEF OpenPaired, Awaiting, Indices
  <2>2. i \in 1..Len(r) /\ r[i] = s[i] /\ Quiet(r, i)
    BY <2>1, QuietRemains DEF Extended
  <2>3. \A j \in 1..Len(s) : s[j].role = "tool" => s[j].id # c
    BY DEF OpenPaired, Awaiting, Indices
  <2>4. \A j \in 1..Len(r) : r[j].role = "tool" => r[j].id # c
    BY <2>3 DEF Extended
  <2> QED
    BY <2>1, <2>2, <2>4
<1> QED
  BY <1>4, <1>5, <1>6, <1>7 DEF OpenPaired

-----------------------------------------------------------------------------
(* The invariant *)

Lists == MessageSet(Seq(Nat), Words)

TurnTypes ==
    /\ pc \in {"top", "model", "tools", "ended", "stored"}
    /\ messages \in Seq(Lists)
    /\ round \in 0..MaxRounds
    /\ pc \in {"model", "tools"} => round > 0
    /\ fails \in [Tools -> Nat]
    /\ repeated \in [batch : Seq(Tools), count : Nat]
    /\ todo \in Seq([id : NewIds, tool : Tools])
    /\ yieldAsked \in BOOLEAN
    /\ outcome \in {"none", "ok", "error"}
    /\ attempt \in 0..Fallbacks
    /\ stored \in Seq(Lists)
    /\ initial \in Histories
    /\ ran \subseteq NewIds
    /\ cut \in BOOLEAN

LEMMA ListsAre ==
    /\ Listable(Lists)
    /\ \A role \in Roles, word \in Words : Plain(role, word) \in Lists
    /\ \A c \in NewIds, n \in Nat, word \in Words : Result(c, n, word) \in Lists
    /\ \A cs \in Seq(NewIds) : Message("assistant", cs, NoId, 1, {"calls"}) \in Lists
<1> DEFINE Ids == Seq(Nat)
<1>1. NoId \in Ids
  BY DEF NoId
<1>2. "synthetic" \in Words /\ "calls" \in Words
  BY DEF Words
<1>3. NewIds \subseteq Ids
  <2> SUFFICES ASSUME NEW x \in NewIds PROVE x \in Ids
    OBVIOUS
  <2>1. PICK a \in Nat, b \in Nat \ {0}, c \in Nat : x = <<a, b, c>>
    BY DEF NewIds
  <2>2. <<a, b, c>> \in Seq(Nat)
    OBVIOUS
  <2> QED
    BY <2>1, <2>2
<1>4. Lists = MessageSet(Ids, Words)
  BY DEF Lists
<1> HIDE DEF Ids
<1>5. Listable(Lists)
  BY <1>1, <1>2, <1>4 DEF Listable
<1>6. \A role \in Roles, word \in Words : Plain(role, word) \in Lists
  BY <1>1, <1>4, MadeTypes
<1>7. \A c \in NewIds, n \in Nat, word \in Words : Result(c, n, word) \in Lists
  BY <1>1, <1>3, <1>4, MadeTypes
<1>8. \A cs \in Seq(NewIds) : cs \in Seq(Ids)
  BY <1>3
<1>9. \A cs \in Seq(NewIds) : Message("assistant", cs, NoId, 1, {"calls"}) \in Lists
  BY <1>1, <1>2, <1>4, <1>8, MadeTypes
<1> QED
  BY <1>5, <1>6, <1>7, <1>9

LEMMA HistoryIs ==
    ASSUME NEW h \in Histories
    PROVE  /\ h \in Seq(Lists) /\ WellPaired(h) /\ Asks(h, Marks)
           /\ \A i \in Indices(h) : h[i].role = "tool" => h[i].id \notin NewIds
BY TurnAssumption DEF Lists, Asks, LastAsks, LastBears, OwnAttachments, OwnAttached, Marks

\* Two messages pushed at once are pushed one after the other.
LEMMA PushedTwo ==
    ASSUME NEW s \in Seq(Lists), NEW m \in Lists, NEW n \in Lists
    PROVE  /\ s \o <<m>> \o <<>> = Append(s, m)
           /\ s \o <<m>> \o <<n>> = Append(Append(s, m), n)
           /\ s \o <<m, n>> = Append(Append(s, m), n)
<1> DEFINE M == Lists
<1> HIDE DEF M
<1>1. s \in Seq(M) /\ m \in M /\ n \in M
  BY DEF M
<1>2. s \o <<m>> \o <<>> = Append(s, m)
  BY <1>1
<1>3. s \o <<m>> \o <<n>> = Append(Append(s, m), n)
  BY <1>1
<1>4. s \o <<m, n>> = Append(Append(s, m), n)
  BY <1>1
<1> QED
  BY <1>2, <1>3, <1>4

\* What a batch of calls and the message that carries it look like.
LEMMA CallsAre ==
    ASSUME TurnTypes, round > 0, NEW batch \in Batches
    PROVE  LET calls == CallsOf(batch)
               m     == CallMessage(calls)
           IN  /\ calls \in Seq([id : NewIds, tool : Tools])
               /\ Len(calls) = Len(batch) /\ Len(calls) \in Nat /\ Len(calls) > 0
               /\ \A k \in 1..Len(calls) :
                    calls[k].id = <<attempt, round, k>> /\ calls[k].id \in NewIds
               /\ m \in Lists /\ HasCalls(m) /\ m.labels = {"calls"} /\ m.role = "assistant"
               /\ ToSet(m.calls) = {calls[k].id : k \in Indices(calls)}
<1> DEFINE calls == CallsOf(batch)
           m == CallMessage(calls)
           ids == [i \in 1..Len(calls) |-> calls[i].id]
<1>1. batch \in Seq(Tools) /\ batch # <<>>
  BY TurnAssumption
<1>2. Len(batch) \in Nat /\ Len(batch) > 0 /\ \A i \in 1..Len(batch) : batch[i] \in Tools
  BY <1>1
<1>3. attempt \in Nat /\ round \in Nat \ {0}
  BY TurnAssumption DEF TurnTypes
<1>4. calls = [i \in 1..Len(batch) |-> [id |-> <<attempt, round, i>>, tool |-> batch[i]]]
  BY Zenon DEF CallsOf, Indices
<1>5. \A i \in 1..Len(batch) : <<attempt, round, i>> \in NewIds
  BY <1>2, <1>3 DEF NewIds
<1> HIDE DEF calls
<1>6. \A i \in 1..Len(batch) :
         /\ calls[i] = [id |-> <<attempt, round, i>>, tool |-> batch[i]]
         /\ calls[i] \in [id : NewIds, tool : Tools]
         /\ calls[i].id = <<attempt, round, i>>
  BY <1>2, <1>4, <1>5
<1>7. /\ calls \in Seq([id : NewIds, tool : Tools]) /\ Len(calls) = Len(batch)
  <2> DEFINE S == [id : NewIds, tool : Tools]
  <2>1. \A i \in 1..Len(batch) : [id |-> <<attempt, round, i>>, tool |-> batch[i]] \in S
    BY <1>4, <1>6
  <2> HIDE DEF S
  <2>2. calls \in Seq(S) /\ Len(calls) = Len(batch)
    BY <1>2, <1>4, <2>1
  <2> QED
    BY <2>2 DEF S
<1>8. ids \in Seq(NewIds) /\ Len(ids) = Len(calls) /\ ids # <<>>
  <2>1. \A i \in 1..Len(calls) : calls[i].id \in NewIds
    BY <1>5, <1>6, <1>7
  <2> QED
    BY <1>2, <1>7, <2>1
<1>9. m = Message("assistant", ids, NoId, 1, {"calls"})
  BY Zenon DEF CallMessage, Indices
<1>10. m.calls = ids /\ m.role = "assistant" /\ m.labels = {"calls"}
  BY <1>9 DEF Message
<1>11. ToSet(ids) = {calls[k].id : k \in Indices(calls)}
  BY <1>8 DEF ToSet, Indices
<1> HIDE DEF m, ids
<1>12. m \in Lists /\ HasCalls(m)
  BY <1>8, <1>9, <1>10, ListsAre DEF HasCalls
<1> QED
  BY <1>2, <1>5, <1>6, <1>7, <1>10, <1>11, <1>12 DEF m, calls

-----------------------------------------------------------------------------
(* Types *)

LEMMA InitTypes == Init => TurnTypes
<1> SUFFICES ASSUME Init PROVE TurnTypes
  OBVIOUS
<1>1. initial \in Histories /\ messages \in Seq(Lists)
  BY HistoryIs DEF Init
<1>2. fails \in [Tools -> Nat] /\ repeated \in [batch : Seq(Tools), count : Nat]
  <2>1. <<>> \in Seq(Tools)
    OBVIOUS
  <2> QED
    BY <2>1 DEF Init, NoFails, Streak
<1>3. <<>> \in Seq(Lists) /\ <<>> \in Seq([id : NewIds, tool : Tools])
  OBVIOUS
<1>4. 0 \in 0..MaxRounds /\ 0 \in 0..Fallbacks
  BY TurnAssumption
<1>5. /\ todo \in Seq([id : NewIds, tool : Tools]) /\ stored \in Seq(Lists)
      /\ round \in 0..MaxRounds /\ attempt \in 0..Fallbacks
  BY <1>3, <1>4 DEF Init
<1>6. /\ pc \in {"top", "model", "tools", "ended", "stored"} /\ pc \notin {"model", "tools"}
      /\ yieldAsked \in BOOLEAN /\ outcome \in {"none", "ok", "error"}
      /\ ran \subseteq NewIds /\ cut \in BOOLEAN
  BY DEF Init
<1> QED
  BY <1>1, <1>2, <1>5, <1>6 DEF TurnTypes

LEMMA StreakTypes ==
    ASSUME TurnTypes, NEW batch \in Batches
    PROVE  Extend(repeated, batch) \in [batch : Seq(Tools), count : Nat]
BY TurnAssumption DEF TurnTypes, Extend, Streak

\* What a push does to the types is only in the list.
OtherTypes ==
    /\ pc \in {"top", "model", "tools", "ended", "stored"}
    /\ round \in 0..MaxRounds
    /\ pc \in {"model", "tools"} => round > 0
    /\ fails \in [Tools -> Nat]
    /\ repeated \in [batch : Seq(Tools), count : Nat]
    /\ todo \in Seq([id : NewIds, tool : Tools])
    /\ yieldAsked \in BOOLEAN
    /\ outcome \in {"none", "ok", "error"}
    /\ attempt \in 0..Fallbacks
    /\ stored \in Seq(Lists)
    /\ initial \in Histories
    /\ ran \subseteq NewIds
    /\ cut \in BOOLEAN

LEMMA TypesAre == TurnTypes <=> messages \in Seq(Lists) /\ OtherTypes
BY DEF TurnTypes, OtherTypes

LEMMA PushTypes ==
    ASSUME NEW s \in Seq(Lists), NEW m \in Lists, NEW n \in Lists
    PROVE  Append(s, m) \in Seq(Lists) /\ Append(Append(s, m), n) \in Seq(Lists)
<1> DEFINE M == Lists
<1> HIDE DEF M
<1>1. s \in Seq(M) /\ m \in M /\ n \in M
  BY DEF M
<1>2. Append(s, m) \in Seq(M)
  BY <1>1
<1>3. Append(Append(s, m), n) \in Seq(M)
  BY <1>1, <1>2
<1> QED
  BY <1>2, <1>3 DEF M

LEMMA PlainTypes ==
    /\ Plain("assistant", "malformed") \in Lists /\ Plain("user", "retry") \in Lists
    /\ Plain("assistant", "ungrounded") \in Lists /\ Plain("system", "correction") \in Lists
    /\ Plain("system", "nudge") \in Lists /\ Plain("system", "redirect") \in Lists
    /\ Plain("assistant", "answer") \in Lists /\ Plain("assistant", "empty") \in Lists
    /\ \A c \in NewIds : /\ Result(c, 1, "blocked") \in Lists /\ Result(c, 1, "denied") \in Lists
                         /\ \A n \in Nat : Result(c, n, "result") \in Lists
<1>1. \A w \in {"malformed", "ungrounded", "answer", "empty", "retry", "correction", "nudge",
               "redirect", "blocked", "denied", "result"} : w \in Words
  BY DEF Words
<1>2. \A r \in {"assistant", "user", "system"} : r \in Roles
  BY DEF Roles
<1> QED
  BY <1>1, <1>2, ListsAre

\* The head of what is to be done, and the rest.
LEMMA NextTodo ==
    ASSUME TurnTypes, todo # <<>>
    PROVE  /\ Head(todo) \in [id : NewIds, tool : Tools] /\ Head(todo) = todo[1]
           /\ Head(todo).id \in NewIds /\ Head(todo).tool \in Tools
           /\ Tail(todo) \in Seq([id : NewIds, tool : Tools])
           /\ Len(todo) \in Nat /\ Len(todo) > 0 /\ Len(Tail(todo)) = Len(todo) - 1
           /\ \A k \in 1..Len(Tail(todo)) : Tail(todo)[k] = todo[k + 1]
<1> DEFINE S == [id : NewIds, tool : Tools]
<1>1. todo \in Seq(S)
  BY DEF TurnTypes
<1>2. \A x \in S : x.id \in NewIds /\ x.tool \in Tools
  OBVIOUS
<1> HIDE DEF S
<1>3. /\ Head(todo) \in S /\ Head(todo) = todo[1] /\ Tail(todo) \in Seq(S)
      /\ Len(todo) \in Nat /\ Len(todo) > 0 /\ Len(Tail(todo)) = Len(todo) - 1
      /\ \A k \in 1..Len(Tail(todo)) : Tail(todo)[k] = todo[k + 1]
  BY <1>1
<1> QED
  BY <1>2, <1>3 DEF S

LEMMA StoreTypes ==
    ASSUME TurnTypes, StoreNew
    PROVE  stored' \in Seq(Lists)
<1> DEFINE new == SubSeq(messages, Len(initial) + 1, Len(messages))
           I == {i \in Indices(new) : Worth(new[i])}
<1>1. messages \in Seq(Lists) /\ initial \in Seq(Lists)
  BY HistoryIs DEF TurnTypes
<1>2. /\ Len(messages) \in Nat /\ Len(initial) \in Nat
      /\ \A i \in 1..Len(messages) : messages[i] \in Lists
  BY <1>1, SeqElements
<1>3. new \in Seq(Lists)
  <2> DEFINE a == Len(initial) + 1
             b == Len(messages)
  <2>1. a \in Int /\ b \in Int /\ \A i \in a..b : messages[i] \in Lists
    BY <1>2
  <2> HIDE DEF a, b
  <2>2. SubSeq(messages, a, b) \in Seq(Lists)
    BY <2>1, SubSeqProperties
  <2> QED
    BY <2>2 DEF a, b
<1>4. stored' = Keep(new, I)
  BY Zenon DEF StoreNew
<1> HIDE DEF new, I
<1> QED
  BY <1>3, <1>4, KeepTakes

LEMMA FallbackTypes ==
    ASSUME TurnTypes, Fallback
    PROVE  messages' \in Seq(Lists)
<1>1. messages \in Seq(Lists) /\ initial \in Seq(Lists)
  BY HistoryIs DEF TurnTypes
<1>2. /\ Len(messages) \in Nat /\ Len(initial) \in Nat
      /\ \A i \in 1..Len(messages) : messages[i] \in Lists
  BY <1>1, SeqElements
<1> DEFINE T == {Len(messages), Len(initial)}
           b == Min(T)
<1>3. T \in SUBSET Nat /\ T # {} /\ Len(messages) \in T
  BY <1>2
<1> HIDE DEF T
<1>4. b \in Nat /\ b <= Len(messages)
  BY <1>3, MinIs
<1>5. messages' = SubSeq(messages, 1, b)
  BY Zenon DEF Fallback, T
<1> HIDE DEF b
<1>6. 1 \in Int /\ b \in Int /\ \A i \in 1..b : messages[i] \in Lists
  BY <1>2, <1>4
<1>7. SubSeq(messages, 1, b) \in Seq(Lists)
  BY <1>6, SubSeqProperties
<1> QED
  BY <1>5, <1>7

LEMMA TypesStep ==
    ASSUME TurnTypes, [Next]_vars
    PROVE  TurnTypes'
<1>0. messages \in Seq(Lists) /\ OtherTypes
  BY TypesAre
<1> SUFFICES messages' \in Seq(Lists) /\ OtherTypes'
  BY DEF TurnTypes, OtherTypes
<1>1. CASE UNCHANGED vars
  BY <1>0, <1>1 DEF OtherTypes, vars, turnVars, histVars
<1>2. CASE RequestYield
  BY <1>0, <1>2 DEF OtherTypes, RequestYield, turnVars, histVars
<1>3. CASE StopEarly
  BY <1>0, <1>3 DEF OtherTypes, StopEarly, turnVars, histVars
<1>4. CASE CallModel
  BY <1>0, <1>4, TurnAssumption DEF OtherTypes, CallModel, histVars
<1>5. CASE Fail
  BY <1>0, <1>5 DEF OtherTypes, Fail, turnVars, histVars
<1>6. CASE RetryMalformed
  <2>1. messages' \in Seq(Lists)
    BY <1>0, <1>6, PlainTypes, PushedTwo, PushTypes DEF RetryMalformed, Retry
  <2>2. OtherTypes'
    BY <1>0, <1>6 DEF OtherTypes, RetryMalformed, Retry, turnVars, histVars
  <2> QED
    BY <2>1, <2>2
<1>7. CASE RetryUngrounded
  <2>1. messages' \in Seq(Lists)
    BY <1>0, <1>7, PlainTypes, PushedTwo, PushTypes DEF RetryUngrounded, Retry
  <2>2. OtherTypes'
    BY <1>0, <1>7 DEF OtherTypes, RetryUngrounded, Retry, turnVars, histVars
  <2> QED
    BY <2>1, <2>2
<1>8. CASE RetryEmpty
  <2>1. messages' \in Seq(Lists)
    BY <1>0, <1>8, PlainTypes, PushTypes DEF RetryEmpty, Push
  <2>2. OtherTypes'
    BY <1>0, <1>8 DEF OtherTypes, RetryEmpty, turnVars, histVars
  <2> QED
    BY <2>1, <2>2
<1>9. CASE Answer
  <2>1. messages' \in Seq(Lists)
    BY <1>0, <1>9, PlainTypes, PushTypes DEF Answer, Push
  <2>2. OtherTypes'
    BY <1>0, <1>9 DEF OtherTypes, Answer, turnVars, histVars
  <2> QED
    BY <2>1, <2>2
<1>10. ASSUME NEW batch \in Batches, StopRepetition(batch)
       PROVE  messages' \in Seq(Lists) /\ OtherTypes'
  <2>1. messages' \in Seq(Lists)
    BY <1>0, <1>10, PlainTypes, PushTypes DEF StopRepetition, Push
  <2>2. OtherTypes'
    BY <1>0, <1>10, StreakTypes DEF OtherTypes, StopRepetition, turnVars, histVars
  <2> QED
    BY <2>1, <2>2
<1>11. ASSUME NEW batch \in Batches, StartTools(batch) PROVE messages' \in Seq(Lists) /\ OtherTypes'
  <2>1. round > 0
    BY <1>0, <1>11 DEF OtherTypes, StartTools
  <2>2. /\ todo' = CallsOf(batch) /\ messages' = Append(messages, CallMessage(todo'))
        /\ repeated' = Extend(repeated, batch)
    BY <1>11 DEF StartTools, Push
  <2>3. CallsOf(batch) \in Seq([id : NewIds, tool : Tools]) /\ CallMessage(CallsOf(batch)) \in Lists
    BY <2>1, CallsAre
  <2>4. messages' \in Seq(Lists)
    BY <1>0, <2>2, <2>3, PushTypes
  <2>5. OtherTypes'
    BY <1>0, <1>11, <2>1, <2>2, <2>3, StreakTypes DEF OtherTypes, StartTools, histVars
  <2> QED
    BY <2>4, <2>5
<1>12. ASSUME NEW batch \in Batches, RunPlan(batch) PROVE messages' \in Seq(Lists) /\ OtherTypes'
  <2> DEFINE calls == CallsOf(batch)
  <2>1. round > 0
    BY <1>0, <1>12 DEF OtherTypes, RunPlan
  <2>2. PICK size \in ResultSizes :
           messages' = messages \o <<CallMessage(calls), Result(calls[1].id, size, "result")>>
    BY <1>12 DEF RunPlan
  <2>3. ran' = ran \cup {calls[1].id}
    BY <1>12 DEF RunPlan
  <2>4. CallMessage(calls) \in Lists /\ calls[1].id \in NewIds
    <3>1. /\ Len(calls) \in Nat /\ Len(calls) > 0 /\ CallMessage(calls) \in Lists
          /\ \A k \in 1..Len(calls) : calls[k].id \in NewIds
      BY <2>1, CallsAre
    <3> HIDE DEF calls
    <3> QED
      BY <3>1
  <2> HIDE DEF calls
  <2>5. Result(calls[1].id, size, "result") \in Lists
    BY <2>4, PlainTypes, TurnAssumption
  <2>6. messages' \in Seq(Lists)
    BY <1>0, <2>2, <2>4, <2>5, PushedTwo, PushTypes
  <2>7. OtherTypes'
    BY <1>0, <1>12, <2>3, <2>4, StreakTypes DEF OtherTypes, RunPlan
  <2> QED
    BY <2>6, <2>7
<1>13. CASE BlockTool
  <2>1. todo # <<>> /\ messages' = Append(messages, Result(Head(todo).id, 1, "blocked"))
    BY <1>13 DEF BlockTool, ToolStep, Push
  <2>2. messages' \in Seq(Lists)
    BY <1>0, <2>1, NextTodo, PlainTypes, PushTypes
  <2>3. OtherTypes'
    BY <1>0, <1>13, <2>1, NextTodo DEF OtherTypes, BlockTool, ToolStep
  <2> QED
    BY <2>2, <2>3
<1>14. CASE DenyTool
  <2>1. todo # <<>> /\ messages' = Append(messages, Result(Head(todo).id, 1, "denied"))
    BY <1>14 DEF DenyTool, ToolStep, Push
  <2>2. messages' \in Seq(Lists)
    BY <1>0, <2>1, NextTodo, PlainTypes, PushTypes
  <2>3. OtherTypes'
    BY <1>0, <1>14, <2>1, NextTodo DEF OtherTypes, DenyTool, ToolStep
  <2> QED
    BY <2>2, <2>3
<1>15. CASE RunTool
  <2> DEFINE call == Head(todo)
  <2>1. todo # <<>> /\ ran' = ran \cup {call.id}
    BY <1>15 DEF RunTool, ToolStep
  <2>2. PICK ok \in BOOLEAN, size \in ResultSizes :
           /\ fails' = [t \in Tools |->
                          IF t # call.tool THEN fails[t] ELSE IF ok THEN 0 ELSE fails[t] + 1]
           /\ messages' = messages \o <<Result(call.id, size, "result")>> \o
                (IF ~ ok /\ fails[call.tool] + 1 >= Nudge
                 THEN <<Plain("system", "nudge")>> ELSE <<>>)
    BY <1>15 DEF RunTool
  <2>3. Result(call.id, size, "result") \in Lists /\ call.id \in NewIds
    BY <2>1, NextTodo, PlainTypes, TurnAssumption
  <2>4. messages' \in Seq(Lists)
    BY <1>0, <2>2, <2>3, PlainTypes, PushedTwo, PushTypes
  <2>5. fails' \in [Tools -> Nat]
    BY <1>0, <2>2 DEF OtherTypes
  <2>6. OtherTypes'
    BY <1>0, <1>15, <2>1, <2>3, <2>5, NextTodo DEF OtherTypes, RunTool, ToolStep
  <2> QED
    BY <2>4, <2>6
<1>16. CASE EndRound
  <2>1. messages' \in Seq(Lists)
    BY <1>0, <1>16, ListsAre, TruncateTypes DEF EndRound
  <2>2. OtherTypes'
    BY <1>0, <1>16 DEF OtherTypes, EndRound, turnVars
  <2> QED
    BY <2>1, <2>2
<1>17. CASE Fallback
  <2>1. messages' \in Seq(Lists)
    BY <1>17, FallbackTypes
  <2>2. NoFails \in [Tools -> Nat] /\ Streak(<<>>, 0) \in [batch : Seq(Tools), count : Nat]
        /\ <<>> \in Seq([id : NewIds, tool : Tools])
    <3>1. <<>> \in Seq(Tools) /\ <<>> \in Seq([id : NewIds, tool : Tools])
      OBVIOUS
    <3> QED
      BY <3>1 DEF NoFails, Streak
  <2>3. OtherTypes'
    BY <1>0, <1>17, <2>2, TurnAssumption DEF OtherTypes, Fallback
  <2> QED
    BY <2>1, <2>3
<1>18. CASE StoreNew
  <2>1. stored' \in Seq(Lists)
    BY <1>18, StoreTypes
  <2> QED
    BY <1>0, <1>18, <2>1 DEF OtherTypes, StoreNew, turnVars, histVars
<1> QED
  BY <1>1, <1>2, <1>3, <1>4, <1>5, <1>6, <1>7, <1>8, <1>9, <1>10, <1>11, <1>12, <1>13, <1>14,
     <1>15, <1>16, <1>17, <1>18 DEF Next, TurnNext

-----------------------------------------------------------------------------
(* Calls yet to handle *)

Pending == {todo[k].id : k \in 1..Len(todo)}

\* They are calls of this round, each once.
Due ==
    /\ pc # "tools" => todo = <<>>
    /\ \A k \in 1..Len(todo) : todo[k].id[1] = attempt /\ todo[k].id[2] = round
    /\ \A j, k \in 1..Len(todo) : todo[j].id = todo[k].id => j = k

LEMMA NothingDue ==
    ASSUME todo = <<>>
    PROVE  Pending = {}
<1>1. 1..Len(todo) = {}
  BY SMT
<1> QED
  BY <1>1 DEF Pending

LEMMA DueTaken ==
    ASSUME TurnTypes, Due, todo # <<>>, todo' = Tail(todo), pc' = pc, pc = "tools",
           attempt' = attempt, round' = round
    PROVE  /\ Due'
           /\ Pending' = Pending \ {Head(todo).id} /\ Head(todo).id \in Pending
           /\ Head(todo).id[1] = attempt /\ Head(todo).id[2] = round
<1>1. /\ Head(todo) = todo[1] /\ Len(todo) \in Nat /\ Len(todo) > 0
      /\ Len(todo') = Len(todo) - 1 /\ \A k \in 1..Len(todo') : todo'[k] = todo[k + 1]
  BY NextTodo
<1>2. Due'
  <2>1. \A k \in 1..Len(todo') : k + 1 \in 1..Len(todo)
    BY <1>1
  <2>2. \A j, k \in 1..Len(todo') : j + 1 = k + 1 => j = k
    BY <1>1
  <2>3. \A k \in 1..Len(todo') : todo'[k].id[1] = attempt' /\ todo'[k].id[2] = round'
    BY <1>1, <2>1 DEF Due
  <2>4. \A j, k \in 1..Len(todo') : todo'[j].id = todo'[k].id => j = k
    <3> SUFFICES ASSUME NEW j \in 1..Len(todo'), NEW k \in 1..Len(todo'),
                        todo'[j].id = todo'[k].id
                 PROVE  j = k
      OBVIOUS
    <3>1. todo[j + 1].id = todo[k + 1].id
      BY <1>1
    <3> QED
      BY <2>1, <2>2, <3>1 DEF Due
  <2> QED
    BY <2>3, <2>4 DEF Due
<1>3. 1 \in 1..Len(todo)
  BY <1>1
<1>4. Pending' = Pending \ {Head(todo).id}
  <2>1. ASSUME NEW c \in Pending' PROVE c \in Pending /\ c # Head(todo).id
    <3>1. PICK k \in 1..Len(todo') : c = todo'[k].id
      BY <2>1 DEF Pending
    <3>2. k + 1 \in 1..Len(todo) /\ k + 1 # 1 /\ c = todo[k + 1].id
      BY <1>1, <3>1
    <3> QED
      BY <1>1, <1>3, <3>2 DEF Pending, Due
  <2>2. ASSUME NEW c \in Pending, c # Head(todo).id PROVE c \in Pending'
    <3>1. PICK k \in 1..Len(todo) : c = todo[k].id
      BY DEF Pending
    <3>2. k # 1
      BY <1>1, <2>2, <3>1
    <3>3. PICK j \in 1..Len(todo') : j + 1 = k
      <4>1. k - 1 \in 1..Len(todo') /\ (k - 1) + 1 = k
        BY <1>1, <3>2
      <4> QED
        BY <4>1
    <3>4. c = todo'[j].id
      BY <1>1, <3>1, <3>3
    <3> QED
      BY <3>4 DEF Pending
  <2> QED
    BY <2>1, <2>2
<1> QED
  BY <1>1, <1>2, <1>3, <1>4 DEF Pending, Due

LEMMA NothingDueThen ==
    ASSUME todo' = <<>>
    PROVE  Due'
<1>1. 1..Len(todo') = {}
  BY SMT
<1> QED
  BY <1>1 DEF Due

LEMMA TodoStep ==
    ASSUME TurnTypes, Due, [Next]_vars
    PROVE  Due'
<1>1. CASE UNCHANGED vars
  BY <1>1 DEF Due, vars, turnVars
<1>2. CASE RequestYield
  BY <1>2 DEF Due, RequestYield, turnVars
<1>3. CASE pc # "tools" /\ todo' = todo
  BY <1>3, NothingDueThen DEF Due
<1>4. CASE StopEarly \/ CallModel \/ Fail \/ RetryMalformed \/ RetryUngrounded \/ RetryEmpty
           \/ Answer \/ StoreNew
  BY <1>3, <1>4 DEF StopEarly, CallModel, Fail, RetryMalformed, RetryUngrounded, RetryEmpty,
                    Answer, StoreNew, Retry, turnVars
<1>5. CASE \E batch \in Batches : StopRepetition(batch) \/ RunPlan(batch)
  BY <1>3, <1>5 DEF StopRepetition, RunPlan
<1>6. ASSUME NEW batch \in Batches, StartTools(batch) PROVE Due'
  <2> DEFINE calls == CallsOf(batch)
  <2>1. /\ todo' = calls /\ pc' = "tools" /\ attempt' = attempt /\ round' = round /\ round > 0
    BY <1>6 DEF StartTools, TurnTypes
  <2>2. /\ Len(calls) \in Nat
        /\ \A k \in 1..Len(calls) : calls[k].id = <<attempt, round, k>>
    BY <2>1, CallsAre
  <2> HIDE DEF calls
  <2>3. \A k \in 1..Len(calls) : calls[k].id[1] = attempt /\ calls[k].id[2] = round
    BY <2>2
  <2>4. \A j, k \in 1..Len(calls) : calls[j].id = calls[k].id => j = k
    BY <2>2
  <2> QED
    BY <2>1, <2>3, <2>4 DEF Due
<1>7. CASE BlockTool \/ DenyTool \/ RunTool
  <2>1. ToolStep
    BY <1>7 DEF BlockTool, DenyTool, RunTool
  <2> QED
    BY <2>1, DueTaken DEF ToolStep
<1>8. CASE EndRound
  BY <1>8, NothingDueThen DEF EndRound, turnVars
<1>9. CASE Fallback
  BY <1>9, NothingDueThen DEF Fallback
<1> QED
  BY <1>1, <1>2, <1>4, <1>5, <1>6, <1>7, <1>8, <1>9 DEF Next, TurnNext

-----------------------------------------------------------------------------
(* What the provider is given *)

\* Results of calls of round b of attempt a at the latest.
NoLater(s, a, b) ==
    \A j \in 1..Len(s) : s[j].role = "tool" /\ s[j].id \in NewIds =>
        s[j].id[1] < a \/ (s[j].id[1] = a /\ s[j].id[2] <= b)

\* The list of a round, with calls of it still to answer.
InRound(s, ids, a, b) ==
    OpenPaired(s, ids) /\ Asks(s, Marks) /\ s[1] = initial[1] /\ NoLater(s, a, b)

\* Nothing that a failed provider was given truncated is taken over.
Sane == ~ (cut /\ attempt > 0)

Shape ==
    Sane => /\ InRound(messages, Pending, attempt, round)
            /\ pc = "model" => NoLater(messages, attempt, round - 1)

LEMMA PushAsks ==
    ASSUME NEW s \in Seq(Lists), NEW m \in Lists, NEW r, Extended(r, s, m), Asks(s, Marks),
           m.role # "user" \/ m = Plain("user", "retry")
    PROVE  Asks(r, Marks) /\ r[1] = s[1]
<1>1. Len(s) \in Nat
  BY ListsAre, Typed
<1>2. Len(s) # 0 /\ s[1].role = "system"
  <2>1. s = <<>> <=> Len(s) = 0
    <3> DEFINE M == Lists
    <3> HIDE DEF M
    <3>1. s \in Seq(M)
      BY DEF M
    <3> QED
      BY <3>1
  <2> QED
    BY <2>1 DEF Asks
<1>3. r # <<>> /\ r[1] = s[1] /\ r[1].role = "system"
  <2>1. Len(<<>>) = 0
    OBVIOUS
  <2>2. Len(r) # 0
    BY <1>1 DEF Extended
  <2> QED
    BY <1>1, <1>2, <2>1, <2>2 DEF Extended
<1>4. LastBears(r, Marks)
  <2>1. CASE m = Plain("user", "retry")
    <3>1. m.role = "user" /\ m.labels \cap Marks # {}
      BY <2>1 DEF Plain, Message, Marks
    <3>2. \A j \in (Len(s) + 1 + 1)..Len(r) : r[j].role # "user"
      BY <1>1 DEF Extended
    <3> QED
      BY <3>1, <3>2 DEF LastBears, Indices, Extended
  <2>2. CASE m.role # "user"
    <3>1. PICK u \in 1..Len(s) : /\ s[u].role = "user" /\ s[u].labels \cap Marks # {}
                                /\ \A j \in (u + 1)..Len(s) : s[j].role # "user"
      BY DEF Asks, LastBears, Indices
    <3>2. u \in 1..Len(r) /\ r[u] = s[u]
      BY DEF Extended
    <3>3. ASSUME NEW j \in (u + 1)..Len(r) PROVE r[j].role # "user"
      <4>1. j \in (u + 1)..Len(s) \/ j = Len(s) + 1
        BY <1>1 DEF Extended
      <4> QED
        BY <2>2, <3>1, <4>1, <1>1 DEF Extended
    <3> QED
      BY <3>1, <3>2, <3>3 DEF LastBears, Indices
  <2> QED
    BY <2>1, <2>2
<1>5. OwnAttached(r, Marks)
  <2> SUFFICES ASSUME NEW i \in 1..Len(r), r[i].role = "user", "attachment" \in r[i].labels
               PROVE  r[i].labels \cap Marks # {}
    BY DEF OwnAttached, Indices
  <2>1. CASE i \in 1..Len(s)
    BY <2>1 DEF Asks, OwnAttached, Indices, Extended
  <2>2. CASE i = Len(s) + 1
    BY <2>2 DEF Plain, Message, Extended
  <2> QED
    BY <2>1, <2>2 DEF Extended
<1> QED
  BY <1>3, <1>4, <1>5 DEF Asks

LEMMA PushLater ==
    ASSUME NEW s, NEW m, NEW r, Extended(r, s, m), NEW a, NEW b, NoLater(s, a, b),
           m.role = "tool" => m.id[1] = a /\ m.id[2] <= b
    PROVE  NoLater(r, a, b)
<1> SUFFICES ASSUME NEW j \in 1..Len(r), r[j].role = "tool", r[j].id \in NewIds
             PROVE  r[j].id[1] < a \/ (r[j].id[1] = a /\ r[j].id[2] <= b)
  BY DEF NoLater
<1>1. CASE j \in 1..Len(s)
  BY <1>1 DEF Extended, NoLater
<1>2. CASE j = Len(s) + 1
  BY <1>2 DEF Extended
<1> QED
  BY <1>1, <1>2 DEF Extended

LEMMA RoundOther ==
    ASSUME NEW s \in Seq(Lists), NEW m \in Lists, NEW ids, NEW a, NEW b,
           InRound(s, ids, a, b), m.role # "tool", ~ HasCalls(m), ids = {} \/ m.role = "system",
           m.role # "user" \/ m = Plain("user", "retry")
    PROVE  InRound(Append(s, m), ids, a, b) /\ Extended(Append(s, m), s, m)
<1> DEFINE r == Append(s, m)
<1>1. Extended(r, s, m)
  BY ListsAre, Appended
<1> HIDE DEF r
<1>2. OpenPaired(r, ids)
  BY <1>1, ListsAre, PushOther DEF InRound
<1>3. Asks(r, Marks) /\ r[1] = s[1]
  BY <1>1, PushAsks DEF InRound
<1>4. NoLater(r, a, b)
  BY <1>1, PushLater DEF InRound
<1> QED
  BY <1>1, <1>2, <1>3, <1>4 DEF InRound, r

LEMMA RoundCalls ==
    ASSUME NEW s \in Seq(Lists), NEW m \in Lists, NEW a \in Nat, NEW b \in Nat,
           InRound(s, {}, a, b), NoLater(s, a, b - 1), HasCalls(m),
           \A c \in ToSet(m.calls) : c \in NewIds /\ c[1] = a /\ c[2] = b
    PROVE  InRound(Append(s, m), ToSet(m.calls), a, b) /\ Extended(Append(s, m), s, m)
<1> DEFINE r == Append(s, m)
<1>1. Extended(r, s, m)
  BY ListsAre, Appended
<1> HIDE DEF r
<1>2. m.role = "assistant"
  BY DEF HasCalls
<1>3. \A j \in 1..Len(s) : s[j].role = "tool" => s[j].id \notin ToSet(m.calls)
  <2> SUFFICES ASSUME NEW j \in 1..Len(s), s[j].role = "tool", s[j].id \in ToSet(m.calls)
               PROVE  FALSE
    OBVIOUS
  <2>1. s[j].id \in NewIds /\ s[j].id[1] = a /\ s[j].id[2] = b
    OBVIOUS
  <2>2. s[j].id[1] < a \/ (s[j].id[1] = a /\ s[j].id[2] <= b - 1)
    BY <2>1 DEF NoLater
  <2> QED
    BY <2>1, <2>2
<1>4. OpenPaired(r, ToSet(m.calls))
  BY <1>1, <1>3, ListsAre, PushCalls DEF InRound
<1>5. Asks(r, Marks) /\ r[1] = s[1]
  BY <1>1, <1>2, PushAsks DEF InRound
<1>6. NoLater(r, a, b)
  BY <1>1, <1>2, PushLater DEF InRound
<1> QED
  BY <1>1, <1>4, <1>5, <1>6 DEF InRound, r

LEMMA RoundResult ==
    ASSUME NEW s \in Seq(Lists), NEW m \in Lists, NEW ids, NEW a \in Nat, NEW b \in Nat,
           InRound(s, ids, a, b), m.role = "tool", m.id \in ids, m.id[1] = a, m.id[2] = b
    PROVE  InRound(Append(s, m), ids \ {m.id}, a, b) /\ Extended(Append(s, m), s, m)
<1> DEFINE r == Append(s, m)
<1>1. Extended(r, s, m)
  BY ListsAre, Appended
<1> HIDE DEF r
<1>2. OpenPaired(r, ids \ {m.id})
  BY <1>1, ListsAre, PushResult DEF InRound
<1>3. Asks(r, Marks) /\ r[1] = s[1]
  BY <1>1, PushAsks DEF InRound
<1>4. NoLater(r, a, b)
  BY <1>1, PushLater DEF InRound
<1> QED
  BY <1>1, <1>2, <1>3, <1>4 DEF InRound, r

LEMMA RoundRuns ==
    ASSUME NEW s, NEW ids, NEW a \in Nat, NEW b \in Nat, InRound(s, ids, a, b)
    PROVE  InRound(s, ids, a, b + 1)
<1> SUFFICES ASSUME NEW j \in 1..Len(s), s[j].role = "tool", s[j].id \in NewIds
             PROVE  s[j].id[1] < a \/ (s[j].id[1] = a /\ s[j].id[2] <= b + 1)
  BY DEF InRound, NoLater
<1>1. PICK x \in Nat, y \in Nat \ {0}, z \in Nat : s[j].id = <<x, y, z>>
  BY DEF NewIds
<1>2. x < a \/ (x = a /\ y <= b)
  <2>1. s[j].id[1] < a \/ (s[j].id[1] = a /\ s[j].id[2] <= b)
    BY DEF InRound, NoLater
  <2>2. s[j].id[1] = x /\ s[j].id[2] = y
    BY <1>1
  <2> QED
    BY <2>1, <2>2
<1> QED
  BY <1>1, <1>2

LEMMA RoundTruncated ==
    ASSUME NEW s \in Seq(Lists), NEW window, NEW a, NEW b, InRound(s, {}, a, b)
    PROVE  InRound(TruncateMidLoop(s, window), {}, a, b)
<1> DEFINE t == TruncateMidLoop(s, window)
<1>1. WellPaired(s) /\ Asks(s, Marks)
  BY ListsAre, ClosedIsPaired DEF InRound
<1>2. t \in Seq(Lists) /\ WellPaired(t) /\ Carries(t, s, Marks)
  <2>1. "attachment" \notin Marks
    BY DEF Marks
  <2> QED
    BY <1>1, <2>1, ListsAre, TruncateTypes, TruncateKeeps
<1> HIDE DEF t
<1>3. OpenPaired(t, {})
  BY <1>2, ListsAre, ClosedIsPaired
<1>4. NoLater(t, a, b)
  <2> SUFFICES ASSUME NEW j \in 1..Len(t), t[j].role = "tool", t[j].id \in NewIds
               PROVE  t[j].id[1] < a \/ (t[j].id[1] = a /\ t[j].id[2] <= b)
    BY DEF NoLater
  <2>1. PICK k \in 1..Len(s) : s[k].role = "tool" /\ s[k].id = t[j].id
    BY <1>2 DEF Carries, SameResults, Indices
  <2> QED
    BY <2>1 DEF InRound, NoLater
<1> QED
  BY <1>1, <1>2, <1>3, <1>4 DEF InRound, Carries, t

LEMMA RoundBegins ==
    ASSUME NEW h \in Histories, initial = h
    PROVE  \A a, b : InRound(h, {}, a, b)
<1>1. h \in Seq(Lists) /\ WellPaired(h) /\ Asks(h, Marks)
  BY HistoryIs
<1>2. OpenPaired(h, {})
  BY <1>1, ListsAre, ClosedIsPaired
<1>3. \A a, b : NoLater(h, a, b)
  BY HistoryIs DEF NoLater, Indices
<1> QED
  BY <1>1, <1>2, <1>3 DEF InRound

\* The list the turn started from is in front.
Prefixed(s) ==
    /\ Len(initial) <= Len(s)
    /\ \A i \in 1..Len(initial) : i \in 1..Len(s) /\ s[i] = initial[i]

LEMMA FallsBack ==
    ASSUME TurnTypes, Prefixed(messages), Fallback
    PROVE  messages' = initial
<1>1. messages \in Seq(Lists) /\ initial \in Seq(Lists)
  BY HistoryIs DEF TurnTypes
<1>2. /\ Len(messages) \in Nat /\ Len(initial) \in Nat
      /\ \A i \in 1..Len(messages) : messages[i] \in Lists
  BY <1>1, SeqElements
<1> DEFINE T == {Len(messages), Len(initial)}
           b == Min(T)
<1>3. T \in SUBSET Nat /\ T # {}
  BY <1>2
<1>4. b \in T /\ \A x \in T : b <= x
  <2> HIDE DEF T
  <2> QED
    BY <1>3, MinIs
<1>5. b = Len(initial)
  BY <1>2, <1>4 DEF Prefixed
<1>6. messages' = SubSeq(messages, 1, Len(initial))
  BY <1>5 DEF Fallback
<1> HIDE DEF T, b
<1> DEFINE n == Len(initial)
           t == SubSeq(messages, 1, n)
<1>7. n \in Int /\ 1 \in Int /\ \A i \in 1..n : messages[i] \in Lists
  BY <1>2 DEF Prefixed
<1> HIDE DEF n
<1>8. /\ t \in Seq(Lists) /\ Len(t) = (IF 1 <= n THEN n - 1 + 1 ELSE 0)
      /\ \A i \in 1..(n - 1 + 1) : t[i] = messages[1 + i - 1]
  BY <1>7, SubSeqProperties
<1>9. Len(t) = Len(initial) /\ \A i \in 1..Len(initial) : t[i] = initial[i]
  <2>1. n = Len(initial) /\ n \in Nat
    BY <1>2 DEF n
  <2> HIDE DEF t
  <2>2. Len(t) = n
    BY <1>8, <2>1
  <2>3. \A i \in 1..n : t[i] = messages[i]
    BY <1>8, <2>1
  <2> QED
    BY <2>1, <2>2, <2>3 DEF Prefixed
<1> HIDE DEF t
<1>10. t = initial
  <2> DEFINE M == Lists
  <2> HIDE DEF M
  <2>1. t \in Seq(M) /\ initial \in Seq(M)
    BY <1>1, <1>8 DEF M
  <2> QED
    BY <1>9, <2>1, SeqEqual
<1> QED
  BY <1>6, <1>10 DEF t, n

LEMMA MadeIs ==
    /\ \A role, word : /\ Plain(role, word).role = role
                       /\ Plain(role, word).labels = {word} /\ ~ HasCalls(Plain(role, word))
    /\ \A c, n, word : /\ Result(c, n, word).role = "tool" /\ Result(c, n, word).id = c
                       /\ ~ HasCalls(Result(c, n, word))
BY DEF Plain, Result, Message, HasCalls

LEMMA ShapeStep ==
    ASSUME TurnTypes, Due, Shape, ~ cut => Prefixed(messages), [Next]_vars
    PROVE  Shape'
<1>1. messages \in Seq(Lists) /\ attempt \in Nat /\ round \in Nat /\ initial \in Histories
  BY TurnAssumption DEF TurnTypes
<1>2. SUFFICES ASSUME Sane'
               PROVE  /\ InRound(messages, Pending, attempt, round)'
                      /\ (pc = "model" => NoLater(messages, attempt, round - 1))'
  BY DEF Shape
<1>3. CASE UNCHANGED <<messages, todo, attempt, round, initial, cut>> /\ pc' # "model"
  <2>1. Sane
    BY <1>2, <1>3 DEF Sane
  <2> QED
    BY <1>3, <2>1 DEF Shape, InRound, Pending
<1>4. CASE UNCHANGED vars \/ RequestYield
  <2>1. UNCHANGED <<pc, messages, todo, attempt, round, initial, cut>>
    BY <1>4 DEF vars, turnVars, histVars, RequestYield
  <2>2. Sane
    BY <1>2, <2>1 DEF Sane
  <2> QED
    BY <2>1, <2>2 DEF Shape, InRound, Pending
<1>5. CASE StopEarly \/ Fail \/ StoreNew
  BY <1>3, <1>5 DEF StopEarly, Fail, StoreNew, turnVars, histVars
<1>6. CASE CallModel
  <2>1. /\ UNCHANGED <<messages, todo, attempt, initial, cut>> /\ round' = round + 1
    BY <1>6 DEF CallModel, histVars
  <2>2. Sane
    BY <1>2, <2>1 DEF Sane
  <2>3. /\ InRound(messages, Pending, attempt, round + 1)
        /\ NoLater(messages, attempt, (round + 1) - 1)
    <3>1. (round + 1) - 1 = round
      BY <1>1
    <3> QED
      BY <1>1, <2>2, <3>1, RoundRuns DEF Shape, InRound
  <2> QED
    BY <2>1, <2>3 DEF InRound, Pending
<1>7. ASSUME pc = "model" \/ pc # "tools", UNCHANGED <<todo, attempt, round, initial, cut>>
      PROVE  Sane /\ Pending = {} /\ Pending' = {} /\ InRound(messages, {}, attempt, round)
  <2>1. todo = <<>> /\ todo' = todo
    BY <1>7 DEF Due
  <2>2. Pending = {}
    BY <2>1, NothingDue
  <2>3. Sane
    BY <1>2, <1>7 DEF Sane
  <2> QED
    BY <2>1, <2>2, <2>3 DEF Shape, Pending
<1>8. ASSUME NEW m, m \in {Plain("assistant", "malformed"), Plain("assistant", "ungrounded"),
                           Plain("system", "nudge"), Plain("system", "redirect"),
                           Plain("assistant", "answer"), Plain("assistant", "empty")},
             pc = "model", UNCHANGED <<todo, attempt, round, initial, cut>>
      PROVE  m \in Lists /\ InRound(Append(messages, m), {}, attempt, round)
  <2>1. m \in Lists /\ m.role \in {"assistant", "system"} /\ ~ HasCalls(m)
    BY <1>8, PlainTypes, MadeIs
  <2> QED
    BY <1>1, <1>7, <1>8, <2>1, RoundOther
<1>9. ASSUME NEW m, NEW n,
             m \in {Plain("assistant", "malformed"), Plain("assistant", "ungrounded")},
             n \in {Plain("user", "retry"), Plain("system", "correction")},
             pc = "model", Retry(m, n)
      PROVE  InRound(messages, Pending, attempt, round)' /\ pc' # "model"
  <2>0. /\ pc' = "top" /\ messages' = messages \o <<m, n>>
        /\ UNCHANGED <<todo, attempt, round, initial, cut>>
    BY <1>9 DEF Retry, turnVars, histVars
  <2>1. m \in Lists /\ InRound(Append(messages, m), {}, attempt, round)
    BY <1>8, <1>9, <2>0
  <2>2. n \in Lists /\ n.role # "tool" /\ ~ HasCalls(n)
    BY <1>9, PlainTypes, MadeIs
  <2>3. n.role # "user" \/ n = Plain("user", "retry")
    BY <1>9, MadeIs
  <2>4. Append(messages, m) \in Seq(Lists)
    BY <1>1, <2>1, PushTypes
  <2>5. InRound(Append(Append(messages, m), n), {}, attempt, round)
    BY <2>1, <2>2, <2>3, <2>4, RoundOther
  <2>6. messages' = Append(Append(messages, m), n)
    BY <1>1, <2>0, <2>1, <2>2, PushedTwo
  <2> QED
    BY <1>7, <1>9, <2>0, <2>5, <2>6 DEF InRound
<1>10. CASE RetryMalformed
  <2>1. pc = "model" /\ Retry(Plain("assistant", "malformed"), Plain("user", "retry"))
    BY <1>10 DEF RetryMalformed
  <2> QED
    BY <1>9, <2>1
<1>11. CASE RetryUngrounded
  <2>1. pc = "model" /\ Retry(Plain("assistant", "ungrounded"), Plain("system", "correction"))
    BY <1>11 DEF RetryUngrounded
  <2> QED
    BY <1>9, <2>1
<1>12. CASE RetryEmpty
  <2>1. messages' = Append(messages, Plain("system", "nudge")) /\ pc = "model" /\ pc' = "top"
        /\ UNCHANGED <<todo, attempt, round, initial, cut>>
    BY <1>12 DEF RetryEmpty, Push, turnVars, histVars
  <2> QED
    BY <1>7, <1>8, <2>1 DEF InRound
<1>13. CASE Answer
  <2>1. PICK m \in {Plain("assistant", "answer"), Plain("assistant", "empty")} :
           messages' = Append(messages, m)
    BY <1>13 DEF Answer, Push
  <2>2. pc = "model" /\ pc' = "ended" /\ UNCHANGED <<todo, attempt, round, initial, cut>>
    BY <1>13 DEF Answer, turnVars, histVars
  <2> QED
    BY <1>7, <1>8, <2>1, <2>2 DEF InRound
<1>14. ASSUME NEW batch \in Batches, StopRepetition(batch)
       PROVE  InRound(messages, Pending, attempt, round)' /\ pc' # "model"
  <2>1. /\ pc = "model" /\ pc' # "model" /\ UNCHANGED <<todo, attempt, round, initial, cut>>
        /\ messages' = messages \/ messages' = Append(messages, Plain("system", "redirect"))
    BY <1>14 DEF StopRepetition, Push, histVars
  <2> QED
    BY <1>7, <1>8, <2>1 DEF InRound
<1>15. ASSUME NEW batch \in Batches, StartTools(batch)
       PROVE  InRound(messages, Pending, attempt, round)' /\ pc' # "model"
  <2> DEFINE calls == CallsOf(batch)
             m == CallMessage(calls)
  <2>1. /\ pc = "model" /\ pc' # "model" /\ UNCHANGED <<attempt, round, initial, cut>>
        /\ todo' = calls /\ messages' = Append(messages, m)
    BY <1>15 DEF StartTools, Push, histVars
  <2>2. round > 0
    BY <2>1 DEF TurnTypes
  <2>3. /\ \A k \in 1..Len(calls) : calls[k].id = <<attempt, round, k>> /\ calls[k].id \in NewIds
        /\ m \in Lists /\ HasCalls(m) /\ ToSet(m.calls) = {calls[k].id : k \in 1..Len(calls)}
    BY <2>2, CallsAre DEF Indices
  <2> HIDE DEF calls, m
  <2>4. \A c \in ToSet(m.calls) : c \in NewIds /\ c[1] = attempt /\ c[2] = round
    BY <2>3
  <2>5. Sane /\ InRound(messages, {}, attempt, round) /\ NoLater(messages, attempt, round - 1)
    <3>1. todo = <<>>
      BY <2>1 DEF Due
    <3>2. Sane
      BY <1>2, <2>1 DEF Sane
    <3> QED
      BY <2>1, <3>1, <3>2, NothingDue DEF Shape
  <2>6. InRound(Append(messages, m), ToSet(m.calls), attempt, round)
    BY <1>1, <2>3, <2>4, <2>5, RoundCalls
  <2>7. Pending' = ToSet(m.calls)
    BY <2>1, <2>3 DEF Pending
  <2> QED
    BY <2>1, <2>6, <2>7 DEF InRound
<1>16. ASSUME NEW batch \in Batches, RunPlan(batch)
       PROVE  InRound(messages, Pending, attempt, round)' /\ pc' # "model"
  <2> DEFINE calls == CallsOf(batch)
             m == CallMessage(calls)
  <2>1. /\ pc = "model" /\ pc' # "model" /\ batch = <<Plan>>
        /\ UNCHANGED <<todo, attempt, round, initial, cut>>
    BY <1>16 DEF RunPlan
  <2>2. PICK size \in ResultSizes :
           messages' = messages \o <<m, Result(calls[1].id, size, "result")>>
    BY <1>16 DEF RunPlan
  <2>3. round > 0 /\ Len(batch) = 1
    BY <2>1 DEF TurnTypes
  <2>4. /\ \A k \in 1..Len(calls) : calls[k].id = <<attempt, round, k>> /\ calls[k].id \in NewIds
        /\ m \in Lists /\ HasCalls(m) /\ ToSet(m.calls) = {calls[k].id : k \in 1..Len(calls)}
        /\ Len(calls) = 1
    BY <2>3, CallsAre DEF Indices
  <2> HIDE DEF calls, m
  <2> DEFINE c == calls[1].id
             n == Result(c, size, "result")
  <2>5. c \in NewIds /\ c[1] = attempt /\ c[2] = round /\ ToSet(m.calls) = {c}
    BY <2>4
  <2>6. n \in Lists /\ n.role = "tool" /\ n.id = c
    BY <2>5, PlainTypes, MadeIs, TurnAssumption
  <2> HIDE DEF c
  <2>7. Sane /\ InRound(messages, {}, attempt, round) /\ NoLater(messages, attempt, round - 1)
    BY <1>7, <2>1 DEF Shape
  <2>8. InRound(Append(messages, m), ToSet(m.calls), attempt, round)
    BY <1>1, <2>4, <2>5, <2>7, RoundCalls
  <2>9. Append(messages, m) \in Seq(Lists)
    BY <1>1, <2>4, PushTypes
  <2>10. messages' = Append(Append(messages, m), n)
    BY <1>1, <2>2, <2>4, <2>6, PushedTwo DEF c
  <2> HIDE DEF n
  <2>11. InRound(messages', {c} \ {c}, attempt, round)
    BY <1>1, <2>5, <2>6, <2>8, <2>9, <2>10, RoundResult
  <2> QED
    BY <1>7, <2>1, <2>11 DEF InRound
<1>17. ASSUME ToolStep, NEW n, n \in Lists, n.role = "tool", n.id = Head(todo).id
       PROVE  /\ Append(messages, n) \in Seq(Lists)
              /\ InRound(Append(messages, n), Pending', attempt, round)
              /\ UNCHANGED <<pc, attempt, round, initial, cut>> /\ pc' # "model"
  <2>1. UNCHANGED <<pc, attempt, round, initial, cut>> /\ pc = "tools" /\ todo # <<>>
        /\ todo' = Tail(todo)
    BY <1>17 DEF ToolStep
  <2>2. Sane
    BY <1>2, <2>1 DEF Sane
  <2>3. /\ Pending' = Pending \ {n.id} /\ n.id \in Pending
        /\ n.id[1] = attempt /\ n.id[2] = round
    BY <1>17, <2>1, DueTaken
  <2> QED
    BY <1>1, <1>17, <2>1, <2>2, <2>3, RoundResult, PushTypes DEF Shape
<1>18. CASE BlockTool
  <2>1. ToolStep /\ messages' = Append(messages, Result(Head(todo).id, 1, "blocked")) /\ todo # <<>>
    BY <1>18 DEF BlockTool, ToolStep, Push
  <2>2. Head(todo).id \in NewIds
    BY <2>1, NextTodo
  <2> QED
    BY <1>17, <2>1, <2>2, PlainTypes, MadeIs DEF InRound
<1>19. CASE DenyTool
  <2>1. ToolStep /\ messages' = Append(messages, Result(Head(todo).id, 1, "denied")) /\ todo # <<>>
    BY <1>19 DEF DenyTool, ToolStep, Push
  <2>2. Head(todo).id \in NewIds
    BY <2>1, NextTodo
  <2> QED
    BY <1>17, <2>1, <2>2, PlainTypes, MadeIs DEF InRound
<1>20. CASE RunTool
  <2> DEFINE call == Head(todo)
  <2>1. ToolStep /\ todo # <<>>
    BY <1>20 DEF RunTool, ToolStep
  <2>2. PICK ok \in BOOLEAN, size \in ResultSizes :
           messages' = messages \o <<Result(call.id, size, "result")>> \o
                (IF ~ ok /\ fails[call.tool] + 1 >= Nudge
                 THEN <<Plain("system", "nudge")>> ELSE <<>>)
    BY <1>20 DEF RunTool
  <2> DEFINE n == Result(call.id, size, "result")
             o == Plain("system", "nudge")
  <2>3. n \in Lists /\ n.role = "tool" /\ n.id = call.id
    BY <2>1, NextTodo, PlainTypes, MadeIs, TurnAssumption
  <2>4. o \in Lists /\ o.role = "system" /\ ~ HasCalls(o)
    BY PlainTypes, MadeIs
  <2>5. messages' = Append(messages, n) \/ messages' = Append(Append(messages, n), o)
    BY <1>1, <2>2, <2>3, <2>4, PushedTwo
  <2> HIDE DEF n, o, call
  <2>6. /\ Append(messages, n) \in Seq(Lists)
        /\ InRound(Append(messages, n), Pending', attempt, round)
        /\ UNCHANGED <<pc, attempt, round, initial, cut>> /\ pc' # "model"
    BY <1>17, <2>1, <2>3 DEF call
  <2>7. InRound(Append(Append(messages, n), o), Pending', attempt, round)
    BY <2>4, <2>6, RoundOther
  <2> QED
    BY <2>5, <2>6, <2>7 DEF InRound
<1>21. CASE EndRound
  <2>1. /\ messages' = TruncateMidLoop(messages, Window) /\ todo = <<>> /\ pc' = "top"
        /\ UNCHANGED <<todo, round, attempt, initial>> /\ cut' = (cut \/ messages' # messages)
    BY <1>21 DEF EndRound, turnVars
  <2>2. Sane
    BY <1>2, <2>1 DEF Sane
  <2>3. Pending = {} /\ Pending' = {}
    BY <2>1, NothingDue DEF Pending
  <2>4. InRound(TruncateMidLoop(messages, Window), {}, attempt, round)
    BY <1>1, <2>2, <2>3, RoundTruncated DEF Shape
  <2> QED
    BY <2>1, <2>3, <2>4 DEF InRound
<1>22. CASE Fallback
  <2>1. /\ todo' = <<>> /\ pc' = "top" /\ attempt' = attempt + 1
        /\ UNCHANGED <<initial, cut>>
    BY <1>22 DEF Fallback, histVars
  <2>2. ~ cut
    BY <1>1, <1>2, <2>1 DEF Sane
  <2>3. messages' = initial
    BY <1>22, <2>2, FallsBack
  <2>4. Pending' = {}
    <3>1. 1..Len(todo') = {}
      BY <2>1, SMT
    <3> QED
      BY <3>1 DEF Pending
  <2> QED
    BY <1>1, <2>1, <2>3, <2>4, RoundBegins DEF InRound
<1> QED
  BY <1>4, <1>5, <1>6, <1>10, <1>11, <1>12, <1>13, <1>14, <1>15, <1>16, <1>18, <1>19,
     <1>20, <1>21, <1>22 DEF Next, TurnNext

-----------------------------------------------------------------------------
(* What an uncut turn keeps *)

\* The call and the result of a tool that was run stand behind the initial list.
RunOf(s, c) ==
    \E i, j \in (Len(initial) + 1)..Len(s) :
        /\ HasCalls(s[i]) /\ c \in ToSet(s[i].calls)
        /\ s[j].role = "tool" /\ s[j].id = c

Behind(s, R) ==
    /\ Prefixed(s)
    /\ \A i \in (Len(initial) + 1)..Len(s) : HasCalls(s[i]) => s[i].labels # {"empty"}
    /\ \A c \in R : RunOf(s, c)

Mine == {c \in ran : c[1] = attempt}

Kept ==
    /\ \A c \in ran : c[1] <= attempt
    /\ ~ cut => Behind(messages, Mine)

LEMMA PushBehind ==
    ASSUME initial \in Histories, NEW s \in Seq(Lists), NEW m, NEW r, Extended(r, s, m), NEW R,
           Behind(s, R), HasCalls(m) => m.labels # {"empty"}
    PROVE  Behind(r, R)
<1>1. Len(s) \in Nat /\ Len(initial) \in Nat
  BY HistoryIs, ListsAre, Typed
<1>2. \A i \in (Len(initial) + 1)..Len(s) :
        i \in 1..Len(s) /\ i \in (Len(initial) + 1)..Len(r) /\ r[i] = s[i]
  BY <1>1 DEF Extended
<1>3. Prefixed(r)
  BY <1>1 DEF Behind, Prefixed, Extended
<1>4. ASSUME NEW i \in (Len(initial) + 1)..Len(r), HasCalls(r[i]) PROVE r[i].labels # {"empty"}
  <2>1. i \in (Len(initial) + 1)..Len(s) \/ i = Len(s) + 1
    BY <1>1 DEF Extended
  <2> QED
    BY <1>2, <1>4, <2>1 DEF Behind, Extended
<1>5. \A c \in R : RunOf(r, c)
  BY <1>2 DEF Behind, RunOf
<1> QED
  BY <1>3, <1>4, <1>5 DEF Behind

LEMMA PushRun ==
    ASSUME initial \in Histories, NEW s \in Seq(Lists), NEW m, NEW r, Extended(r, s, m), NEW R,
           Behind(s, R), m.role = "tool",
           NEW i \in (Len(initial) + 1)..Len(s), HasCalls(s[i]), m.id \in ToSet(s[i].calls)
    PROVE  Behind(r, R \cup {m.id})
<1>1. Len(s) \in Nat /\ Len(initial) \in Nat
  BY HistoryIs, ListsAre, Typed
<1>2. Behind(r, R)
  BY PushBehind DEF HasCalls
<1>3. i \in (Len(initial) + 1)..Len(r) /\ r[i] = s[i]
  BY <1>1 DEF Extended
<1>4. Len(s) + 1 \in (Len(initial) + 1)..Len(r) /\ r[Len(s) + 1] = m
  BY <1>1 DEF Extended
<1>5. RunOf(r, m.id)
  BY <1>3, <1>4 DEF RunOf
<1> QED
  BY <1>2, <1>5 DEF Behind

\* The history answers its own calls, so what has no answer was called behind it.
LEMMA CalledBehind ==
    ASSUME initial \in Histories, NEW s \in Seq(Lists), Prefixed(s), NEW i \in 1..Len(s),
           HasCalls(s[i]), NEW c \in ToSet(s[i].calls),
           \A j \in 1..Len(initial) : s[j].role = "tool" => s[j].id # c
    PROVE  i \in (Len(initial) + 1)..Len(s)
<1>1. Len(s) \in Nat /\ Len(initial) \in Nat
  BY HistoryIs, ListsAre, Typed
<1>2. SUFFICES ASSUME i \in 1..Len(initial) PROVE FALSE
  BY <1>1
<1>3. HasCalls(initial[i]) /\ c \in ToSet(initial[i].calls)
  BY <1>2 DEF Prefixed
<1>4. WellPaired(initial)
  BY HistoryIs
<1>5. PICK j \in (i + 1)..Len(initial) : Answers(initial, i, j) /\ initial[j].id = c
  BY <1>2, <1>3, <1>4 DEF WellPaired, Indices
<1>6. j \in 1..Len(initial) /\ s[j] = initial[j] /\ initial[j].role = "tool"
  BY <1>1, <1>2, <1>5 DEF Prefixed, Answers
<1> QED
  BY <1>5, <1>6

LEMMA AwaitedBehind ==
    ASSUME initial \in Histories, NEW s \in Seq(Lists), Prefixed(s), NEW ids, NEW c \in ids,
           OpenPaired(s, ids)
    PROVE  \E i \in (Len(initial) + 1)..Len(s) : HasCalls(s[i]) /\ c \in ToSet(s[i].calls)
<1>1. PICK i \in 1..Len(s) : HasCalls(s[i]) /\ c \in ToSet(s[i].calls)
  BY DEF OpenPaired, Awaiting, Indices
<1>2. \A j \in 1..Len(initial) : s[j].role = "tool" => s[j].id # c
  BY DEF OpenPaired, Awaiting, Indices, Prefixed
<1>3. i \in (Len(initial) + 1)..Len(s)
  BY <1>1, <1>2, CalledBehind
<1> QED
  BY <1>1, <1>3

LEMMA BeginsBehind ==
    ASSUME initial \in Histories
    PROVE  Behind(initial, {})
<1>1. Len(initial) \in Nat
  BY HistoryIs, ListsAre, Typed
<1> QED
  BY <1>1 DEF Behind, Prefixed

LEMMA KeptStep ==
    ASSUME TurnTypes, Due, Shape, Kept, [Next]_vars
    PROVE  Kept'
<1>1. /\ messages \in Seq(Lists) /\ attempt \in Nat /\ round \in Nat /\ initial \in Histories
      /\ \A c \in ran : c \in NewIds
  BY TurnAssumption DEF TurnTypes
<1>2. ASSUME UNCHANGED <<ran, attempt, initial>>, cut' \/ cut' = cut,
             ~ cut' => messages' = messages \/ Behind(messages', Mine)
      PROVE  Kept'
  <2>1. \A c \in ran' : c[1] <= attempt'
    BY <1>2 DEF Kept
  <2>2. ASSUME ~ cut' PROVE Behind(messages, Mine)'
    <3>1. Behind(messages', Mine)
      BY <1>2, <2>2 DEF Kept
    <3> QED
      BY <1>2, <3>1 DEF Behind, Prefixed, RunOf, Mine
  <2> QED
    BY <2>1, <2>2 DEF Kept
<1>3. CASE UNCHANGED vars \/ RequestYield
  BY <1>2, <1>3 DEF vars, turnVars, histVars, RequestYield
<1>4. CASE StopEarly \/ Fail \/ StoreNew \/ CallModel
  BY <1>2, <1>4 DEF StopEarly, Fail, StoreNew, CallModel, turnVars, histVars
<1>5. ASSUME NEW m \in Lists, HasCalls(m) => m.labels # {"empty"}, ~ cut
      PROVE  Behind(Append(messages, m), Mine) /\ Append(messages, m) \in Seq(Lists)
  BY <1>1, <1>5, ListsAre, Appended, PushBehind DEF Kept
<1>6. ASSUME NEW m \in Lists, ~ HasCalls(m), NEW n \in Lists, ~ HasCalls(n), ~ cut
      PROVE  Behind(messages \o <<m, n>>, Mine)
  <2>1. Behind(Append(messages, m), Mine) /\ Append(messages, m) \in Seq(Lists)
    BY <1>5, <1>6
  <2>2. Behind(Append(Append(messages, m), n), Mine)
    BY <1>1, <1>6, <2>1, ListsAre, Appended, PushBehind
  <2> QED
    BY <1>1, <1>6, <2>2, PushedTwo
<1>7. CASE RetryMalformed
  BY <1>2, <1>6, <1>7, PlainTypes, MadeIs DEF RetryMalformed, Retry, turnVars, histVars
<1>8. CASE RetryUngrounded
  BY <1>2, <1>6, <1>8, PlainTypes, MadeIs DEF RetryUngrounded, Retry, turnVars, histVars
<1>9. CASE RetryEmpty
  BY <1>2, <1>5, <1>9, PlainTypes, MadeIs DEF RetryEmpty, Push, turnVars, histVars
<1>10. CASE Answer
  <2>1. UNCHANGED <<attempt, ran, initial, cut>>
    BY <1>10 DEF Answer, histVars
  <2>2. \/ messages' = Append(messages, Plain("assistant", "answer"))
        \/ messages' = Append(messages, Plain("assistant", "empty"))
    BY <1>10 DEF Answer, Push
  <2> QED
    BY <1>2, <1>5, <2>1, <2>2, PlainTypes, MadeIs
<1>11. ASSUME NEW batch \in Batches, StopRepetition(batch) PROVE Kept'
  <2>1. /\ UNCHANGED <<attempt, ran, initial, cut>>
        /\ messages' = messages \/ messages' = Append(messages, Plain("system", "redirect"))
    BY <1>11 DEF StopRepetition, Push, histVars
  <2> QED
    BY <1>2, <1>5, <2>1, PlainTypes, MadeIs
<1>12. ASSUME NEW batch \in Batches, StartTools(batch) PROVE Kept'
  <2> DEFINE m == CallMessage(CallsOf(batch))
  <2>1. UNCHANGED <<attempt, ran, initial, cut>> /\ messages' = Append(messages, m) /\ round > 0
    BY <1>12 DEF StartTools, Push, histVars, TurnTypes
  <2>2. m \in Lists /\ m.labels = {"calls"}
    BY <2>1, CallsAre
  <2> HIDE DEF m
  <2> QED
    BY <1>2, <1>5, <2>1, <2>2
<1>13. ASSUME UNCHANGED <<attempt, initial, cut>>, NEW c \in NewIds, c[1] = attempt,
              ran' = ran \cup {c}, ~ cut => Behind(messages', Mine \cup {c})
       PROVE  Kept'
  <2>1. \A d \in ran' : d[1] <= attempt'
    BY <1>1, <1>13 DEF Kept
  <2>2. Mine' = Mine \cup {c}
    BY <1>13 DEF Mine
  <2>3. ASSUME ~ cut PROVE Behind(messages, Mine)'
    <3>1. Behind(messages', Mine')
      BY <1>13, <2>2, <2>3
    <3> QED
      BY <1>13, <3>1 DEF Behind, Prefixed, RunOf
  <2> QED
    BY <1>13, <2>1, <2>3 DEF Kept
<1>14. ASSUME NEW batch \in Batches, RunPlan(batch) PROVE Kept'
  <2> DEFINE calls == CallsOf(batch)
             m == CallMessage(calls)
  <2>1. pc = "model" /\ batch = <<Plan>> /\ UNCHANGED <<attempt, initial, cut>>
    BY <1>14 DEF RunPlan
  <2>2. PICK size \in ResultSizes :
           messages' = messages \o <<m, Result(calls[1].id, size, "result")>>
    BY <1>14 DEF RunPlan
  <2>3. round > 0 /\ Len(batch) = 1 /\ ran' = ran \cup {calls[1].id}
    BY <1>14, <2>1 DEF TurnTypes, RunPlan
  <2>4. /\ \A k \in 1..Len(calls) : calls[k].id = <<attempt, round, k>> /\ calls[k].id \in NewIds
        /\ m \in Lists /\ HasCalls(m) /\ ToSet(m.calls) = {calls[k].id : k \in 1..Len(calls)}
        /\ m.labels = {"calls"} /\ Len(calls) = 1
    BY <2>3, CallsAre DEF Indices
  <2> HIDE DEF calls, m
  <2> DEFINE c == calls[1].id
             n == Result(c, size, "result")
             s == Append(messages, m)
  <2>5. c \in NewIds /\ c[1] = attempt /\ c \in ToSet(m.calls)
    BY <2>4
  <2>6. n \in Lists /\ n.role = "tool" /\ n.id = c
    BY <2>5, PlainTypes, MadeIs, TurnAssumption
  <2>7. messages' = Append(s, n)
    BY <1>1, <2>2, <2>4, <2>6, PushedTwo
  <2> HIDE DEF c, n
  <2>8. ASSUME ~ cut PROVE Behind(messages', Mine \cup {c})
    <3>1. Behind(s, Mine) /\ s \in Seq(Lists) /\ Extended(s, messages, m)
      BY <1>1, <1>5, <2>4, <2>8, ListsAre, Appended
    <3> HIDE DEF s
    <3>2. Extended(Append(s, n), s, n)
      BY <2>6, <3>1, ListsAre, Appended
    <3>3. Len(messages) \in Nat /\ Len(initial) \in Nat
      BY <1>1, HistoryIs, ListsAre, Typed
    <3>4. Len(messages) + 1 \in (Len(initial) + 1)..Len(s) /\ s[Len(messages) + 1] = m
      <4>1. Len(initial) <= Len(messages)
        BY <2>8 DEF Kept, Behind, Prefixed
      <4> QED
        BY <3>1, <3>3, <4>1 DEF Extended
    <3> QED
      BY <1>1, <2>4, <2>5, <2>6, <2>7, <3>1, <3>2, <3>4, PushRun
  <2> QED
    BY <1>13, <2>1, <2>3, <2>5, <2>8 DEF c
<1>15. ASSUME ToolStep, NEW n, n \in Lists, n.role = "tool", n.id = Head(todo).id, ~ cut
       PROVE  /\ Append(messages, n) \in Seq(Lists)
              /\ Behind(Append(messages, n), Mine \cup {n.id})
  <2>1. todo # <<>> /\ todo' = Tail(todo) /\ pc' = pc /\ pc = "tools"
        /\ UNCHANGED <<round, attempt>>
    BY <1>15 DEF ToolStep
  <2>2. Sane
    BY <1>15 DEF Sane
  <2>3. OpenPaired(messages, Pending) /\ n.id \in Pending
    BY <1>15, <2>1, <2>2, DueTaken DEF Shape, InRound
  <2>4. PICK i \in (Len(initial) + 1)..Len(messages) :
             HasCalls(messages[i]) /\ n.id \in ToSet(messages[i].calls)
    BY <1>1, <1>15, <2>3, AwaitedBehind DEF Kept, Behind
  <2>5. Append(messages, n) \in Seq(Lists) /\ Extended(Append(messages, n), messages, n)
    BY <1>1, <1>15, ListsAre, Appended
  <2> QED
    BY <1>1, <1>15, <2>4, <2>5, PushRun DEF Kept
<1>16. CASE BlockTool \/ DenyTool
  <2>1. ToolStep /\ todo # <<>> /\ UNCHANGED <<attempt, ran, initial, cut>>
    BY <1>16 DEF BlockTool, DenyTool, ToolStep
  <2>2. PICK word \in {"blocked", "denied"} :
           messages' = Append(messages, Result(Head(todo).id, 1, word))
    BY <1>16 DEF BlockTool, DenyTool, Push
  <2>3. Result(Head(todo).id, 1, word) \in Lists /\ ~ HasCalls(Result(Head(todo).id, 1, word))
    BY <2>1, NextTodo, PlainTypes, MadeIs
  <2> QED
    BY <1>2, <1>5, <2>1, <2>2, <2>3
<1>17. CASE RunTool
  <2> DEFINE c == Head(todo).id
  <2>1. ToolStep /\ todo # <<>> /\ UNCHANGED <<attempt, initial, cut>> /\ ran' = ran \cup {c}
        /\ todo' = Tail(todo) /\ pc' = pc /\ pc = "tools" /\ round' = round
    BY <1>17 DEF RunTool, ToolStep
  <2>2. PICK ok \in BOOLEAN, size \in ResultSizes :
           messages' = messages \o <<Result(c, size, "result")>> \o
                (IF ~ ok /\ fails[Head(todo).tool] + 1 >= Nudge
                 THEN <<Plain("system", "nudge")>> ELSE <<>>)
    BY <1>17 DEF RunTool
  <2> DEFINE n == Result(c, size, "result")
             o == Plain("system", "nudge")
  <2>3. c \in NewIds /\ c[1] = attempt
    BY <2>1, NextTodo, DueTaken
  <2>4. n \in Lists /\ n.role = "tool" /\ n.id = c
    BY <2>3, PlainTypes, MadeIs, TurnAssumption
  <2>5. o \in Lists /\ ~ HasCalls(o)
    BY PlainTypes, MadeIs
  <2>6. messages' = Append(messages, n) \/ messages' = Append(Append(messages, n), o)
    BY <1>1, <2>2, <2>4, <2>5, PushedTwo
  <2> HIDE DEF n, o
  <2>7. ASSUME ~ cut PROVE Behind(messages', Mine \cup {c})
    <3>1. Append(messages, n) \in Seq(Lists) /\ Behind(Append(messages, n), Mine \cup {c})
      BY <1>15, <2>1, <2>4, <2>7
    <3>2. Behind(Append(Append(messages, n), o), Mine \cup {c})
      <4> DEFINE s == Append(messages, n)
      <4> HIDE DEF s
      <4>1. Extended(Append(s, o), s, o)
        BY <2>5, <3>1, ListsAre, Appended DEF s
      <4>2. Behind(s, Mine \cup {c}) /\ s \in Seq(Lists)
        BY <3>1 DEF s
      <4>3. Behind(Append(s, o), Mine \cup {c})
        BY <1>1, <2>5, <4>1, <4>2, PushBehind
      <4> QED
        BY <4>3 DEF s
    <3> QED
      BY <2>6, <3>1, <3>2
  <2> HIDE DEF c
  <2> QED
    BY <1>13, <2>1, <2>3, <2>7
<1>18. CASE EndRound
  <2>1. UNCHANGED <<attempt, ran, initial>> /\ cut' = (cut \/ messages' # messages)
    BY <1>18 DEF EndRound
  <2>2. /\ cut' \/ cut' = cut
        /\ ~ cut' => messages' = messages
    BY <2>1, <1>1 DEF TurnTypes
  <2> QED
    BY <1>2, <2>1, <2>2
<1>19. CASE Fallback
  <2>1. attempt' = attempt + 1 /\ UNCHANGED <<ran, initial, cut>>
    BY <1>19 DEF Fallback
  <2>2. \A c \in ran : c[1] \in Nat /\ c[1] <= attempt
    <3> SUFFICES ASSUME NEW c \in ran PROVE c[1] \in Nat
      BY DEF Kept
    <3>1. PICK x \in Nat, y \in Nat \ {0}, z \in Nat : c = <<x, y, z>>
      BY <1>1 DEF NewIds
    <3> QED
      BY <3>1
  <2>3. Mine' = {} /\ \A c \in ran' : c[1] <= attempt'
    BY <1>1, <2>1, <2>2 DEF Mine
  <2>4. ASSUME ~ cut PROVE Behind(messages, Mine)'
    <3>1. messages' = initial
      BY <1>19, <2>4, FallsBack DEF Kept, Behind
    <3>2. Behind(initial, {})
      BY <1>1, BeginsBehind
    <3> QED
      BY <2>1, <2>3, <3>1, <3>2 DEF Behind, Prefixed, RunOf
  <2> QED
    BY <2>1, <2>3, <2>4 DEF Kept
<1> QED
  BY <1>3, <1>4, <1>7, <1>8, <1>9, <1>10, <1>11, <1>12, <1>14, <1>16, <1>17, <1>18, <1>19
     DEF Next, TurnNext

-----------------------------------------------------------------------------
(* What is stored *)

Saved ==
    /\ pc # "stored" => stored = <<>>
    /\ StoredTogether

\* Storing keeps, of the messages behind the initial list, those worth it.
StoredAt(p) ==
    /\ \A k \in 1..Len(stored') :
         p[k] \in (Len(initial) + 1)..Len(messages) /\ stored'[k] = messages[p[k]]
    /\ \A i \in (Len(initial) + 1)..Len(messages) :
         Worth(messages[i]) => \E k \in 1..Len(stored') : stored'[k] = messages[i]

LEMMA StoresWorth ==
    ASSUME TurnTypes, Prefixed(messages), StoreNew
    PROVE  \E p : StoredAt(p)
<1> DEFINE a == Len(initial) + 1
           b == Len(messages)
           new == SubSeq(messages, a, b)
           I == {i \in Indices(new) : Worth(new[i])}
<1>1. messages \in Seq(Lists) /\ initial \in Seq(Lists)
  BY HistoryIs DEF TurnTypes
<1>2. /\ Len(messages) \in Nat /\ Len(initial) \in Nat /\ Len(initial) <= Len(messages)
      /\ \A i \in 1..Len(messages) : messages[i] \in Lists
  BY <1>1, SeqElements DEF Prefixed
<1>3. /\ a \in Int /\ b \in Int /\ \A i \in a..b : messages[i] \in Lists
      /\ a \in Nat /\ b \in Nat /\ a >= 1 /\ b - a + 1 \in Nat
  BY <1>2
<1>4. stored' = Keep(new, I)
  BY Zenon DEF StoreNew
<1> HIDE DEF a, b
<1>5. /\ new \in Seq(Lists) /\ Len(new) = b - a + 1
      /\ \A i \in 1..(b - a + 1) : new[i] = messages[a + i - 1]
  BY <1>3, SubSeqProperties
<1> HIDE DEF new
<1>6. PICK g : TakenAt(g, stored', new, I)
  BY <1>4, <1>5, KeepTakes
<1> DEFINE p == [k \in 1..Len(stored') |-> a + g[k] - 1]
<1>7. ASSUME NEW k \in 1..Len(stored')
      PROVE  p[k] \in a..b /\ stored'[k] = messages[p[k]]
  <2>1. g[k] \in 1..Len(new) /\ stored'[k] = new[g[k]]
    BY <1>6 DEF TakenAt
  <2>2. p[k] = a + g[k] - 1
    OBVIOUS
  <2>3. a + g[k] - 1 \in a..b
    <3>1. g[k] \in 1..(b - a + 1)
      BY <1>5, <2>1
    <3> HIDE DEF p
    <3> QED
      BY <1>3, <3>1
  <2> QED
    BY <1>5, <2>1, <2>2, <2>3
<1>8. ASSUME NEW i \in a..b, Worth(messages[i])
      PROVE  \E k \in 1..Len(stored') : stored'[k] = messages[i]
  <2>1. PICK j \in 1..Len(new) : a + j - 1 = i
    <3>1. i - a + 1 \in 1..Len(new) /\ a + (i - a + 1) - 1 = i
      BY <1>3, <1>5
    <3> QED
      BY <3>1
  <2>2. new[j] = messages[i]
    BY <1>5, <2>1
  <2>3. j \in I
    BY <1>8, <2>2 DEF Indices
  <2>4. PICK k \in 1..Len(stored') : g[k] = j
    BY <1>6, <2>3 DEF TakenAt
  <2>5. stored'[k] = new[g[k]]
    BY <1>6 DEF TakenAt
  <2> QED
    BY <2>2, <2>4, <2>5
<1> HIDE DEF p
<1>9. StoredAt(p)
  BY <1>7, <1>8 DEF StoredAt, a, b
<1> QED
  BY <1>9

LEMMA StoresTogether ==
    ASSUME TurnTypes, Shape, Kept, StoreNew, ~ cut
    PROVE  (StoredWhole /\ NoStoredOrphan)'
<1>1. messages \in Seq(Lists) /\ initial \in Histories
  BY DEF TurnTypes
<1>2. Behind(messages, Mine) /\ Sane /\ UNCHANGED <<messages, attempt, ran, initial>>
  BY DEF Kept, Sane, StoreNew, histVars
<1>3. PICK p : StoredAt(p)
  BY <1>2, StoresWorth DEF Behind
<1>4. Len(messages) \in Nat /\ Len(initial) \in Nat
  BY <1>1, HistoryIs, ListsAre, Typed
<1>5. ASSUME NEW i \in (Len(initial) + 1)..Len(messages), HasCalls(messages[i]),
             NEW c \in ToSet(messages[i].calls)
      PROVE  c \in CallsIn(stored')
  <2>1. Worth(messages[i])
    BY <1>2, <1>5 DEF Worth, Behind, HasCalls
  <2>2. PICK k \in 1..Len(stored') : stored'[k] = messages[i]
    BY <1>3, <2>1 DEF StoredAt
  <2> QED
    BY <2>2 DEF CallsIn, Indices
<1>6. StoredWhole'
  <2> SUFFICES ASSUME NEW c \in ran, c[1] = attempt
               PROVE  c \in CallsIn(stored') /\ c \in ResultsIn(stored')
    BY <1>2 DEF StoredWhole
  <2>1. PICK i, j \in (Len(initial) + 1)..Len(messages) :
           /\ HasCalls(messages[i]) /\ c \in ToSet(messages[i].calls)
           /\ messages[j].role = "tool" /\ messages[j].id = c
    BY <1>2 DEF Behind, RunOf, Mine
  <2>2. PICK k \in 1..Len(stored') : stored'[k] = messages[j]
    BY <1>3, <2>1 DEF StoredAt, Worth
  <2>3. c \in ResultsIn(stored')
    BY <2>1, <2>2 DEF ResultsIn, Indices
  <2> QED
    BY <1>5, <2>1, <2>3
<1>7. NoStoredOrphan'
  <2> SUFFICES ASSUME NEW k \in 1..Len(stored'), stored'[k].role = "tool"
               PROVE  stored'[k].id \in CallsIn(stored')
    BY DEF NoStoredOrphan, ResultsIn, Indices
  <2> DEFINE j == p[k]
             c == messages[j].id
  <2>1. j \in (Len(initial) + 1)..Len(messages) /\ stored'[k] = messages[j]
    BY <1>3 DEF StoredAt
  <2>2. j \in 1..Len(messages) /\ messages[j].role = "tool"
    BY <1>4, <2>1
  <2> HIDE DEF j
  <2>3. Called(messages) /\ OneAnswer(messages)
    BY <1>2 DEF Shape, InRound, OpenPaired
  <2>4. PICK i \in 1..Len(messages) : HasCalls(messages[i]) /\ c \in ToSet(messages[i].calls)
    BY <2>2, <2>3 DEF Called, Indices
  <2>5. \A l \in 1..Len(initial) : messages[l].role = "tool" => messages[l].id # c
    <3> SUFFICES ASSUME NEW l \in 1..Len(initial), messages[l].role = "tool", messages[l].id = c
                 PROVE  FALSE
      OBVIOUS
    <3>1. l \in 1..Len(messages)
      BY <1>2 DEF Behind, Prefixed
    <3>2. l = j
      BY <2>2, <2>3, <3>1 DEF OneAnswer, Indices
    <3> QED
      BY <1>4, <2>1, <3>2
  <2>6. i \in (Len(initial) + 1)..Len(messages)
    BY <1>1, <1>2, <2>4, <2>5, CalledBehind DEF Behind
  <2> QED
    BY <1>5, <2>1, <2>4, <2>6
<1> QED
  BY <1>6, <1>7

LEMMA NothingStored ==
    ASSUME NEW s, s = <<>>
    PROVE  ResultsIn(s) = {}
<1>1. 1..Len(s) = {}
  BY SMT
<1> QED
  BY <1>1 DEF ResultsIn, Indices

LEMMA SavedStep ==
    ASSUME TurnTypes, Shape, Kept, Saved, [Next]_vars
    PROVE  Saved'
<1>1. CASE UNCHANGED vars
  BY <1>1 DEF Saved, StoredTogether, StoredWhole, NoStoredOrphan, vars, histVars
<1>2. CASE stored' = stored /\ pc # "stored" /\ pc' # "stored"
  <2>1. stored' = <<>>
    BY <1>2 DEF Saved
  <2>2. NoStoredOrphan'
    BY <2>1, NothingStored DEF NoStoredOrphan
  <2> QED
    BY <1>2, <2>1, <2>2 DEF Saved, StoredTogether, StoredWhole
<1>3. CASE StoreNew
  <2>1. pc' = "stored" /\ cut' = cut
    BY <1>3 DEF StoreNew, histVars
  <2> QED
    BY <1>3, <2>1, StoresTogether DEF Saved, StoredTogether
<1>4. CASE RequestYield \/ StopEarly \/ Fail \/ CallModel \/ RetryMalformed \/ RetryUngrounded
           \/ RetryEmpty \/ Answer \/ EndRound \/ Fallback
  BY <1>2, <1>4 DEF RequestYield, StopEarly, Fail, CallModel, RetryMalformed, RetryUngrounded,
                    RetryEmpty, Answer, EndRound, Fallback, Retry
<1>5. CASE \E batch \in Batches : StopRepetition(batch) \/ StartTools(batch) \/ RunPlan(batch)
  BY <1>2, <1>5 DEF StopRepetition, StartTools, RunPlan
<1>6. CASE BlockTool \/ DenyTool \/ RunTool
  <2>1. ToolStep
    BY <1>6 DEF BlockTool, DenyTool, RunTool
  <2> QED
    BY <1>2, <2>1 DEF ToolStep
<1> QED
  BY <1>1, <1>3, <1>4, <1>5, <1>6 DEF Next, TurnNext

-----------------------------------------------------------------------------
(* The invariant and what follows from it *)

TurnInv == TurnTypes /\ Due /\ Shape /\ Kept /\ Saved

LEMMA TurnInvHolds == Spec => []TurnInv
<1>1. Init => TurnInv
  <2> SUFFICES ASSUME Init PROVE TurnInv
    OBVIOUS
  <2>1. TurnTypes
    BY InitTypes
  <2>2. /\ messages = initial /\ initial \in Histories /\ pc = "top" /\ todo = <<>>
        /\ stored = <<>> /\ ran = {} /\ ~ cut
    BY DEF Init
  <2>3. Pending = {}
    BY <2>2, NothingDue
  <2>4. Due
    <3>1. 1..Len(todo) = {}
      BY <2>2, SMT
    <3> QED
      BY <2>2, <3>1 DEF Due
  <2>5. Shape
    BY <2>2, <2>3, RoundBegins DEF Shape
  <2>6. Kept
    <3>1. Mine = {}
      BY <2>2 DEF Mine
    <3> QED
      BY <2>2, <3>1, BeginsBehind DEF Kept
  <2>7. Saved
    BY <2>2, NothingStored DEF Saved, StoredTogether, StoredWhole, NoStoredOrphan
  <2> QED
    BY <2>1, <2>4, <2>5, <2>6, <2>7 DEF TurnInv
<1>2. TurnInv /\ [Next]_vars => TurnInv'
  <2> SUFFICES ASSUME TurnInv, [Next]_vars PROVE TurnInv'
    OBVIOUS
  <2>1. TurnTypes /\ Due /\ Shape /\ Kept /\ Saved
    BY DEF TurnInv
  <2>2. ~ cut => Prefixed(messages)
    BY <2>1 DEF Kept, Behind
  <2> QED
    BY <2>1, <2>2, TypesStep, TodoStep, ShapeStep, KeptStep, SavedStep DEF TurnInv
<1> QED
  BY <1>1, <1>2, PTL DEF Spec

\* Whatever the model answers, the list keeps the form the types give it, and
\* the counters their bounds: max_rounds of run_agent_turn, the providers of a
\* channel.
THEOREM TurnIsTyped == Spec => []TurnTypes
<1>1. TurnInv => TurnTypes
  BY DEF TurnInv
<1> QED
  BY <1>1, TurnInvHolds, PTL

\* run_agent_turn never calls a provider with a call that is not answered or a
\* result that nobody called for, however results, injected messages, repeated
\* and malformed answers and mid-loop truncation follow each other; only what a
\* channel's next provider is given after a truncation is not covered.
THEOREM ListsStayPaired == Spec => []PairsWhenCalled
<1>1. TurnInv => PairsWhenCalled
  <2> SUFFICES ASSUME TurnInv, pc = "model", Sane PROVE WellPaired(messages)
    BY DEF PairsWhenCalled, Sane
  <2>1. todo = <<>> /\ messages \in Seq(Lists)
    BY DEF TurnInv, Due, TurnTypes
  <2>2. OpenPaired(messages, {})
    BY <2>1, NothingDue DEF TurnInv, Shape, InRound
  <2> QED
    BY <2>1, <2>2, ListsAre, ClosedIsPaired
<1> QED
  BY <1>1, TurnInvHolds, PTL

\* Neither the rounds nor truncation take the system prompt or the question
\* away from the model; a retry of a malformed call may stand for the question.
THEOREM QuestionRemains == Spec => []QuestionWhenCalled
<1>1. TurnInv => QuestionWhenCalled
  <2> SUFFICES ASSUME TurnInv, pc = "model", Sane
               PROVE  /\ messages # <<>> /\ messages[1] = initial[1]
                      /\ ~ Holds(messages, "retry") => Holds(messages, "question")
    BY DEF QuestionWhenCalled, Sane
  <2>1. Asks(messages, Marks) /\ messages[1] = initial[1]
    BY DEF TurnInv, Shape, InRound
  <2>2. PICK u \in Indices(messages) : messages[u].labels \cap {"question", "retry"} # {}
    BY <2>1 DEF Asks, LastBears, Marks
  <2>3. "question" \in messages[u].labels \/ "retry" \in messages[u].labels
    BY <2>2
  <2> QED
    BY <2>1, <2>3 DEF Asks, Holds
<1> QED
  BY <1>1, TurnInvHolds, PTL

\* Of a turn that never cut its list, the calls and results of every tool that
\* ran are stored together, and no result without its call: for any number of
\* rounds, tools and providers.
THEOREM TurnIsStoredWhole == Spec => []StoredTogether
<1>1. TurnInv => StoredTogether
  BY DEF TurnInv, Saved
<1> QED
  BY <1>1, TurnInvHolds, PTL
=============================================================================
