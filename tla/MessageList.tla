----------------------------- MODULE MessageList -----------------------------
(***************************************************************************)
(* The messages of a conversation as the agent loop keeps them, and the    *)
(* passes that make a list acceptable to a provider after its front was    *)
(* cut off: sanitize_tool_pairs, normalize_role_alternation and            *)
(* truncate_mid_loop.  A message has a size in tokens; what it says is     *)
(* reduced to a set of labels.                                             *)
(***************************************************************************)
EXTENDS Subsequences, SequencesExt, FiniteSetsExt

NoId == <<>>

\* calls are the ids of an assistant's tool calls, id that of a tool result.
Message(role, calls, id, size, labels) ==
    [role |-> role, calls |-> calls, id |-> id, size |-> size, labels |-> labels]

MessageSet(Ids, Labels) ==
    [role : {"system", "user", "assistant", "tool"}, calls : Seq(Ids), id : Ids, size : Nat,
     labels : SUBSET Labels]

Plain(role, label) == Message(role, <<>>, NoId, 1, {label})
Result(id, size, label) == Message("tool", <<>>, id, size, {label})

HasCalls(m) == m.role = "assistant" /\ m.calls # <<>>
Bare(m) == m.role = "assistant" /\ m.calls = <<>>

Tokens(s) == FoldLeft(LAMBDA sum, m : sum + m.size, 0, s)

Indices(s) == 1..Len(s)
\* The first index that satisfies Test, from the given one; one past the end
\* if there is none.
FirstFrom(s, i, Test(_)) == Min({j \in i..Len(s) : Test(s[j])} \cup {Len(s) + 1})

FirstNonSystem(s) ==
    LET first == FirstFrom(s, 1, LAMBDA m : m.role # "system")
    IN  IF first > Len(s) THEN 1 ELSE first

-----------------------------------------------------------------------------
(* sanitize_tool_pairs *)

StripLeadingResults(s) ==
    LET first == FirstNonSystem(s)
        end   == FirstFrom(s, first, LAMBDA m : m.role # "tool")
    IN  Keep(s, {i \in Indices(s) : i < first \/ i >= end})

\* The ids answered behind the assistant message at i, before the next
\* assistant or user message.
AnsweredIds(s, i) ==
    LET end == FirstFrom(s, i + 1, LAMBDA m : m.role \notin {"tool", "system"})
    IN  {s[j].id : j \in {k \in (i + 1)..(end - 1) : s[k].role = "tool"}}

FillResults(s) ==
    LET Filled(i) ==
            IF HasCalls(s[i])
            THEN LET lost == Keep(s[i].calls, {k \in Indices(s[i].calls) :
                                                   s[i].calls[k] \notin AnsweredIds(s, i)})
                 IN  <<s[i]>> \o [k \in 1..Len(lost) |-> Result(lost[k], 1, "synthetic")]
            ELSE <<s[i]>>
    IN  FlattenSeq([i \in Indices(s) |-> Filled(i)])

DropOrphans(s) ==
    Keep(s, {i \in Indices(s) : s[i].role = "tool" =>
                 \E j \in 1..(i - 1) : s[j].role = "assistant" /\ s[i].id \in ToSet(s[j].calls)})

SanitizeToolPairs(s) == DropOrphans(FillResults(StripLeadingResults(s)))

-----------------------------------------------------------------------------
(* normalize_role_alternation *)

DropLeading(s) ==
    LET first == FirstNonSystem(s)
        user  == FirstFrom(s, first, LAMBDA m : m.role = "user")
    IN  Keep(s, {i \in Indices(s) : i < first \/ i >= user})

\* The text of the second message is added to the first, unless that one carries
\* an attachment: then the second goes, text and all.
Joined(m, n) ==
    IF "attachment" \in m.labels THEN m
    ELSE [m EXCEPT !.size = @ + n.size, !.labels = @ \cup (n.labels \ {"attachment"})]

Mergeable(m, role) == m.role = role /\ ~ HasCalls(m)

MergeNeighbours(s, role) ==
    LET merged[n \in 0..Len(s)] ==
            IF n = 0 THEN <<>>
            ELSE LET done == merged[n - 1]
                 IN  IF /\ done # <<>>
                        /\ Mergeable(Last(done), role)
                        /\ Mergeable(s[n], role)
                     THEN Append(Front(done), Joined(Last(done), s[n]))
                     ELSE Append(done, s[n])
    IN  merged[Len(s)]

NormalizeRoleAlternation(s) ==
    MergeNeighbours(MergeNeighbours(DropLeading(s), "user"), "assistant")

-----------------------------------------------------------------------------
(* truncate_mid_loop *)

LastMessage(s) == Len(s)

LastUser(s) ==
    LET users == {i \in Indices(s) : s[i].role = "user"}
    IN  IF users = {} THEN Len(s) ELSE Max(users)

\* How many messages behind the system prompt do not fit; none from the last
\* user message on goes.
Fitting(prompt, rest, window) ==
    Min({k \in 0..Len(rest) :
            \/ Tokens(prompt) + Tokens(SubSeq(rest, k + 1, Len(rest))) <= window
            \/ k >= LastUser(rest) - 1})

\* These go, the results at the cut, and everything up to a user message.
CutOf(prompt, rest, window) ==
    LET noResult == FirstFrom(rest, Fitting(prompt, rest, window) + 1, LAMBDA m : m.role # "tool")
        turn     == FirstFrom(rest, noResult, LAMBDA m : m.role = "user")
    IN  IF noResult >= LastUser(rest) THEN noResult - 1
        ELSE Min({turn, LastUser(rest)}) - 1

TruncateMidLoop(s, window) ==
    LET hasPrompt == s[1].role = "system"
        prompt    == IF hasPrompt THEN <<s[1]>> ELSE <<>>
        rest      == IF hasPrompt THEN Tail(s) ELSE s
        cut       == CutOf(prompt, rest, window)
    IN  IF Tokens(s) <= window \/ Len(s) <= 3 \/ cut = 0 THEN s
        ELSE NormalizeRoleAlternation(
                 SanitizeToolPairs(prompt \o SubSeq(rest, cut + 1, Len(rest))))

-----------------------------------------------------------------------------
(* What a provider demands of a list *)

\* The result at j answers a call at i, and nobody speaks in between.
Answers(s, i, j) ==
    /\ HasCalls(s[i]) /\ s[j].role = "tool" /\ s[j].id \in ToSet(s[i].calls)
    /\ \A k \in (i + 1)..(j - 1) : s[k].role \in {"tool", "system"}

\* Every call is answered behind its message before anybody else speaks, once,
\* and every result answers such a call.
WellPaired(s) ==
    /\ \A i \in Indices(s) : HasCalls(s[i]) =>
         \A c \in ToSet(s[i].calls) : \E j \in (i + 1)..Len(s) : Answers(s, i, j) /\ s[j].id = c
    /\ \A j \in Indices(s) : s[j].role = "tool" => \E i \in 1..(j - 1) : Answers(s, i, j)
    /\ \A j, k \in Indices(s) :
         s[j].role = "tool" /\ s[k].role = "tool" /\ s[j].id = s[k].id => j = k

\* The last user message asks: a question, or a retry of one.
Marks == {"question", "retry"}
LastAsks(s) ==
    \E u \in Indices(s) :
        /\ s[u].role = "user" /\ s[u].labels \cap Marks # {}
        /\ \A j \in (u + 1)..Len(s) : s[j].role # "user"
\* Only questions carry attachments.
OwnAttachments(s) ==
    \A i \in Indices(s) :
        s[i].role = "user" /\ "attachment" \in s[i].labels => "question" \in s[i].labels
=============================================================================
