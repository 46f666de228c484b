-------------------------- MODULE ConversationHistory --------------------------
(***************************************************************************)
(* The messages of one session in the database, over several turns: what   *)
(* a turn stores row by row, what a model is sent of it (load_conversation *)
(* for channels, tasks and swarms, the context builder for chats), and     *)
(* compaction, which replaces old rows by a summary while turns go on.     *)
(* One turn at a time stores rows, as long as sends do not overlap.        *)
(***************************************************************************)
EXTENDS MessageList, SequencesExt, FiniteSetsExt

CONSTANTS
    Questions,      \* what the user asks, in order; the last is not answered (a bound)
    Batches,        \* shapes of a turn: how many calls each of its rounds makes
    Outputs,        \* results of a tool: text and size
    Finals,         \* last answers of a turn
    Compactors,     \* calls of engine_session_compact, too few for a checkpoint to be pruned
    Newest,         \* how many rows are read: 50
    Budgets,        \* context budgets, in tokens
    MinMessages,    \* CompactionConfig.min_messages
    KeepRecent,     \* CompactionConfig.keep_recent, at most MinMessages
    MaxCrashes      \* bound: the process dies

Turns == ToSet(Questions)
Texts == {o.text : o \in Outputs} \cup Finals

\* A question is asked once, and its name is no other label; a round makes a call at least.
ASSUME HistoryAssumption ==
    /\ Questions \in Seq(Turns)
    /\ \A i, j \in 1..Len(Questions) : Questions[i] = Questions[j] => i = j
    /\ Batches \subseteq Seq(Nat \ {0})
    /\ \A o \in Outputs : o.size \in Nat
    /\ {Newest, KeepRecent} \subseteq Nat
    /\ Turns \cap (Texts \cup Compactors \cup {"question", "blank", "summary", "attachment"}) = {}
    /\ "summary" \notin Compactors

VARIABLES
    rows,           \* the messages table
    pc,             \* the turn: idle, asked, thinking, storing
    turn,           \* its question
    asked,          \* history: how many questions were stored so far
    sent,           \* the list the model was given, and by which path
    todo,           \* messages of the turn not yet stored
    compactor,      \* each compaction: where it is, the rows it summarises
    checkpoints,    \* the questions that checkpoints hold
    crashes,        \* times the process died
    faults          \* history: a checkpoint failed, a summary was lost

turnVars == <<pc, turn, asked, sent, todo>>
compactVars == <<compactor, checkpoints>>
historyVars == <<rows, turnVars, compactVars, crashes, faults>>

-----------------------------------------------------------------------------
(* Rows.  The labels of a row are its question and its text. *)

Row(role, calls, id, size, t, text) == Message(role, calls, id, size, {t, text})

Question(t) == Row("user", <<>>, NoId, 1, t, "question")

Exchange(t, round, outputs) ==
    LET ids == [i \in Indices(outputs) |-> <<t, round, i>>]
    IN  <<Row("assistant", ids, NoId, 1, t, "blank")>> \o
        [i \in Indices(outputs) |->
            Row("tool", <<>>, ids[i], outputs[i].size, t, outputs[i].text)]

\* Results of each round of a turn.
RoundsOf(batch) ==
    {rounds \in [Indices(batch) -> UNION {[1..n -> Outputs] : n \in ToSet(batch)}] :
        \A k \in Indices(batch) : Len(rounds[k]) = batch[k]}

TurnRows(t, rounds, final) ==
    FlattenSeq([k \in Indices(rounds) |-> Exchange(t, k, rounds[k])]) \o
        <<Row("assistant", <<>>, NoId, 1, t, final)>>

\* The messages a turn may store.
RowsOf(t) ==
    {TurnRows(t, rounds, final) :
        rounds \in UNION {RoundsOf(batch) : batch \in Batches}, final \in Finals}

\* The questions that these rows ask or sum up.
QuestionsIn(s) ==
    UNION {m.labels \cap Turns :
              m \in {n \in ToSet(s) : n.labels \cap {"question", "summary"} # {}}}

Read(limit) == SubSeq(rows, Max({1, Len(rows) - limit + 1}), Len(rows))

Prompt == Plain("system", "prompt")

-----------------------------------------------------------------------------
(* load_conversation *)

OfThisAgent(s) ==
    Keep(s, {i \in Indices(s) : ~ (s[i].role = "tool" /\ "delegated" \in s[i].labels)})

CutToBudget(s, budget) ==
    LET rest == Tail(s)
        k    == Fitting(<<s[1]>>, rest, budget)
    IN  IF Tokens(s) <= budget \/ Len(s) <= 2 \/ k = 0 THEN s
        ELSE <<s[1], Plain("system", "recap")>> \o SubSeq(rest, k + 1, Len(rest))

IsError(m) == m.labels \cap {"error", "denied"} # {}

\* The results in the run of results right behind the message at i that are its own.
ResultsAt(s, i) ==
    LET end == FirstFrom(s, i + 1, LAMBDA m : m.role # "tool")
    IN  {j \in (i + 1)..(end - 1) : s[j].id \in ToSet(s[i].calls)}

FailedAt(s) ==
    {i \in Indices(s) : /\ HasCalls(s[i])
                        /\ ResultsAt(s, i) # {}
                        /\ \A j \in ResultsAt(s, i) : IsError(s[j])}

\* Mutant: the results of a failed exchange stay.
DeleteFailedCalls(s) ==
    Keep(s, {i \in Indices(s) : i \notin FailedAt(s)})

DeleteFailed(s) ==
    LET failed == FailedAt(s) \cup UNION {ResultsAt(s, i) : i \in FailedAt(s)}
    IN  Keep(s, {i \in Indices(s) : i \notin failed /\ ~ (Bare(s[i]) /\ "giveup" \in s[i].labels)})

DeleteEmpty(s) == Keep(s, {i \in Indices(s) : ~ (Bare(s[i]) /\ "word" \in s[i].labels)})

Loaded(budget, scoped) ==
    LET all  == <<Prompt>> \o Read(Newest)
        mine == IF scoped THEN OfThisAgent(all) ELSE all
    IN  FillResults(StripLeadingResults(DeleteEmpty(DeleteFailed(CutToBudget(mine, budget)))))

-----------------------------------------------------------------------------
(* The context builder, and the list engine_chat_send makes of its pairs *)

\* Bands from the newest message on, in percent: verbatim, summary, key fact.
BandStart(n, percent) == n - ((n * percent + 99) \div 100)

Cost(s, i) ==
    IF i > BandStart(Len(s), 35) THEN s[i].size
    ELSE IF i > BandStart(Len(s), 80) THEN Min({s[i].size, 2}) ELSE 1

\* Mutant: the newest are not kept against the budget.
TrimmedToBudget(s, budget) ==
    LET used[n \in 0..Len(s)] ==
            IF n = 0 THEN 0
            ELSE LET more == used[n - 1] + Cost(s, n)
                 IN  IF more <= budget THEN more ELSE used[n - 1]
    IN  {i \in Indices(s) : used[i - 1] + Cost(s, i) <= budget}

\* Indices of the messages that stay: the oldest that fit, and the newest third.
Trimmed(s, budget) ==
    LET newest == BandStart(Len(s), 35) + 1
        used[n \in 0..Len(s)] ==
            IF n = 0 THEN 0
            ELSE LET more == used[n - 1] + Cost(s, n)
                 IN  IF more <= budget \/ n >= newest THEN more ELSE used[n - 1]
    IN  {i \in Indices(s) :
            Tokens(s) <= budget \/ used[i - 1] + Cost(s, i) <= budget \/ i >= newest}

SameText(m, n) == m.role = n.role /\ m.size = n.size /\ m.labels \ Turns = n.labels \ Turns

\* Each message that stays takes the calls and the id of the first row behind the
\* cursor with its role and text.
Restored(raw, kept) ==
    LET restored[n \in 0..Len(raw)] ==
            IF n = 0 THEN [cursor |-> 0, list |-> <<>>]
            ELSE LET done == restored[n - 1]
                     at   == FirstFrom(raw, done.cursor + 1, LAMBDA m : SameText(m, raw[n]))
                 IN  IF n \notin kept THEN done
                     ELSE [cursor |-> at,
                           list   |-> Append(done.list, [raw[n] EXCEPT !.calls = raw[at].calls,
                                                                       !.id = raw[at].id])]
    IN  restored[Len(raw)].list

Assembled(budget) ==
    LET raw == Read(Newest)
    IN  NormalizeRoleAlternation(SanitizeToolPairs(
            <<Prompt>> \o Restored(raw, Trimmed(raw, budget))))

\* detect_implicit_topic_shift
WithoutTools(s) ==
    <<s[1], Plain("system", "shift")>> \o
        Keep(Tail(s), {i \in Indices(Tail(s)) : Tail(s)[i].role # "tool" /\ ~ HasCalls(Tail(s)[i])})

-----------------------------------------------------------------------------
NothingSent == [by |-> "none", list |-> <<>>]
Waiting == [at |-> "waiting", old |-> <<>>]

HistoryInit ==
    /\ rows = <<>>
    /\ pc = "idle"
    /\ turn = "none"
    /\ asked = 0
    /\ sent = NothingSent
    /\ todo = <<>>
    /\ compactor = [c \in Compactors |-> Waiting]
    /\ checkpoints = {}
    /\ crashes = 0
    /\ faults = {}

AddMessage(m) == rows' = Append(rows, m)

\* engine_chat_send stores the question before it builds the context.
Ask ==
    /\ pc = "idle"
    /\ asked < Len(Questions)
    /\ pc' = "asked"
    /\ asked' = asked + 1
    /\ turn' = Questions[asked + 1]
    /\ AddMessage(Question(Questions[asked + 1]))
    /\ UNCHANGED <<sent, todo, compactVars, crashes, faults>>

Send(by, list) ==
    /\ pc = "asked"
    /\ pc' = "thinking"
    /\ sent' = [by |-> by, list |-> list]
    /\ UNCHANGED <<rows, turn, asked, todo, compactVars, crashes, faults>>

LoadConversation ==
    \E budget \in Budgets, scoped \in BOOLEAN : Send("load", Loaded(budget, scoped))

AssembleContext == \E budget \in Budgets : Send("builder", Assembled(budget))

\* The question is short and new, tools were used before or the last answer was long.
AssembleShifted ==
    \E budget \in Budgets :
        LET list == Assembled(budget)
        IN  /\ \E m \in ToSet(list) : m.role = "assistant"
            /\ Send("builder", WithoutTools(list))

Answer ==
    /\ pc = "thinking"
    /\ asked < Len(Questions)
    /\ todo' \in RowsOf(turn)
    /\ pc' = "storing"
    /\ sent' = NothingSent
    /\ UNCHANGED <<rows, turn, asked, compactVars, crashes, faults>>

\* Nothing of a turn that fails is stored but its question.
TurnFails ==
    /\ pc = "thinking"
    /\ pc' = "idle"
    /\ sent' = NothingSent
    /\ UNCHANGED <<rows, turn, asked, todo, compactVars, crashes, faults>>

StoreMessage ==
    /\ pc = "storing"
    /\ AddMessage(Head(todo))
    /\ todo' = Tail(todo)
    /\ pc' = IF todo' = <<>> THEN "idle" ELSE "storing"
    /\ UNCHANGED <<turn, asked, sent, compactVars, crashes, faults>>

-----------------------------------------------------------------------------
(* compact_session, on a connection of its own *)

At(c, place, old) ==
    compactor' = [compactor EXCEPT ![c] = [at |-> place, old |-> old]]

ReadMessages(c) ==
    /\ compactor[c].at = "waiting"
    /\ Len(rows) >= MinMessages
    /\ Len(rows) > KeepRecent
    /\ At(c, "summarise", SubSeq(rows, 1, Len(rows) - KeepRecent))
    /\ UNCHANGED <<rows, turnVars, checkpoints, crashes, faults>>

\* The provider fails, or the summary is empty.
GiveUp(c) ==
    /\ compactor[c].at = "summarise"
    /\ At(c, "done", <<>>)
    /\ UNCHANGED <<rows, turnVars, checkpoints, crashes, faults>>

\* A checkpoint that fails is only logged.
Checkpoint(c) ==
    /\ compactor[c].at = "summarise"
    /\ At(c, "delete", compactor[c].old)
    /\ \/ /\ checkpoints' = checkpoints \cup QuestionsIn(compactor[c].old)
          /\ UNCHANGED faults
       \/ /\ faults' = faults \cup {"checkpoint"}
          /\ UNCHANGED checkpoints
    /\ UNCHANGED <<rows, turnVars, crashes>>

\* Mutant: the new summary replaces those before it.
OldAndSummaries(c) ==
    {m \in ToSet(rows) : m \in ToSet(compactor[c].old) \/ "summary" \in m.labels}

\* Rows go one statement at a time; the summary is in hand until it is stored.
RowsToDelete(c) == {m \in ToSet(rows) : m \in ToSet(compactor[c].old)}

DeleteOld(c) ==
    /\ compactor[c].at = "delete"
    /\ IF RowsToDelete(c) = {}
       THEN At(c, "insert", compactor[c].old) /\ UNCHANGED rows
       ELSE LET first == FirstFrom(rows, 1, LAMBDA m : m \in RowsToDelete(c))
            IN  rows' = RemoveAt(rows, first) /\ UNCHANGED compactor
    /\ UNCHANGED <<turnVars, checkpoints, crashes, faults>>

Summary(c) == Message("system", <<>>, NoId, 1, {"summary", c} \cup QuestionsIn(compactor[c].old))

InsertSummary(c) ==
    /\ compactor[c].at = "insert"
    /\ At(c, "done", <<>>)
    /\ AddMessage(Summary(c))
    /\ UNCHANGED <<turnVars, checkpoints, crashes, faults>>

\* A statement fails, and compact_session returns its error.
StatementFails(c) ==
    /\ compactor[c].at \in {"delete", "insert"}
    /\ At(c, "done", <<>>)
    /\ faults' = faults \cup {"summary"}
    /\ UNCHANGED <<rows, turnVars, checkpoints, crashes>>

\* The process dies; the rows stored so far remain.
Crash ==
    /\ crashes < MaxCrashes
    /\ crashes' = crashes + 1
    /\ pc' = "idle"
    /\ sent' = NothingSent
    /\ todo' = <<>>
    /\ compactor' = [c \in Compactors |->
                      IF compactor[c] = Waiting THEN Waiting ELSE [at |-> "done", old |-> <<>>]]
    /\ faults' = IF \E c \in Compactors : compactor[c].at \in {"delete", "insert"}
                 THEN faults \cup {"summary"} ELSE faults
    /\ UNCHANGED <<rows, turn, asked, checkpoints>>

-----------------------------------------------------------------------------
HistoryNext ==
    \/ Ask
    \/ LoadConversation \/ AssembleContext \/ AssembleShifted
    \/ Answer \/ TurnFails \/ StoreMessage
    \/ \E c \in Compactors :
         \/ ReadMessages(c) \/ GiveUp(c) \/ Checkpoint(c)
         \/ DeleteOld(c) \/ InsertSummary(c) \/ StatementFails(c)
    \/ Crash

HistorySpec == HistoryInit /\ [][HistoryNext]_historyVars

-----------------------------------------------------------------------------
\* A summary stored between the results of one round, while those were stored.
BehindSummary(s) ==
    \E i \in Indices(s) : s[i].role = "tool" /\ "summary" \in s[i - 1].labels

(* However a turn was cut short by a crash, rows were deleted under way, and *)
(* the front or the middle was cut out at a budget or a number of rows, the  *)
(* list that is sent has every call answered and every result behind its     *)
(* call, on both paths; on that of channels and tasks unless a summary came   *)
(* between the results.                                                      *)
SentIsPaired == WellPaired(sent.list) \/ (sent.by = "load" /\ BehindSummary(sent.list))

(* A call or result that the context builder kept is sent with its own id,   *)
(* not with that of another row that reads the same.                         *)
RestoredIsOwn ==
    \A i \in Indices(sent.list) :
        LET m == sent.list[i]
        IN  /\ m.role = "tool" /\ "synthetic" \notin m.labels => m.id[1] \in m.labels
            /\ HasCalls(m) => m.calls[1][1] \in m.labels

(* What is sent begins with the prompt, and the last user message in it is   *)
(* the question of the turn, whatever was cut or compacted meanwhile.        *)
QuestionIsSent ==
    sent.by # "none" =>
        /\ sent.list[1] = Prompt
        /\ \E i \in Indices(sent.list) :
             /\ sent.list[i].role = "user" /\ {turn, "question"} \subseteq sent.list[i].labels
             /\ \A j \in (i + 1)..Len(sent.list) : sent.list[j].role # "user"

(* A question is forgotten (in no row, no summary and no checkpoint) only if *)
(* both its checkpoint and its summary failed, however compactions overlap.  *)
NothingForgotten ==
    faults # {"checkpoint", "summary"} =>
        {Questions[i] : i \in 1..asked} \subseteq QuestionsIn(rows) \cup checkpoints \cup
            UNION {QuestionsIn(compactor[c].old) :
                       c \in {d \in Compactors : compactor[d].at \in {"delete", "insert"}}}
=============================================================================
