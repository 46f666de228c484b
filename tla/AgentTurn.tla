------------------------------ MODULE AgentTurn ------------------------------
(***************************************************************************)
(* run_agent_turn: rounds of model calls and tool calls on one message     *)
(* list, with its guards against malformed, empty, ungrounded and repeated *)
(* answers, the circuit breaker of failing tools, mid-loop truncation, the *)
(* fallback providers of a channel, and the storing of what is new.        *)
(***************************************************************************)
EXTENDS MessageList, SequencesExt

CONSTANTS
    Histories,      \* lists a turn may start from, system prompt and question in
    Tools,          \* names of tools
    Plan,           \* execute_plan, one of them
    Batches,        \* tool calls the model may make in one answer: names, in order
    ResultSizes,    \* sizes a tool's result may have
    Window,         \* tokens that fit the context window
    MaxRounds,      \* max_rounds
    Nudge,          \* MAX_CONSECUTIVE_TOOL_FAILS
    HardStop,       \* HARD_STOP_TOOL_FAILS
    MaxRepeats,     \* MAX_REPEATED_SIGNATURES
    Fallbacks       \* fallback providers: none for a chat, some for a channel

\* What messages say.
Words == {"prompt", "history", "question", "attachment", "retry", "malformed", "ungrounded",
          "correction", "nudge", "answer", "empty", "calls", "redirect", "result", "blocked",
          "denied", "synthetic"}

\* Ids of calls: provider, round and place; those of a history are none of these.
NewIds == Nat \X (Nat \ {0}) \X Nat

\* A conversation that was loaded is well paired, with a prompt in front, the
\* question its last user message, and no attachment but the question's.
ASSUME TurnAssumption ==
    /\ Histories \subseteq Seq(MessageSet(Seq(Nat), Words)) \ {<<>>}
    /\ \A h \in Histories :
         /\ h[1].role = "system"
         /\ WellPaired(h) /\ LastAsks(h) /\ OwnAttachments(h)
         /\ \A i \in Indices(h) : h[i].role = "tool" => h[i].id \notin NewIds
    /\ ResultSizes \subseteq Nat
    /\ Plan \in Tools
    /\ Batches \subseteq Seq(Tools) \ {<<>>}
    /\ MaxRounds \in Nat /\ Window \in Nat /\ Fallbacks \in Nat
    /\ Nudge \in 1..HardStop /\ HardStop \in Nat /\ MaxRepeats \in Nat \ {0}

VARIABLES
    pc,             \* top of the loop, model called, tools being run, ended
    messages,       \* messages
    round,          \* round
    fails,          \* tool_fail_counter
    repeated,       \* round_signatures: the last one and how often it came in a row
    todo,           \* tool calls of this round yet to handle: ids and names
    yieldAsked,     \* the yield signal
    outcome,        \* what run_agent_turn returned
    attempt,        \* providers used up by this turn
    stored,         \* the messages the turn has stored
    initial,        \* history: the list the turn started from
    ran,            \* history: ids of the calls whose tool was run
    cut             \* history: truncation took messages out

turnVars == <<round, fails, repeated, todo>>
histVars == <<initial, ran, cut>>
vars == <<pc, messages, turnVars, yieldAsked, outcome, attempt, stored, histVars>>

NoFails == [t \in Tools |-> 0]
Streak(batch, count) == [batch |-> batch, count |-> count]
Extend(streak, batch) ==
    IF streak.batch = batch THEN Streak(batch, streak.count + 1) ELSE Streak(batch, 1)

Init ==
    /\ pc = "top"
    /\ messages \in Histories
    /\ round = 0
    /\ fails = NoFails
    /\ repeated = Streak(<<>>, 0)
    /\ todo = <<>>
    /\ yieldAsked = FALSE
    /\ outcome = "none"
    /\ attempt = 0
    /\ stored = <<>>
    /\ initial = messages
    /\ ran = {}
    /\ cut = FALSE

Push(m) == messages' = Append(messages, m)

-----------------------------------------------------------------------------
(* The top of the loop *)

\* A message was queued: the steering signal is raised.  A channel has none.
RequestYield ==
    /\ pc # "stored" /\ ~ yieldAsked
    /\ Fallbacks = 0
    /\ yieldAsked' = TRUE
    /\ UNCHANGED <<pc, messages, turnVars, outcome, attempt, stored, histVars>>

StopEarly ==
    /\ pc = "top"
    /\ yieldAsked \/ round = MaxRounds
    /\ pc' = "ended"
    /\ outcome' = "ok"
    /\ UNCHANGED <<messages, turnVars, yieldAsked, attempt, stored, histVars>>

CallModel ==
    /\ pc = "top"
    /\ ~ yieldAsked
    /\ round < MaxRounds
    /\ round' = round + 1
    /\ pc' = "model"
    /\ UNCHANGED <<messages, fails, repeated, todo, yieldAsked, outcome, attempt,
                   stored, histVars>>

\* The daily budget is used up, or the provider fails.
Fail ==
    /\ pc = "model" \/ (pc = "top" /\ ~ yieldAsked /\ round < MaxRounds)
    /\ pc' = "ended"
    /\ outcome' = "error"
    /\ UNCHANGED <<messages, turnVars, yieldAsked, attempt, stored, histVars>>

-----------------------------------------------------------------------------
(* The model answers without a tool call *)

Retry(m1, m2) ==
    /\ pc' = "top"
    /\ messages' = messages \o <<m1, m2>>
    /\ UNCHANGED <<turnVars, yieldAsked, outcome, attempt, stored, histVars>>

RetryMalformed ==
    /\ pc = "model"
    /\ round <= 2 /\ round < MaxRounds
    /\ Retry(Plain("assistant", "malformed"), Plain("user", "retry"))

RetryUngrounded ==
    /\ pc = "model"
    /\ round = 1
    /\ Retry(Plain("assistant", "ungrounded"), Plain("system", "correction"))

RetryEmptyUncounted ==
    /\ pc = "model"
    /\ pc' = "top" /\ round' = round - 1
    /\ UNCHANGED <<messages, fails, repeated, todo, yieldAsked, outcome, attempt, stored,
                   histVars>>

RetryEmpty ==
    /\ pc = "model"
    /\ round <= 2 /\ round < MaxRounds
    /\ pc' = "top"
    /\ Push(Plain("system", "nudge"))
    /\ UNCHANGED <<turnVars, yieldAsked, outcome, attempt, stored, histVars>>

\* A text, or an empty answer that is not retried: the text returned is then a
\* fallback, the message remains empty.
Answer ==
    /\ pc = "model"
    /\ \/ Push(Plain("assistant", "answer"))
       \/ (round > 2 \/ round = MaxRounds) /\ Push(Plain("assistant", "empty"))
    /\ pc' = "ended"
    /\ outcome' = "ok"
    /\ UNCHANGED <<turnVars, yieldAsked, attempt, stored, histVars>>

-----------------------------------------------------------------------------
(* The model calls tools *)

CallsOf(batch) == [i \in Indices(batch) |-> [id |-> <<attempt, round, i>>, tool |-> batch[i]]]
CallMessage(calls) ==
    Message("assistant", [i \in Indices(calls) |-> calls[i].id], NoId, 1, {"calls"})

Redirected == \E i \in Indices(messages) : "redirect" \in messages[i].labels

\* The repeated message is taken back; the model is told so once, and the
\* second time the turn ends without an answer.
StopRepetition(batch) ==
    /\ pc = "model"
    /\ Extend(repeated, batch).count >= MaxRepeats
    /\ repeated' = Extend(repeated, batch)
    /\ IF Redirected
       THEN pc' = "ended" /\ outcome' = "ok" /\ UNCHANGED messages
       ELSE pc' = "top" /\ Push(Plain("system", "redirect")) /\ UNCHANGED outcome
    /\ UNCHANGED <<round, fails, todo, yieldAsked, attempt, stored, histVars>>

StartTools(batch) ==
    /\ pc = "model"
    /\ batch # <<Plan>>
    /\ Extend(repeated, batch).count < MaxRepeats
    /\ repeated' = Extend(repeated, batch)
    /\ todo' = CallsOf(batch)
    /\ Push(CallMessage(todo'))
    /\ pc' = "tools"
    /\ UNCHANGED <<round, fails, yieldAsked, outcome, attempt, stored, histVars>>

\* A plan by itself goes to the plan executor, or is refused; either way its
\* result is pushed and nothing is truncated.
RunPlan(batch) ==
    /\ pc = "model"
    /\ batch = <<Plan>>
    /\ Extend(repeated, batch).count < MaxRepeats
    /\ repeated' = Extend(repeated, batch)
    /\ LET calls == CallsOf(batch) IN
       /\ \E size \in ResultSizes :
            messages' = messages \o <<CallMessage(calls), Result(calls[1].id, size, "result")>>
       /\ ran' = ran \cup {calls[1].id}
    /\ pc' = "top"
    /\ UNCHANGED <<round, fails, todo, yieldAsked, outcome, attempt, stored, initial, cut>>

ToolStep ==
    /\ pc = "tools"
    /\ todo # <<>>
    /\ todo' = Tail(todo)
    /\ UNCHANGED <<pc, round, repeated, yieldAsked, outcome, attempt, stored, initial, cut>>

BlockTool ==
    /\ ToolStep
    /\ fails[Head(todo).tool] >= HardStop
    /\ Push(Result(Head(todo).id, 1, "blocked"))
    /\ UNCHANGED <<fails, ran>>

DenyToolUnanswered ==
    /\ ToolStep
    /\ fails[Head(todo).tool] < HardStop
    /\ UNCHANGED <<messages, fails, ran>>

\* The user denies it, or does not answer in time.
DenyTool ==
    /\ ToolStep
    /\ fails[Head(todo).tool] < HardStop
    /\ Push(Result(Head(todo).id, 1, "denied"))
    /\ UNCHANGED <<fails, ran>>

\* The tool is run; a system message follows the third failure in a row.
RunTool ==
    LET call == Head(todo) IN
    /\ ToolStep
    /\ fails[call.tool] < HardStop
    /\ ran' = ran \cup {call.id}
    /\ \E ok \in BOOLEAN, size \in ResultSizes :
         /\ fails' = [t \in Tools |->
                        IF t # call.tool THEN fails[t] ELSE IF ok THEN 0 ELSE fails[t] + 1]
         /\ messages' = messages \o <<Result(call.id, size, "result")>> \o
              (IF ~ ok /\ fails[call.tool] + 1 >= Nudge
               THEN <<Plain("system", "nudge")>> ELSE <<>>)

EndRound ==
    /\ pc = "tools"
    /\ todo = <<>>
    /\ messages' = TruncateMidLoop(messages, Window)
    /\ cut' = (cut \/ messages' # messages)
    /\ pc' = "top"
    /\ UNCHANGED <<turnVars, yieldAsked, outcome, attempt, stored, initial, ran>>

-----------------------------------------------------------------------------
(* After the turn *)

\* A channel tries its next provider: the list is cut to its length before the
\* turn, and the turn begins anew.
Fallback ==
    /\ pc = "ended" /\ outcome = "error"
    /\ attempt < Fallbacks
    /\ attempt' = attempt + 1
    /\ messages' = SubSeq(messages, 1, Min({Len(messages), Len(initial)}))
    /\ pc' = "top"
    /\ outcome' = "none"
    /\ round' = 0
    /\ fails' = NoFails
    /\ repeated' = Streak(<<>>, 0)
    /\ todo' = <<>>
    /\ UNCHANGED <<yieldAsked, stored, initial, ran, cut>>

\* Mutant: results are not stored.
WorthIfAnswer(m) == m.role = "assistant"

\* The messages behind the first pre_loop_msg_count are stored; a chat does so
\* only if the turn succeeded, and leaves empty answers out.
Worth(m) ==
    \/ m.role = "tool"
    \/ m.role = "assistant" /\ (m.labels # {"empty"} \/ Fallbacks > 0)
StoreNew ==
    /\ pc = "ended"
    /\ outcome = "ok" \/ Fallbacks > 0
    /\ pc' = "stored"
    /\ LET new == SubSeq(messages, Len(initial) + 1, Len(messages))
       IN  stored' = Keep(new, {i \in Indices(new) : Worth(new[i])})
    /\ UNCHANGED <<messages, turnVars, yieldAsked, outcome, attempt, histVars>>

-----------------------------------------------------------------------------
TurnNext ==
    \/ StopEarly \/ CallModel \/ Fail
    \/ RetryMalformed \/ RetryUngrounded \/ RetryEmpty \/ Answer
    \/ \E batch \in Batches : StopRepetition(batch) \/ StartTools(batch) \/ RunPlan(batch)
    \/ BlockTool \/ DenyTool \/ RunTool \/ EndRound
    \/ Fallback \/ StoreNew

Next == TurnNext \/ RequestYield

Spec == Init /\ [][Next]_vars
FairSpec == Spec /\ WF_vars(TurnNext)

-----------------------------------------------------------------------------
Holds(s, label) == \E i \in Indices(s) : label \in s[i].labels

(* Whenever the model is called, every tool call in the list is answered    *)
(* right behind it and every result answers a call, although the loop takes *)
(* messages back, injects its own and cuts the front off.                   *)
PairsWhenCalled == pc = "model" /\ ~ (cut /\ attempt > 0) => WellPaired(messages)

(* Whenever the model is called it sees the system prompt first and the     *)
(* user's question, unless a retry of a malformed call was taken for it.    *)
QuestionWhenCalled ==
    pc = "model" /\ ~ (cut /\ attempt > 0) =>
        /\ messages # <<>> /\ messages[1] = initial[1]
        /\ ~ Holds(messages, "retry") => Holds(messages, "question")

CallsIn(s) == UNION {ToSet(s[i].calls) : i \in Indices(s)}
ResultsIn(s) == {s[i].id : i \in {j \in Indices(s) : s[j].role = "tool"}}

(* The call and the result of every tool that the answering provider had    *)
(* run is stored.                                                           *)
StoredWhole ==
    pc = "stored" => {c \in ran : c[1] = attempt} \subseteq CallsIn(stored) \cap ResultsIn(stored)

(* No result is stored without the call it answers.                         *)
NoStoredOrphan == ResultsIn(stored) \subseteq CallsIn(stored)

(* A turn that never had to cut its list stores the call and the result of  *)
(* every tool it ran, and no result without its call.                       *)
StoredTogether == ~ cut => StoredWhole /\ NoStoredOrphan

(* Every turn ends, and what there is to store is stored.                   *)
TurnEnds == <>(pc = "stored" \/ (pc = "ended" /\ outcome = "error"))
=============================================================================
