----------------------------- MODULE MCAgentTurn -----------------------------
(* Conversations and tool calls for model checking, in two settings.  In the *)
(* tight one, given by the constants, the window is so small that the list   *)
(* is cut in the middle of a turn; in the roomy one nothing is ever cut, and *)
(* the turn is that of a channel with a fallback provider.                   *)
EXTENDS AgentTurn

CONSTANTS t, u, plan

VARIABLE setting

Sized(m, size) == [m EXCEPT !.size = size]
Old(i) == <<0, 0, i>>
AskedFor(i) == Message("assistant", <<Old(i)>>, NoId, 1, {"history"})

Prompt   == Plain("system", "prompt")
Question == Message("user", <<>>, NoId, 1, {"question", "attachment"})
OldUser  == Plain("user", "history")
OldText  == Plain("assistant", "history")

\* A text exchange; one with a tool call; a question that
\* was never answered; a conversation that was already redirected.
Exchange   == <<Prompt, OldUser, OldText, Question>>
ToolUse    == <<Prompt, OldUser, AskedFor(1), Result(Old(1), 1, "history"), OldText, Question>>
Unanswered == <<Prompt, OldUser, OldText, OldUser, Question>>
Redirect   == <<Prompt, OldUser, OldText, Question, Plain("system", "redirect")>>

TightHistories == {Exchange, ToolUse, Unanswered, Redirect}
RoomyHistories == {ToolUse, Redirect}
LongHistories == {Exchange, ToolUse, Unanswered}

AllBatches == {<<t>>, <<t, t>>, <<plan>>}
TwoBatches == {<<t>>, <<u, t>>}

-----------------------------------------------------------------------------
Roomy == INSTANCE AgentTurn WITH
    Histories <- RoomyHistories, Batches <- AllBatches, ResultSizes <- {1},
    Window <- 99, MaxRounds <- 3, Nudge <- 2, HardStop <- 3, MaxRepeats <- 2,
    Fallbacks <- 1

TightInit == setting = "tight" /\ Init

TurnsInit == TightInit \/ (setting = "roomy" /\ Roomy!Init)

TurnsNext ==
    /\ UNCHANGED setting
    /\ \/ setting = "tight" /\ Next
       \/ setting = "roomy" /\ Roomy!Next

turnsVars == <<setting, vars>>

TightSpec == TightInit /\ [][TurnsNext]_turnsVars

TurnsSpec ==
    /\ TurnsInit /\ [][TurnsNext]_turnsVars
    /\ (setting = "roomy") => WF_vars(Roomy!TurnNext)

(* A turn whose list is never cut ends, and what there is to store is       *)
(* stored.                                                                  *)
RoomyTurnEnds == setting = "roomy" => Roomy!TurnEnds
=============================================================================
