------------------------------ MODULE MCServices ------------------------------
(* Parts that all runs of agents share or live beside, checked side by side: *)
(* a behaviour is about one of them, and the others stand still.             *)
EXTENDS ToolApprovals, SwarmWakes, CircuitBreaker, DailyTokens, ChatStream,
        ConversationHistory, TLC

CONSTANTS c1, c2, c3, s1, s2, r1, r2, q1, q2

\* Two calls that bear the same id, and one with an id of its own.
CallIds == c1 :> 1 @@ c2 :> 1 @@ c3 :> 2

SquadMembers == s1 :> 3 @@ s2 :> 2

SpendLevels == <<3, 2, 1>>

\* One session is stored at first, and a second may come to exist.
BothSessions == {s1, s2}
FirstSession == {s1}

\* A turn of two calls and a question behind it, two compactions at once;
\* six rows are read, fewer than are stored, and the budgets cut as well.
TwoQuestions == <<q1, q2>>
TwoCalls == {<<2>>}
ToolOutputs == [text : {"ok"}, size : {3}] \cup [text : {"error", "delegated"}, size : {1}]

-----------------------------------------------------------------------------
VARIABLE part

gateVars == <<approvalVars, swarmVars, breakerVars, tokenVars>>
vars == <<part, gateVars, streamVars, historyVars>>

Init ==
    /\ part \in {"approvals", "swarm", "breaker", "tokens", "stream", "history"}
    /\ ApprovalsInit /\ SwarmInit /\ BreakerInit /\ TokensInit
    /\ StreamInit
    /\ part # "stream" => current = NoKey
    /\ HistoryInit

GateNext ==
    \/ part = "approvals" /\ ApprovalsNext /\ UNCHANGED <<swarmVars, breakerVars, tokenVars>>
    \/ part = "swarm" /\ SwarmNext /\ UNCHANGED <<approvalVars, breakerVars, tokenVars>>
    \/ part = "breaker" /\ BreakerNext /\ UNCHANGED <<approvalVars, swarmVars, tokenVars>>
    \/ part = "tokens" /\ TokensNext /\ UNCHANGED <<approvalVars, swarmVars, breakerVars>>

Next ==
    /\ UNCHANGED part
    /\ \/ GateNext /\ UNCHANGED <<streamVars, historyVars>>
       \/ part = "stream" /\ StreamNext /\ UNCHANGED <<gateVars, historyVars>>
       \/ part = "history" /\ HistoryNext /\ UNCHANGED <<gateVars, streamVars>>

Spec == Init /\ [][Next]_vars
=============================================================================
