------------------------------ MODULE MCRunsEnd ------------------------------
(* What must come to an end, for model checking: the sends of one session,   *)
(* two tasks that share an agent and one permit, the chat view while a new   *)
(* chat starts, and the refusals of a circuit breaker.  A behaviour is about *)
(* one of them, and the others stand still.                                  *)
EXTENDS Naturals, Sequences

CONSTANTS r1, r2, s1, t, u, a, b, e1, e2, NoKey, Queued, None

VARIABLES
    send, task, rounds, abortAsked, monitor, activeRuns, yieldSignals, heldSignal,
    yieldFlag, steered, requestQueue, readyEvents, history, currentSession, aborts

chatVars == <<send, task, rounds, abortAsked, monitor, activeRuns, yieldSignals, heldSignal,
    yieldFlag, steered, requestQueue, readyEvents, history, currentSession, aborts>>

Chat == INSTANCE ChatRuns WITH
    Requests <- {r1, r2}, Sessions <- {s1}, SessionOf <- [r \in {r1, r2} |-> s1],
    Views <- {s1}, MaxRounds <- 1, MaxAborts <- 1, SerialSends <- FALSE

VARIABLES row, kind, inflight, exec, lock, due, ticked, launched, failed

boardVars == <<row, kind, inflight, exec, lock, due, ticked, launched, failed>>

\* Two agents for one task, one of them has the other task as well.
Assigned == [x \in {t, u} |-> IF x = t THEN <<a, b>> ELSE <<a>>]
OnceOnly == [recurring |-> FALSE, persistent |-> FALSE, triggered |-> FALSE]

Board == INSTANCE TaskRuns WITH
    Tasks <- {t, u}, Agents <- {a, b}, AgentsOf <- Assigned, Kinds <- {OnceOnly},
    Pollers <- {}, Execs <- {e1, e2}, Slots <- 1, Edits <- FALSE, Embeddings <- {FALSE}

VARIABLES current, streams, call, ss, moves, known, active, queue, run, replies, aborting, events

streamVars ==
    <<current, streams, call, ss, moves, known, active, queue, run, replies, aborting, events>>

View == INSTANCE ChatStream WITH MaxCalls <- 2, MaxMoves <- 1, Sessions <- {s1}, Stored <- {}

VARIABLES failures, trip, req, torn

breakerVars == <<failures, trip, req, torn>>

Breaker == INSTANCE CircuitBreaker WITH
    Requests <- {r1, r2}, Threshold <- 2, Cooldown <- 2, MaxRetries <- 1

-----------------------------------------------------------------------------
VARIABLE focus

vars == <<focus, chatVars, boardVars, streamVars, breakerVars>>

Init ==
    /\ focus \in {"chat", "board", "view", "breaker"}
    /\ Chat!Init /\ Board!Init /\ View!StreamInit /\ Breaker!BreakerInit

OfChat(A) == focus = "chat" /\ A /\ UNCHANGED <<focus, boardVars, streamVars, breakerVars>>
OfBoard(A) == focus = "board" /\ A /\ UNCHANGED <<focus, chatVars, streamVars, breakerVars>>
OfView(A) == focus = "view" /\ A /\ UNCHANGED <<focus, chatVars, boardVars, breakerVars>>
OfBreaker(A) == focus = "breaker" /\ A /\ UNCHANGED <<focus, chatVars, boardVars, streamVars>>

Next ==
    OfChat(Chat!Next) \/ OfBoard(Board!Next) \/ OfView(View!StreamNext) \/ OfBreaker(Breaker!BreakerNext)

\* The fairness of each part, asked for only in the behaviours that are about it.
ChatFairness ==
    /\ \A r \in {r1, r2} :
         /\ WF_vars(OfChat(Chat!SendNext(r)))
         /\ WF_vars(OfChat(Chat!TaskNext(r)))
         /\ WF_vars(OfChat(Chat!MonitorNext(r)))
    /\ WF_vars(OfChat(Chat!HandleReady))

BoardFairness ==
    \A e \in {e1, e2} :
        /\ WF_vars(OfBoard(Board!StartNext(e)))
        /\ WF_vars(OfBoard(Board!EndNext(e)))
        /\ SF_vars(OfBoard(Board!Recall(e)))
        /\ \A i \in 1..2 :
             /\ SF_vars(OfBoard(Board!AgentStarts(e, i)))
             /\ WF_vars(OfBoard(Board!AgentEnds(e, i)))

ViewFairness ==
    /\ \A c \in 1..2 :
         /\ WF_vars(OfView(View!CallNext(c)))
         /\ WF_vars(OfView(View!TimesOut(c)))
         /\ WF_vars(OfView(View!EngineChatSend(c) \/ View!EngineChatSendFails(c)))
    /\ WF_vars(OfView(View!EngineChatAbort(s1)))
    /\ WF_vars(OfView(View!HandleAgentEvent \/ View!HandleQueueReady))

BreakerFairness ==
    /\ WF_vars(OfBreaker(Breaker!Tick))
    /\ \A r \in {r1, r2} : WF_vars(OfBreaker(Breaker!RequestStep(r)))

Spec ==
    Init /\ [][Next]_vars /\ ChatFairness /\ BoardFairness /\ ViewFairness /\ BreakerFairness

-----------------------------------------------------------------------------
(* However sends overlap and though a run is aborted, every send returns to *)
(* its caller, and a session that has an active run becomes free again.     *)
SendsEnd == focus = "chat" => Chat!ComesToRest

(* Every call of execute_task returns to its caller, its agents all run and *)
(* the task is released, as long as memory recall embeds nothing.           *)
TasksEnd == focus = "board" => Board!CallsEnd

(* Every send of the chat view ends, whatever its run does and whichever    *)
(* stream takes its place in the map: its button is let go, and its timer.  *)
ViewsEnd == focus = "view" => View!SendsEnd

(* However requests fail and race, the breaker does not refuse for ever.    *)
RefusalsEnd == focus = "breaker" => Breaker!RefusalsEnd
=============================================================================
