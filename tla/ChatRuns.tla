------------------------------ MODULE ChatRuns ------------------------------
(***************************************************************************)
(* The life of a chat run: engine_chat_send, the agent task it spawns, the *)
(* monitor that cleans up after the task, engine_chat_abort, and the       *)
(* frontend listener that re-sends queued messages.                        *)
(*                                                                         *)
(* A request is one message a user submits.  It becomes the name of the    *)
(* run, of the monitor and of the yield signal it creates, since a request *)
(* is given each of them at most once.  Every lock of EngineState is taken *)
(* and released in one step, so the steps between two locks interleave     *)
(* with every other command, task and monitor.                             *)
(***************************************************************************)
EXTENDS Naturals, Sequences

CONSTANTS
    Requests,       \* messages users submit
    Sessions,       \* session ids
    SessionOf,      \* the session each request is sent to
    None,           \* an absent map entry
    MaxRounds,      \* EngineConfig.max_tool_rounds
    Views,          \* what users open: sessions, or None for a new chat
    MaxAborts,      \* bound: aborts that find a run to abort
    SerialSends     \* TRUE: a session's sends do not overlap one another

ASSUME ChatAssumption ==
    /\ SessionOf \in [Requests -> Sessions]
    /\ None \notin Requests
    /\ Views \subseteq Sessions \cup {None}
    /\ MaxRounds \in Nat
    /\ MaxAborts \in Nat
    /\ SerialSends \in BOOLEAN

VARIABLES
    send,           \* where each request is in engine_chat_send, or its fate
    task,           \* the spawned agent task of a request
    rounds,         \* model calls the task has made
    abortAsked,     \* AbortHandle::abort was called on the task
    monitor,        \* the monitor spawned behind the task
    activeRuns,     \* EngineState.active_runs: session -> abort handle
    yieldSignals,   \* EngineState.yield_signals: session -> signal
    heldSignal,     \* the signal a task's clone points at
    yieldFlag,      \* the AtomicBool of each signal
    steered,        \* history: somebody asked this run to yield since it armed
    requestQueue,   \* EngineState.request_queue: session -> Vec
    readyEvents,    \* engine-queue-ready events not yet handled
    history,        \* the messages table: session -> stored messages
    currentSession, \* appState.currentSessionKey of the frontend
    aborts          \* counts aborts, for MaxAborts

sendVars   == <<send, steered>>
taskVars   == <<task, rounds, abortAsked>>
engineVars == <<activeRuns, yieldSignals, requestQueue>>
signalVars == <<heldSignal, yieldFlag>>
uiVars     == <<readyEvents, currentSession, aborts>>
vars == <<sendVars, taskVars, monitor, engineVars, signalVars, history, uiVars>>

InSend  == {"check", "steer", "enqueue", "setup", "prepare", "arm", "spawn",
            "register"}
Settled == {"unsent", "queued", "announced", "returned", "failed", "dropped"}
InTask  == {"start", "round", "model", "reply", "capture"}
Awaits  == {"start", "model", "capture"}

Entry == [role : {"user", "assistant"}, req : Requests]

SendsTo(s) == {r \in Requests : SessionOf[r] = s /\ send[r] \in InSend}
MayCallSend(r) == SerialSends => SendsTo(SessionOf[r]) = {}

Init ==
    /\ send = [r \in Requests |-> "unsent"]
    /\ task = [r \in Requests |-> "none"]
    /\ rounds = [r \in Requests |-> 0]
    /\ abortAsked = [r \in Requests |-> FALSE]
    /\ monitor = [r \in Requests |-> "none"]
    /\ activeRuns = [s \in Sessions |-> None]
    /\ yieldSignals = [s \in Sessions |-> None]
    /\ heldSignal = [r \in Requests |-> None]
    /\ yieldFlag = [r \in Requests |-> FALSE]
    /\ steered = [r \in Requests |-> FALSE]
    /\ requestQueue = [s \in Sessions |-> <<>>]
    /\ readyEvents = <<>>
    /\ history = [s \in Sessions |-> <<>>]
    /\ currentSession \in Views
    /\ aborts = 0

-----------------------------------------------------------------------------
(* engine_chat_send *)

SendStep(r, from, to) ==
    /\ send[r] = from
    /\ send' = [send EXCEPT ![r] = to]

\* A user submits a message: invoke("engine_chat_send").
Submit(r) ==
    /\ MayCallSend(r)
    /\ SendStep(r, "unsent", "check")
    /\ UNCHANGED <<steered, taskVars, monitor, engineVars, signalVars, history,
                   uiVars>>

\* has_active_run is read under its own lock, which is released at once.
CheckActive(r) ==
    /\ SendStep(r, "check",
                IF activeRuns[SessionOf[r]] # None THEN "steer" ELSE "setup")
    /\ UNCHANGED <<steered, taskVars, monitor, engineVars, signalVars, history,
                   uiVars>>

\* Mutant: request_yield stores what reset stores.
RequestYieldClears(r) ==
    LET signal == yieldSignals[SessionOf[r]]
        hit    == {q \in Requests : signal # None /\ heldSignal[q] = signal}
    IN  /\ SendStep(r, "steer", "enqueue")
        /\ yieldFlag' = [q \in Requests |-> yieldFlag[q] /\ q # signal]
        /\ steered' = [q \in Requests |-> steered[q] \/ q \in hit]
        /\ UNCHANGED <<taskVars, monitor, engineVars, heldSignal, history, uiVars>>

\* Ask the active run to wrap up, if its signal is in the map.
RequestYield(r) ==
    LET signal == yieldSignals[SessionOf[r]]
        hit    == {q \in Requests : signal # None /\ heldSignal[q] = signal}
    IN  /\ SendStep(r, "steer", "enqueue")
        /\ yieldFlag' = [q \in Requests |-> yieldFlag[q] \/ q = signal]
        /\ steered' = [q \in Requests |-> steered[q] \/ q \in hit]
        /\ UNCHANGED <<taskVars, monitor, engineVars, heldSignal, history,
                       uiVars>>

\* Mutant: a message is stored already when it is queued.
EnqueueStores(r) ==
    /\ SendStep(r, "enqueue", "queued")
    /\ requestQueue' = [requestQueue EXCEPT ![SessionOf[r]] = Append(@, r)]
    /\ history' = [history EXCEPT ![SessionOf[r]] =
                      Append(@, [role |-> "user", req |-> r])]
    /\ UNCHANGED <<steered, taskVars, monitor, activeRuns, yieldSignals,
                   signalVars, uiVars>>

\* The request joins the session's queue and the command returns.
Enqueue(r) ==
    /\ SendStep(r, "enqueue", "queued")
    /\ requestQueue' = [requestQueue EXCEPT ![SessionOf[r]] = Append(@, r)]
    /\ UNCHANGED <<steered, taskVars, monitor, activeRuns, yieldSignals,
                   signalVars, history, uiVars>>

\* The command returns Err: no provider is configured (on either path), the
\* message cannot be stored, or the conversation cannot be loaded.
SendFails(r) ==
    /\ \E from \in {"enqueue", "setup", "prepare"} : SendStep(r, from, "failed")
    /\ UNCHANGED <<steered, taskVars, monitor, engineVars, signalVars, history,
                   uiVars>>

\* add_message stores the user's message.
StoreMessage(r) ==
    /\ SendStep(r, "setup", "prepare")
    /\ history' = [history EXCEPT ![SessionOf[r]] =
                      Append(@, [role |-> "user", req |-> r])]
    /\ UNCHANGED <<steered, taskVars, monitor, engineVars, signalVars, uiVars>>

\* Context, prompt and tools are built across several awaits.
Prepare(r) ==
    /\ SendStep(r, "prepare", "arm")
    /\ UNCHANGED <<steered, taskVars, monitor, engineVars, signalVars, history,
                   uiVars>>

\* Mutant: the signal is taken over as the last run left it.
ArmWithoutReset(r) ==
    LET s == SessionOf[r]
        signal == IF yieldSignals[s] = None THEN r ELSE yieldSignals[s]
    IN  /\ SendStep(r, "arm", "spawn")
        /\ yieldSignals' = [yieldSignals EXCEPT ![s] = signal]
        /\ heldSignal' = [heldSignal EXCEPT ![r] = signal]
        /\ UNCHANGED <<steered, yieldFlag, taskVars, monitor, activeRuns,
                       requestQueue, history, uiVars>>

\* entry(session).or_default().clone(), then reset(): an entry that is still
\* in the map is shared, not replaced.
Arm(r) ==
    LET s == SessionOf[r]
        signal == IF yieldSignals[s] = None THEN r ELSE yieldSignals[s]
    IN  /\ SendStep(r, "arm", "spawn")
        /\ yieldSignals' = [yieldSignals EXCEPT ![s] = signal]
        /\ heldSignal' = [heldSignal EXCEPT ![r] = signal]
        /\ yieldFlag' = [yieldFlag EXCEPT ![signal] = FALSE]
        /\ UNCHANGED <<steered, taskVars, monitor, activeRuns, requestQueue,
                       history, uiVars>>

\* The agent task starts to run while the command goes on.
Spawn(r) ==
    /\ SendStep(r, "spawn", "register")
    /\ task' = [task EXCEPT ![r] = "start"]
    /\ UNCHANGED <<steered, rounds, abortAsked, monitor, engineVars, signalVars,
                   history, uiVars>>

\* The abort handle enters active_runs, over any other handle, the monitor is
\* spawned and the command returns the run id.
Register(r) ==
    /\ SendStep(r, "register", "returned")
    /\ activeRuns' = [activeRuns EXCEPT ![SessionOf[r]] = r]
    /\ monitor' = [monitor EXCEPT ![r] = "waiting"]
    /\ UNCHANGED <<steered, taskVars, yieldSignals, requestQueue, signalVars,
                   history, uiVars>>

-----------------------------------------------------------------------------
(* The agent task.  It can be cancelled only where it awaits. *)

TaskStep(r, from, to) ==
    /\ task[r] = from
    /\ task' = [task EXCEPT ![r] = to]
    /\ UNCHANGED <<sendVars, abortAsked, monitor, engineVars, signalVars, uiVars>>

YieldRequested(r) == yieldFlag[heldSignal[r]]

\* A permit of run_semaphore, or two seconds without one.
StartTurn(r) ==
    /\ TaskStep(r, "start", "round")
    /\ UNCHANGED <<rounds, history>>

\* Top of the loop: the run yields or is out of rounds, and returns Ok.
StopTurn(r) ==
    /\ TaskStep(r, "round", "reply")
    /\ YieldRequested(r) \/ rounds[r] = MaxRounds
    /\ UNCHANGED <<rounds, history>>

\* Top of the loop: another model call.
CallModel(r) ==
    /\ TaskStep(r, "round", "model")
    /\ ~ YieldRequested(r)
    /\ rounds[r] < MaxRounds
    /\ rounds' = [rounds EXCEPT ![r] = @ + 1]
    /\ UNCHANGED history

\* The model answers, or asks for tools, which run before the next round.
ModelAnswers(r) ==
    /\ \E to \in {"reply", "round"} : TaskStep(r, "model", to)
    /\ UNCHANGED <<rounds, history>>

\* Err from the budget check, the provider or a panic: nothing is stored.
TurnFails(r) ==
    /\ \E from \in {"round", "model"} : TaskStep(r, from, "ended")
    /\ UNCHANGED <<rounds, history>>

\* The messages the turn added are stored, without an await: none if it
\* yielded before its first round, if the answer is empty, or if storing fails.
StoreAnswer(r) ==
    /\ TaskStep(r, "reply", "capture")
    /\ \/ /\ rounds[r] > 0
          /\ history' = [history EXCEPT ![SessionOf[r]] =
                            Append(@, [role |-> "assistant", req |-> r])]
       \/ UNCHANGED history
    /\ UNCHANGED rounds

\* Sensory push, fact capture and summary are awaited, then the task returns.
\* The prune to 200 messages is beyond the length of any history here.
FinishTask(r) ==
    /\ TaskStep(r, "capture", "ended")
    /\ UNCHANGED <<rounds, history>>

\* An aborted task is dropped at the await where it stands or arrives.
CancelTask(r) ==
    /\ abortAsked[r]
    /\ \E from \in Awaits : TaskStep(r, from, "ended")
    /\ UNCHANGED <<rounds, history>>

-----------------------------------------------------------------------------
(* The monitor: handle.await, then three locks, one after the other.  Both *)
(* maps are cleaned by session, whichever run the entry belongs to.        *)

MonitorStep(r, from, to) ==
    /\ monitor[r] = from
    /\ monitor' = [monitor EXCEPT ![r] = to]
    /\ UNCHANGED <<steered, taskVars, signalVars, history, currentSession, aborts>>

\* Mutant: the session stays marked active while messages are queued.
RemoveHandleUnlessQueued(r) ==
    /\ task[r] = "ended"
    /\ MonitorStep(r, "waiting", "signals")
    /\ activeRuns' = IF requestQueue[SessionOf[r]] # <<>> THEN activeRuns
                     ELSE [activeRuns EXCEPT ![SessionOf[r]] = None]
    /\ UNCHANGED <<send, yieldSignals, requestQueue, readyEvents>>

\* Mutant: the monitor does not await the task.
RemoveHandleAtOnce(r) ==
    /\ MonitorStep(r, "waiting", "signals")
    /\ activeRuns' = [activeRuns EXCEPT ![SessionOf[r]] = None]
    /\ UNCHANGED <<send, yieldSignals, requestQueue, readyEvents>>

RemoveHandle(r) ==
    /\ task[r] = "ended"
    /\ MonitorStep(r, "waiting", "signals")
    /\ activeRuns' = [activeRuns EXCEPT ![SessionOf[r]] = None]
    /\ UNCHANGED <<send, yieldSignals, requestQueue, readyEvents>>

RemoveSignal(r) ==
    /\ MonitorStep(r, "signals", "drain")
    /\ yieldSignals' = [yieldSignals EXCEPT ![SessionOf[r]] = None]
    /\ UNCHANGED <<send, activeRuns, requestQueue, readyEvents>>

\* Mutant: the oldest request is announced but stays in the queue.
DrainQueuePeeks(r) ==
    LET s == SessionOf[r] IN
    /\ MonitorStep(r, "drain", "done")
    /\ requestQueue[s] # <<>>
    /\ readyEvents' = Append(readyEvents, Head(requestQueue[s]))
    /\ send' = [send EXCEPT ![Head(requestQueue[s])] = "announced"]
    /\ UNCHANGED <<activeRuns, yieldSignals, requestQueue>>

\* Mutant: the handle is removed once more after the queue was drained.
DrainQueueCleansAgain(r) ==
    /\ MonitorStep(r, "drain", "done")
    /\ activeRuns' = [activeRuns EXCEPT ![SessionOf[r]] = None]
    /\ UNCHANGED <<send, yieldSignals, requestQueue, readyEvents>>

\* The oldest queued request leaves the queue and is announced; one at most.
DrainQueue(r) ==
    LET s == SessionOf[r] IN
    /\ MonitorStep(r, "drain", "done")
    /\ IF requestQueue[s] = <<>>
         THEN UNCHANGED <<send, requestQueue, readyEvents>>
         ELSE LET next == Head(requestQueue[s]) IN
              /\ requestQueue' = [requestQueue EXCEPT ![s] = Tail(@)]
              /\ readyEvents' = Append(readyEvents, next)
              /\ send' = [send EXCEPT ![next] = "announced"]
    /\ UNCHANGED <<activeRuns, yieldSignals>>

-----------------------------------------------------------------------------
(* The user and the frontend *)

\* engine_chat_abort on a session that has a handle; on any other session the
\* command changes nothing.
Abort(s) ==
    /\ aborts < MaxAborts
    /\ activeRuns[s] # None
    /\ aborts' = aborts + 1
    /\ abortAsked' = [abortAsked EXCEPT ![activeRuns[s]] = TRUE]
    /\ activeRuns' = [activeRuns EXCEPT ![s] = None]
    /\ UNCHANGED <<sendVars, task, rounds, monitor, yieldSignals, requestQueue,
                   signalVars, history, readyEvents, currentSession>>

\* The user opens another session, or a new chat, which has no session yet.
Navigate ==
    /\ currentSession' \in Views
    /\ currentSession' # currentSession
    /\ UNCHANGED <<sendVars, taskVars, monitor, engineVars, signalVars, history,
                   readyEvents, aborts>>

\* The engine-queue-ready listener re-sends the message, or drops it if the
\* user has moved to another session.
HandleReady ==
    LET r == Head(readyEvents) IN
    /\ readyEvents # <<>>
    /\ IF currentSession \in {SessionOf[r], None}
         THEN MayCallSend(r) /\ SendStep(r, "announced", "check")
         ELSE SendStep(r, "announced", "dropped")
    /\ readyEvents' = Tail(readyEvents)
    /\ UNCHANGED <<steered, taskVars, monitor, engineVars, signalVars, history,
                   currentSession, aborts>>

-----------------------------------------------------------------------------
SendNext(r) ==
    \/ CheckActive(r) \/ RequestYield(r) \/ Enqueue(r) \/ SendFails(r)
    \/ StoreMessage(r) \/ Prepare(r) \/ Arm(r) \/ Spawn(r) \/ Register(r)

TaskNext(r) ==
    \/ StartTurn(r) \/ StopTurn(r) \/ CallModel(r) \/ ModelAnswers(r)
    \/ TurnFails(r) \/ StoreAnswer(r) \/ FinishTask(r) \/ CancelTask(r)

MonitorNext(r) == RemoveHandle(r) \/ RemoveSignal(r) \/ DrainQueue(r)

Next ==
    \/ \E r \in Requests : Submit(r) \/ SendNext(r) \/ TaskNext(r) \/ MonitorNext(r)
    \/ \E s \in Sessions : Abort(s)
    \/ Navigate \/ HandleReady

Spec == Init /\ [][Next]_vars

(* The runtime polls every command, task and monitor that can proceed, a    *)
(* model call returns or times out, and the webview delivers its events.   *)
(* Users owe nothing: they may never submit, abort or navigate.             *)
Fairness ==
    /\ \A r \in Requests :
         WF_vars(SendNext(r)) /\ WF_vars(TaskNext(r)) /\ WF_vars(MonitorNext(r))
    /\ WF_vars(HandleReady)

FairSpec == Spec /\ Fairness

-----------------------------------------------------------------------------
TypeOK ==
    /\ send \in [Requests -> InSend \cup Settled]
    /\ task \in [Requests -> InTask \cup {"none", "ended"}]
    /\ rounds \in [Requests -> 0..MaxRounds]
    /\ abortAsked \in [Requests -> BOOLEAN]
    /\ monitor \in [Requests -> {"none", "waiting", "signals", "drain", "done"}]
    /\ activeRuns \in [Sessions -> Requests \cup {None}]
    /\ yieldSignals \in [Sessions -> Requests \cup {None}]
    /\ heldSignal \in [Requests -> Requests \cup {None}]
    /\ yieldFlag \in [Requests -> BOOLEAN]
    /\ steered \in [Requests -> BOOLEAN]
    /\ requestQueue \in [Sessions -> Seq(Requests)]
    /\ readyEvents \in Seq(Requests)
    /\ history \in [Sessions -> Seq(Entry)]
    /\ currentSession \in Views
    /\ aborts \in 0..MaxAborts

\* A run is live from the moment its task is spawned to its end.
Live(r) == task[r] \in InTask
\* The frontend knows the run: the send has returned its run id.
Running(r) == Live(r) /\ monitor[r] = "waiting" /\ ~ abortAsked[r]

(* A handle in active_runs always belongs to a run whose monitor has yet   *)
(* to clean up, however sends, aborts and monitors interleave.  A handle    *)
(* nobody removes would make every later message of the session wait in    *)
(* the queue for ever.                                                      *)
NoStaleHandle ==
    \A s \in Sessions : activeRuns[s] # None =>
        /\ SessionOf[activeRuns[s]] = s
        /\ monitor[activeRuns[s]] = "waiting"

(* An entry of yield_signals is held by a run of its session that is being  *)
(* started or has a monitor that will remove the entry: none is leaked.     *)
SignalOwned(s, r) ==
    /\ SessionOf[r] = s
    /\ heldSignal[r] = yieldSignals[s]
    /\ send[r] \in {"spawn", "register"} \/ monitor[r] \in {"waiting", "signals"}
NoLeakedSignal ==
    \A s \in Sessions : yieldSignals[s] # None => \E r \in Requests : SignalOwned(s, r)

(* A run sees a yield request only if one was made after the run armed its  *)
(* signal, even when it took over the signal of an earlier run.            *)
NoStaleYield ==
    \A r \in Requests :
        heldSignal[r] # None /\ yieldFlag[heldSignal[r]] => steered[r]

(* A request waits in one place only: in its own session's queue once, or  *)
(* in one announced event, exactly while its fate says so.                  *)
NoDuplicates(q) == \A i, j \in 1..Len(q) : q[i] = q[j] => i = j
WaitsInOnePlace ==
    /\ \A s \in Sessions :
         /\ NoDuplicates(requestQueue[s])
         /\ \A i \in 1..Len(requestQueue[s]) :
              /\ SessionOf[requestQueue[s][i]] = s
              /\ send[requestQueue[s][i]] = "queued"
    /\ NoDuplicates(readyEvents)
    /\ \A i \in 1..Len(readyEvents) : send[readyEvents[i]] = "announced"
    /\ \A r \in Requests :
         /\ send[r] = "queued" =>
              \E i \in 1..Len(requestQueue[SessionOf[r]]) :
                  requestQueue[SessionOf[r]][i] = r
         /\ send[r] = "announced" => \E i \in 1..Len(readyEvents) : readyEvents[i] = r

(* No message is stored twice and no request is answered twice, though a    *)
(* queued request goes through engine_chat_send a second time.              *)
StoredOnce == \A s \in Sessions : NoDuplicates(history[s])

(* At most one live run in a session.                                       *)
OneRunPerSession ==
    \A q, r \in Requests : Live(q) /\ Live(r) /\ SessionOf[q] = SessionOf[r] => q = r

(* The handle engine_chat_abort finds for a session is the handle of the    *)
(* run that is running there.                                               *)
RunIsAbortable == \A r \in Requests : Running(r) => activeRuns[SessionOf[r]] = r

(* A run that was asked to yield, and has not ended, sees the request.      *)
NoLostYield ==
    \A r \in Requests : Running(r) /\ steered[r] => YieldRequested(r)

(* In the stored conversation an answer directly follows its question.      *)
AnswerFollowsQuestion ==
    \A s \in Sessions : \A i \in 1..Len(history[s]) :
        history[s][i].role = "assistant" =>
            /\ i > 1
            /\ history[s][i - 1] = [role |-> "user", req |-> history[s][i].req]

(* Again and again every send has returned to its caller and no session has *)
(* an active run: none hangs, and none keeps its session from the next.     *)
ComesToRest ==
    []<>((\A r \in Requests : send[r] \notin InSend) /\ (\A s \in Sessions : activeRuns[s] = None))
=============================================================================
