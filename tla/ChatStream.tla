------------------------------ MODULE ChatStream ------------------------------
(***************************************************************************)
(* The streams of the chat view: appState.activeStreams with one stream    *)
(* state per session key, the promise each send waits for, and the events  *)
(* that settle it.  A call is one run of sendMessage or handleQueueReady;   *)
(* its stream state, and the run it starts, bear its name.  The backend    *)
(* (ChatRuns) is reduced to its active runs, its queues and its events.    *)
(* JavaScript runs one task at a time: a promise that is settled lets its  *)
(* call go on before the next event.                                       *)
(***************************************************************************)
EXTENDS Naturals, Sequences, FiniteSets

CONSTANTS
    MaxCalls,       \* bound: calls of sendMessage, handleQueueReady and queueMessage
    MaxMoves,       \* bound: how often the user stops a run or goes elsewhere
    Sessions,       \* session ids
    Stored,         \* the sessions that exist at first
    NoKey,          \* currentSessionKey is null, which makes the key ''
    Queued,         \* the run id "queued-..."
    None

ASSUME StreamAssumption ==
    /\ MaxCalls \in Nat
    /\ Stored \subseteq Sessions
    /\ NoKey \notin Sessions /\ None \notin Sessions \cup {NoKey, Queued}
    /\ {None, Queued} \cap 1..MaxCalls = {}

VARIABLES
    current,        \* appState.currentSessionKey
    streams,        \* appState.activeStreams: key -> whose stream state
    call,           \* where each call is, its streamKey and the session it sends to
    ss,             \* stream state of each call, with its promise and its timer
    moves,          \* counts moves, for MaxMoves
    known,          \* sessions that exist
    active,         \* active_runs
    queue,          \* request_queue: how many messages wait
    run,            \* the run each call has started
    replies,        \* answers to engine_chat_send under way
    aborting,       \* engine_chat_abort under way
    events          \* engine-event and engine-queue-ready under way

viewVars == <<current, streams, call, ss, moves>>
engineVars == <<known, active, queue, run>>
wireVars == <<replies, aborting, events>>
streamVars == <<viewVars, engineVars, wireVars>>

AllCalls == 1..MaxCalls
Keys == Sessions \cup {NoKey}

NoStream == [runId |-> None, resolve |-> FALSE, settled |-> "no", timer |-> FALSE,
             grace |-> FALSE]
NewStream == [NoStream EXCEPT !.resolve = TRUE, !.timer = TRUE]
NoRun == [at |-> "none", session |-> None]

StreamInit ==
    /\ current \in Stored \cup {NoKey}
    /\ streams = [k \in Keys |-> None]
    /\ call = [c \in AllCalls |-> [at |-> "idle", key |-> None, session |-> None]]
    /\ ss = [c \in AllCalls |-> NoStream]
    /\ moves = 0
    /\ known = Stored
    /\ active = [s \in Sessions |-> None]
    /\ queue = [s \in Sessions |-> 0]
    /\ run = [c \in AllCalls |-> NoRun]
    /\ replies = {}
    /\ aborting = {}
    /\ events = <<>>

\* A call whose promise is settled goes on before anything else happens.
MayFinish(c) == call[c].at = "waiting" /\ ss[c].settled # "no"
Quiet == \A c \in AllCalls : ~ MayFinish(c)

\* A promise is settled once.
Settle(c, by) == IF ss[c].settled = "no" THEN by ELSE ss[c].settled
Resolved(c, by) == [ss[c] EXCEPT !.settled = Settle(c, by), !.resolve = FALSE]

-----------------------------------------------------------------------------
(* sendMessage and handleQueueReady *)

\* Calls get their names in turn.
Idle(c) == call[c].at = "idle" /\ \A d \in 1..(c - 1) : call[d].at # "idle"

CheckIdle(c) ==
    /\ Quiet
    /\ Idle(c)
    /\ streams[current] = None
    /\ call' = [call EXCEPT ![c].at = "encoding"]
    /\ UNCHANGED <<current, streams, ss, moves, engineVars, wireVars>>

\* Streams left in the map by calls that ended, some of them ten minutes old.
Stale(k) == streams[k] # None /\ call[streams[k]].at = "done"

\* showStreamingMessage, and the invoke: to a session, or to a new one.
Show(c, to) ==
    \E swept \in SUBSET {k \in Keys : Stale(k)} :
        /\ streams' = [k \in Keys |->
                        IF k = current THEN c ELSE IF k \in swept THEN None ELSE streams[k]]
        /\ call' = [call EXCEPT ![c] = [at |-> "sending", key |-> current, session |-> to]]
        /\ ss' = [ss EXCEPT ![c] = NewStream]

ShowAndSend(c) ==
    /\ Quiet
    /\ call[c].at = "encoding"
    /\ Show(c, current)
    /\ UNCHANGED <<current, moves, engineVars, wireVars>>

\* Where the stream of c is after handleSendResult.
Moved(c, session) ==
    IF session = call[c].key THEN streams
    ELSE [streams EXCEPT ![call[c].key] = None, ![session] = c]

HandleSendResult(c) ==
    /\ Quiet
    /\ call[c].at = "sending"
    /\ \E reply \in replies :
         /\ reply.to = c /\ reply.runId # None
         /\ replies' = replies \ {reply}
         /\ ss' = [ss EXCEPT ![c].runId = reply.runId]
         /\ current' = reply.session
         /\ streams' = Moved(c, reply.session)
    /\ call' = [call EXCEPT ![c].at = "waiting"]
    /\ UNCHANGED <<moves, engineVars, aborting, events>>

\* The finally clause: whatever stream the session in view has goes too.  What is left
\* of its own stream state no longer matters.
FinalKey(c) == IF current = NoKey THEN call[c].key ELSE current

\* Mutant: only the session in view is cleared.
EndInView(c) ==
    /\ streams' = [streams EXCEPT ![FinalKey(c)] = None]
    /\ call' = [call EXCEPT ![c].at = "done"]
    /\ ss' = [ss EXCEPT ![c] = NoStream]

End(c) ==
    /\ streams' = [streams EXCEPT ![FinalKey(c)] = None, ![call[c].key] = None]
    /\ call' = [call EXCEPT ![c].at = "done"]
    /\ ss' = [ss EXCEPT ![c] = NoStream]

Finish(c) ==
    /\ MayFinish(c)
    /\ End(c)
    /\ UNCHANGED <<current, moves, engineVars, wireVars>>

\* The command returned an error.
SendFails(c) ==
    /\ Quiet
    /\ call[c].at = "sending"
    /\ \E reply \in replies :
         /\ reply.to = c /\ reply.runId = None
         /\ replies' = replies \ {reply}
    /\ End(c)
    /\ UNCHANGED <<current, moves, engineVars, aborting, events>>

\* queueMessage and steerWithMessage: while there is a stream, the message is sent
\* without one of its own.
QueueMessage(c) ==
    /\ Quiet
    /\ Idle(c)
    /\ streams[current] # None
    /\ call' = [call EXCEPT ![c] = [at |-> "queueing", key |-> current, session |-> current]]
    /\ UNCHANGED <<current, streams, ss, moves, engineVars, wireVars>>

Acknowledge(c) ==
    /\ Quiet
    /\ call[c].at = "queueing"
    /\ \E reply \in replies : reply.to = c /\ replies' = replies \ {reply}
    /\ call' = [call EXCEPT ![c].at = "done"]
    /\ UNCHANGED <<current, streams, ss, moves, engineVars, aborting, events>>

\* Ten minutes are long: what was under way has arrived.
Calm ==
    /\ Quiet /\ replies = {} /\ aborting = {} /\ events = <<>>
    /\ \A c \in AllCalls : call[c].at \notin {"encoding", "sending", "queueing"}

TimesOut(c) ==
    /\ Calm
    /\ ss[c].timer
    /\ ss' = [ss EXCEPT ![c].timer = FALSE, ![c].settled = Settle(c, "timer")]
    /\ UNCHANGED <<current, streams, call, moves, engineVars, wireVars>>

\* Three seconds after an end that brought no text.
GraceExpires(c) ==
    /\ Quiet /\ events = <<>>
    /\ ss[c].grace
    /\ ss' = [ss EXCEPT ![c] = IF ss[c].resolve
                               THEN [Resolved(c, "own") EXCEPT !.grace = FALSE]
                               ELSE [ss[c] EXCEPT !.grace = FALSE]]
    /\ UNCHANGED <<current, streams, call, moves, engineVars, wireVars>>

-----------------------------------------------------------------------------
(* What the user does *)

\* Mutant: the promise is left to the timer, which is cleared.
TeardownSilently(k) ==
    LET c == streams[k]
    IN  IF c = None THEN UNCHANGED <<streams, ss, aborting>>
        ELSE /\ streams' = [streams EXCEPT ![k] = None]
             /\ ss' = [ss EXCEPT ![c] = [ss[c] EXCEPT !.timer = FALSE]]
             /\ aborting' = aborting \cup ({k} \ {NoKey})

Teardown(k) ==
    LET c == streams[k]
    IN  IF c = None THEN UNCHANGED <<streams, ss, aborting>>
        ELSE /\ streams' = [streams EXCEPT ![k] = None]
             /\ ss' = [ss EXCEPT ![c] =
                         [IF ss[c].resolve THEN Resolved(c, "stop") ELSE ss[c]
                            EXCEPT !.timer = FALSE]]
             /\ aborting' = aborting \cup ({k} \ {NoKey})

Move == Quiet /\ moves < MaxMoves /\ moves' = moves + 1

Stop ==
    /\ Move
    /\ streams[current] # None
    /\ Teardown(current)
    /\ UNCHANGED <<current, call, engineVars, replies, events>>

SwitchSession ==
    /\ Move
    /\ current' \in (known \cup {NoKey}) \ {current}
    /\ Teardown(current)
    /\ UNCHANGED <<call, engineVars, replies, events>>

\* The inbox opens a new chat and leaves the stream of the old one alone.
InboxNewChat ==
    /\ Move
    /\ current # NoKey
    /\ current' = NoKey
    /\ UNCHANGED <<streams, call, ss, engineVars, wireVars>>

-----------------------------------------------------------------------------
(* The backend, as far as the view sees it *)

Emit(evts) == events' = events \o evts
Event(kind, c, text) == [kind |-> kind, run |-> c, session |-> run[c].session, text |-> text]

\* engine_chat_send: a session that has an active run queues the message.
Receive(c, session) ==
    /\ known' = known \cup {session}
    /\ IF active[session] # None
       THEN /\ queue' = [queue EXCEPT ![session] = @ + 1]
            /\ replies' = replies \cup {[to |-> c, runId |-> Queued, session |-> session]}
            /\ UNCHANGED <<active, run>>
       ELSE /\ active' = [active EXCEPT ![session] = c]
            /\ run' = [run EXCEPT ![c] = [at |-> "thinking", session |-> session]]
            /\ replies' = replies \cup {[to |-> c, runId |-> c, session |-> session]}
            /\ UNCHANGED queue

Waits(c) ==
    /\ call[c].at \in {"sending", "queueing"} /\ run[c] = NoRun
    /\ \A reply \in replies : reply.to # c

EngineChatSend(c) ==
    /\ Quiet
    /\ Waits(c)
    /\ \E session \in Sessions :
         /\ session = call[c].session \/ (call[c].session = NoKey /\ session \notin known)
         /\ Receive(c, session)
    /\ UNCHANGED <<viewVars, aborting, events>>

EngineChatSendFails(c) ==
    /\ Quiet
    /\ Waits(c)
    /\ replies' = replies \cup {[to |-> c, runId |-> None, session |-> None]}
    /\ UNCHANGED <<viewVars, engineVars, aborting, events>>

RunGoes(c, from, to) ==
    /\ Quiet
    /\ run[c].at \in from
    /\ run' = [run EXCEPT ![c].at = to]
    /\ UNCHANGED <<viewVars, known, replies, aborting>>

Running == {"thinking", "warned"}

\* check_budget_warning: an error event of a healthy run.  Deltas are left out.
WarnOfBudget(c) ==
    /\ RunGoes(c, {"thinking"}, "warned")
    /\ Emit(<<Event("error", c, TRUE)>>)
    /\ UNCHANGED <<active, queue>>

RunEnds(c) ==
    /\ RunGoes(c, Running, "finishing")
    /\ \/ \E text \in BOOLEAN : Emit(<<Event("end", c, text)>>)
       \/ Emit(<<Event("error", c, TRUE)>>)
    /\ UNCHANGED <<active, queue>>

\* Broken off for repetition, or at the round limit: no event.
RunBreaksOff(c) ==
    /\ RunGoes(c, Running, "finishing")
    /\ UNCHANGED <<active, queue, events>>

\* The monitor: the handle, the queue, and the Complete of an aborted run.
Cleanup(c) ==
    LET s == run[c].session
        ready == IF queue[s] > 0 THEN <<Event("ready", c, TRUE)>> ELSE <<>>
    IN  /\ RunGoes(c, {"finishing", "aborted"}, "done")
        /\ active' = [active EXCEPT ![s] = None]
        /\ queue' = [queue EXCEPT ![s] = IF @ > 0 THEN @ - 1 ELSE 0]
        /\ Emit(ready \o IF run[c].at = "aborted" THEN <<Event("end", c, FALSE)>> ELSE <<>>)

EngineChatAbort(s) ==
    /\ Quiet
    /\ s \in aborting
    /\ aborting' = aborting \ {s}
    /\ IF active[s] = None THEN UNCHANGED <<active, run>>
       ELSE /\ active' = [active EXCEPT ![s] = None]
            /\ run' = IF run[active[s]].at \in Running
                      THEN [run EXCEPT ![active[s]].at = "aborted"] ELSE run
    /\ UNCHANGED <<viewVars, known, queue, replies, events>>

-----------------------------------------------------------------------------
(* handleAgentEvent *)

\* Mutant: the run id is not compared.
PassesAll(e) == \E k \in Keys : streams[k] # None

\* There is a stream somewhere, and that of the session has no other run's id.
Passes(e) ==
    /\ \E k \in Keys : streams[k] # None
    /\ streams[e.session] # None => ss[streams[e.session]].runId \in {None, e.run}

By(c, e) == IF e.run = c THEN "own" ELSE "other"

\* An end without text takes that of the deltas, if there is any.
OnEnd(e) ==
    LET c == streams[e.session]
    IN  IF c = None THEN UNCHANGED ss
        ELSE IF ~ ss[c].resolve THEN UNCHANGED ss
        ELSE \/ ss' = [ss EXCEPT ![c] = Resolved(c, By(c, e))]
             \/ ~ e.text /\ ss' = [ss EXCEPT ![c].grace = TRUE]

OnError(e) ==
    LET c == streams[e.session]
    IN  IF c = None THEN UNCHANGED ss
        ELSE IF ss[c].resolve THEN ss' = [ss EXCEPT ![c] = Resolved(c, By(c, e))]
        ELSE UNCHANGED ss

HandleAgentEvent ==
    /\ Quiet
    /\ events # <<>>
    /\ LET e == Head(events)
       IN  /\ e.kind # "ready"
           /\ IF ~ Passes(e) THEN UNCHANGED ss
              ELSE \/ e.kind = "end" /\ OnEnd(e)
                   \/ e.kind = "error" /\ OnError(e)
    /\ events' = Tail(events)
    /\ UNCHANGED <<current, streams, call, moves, engineVars, replies, aborting>>

\* The listener of the bridge drops the message if another session is in view.
HandleQueueReady ==
    /\ Quiet
    /\ events # <<>>
    /\ LET e    == Head(events)
           idle == {c \in AllCalls : Idle(c)}
       IN  /\ e.kind = "ready"
           /\ IF current \notin {NoKey, e.session} \/ idle = {}
              THEN UNCHANGED <<streams, call, ss>>
              ELSE \E c \in idle : Show(c, e.session)
    /\ events' = Tail(events)
    /\ UNCHANGED <<current, moves, engineVars, replies, aborting>>

-----------------------------------------------------------------------------
CallNext(c) ==
    \/ HandleSendResult(c) \/ SendFails(c) \/ Finish(c) \/ ShowAndSend(c) \/ Acknowledge(c)

EngineNext(c) ==
    \/ EngineChatSend(c) \/ EngineChatSendFails(c)
    \/ WarnOfBudget(c) \/ RunEnds(c) \/ RunBreaksOff(c) \/ Cleanup(c)

StreamNext ==
    \/ \E c \in AllCalls :
         \/ CheckIdle(c) \/ QueueMessage(c) \/ CallNext(c) \/ EngineNext(c)
         \/ TimesOut(c) \/ GraceExpires(c)
    \/ \E s \in Sessions : EngineChatAbort(s)
    \/ Stop \/ SwitchSession \/ InboxNewChat
    \/ HandleAgentEvent \/ HandleQueueReady

StreamSpec == StreamInit /\ [][StreamNext]_streamVars

(* Promises, replies, events and timers are served, and the command returns; *)
(* nothing is asked of runs or of the user.                                 *)
StreamFairness ==
    /\ \A c \in AllCalls :
         /\ WF_streamVars(CallNext(c)) /\ WF_streamVars(TimesOut(c))
         /\ WF_streamVars(EngineChatSend(c) \/ EngineChatSendFails(c))
    /\ \A s \in Sessions : WF_streamVars(EngineChatAbort(s))
    /\ WF_streamVars(HandleAgentEvent \/ HandleQueueReady)

-----------------------------------------------------------------------------
(* Again and again no send waits: each ends and lets go of its button and   *)
(* its timer, whatever its run does and whichever stream takes its place.   *)
SendsEnd == []<>(\A c \in AllCalls : call[c].at \notin {"sending", "waiting"})

(* Once the reply to its send is in, only the run of that send, the timer or *)
(* the user ends the wait; the events of earlier runs of the session, and   *)
(* of runs that take queued messages, do not.                               *)
OwnRunEnds ==
    [][\A c \in AllCalls :
          call[c].at = "waiting" /\ ss[c].settled = "no" => ss'[c].settled # "other"]_streamVars

(* A stream that stays in the map when its call ends keeps its session from *)
(* sending: that befalls only first messages of new chats, whose stream was *)
(* moved to another key.                                                    *)
LeftBehind ==
    \A k \in Keys :
        streams[k] # None /\ call[streams[k]].at = "done" => call[streams[k]].key = NoKey

(* The end of a run resolves the promise of the send that waits for it, also *)
(* if the user has switched sessions, as long as every other call was made   *)
(* in another session and sends to another.                                  *)
EndResolves ==
    [][\A c \in AllCalls :
          /\ events # <<>> /\ events' = Tail(events)
          /\ Head(events).kind = "end" /\ Head(events).run = c
          /\ call[c].at = "waiting" /\ ss[c].runId = c
          /\ \A d \in AllCalls \ {c} :
               {call[d].key, run[d].session} \cap {call[c].key, run[c].session} = {}
          => ss'[c].settled # "no" \/ ss'[c].grace]_streamVars
=============================================================================
