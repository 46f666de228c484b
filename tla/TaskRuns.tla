------------------------------ MODULE TaskRuns ------------------------------
(***************************************************************************)
(* Tasks of the task board: execute_task with its in-flight guard, its     *)
(* agents and its clean-up; the cron heartbeat and the timer of the board, *)
(* which both look for due tasks; events; and what a user or an agent does *)
(* to a task meanwhile.  Times are reduced to whether a next run is set    *)
(* and whether it is due.                                                  *)
(***************************************************************************)
EXTENDS Naturals, Sequences, FiniteSets

CONSTANTS
    Tasks,
    Agents,
    AgentsOf,       \* the agents assigned to a task, in order
    Kinds,          \* kinds of tasks: what their columns say
    Pollers,        \* the heartbeat and the timer of the task board
    Execs,          \* bound: calls of execute_task at the same time
    Slots,          \* permits of run_semaphore
    Embeddings,     \* whether memory recall may embed the prompt
    Edits,          \* bound: whether tasks are paused, enabled and requeued
    None

ASSUME TaskAssumption ==
    /\ AgentsOf \in [Tasks -> Seq(Agents) \ {<<>>}]
    /\ Kinds \subseteq [recurring : BOOLEAN, persistent : BOOLEAN, triggered : BOOLEAN]
    /\ Pollers \subseteq {"heartbeat", "timer"}
    /\ None \notin Tasks \cup Execs
    /\ Slots \in Nat \ {0} /\ Embeddings \subseteq BOOLEAN /\ Edits \in BOOLEAN

VARIABLES
    row,            \* tasks table: status, cron_enabled, next_run_at
    kind,           \* its columns cron_schedule, persistent, event_trigger: set or not
    inflight,       \* inflight_tasks
    exec,           \* calls of execute_task, with the agents and the waiter they spawn
    lock,           \* cognitive_states: who holds the lock of an agent
    due,            \* due tasks a poller has read and not yet handled
    ticked,         \* tasks the board's timer will run
    launched,       \* tasks execute_task is about to be called for
    failed          \* history: persistent tasks hit by a failing start or tick, or a restart

dbVars == <<row, kind>>
runVars == <<inflight, exec, lock>>
pollVars == <<due, ticked, launched>>
vars == <<dbVars, runVars, pollVars, failed>>

Status == {"inbox", "assigned", "in_progress", "review", "blocked"}
Row == [status : Status, enabled : BOOLEAN, next : {"none", "later", "due"}]
Write(t, r) == row' = [row EXCEPT ![t] = r] /\ UNCHANGED kind

Fail(ts) == failed' = failed \cup {t \in ts : kind[t].persistent}

\* As the tool create_task makes it.
NewRow(k) ==
    LET enabled == k.recurring \/ k.persistent
    IN  [status |-> IF enabled THEN "assigned" ELSE "inbox", enabled |-> enabled,
         next |-> IF enabled THEN "due" ELSE "none"]

Idle == [phase |-> "idle", task |-> None, snapshot |-> None, agents |-> <<>>,
         embedded |-> FALSE]
AllIdle == [e \in Execs |-> Idle]
Unlocked == [a \in Agents |-> None]
NothingDue == [p \in Pollers |-> {}]

Init ==
    /\ kind \in [Tasks -> Kinds]
    /\ row = [t \in Tasks |-> NewRow(kind[t])]
    /\ inflight = {} /\ exec = AllIdle /\ lock = Unlocked
    /\ due = NothingDue /\ ticked = {} /\ launched = {}
    /\ failed = {}

-----------------------------------------------------------------------------
(* execute_task *)

Phase(e, phase) == exec[e].phase = phase
Task(e) == exec[e].task
Goto(e, phase) == exec' = [exec EXCEPT ![e].phase = phase]
\* The agent being prepared: those before it have been spawned.
Preparing(e) == Len(exec[e].agents) + 1
Agent(e) == AgentsOf[Task(e)][Preparing(e)]
Settled(e) == \A i \in 1..Len(exec[e].agents) : exec[e].agents[i] \in {"ok", "error"}

Claim(e, t) ==
    /\ Phase(e, "idle")
    /\ t \notin inflight
    /\ inflight' = inflight \cup {t}
    /\ exec' = [exec EXCEPT ![e].phase = "claimed", ![e].task = t]

\* The user runs a task: engine_task_run.
RunTask(e, t) ==
    /\ Claim(e, t)
    /\ UNCHANGED <<dbVars, lock, pollVars, failed>>

RunLaunched(e, t) ==
    /\ t \in launched
    /\ launched' = launched \ {t}
    /\ Claim(e, t)
    /\ UNCHANGED <<dbVars, lock, due, ticked, failed>>

RefuseLaunched(t) ==
    /\ t \in launched \cap inflight
    /\ launched' = launched \ {t}
    /\ UNCHANGED <<dbVars, runVars, due, ticked, failed>>

ReadTask(e) ==
    /\ Phase(e, "claimed")
    /\ exec' = [exec EXCEPT ![e].phase = "read", ![e].snapshot = row[Task(e)]]
    /\ UNCHANGED <<dbVars, inflight, lock, pollVars, failed>>

\* All columns are written, as they were read.
MarkInProgress(e) ==
    /\ Phase(e, "read")
    /\ Write(Task(e), [exec[e].snapshot EXCEPT !.status = "in_progress"])
    /\ exec' = [exec EXCEPT ![e].phase = "preparing", ![e].snapshot = None]
    /\ UNCHANGED <<inflight, lock, pollVars, failed>>

MayFail(e) ==
    /\ exec[e].phase \in {"claimed", "read", "preparing", "recalled"}
    /\ Preparing(e) <= Len(AgentsOf[Task(e)])

AbandonAndRelease(e) ==
    /\ MayFail(e)
    /\ Goto(e, "abandoned")
    /\ inflight' = inflight \ {Task(e)}
    /\ Fail({Task(e)})
    /\ UNCHANGED <<dbVars, lock, pollVars>>

\* The task is gone, no provider is configured, or the database is at fault: the
\* call returns.  Agents it has spawned go on; the task remains in flight.
AbandonStart(e) ==
    /\ MayFail(e)
    /\ exec' = [exec EXCEPT ![e].phase = "abandoned", ![e].snapshot = None]
    /\ Fail({Task(e)})
    /\ UNCHANGED <<dbVars, inflight, lock, pollVars>>

\* The lock of the agent is held while its context is built.
Recall(e) ==
    /\ Phase(e, "preparing")
    /\ Preparing(e) <= Len(AgentsOf[Task(e)])
    /\ lock[Agent(e)] = None
    /\ lock' = [lock EXCEPT ![Agent(e)] = e]
    /\ \E embedded \in Embeddings :
         exec' = [exec EXCEPT ![e].phase = "recalling", ![e].embedded = embedded]
    /\ UNCHANGED <<dbVars, inflight, pollVars, failed>>

FinishRecallLocked(e) ==
    /\ Phase(e, "recalling")
    /\ exec' = [exec EXCEPT ![e].phase = "recalled", ![e].embedded = FALSE]
    /\ UNCHANGED <<dbVars, inflight, lock, pollVars, failed>>

\* An embedding is pushed into working memory under the same lock, taken again.
FinishRecall(e) ==
    /\ Phase(e, "recalling")
    /\ exec[e].embedded => lock[Agent(e)] = None
    /\ exec' = [exec EXCEPT ![e].phase = "recalled", ![e].embedded = FALSE]
    /\ lock' = [lock EXCEPT ![Agent(e)] = None]
    /\ UNCHANGED <<dbVars, inflight, pollVars, failed>>

SpawnAgent(e) ==
    /\ Phase(e, "recalled")
    /\ exec' = [exec EXCEPT ![e].phase = "preparing", ![e].agents = Append(@, "queued")]
    /\ UNCHANGED <<dbVars, inflight, lock, pollVars, failed>>

SpawnWaiter(e) ==
    /\ Phase(e, "preparing")
    /\ Preparing(e) > Len(AgentsOf[Task(e)])
    /\ Goto(e, "waiting")
    /\ UNCHANGED <<dbVars, inflight, lock, pollVars, failed>>

-----------------------------------------------------------------------------
(* The agents of a task, and what waits for them *)

RunningAgents ==
    {p \in Execs \X (1..Cardinality(Agents)) :
        p[2] <= Len(exec[p[1]].agents) /\ exec[p[1]].agents[p[2]] = "running"}

AgentStarts(e, i) ==
    /\ i <= Len(exec[e].agents) /\ exec[e].agents[i] = "queued"
    /\ Cardinality(RunningAgents) < Slots
    /\ exec' = [exec EXCEPT ![e].agents[i] = "running"]
    /\ UNCHANGED <<dbVars, inflight, lock, pollVars, failed>>

AgentEnds(e, i) ==
    /\ i <= Len(exec[e].agents) /\ exec[e].agents[i] = "running"
    /\ \E result \in {"ok", "error"} : exec' = [exec EXCEPT ![e].agents[i] = result]
    /\ UNCHANGED <<dbVars, inflight, lock, pollVars, failed>>

\* Nobody waits for the agents of an abandoned call.
Forget(e) ==
    /\ Phase(e, "abandoned")
    /\ Settled(e)
    /\ exec' = [exec EXCEPT ![e] = Idle]
    /\ UNCHANGED <<dbVars, inflight, lock, pollVars, failed>>

ReleaseTask(e) ==
    /\ Phase(e, "waiting")
    /\ Settled(e)
    /\ inflight' = inflight \ {Task(e)}
    /\ Goto(e, "released")
    /\ UNCHANGED <<dbVars, lock, pollVars, failed>>

Outcome(e) ==
    IF kind[Task(e)].recurring \/ kind[Task(e)].persistent THEN "in_progress"
    ELSE IF \E i \in 1..Len(exec[e].agents) : exec[e].agents[i] = "ok"
    THEN "review" ELSE "blocked"

Requeues(e) == kind[Task(e)].persistent /\ ~ kind[Task(e)].recurring

WriteStatus(e) ==
    /\ Phase(e, "released")
    /\ Write(Task(e), [row[Task(e)] EXCEPT !.status = Outcome(e)])
    /\ exec' = [exec EXCEPT ![e] = IF Requeues(e) THEN [@ EXCEPT !.phase = "requeue"] ELSE Idle]
    /\ UNCHANGED <<inflight, lock, pollVars, failed>>

RequeueIfOk(e) ==
    /\ Phase(e, "requeue")
    /\ IF \E i \in 1..Len(exec[e].agents) : exec[e].agents[i] = "ok"
       THEN Write(Task(e), [row[Task(e)] EXCEPT !.next = "later", !.enabled = TRUE])
       ELSE UNCHANGED dbVars
    /\ exec' = [exec EXCEPT ![e] = Idle]
    /\ UNCHANGED <<inflight, lock, pollVars, failed>>

\* A persistent task is enabled again whether or not it was paused meanwhile.
Requeue(e) ==
    /\ Phase(e, "requeue")
    /\ Write(Task(e), [row[Task(e)] EXCEPT !.next = "later", !.enabled = TRUE])
    /\ exec' = [exec EXCEPT ![e] = Idle]
    /\ UNCHANGED <<inflight, lock, pollVars, failed>>

\* The database cannot be opened or written: the waiter ends there.
LoseStatus(e) ==
    /\ exec[e].phase \in {"released", "requeue"}
    /\ exec' = [exec EXCEPT ![e] = Idle]
    /\ Fail({Task(e)})
    /\ UNCHANGED <<dbVars, inflight, lock, pollVars>>

-----------------------------------------------------------------------------
(* Polling for due tasks *)

ReadDue(p) ==
    /\ due[p] = {}
    /\ p = "timer" => ticked = {}
    /\ due' = [due EXCEPT ![p] =
                 {t \in Tasks : row[t].enabled /\ row[t].next = "due"}]
    /\ due' # due
    /\ UNCHANGED <<dbVars, runVars, ticked, launched, failed>>

NextNever(t) == "none"
\* compute_next_run: without a schedule there is no next run.
NextRun(t) == IF kind[t].recurring THEN "later" ELSE "none"

Touch(p, t) ==
    /\ t \in due[p]
    /\ due' = [due EXCEPT ![p] = @ \ {t}]
    /\ Write(t, [row[t] EXCEPT !.next = NextRun(t)])
    /\ IF p = "heartbeat"
       THEN launched' = launched \cup {t} /\ UNCHANGED ticked
       ELSE ticked' = ticked \cup {t} /\ UNCHANGED launched
    /\ UNCHANGED <<runVars, failed>>

\* The update fails, and the heartbeat goes on to the next task.
HeartbeatSkips(t) ==
    /\ "heartbeat" \in Pollers
    /\ t \in due["heartbeat"]
    /\ due' = [due EXCEPT !["heartbeat"] = @ \ {t}]
    /\ Fail({t})
    /\ UNCHANGED <<dbVars, runVars, ticked, launched>>

\* The update fails, or the log entry after it, and the whole tick is given up.
TickFails(t) ==
    /\ "timer" \in Pollers
    /\ t \in due["timer"]
    /\ \E next \in {row[t].next, NextRun(t)} : Write(t, [row[t] EXCEPT !.next = next])
    /\ due' = [due EXCEPT !["timer"] = {}]
    /\ ticked' = {}
    /\ Fail(due["timer"] \cup ticked)
    /\ UNCHANGED <<runVars, launched>>

TimerRuns ==
    /\ "timer" \in Pollers
    /\ ticked # {}
    /\ due["timer"] = {}
    /\ launched' = launched \cup ticked
    /\ ticked' = {}
    /\ UNCHANGED <<dbVars, runVars, due, failed>>

-----------------------------------------------------------------------------
(* Events *)

\* The task is run now and due again in a minute, unless that cannot be written.  Its cooldown is left out: it
\* only limits how often this happens.
FireEvent(t) ==
    /\ kind[t].triggered /\ row[t].enabled
    /\ \E next \in {row[t].next, "later"} : Write(t, [row[t] EXCEPT !.next = next])
    /\ launched' = launched \cup {t}
    /\ UNCHANGED <<runVars, due, ticked, failed>>

-----------------------------------------------------------------------------
(* Time, users, restarts *)

TimePasses(t) ==
    /\ row[t].next = "later"
    /\ Write(t, [row[t] EXCEPT !.next = "due"])
    /\ UNCHANGED <<runVars, pollVars, failed>>

UserWrites(t, r) ==
    /\ Edits
    /\ row[t] # r
    /\ Write(t, r)
    /\ UNCHANGED <<runVars, pollVars, failed>>

Pause(t) == UserWrites(t, [row[t] EXCEPT !.enabled = FALSE])
Enable(t) ==
    UserWrites(t, [row[t] EXCEPT !.enabled = TRUE, !.next = IF @ = "none" THEN "due" ELSE @])
RunSoon(t) ==
    UserWrites(t, [status |-> "assigned", enabled |-> TRUE, next |-> "due"])

\* A restart leaves nothing but the tasks table.
Restart ==
    /\ inflight' = {} /\ exec' = AllIdle /\ lock' = Unlocked
    /\ due' = NothingDue /\ ticked' = {} /\ launched' = {}
    /\ Fail(Tasks)
    /\ UNCHANGED dbVars

-----------------------------------------------------------------------------
StartNext(e) ==
    ReadTask(e) \/ MarkInProgress(e) \/ FinishRecall(e) \/ SpawnAgent(e) \/ SpawnWaiter(e)
EndNext(e) == Forget(e) \/ ReleaseTask(e) \/ WriteStatus(e) \/ Requeue(e)
AgentIds == 1..Cardinality(Agents)

ExecNext(e) ==
    \/ StartNext(e) \/ AbandonStart(e) \/ Recall(e) \/ EndNext(e) \/ LoseStatus(e)
    \/ \E i \in AgentIds : AgentStarts(e, i) \/ AgentEnds(e, i)
    \/ \E t \in Tasks : RunTask(e, t) \/ RunLaunched(e, t)

PollNext ==
    \/ TimerRuns
    \/ \E p \in Pollers : ReadDue(p) \/ \E t \in Tasks : Touch(p, t)
    \/ \E t \in Tasks : HeartbeatSkips(t) \/ TickFails(t) \/ RefuseLaunched(t)

Next ==
    \/ \E e \in Execs : ExecNext(e)
    \/ PollNext
    \/ \E t \in Tasks : FireEvent(t) \/ TimePasses(t) \/ Pause(t) \/ Enable(t) \/ RunSoon(t)
    \/ Restart

Spec == Init /\ [][Next]_vars

(* The runtime polls what can proceed; its mutexes and its semaphore serve   *)
(* those who wait in order; an agent's turn ends (AgentTurn).               *)
Fairness ==
    \A e \in Execs :
        /\ WF_vars(StartNext(e)) /\ WF_vars(EndNext(e)) /\ SF_vars(Recall(e))
        /\ \A i \in AgentIds : SF_vars(AgentStarts(e, i)) /\ WF_vars(AgentEnds(e, i))

FairSpec == Spec /\ Fairness

-----------------------------------------------------------------------------
Starting == {"claimed", "read", "preparing", "recalling", "recalled"}

Call == [phase : Starting \cup {"idle", "waiting", "abandoned", "released", "requeue"},
         task : Tasks \cup {None}, snapshot : Row \cup {None},
         agents : Seq({"queued", "running", "ok", "error"}), embedded : BOOLEAN]

CallOK(e) ==
    /\ Phase(e, "idle") => exec[e] = Idle
    /\ ~ Phase(e, "idle") =>
         Task(e) \in Tasks /\ Len(exec[e].agents) <= Len(AgentsOf[Task(e)])
    /\ exec[e].phase \in {"recalling", "recalled"} =>
         Preparing(e) <= Len(AgentsOf[Task(e)])
    /\ Phase(e, "read") => exec[e].snapshot \in Row
    /\ exec[e].embedded => Phase(e, "recalling")

LockOK(a) == lock[a] # None => Phase(lock[a], "recalling") /\ Agent(lock[a]) = a

TypeOK ==
    /\ row \in [Tasks -> Row] /\ kind \in [Tasks -> Kinds]
    /\ inflight \subseteq Tasks
    /\ exec \in [Execs -> Call] /\ \A e \in Execs : CallOK(e)
    /\ lock \in [Agents -> Execs \cup {None}] /\ \A a \in Agents : LockOK(a)
    /\ due \in [Pollers -> SUBSET Tasks]
    /\ ticked \subseteq Tasks /\ launched \subseteq Tasks /\ failed \subseteq Tasks

\* A call is at work on its task, or left agents behind that are.
AtWork(e) ==
    \/ exec[e].phase \in Starting \cup {"waiting"}
    \/ ~ Settled(e)

(* At most one call is at work on a task, and the agents left behind by a   *)
(* start that failed count: the user, the heartbeat, the timer and events   *)
(* may all run it, and each agent has one session per task.                 *)
OneRunPerTask ==
    \A d, e \in Execs : AtWork(d) /\ AtWork(e) /\ Task(d) = Task(e) => d = e

(* An enabled recurring task, one whose schedule can be parsed, always has a *)
(* next run, although execute_task and the users write whole rows read before. *)
RecurringHasNext ==
    \A t \in Tasks : kind[t].recurring /\ row[t].enabled => row[t].next # "none"

\* Something under way will run the task or set its next run.
UnderWay(t) ==
    \/ \E e \in Execs : Task(e) = t
    \/ t \in ticked \cup launched

(* An enabled persistent task has a next run, or something under way that   *)
(* will give it one, unless a start, a tick or the application has failed.  *)
PersistentHasFuture ==
    \A t \in Tasks \ failed : kind[t].persistent /\ row[t].enabled =>
        row[t].next # "none" \/ UnderWay(t)

(* Every call of execute_task ends: it returns to its caller, the agents it *)
(* started all run, and its task is released.                               *)
CallsEnd ==
    \A e \in Execs : exec[e].phase \in Starting \cup {"waiting"} ~>
                        exec[e].phase \notin Starting \cup {"waiting"}

(* The embedding of a recall is pushed into the momentum of the agent.      *)
EmbeddingIsPushed == \A e \in Execs : exec[e].embedded ~> ~ exec[e].embedded
=============================================================================
