--------------------------- MODULE TaskRuns_proofs ---------------------------
(***************************************************************************)
(* The safety properties of TaskRuns hold for any tasks, agents, kinds,    *)
(* pollers and numbers of calls and permits.                               *)
(***************************************************************************)
EXTENDS TaskRuns, TLAPS

\* A call at work holds the claim of its task.
Claims == \A e \in Execs : AtWork(e) => Task(e) \in inflight

\* A call that has let its task go has no agents left.
Released == \A e \in Execs : exec[e].phase \in {"released", "requeue"} => Settled(e)

\* A recurring task never loses its next run, not even to a row read before.
HasNext ==
    \A t \in Tasks : kind[t].recurring =>
        /\ row[t].next # "none"
        /\ \A e \in Execs : Phase(e, "read") /\ Task(e) = t => exec[e].snapshot.next # "none"

\* A start that failed is on record.
OnRecord ==
    \A e \in Execs : Phase(e, "abandoned") /\ kind[Task(e)].persistent => Task(e) \in failed

\* A claim belongs to a call, unless that has failed.
Owned ==
    \A t \in inflight \ failed : kind[t].persistent =>
        \E e \in Execs : Task(e) = t /\ exec[e].phase \in Starting \cup {"waiting"}

Future ==
    \A t \in Tasks \ failed : kind[t].persistent => row[t].next # "none" \/ UnderWay(t)

IInv ==
    /\ TypeOK
    /\ Claims
    /\ OneRunPerTask
    /\ Released
    /\ HasNext
    /\ OnRecord
    /\ Owned
    /\ Future

-----------------------------------------------------------------------------
\* A row with a column set is a row.
LEMMA RowFields ==
  ASSUME NEW r \in Row, NEW s \in Status, NEW b \in BOOLEAN,
         NEW n \in {"none", "later", "due"}
  PROVE  /\ [r EXCEPT !.status = s] \in Row
         /\ [r EXCEPT !.enabled = b] \in Row
         /\ [r EXCEPT !.next = n] \in Row
         /\ [r EXCEPT !.next = n, !.enabled = b] \in Row
         /\ [r EXCEPT !.enabled = b, !.next = n] \in Row
         /\ [status |-> s, enabled |-> b, next |-> n] \in Row
  BY DEF Row

\* The columns that say what a task is are set or not.
LEMMA KindBoolean ==
  ASSUME NEW k \in Kinds
  PROVE  k.recurring \in BOOLEAN /\ k.persistent \in BOOLEAN /\ k.triggered \in BOOLEAN
  BY TaskAssumption

\* Writing a row of the table keeps the table a table.
LEMMA WriteTypes ==
  ASSUME TypeOK, NEW t \in Tasks, NEW r \in Row, Write(t, r)
  PROVE  row' \in [Tasks -> Row] /\ kind' \in [Tasks -> Kinds]
  BY DEF TypeOK, Write

AgentStates == {"queued", "running", "ok", "error"}

\* What a call becomes in the steps that take it further.
Becomes(e, c) ==
    /\ c \in Call
    /\ exec' = [exec EXCEPT ![e] = c]
    /\ exec'[e] = c

ExecOK ==
    /\ exec \in [Execs -> Call] /\ \A e \in Execs : CallOK(e)
    /\ lock \in [Agents -> Execs \cup {None}] /\ \A a \in Agents : LockOK(a)

\* The other calls stay as they are.
LEMMA OtherCalls ==
  ASSUME TypeOK, NEW e \in Execs, NEW c, Becomes(e, c), CallOK(e)'
  PROVE  /\ exec' \in [Execs -> Call]
         /\ \A d \in Execs : d # e => exec'[d] = exec[d]
         /\ \A d \in Execs : CallOK(d)'
<1>1. exec' \in [Execs -> Call] /\ \A d \in Execs : d # e => exec'[d] = exec[d]
  BY DEF TypeOK, Becomes
<1>2. ASSUME NEW d \in Execs, d # e PROVE CallOK(d)'
  <2>1. exec'[d] = exec[d] /\ CallOK(d)
    BY <1>1, <1>2 DEF TypeOK
  <2> QED
    BY <2>1 DEF CallOK, Phase, Task, Preparing
<1> QED
  BY <1>1, <1>2

\* A step that changes one call, and takes or frees no lock, is checked there.
LEMMA OneCall ==
  ASSUME TypeOK, NEW e \in Execs, NEW c, Becomes(e, c), CallOK(e)',
         \/ exec[e].phase # "recalling"
         \/ exec'[e].phase = exec[e].phase /\ Task(e)' = Task(e) /\ Preparing(e)' = Preparing(e),
         UNCHANGED lock
  PROVE  ExecOK'
<1>1. /\ exec' \in [Execs -> Call]
      /\ \A d \in Execs : d # e => exec'[d] = exec[d]
      /\ \A d \in Execs : CallOK(d)'
  BY OtherCalls
<1>3. ASSUME NEW a \in Agents PROVE LockOK(a)'
  <2>1. LockOK(a) /\ lock[a] \in Execs \cup {None}
    BY DEF TypeOK
  <2>2. CASE lock[a] = e /\ lock[a] # None
    BY <2>1, <2>2 DEF LockOK, Phase, Agent, Task, Preparing
  <2>3. CASE lock[a] # e \/ lock[a] = None
    BY <2>1, <2>3, <1>1 DEF LockOK, Phase, Agent, Task, Preparing
  <2> QED
    BY <2>2, <2>3
<1> QED
  BY <1>1, <1>3 DEF TypeOK, ExecOK

\* The steps of execute_task up to the waiter.
LEMMA Starts ==
  ASSUME TypeOK, NEW e \in Execs
  PROVE  /\ \A t \in Tasks : Claim(e, t) =>
              Becomes(e, [exec[e] EXCEPT !.phase = "claimed", !.task = t])
         /\ ReadTask(e) =>
              Becomes(e, [exec[e] EXCEPT !.phase = "read", !.snapshot = row[Task(e)]])
         /\ MarkInProgress(e) =>
              Becomes(e, [exec[e] EXCEPT !.phase = "preparing", !.snapshot = None])
         /\ AbandonStart(e) =>
              Becomes(e, [exec[e] EXCEPT !.phase = "abandoned", !.snapshot = None])
         /\ Recall(e) => \E b \in Embeddings :
              Becomes(e, [exec[e] EXCEPT !.phase = "recalling", !.embedded = b])
         /\ FinishRecall(e) =>
              Becomes(e, [exec[e] EXCEPT !.phase = "recalled", !.embedded = FALSE])
         /\ SpawnAgent(e) =>
              Becomes(e, [exec[e] EXCEPT !.phase = "preparing", !.agents = Append(@, "queued")])
         /\ SpawnWaiter(e) => Becomes(e, [exec[e] EXCEPT !.phase = "waiting"])
<1>1. exec \in [Execs -> Call] /\ exec[e] \in Call /\ CallOK(e)
  BY DEF TypeOK
<1>2. ~ Phase(e, "idle") => Task(e) \in Tasks /\ row[Task(e)] \in Row
  BY <1>1 DEF TypeOK, CallOK
<1> HIDE DEF Row
<1>3. ASSUME NEW t \in Tasks, Claim(e, t)
      PROVE  Becomes(e, [exec[e] EXCEPT !.phase = "claimed", !.task = t])
  BY <1>1, <1>3 DEF Becomes, Claim, Call, Starting
<1>4. ReadTask(e) =>
        Becomes(e, [exec[e] EXCEPT !.phase = "read", !.snapshot = row[Task(e)]])
  BY <1>1, <1>2 DEF Becomes, ReadTask, Call, Starting, Phase
<1>5. MarkInProgress(e) =>
        Becomes(e, [exec[e] EXCEPT !.phase = "preparing", !.snapshot = None])
  BY <1>1 DEF Becomes, MarkInProgress, Call, Starting
<1>6. AbandonStart(e) =>
        Becomes(e, [exec[e] EXCEPT !.phase = "abandoned", !.snapshot = None])
  BY <1>1 DEF Becomes, AbandonStart, Call, Starting
<1>7. ASSUME Recall(e)
      PROVE  \E b \in Embeddings :
               Becomes(e, [exec[e] EXCEPT !.phase = "recalling", !.embedded = b])
  <2>1. PICK b \in Embeddings :
          exec' = [exec EXCEPT ![e].phase = "recalling", ![e].embedded = b]
    BY <1>7 DEF Recall
  <2>2. b \in BOOLEAN
    BY TaskAssumption
  <2>3. Becomes(e, [exec[e] EXCEPT !.phase = "recalling", !.embedded = b])
    BY <1>1, <2>1, <2>2 DEF Becomes, Call, Starting
  <2> QED
    BY <2>3
<1>8. FinishRecall(e) =>
        Becomes(e, [exec[e] EXCEPT !.phase = "recalled", !.embedded = FALSE])
  BY <1>1 DEF Becomes, FinishRecall, Call, Starting
<1>9. SpawnAgent(e) =>
        Becomes(e, [exec[e] EXCEPT !.phase = "preparing", !.agents = Append(@, "queued")])
  BY <1>1 DEF Becomes, SpawnAgent, Call, Starting
<1>10. SpawnWaiter(e) => Becomes(e, [exec[e] EXCEPT !.phase = "waiting"])
  BY <1>1 DEF Becomes, SpawnWaiter, Goto, Call, Starting
<1> QED
  BY <1>3, <1>4, <1>5, <1>6, <1>7, <1>8, <1>9, <1>10

\* What an agent becomes is written where an agent is.
LEMMA AgentSet ==
  ASSUME NEW c \in Call, NEW i \in AgentIds, i <= Len(c.agents), NEW x \in AgentStates
  PROVE  /\ [c.agents EXCEPT ![i] = x] \in Seq(AgentStates)
         /\ Len([c.agents EXCEPT ![i] = x]) = Len(c.agents)
         /\ i \in 1..Len(c.agents)
  BY DEF Call, AgentStates, AgentIds

\* The steps of its agents and of what comes after them.
LEMMA Ends ==
  ASSUME TypeOK, NEW e \in Execs
  PROVE  /\ \A i \in AgentIds : AgentStarts(e, i) =>
              Becomes(e, [exec[e] EXCEPT !.agents = [@ EXCEPT ![i] = "running"]])
         /\ \A i \in AgentIds : AgentEnds(e, i) => \E result \in {"ok", "error"} :
              Becomes(e, [exec[e] EXCEPT !.agents = [@ EXCEPT ![i] = result]])
         /\ ReleaseTask(e) => Becomes(e, [exec[e] EXCEPT !.phase = "released"])
         /\ WriteStatus(e) /\ Requeues(e) => Becomes(e, [exec[e] EXCEPT !.phase = "requeue"])
         /\ WriteStatus(e) /\ ~ Requeues(e) => Becomes(e, Idle)
         /\ Forget(e) \/ Requeue(e) \/ LoseStatus(e) => Becomes(e, Idle)
<1>1. exec \in [Execs -> Call] /\ exec[e] \in Call
  BY DEF TypeOK
<1>2. Idle \in Call
  BY DEF Idle, Call
<1>3. ASSUME NEW i \in AgentIds, AgentStarts(e, i)
      PROVE  Becomes(e, [exec[e] EXCEPT !.agents = [@ EXCEPT ![i] = "running"]])
  <2>1. /\ exec' = [exec EXCEPT ![e].agents[i] = "running"]
        /\ [exec[e].agents EXCEPT ![i] = "running"] \in Seq(AgentStates)
    BY <1>1, <1>3, AgentSet DEF AgentStarts, AgentStates
  <2> QED
    BY <1>1, <2>1 DEF Becomes, Call, AgentStates
<1>4. ASSUME NEW i \in AgentIds, AgentEnds(e, i)
      PROVE  \E result \in {"ok", "error"} :
               Becomes(e, [exec[e] EXCEPT !.agents = [@ EXCEPT ![i] = result]])
  <2>1. PICK result \in {"ok", "error"} : exec' = [exec EXCEPT ![e].agents[i] = result]
    BY <1>4 DEF AgentEnds
  <2>2. [exec[e].agents EXCEPT ![i] = result] \in Seq(AgentStates)
    BY <1>1, <1>4, AgentSet DEF AgentEnds, AgentStates
  <2>3. Becomes(e, [exec[e] EXCEPT !.agents = [@ EXCEPT ![i] = result]])
    BY <1>1, <2>1, <2>2 DEF Becomes, Call, AgentStates
  <2> QED
    BY <2>3
<1>5. ReleaseTask(e) => Becomes(e, [exec[e] EXCEPT !.phase = "released"])
  BY <1>1 DEF Becomes, ReleaseTask, Goto, Call, Starting
<1>6. WriteStatus(e) /\ Requeues(e) => Becomes(e, [exec[e] EXCEPT !.phase = "requeue"])
  BY <1>1 DEF Becomes, WriteStatus, Call, Starting
<1>7. WriteStatus(e) /\ ~ Requeues(e) => Becomes(e, Idle)
  BY <1>1, <1>2 DEF Becomes, WriteStatus
<1>8. Forget(e) \/ Requeue(e) \/ LoseStatus(e) => Becomes(e, Idle)
  BY <1>1, <1>2 DEF Becomes, Forget, Requeue, LoseStatus
<1> QED
  BY <1>3, <1>4, <1>5, <1>6, <1>7, <1>8

-----------------------------------------------------------------------------
(* Type correctness *)

\* The agent a call prepares is one of its task.
LEMMA AgentTypes ==
  ASSUME TypeOK, NEW e \in Execs, ~ Phase(e, "idle"),
         Preparing(e) <= Len(AgentsOf[Task(e)])
  PROVE  Agent(e) \in Agents
<1>1. exec[e] \in Call /\ Task(e) \in Tasks /\ AgentsOf[Task(e)] \in Seq(Agents)
  BY TaskAssumption DEF TypeOK, CallOK
<1>2. Preparing(e) \in 1..Len(AgentsOf[Task(e)])
  BY <1>1 DEF Preparing, Call
<1> QED
  BY <1>1, <1>2 DEF Agent

\* The lock a recall takes is that of the agent its call prepares.
LEMMA LocksTaken ==
  ASSUME TypeOK, NEW e \in Execs, Recall(e)
  PROVE  ExecOK'
<1>1. PICK b \in Embeddings :
        Becomes(e, [exec[e] EXCEPT !.phase = "recalling", !.embedded = b])
  BY Starts
<1>2. /\ Phase(e, "preparing") /\ Preparing(e) <= Len(AgentsOf[Task(e)])
      /\ lock' = [lock EXCEPT ![Agent(e)] = e] /\ exec[e] \in Call
  BY DEF Recall, TypeOK
<1>3. /\ exec'[e].phase = "recalling" /\ exec'[e].task = exec[e].task
      /\ exec'[e].agents = exec[e].agents
  <2>1. exec'[e] = [exec[e] EXCEPT !.phase = "recalling", !.embedded = b]
    BY <1>1 DEF Becomes
  <2> QED
    BY <1>2, <2>1 DEF Call
<1>4. CallOK(e) /\ CallOK(e)'
  BY <1>2, <1>3 DEF TypeOK, CallOK, Phase, Task, Preparing
<1>5. Agent(e) \in Agents
  BY <1>2, AgentTypes DEF Phase
<1>6. /\ exec' \in [Execs -> Call]
      /\ \A d \in Execs : d # e => exec'[d] = exec[d]
      /\ \A d \in Execs : CallOK(d)'
  BY <1>1, <1>4, OtherCalls
<1>7. ASSUME NEW a \in Agents PROVE LockOK(a)'
  <2>1. LockOK(a) /\ lock[a] \in Execs \cup {None} /\ lock \in [Agents -> Execs \cup {None}]
    BY DEF TypeOK
  <2>2. CASE a = Agent(e)
    BY <2>1, <2>2, <1>2, <1>3 DEF LockOK, Phase, Agent, Task, Preparing
  <2>3. CASE a # Agent(e)
    <3>1. lock'[a] = lock[a]
      BY <2>1, <2>3, <1>2
    <3>2. lock[a] # None => lock[a] # e /\ lock[a] \in Execs
      BY <2>1, <1>2 DEF LockOK, Phase
    <3> QED
      BY <2>1, <3>1, <3>2, <1>6 DEF LockOK, Phase, Agent, Task, Preparing
  <2> QED
    BY <2>2, <2>3
<1> QED
  BY <1>2, <1>5, <1>6, <1>7 DEF ExecOK, TypeOK

\* A recall that ends leaves its lock.
LEMMA LocksFreed ==
  ASSUME TypeOK, NEW e \in Execs, FinishRecall(e)
  PROVE  ExecOK'
<1>1. Becomes(e, [exec[e] EXCEPT !.phase = "recalled", !.embedded = FALSE])
  BY Starts
<1>2. /\ Phase(e, "recalling") /\ CallOK(e) /\ exec[e] \in Call
      /\ lock' = [lock EXCEPT ![Agent(e)] = None]
  BY DEF FinishRecall, TypeOK
<1>3. /\ exec'[e].phase = "recalled" /\ exec'[e].task = exec[e].task
      /\ exec'[e].agents = exec[e].agents /\ exec'[e].embedded = FALSE
  <2>1. exec'[e] = [exec[e] EXCEPT !.phase = "recalled", !.embedded = FALSE]
    BY <1>1 DEF Becomes
  <2> QED
    BY <1>2, <2>1 DEF Call
<1>4. CallOK(e)'
  BY <1>2, <1>3 DEF CallOK, Phase, Task, Preparing
<1>5. /\ exec' \in [Execs -> Call]
      /\ \A d \in Execs : d # e => exec'[d] = exec[d]
      /\ \A d \in Execs : CallOK(d)'
  BY <1>1, <1>4, OtherCalls
<1>6. ASSUME NEW a \in Agents PROVE LockOK(a)'
  <2>1. LockOK(a) /\ lock[a] \in Execs \cup {None} /\ lock \in [Agents -> Execs \cup {None}]
    BY DEF TypeOK
  <2>2. CASE lock[a] \in {None, e}
    BY <2>1, <2>2, <1>2 DEF LockOK
  <2>3. CASE lock[a] \notin {None, e}
    <3>1. lock[a] \in Execs /\ (lock'[a] = lock[a] \/ lock'[a] = None)
      BY <2>1, <2>3, <1>2
    <3> QED
      BY <2>1, <2>3, <3>1, <1>5 DEF LockOK, Phase, Agent, Task, Preparing
  <2> QED
    BY <2>2, <2>3
<1> QED
  BY <1>2, <1>5, <1>6 DEF ExecOK, TypeOK

\* A call, its locks and the others keep their types while it starts.
LEMMA StartTypes ==
  ASSUME TypeOK, NEW e \in Execs,
         \/ \E t \in Tasks : Claim(e, t) /\ UNCHANGED lock
         \/ StartNext(e) \/ AbandonStart(e) \/ Recall(e)
  PROVE  ExecOK'
<1>1. exec[e] \in Call /\ CallOK(e) /\ None \notin Tasks
  BY TaskAssumption DEF TypeOK
<1>2. /\ ~ Phase(e, "idle") => row[Task(e)] \in Row
      /\ \A t \in Tasks : Len(AgentsOf[t]) \in Nat \ {0}
  BY <1>1, TaskAssumption DEF TypeOK, CallOK
<1> HIDE DEF Row
<1>3. ASSUME NEW t \in Tasks, Claim(e, t), UNCHANGED lock PROVE ExecOK'
  <2>1. Becomes(e, [exec[e] EXCEPT !.phase = "claimed", !.task = t])
    BY <1>3, Starts
  <2>2. exec[e].phase # "recalling"
    BY <1>3 DEF Claim, Phase
  <2>3. exec[e] = Idle
    BY <1>1, <1>3 DEF CallOK, Claim
  <2>4. /\ exec'[e].phase = "claimed" /\ exec'[e].task = t /\ exec'[e].agents = <<>>
        /\ exec'[e].embedded = FALSE
    <3>1. exec[e].agents = <<>> /\ exec[e].embedded = FALSE
      BY <2>3 DEF Idle
    <3>2. /\ exec'[e].phase = "claimed" /\ exec'[e].task = t
          /\ exec'[e].agents = exec[e].agents /\ exec'[e].embedded = exec[e].embedded
      BY <1>1, <2>1 DEF Becomes, Call
    <3> QED
      BY <3>1, <3>2
  <2>5. CallOK(e)'
    <3>1. Len(exec'[e].agents) = 0 /\ Len(AgentsOf[t]) \in Nat
      BY <1>2, <2>4
    <3> QED
      BY <2>4, <3>1 DEF CallOK, Phase, Task, Preparing
  <2> QED
    BY <1>3, <2>1, <2>2, <2>5, OneCall
<1>4. CASE ReadTask(e)
  <2>1. Becomes(e, [exec[e] EXCEPT !.phase = "read", !.snapshot = row[Task(e)]])
    BY <1>4, Starts
  <2>2. UNCHANGED lock /\ exec[e].phase # "recalling"
    BY <1>4 DEF ReadTask, Phase
  <2>3. CallOK(e)'
    BY <1>1, <1>2, <1>4, <2>1 DEF Becomes, CallOK, Call, ReadTask, Phase, Task, Preparing, Idle
  <2> QED
    BY <2>1, <2>2, <2>3, OneCall
<1>5. CASE MarkInProgress(e)
  <2>1. Becomes(e, [exec[e] EXCEPT !.phase = "preparing", !.snapshot = None])
    BY <1>5, Starts
  <2>2. UNCHANGED lock /\ exec[e].phase # "recalling"
    BY <1>5 DEF MarkInProgress, Phase
  <2>3. CallOK(e)'
    BY <1>1, <1>2, <1>5, <2>1 DEF Becomes, CallOK, Call, MarkInProgress, Phase, Task, Preparing, Idle
  <2> QED
    BY <2>1, <2>2, <2>3, OneCall
<1>6. CASE AbandonStart(e)
  <2>1. Becomes(e, [exec[e] EXCEPT !.phase = "abandoned", !.snapshot = None])
    BY <1>6, Starts
  <2>2. UNCHANGED lock /\ exec[e].phase # "recalling"
    BY <1>6 DEF AbandonStart, MayFail, Phase
  <2>3. CallOK(e)'
    BY <1>1, <1>2, <1>6, <2>1 DEF Becomes, CallOK, Call, AbandonStart, MayFail, Phase, Task, Preparing, Idle
  <2> QED
    BY <2>1, <2>2, <2>3, OneCall
<1>7. CASE SpawnAgent(e)
  <2>1. Becomes(e, [exec[e] EXCEPT !.phase = "preparing", !.agents = Append(@, "queued")])
    BY <1>7, Starts
  <2>2. UNCHANGED lock /\ exec[e].phase # "recalling"
    BY <1>7 DEF SpawnAgent, Phase
  <2>3. CallOK(e)'
    <3>1. /\ Phase(e, "recalled") /\ Preparing(e) <= Len(AgentsOf[Task(e)])
          /\ ~ exec[e].embedded
      BY <1>1, <1>7 DEF SpawnAgent, CallOK, Phase
    <3>2. /\ exec'[e].phase = "preparing" /\ exec'[e].task = exec[e].task
          /\ Len(exec'[e].agents) = Preparing(e) /\ exec'[e].embedded = exec[e].embedded
      <4>1. /\ exec'[e].phase = "preparing" /\ exec'[e].task = exec[e].task
            /\ exec'[e].agents = Append(exec[e].agents, "queued")
            /\ exec'[e].embedded = exec[e].embedded
        BY <1>1, <2>1 DEF Becomes, Call
      <4>2. exec[e].agents \in Seq(AgentStates)
        BY <1>1 DEF Call, AgentStates
      <4> QED
        BY <4>1, <4>2 DEF Preparing
    <3> QED
      BY <1>1, <3>1, <3>2 DEF CallOK, Phase, Task, Preparing
  <2> QED
    BY <2>1, <2>2, <2>3, OneCall
<1>8. CASE SpawnWaiter(e)
  <2>1. Becomes(e, [exec[e] EXCEPT !.phase = "waiting"])
    BY <1>8, Starts
  <2>2. UNCHANGED lock /\ exec[e].phase # "recalling"
    BY <1>8 DEF SpawnWaiter, Phase
  <2>3. CallOK(e)'
    BY <1>1, <1>2, <1>8, <2>1 DEF Becomes, CallOK, Call, SpawnWaiter, Phase, Task, Preparing, Idle
  <2> QED
    BY <2>1, <2>2, <2>3, OneCall
<1> QED
  BY <1>3, <1>4, <1>5, <1>6, <1>7, <1>8, LocksTaken, LocksFreed DEF StartNext

\* And while its agents run and it ends.
LEMMA EndTypes ==
  ASSUME TypeOK, NEW e \in Execs,
         \/ EndNext(e) \/ LoseStatus(e)
         \/ \E i \in AgentIds : AgentStarts(e, i) \/ AgentEnds(e, i)
  PROVE  ExecOK'
<1>1. exec[e] \in Call /\ CallOK(e) /\ None \notin Tasks
  BY TaskAssumption DEF TypeOK
<1>2. CASE Forget(e) \/ Requeue(e) \/ LoseStatus(e) \/ (WriteStatus(e) /\ ~ Requeues(e))
  <2>1. Becomes(e, Idle)
    BY <1>2, Ends
  <2>2. UNCHANGED lock /\ exec[e].phase # "recalling"
    BY <1>2 DEF Forget, Requeue, LoseStatus, WriteStatus, Phase
  <2>3. CallOK(e)'
    BY <2>1 DEF Becomes, CallOK, Phase, Task, Preparing, Idle
  <2> QED
    BY <2>1, <2>2, <2>3, OneCall
<1>3. CASE WriteStatus(e) /\ Requeues(e)
  <2>1. Becomes(e, [exec[e] EXCEPT !.phase = "requeue"])
    BY <1>3, Ends
  <2>2. UNCHANGED lock /\ Phase(e, "released")
    BY <1>3 DEF WriteStatus
  <2>3. CallOK(e)'
    BY <1>1, <2>1, <2>2 DEF Becomes, CallOK, Call, Phase, Task, Preparing, Idle
  <2> QED
    BY <2>1, <2>2, <2>3, OneCall DEF Phase
<1>4. CASE ReleaseTask(e)
  <2>1. Becomes(e, [exec[e] EXCEPT !.phase = "released"])
    BY <1>4, Ends
  <2>2. UNCHANGED lock /\ Phase(e, "waiting")
    BY <1>4 DEF ReleaseTask
  <2>3. CallOK(e)'
    BY <1>1, <2>1, <2>2 DEF Becomes, CallOK, Call, Phase, Task, Preparing, Idle
  <2> QED
    BY <2>1, <2>2, <2>3, OneCall DEF Phase
<1>5. ASSUME NEW i \in AgentIds, AgentStarts(e, i) \/ AgentEnds(e, i)
      PROVE  ExecOK'
  <2>1. PICK x \in AgentStates :
          Becomes(e, [exec[e] EXCEPT !.agents = [@ EXCEPT ![i] = x]])
    BY <1>5, Ends DEF AgentStates
  <2>2. i <= Len(exec[e].agents) /\ UNCHANGED lock
    BY <1>5 DEF AgentStarts, AgentEnds
  <2>3. /\ exec'[e].phase = exec[e].phase /\ exec'[e].task = exec[e].task
        /\ exec'[e].agents = [exec[e].agents EXCEPT ![i] = x]
        /\ exec'[e].snapshot = exec[e].snapshot /\ exec'[e].embedded = exec[e].embedded
    BY <1>1, <2>1 DEF Becomes, Call
  <2>4. Len(exec'[e].agents) = Len(exec[e].agents)
    BY <1>1, <2>2, <2>3, AgentSet
  <2>5. ~ Phase(e, "idle")
    BY <1>1, <2>2 DEF CallOK, Idle, AgentIds
  <2>6. CallOK(e)'
    BY <1>1, <2>3, <2>4, <2>5 DEF CallOK, Phase, Task, Preparing
  <2> QED
    BY <2>1, <2>2, <2>3, <2>4, <2>6, OneCall DEF Task, Preparing
<1> QED
  BY <1>2, <1>3, <1>4, <1>5 DEF EndNext

\* A poller, an event, a user, the clock or a restart writes the table.
LEMMA TableTypes ==
  ASSUME TypeOK, NEW t \in Tasks,
         \/ \E p \in Pollers : Touch(p, t)
         \/ TickFails(t) \/ FireEvent(t) \/ TimePasses(t) \/ Pause(t) \/ Enable(t) \/ RunSoon(t)
  PROVE  row' \in [Tasks -> Row] /\ kind' \in [Tasks -> Kinds]
<1>1. row[t] \in Row /\ row[t].next \in {"none", "later", "due"}
  BY DEF TypeOK, Row
<1>2. NextRun(t) \in {"none", "later", "due"}
  BY DEF NextRun
<1>3. \A n \in {"none", "later", "due"} : [row[t] EXCEPT !.next = n] \in Row
  BY <1>1, RowFields DEF Status
<1>4. [row[t] EXCEPT !.enabled = FALSE] \in Row
  BY <1>1 DEF Row
<1>5. [row[t] EXCEPT !.enabled = TRUE, !.next = IF @ = "none" THEN "due" ELSE @] \in Row
  BY <1>1 DEF Row
<1>6. [status |-> "assigned", enabled |-> TRUE, next |-> "due"] \in Row
  BY DEF Row, Status
<1>7. \E r \in Row : Write(t, r)
  <2> HIDE DEF Row
  <2>1. CASE \E p \in Pollers : Touch(p, t)
    BY <2>1, <1>2, <1>3 DEF Touch
  <2>2. CASE TickFails(t)
    BY <2>2, <1>1, <1>2, <1>3 DEF TickFails
  <2>3. CASE FireEvent(t)
    BY <2>3, <1>1, <1>3 DEF FireEvent
  <2>4. CASE TimePasses(t)
    BY <2>4, <1>3 DEF TimePasses
  <2>5. CASE Pause(t) \/ Enable(t) \/ RunSoon(t)
    BY <2>5, <1>4, <1>5, <1>6 DEF Pause, Enable, RunSoon, UserWrites
  <2> QED
    BY <2>1, <2>2, <2>3, <2>4, <2>5
<1> QED
  BY <1>7, WriteTypes

\* A step that touches neither calls nor locks keeps theirs.
LEMMA NoCallTypes ==
  ASSUME TypeOK, UNCHANGED <<exec, lock>>
  PROVE  ExecOK'
<1>1. ASSUME NEW e \in Execs PROVE CallOK(e)'
  BY DEF TypeOK, CallOK, Phase, Task, Preparing
<1>2. ASSUME NEW a \in Agents PROVE LockOK(a)'
  BY DEF TypeOK, LockOK, Phase, Agent, Task, Preparing
<1> QED
  BY <1>1, <1>2 DEF TypeOK, ExecOK

\* The sets of tasks stay sets of tasks.
SetsOK ==
    /\ inflight \subseteq Tasks /\ due \in [Pollers -> SUBSET Tasks]
    /\ ticked \subseteq Tasks /\ launched \subseteq Tasks /\ failed \subseteq Tasks

\* The types after a step of a call.
LEMMA CallTypes ==
  ASSUME TypeOK, NEW e \in Execs, ExecNext(e)
  PROVE  TypeOK'
<1>1. /\ exec[e] \in Call /\ CallOK(e) /\ Idle.task = None
      /\ ~ Phase(e, "idle") => Task(e) \in Tasks /\ row[Task(e)] \in Row
      /\ Phase(e, "read") => exec[e].snapshot \in Row
  BY DEF TypeOK, CallOK, Idle
<1> HIDE DEF Row
<1>2. ExecOK'
  BY StartTypes, EndTypes DEF ExecNext, RunTask, RunLaunched
<1>3. row' \in [Tasks -> Row] /\ kind' \in [Tasks -> Kinds]
  <2>1. CASE MarkInProgress(e)
    <3>1. exec[e].snapshot \in Row /\ Task(e) \in Tasks
      BY <1>1, <2>1 DEF MarkInProgress, Phase
    <3> QED
      BY <2>1, <3>1, RowFields, WriteTypes DEF MarkInProgress, Status
  <2>2. CASE WriteStatus(e)
    <3>1. row[Task(e)] \in Row /\ Task(e) \in Tasks /\ Outcome(e) \in Status
      BY <1>1, <2>2 DEF WriteStatus, Phase, Outcome, Status
    <3>2. [row[Task(e)] EXCEPT !.status = Outcome(e)] \in Row
      BY <3>1, RowFields
    <3> QED
      BY <2>2, <3>1, <3>2, WriteTypes DEF WriteStatus
  <2>3. CASE Requeue(e)
    <3>1. row[Task(e)] \in Row /\ Task(e) \in Tasks
      BY <1>1, <2>3 DEF Requeue, Phase
    <3>2. [row[Task(e)] EXCEPT !.next = "later", !.enabled = TRUE] \in Row
      BY <3>1 DEF Row
    <3> QED
      BY <2>3, <3>1, <3>2, WriteTypes DEF Requeue
  <2>4. MarkInProgress(e) \/ WriteStatus(e) \/ Requeue(e) \/ UNCHANGED dbVars
    BY DEF ExecNext, StartNext, EndNext, ReadTask, FinishRecall, SpawnAgent, SpawnWaiter,
           AbandonStart, Recall, Forget, ReleaseTask, LoseStatus, AgentStarts, AgentEnds,
           RunTask, RunLaunched
  <2> QED
    BY <2>1, <2>2, <2>3, <2>4 DEF TypeOK, dbVars
<1>4. SetsOK'
  <2>1. inflight' \subseteq inflight \cup Tasks
    BY DEF ExecNext, StartNext, EndNext, ReadTask, MarkInProgress, FinishRecall, SpawnAgent,
           SpawnWaiter, AbandonStart, Recall, Forget, ReleaseTask, WriteStatus, Requeue,
           LoseStatus, AgentStarts, AgentEnds, RunTask, RunLaunched, Claim
  <2>2. /\ due' = due /\ ticked' = ticked /\ launched' \subseteq launched
    BY DEF ExecNext, StartNext, EndNext, ReadTask, MarkInProgress, FinishRecall, SpawnAgent,
           SpawnWaiter, AbandonStart, Recall, Forget, ReleaseTask, WriteStatus, Requeue,
           LoseStatus, AgentStarts, AgentEnds, RunTask, RunLaunched, pollVars
  <2>3. CASE AbandonStart(e) \/ LoseStatus(e)
    <3>1. Task(e) \in Tasks
      BY <1>1, <2>3 DEF AbandonStart, MayFail, LoseStatus, Phase
    <3> QED
      BY <2>1, <2>2, <2>3, <3>1 DEF SetsOK, TypeOK, AbandonStart, LoseStatus, Fail
  <2>4. AbandonStart(e) \/ LoseStatus(e) \/ UNCHANGED failed
    BY DEF ExecNext, StartNext, EndNext, ReadTask, MarkInProgress, FinishRecall, SpawnAgent,
           SpawnWaiter, Recall, Forget, ReleaseTask, WriteStatus, Requeue,
           AgentStarts, AgentEnds, RunTask, RunLaunched
  <2> QED
    BY <2>1, <2>2, <2>3, <2>4 DEF SetsOK, TypeOK
<1> QED
  BY <1>2, <1>3, <1>4 DEF TypeOK, ExecOK, SetsOK

\* The types after a step of what polls.
LEMMA PollTypes ==
  ASSUME TypeOK, PollNext
  PROVE  TypeOK'
<1> HIDE DEF Row
<1>1. UNCHANGED runVars
  BY DEF PollNext, TimerRuns, ReadDue, Touch, HeartbeatSkips, TickFails, RefuseLaunched
<1>2. ExecOK' /\ inflight' \subseteq Tasks
  BY <1>1, NoCallTypes DEF runVars, TypeOK
<1>3. row' \in [Tasks -> Row] /\ kind' \in [Tasks -> Kinds]
  <2>1. \/ \E t \in Tasks, p \in Pollers : Touch(p, t)
        \/ \E t \in Tasks : TickFails(t)
        \/ UNCHANGED dbVars
    BY DEF PollNext, TimerRuns, ReadDue, HeartbeatSkips, RefuseLaunched
  <2> QED
    BY <2>1, TableTypes DEF TypeOK, dbVars
<1>4. due' \in [Pollers -> SUBSET Tasks]
  BY DEF PollNext, TimerRuns, ReadDue, Touch, HeartbeatSkips, TickFails, RefuseLaunched, TypeOK
<1>5. ticked' \subseteq Tasks /\ launched' \subseteq Tasks
  BY DEF PollNext, TimerRuns, ReadDue, Touch, HeartbeatSkips, TickFails, RefuseLaunched, TypeOK
<1>6. failed' \subseteq Tasks
  BY DEF PollNext, TimerRuns, ReadDue, Touch, HeartbeatSkips, TickFails, RefuseLaunched,
         TypeOK, Fail
<1> QED
  BY <1>2, <1>3, <1>4, <1>5, <1>6 DEF TypeOK, ExecOK

\* The types after any step.
LEMMA TypeStep ==
  ASSUME TypeOK, [Next]_vars
  PROVE  TypeOK'
<1> HIDE DEF Row
<1>1. CASE \E e \in Execs : ExecNext(e)
  BY <1>1, CallTypes
<1>2. CASE PollNext
  BY <1>2, PollTypes
<1>3. CASE \E t \in Tasks :
             FireEvent(t) \/ TimePasses(t) \/ Pause(t) \/ Enable(t) \/ RunSoon(t)
  <2>1. row' \in [Tasks -> Row] /\ kind' \in [Tasks -> Kinds]
    BY <1>3, TableTypes
  <2>2. /\ UNCHANGED <<exec, lock, inflight, due, ticked, failed>>
        /\ launched' \subseteq launched \cup Tasks
    BY <1>3 DEF FireEvent, TimePasses, Pause, Enable, RunSoon, UserWrites, runVars, pollVars
  <2> QED
    BY <2>1, <2>2, NoCallTypes DEF TypeOK, ExecOK
<1>4. CASE Restart
  <2>1. Idle \in Call
    BY DEF Idle, Call
  <2>2. \A e \in Execs : CallOK(e)' /\ exec'[e] = Idle
    BY <1>4 DEF Restart, AllIdle, CallOK, Phase, Task, Preparing, Idle
  <2>3. exec' \in [Execs -> Call] /\ lock' \in [Agents -> Execs \cup {None}]
    BY <1>4, <2>1 DEF Restart, AllIdle, Unlocked
  <2>4. \A a \in Agents : LockOK(a)'
    BY <1>4 DEF Restart, Unlocked, LockOK
  <2>5. failed' \subseteq Tasks
    BY <1>4 DEF Restart, Fail, TypeOK
  <2> QED
    BY <1>4, <2>2, <2>3, <2>4, <2>5 DEF Restart, TypeOK, NothingDue, dbVars
<1>5. CASE UNCHANGED vars
  BY <1>5, NoCallTypes DEF TypeOK, ExecOK, vars, dbVars, runVars, pollVars
<1> QED
  BY <1>1, <1>2, <1>3, <1>4, <1>5 DEF Next

\* The types at the start.
LEMMA InitTypes ==
  ASSUME Init
  PROVE  TypeOK
<1>1. ASSUME NEW k \in Kinds PROVE NewRow(k) \in Row
  BY DEF NewRow, Row, Status
<1>2. row \in [Tasks -> Row] /\ kind \in [Tasks -> Kinds]
  BY <1>1 DEF Init
<1> HIDE DEF Row
<1>3. Idle \in Call
  BY DEF Idle, Call
<1>4. \A e \in Execs : CallOK(e) /\ exec[e] = Idle
  BY DEF Init, AllIdle, CallOK, Phase, Task, Preparing, Idle
<1>5. exec \in [Execs -> Call] /\ lock \in [Agents -> Execs \cup {None}]
  BY <1>3 DEF Init, AllIdle, Unlocked
<1>6. \A a \in Agents : LockOK(a)
  BY DEF Init, Unlocked, LockOK
<1> QED
  BY <1>2, <1>4, <1>5, <1>6 DEF Init, TypeOK, NothingDue

(* In any state of execute_task, its pollers and its users, what each       *)
(* variable holds is what the code's types allow: a call that is under way  *)
(* has a task, and the lock of an agent is held by the call that prepares it. *)
THEOREM TaskTypes == Spec => []TypeOK
<1>1. Init => TypeOK
  BY InitTypes
<1>2. TypeOK /\ [Next]_vars => TypeOK'
  BY TypeStep
<1> QED
  BY <1>1, <1>2, PTL DEF Spec

-----------------------------------------------------------------------------
(* What a step does to the calls *)

Others(e) == \A d \in Execs \ {e} : exec'[d] = exec[d]

\* A step of one call leaves the others alone.
LEMMA BecomesOthers ==
  ASSUME TypeOK, NEW e \in Execs, NEW c, Becomes(e, c)
  PROVE  Others(e)
  BY DEF TypeOK, Becomes, Others

\* A call that claims a task was idle.
LEMMA ClaimStep ==
  ASSUME TypeOK, NEW e \in Execs, NEW t \in Tasks, Claim(e, t)
  PROVE  /\ exec[e] = Idle /\ Others(e)
         /\ exec'[e].phase = "claimed" /\ Task(e)' = t
         /\ exec'[e].agents = <<>>
<1>1. exec[e] \in Call /\ exec[e] = Idle
  BY DEF TypeOK, CallOK, Claim
<1>2. Becomes(e, [exec[e] EXCEPT !.phase = "claimed", !.task = t])
  BY Starts
<1>3. /\ exec'[e].phase = "claimed" /\ exec'[e].task = t
      /\ exec'[e].agents = exec[e].agents
  <2>1. exec'[e] = [exec[e] EXCEPT !.phase = "claimed", !.task = t]
    BY <1>2 DEF Becomes
  <2> QED
    BY <1>1, <2>1 DEF Call
<1>4. exec[e].agents = <<>>
  BY <1>1 DEF Idle
<1> QED
  BY <1>1, <1>2, <1>3, <1>4, BecomesOthers DEF Task

\* A start goes on, with the task it has.
LEMMA StartStep ==
  ASSUME TypeOK, NEW e \in Execs, StartNext(e) \/ Recall(e)
  PROVE  /\ exec[e].phase \in Starting /\ exec'[e].phase \in Starting \cup {"waiting"}
         /\ Task(e)' = Task(e) /\ Task(e) \in Tasks /\ Others(e)
         /\ Phase(e, "read")' => ReadTask(e) /\ exec'[e].snapshot = row[Task(e)]
         /\ UNCHANGED <<inflight, pollVars, failed>>
<1>1. exec[e] \in Call /\ CallOK(e)
  BY DEF TypeOK
<1>2. UNCHANGED <<inflight, pollVars, failed>>
  BY DEF StartNext, ReadTask, MarkInProgress, FinishRecall, SpawnAgent, SpawnWaiter, Recall
<1>3. exec[e].phase \in Starting
  BY DEF StartNext, ReadTask, MarkInProgress, FinishRecall, SpawnAgent, SpawnWaiter, Recall,
         Phase, Starting
<1>4. Task(e) \in Tasks
  BY <1>1, <1>3 DEF CallOK, Phase, Starting
<1> HIDE DEF Row
<1>5. CASE ReadTask(e)
  <2>1. Becomes(e, [exec[e] EXCEPT !.phase = "read", !.snapshot = row[Task(e)]])
    BY <1>5, Starts
  <2>2. /\ exec'[e].phase = "read" /\ exec'[e].task = exec[e].task
        /\ exec'[e].snapshot = row[Task(e)]
    BY <1>1, <2>1 DEF Becomes, Call
  <2> QED
    BY <1>2, <1>3, <1>4, <1>5, <2>1, <2>2, BecomesOthers DEF Task, Starting
<1>6. CASE ~ ReadTask(e)
  <2>1. \E ph \in {"preparing", "recalling", "recalled", "waiting"} :
          exec'[e].phase = ph /\ exec'[e].task = exec[e].task /\ Others(e)
    <3>1. CASE MarkInProgress(e)
      <4>1. Becomes(e, [exec[e] EXCEPT !.phase = "preparing", !.snapshot = None])
        BY <3>1, Starts
      <4> QED
        BY <1>1, <4>1, BecomesOthers DEF Becomes, Call
    <3>2. CASE FinishRecall(e)
      <4>1. Becomes(e, [exec[e] EXCEPT !.phase = "recalled", !.embedded = FALSE])
        BY <3>2, Starts
      <4> QED
        BY <1>1, <4>1, BecomesOthers DEF Becomes, Call
    <3>3. CASE SpawnAgent(e)
      <4>1. Becomes(e, [exec[e] EXCEPT !.phase = "preparing", !.agents = Append(@, "queued")])
        BY <3>3, Starts
      <4> QED
        BY <1>1, <4>1, BecomesOthers DEF Becomes, Call
    <3>4. CASE SpawnWaiter(e)
      <4>1. Becomes(e, [exec[e] EXCEPT !.phase = "waiting"])
        BY <3>4, Starts
      <4> QED
        BY <1>1, <4>1, BecomesOthers DEF Becomes, Call
    <3>5. CASE Recall(e)
      <4>1. PICK b \in Embeddings :
              Becomes(e, [exec[e] EXCEPT !.phase = "recalling", !.embedded = b])
        BY <3>5, Starts
      <4> QED
        BY <1>1, <4>1, BecomesOthers DEF Becomes, Call
    <3> QED
      BY <1>6, <3>1, <3>2, <3>3, <3>4, <3>5 DEF StartNext
  <2> QED
    BY <1>2, <1>3, <1>4, <2>1 DEF Task, Phase, Starting
<1> QED
  BY <1>5, <1>6

\* A start that fails keeps its task and its agents.
LEMMA AbandonStep ==
  ASSUME TypeOK, NEW e \in Execs, AbandonStart(e)
  PROVE  /\ exec[e].phase \in Starting /\ exec'[e].phase = "abandoned"
         /\ Task(e)' = Task(e) /\ Task(e) \in Tasks /\ Others(e)
         /\ exec'[e].agents = exec[e].agents
<1>1. exec[e] \in Call /\ CallOK(e)
  BY DEF TypeOK
<1>2. Becomes(e, [exec[e] EXCEPT !.phase = "abandoned", !.snapshot = None])
  BY Starts
<1>3. /\ exec'[e].phase = "abandoned" /\ exec'[e].task = exec[e].task
      /\ exec'[e].agents = exec[e].agents
  <2>1. exec'[e] = [exec[e] EXCEPT !.phase = "abandoned", !.snapshot = None]
    BY <1>2 DEF Becomes
  <2> QED
    BY <1>1, <2>1 DEF Call
<1>4. exec[e].phase \in Starting
  BY DEF AbandonStart, MayFail, Starting
<1>5. Task(e) \in Tasks
  BY <1>1, <1>4 DEF CallOK, Phase, Starting
<1> QED
  BY <1>2, <1>3, <1>4, <1>5, BecomesOthers DEF Task

\* An agent that starts or ends was one the call had not settled.
LEMMA AgentStep ==
  ASSUME TypeOK, NEW e \in Execs, NEW i \in AgentIds, AgentStarts(e, i) \/ AgentEnds(e, i)
  PROVE  /\ ~ Settled(e)
         /\ exec'[e].phase = exec[e].phase /\ Task(e)' = Task(e) /\ Others(e)
         /\ exec'[e].snapshot = exec[e].snapshot
         /\ UNCHANGED <<dbVars, inflight, pollVars, failed>>
<1>1. exec[e] \in Call
  BY DEF TypeOK
<1>2. PICK x \in AgentStates :
        Becomes(e, [exec[e] EXCEPT !.agents = [@ EXCEPT ![i] = x]])
  BY Ends DEF AgentStates
<1>3. /\ exec'[e].phase = exec[e].phase /\ exec'[e].task = exec[e].task
      /\ exec'[e].snapshot = exec[e].snapshot
  BY <1>1, <1>2 DEF Becomes, Call
<1>4. i \in 1..Len(exec[e].agents) /\ exec[e].agents[i] \in {"queued", "running"}
  BY <1>1, AgentSet DEF AgentStarts, AgentEnds, AgentStates, AgentIds, Call
<1>5. UNCHANGED <<dbVars, inflight, pollVars, failed>>
  BY DEF AgentStarts, AgentEnds
<1> QED
  BY <1>2, <1>3, <1>4, <1>5, BecomesOthers DEF Task, Settled

\* A task is let go when all its agents have ended.
LEMMA ReleaseStep ==
  ASSUME TypeOK, NEW e \in Execs, ReleaseTask(e)
  PROVE  /\ Phase(e, "waiting") /\ exec'[e].phase = "released"
         /\ Task(e)' = Task(e) /\ Others(e)
         /\ exec'[e].agents = exec[e].agents /\ Settled(e)
<1>1. exec[e] \in Call
  BY DEF TypeOK
<1>2. Becomes(e, [exec[e] EXCEPT !.phase = "released"])
  BY Ends
<1>3. /\ exec'[e].phase = "released" /\ exec'[e].task = exec[e].task
      /\ exec'[e].agents = exec[e].agents
  BY <1>1, <1>2 DEF Becomes, Call
<1> QED
  BY <1>2, <1>3, BecomesOthers DEF Task, ReleaseTask

\* The call that goes on to requeue its task keeps it.
LEMMA RequeueStep ==
  ASSUME TypeOK, NEW e \in Execs, WriteStatus(e), Requeues(e)
  PROVE  /\ Phase(e, "released") /\ exec'[e].phase = "requeue"
         /\ Task(e)' = Task(e) /\ Others(e)
         /\ exec'[e].agents = exec[e].agents
<1>1. exec[e] \in Call
  BY DEF TypeOK
<1>2. Becomes(e, [exec[e] EXCEPT !.phase = "requeue"])
  BY Ends
<1>3. /\ exec'[e].phase = "requeue" /\ exec'[e].task = exec[e].task
      /\ exec'[e].agents = exec[e].agents
  BY <1>1, <1>2 DEF Becomes, Call
<1> QED
  BY <1>2, <1>3, BecomesOthers DEF Task, WriteStatus

\* The call is over.
LEMMA IdleStep ==
  ASSUME TypeOK, NEW e \in Execs,
         \/ Forget(e) \/ Requeue(e) \/ LoseStatus(e)
         \/ WriteStatus(e) /\ ~ Requeues(e)
  PROVE  /\ exec[e].phase \in {"abandoned", "released", "requeue"} /\ Task(e) \in Tasks
         /\ exec'[e] = Idle /\ Others(e) /\ ~ AtWork(e)'
         /\ UNCHANGED <<inflight, pollVars>>
<1>1. exec'[e] = Idle /\ Others(e)
  BY Ends, BecomesOthers DEF Becomes
<1>2. /\ exec[e].phase \in {"abandoned", "released", "requeue"}
      /\ UNCHANGED <<inflight, pollVars>>
  BY DEF Forget, Requeue, LoseStatus, WriteStatus, Phase
<1>3. Task(e) \in Tasks
  BY <1>2 DEF TypeOK, CallOK, Phase
<1>4. ~ AtWork(e)'
  BY <1>1 DEF AtWork, Settled, Idle, Starting
<1> QED
  BY <1>1, <1>2, <1>3, <1>4

-----------------------------------------------------------------------------
(* One run per task *)

Alone == Claims /\ OneRunPerTask /\ Released

\* A step of one call keeps the claims if it keeps its own and nobody shares it.
LEMMA AloneKept ==
  ASSUME Alone, NEW e \in Execs, Others(e),
         AtWork(e)' => /\ Task(e)' \in inflight'
                       /\ \A d \in Execs \ {e} : AtWork(d) => Task(d) # Task(e)',
         \A d \in Execs \ {e} : AtWork(d) => Task(d) \in inflight',
         exec'[e].phase \in {"released", "requeue"} => Settled(e)'
  PROVE  Alone'
<1>1. \A d \in Execs \ {e} : /\ AtWork(d)' = AtWork(d) /\ Task(d)' = Task(d)
                             /\ Settled(d)' = Settled(d)
                             /\ exec'[d].phase = exec[d].phase
  BY DEF Others, AtWork, Task, Settled
<1>2. Claims'
  BY <1>1 DEF Claims
<1>3. OneRunPerTask'
  BY <1>1 DEF Alone, OneRunPerTask
<1>4. Released'
  BY <1>1 DEF Alone, Released
<1> QED
  BY <1>2, <1>3, <1>4 DEF Alone

\* A call that is at work stays so with the same task, or is no longer at work.
LEMMA AloneAtWork ==
  ASSUME Alone, NEW e \in Execs, Others(e), UNCHANGED inflight,
         \/ AtWork(e) /\ Task(e)' = Task(e)
         \/ ~ AtWork(e)',
         exec'[e].phase \in {"released", "requeue"} => Settled(e)'
  PROVE  Alone'
<1>1. \A d \in Execs : AtWork(d) => Task(d) \in inflight'
  BY DEF Alone, Claims
<1>2. AtWork(e) => \A d \in Execs \ {e} : AtWork(d) => Task(d) # Task(e)
  BY DEF Alone, OneRunPerTask
<1> QED
  BY <1>1, <1>2, AloneKept

\* No step of a call makes two of them run a task.
LEMMA AloneCall ==
  ASSUME TypeOK, Alone, NEW e \in Execs, ExecNext(e)
  PROVE  Alone'
<1>1. ASSUME NEW t \in Tasks, RunTask(e, t) \/ RunLaunched(e, t) PROVE Alone'
  <2>1. Claim(e, t) /\ t \notin inflight /\ inflight' = inflight \cup {t}
    BY <1>1 DEF RunTask, RunLaunched, Claim
  <2>2. Task(e)' = t /\ exec'[e].phase = "claimed" /\ Others(e)
    BY <2>1, ClaimStep
  <2>3. \A d \in Execs : AtWork(d) => Task(d) \in inflight
    BY DEF Alone, Claims
  <2> QED
    BY <2>1, <2>2, <2>3, AloneKept
<1>2. CASE StartNext(e) \/ Recall(e)
  <2>1. AtWork(e)
    BY <1>2, StartStep DEF AtWork
  <2>2. exec'[e].phase \notin {"released", "requeue"}
    BY <1>2, StartStep DEF Starting
  <2> QED
    BY <1>2, <2>1, <2>2, StartStep, AloneAtWork
<1>3. CASE AbandonStart(e)
  <2>1. AtWork(e) /\ UNCHANGED inflight
    BY <1>3, AbandonStep DEF AtWork, AbandonStart
  <2>2. exec'[e].phase = "abandoned" /\ Task(e)' = Task(e) /\ Others(e)
    BY <1>3, AbandonStep
  <2> QED
    BY <2>1, <2>2, AloneAtWork
<1>4. CASE ReleaseTask(e)
  <2>1. /\ AtWork(e) /\ inflight' = inflight \ {Task(e)}
        /\ exec'[e].phase = "released" /\ Others(e)
    BY <1>4, ReleaseStep DEF AtWork, ReleaseTask, Phase
  <2>2. Settled(e)'
    BY <1>4, ReleaseStep DEF Settled
  <2>3. ~ AtWork(e)'
    BY <2>1, <2>2 DEF AtWork, Starting
  <2>4. \A d \in Execs \ {e} : AtWork(d) => Task(d) \in inflight'
    BY <2>1 DEF Alone, Claims, OneRunPerTask
  <2> QED
    BY <2>1, <2>2, <2>3, <2>4, AloneKept
<1>5. CASE WriteStatus(e) /\ Requeues(e)
  <2>1. exec'[e].phase = "requeue" /\ Others(e) /\ UNCHANGED inflight
    BY <1>5, RequeueStep DEF WriteStatus
  <2>2. Settled(e)
    BY <1>5, RequeueStep DEF Alone, Released, Phase
  <2>3. Settled(e)'
    BY <1>5, <2>2, RequeueStep DEF Settled
  <2>4. ~ AtWork(e)'
    BY <2>1, <2>3 DEF AtWork, Starting
  <2> QED
    BY <2>1, <2>3, <2>4, AloneAtWork
<1>6. CASE Forget(e) \/ Requeue(e) \/ LoseStatus(e) \/ (WriteStatus(e) /\ ~ Requeues(e))
  <2>1. exec'[e] = Idle /\ Others(e) /\ ~ AtWork(e)' /\ UNCHANGED inflight
    BY <1>6, IdleStep
  <2>2. exec'[e].phase \notin {"released", "requeue"}
    BY <2>1 DEF Idle
  <2> QED
    BY <2>1, <2>2, AloneAtWork
<1>7. ASSUME NEW i \in AgentIds, AgentStarts(e, i) \/ AgentEnds(e, i) PROVE Alone'
  <2>1. /\ ~ Settled(e) /\ exec'[e].phase = exec[e].phase /\ Task(e)' = Task(e)
        /\ Others(e) /\ UNCHANGED inflight
    BY <1>7, AgentStep
  <2>2. AtWork(e) /\ exec[e].phase \notin {"released", "requeue"}
    BY <2>1 DEF AtWork, Alone, Released
  <2> QED
    BY <2>1, <2>2, AloneAtWork
<1> QED
  BY <1>1, <1>2, <1>3, <1>4, <1>5, <1>6, <1>7 DEF ExecNext, EndNext

\* No step does.
LEMMA AloneStep ==
  ASSUME TypeOK, Alone, [Next]_vars
  PROVE  Alone'
<1>1. CASE \E e \in Execs : ExecNext(e)
  BY <1>1, AloneCall
<1>2. CASE Restart
  <2>1. \A e \in Execs : exec'[e] = Idle
    BY <1>2 DEF Restart, AllIdle
  <2>2. \A e \in Execs : ~ AtWork(e)' /\ Settled(e)'
    BY <2>1 DEF AtWork, Settled, Idle, Starting
  <2> QED
    BY <2>2 DEF Alone, Claims, OneRunPerTask, Released
<1>3. CASE UNCHANGED <<exec, inflight>>
  BY <1>3 DEF Alone, Claims, OneRunPerTask, Released, AtWork, Settled, Task
<1>4. \/ \E e \in Execs : ExecNext(e)
      \/ Restart
      \/ UNCHANGED <<exec, inflight>>
  BY DEF Next, PollNext, TimerRuns, ReadDue, Touch, HeartbeatSkips, TickFails, RefuseLaunched,
         FireEvent, TimePasses, Pause, Enable, RunSoon, UserWrites, vars, runVars
<1> QED
  BY <1>1, <1>2, <1>3, <1>4

(* At most one call of execute_task is at work on a task, the agents of a   *)
(* start that failed included, however many users, pollers and events run it. *)
THEOREM TaskRunsAlone == Spec => []OneRunPerTask
<1>1. Init => TypeOK /\ Alone
  <2> SUFFICES ASSUME Init PROVE TypeOK /\ Alone
    OBVIOUS
  <2>1. \A e \in Execs : exec[e] = Idle
    BY DEF Init, AllIdle
  <2>2. \A e \in Execs : ~ AtWork(e) /\ Settled(e)
    BY <2>1 DEF AtWork, Settled, Idle, Starting
  <2> QED
    BY <2>2, InitTypes DEF Alone, Claims, OneRunPerTask, Released
<1>2. (TypeOK /\ Alone) /\ [Next]_vars => (TypeOK /\ Alone)'
  BY TypeStep, AloneStep
<1>3. (TypeOK /\ Alone) => OneRunPerTask
  BY DEF Alone
<1> QED
  BY <1>1, <1>2, <1>3, PTL DEF Spec

-----------------------------------------------------------------------------
(* What a step does to the table *)

\* The columns that say what a task is stay as they are.
LEMMA KindStep ==
  ASSUME [Next]_vars
  PROVE  kind' = kind
<1>1. CASE \E e \in Execs : ExecNext(e)
  BY <1>1 DEF ExecNext, StartNext, EndNext, ReadTask, MarkInProgress, FinishRecall, SpawnAgent,
         SpawnWaiter, AbandonStart, Recall, Forget, ReleaseTask, WriteStatus, Requeue,
         LoseStatus, AgentStarts, AgentEnds, RunTask, RunLaunched, dbVars, Write
<1>2. CASE PollNext
  BY <1>2 DEF PollNext, TimerRuns, ReadDue, Touch, HeartbeatSkips, TickFails, RefuseLaunched,
         dbVars, Write
<1> QED
  BY <1>1, <1>2 DEF Next, FireEvent, TimePasses, Pause, Enable, RunSoon, UserWrites, Restart,
         vars, dbVars, Write

\* A written row is the row of that task, and of no other.
LEMMA WriteRow ==
  ASSUME TypeOK, NEW t \in Tasks, NEW r, Write(t, r)
  PROVE  row'[t] = r /\ \A s \in Tasks \ {t} : row'[s] = row[s]
  BY DEF TypeOK, Write

\* What becomes of the next run when columns are set.
LEMMA NextColumn ==
  ASSUME NEW r \in Row, NEW x
  PROVE  /\ [r EXCEPT !.next = x].next = x
         /\ [r EXCEPT !.status = x].next = r.next
         /\ [r EXCEPT !.enabled = FALSE].next = r.next
         /\ [r EXCEPT !.next = x, !.enabled = TRUE].next = x
         /\ [r EXCEPT !.enabled = TRUE, !.next = IF @ = "none" THEN "due" ELSE @].next # "none"
  BY DEF Row

\* Only a start, which writes the row it has read, and what polls for due tasks take the
\* next run away.
LEMMA NextRunStep ==
  ASSUME TypeOK, [Next]_vars, NEW t \in Tasks, row[t].next # "none", row'[t].next = "none"
  PROVE  \/ \E e \in Execs :
               MarkInProgress(e) /\ Task(e) = t /\ exec[e].snapshot.next = "none"
         \/ (\E p \in Pollers : Touch(p, t)) /\ ~ kind[t].recurring
         \/ TickFails(t) /\ ~ kind[t].recurring
<1>1. \A s \in Tasks : row[s] \in Row
  BY DEF TypeOK
<1> HIDE DEF Row
<1>2. row'[t] # row[t]
  OBVIOUS
<1>3. ASSUME NEW e \in Execs, ExecNext(e)
      PROVE  MarkInProgress(e) /\ Task(e) = t /\ exec[e].snapshot.next = "none"
  <2>1. exec[e] \in Call /\ CallOK(e)
    BY DEF TypeOK
  <2>2. ~ UNCHANGED dbVars
    BY <1>2 DEF dbVars
  <2>3. MarkInProgress(e) \/ WriteStatus(e) \/ Requeue(e)
    BY <1>3, <2>2 DEF ExecNext, StartNext, EndNext, ReadTask, FinishRecall, SpawnAgent,
           SpawnWaiter, AbandonStart, Recall, Forget, ReleaseTask, LoseStatus, AgentStarts,
           AgentEnds, RunTask, RunLaunched
  <2>4. Task(e) \in Tasks
    BY <2>1, <2>3 DEF CallOK, MarkInProgress, WriteStatus, Requeue, Phase
  <2>5. ~ WriteStatus(e)
    <3>1. SUFFICES ASSUME WriteStatus(e) PROVE FALSE
      OBVIOUS
    <3>2. /\ row'[Task(e)] = [row[Task(e)] EXCEPT !.status = Outcome(e)]
          /\ \A s \in Tasks \ {Task(e)} : row'[s] = row[s]
      BY <2>4, <3>1, WriteRow DEF WriteStatus
    <3>3. Task(e) = t /\ row[t] \in Row
      BY <1>1, <1>2, <3>2
    <3>4. [row[t] EXCEPT !.status = Outcome(e)].next = row[t].next
      BY <3>3, NextColumn
    <3> QED
      BY <3>2, <3>3, <3>4
  <2>6. ~ Requeue(e)
    <3>1. SUFFICES ASSUME Requeue(e) PROVE FALSE
      OBVIOUS
    <3>2. /\ row'[Task(e)] = [row[Task(e)] EXCEPT !.next = "later", !.enabled = TRUE]
          /\ \A s \in Tasks \ {Task(e)} : row'[s] = row[s]
      BY <2>4, <3>1, WriteRow DEF Requeue
    <3>3. Task(e) = t /\ row[t] \in Row
      BY <1>1, <1>2, <3>2
    <3>4. [row[t] EXCEPT !.next = "later", !.enabled = TRUE].next = "later"
      BY <3>3, NextColumn
    <3> QED
      BY <3>2, <3>3, <3>4
  <2>7. MarkInProgress(e)
    BY <2>3, <2>5, <2>6
  <2>8. exec[e].snapshot \in Row
    BY <2>1, <2>7 DEF CallOK, MarkInProgress
  <2>9. /\ row'[Task(e)] = [exec[e].snapshot EXCEPT !.status = "in_progress"]
        /\ \A s \in Tasks \ {Task(e)} : row'[s] = row[s]
    BY <2>4, <2>7, WriteRow DEF MarkInProgress
  <2>10. [exec[e].snapshot EXCEPT !.status = "in_progress"].next = exec[e].snapshot.next
    BY <2>8, NextColumn
  <2>11. Task(e) = t
    BY <1>2, <2>9
  <2> QED
    BY <2>7, <2>9, <2>10, <2>11
<1>4. ASSUME PollNext
      PROVE  (\E p \in Pollers : Touch(p, t)) \/ TickFails(t)
  <2>1. (\E s \in Tasks : (\E p \in Pollers : Touch(p, s)) \/ TickFails(s)) \/ UNCHANGED dbVars
    BY <1>4 DEF PollNext, TimerRuns, ReadDue, HeartbeatSkips, RefuseLaunched
  <2>2. PICK s \in Tasks : (\E p \in Pollers : Touch(p, s)) \/ TickFails(s)
    BY <1>2, <2>1 DEF dbVars
  <2>3. s = t
    BY <1>2, <2>2, WriteRow DEF Touch, TickFails
  <2> QED
    BY <2>2, <2>3
<1>5. ASSUME (\E p \in Pollers : Touch(p, t)) \/ TickFails(t)
      PROVE  ~ kind[t].recurring
  <2>1. row'[t].next \in {row[t].next, NextRun(t)}
    <3>1. PICK next \in {row[t].next, NextRun(t)} : Write(t, [row[t] EXCEPT !.next = next])
      BY <1>5 DEF Touch, TickFails
    <3>2. row'[t] = [row[t] EXCEPT !.next = next]
      BY <3>1, WriteRow
    <3>3. [row[t] EXCEPT !.next = next].next = next
      BY <1>1, NextColumn
    <3> QED
      BY <3>2, <3>3
  <2> QED
    BY <2>1 DEF NextRun
<1>6. ~ \E s \in Tasks : FireEvent(s) \/ TimePasses(s) \/ Pause(s) \/ Enable(s) \/ RunSoon(s)
  <2>1. SUFFICES ASSUME NEW s \in Tasks,
                        FireEvent(s) \/ TimePasses(s) \/ Pause(s) \/ Enable(s) \/ RunSoon(s)
                 PROVE  FALSE
    OBVIOUS
  <2>2. \E r : Write(s, r)
    BY <2>1 DEF FireEvent, TimePasses, Pause, Enable, RunSoon, UserWrites
  <2>3. s = t
    BY <1>2, <2>2, WriteRow
  <2>4. CASE FireEvent(t)
    <3>1. PICK next \in {row[t].next, "later"} : Write(t, [row[t] EXCEPT !.next = next])
      BY <2>4 DEF FireEvent
    <3>2. row'[t] = [row[t] EXCEPT !.next = next]
      BY <3>1, WriteRow
    <3>3. [row[t] EXCEPT !.next = next].next = next
      BY <1>1, NextColumn
    <3> QED
      BY <3>2, <3>3
  <2>5. CASE TimePasses(t)
    <3>1. row'[t] = [row[t] EXCEPT !.next = "due"]
      BY <2>5, WriteRow DEF TimePasses
    <3> QED
      BY <1>1, <3>1, NextColumn
  <2>6. CASE Pause(t)
    <3>1. row'[t] = [row[t] EXCEPT !.enabled = FALSE]
      BY <2>6, WriteRow DEF Pause, UserWrites
    <3> QED
      BY <1>1, <3>1, NextColumn
  <2>7. CASE Enable(t)
    <3>1. row'[t] = [row[t] EXCEPT !.enabled = TRUE, !.next = IF @ = "none" THEN "due" ELSE @]
      BY <2>7, WriteRow DEF Enable, UserWrites
    <3> QED
      BY <1>1, <3>1, NextColumn
  <2>8. CASE RunSoon(t)
    BY <2>8, WriteRow DEF RunSoon, UserWrites
  <2> QED
    BY <2>1, <2>3, <2>4, <2>5, <2>6, <2>7, <2>8
<1> QED
  BY <1>2, <1>3, <1>4, <1>5, <1>6 DEF Next, Restart, vars, dbVars

-----------------------------------------------------------------------------
(* Recurring and persistent tasks stay scheduled *)

\* Calls change in their own steps, or by a restart.
LEMMA CallChanged ==
  ASSUME TypeOK, [Next]_vars, NEW e \in Execs, exec'[e] # exec[e]
  PROVE  ExecNext(e) \/ Restart
<1>1. CASE \E d \in Execs : ExecNext(d)
  <2>1. PICK d \in Execs : ExecNext(d)
    BY <1>1
  <2>2. Others(d)
    <3>1. ASSUME NEW t \in Tasks, RunTask(d, t) \/ RunLaunched(d, t) PROVE Others(d)
      BY <3>1, ClaimStep DEF RunTask, RunLaunched
    <3>2. CASE StartNext(d) \/ Recall(d)
      BY <3>2, StartStep
    <3>3. CASE AbandonStart(d)
      BY <3>3, AbandonStep
    <3>4. CASE EndNext(d) \/ LoseStatus(d)
      BY <3>4, ReleaseStep, RequeueStep, IdleStep DEF EndNext
    <3>5. ASSUME NEW i \in AgentIds, AgentStarts(d, i) \/ AgentEnds(d, i) PROVE Others(d)
      BY <3>5, AgentStep
    <3> QED
      BY <2>1, <3>1, <3>2, <3>3, <3>4, <3>5 DEF ExecNext
  <2> QED
    BY <2>1, <2>2 DEF Others
<1>2. CASE ~ \E d \in Execs : ExecNext(d)
  BY <1>2 DEF Next, PollNext, TimerRuns, ReadDue, Touch, HeartbeatSkips, TickFails,
         RefuseLaunched, FireEvent, TimePasses, Pause, Enable, RunSoon, UserWrites, vars, runVars
<1> QED
  BY <1>1, <1>2

\* A call keeps its task and its place, or ends one of the ways there are.
LEMMA CallStep ==
  ASSUME TypeOK, NEW e \in Execs, ExecNext(e)
  PROVE  \/ \E t \in Tasks : Claim(e, t) /\ Task(e)' = t /\ exec'[e].phase = "claimed"
                              /\ exec[e] = Idle
         \/ /\ Task(e)' = Task(e)
            /\ \/ exec'[e].phase = exec[e].phase /\ exec'[e].snapshot = exec[e].snapshot
               \/ exec[e].phase \in Starting /\ exec'[e].phase \in Starting \cup {"waiting"}
               \/ AbandonStart(e) /\ exec'[e].phase = "abandoned"
               \/ ReleaseTask(e) /\ exec'[e].phase = "released"
               \/ exec[e].phase = "released" /\ exec'[e].phase = "requeue"
         \/ /\ exec'[e] = Idle /\ exec[e].phase \in {"abandoned", "released", "requeue"}
            /\ \/ Forget(e) \/ Requeue(e) \/ LoseStatus(e)
               \/ WriteStatus(e) /\ ~ Requeues(e)
<1>1. ASSUME NEW t \in Tasks, RunTask(e, t) \/ RunLaunched(e, t)
      PROVE  Claim(e, t) /\ Task(e)' = t /\ exec'[e].phase = "claimed" /\ exec[e] = Idle
  BY <1>1, ClaimStep DEF RunTask, RunLaunched
<1>2. ASSUME StartNext(e) \/ Recall(e)
      PROVE  /\ Task(e)' = Task(e)
             /\ exec[e].phase \in Starting /\ exec'[e].phase \in Starting \cup {"waiting"}
  BY <1>2, StartStep
<1>3. ASSUME AbandonStart(e)
      PROVE  Task(e)' = Task(e) /\ exec'[e].phase = "abandoned"
  BY <1>3, AbandonStep
<1>4. ASSUME ReleaseTask(e)
      PROVE  Task(e)' = Task(e) /\ exec'[e].phase = "released"
  BY <1>4, ReleaseStep
<1>5. ASSUME WriteStatus(e), Requeues(e)
      PROVE  /\ Task(e)' = Task(e)
             /\ exec[e].phase = "released" /\ exec'[e].phase = "requeue"
  BY <1>5, RequeueStep DEF Phase
<1>6. ASSUME Forget(e) \/ Requeue(e) \/ LoseStatus(e) \/ (WriteStatus(e) /\ ~ Requeues(e))
      PROVE  exec'[e] = Idle /\ exec[e].phase \in {"abandoned", "released", "requeue"}
  BY <1>6, IdleStep
<1>7. ASSUME NEW i \in AgentIds, AgentStarts(e, i) \/ AgentEnds(e, i)
      PROVE  /\ Task(e)' = Task(e)
             /\ exec'[e].phase = exec[e].phase /\ exec'[e].snapshot = exec[e].snapshot
  BY <1>7, AgentStep
<1> QED
  BY <1>1, <1>2, <1>3, <1>4, <1>5, <1>6, <1>7 DEF ExecNext, EndNext

\* A recurring task keeps its next run, in the table and in what starts have read.
LEMMA HasNextStep ==
  ASSUME TypeOK, HasNext, [Next]_vars
  PROVE  HasNext'
<1>1. SUFFICES ASSUME NEW t \in Tasks, kind[t].recurring
               PROVE  /\ row'[t].next # "none"
                      /\ \A e \in Execs : Phase(e, "read")' /\ Task(e)' = t =>
                           exec'[e].snapshot.next # "none"
  BY KindStep DEF HasNext, Phase
<1>2. /\ row[t].next # "none"
      /\ \A e \in Execs : Phase(e, "read") /\ Task(e) = t => exec[e].snapshot.next # "none"
  BY <1>1 DEF HasNext
<1>3. row'[t].next # "none"
  <2>1. ~ \E e \in Execs :
            MarkInProgress(e) /\ Task(e) = t /\ exec[e].snapshot.next = "none"
    BY <1>2 DEF MarkInProgress
  <2> QED
    BY <1>1, <1>2, <2>1, NextRunStep
<1>4. ASSUME NEW e \in Execs, Phase(e, "read")', Task(e)' = t
      PROVE  exec'[e].snapshot.next # "none"
  <2>1. CASE exec'[e] = exec[e]
    BY <1>2, <1>4, <2>1 DEF Phase, Task
  <2>2. CASE Restart
    BY <1>4, <2>2 DEF Restart, AllIdle, Idle, Phase
  <2>3. CASE ExecNext(e)
    <3>1. CASE StartNext(e) \/ Recall(e)
      <4>1. exec'[e].snapshot = row[t]
        BY <1>4, <3>1, StartStep
      <4> QED
        BY <1>2, <4>1
    <3>2. CASE ~ (StartNext(e) \/ Recall(e))
      <4>1. ASSUME NEW s \in Tasks, RunTask(e, s) \/ RunLaunched(e, s) PROVE FALSE
        BY <1>4, <4>1, ClaimStep DEF RunTask, RunLaunched, Phase
      <4>2. ~ AbandonStart(e)
        BY <1>4, AbandonStep DEF Phase
      <4>3. ~ (EndNext(e) \/ LoseStatus(e))
        BY <1>4, ReleaseStep, RequeueStep, IdleStep DEF EndNext, Phase, Idle
      <4>4. PICK i \in AgentIds : AgentStarts(e, i) \/ AgentEnds(e, i)
        BY <2>3, <3>2, <4>1, <4>2, <4>3 DEF ExecNext
      <4>5. /\ exec[e].phase = "read" /\ Task(e) = t
            /\ exec'[e].snapshot = exec[e].snapshot
        BY <1>4, <4>4, AgentStep DEF Phase
      <4> QED
        BY <1>2, <4>5 DEF Phase
    <3> QED
      BY <3>1, <3>2
  <2> QED
    BY <2>1, <2>2, <2>3, CallChanged
<1> QED
  BY <1>3, <1>4

\* What has failed stays on record.
LEMMA FailedGrows ==
  ASSUME [Next]_vars
  PROVE  failed \subseteq failed'
<1>1. CASE \E e \in Execs : ExecNext(e)
  BY <1>1 DEF ExecNext, StartNext, EndNext, ReadTask, MarkInProgress, FinishRecall, SpawnAgent,
         SpawnWaiter, AbandonStart, Recall, Forget, ReleaseTask, WriteStatus, Requeue,
         LoseStatus, AgentStarts, AgentEnds, RunTask, RunLaunched, Fail
<1>2. CASE PollNext
  BY <1>2 DEF PollNext, TimerRuns, ReadDue, Touch, HeartbeatSkips, TickFails, RefuseLaunched,
         Fail
<1> QED
  BY <1>1, <1>2 DEF Next, FireEvent, TimePasses, Pause, Enable, RunSoon, UserWrites, Restart,
         vars, Fail

\* Starts that failed stay on record.
LEMMA OnRecordStep ==
  ASSUME TypeOK, OnRecord, [Next]_vars
  PROVE  OnRecord'
<1>1. SUFFICES ASSUME NEW e \in Execs, exec'[e].phase = "abandoned", kind[Task(e)'].persistent
               PROVE  Task(e)' \in failed'
  BY KindStep DEF OnRecord, Phase
<1>2. CASE exec[e].phase = "abandoned" /\ Task(e)' = Task(e)
  BY <1>1, <1>2, FailedGrows DEF OnRecord, Phase
<1>3. CASE AbandonStart(e)
  <2>1. Task(e)' = Task(e) /\ Task(e) \in Tasks
    BY <1>3, AbandonStep
  <2> QED
    BY <1>1, <1>3, <2>1 DEF AbandonStart, Fail
<1>4. CASE ~ ExecNext(e)
  <2>1. ~ Restart
    BY <1>1 DEF Restart, AllIdle, Idle
  <2>2. exec'[e] = exec[e]
    BY <1>4, <2>1, CallChanged
  <2> QED
    BY <1>1, <1>2, <2>2 DEF Task
<1>5. CASE ExecNext(e)
  BY <1>1, <1>2, <1>3, <1>5, CallStep DEF Idle, Starting
<1> QED
  BY <1>4, <1>5

\* Claims are added by starts and taken away by the end of a run.
LEMMA InflightStep ==
  ASSUME [Next]_vars, NEW t \in inflight', t \notin inflight
  PROVE  \E e \in Execs : Claim(e, t)
<1>1. CASE \E e \in Execs : ExecNext(e)
  BY <1>1 DEF ExecNext, StartNext, EndNext, ReadTask, MarkInProgress, FinishRecall, SpawnAgent,
         SpawnWaiter, AbandonStart, Recall, Forget, ReleaseTask, WriteStatus, Requeue,
         LoseStatus, AgentStarts, AgentEnds, RunTask, RunLaunched, Claim
<1>2. CASE PollNext
  BY <1>2 DEF PollNext, TimerRuns, ReadDue, Touch, HeartbeatSkips, TickFails, RefuseLaunched,
         runVars
<1> QED
  BY <1>1, <1>2 DEF Next, FireEvent, TimePasses, Pause, Enable, RunSoon, UserWrites, Restart,
         vars, runVars

\* A claim keeps its call.
LEMMA OwnedStep ==
  ASSUME TypeOK, Owned, [Next]_vars
  PROVE  Owned'
<1>1. SUFFICES ASSUME NEW t \in inflight', t \notin failed', kind[t].persistent
               PROVE  \E e \in Execs :
                        Task(e)' = t /\ exec'[e].phase \in Starting \cup {"waiting"}
  BY KindStep DEF Owned
<1>2. CASE t \notin inflight
  <2>1. PICK e \in Execs : Claim(e, t)
    BY <1>2, InflightStep
  <2>2. t \in Tasks
    <3>1. TypeOK'
      BY TypeStep
    <3> QED
      BY <3>1 DEF TypeOK
  <2>3. Task(e)' = t /\ exec'[e].phase = "claimed"
    BY <2>1, <2>2, ClaimStep
  <2> QED
    BY <2>3 DEF Starting
<1>3. CASE t \in inflight
  <2>1. t \notin failed /\ t \in Tasks
    BY <1>1, <1>3, FailedGrows DEF TypeOK
  <2>2. PICK e \in Execs : Task(e) = t /\ exec[e].phase \in Starting \cup {"waiting"}
    BY <1>1, <1>3, <2>1 DEF Owned
  <2>3. CASE exec'[e] = exec[e]
    BY <2>2, <2>3 DEF Task
  <2>4. ~ Restart
    BY <1>1 DEF Restart
  <2>5. CASE ExecNext(e)
    <3>1. ~ AbandonStart(e)
      BY <1>1, <2>1, <2>2 DEF AbandonStart, Fail
    <3>2. ~ ReleaseTask(e)
      BY <1>1, <2>2 DEF ReleaseTask
    <3>3. exec[e] # Idle /\ exec[e].phase \notin {"abandoned", "released", "requeue"}
      BY <2>2 DEF Idle, Starting
    <3>4. /\ Task(e)' = Task(e)
          /\ exec'[e].phase = exec[e].phase \/ exec'[e].phase \in Starting \cup {"waiting"}
      BY <2>5, <3>1, <3>2, <3>3, CallStep
    <3> QED
      BY <2>2, <3>4
  <2> QED
    BY <2>3, <2>4, <2>5, CallChanged
<1> QED
  BY <1>2, <1>3

\* A task a call has, whose next run is not set, is set again, or the failure is on record.
LEMMA TaskLost ==
  ASSUME TypeOK, HasNext, OnRecord, [Next]_vars, NEW e \in Execs,
         Task(e) \in Tasks, kind[Task(e)].persistent, row[Task(e)].next = "none",
         Task(e)' # Task(e)
  PROVE  Task(e) \in failed' \/ row'[Task(e)].next # "none"
<1>1. CASE Restart
  BY <1>1 DEF Restart, Fail
<1>2. CASE ExecNext(e)
  <2>1. exec[e] # Idle
    BY TaskAssumption DEF Idle, Task
  <2>2. \/ Forget(e) \/ Requeue(e) \/ LoseStatus(e)
        \/ WriteStatus(e) /\ ~ Requeues(e)
    BY <1>2, <2>1, CallStep
  <2>3. CASE Forget(e)
    <3>1. Task(e) \in failed
      BY <2>3 DEF Forget, OnRecord
    <3> QED
      BY <3>1, FailedGrows
  <2>4. CASE Requeue(e)
    <3>1. row'[Task(e)] = [row[Task(e)] EXCEPT !.next = "later", !.enabled = TRUE]
      BY <2>4, WriteRow DEF Requeue
    <3>2. row[Task(e)] \in Row
      BY DEF TypeOK
    <3> HIDE DEF Row
    <3>3. [row[Task(e)] EXCEPT !.next = "later", !.enabled = TRUE].next = "later"
      BY <3>2, NextColumn
    <3> QED
      BY <3>1, <3>3
  <2>5. CASE LoseStatus(e)
    BY <2>5 DEF LoseStatus, Fail
  <2>6. ~ (WriteStatus(e) /\ ~ Requeues(e))
    BY DEF Requeues, HasNext
  <2> QED
    BY <2>2, <2>3, <2>4, <2>5, <2>6
<1> QED
  BY <1>1, <1>2, CallChanged DEF Task

\* A task about to be run is run, or the failure is on record.
LEMMA LaunchLost ==
  ASSUME TypeOK, Owned, [Next]_vars, NEW t \in ticked \cup launched, kind[t].persistent,
         t \notin failed'
  PROVE  UnderWay(t)'
<1>1. CASE \E e \in Execs : ExecNext(e)
  <2>1. PICK e \in Execs : ExecNext(e)
    BY <1>1
  <2>2. CASE RunLaunched(e, t)
    <3>1. t \in Tasks
      BY DEF TypeOK
    <3>2. Task(e)' = t
      BY <2>2, <3>1, ClaimStep DEF RunLaunched
    <3> QED
      BY <3>2 DEF UnderWay
  <2>3. CASE ~ RunLaunched(e, t)
    <3>1. t \in ticked' \cup launched'
      BY <2>1, <2>3 DEF ExecNext, StartNext, EndNext, ReadTask, MarkInProgress, FinishRecall,
             SpawnAgent, SpawnWaiter, AbandonStart, Recall, Forget, ReleaseTask, WriteStatus,
             Requeue, LoseStatus, AgentStarts, AgentEnds, RunTask, RunLaunched, pollVars
    <3> QED
      BY <3>1 DEF UnderWay
  <2> QED
    BY <2>2, <2>3
<1>2. CASE RefuseLaunched(t)
  <2>1. t \notin failed /\ t \in inflight
    BY <1>2, FailedGrows DEF RefuseLaunched
  <2>2. PICK e \in Execs : Task(e) = t
    BY <2>1 DEF Owned
  <2>3. Task(e)' = t
    BY <1>2, <2>2 DEF RefuseLaunched, runVars, Task
  <2> QED
    BY <2>3 DEF UnderWay
<1>3. ~ Restart
  BY DEF Restart, Fail, TypeOK
<1>4. ASSUME NEW s \in Tasks, TickFails(s) PROVE t \in launched'
  BY <1>4 DEF TickFails, Fail
<1>5. CASE PollNext /\ ~ RefuseLaunched(t)
  <2>1. t \in ticked' \cup launched'
    BY <1>4, <1>5 DEF PollNext, TimerRuns, ReadDue, Touch, HeartbeatSkips, RefuseLaunched
  <2> QED
    BY <2>1 DEF UnderWay
<1>6. CASE (\E s \in Tasks : FireEvent(s) \/ TimePasses(s) \/ Pause(s) \/ Enable(s) \/ RunSoon(s))
           \/ UNCHANGED vars
  <2>1. t \in ticked' \cup launched'
    BY <1>6 DEF FireEvent, TimePasses, Pause, Enable, RunSoon, UserWrites, vars, pollVars
  <2> QED
    BY <2>1 DEF UnderWay
<1> QED
  BY <1>1, <1>2, <1>3, <1>5, <1>6 DEF Next

\* A persistent task keeps its future.
LEMMA FutureStep ==
  ASSUME IInv, [Next]_vars
  PROVE  Future'
<1>1. SUFFICES ASSUME NEW t \in Tasks, t \notin failed', kind[t].persistent,
                      row'[t].next = "none"
               PROVE  UnderWay(t)'
  BY KindStep DEF Future
<1>2. t \notin failed /\ TypeOK /\ HasNext /\ OnRecord /\ Owned
  BY <1>1, FailedGrows DEF IInv
<1>3. CASE row[t].next # "none"
  <2>1. ASSUME NEW e \in Execs, MarkInProgress(e), Task(e) = t PROVE UnderWay(t)'
    <3>1. Task(e)' = t
      BY <1>2, <2>1, StartStep DEF StartNext
    <3> QED
      BY <3>1 DEF UnderWay
  <2>2. ASSUME NEW p \in Pollers, Touch(p, t) PROVE UnderWay(t)'
    <3>1. t \in ticked' \cup launched'
      BY <2>2 DEF Touch
    <3> QED
      BY <3>1 DEF UnderWay
  <2>3. ~ TickFails(t)
    BY <1>1 DEF TickFails, Fail
  <2> QED
    BY <1>1, <1>2, <1>3, <2>1, <2>2, <2>3, NextRunStep
<1>4. CASE row[t].next = "none"
  <2>1. UnderWay(t)
    BY <1>1, <1>2, <1>4 DEF IInv, Future
  <2>2. ASSUME NEW e \in Execs, Task(e) = t PROVE UnderWay(t)'
    <3>1. Task(e)' = t
      BY <1>1, <1>2, <1>4, <2>2, TaskLost
    <3> QED
      BY <3>1 DEF UnderWay
  <2>3. CASE t \in ticked \cup launched
    BY <1>1, <1>2, <2>3, LaunchLost
  <2> QED
    BY <2>1, <2>2, <2>3 DEF UnderWay
<1> QED
  BY <1>3, <1>4

\* The inductive invariant holds.
LEMMA Invariant == Spec => []IInv
<1>1. Init => IInv
  <2> SUFFICES ASSUME Init PROVE IInv
    OBVIOUS
  <2>1. \A e \in Execs : exec[e] = Idle
    BY DEF Init, AllIdle
  <2>2. \A e \in Execs : ~ AtWork(e) /\ Settled(e) /\ Phase(e, "idle")
    BY <2>1 DEF AtWork, Settled, Idle, Starting, Phase
  <2>3. /\ inflight = {}
        /\ \A t \in Tasks : row[t] = NewRow(kind[t])
    BY DEF Init
  <2>4. \A t \in Tasks : kind[t].recurring \/ kind[t].persistent => row[t].next = "due"
    <3>1. ASSUME NEW k \in Kinds, k.recurring \/ k.persistent PROVE NewRow(k).next = "due"
      BY <3>1, KindBoolean DEF NewRow
    <3>2. \A t \in Tasks : kind[t] \in Kinds
      BY DEF Init
    <3> QED
      BY <2>3, <3>1, <3>2
  <2> QED
    BY <2>2, <2>3, <2>4, InitTypes
       DEF IInv, Claims, OneRunPerTask, Released, HasNext, OnRecord, Owned, Future, Phase
<1>2. IInv /\ [Next]_vars => IInv'
  BY TypeStep, AloneStep, HasNextStep, OnRecordStep, OwnedStep, FutureStep DEF IInv, Alone
<1> QED
  BY <1>1, <1>2, PTL DEF Spec

(* An enabled recurring task always has a next run: the rows execute_task   *)
(* and the users write back, read before, still have theirs.                *)
THEOREM RecurringKeepsNext == Spec => []RecurringHasNext
<1>1. IInv => RecurringHasNext
  BY DEF IInv, HasNext, RecurringHasNext
<1> QED
  BY <1>1, Invariant, PTL

(* An enabled persistent task is never forgotten, unless one of its starts, *)
(* a tick or the application has failed: the poll that takes its next run   *)
(* away launches it, and the run it joins or starts sets the next.          *)
THEOREM PersistentKeepsFuture == Spec => []PersistentHasFuture
<1>1. IInv => PersistentHasFuture
  BY DEF IInv, Future, PersistentHasFuture
<1> QED
  BY <1>1, Invariant, PTL
=============================================================================
