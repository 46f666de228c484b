--------------------------- MODULE ChatRuns_proofs ---------------------------
(***************************************************************************)
(* Machine-checked safety proofs for ChatRuns, for any sets of requests    *)
(* and sessions and any bounds.                                            *)
(***************************************************************************)
EXTENDS ChatRuns, TLAPS

USE DEF InSend, Settled, InTask, Awaits

(* One step keeps the type of every variable. *)
LEMMA TypeStep == TypeOK /\ [Next]_vars => TypeOK'
<1> SUFFICES ASSUME TypeOK, [Next]_vars PROVE TypeOK'
  OBVIOUS
<1> USE ChatAssumption DEF TypeOK
<1>1. ASSUME NEW r \in Requests, Submit(r) \/ SendNext(r) PROVE TypeOK'
  <2>1. CASE Submit(r) \/ CheckActive(r) \/ SendFails(r) \/ Prepare(r)
    BY <2>1 DEF Submit, CheckActive, SendFails, Prepare, SendStep, taskVars,
                engineVars, signalVars, uiVars
  <2>2. CASE RequestYield(r)
    BY <2>2 DEF RequestYield, SendStep, taskVars, engineVars, uiVars
  <2>3. CASE Enqueue(r)
    BY <2>3 DEF Enqueue, SendStep, taskVars, signalVars, uiVars
  <2>4. CASE StoreMessage(r)
    BY <2>4 DEF StoreMessage, SendStep, taskVars, engineVars, signalVars, uiVars, Entry
  <2>5. CASE Arm(r)
    BY <2>5 DEF Arm, SendStep, taskVars, uiVars
  <2>6. CASE Spawn(r)
    BY <2>6 DEF Spawn, SendStep, engineVars, signalVars, uiVars
  <2>7. CASE Register(r)
    BY <2>7 DEF Register, SendStep, taskVars, signalVars, uiVars
  <2> QED
    BY <1>1, <2>1, <2>2, <2>3, <2>4, <2>5, <2>6, <2>7 DEF SendNext
<1>2. ASSUME NEW r \in Requests, TaskNext(r) PROVE TypeOK'
  <2> USE DEF TaskStep, sendVars, engineVars, signalVars, uiVars
  <2>1. CASE StartTurn(r) \/ StopTurn(r) \/ ModelAnswers(r) \/ TurnFails(r)
             \/ FinishTask(r) \/ CancelTask(r)
    <3>1. \E to \in InTask \cup {"ended"} : task' = [task EXCEPT ![r] = to]
      BY <2>1 DEF StartTurn, StopTurn, ModelAnswers, TurnFails, FinishTask, CancelTask
    <3>2. task' \in [Requests -> InTask \cup {"none", "ended"}]
      BY <3>1
    <3>3. UNCHANGED <<send, steered, rounds, abortAsked, monitor, activeRuns,
                      yieldSignals, requestQueue, heldSignal, yieldFlag, history,
                      readyEvents, currentSession, aborts>>
      BY <2>1 DEF StartTurn, StopTurn, ModelAnswers, TurnFails, FinishTask, CancelTask
    <3> QED
      BY <3>2, <3>3
  <2>2. CASE CallModel(r)
    <3>1. rounds[r] + 1 \in 0..MaxRounds
      BY <2>2 DEF CallModel
    <3> QED
      BY <2>2, <3>1 DEF CallModel
  <2>3. CASE StoreAnswer(r)
    <3> DEFINE e == [role |-> "assistant", req |-> r]
    <3>1. history' \in [Sessions -> Seq(Entry)]
      <4>1. e \in Entry
        BY DEF Entry
      <4>2. \/ history' = [history EXCEPT ![SessionOf[r]] = Append(@, e)]
            \/ history' = history
        BY <2>3 DEF StoreAnswer
      <4>3. /\ history \in [Sessions -> Seq(Entry)]
            /\ SessionOf[r] \in Sessions
        OBVIOUS
      <4> HIDE DEF e, TypeOK
      <4>4. Append(history[SessionOf[r]], e) \in Seq(Entry)
        BY <4>1, <4>3
      <4> QED
        BY <4>2, <4>3, <4>4
    <3>2. /\ task' = [task EXCEPT ![r] = "capture"]
          /\ UNCHANGED <<send, steered, rounds, abortAsked, monitor, activeRuns,
                         yieldSignals, requestQueue, heldSignal, yieldFlag,
                         readyEvents, currentSession, aborts>>
      BY <2>3 DEF StoreAnswer
    <3> QED
      BY <3>1, <3>2
  <2> QED
    BY <1>2, <2>1, <2>2, <2>3 DEF TaskNext
<1>3. ASSUME NEW r \in Requests, MonitorNext(r) PROVE TypeOK'
  <2> USE DEF MonitorStep, taskVars, signalVars
  <2>1. CASE RemoveHandle(r)
    BY <2>1 DEF RemoveHandle
  <2>2. CASE RemoveSignal(r)
    BY <2>2 DEF RemoveSignal
  <2>3. CASE DrainQueue(r)
    <3> DEFINE s == SessionOf[r]
    <3>1. CASE requestQueue[s] = <<>>
      BY <2>3, <3>1 DEF DrainQueue
    <3>2. CASE requestQueue[s] # <<>>
      <4>1. /\ requestQueue[s] \in Seq(Requests)
            /\ Head(requestQueue[s]) \in Requests
            /\ Tail(requestQueue[s]) \in Seq(Requests)
        BY <3>2
      <4>2. /\ requestQueue' = [requestQueue EXCEPT ![s] = Tail(@)]
            /\ readyEvents' = Append(readyEvents, Head(requestQueue[s]))
            /\ send' = [send EXCEPT ![Head(requestQueue[s])] = "announced"]
        BY <2>3, <3>2 DEF DrainQueue
      <4>3. /\ requestQueue' \in [Sessions -> Seq(Requests)]
            /\ readyEvents' \in Seq(Requests)
            /\ send' \in [Requests -> InSend \cup Settled]
        <5>1. requestQueue' \in [Sessions -> Seq(Requests)]
          BY <4>1, <4>2
        <5>2. readyEvents' \in Seq(Requests)
          BY <4>1, <4>2
        <5>3. send' \in [Requests -> InSend \cup Settled]
          BY <4>1, <4>2 DEF Settled
        <5> QED
          BY <5>1, <5>2, <5>3
      <4> QED
        BY <2>3, <4>3 DEF DrainQueue
    <3> QED
      BY <3>1, <3>2
  <2> QED
    BY <1>3, <2>1, <2>2, <2>3 DEF MonitorNext
<1>4. ASSUME Navigate \/ \E s \in Sessions : Abort(s) PROVE TypeOK'
  <2>1. ASSUME NEW s \in Sessions, Abort(s) PROVE TypeOK'
    <3>1. aborts + 1 \in 0..MaxAborts
      BY <2>1 DEF Abort
    <3>2. activeRuns[s] \in Requests
      BY <2>1 DEF Abort
    <3>3. aborts' \in 0..MaxAborts /\ abortAsked' \in [Requests -> BOOLEAN]
      BY <2>1, <3>1, <3>2 DEF Abort
    <3> QED
      BY <2>1, <3>3 DEF Abort, sendVars, signalVars
  <2>2. CASE Navigate
    BY <2>2 DEF Navigate, sendVars, taskVars, engineVars, signalVars
  <2> QED
    BY <1>4, <2>1, <2>2
<1>5. CASE HandleReady
  <2>1. /\ readyEvents \in Seq(Requests)
        /\ Head(readyEvents) \in Requests
        /\ Tail(readyEvents) \in Seq(Requests)
    BY <1>5 DEF HandleReady
  <2> QED
    BY <1>5, <2>1 DEF HandleReady, SendStep, taskVars, engineVars, signalVars
<1>6. CASE UNCHANGED vars
  BY <1>6 DEF vars, sendVars, taskVars, engineVars, signalVars, uiVars
<1> QED
  BY <1>1, <1>2, <1>3, <1>4, <1>5, <1>6 DEF Next

(* Every variable keeps its type in every reachable state: in particular    *)
(* the three maps of EngineState only ever hold runs that exist.            *)
THEOREM TypeCorrect == Spec => []TypeOK
<1>1. Init => TypeOK
  BY ChatAssumption DEF Init, TypeOK
<1> QED
  BY <1>1, TypeStep, PTL DEF Spec

-----------------------------------------------------------------------------
(* Facts about the sequences the model uses as queues. *)

LEMMA AppendIndex ==
  ASSUME NEW S, NEW q \in Seq(S), NEW x \in S
  PROVE  /\ Append(q, x) \in Seq(S)
         /\ Len(Append(q, x)) = Len(q) + 1
         /\ \A i \in 1..Len(q) : Append(q, x)[i] = q[i]
         /\ Append(q, x)[Len(q) + 1] = x
OBVIOUS

LEMMA TailIndex ==
  ASSUME NEW S, NEW q \in Seq(S), q # <<>>
  PROVE  /\ Tail(q) \in Seq(S)
         /\ Len(Tail(q)) = Len(q) - 1
         /\ Len(q) \in Nat \ {0}
         /\ \A i \in 1..Len(Tail(q)) : Tail(q)[i] = q[i + 1]
         /\ Head(q) = q[1]
         /\ Head(q) \in S
OBVIOUS

LEMMA AppendNoDuplicates ==
  ASSUME NEW S, NEW q \in Seq(S), NEW x \in S, NoDuplicates(q),
         \A i \in 1..Len(q) : q[i] # x
  PROVE  NoDuplicates(Append(q, x))
BY AppendIndex DEF NoDuplicates

LEMMA TailNoDuplicates ==
  ASSUME NEW S, NEW q \in Seq(S), q # <<>>, NoDuplicates(q)
  PROVE  /\ NoDuplicates(Tail(q))
         /\ \A i \in 1..Len(Tail(q)) : Tail(q)[i] # Head(q)
         /\ \A i \in 1..Len(q) : q[i] # Head(q) =>
               \E j \in 1..Len(Tail(q)) : Tail(q)[j] = q[i]
<1>1. NoDuplicates(Tail(q)) /\ \A i \in 1..Len(Tail(q)) : Tail(q)[i] # Head(q)
  BY TailIndex DEF NoDuplicates
<1>2. ASSUME NEW i \in 1..Len(q), q[i] # Head(q)
      PROVE  \E j \in 1..Len(Tail(q)) : Tail(q)[j] = q[i]
  <2>1. i - 1 \in 1..Len(Tail(q)) /\ Tail(q)[i - 1] = q[i]
    BY <1>2, TailIndex
  <2> QED
    BY <2>1
<1> QED
  BY <1>1, <1>2

-----------------------------------------------------------------------------
(* The inductive invariant.  Lifecycle ties the four actors of a request   *)
(* together: the command, the task, the monitor and the signal.            *)
Lifecycle ==
    \A r \in Requests :
        /\ send[r] \in {"register", "returned"} <=> task[r] # "none"
        /\ send[r] = "returned" <=> monitor[r] # "none"
        /\ monitor[r] \in {"signals", "drain", "done"} => task[r] = "ended"
        /\ send[r] \in {"spawn", "register", "returned"} <=> heldSignal[r] # None

(* What is stored was stored by a send past StoreMessage, or by a task past *)
(* StoreAnswer, of that session.                                            *)
Traced(s, e) ==
    /\ SessionOf[e.req] = s
    /\ e.role = "user" =>
         send[e.req] \in {"prepare", "arm", "spawn", "register", "returned", "failed"}
    /\ e.role = "assistant" => task[e.req] \in {"capture", "ended"}
HistoryTraced ==
    \A s \in Sessions : \A i \in 1..Len(history[s]) : Traced(s, history[s][i])

IInv ==
    /\ TypeOK
    /\ Lifecycle
    /\ NoStaleHandle
    /\ NoLeakedSignal
    /\ NoStaleYield
    /\ WaitsInOnePlace
    /\ HistoryTraced
    /\ StoredOnce

(* The request a monitor announces is the oldest one waiting in its session. *)
LEMMA Announced ==
  ASSUME IInv, NEW r \in Requests, DrainQueue(r),
         requestQueue[SessionOf[r]] # <<>>
  PROVE  \E next \in Requests :
         /\ next = Head(requestQueue[SessionOf[r]])
         /\ SessionOf[next] = SessionOf[r]
         /\ send[next] = "queued"
         /\ send' = [send EXCEPT ![next] = "announced"]
         /\ readyEvents' = Append(readyEvents, next)
         /\ requestQueue' = [requestQueue EXCEPT ![SessionOf[r]] = Tail(@)]
<1> DEFINE q == requestQueue[SessionOf[r]]
           next == Head(q)
<1>1. q \in Seq(Requests) /\ SessionOf[r] \in Sessions
  BY ChatAssumption DEF IInv, TypeOK
<1>2. next = q[1] /\ next \in Requests /\ Len(q) \in Nat \ {0}
  BY <1>1, TailIndex
<1>3. SessionOf[next] = SessionOf[r] /\ send[next] = "queued"
  BY <1>1, <1>2 DEF IInv, WaitsInOnePlace
<1>4. /\ send' = [send EXCEPT ![next] = "announced"]
      /\ readyEvents' = Append(readyEvents, next)
      /\ requestQueue' = [requestQueue EXCEPT ![SessionOf[r]] = Tail(@)]
  BY DEF DrainQueue
<1> QED
  BY <1>2, <1>3, <1>4

(* The event the frontend handles is that of an announced request. *)
LEMMA Handled ==
  ASSUME IInv, HandleReady
  PROVE  \E r \in Requests :
         /\ r = Head(readyEvents)
         /\ send[r] = "announced"
         /\ \/ send' = [send EXCEPT ![r] = "check"]
            \/ send' = [send EXCEPT ![r] = "dropped"]
<1>1. Head(readyEvents) \in Requests
  BY TailIndex DEF HandleReady, IInv, TypeOK
<1> QED
  BY <1>1 DEF HandleReady, SendStep

LEMMA LifecycleStep == IInv /\ [Next]_vars => Lifecycle'
<1> SUFFICES ASSUME IInv, [Next]_vars PROVE Lifecycle'
  OBVIOUS
<1> TypeOK /\ Lifecycle /\ ChatAssumption
  BY ChatAssumption DEF IInv
<1> USE DEF Lifecycle, TypeOK
<1>1. ASSUME NEW r \in Requests, Submit(r) \/ SendNext(r) PROVE Lifecycle'
  <2> USE DEF SendStep, taskVars, engineVars, signalVars, uiVars
  <2>1. CASE Submit(r) \/ CheckActive(r) \/ SendFails(r) \/ Prepare(r)
    BY <2>1 DEF Submit, CheckActive, SendFails, Prepare
  <2>2. CASE RequestYield(r) \/ Enqueue(r) \/ StoreMessage(r)
    <3>1. CASE RequestYield(r)
      BY <3>1 DEF RequestYield
    <3>2. CASE Enqueue(r)
      BY <3>2 DEF Enqueue
    <3>3. CASE StoreMessage(r)
      BY <3>3 DEF StoreMessage
    <3> QED
      BY <2>2, <3>1, <3>2, <3>3
  <2>3. CASE Arm(r)
    BY <2>3 DEF Arm
  <2>4. CASE Spawn(r)
    BY <2>4 DEF Spawn
  <2>5. CASE Register(r)
    BY <2>5 DEF Register
  <2> QED
    BY <1>1, <2>1, <2>2, <2>3, <2>4, <2>5 DEF SendNext
<1>2. ASSUME NEW r \in Requests, TaskNext(r) PROVE Lifecycle'
  <2> USE DEF TaskStep, sendVars, signalVars
  <2>1. CASE StartTurn(r) \/ StopTurn(r) \/ CallModel(r)
    BY <2>1 DEF StartTurn, StopTurn, CallModel
  <2>2. CASE ModelAnswers(r) \/ TurnFails(r) \/ StoreAnswer(r)
    BY <2>2 DEF ModelAnswers, TurnFails, StoreAnswer
  <2>3. CASE FinishTask(r) \/ CancelTask(r)
    BY <2>3 DEF FinishTask, CancelTask
  <2> QED
    BY <1>2, <2>1, <2>2, <2>3 DEF TaskNext
<1>3. ASSUME NEW r \in Requests, MonitorNext(r) PROVE Lifecycle'
  <2> USE DEF MonitorStep, taskVars, signalVars
  <2>1. CASE RemoveHandle(r) \/ RemoveSignal(r)
    BY <2>1 DEF RemoveHandle, RemoveSignal
  <2>2. CASE DrainQueue(r) /\ requestQueue[SessionOf[r]] = <<>>
    BY <2>2 DEF DrainQueue
  <2>3. CASE DrainQueue(r) /\ requestQueue[SessionOf[r]] # <<>>
    <3>1. PICK next \in Requests :
             /\ send[next] = "queued"
             /\ send' = [send EXCEPT ![next] = "announced"]
      BY <2>3, Announced
    <3> QED
      BY <2>3, <3>1 DEF DrainQueue
  <2> QED
    BY <1>3, <2>1, <2>2, <2>3 DEF MonitorNext
<1>4. ASSUME Navigate \/ \E s \in Sessions : Abort(s) PROVE Lifecycle'
  BY <1>4 DEF Abort, Navigate, sendVars, taskVars, signalVars
<1>5. CASE HandleReady
  <2>1. PICK r \in Requests :
           /\ send[r] = "announced"
           /\ \/ send' = [send EXCEPT ![r] = "check"]
              \/ send' = [send EXCEPT ![r] = "dropped"]
    BY <1>5, Handled
  <2> QED
    BY <1>5, <2>1 DEF HandleReady, taskVars, signalVars
<1>6. CASE UNCHANGED vars
  BY <1>6 DEF vars, sendVars, taskVars, signalVars
<1> QED
  BY <1>1, <1>2, <1>3, <1>4, <1>5, <1>6 DEF Next

LEMMA HandleStep == IInv /\ [Next]_vars => NoStaleHandle'
<1> SUFFICES ASSUME IInv, [Next]_vars PROVE NoStaleHandle'
  OBVIOUS
<1> TypeOK /\ Lifecycle /\ NoStaleHandle /\ ChatAssumption
  BY ChatAssumption DEF IInv
<1> USE DEF NoStaleHandle, TypeOK
<1>1. ASSUME NEW r \in Requests, Submit(r) \/ SendNext(r) PROVE NoStaleHandle'
  <2>1. CASE Register(r)
    BY <2>1 DEF Register
  <2>2. CASE ~ Register(r)
    BY <1>1, <2>2 DEF SendNext, Submit, CheckActive, RequestYield, Enqueue, SendFails,
         StoreMessage, Prepare, Arm, Spawn, engineVars
  <2> QED
    BY <2>1, <2>2
<1>2. ASSUME NEW r \in Requests, TaskNext(r) PROVE NoStaleHandle'
  BY <1>2 DEF TaskNext, TaskStep, StartTurn, StopTurn, CallModel, ModelAnswers,
              TurnFails, StoreAnswer, FinishTask, CancelTask, engineVars
<1>3. ASSUME NEW r \in Requests, MonitorNext(r) PROVE NoStaleHandle'
  BY <1>3 DEF MonitorNext, MonitorStep, RemoveHandle, RemoveSignal, DrainQueue
<1>4. ASSUME Navigate \/ \E s \in Sessions : Abort(s) PROVE NoStaleHandle'
  BY <1>4 DEF Abort, Navigate, engineVars
<1>5. CASE HandleReady
  BY <1>5 DEF HandleReady, engineVars
<1>6. CASE UNCHANGED vars
  BY <1>6 DEF vars, engineVars
<1> QED
  BY <1>1, <1>2, <1>3, <1>4, <1>5, <1>6 DEF Next

LEMMA SignalStep == IInv /\ [Next]_vars => NoLeakedSignal'
<1> SUFFICES ASSUME IInv, [Next]_vars, NEW s \in Sessions, yieldSignals'[s] # None
             PROVE  \E q \in Requests : SignalOwned(s, q)'
  BY DEF NoLeakedSignal, SignalOwned
<1> TypeOK /\ Lifecycle /\ NoLeakedSignal /\ ChatAssumption
  BY ChatAssumption DEF IInv
<1> USE DEF TypeOK
\* An entry that was there before the step keeps its owner, if the owner is
\* not disturbed.
<1>0. ASSUME yieldSignals'[s] = yieldSignals[s],
             \A q \in Requests : SignalOwned(s, q) => SignalOwned(s, q)'
      PROVE  \E q \in Requests : SignalOwned(s, q)'
  BY <1>0 DEF NoLeakedSignal
<1>1. ASSUME NEW r \in Requests, Submit(r) \/ SendNext(r)
      PROVE  \E q \in Requests : SignalOwned(s, q)'
  <2>1. CASE Arm(r) /\ SessionOf[r] = s
    <3>1. SignalOwned(s, r)'
      BY <2>1 DEF Arm, SendStep, SignalOwned
    <3> QED
      BY <3>1
  <2>2. CASE Arm(r) /\ SessionOf[r] # s
    BY <1>0, <2>2 DEF Arm, SendStep, SignalOwned
  <2>3. CASE Spawn(r) \/ Register(r)
    BY <1>0, <2>3 DEF Spawn, Register, SendStep, SignalOwned, engineVars, signalVars
  <2>4. CASE ~ (Arm(r) \/ Spawn(r) \/ Register(r))
    <3>1. /\ UNCHANGED <<heldSignal, monitor, yieldSignals>>
          /\ send[r] \notin {"spawn", "register"}
      BY <1>1, <2>4 DEF SendNext, Submit, CheckActive, RequestYield, Enqueue, SendFails,
           StoreMessage, Prepare, SendStep, engineVars, signalVars
    <3>2. \A q \in Requests : q # r => send'[q] = send[q]
      BY <1>1 DEF SendNext, Submit, CheckActive, RequestYield, Enqueue, SendFails,
           StoreMessage, Prepare, Arm, Spawn, Register, SendStep
    <3> QED
      BY <1>0, <3>1, <3>2 DEF SignalOwned
  <2> QED
    BY <2>1, <2>2, <2>3, <2>4
<1>2. ASSUME NEW r \in Requests, TaskNext(r)
      PROVE  \E q \in Requests : SignalOwned(s, q)'
  BY <1>0, <1>2 DEF TaskNext, TaskStep, StartTurn, StopTurn, CallModel, ModelAnswers,
       TurnFails, StoreAnswer, FinishTask, CancelTask, SignalOwned, sendVars,
       engineVars, signalVars
<1>3. ASSUME NEW r \in Requests, MonitorNext(r)
      PROVE  \E q \in Requests : SignalOwned(s, q)'
  <2> USE DEF MonitorStep, SignalOwned, signalVars
  <2>1. CASE RemoveHandle(r)
    BY <1>0, <2>1 DEF RemoveHandle
  <2>2. CASE RemoveSignal(r)
    BY <1>0, <2>2 DEF RemoveSignal
  <2>3. CASE DrainQueue(r)
    <3>1. \A q \in Requests :
             send[q] \in {"spawn", "register"} => send'[q] = send[q]
      <4>1. CASE requestQueue[SessionOf[r]] = <<>>
        BY <2>3, <4>1 DEF DrainQueue
      <4>2. CASE requestQueue[SessionOf[r]] # <<>>
        <5>1. PICK next \in Requests :
                send[next] = "queued" /\ send' = [send EXCEPT ![next] = "announced"]
          BY <2>3, <4>2, Announced
        <5> QED
          BY <5>1
      <4> QED
        BY <4>1, <4>2
    <3> QED
      BY <1>0, <2>3, <3>1 DEF DrainQueue
  <2> QED
    BY <1>3, <2>1, <2>2, <2>3 DEF MonitorNext
<1>4. ASSUME Navigate \/ \E t \in Sessions : Abort(t)
      PROVE  \E q \in Requests : SignalOwned(s, q)'
  BY <1>0, <1>4 DEF Abort, Navigate, SignalOwned, sendVars, engineVars, signalVars
<1>5. CASE HandleReady
  <2>1. \A q \in Requests : send[q] \in {"spawn", "register"} => send'[q] = send[q]
    BY <1>5, Handled
  <2> QED
    BY <1>0, <1>5, <2>1 DEF HandleReady, SignalOwned, engineVars, signalVars
<1>6. CASE UNCHANGED vars
  BY <1>0, <1>6 DEF vars, SignalOwned, sendVars, engineVars, signalVars
<1> QED
  BY <1>1, <1>2, <1>3, <1>4, <1>5, <1>6 DEF Next

LEMMA YieldStep == IInv /\ [Next]_vars => NoStaleYield'
<1> SUFFICES ASSUME IInv, [Next]_vars PROVE NoStaleYield'
  OBVIOUS
<1> TypeOK /\ Lifecycle /\ NoStaleYield /\ ChatAssumption
  BY ChatAssumption DEF IInv
<1> USE DEF TypeOK, NoStaleYield
<1>1. ASSUME NEW r \in Requests, Submit(r) \/ SendNext(r) PROVE NoStaleYield'
  <2>1. CASE RequestYield(r)
    BY <2>1 DEF RequestYield
  <2>2. CASE Arm(r)
    BY <2>2 DEF Arm
  <2>3. CASE ~ (RequestYield(r) \/ Arm(r))
    BY <1>1, <2>3 DEF SendNext, Submit, CheckActive, Enqueue, SendFails, StoreMessage,
         Prepare, Spawn, Register, signalVars
  <2> QED
    BY <2>1, <2>2, <2>3
<1>2. ASSUME NEW r \in Requests, TaskNext(r) PROVE NoStaleYield'
  BY <1>2 DEF TaskNext, TaskStep, StartTurn, StopTurn, CallModel, ModelAnswers,
       TurnFails, StoreAnswer, FinishTask, CancelTask, sendVars, signalVars
<1>3. ASSUME NEW r \in Requests, MonitorNext(r) PROVE NoStaleYield'
  BY <1>3 DEF MonitorNext, MonitorStep, RemoveHandle, RemoveSignal, DrainQueue, signalVars
<1>4. ASSUME Navigate \/ \E s \in Sessions : Abort(s) PROVE NoStaleYield'
  BY <1>4 DEF Abort, Navigate, sendVars, signalVars
<1>5. CASE HandleReady
  BY <1>5 DEF HandleReady, signalVars
<1>6. CASE UNCHANGED vars
  BY <1>6 DEF vars, sendVars, signalVars
<1> QED
  BY <1>1, <1>2, <1>3, <1>4, <1>5, <1>6 DEF Next

(* A step that leaves both queues alone, and the fate of the requests that  *)
(* wait in them, keeps every waiting request in its place.                  *)
LEMMA WaitsFrame ==
  ASSUME WaitsInOnePlace, UNCHANGED <<requestQueue, readyEvents>>,
         \A q \in Requests : /\ send'[q] = "queued" <=> send[q] = "queued"
                             /\ send'[q] = "announced" <=> send[q] = "announced",
         TypeOK
  PROVE  WaitsInOnePlace'
<1>1. \A s \in Sessions : \A i \in 1..Len(requestQueue[s]) : requestQueue[s][i] \in Requests
  BY DEF TypeOK
<1>2. \A i \in 1..Len(readyEvents) : readyEvents[i] \in Requests
  BY DEF TypeOK
<1>3. \A s \in Sessions : \A i \in 1..Len(requestQueue[s]) :
         send'[requestQueue[s][i]] = "queued"
  BY <1>1 DEF WaitsInOnePlace
<1>4. \A i \in 1..Len(readyEvents) : send'[readyEvents[i]] = "announced"
  BY <1>2 DEF WaitsInOnePlace
<1>5. requestQueue' = requestQueue /\ readyEvents' = readyEvents
  OBVIOUS
<1> QED
  BY <1>3, <1>4, <1>5 DEF WaitsInOnePlace

LEMMA WaitsStep == IInv /\ [Next]_vars => WaitsInOnePlace'
<1> SUFFICES ASSUME IInv, [Next]_vars PROVE WaitsInOnePlace'
  OBVIOUS
<1> TypeOK /\ WaitsInOnePlace /\ ChatAssumption
  BY ChatAssumption DEF IInv
<1>t. /\ requestQueue \in [Sessions -> Seq(Requests)]
      /\ readyEvents \in Seq(Requests)
      /\ send \in [Requests -> InSend \cup Settled]
      /\ \A r \in Requests : SessionOf[r] \in Sessions
  BY DEF TypeOK, ChatAssumption
<1>1. ASSUME NEW r \in Requests, Submit(r) \/ SendNext(r) PROVE WaitsInOnePlace'
  <2>1. CASE Enqueue(r)
    <3> DEFINE s == SessionOf[r]
               q == requestQueue[s]
    <3>1. /\ send[r] = "enqueue"
          /\ send' = [send EXCEPT ![r] = "queued"]
          /\ requestQueue' = [requestQueue EXCEPT ![s] = Append(q, r)]
          /\ readyEvents' = readyEvents
      BY <2>1 DEF Enqueue, SendStep, uiVars
    <3>2. q \in Seq(Requests) /\ s \in Sessions
      BY <1>t
    <3>3. \A i \in 1..Len(q) : q[i] # r
      BY <3>1, <3>2 DEF WaitsInOnePlace
    <3>4. \A t \in Sessions : NoDuplicates(requestQueue'[t])
      BY <1>t, <3>1, <3>2, <3>3, AppendNoDuplicates DEF WaitsInOnePlace
    <3>5. \A t \in Sessions : \A i \in 1..Len(requestQueue'[t]) :
             /\ SessionOf[requestQueue'[t][i]] = t
             /\ send'[requestQueue'[t][i]] = "queued"
      <4> SUFFICES ASSUME NEW t \in Sessions, NEW i \in 1..Len(requestQueue'[t])
                   PROVE  /\ SessionOf[requestQueue'[t][i]] = t
                          /\ send'[requestQueue'[t][i]] = "queued"
        OBVIOUS
      <4>1. CASE t # s
        BY <1>t, <3>1, <4>1 DEF WaitsInOnePlace
      <4>2. CASE t = s
        <5>1. Len(requestQueue'[t]) = Len(q) + 1
          BY <1>t, <3>1, <3>2, <4>2, AppendIndex
        <5>2. CASE i = Len(q) + 1
          BY <1>t, <3>1, <3>2, <4>2, <5>2, AppendIndex
        <5>3. CASE i \in 1..Len(q)
          <6>1. requestQueue'[t][i] = q[i] /\ q[i] \in Requests
            BY <1>t, <3>1, <3>2, <4>2, <5>3, AppendIndex
          <6> QED
            BY <1>t, <3>1, <3>2, <3>3, <4>2, <5>3, <6>1 DEF WaitsInOnePlace
        <5> QED
          BY <3>2, <5>1, <5>2, <5>3
      <4> QED
        BY <4>1, <4>2
    <3>6. NoDuplicates(readyEvents') /\
          \A i \in 1..Len(readyEvents') : send'[readyEvents'[i]] = "announced"
      <4>1. \A i \in 1..Len(readyEvents) :
               readyEvents[i] \in Requests /\ send[readyEvents[i]] = "announced"
        BY <1>t DEF WaitsInOnePlace
      <4> QED
        BY <1>t, <3>1, <4>1 DEF WaitsInOnePlace
    <3>7. ASSUME NEW p \in Requests, send'[p] = "queued"
          PROVE  \E i \in 1..Len(requestQueue'[SessionOf[p]]) :
                    requestQueue'[SessionOf[p]][i] = p
      <4>1. CASE p = r
        <5>1. Len(q) + 1 \in 1..Len(requestQueue'[s]) /\ requestQueue'[s][Len(q) + 1] = r
          BY <1>t, <3>1, <3>2, AppendIndex
        <5> QED
          BY <4>1, <5>1
      <4>2. CASE p # r
        <5>1. PICK i \in 1..Len(requestQueue[SessionOf[p]]) :
                 requestQueue[SessionOf[p]][i] = p
          BY <1>t, <3>1, <3>7, <4>2 DEF WaitsInOnePlace
        <5>2. /\ i \in 1..Len(requestQueue'[SessionOf[p]])
              /\ requestQueue'[SessionOf[p]][i] = p
          BY <1>t, <3>1, <3>2, <5>1, AppendIndex
        <5> QED
          BY <5>2
      <4> QED
        BY <4>1, <4>2
    <3>8. \A p \in Requests : send'[p] = "announced" =>
             \E i \in 1..Len(readyEvents') : readyEvents'[i] = p
      BY <1>t, <3>1 DEF WaitsInOnePlace
    <3> QED
      BY <3>4, <3>5, <3>6, <3>7, <3>8 DEF WaitsInOnePlace
  <2>2. CASE ~ Enqueue(r)
    <3>1. UNCHANGED <<requestQueue, readyEvents>>
      BY <1>1, <2>2 DEF SendNext, Submit, CheckActive, RequestYield, SendFails,
           StoreMessage, Prepare, Arm, Spawn, Register, engineVars, uiVars
    <3>2. \A q \in Requests : /\ send'[q] = "queued" <=> send[q] = "queued"
                              /\ send'[q] = "announced" <=> send[q] = "announced"
      BY <1>1, <1>t, <2>2 DEF SendNext, Submit, CheckActive, RequestYield, SendFails,
           StoreMessage, Prepare, Arm, Spawn, Register, SendStep
    <3> QED
      BY <3>1, <3>2, WaitsFrame
  <2> QED
    BY <2>1, <2>2
<1>2. ASSUME NEW r \in Requests, TaskNext(r) PROVE WaitsInOnePlace'
  <2>1. UNCHANGED <<requestQueue, readyEvents, send>>
    BY <1>2 DEF TaskNext, TaskStep, StartTurn, StopTurn, CallModel, ModelAnswers,
         TurnFails, StoreAnswer, FinishTask, CancelTask, sendVars, engineVars, uiVars
  <2> QED
    BY <2>1, WaitsFrame
<1>3. ASSUME NEW r \in Requests, MonitorNext(r) PROVE WaitsInOnePlace'
  <2>1. CASE UNCHANGED <<requestQueue, readyEvents, send>>
    BY <2>1, WaitsFrame
  <2>2. CASE DrainQueue(r) /\ requestQueue[SessionOf[r]] # <<>>
    <3> DEFINE s == SessionOf[r]
               q == requestQueue[s]
    <3>1. PICK next \in Requests :
             /\ next = Head(q)
             /\ SessionOf[next] = s
             /\ send[next] = "queued"
             /\ send' = [send EXCEPT ![next] = "announced"]
             /\ readyEvents' = Append(readyEvents, next)
             /\ requestQueue' = [requestQueue EXCEPT ![s] = Tail(q)]
      BY <2>2, Announced
    <3>2. q \in Seq(Requests) /\ q # <<>> /\ s \in Sessions /\ NoDuplicates(q)
      BY <1>t, <2>2 DEF WaitsInOnePlace
    <3>3. \A i \in 1..Len(readyEvents) :
             readyEvents[i] \in Requests /\ send[readyEvents[i]] = "announced"
      BY <1>t DEF WaitsInOnePlace
    <3>4. \A t \in Sessions : NoDuplicates(requestQueue'[t])
      BY <1>t, <3>1, <3>2, TailNoDuplicates DEF WaitsInOnePlace
    <3>5. \A t \in Sessions : \A i \in 1..Len(requestQueue'[t]) :
             /\ SessionOf[requestQueue'[t][i]] = t
             /\ send'[requestQueue'[t][i]] = "queued"
      <4> SUFFICES ASSUME NEW t \in Sessions, NEW i \in 1..Len(requestQueue'[t])
                   PROVE  /\ SessionOf[requestQueue'[t][i]] = t
                          /\ send'[requestQueue'[t][i]] = "queued"
        OBVIOUS
      <4>1. CASE t # s
        <5>1. requestQueue'[t] = requestQueue[t]
          BY <1>t, <3>1, <4>1
        <5>2. /\ SessionOf[requestQueue[t][i]] = t
              /\ send[requestQueue[t][i]] = "queued"
              /\ requestQueue[t][i] \in Requests
          BY <1>t, <5>1 DEF WaitsInOnePlace
        <5> QED
          BY <1>t, <3>1, <4>1, <5>1, <5>2
      <4>2. CASE t = s
        <5>1. requestQueue'[t] = Tail(q)
          BY <1>t, <3>1, <4>2
        <5>0. \A j \in 1..Len(Tail(q)) : Tail(q)[j] # next
          BY <3>1, <3>2, TailNoDuplicates
        <5>t. i \in 1..Len(Tail(q))
          BY <5>1
        <5>i. i + 1 \in 1..Len(q) /\ Tail(q)[i] = q[i + 1]
          BY <3>2, <5>t, TailIndex
        <5>2. /\ i + 1 \in 1..Len(q)
              /\ requestQueue'[t][i] = q[i + 1]
              /\ requestQueue'[t][i] # next
          BY <5>0, <5>1, <5>i, <5>t
        <5>3. /\ q[i + 1] \in Requests
              /\ SessionOf[q[i + 1]] = s
              /\ send[q[i + 1]] = "queued"
          BY <3>2, <5>2 DEF WaitsInOnePlace
        <5> QED
          BY <1>t, <3>1, <4>2, <5>2, <5>3
      <4> QED
        BY <4>1, <4>2
    <3>6. NoDuplicates(readyEvents')
      <4>1. \A i \in 1..Len(readyEvents) : readyEvents[i] # next
        BY <3>1, <3>3
      <4>2. readyEvents \in Seq(Requests) /\ NoDuplicates(readyEvents) /\ next \in Requests
        BY <1>t, <3>1 DEF WaitsInOnePlace
      <4>3. NoDuplicates(Append(readyEvents, next))
        BY <4>1, <4>2, AppendNoDuplicates
      <4> QED
        BY <3>1, <4>3
    <3>7. \A i \in 1..Len(readyEvents') : send'[readyEvents'[i]] = "announced"
      BY <1>t, <3>1, <3>3, AppendIndex
    <3>8. ASSUME NEW p \in Requests, send'[p] = "queued"
          PROVE  \E i \in 1..Len(requestQueue'[SessionOf[p]]) :
                    requestQueue'[SessionOf[p]][i] = p
      <4>1. p # next /\ send[p] = "queued"
        BY <1>t, <3>1, <3>8
      <4>2. PICK i \in 1..Len(requestQueue[SessionOf[p]]) :
               requestQueue[SessionOf[p]][i] = p
        BY <4>1 DEF WaitsInOnePlace
      <4>3. CASE SessionOf[p] = s
        <5>1. requestQueue'[SessionOf[p]] = Tail(q) /\ q[i] = p /\ i \in 1..Len(q)
          BY <1>t, <3>1, <4>2, <4>3
        <5>2. q[i] # Head(q)
          BY <3>1, <4>1, <5>1
        <5>3. \E j \in 1..Len(Tail(q)) : Tail(q)[j] = q[i]
          BY <3>2, <5>1, <5>2, TailNoDuplicates
        <5> QED
          BY <5>1, <5>3
      <4>4. CASE SessionOf[p] # s
        BY <1>t, <3>1, <4>2, <4>4
      <4> QED
        BY <4>3, <4>4
    <3>9. ASSUME NEW p \in Requests, send'[p] = "announced"
          PROVE  \E i \in 1..Len(readyEvents') : readyEvents'[i] = p
      <4>1. CASE p = next
        <5>1. Len(readyEvents) + 1 \in 1..Len(readyEvents')
              /\ readyEvents'[Len(readyEvents) + 1] = next
          BY <1>t, <3>1, AppendIndex
        <5> QED
          BY <4>1, <5>1
      <4>2. CASE p # next
        <5>1. PICK i \in 1..Len(readyEvents) : readyEvents[i] = p
          BY <1>t, <3>1, <3>9, <4>2 DEF WaitsInOnePlace
        <5> QED
          BY <1>t, <3>1, <5>1, AppendIndex
      <4> QED
        BY <4>1, <4>2
    <3> QED
      BY <3>4, <3>5, <3>6, <3>7, <3>8, <3>9 DEF WaitsInOnePlace
  <2> QED
    BY <1>3, <2>1, <2>2 DEF MonitorNext, MonitorStep, RemoveHandle, RemoveSignal, DrainQueue
<1>4. ASSUME Navigate \/ \E s \in Sessions : Abort(s) PROVE WaitsInOnePlace'
  <2>1. UNCHANGED <<requestQueue, readyEvents, send>>
    BY <1>4 DEF Abort, Navigate, sendVars, engineVars
  <2> QED
    BY <2>1, WaitsFrame
<1>5. CASE HandleReady
  <2>1. PICK r \in Requests :
           /\ r = Head(readyEvents)
           /\ send[r] = "announced"
           /\ \/ send' = [send EXCEPT ![r] = "check"]
              \/ send' = [send EXCEPT ![r] = "dropped"]
    BY <1>5, Handled
  <2>2. requestQueue' = requestQueue /\ readyEvents' = Tail(readyEvents) /\ readyEvents # <<>>
    BY <1>5 DEF HandleReady, engineVars
  <2>3. NoDuplicates(readyEvents)
    BY DEF WaitsInOnePlace
  <2>4. NoDuplicates(readyEvents')
    BY <1>t, <2>2, <2>3, TailNoDuplicates
  <2>5. \A i \in 1..Len(readyEvents') : send'[readyEvents'[i]] = "announced"
    <3> SUFFICES ASSUME NEW i \in 1..Len(readyEvents')
                 PROVE  send'[readyEvents'[i]] = "announced"
      OBVIOUS
    <3>1. /\ i + 1 \in 1..Len(readyEvents)
          /\ readyEvents'[i] = readyEvents[i + 1]
          /\ readyEvents'[i] # r
      BY <1>t, <2>1, <2>2, <2>3, TailIndex, TailNoDuplicates
    <3>2. readyEvents[i + 1] \in Requests /\ send[readyEvents[i + 1]] = "announced"
      BY <1>t, <3>1 DEF WaitsInOnePlace
    <3> QED
      BY <1>t, <2>1, <3>1, <3>2
  <2>6. ASSUME NEW p \in Requests, send'[p] = "announced"
        PROVE  \E i \in 1..Len(readyEvents') : readyEvents'[i] = p
    <3>1. p # r /\ send[p] = "announced"
      BY <1>t, <2>1, <2>6
    <3>2. PICK i \in 1..Len(readyEvents) : readyEvents[i] = p
      BY <3>1 DEF WaitsInOnePlace
    <3>3. readyEvents[i] # Head(readyEvents)
      BY <2>1, <3>1, <3>2
    <3>4. \E j \in 1..Len(Tail(readyEvents)) : Tail(readyEvents)[j] = readyEvents[i]
      BY <1>t, <2>2, <2>3, <3>3, TailNoDuplicates
    <3> QED
      BY <2>2, <3>2, <3>4
  <2>7. \A t \in Sessions : \A i \in 1..Len(requestQueue[t]) :
           /\ SessionOf[requestQueue[t][i]] = t
           /\ send'[requestQueue[t][i]] = "queued"
    <3>1. \A t \in Sessions : \A i \in 1..Len(requestQueue[t]) :
             /\ requestQueue[t][i] \in Requests
             /\ SessionOf[requestQueue[t][i]] = t
             /\ send[requestQueue[t][i]] = "queued"
      BY <1>t DEF WaitsInOnePlace
    <3> QED
      BY <1>t, <2>1, <3>1
  <2>8. \A p \in Requests : send'[p] = "queued" => send[p] = "queued"
    BY <1>t, <2>1
  <2> QED
    BY <2>2, <2>4, <2>5, <2>6, <2>7, <2>8 DEF WaitsInOnePlace
<1>6. CASE UNCHANGED vars
  BY <1>6, WaitsFrame DEF vars, sendVars, engineVars, uiVars
<1> QED
  BY <1>1, <1>2, <1>3, <1>4, <1>5, <1>6 DEF Next

(* No step takes a request out of the places where its messages are stored. *)
LEMMA TracedStays ==
  ASSUME IInv, [Next]_vars, NEW s \in Sessions, NEW e \in Entry, Traced(s, e)
  PROVE  Traced(s, e)'
<1> TypeOK /\ Lifecycle
  BY DEF IInv
<1> USE DEF TypeOK, Traced, Entry
<1>1. ASSUME NEW r \in Requests, Submit(r) \/ SendNext(r) PROVE Traced(s, e)'
  <2> USE DEF SendStep
  <2>1. CASE Spawn(r)
    BY <2>1 DEF Spawn, Lifecycle
  <2>2. CASE ~ Spawn(r)
    BY <1>1, <2>2 DEF SendNext, Submit, CheckActive, RequestYield, Enqueue, SendFails,
         StoreMessage, Prepare, Arm, Register, taskVars
  <2> QED
    BY <2>1, <2>2
<1>2. ASSUME NEW r \in Requests, TaskNext(r) PROVE Traced(s, e)'
  BY <1>2 DEF TaskNext, TaskStep, StartTurn, StopTurn, CallModel, ModelAnswers,
       TurnFails, StoreAnswer, FinishTask, CancelTask, sendVars
<1>3. ASSUME NEW r \in Requests, MonitorNext(r) PROVE Traced(s, e)'
  <2>1. \A q \in Requests :
           send[q] \in {"prepare", "arm", "spawn", "register", "returned", "failed"}
             => send'[q] = send[q]
    <3>1. CASE UNCHANGED send
      BY <3>1
    <3>2. CASE DrainQueue(r) /\ requestQueue[SessionOf[r]] # <<>>
      <4>1. PICK next \in Requests :
               send[next] = "queued" /\ send' = [send EXCEPT ![next] = "announced"]
        BY <3>2, Announced
      <4> QED
        BY <4>1
    <3> QED
      BY <1>3, <3>1, <3>2 DEF MonitorNext, RemoveHandle, RemoveSignal, DrainQueue
  <2> QED
    BY <1>3, <2>1 DEF MonitorNext, MonitorStep, RemoveHandle, RemoveSignal, DrainQueue,
         taskVars
<1>4. ASSUME Navigate \/ \E t \in Sessions : Abort(t) PROVE Traced(s, e)'
  BY <1>4 DEF Abort, Navigate, sendVars, taskVars
<1>5. CASE HandleReady
  <2>1. \A q \in Requests :
           send[q] \in {"prepare", "arm", "spawn", "register", "returned", "failed"}
             => send'[q] = send[q]
    BY <1>5, Handled
  <2> QED
    BY <1>5, <2>1 DEF HandleReady, taskVars
<1>6. CASE UNCHANGED vars
  BY <1>6 DEF vars, sendVars, taskVars
<1> QED
  BY <1>1, <1>2, <1>3, <1>4, <1>5, <1>6 DEF Next

(* A message is appended to one conversation only if it was not there.      *)
LEMMA HistoryGrows ==
  ASSUME IInv, [Next]_vars, NEW s \in Sessions
  PROVE  \/ history'[s] = history[s]
         \/ \E e \in Entry :
              /\ history'[s] = Append(history[s], e)
              /\ \A i \in 1..Len(history[s]) : history[s][i] # e
              /\ Traced(s, e)'
<1> TypeOK /\ HistoryTraced /\ ChatAssumption
  BY ChatAssumption DEF IInv
<1>t. /\ history \in [Sessions -> Seq(Entry)]
      /\ send \in [Requests -> InSend \cup Settled]
      /\ task \in [Requests -> InTask \cup {"none", "ended"}]
  BY DEF TypeOK
<1>1. ASSUME NEW r \in Requests, StoreMessage(r), SessionOf[r] = s
      PROVE  \E e \in Entry :
              /\ history'[s] = Append(history[s], e)
              /\ \A i \in 1..Len(history[s]) : history[s][i] # e
              /\ Traced(s, e)'
  <2> DEFINE e == [role |-> "user", req |-> r]
  <2>1. e \in Entry /\ history'[s] = Append(history[s], e)
    BY <1>1, <1>t DEF StoreMessage, Entry
  <2>2. \A i \in 1..Len(history[s]) : history[s][i] # e
    BY <1>1 DEF StoreMessage, SendStep, HistoryTraced, Traced
  <2>3. Traced(s, e)'
    BY <1>1, <1>t DEF StoreMessage, SendStep, Traced
  <2> QED
    BY <2>1, <2>2, <2>3
<1>2. ASSUME NEW r \in Requests, StoreAnswer(r), SessionOf[r] = s,
             history'[s] # history[s]
      PROVE  \E e \in Entry :
              /\ history'[s] = Append(history[s], e)
              /\ \A i \in 1..Len(history[s]) : history[s][i] # e
              /\ Traced(s, e)'
  <2> DEFINE e == [role |-> "assistant", req |-> r]
  <2>1. e \in Entry /\ history'[s] = Append(history[s], e)
    BY <1>2, <1>t DEF StoreAnswer, Entry
  <2>2. \A i \in 1..Len(history[s]) : history[s][i] # e
    BY <1>2 DEF StoreAnswer, TaskStep, HistoryTraced, Traced
  <2>3. Traced(s, e)'
    BY <1>2, <1>t DEF StoreAnswer, TaskStep, Traced
  <2> QED
    BY <2>1, <2>2, <2>3
<1>3. ASSUME NEW r \in Requests, StoreMessage(r) \/ StoreAnswer(r), SessionOf[r] # s
      PROVE  history'[s] = history[s]
  BY <1>3, <1>t DEF StoreMessage, StoreAnswer
<1>4. ASSUME \A r \in Requests : ~ StoreMessage(r) /\ ~ StoreAnswer(r)
      PROVE  history' = history
  BY <1>4 DEF Next, Submit, SendNext, CheckActive, RequestYield, Enqueue, SendFails,
       Prepare, Arm, Spawn, Register, TaskNext, StartTurn, StopTurn, CallModel,
       ModelAnswers, TurnFails, FinishTask, CancelTask, MonitorNext, MonitorStep,
       RemoveHandle, RemoveSignal, DrainQueue, Abort, Navigate, HandleReady, vars
<1> QED
  BY <1>1, <1>2, <1>3, <1>4

LEMMA HistoryStep == IInv /\ [Next]_vars => HistoryTraced' /\ StoredOnce'
<1> SUFFICES ASSUME IInv, [Next]_vars, NEW s \in Sessions
             PROVE  /\ \A i \in 1..Len(history'[s]) :
                         \E e \in Entry : e = history'[s][i] /\ Traced(s, e)'
                    /\ NoDuplicates(history'[s])
  BY DEF HistoryTraced, StoredOnce, Traced
<1>1. history[s] \in Seq(Entry) /\ NoDuplicates(history[s])
  BY DEF IInv, TypeOK, StoredOnce
<1>2. \A i \in 1..Len(history[s]) : history[s][i] \in Entry /\ Traced(s, history[s][i])
  <2>1. \A i \in 1..Len(history[s]) : history[s][i] \in Entry
    BY <1>1
  <2>2. \A i \in 1..Len(history[s]) : Traced(s, history[s][i])
    BY DEF IInv, HistoryTraced
  <2> QED
    BY <2>1, <2>2
<1>3. \A e \in Entry : Traced(s, e) => Traced(s, e)'
  BY TracedStays
<1>4. \A i \in 1..Len(history[s]) : \E e \in Entry : e = history[s][i] /\ Traced(s, e)'
  BY <1>2, <1>3
<1>5. CASE history'[s] = history[s]
  BY <1>1, <1>4, <1>5
<1>6. ASSUME NEW e \in Entry,
             history'[s] = Append(history[s], e),
             \A i \in 1..Len(history[s]) : history[s][i] # e,
             Traced(s, e)'
      PROVE  /\ \A i \in 1..Len(history'[s]) :
                  \E d \in Entry : d = history'[s][i] /\ Traced(s, d)'
             /\ NoDuplicates(history'[s])
  <2>1. NoDuplicates(history'[s])
    BY <1>1, <1>6, AppendNoDuplicates
  <2>2. \A i \in 1..Len(history'[s]) :
           i \in 1..Len(history[s]) \/ i = Len(history[s]) + 1
    BY <1>1, <1>6, AppendIndex
  <2>3. \A i \in 1..Len(history[s]) : history'[s][i] = history[s][i]
    BY <1>1, <1>6, AppendIndex
  <2>4. history'[s][Len(history[s]) + 1] = e
    BY <1>1, <1>6, AppendIndex
  <2> QED
    BY <1>4, <1>6, <2>1, <2>2, <2>3, <2>4
<1> QED
  BY <1>5, <1>6, HistoryGrows

-----------------------------------------------------------------------------
LEMMA Inductive == Spec => []IInv
<1>1. Init => IInv
  BY ChatAssumption DEF Init, IInv, TypeOK, Lifecycle, NoStaleHandle, NoLeakedSignal,
     NoStaleYield, WaitsInOnePlace, NoDuplicates, HistoryTraced, StoredOnce
<1>2. IInv /\ [Next]_vars => IInv'
  BY TypeStep, LifecycleStep, HandleStep, SignalStep, YieldStep, WaitsStep, HistoryStep
     DEF IInv
<1> QED
  BY <1>1, <1>2, PTL DEF Spec

(* However sends, aborts and monitors interleave, an entry of active_runs   *)
(* belongs to a run whose monitor is still to remove it.                    *)
THEOREM HandlesAreCleaned == Spec => []NoStaleHandle
BY Inductive, PTL DEF IInv

(* The same for the entries of yield_signals.                               *)
THEOREM SignalsAreCleaned == Spec => []NoLeakedSignal
BY Inductive, PTL DEF IInv

(* A run never yields to a request made before it armed its signal.         *)
THEOREM YieldsAreFresh == Spec => []NoStaleYield
BY Inductive, PTL DEF IInv

(* A queued message is in its session's queue or in one event, once.        *)
THEOREM QueueIsExact == Spec => []WaitsInOnePlace
BY Inductive, PTL DEF IInv

(* A message that went through the queue is stored and answered once.       *)
THEOREM NothingStoredTwice == Spec => []StoredOnce
BY Inductive, PTL DEF IInv

-----------------------------------------------------------------------------
(* What serial sends add, as long as nobody aborts: sends of a session do   *)
(* not overlap, one that passed the check is alone, and the handle of a     *)
(* session is that of its only monitored run.                               *)
SerialInv ==
    /\ \A q, r \in Requests :
         send[q] \in InSend /\ send[r] \in InSend /\ SessionOf[q] = SessionOf[r] => q = r
    /\ \A r \in Requests :
         send[r] \in {"setup", "prepare", "arm", "spawn", "register"} =>
            activeRuns[SessionOf[r]] = None
    /\ \A r \in Requests : monitor[r] = "waiting" => activeRuns[SessionOf[r]] = r

LEMMA SerialStep ==
  ASSUME SerialSends, MaxAborts = 0
  PROVE  IInv /\ SerialInv /\ [Next]_vars => SerialInv'
<1> SUFFICES ASSUME IInv, SerialInv, [Next]_vars PROVE SerialInv'
  OBVIOUS
<1> TypeOK /\ Lifecycle /\ NoStaleHandle /\ ChatAssumption
  BY ChatAssumption DEF IInv
<1> USE DEF SerialInv, TypeOK
<1>1. ASSUME NEW r \in Requests, Submit(r) \/ SendNext(r) PROVE SerialInv'
  <2> USE DEF SendStep, engineVars
  <2>1. CASE Submit(r)
    BY <2>1 DEF Submit, MayCallSend, SendsTo
  <2>2. CASE CheckActive(r)
    BY <2>2 DEF CheckActive
  <2>3. CASE Register(r)
    BY <2>3 DEF Register, Lifecycle
  <2>4. CASE ~ (Submit(r) \/ CheckActive(r) \/ Register(r))
    <3>1. activeRuns' = activeRuns /\ monitor' = monitor
      BY <1>1, <2>4 DEF SendNext, RequestYield, Enqueue, SendFails, StoreMessage,
           Prepare, Arm, Spawn
    <3>2. \E to \in InSend \cup Settled :
             /\ send[r] \in InSend
             /\ send' = [send EXCEPT ![r] = to]
             /\ to \in {"prepare", "arm", "spawn", "register"} =>
                  send[r] \in {"setup", "prepare", "arm", "spawn"}
             /\ to # "setup"
      BY <1>1, <2>4 DEF SendNext, RequestYield, Enqueue, SendFails, StoreMessage,
           Prepare, Arm, Spawn
    <3> QED
      BY <3>1, <3>2
  <2> QED
    BY <2>1, <2>2, <2>3, <2>4
<1>2. ASSUME NEW r \in Requests, TaskNext(r) PROVE SerialInv'
  BY <1>2 DEF TaskNext, TaskStep, StartTurn, StopTurn, CallModel, ModelAnswers,
       TurnFails, StoreAnswer, FinishTask, CancelTask, sendVars, engineVars
<1>3. ASSUME NEW r \in Requests, MonitorNext(r) PROVE SerialInv'
  <2> USE DEF MonitorStep
  <2>1. CASE RemoveHandle(r)
    BY <2>1 DEF RemoveHandle, NoStaleHandle
  <2>2. CASE RemoveSignal(r)
    BY <2>2 DEF RemoveSignal
  <2>3. CASE DrainQueue(r)
    <3>1. \A q \in Requests : send'[q] = send[q] \/ send'[q] = "announced"
      <4>1. CASE requestQueue[SessionOf[r]] = <<>>
        BY <2>3, <4>1 DEF DrainQueue
      <4>2. CASE requestQueue[SessionOf[r]] # <<>>
        BY <2>3, <4>2, Announced
      <4> QED
        BY <4>1, <4>2
    <3>2. activeRuns' = activeRuns /\ monitor' = [monitor EXCEPT ![r] = "done"]
      BY <2>3 DEF DrainQueue
    <3>3. \A q \in Requests : send'[q] \in InSend => send[q] = send'[q]
      BY <3>1
    <3>4. \A q \in Requests : monitor'[q] = "waiting" => monitor[q] = "waiting"
      BY <3>2
    <3> QED
      BY <3>2, <3>3, <3>4
  <2> QED
    BY <1>3, <2>1, <2>2, <2>3 DEF MonitorNext
<1>4. ASSUME Navigate \/ \E s \in Sessions : Abort(s) PROVE SerialInv'
  BY <1>4 DEF Abort, Navigate, sendVars, engineVars
<1>5. CASE HandleReady
  <2>1. Head(readyEvents) \in Requests
    BY <1>5, TailIndex DEF HandleReady
  <2>2. activeRuns' = activeRuns /\ monitor' = monitor
    BY <1>5 DEF HandleReady, engineVars
  <2>3. \/ send' = [send EXCEPT ![Head(readyEvents)] = "dropped"]
        \/ /\ send' = [send EXCEPT ![Head(readyEvents)] = "check"]
           /\ \A q \in Requests :
                SessionOf[q] = SessionOf[Head(readyEvents)] => send[q] \notin InSend
    BY <1>5 DEF HandleReady, SendStep, MayCallSend, SendsTo
  <2>4. \A q, p \in Requests :
           send'[q] \in InSend /\ send'[p] \in InSend /\ SessionOf[q] = SessionOf[p] => q = p
    <3>1. CASE send' = [send EXCEPT ![Head(readyEvents)] = "dropped"]
      <4>1. \A q \in Requests : send'[q] \in InSend => send[q] = send'[q]
        BY <3>1, <2>1
      <4> QED
        BY <4>1
    <3>2. CASE /\ send' = [send EXCEPT ![Head(readyEvents)] = "check"]
               /\ \A q \in Requests :
                    SessionOf[q] = SessionOf[Head(readyEvents)] => send[q] \notin InSend
      <4>1. \A q \in Requests : q # Head(readyEvents) => send'[q] = send[q]
        BY <3>2, <2>1
      <4> QED
        BY <2>1, <3>2, <4>1
    <3> QED
      BY <2>3, <3>1, <3>2
  <2>5. \A q \in Requests :
           send'[q] \in {"setup", "prepare", "arm", "spawn", "register"} => send'[q] = send[q]
    BY <2>1, <2>3
  <2> QED
    BY <2>2, <2>4, <2>5
<1>6. CASE UNCHANGED vars
  BY <1>6 DEF vars, sendVars, engineVars
<1> QED
  BY <1>1, <1>2, <1>3, <1>4, <1>5, <1>6 DEF Next

LEMMA SerialInductive ==
  ASSUME SerialSends, MaxAborts = 0
  PROVE  Spec => [](IInv /\ SerialInv)
<1>1. Init => SerialInv
  BY ChatAssumption DEF Init, SerialInv
<1>2. IInv /\ SerialInv /\ [Next]_vars => SerialInv'
  BY SerialStep
<1> QED
  BY <1>1, <1>2, Inductive, PTL DEF Spec

(* As long as the sends of a session do not overlap and nobody aborts, a    *)
(* session has at most one live run: every other message is queued.         *)
THEOREM SerialSendsRunAlone ==
  ASSUME SerialSends, MaxAborts = 0
  PROVE  Spec => []OneRunPerSession
<1>1. IInv /\ SerialInv => OneRunPerSession
  <2> SUFFICES ASSUME IInv, SerialInv, NEW q \in Requests, NEW r \in Requests,
                      Live(q), Live(r), SessionOf[q] = SessionOf[r]
               PROVE  q = r
    BY DEF OneRunPerSession
  <2>1. \A p \in Requests : Live(p) => send[p] = "register" \/ monitor[p] = "waiting"
    BY DEF IInv, TypeOK, Lifecycle, Live
  <2>2. \A p \in Requests : send[p] = "register" => activeRuns[SessionOf[p]] = None
    BY DEF SerialInv
  <2>3. \A p \in Requests : monitor[p] = "waiting" => activeRuns[SessionOf[p]] = p
    BY DEF SerialInv
  <2>4. CASE send[q] = "register" /\ send[r] = "register"
    BY <2>4 DEF SerialInv
  <2> QED
    BY <2>1, <2>2, <2>3, <2>4, ChatAssumption
<1> QED
  BY <1>1, SerialInductive, PTL

(* Under the same conditions the handle engine_chat_abort would find is     *)
(* that of the run the session is waiting for.                              *)
THEOREM SerialRunsAreAbortable ==
  ASSUME SerialSends, MaxAborts = 0
  PROVE  Spec => []RunIsAbortable
<1>1. SerialInv => RunIsAbortable
  BY DEF SerialInv, RunIsAbortable, Running
<1> QED
  BY <1>1, SerialInductive, PTL

-----------------------------------------------------------------------------
(* What serial sends add for signals: a signal belongs to one session, only *)
(* a run that holds one can have been steered, and a steered run that is    *)
(* being started or waited for sees the request.                            *)
SeesRequest(r) ==
    steered[r] /\ (send[r] \in {"spawn", "register"} \/ monitor[r] = "waiting")
        => YieldRequested(r)
SignalInv ==
    /\ \A s \in Sessions : yieldSignals[s] # None => SessionOf[yieldSignals[s]] = s
    /\ \A r \in Requests :
         /\ heldSignal[r] # None => SessionOf[heldSignal[r]] = SessionOf[r]
         /\ steered[r] => heldSignal[r] # None
         /\ SeesRequest(r)

\* Only RequestYield steers and only Arm hands out or resets a signal; any
\* other step leaves both alone and brings no run closer to being waited for.
LEMMA SignalFrame ==
  ASSUME TypeOK, SignalInv, UNCHANGED <<steered, heldSignal, yieldFlag>>,
         \A s \in Sessions : yieldSignals'[s] \in {yieldSignals[s], None},
         \A r \in Requests :
            send'[r] \in {"spawn", "register"} \/ monitor'[r] = "waiting" =>
               send[r] \in {"spawn", "register"} \/ monitor[r] = "waiting"
  PROVE  SignalInv'
BY DEF TypeOK, SignalInv, SeesRequest, YieldRequested

LEMMA SignalInvStep ==
  ASSUME SerialSends, MaxAborts = 0
  PROVE  IInv /\ SerialInv /\ SignalInv /\ [Next]_vars => SignalInv'
<1> SUFFICES ASSUME IInv, SerialInv, SignalInv, [Next]_vars PROVE SignalInv'
  OBVIOUS
<1> TypeOK /\ Lifecycle /\ ChatAssumption
  BY ChatAssumption DEF IInv
<1>1. ASSUME NEW r \in Requests, Submit(r) \/ SendNext(r) PROVE SignalInv'
  <2> USE DEF SendStep, engineVars, signalVars
  <2>1. CASE RequestYield(r)
    <3> DEFINE signal == yieldSignals[SessionOf[r]]
    <3>1. /\ \A q \in Requests : yieldFlag'[q] = (yieldFlag[q] \/ q = signal)
          /\ \A q \in Requests :
               steered'[q] = (steered[q] \/ (signal # None /\ heldSignal[q] = signal))
          /\ UNCHANGED <<heldSignal, yieldSignals, monitor>>
      BY <2>1 DEF RequestYield, TypeOK
    <3>2. send' = [send EXCEPT ![r] = "enqueue"]
      BY <2>1 DEF RequestYield
    <3>3. signal \in Requests \cup {None}
      BY DEF TypeOK
    <3> HIDE DEF signal
    <3>4. ASSUME NEW q \in Requests
          PROVE  /\ heldSignal'[q] # None => SessionOf[heldSignal'[q]] = SessionOf[q]
                 /\ steered'[q] => heldSignal'[q] # None
                 /\ SeesRequest(q)'
      <4>1. send'[q] \in {"spawn", "register"} => send[q] \in {"spawn", "register"}
        BY <3>2 DEF TypeOK
      <4>2. heldSignal[q] \in Requests \cup {None}
        BY DEF TypeOK
      <4> QED
        BY <3>1, <3>3, <4>1, <4>2 DEF SignalInv, SeesRequest, YieldRequested
    <3> QED
      BY <3>1, <3>4 DEF SignalInv
  <2>2. CASE Arm(r)
    <3> DEFINE s == SessionOf[r]
               signal == IF yieldSignals[s] = None THEN r ELSE yieldSignals[s]
    <3>1. /\ send[r] = "arm" /\ send' = [send EXCEPT ![r] = "spawn"]
          /\ yieldSignals' = [yieldSignals EXCEPT ![s] = signal]
          /\ heldSignal' = [heldSignal EXCEPT ![r] = signal]
          /\ yieldFlag' = [yieldFlag EXCEPT ![signal] = FALSE]
          /\ steered' = steered /\ monitor' = monitor
      BY <2>2 DEF Arm
    <3>2. signal \in Requests /\ SessionOf[signal] = s /\ s \in Sessions
      BY DEF TypeOK, SignalInv, ChatAssumption
    <3>3. heldSignal[r] = None /\ ~ steered[r]
      BY <3>1 DEF Lifecycle, SignalInv
    <3> HIDE DEF signal
    <3>4. \A t \in Sessions : yieldSignals'[t] # None => SessionOf[yieldSignals'[t]] = t
      BY <3>1, <3>2 DEF SignalInv, TypeOK
    <3>5. ASSUME NEW q \in Requests
          PROVE  /\ heldSignal'[q] # None => SessionOf[heldSignal'[q]] = SessionOf[q]
                 /\ steered'[q] => heldSignal'[q] # None
                 /\ SeesRequest(q)'
      <4>1. CASE q = r
        BY <3>1, <3>2, <3>3, <4>1 DEF TypeOK, SeesRequest
      <4>2. CASE q # r
        <5>1. send'[q] = send[q] /\ heldSignal'[q] = heldSignal[q]
          BY <3>1, <4>2 DEF TypeOK
        <5>2. CASE send[q] \in {"spawn", "register"} \/ monitor[q] = "waiting"
          <6>1. SessionOf[q] # s
            <7>1. activeRuns[s] = None
              BY <3>1 DEF SerialInv
            <7>2. monitor[q] = "waiting" => activeRuns[SessionOf[q]] = q
              BY DEF SerialInv
            <7>3. send[q] \in {"spawn", "register"} => SessionOf[q] # s
              BY <3>1, <4>2 DEF SerialInv, InSend
            <7> QED
              BY <5>2, <7>1, <7>2, <7>3 DEF ChatAssumption
          <6>2. heldSignal[q] # None => heldSignal[q] # signal
            BY <3>2, <6>1 DEF SignalInv
          <6>3. heldSignal[q] # None => yieldFlag'[heldSignal[q]] = yieldFlag[heldSignal[q]]
            BY <3>1, <3>2, <6>2 DEF TypeOK
          <6> QED
            BY <3>1, <5>1, <6>3 DEF SignalInv, SeesRequest, YieldRequested
        <5>3. CASE ~ (send[q] \in {"spawn", "register"} \/ monitor[q] = "waiting")
          BY <3>1, <5>1, <5>3 DEF SignalInv, SeesRequest
        <5> QED
          BY <5>2, <5>3
      <4> QED
        BY <4>1, <4>2
    <3> QED
      BY <3>4, <3>5 DEF SignalInv
  <2>3. CASE ~ (RequestYield(r) \/ Arm(r))
    <3>1. UNCHANGED <<steered, heldSignal, yieldFlag, yieldSignals>>
      BY <1>1, <2>3 DEF SendNext, Submit, CheckActive, Enqueue, SendFails, StoreMessage,
           Prepare, Spawn, Register, uiVars
    <3>2. \/ monitor' = monitor
          \/ send[r] = "register" /\ monitor' = [monitor EXCEPT ![r] = "waiting"]
      BY <1>1, <2>3 DEF SendNext, Submit, CheckActive, Enqueue, SendFails, StoreMessage,
           Prepare, Spawn, Register
    <3>3. \E to \in InSend \cup Settled :
             /\ send' = [send EXCEPT ![r] = to]
             /\ to \in {"spawn", "register"} => send[r] \in {"spawn", "register"}
      BY <1>1, <2>3 DEF SendNext, Submit, CheckActive, Enqueue, SendFails, StoreMessage,
           Prepare, Spawn, Register, InSend, Settled
    <3>4. \A q \in Requests :
             send'[q] \in {"spawn", "register"} \/ monitor'[q] = "waiting" =>
                send[q] \in {"spawn", "register"} \/ monitor[q] = "waiting"
      BY <3>2, <3>3 DEF TypeOK
    <3> QED
      BY <3>1, <3>4, SignalFrame
  <2> QED
    BY <2>1, <2>2, <2>3
<1>2. ASSUME NEW r \in Requests, TaskNext(r) PROVE SignalInv'
  <2>1. UNCHANGED <<send, monitor, steered, heldSignal, yieldFlag, yieldSignals>>
    BY <1>2 DEF TaskNext, TaskStep, StartTurn, StopTurn, CallModel, ModelAnswers,
         TurnFails, StoreAnswer, FinishTask, CancelTask, sendVars, engineVars, signalVars
  <2> QED
    BY <2>1, SignalFrame
<1>3. ASSUME NEW r \in Requests, MonitorNext(r) PROVE SignalInv'
  <2>1. /\ UNCHANGED <<steered, heldSignal, yieldFlag>>
        /\ \A s \in Sessions : yieldSignals'[s] \in {yieldSignals[s], None}
        /\ \A q \in Requests : monitor'[q] = "waiting" => monitor[q] = "waiting"
    BY <1>3 DEF MonitorNext, RemoveHandle, RemoveSignal, DrainQueue, MonitorStep,
         signalVars, TypeOK
  <2>2. \A q \in Requests : send'[q] \in {send[q], "announced"}
    <3>1. CASE DrainQueue(r) /\ requestQueue[SessionOf[r]] # <<>>
      <4>1. \E next \in Requests : send' = [send EXCEPT ![next] = "announced"]
        BY <3>1, Announced
      <4> QED
        BY <4>1 DEF TypeOK
    <3>2. CASE ~ (DrainQueue(r) /\ requestQueue[SessionOf[r]] # <<>>)
      BY <1>3, <3>2 DEF MonitorNext, RemoveHandle, RemoveSignal, DrainQueue
    <3> QED
      BY <3>1, <3>2
  <2> QED
    BY <2>1, <2>2, SignalFrame
<1>4. ASSUME Navigate \/ \E s \in Sessions : Abort(s) PROVE SignalInv'
  <2>1. UNCHANGED <<send, monitor, steered, heldSignal, yieldFlag, yieldSignals>>
    BY <1>4 DEF Navigate, Abort, sendVars, engineVars, signalVars
  <2> QED
    BY <2>1, SignalFrame
<1>5. CASE HandleReady
  <2>1. UNCHANGED <<monitor, steered, heldSignal, yieldFlag, yieldSignals>>
    BY <1>5 DEF HandleReady, engineVars, signalVars
  <2>2. \A q \in Requests : send'[q] \in {send[q], "check", "dropped"}
    BY <1>5 DEF HandleReady, SendStep, TypeOK
  <2> QED
    BY <2>1, <2>2, SignalFrame
<1>6. CASE UNCHANGED vars
  BY <1>6, SignalFrame DEF vars, sendVars, engineVars, signalVars
<1> QED
  BY <1>1, <1>2, <1>3, <1>4, <1>5, <1>6 DEF Next

(* Under the same conditions a message that arrives while a run is under    *)
(* way never asks in vain: the run still sees the request when it gets to   *)
(* the top of its loop, whoever armed, steered or was cleaned up meanwhile. *)
THEOREM SerialYieldsArrive ==
  ASSUME SerialSends, MaxAborts = 0
  PROVE  Spec => []NoLostYield
<1>1. Init => SignalInv
  BY DEF Init, SignalInv, SeesRequest
<1>2. IInv /\ SerialInv /\ SignalInv /\ [Next]_vars => SignalInv'
  BY SignalInvStep
<1>3. SignalInv => NoLostYield
  BY DEF SignalInv, SeesRequest, NoLostYield, Running
<1> QED
  BY <1>1, <1>2, <1>3, SerialInductive, PTL DEF Spec

-----------------------------------------------------------------------------
(* And for the stored conversation: as long as a run's answer may still     *)
(* come, nothing was stored behind its question, and what is already stored *)
(* is in order.                                                             *)
Asking(r) ==
    send[r] \in {"prepare", "arm", "spawn"} \/ task[r] \in {"start", "round", "model", "reply"}
Question(r) == [role |-> "user", req |-> r]
QuestionLast ==
    \A r \in Requests : Asking(r) =>
        /\ history[SessionOf[r]] # <<>>
        /\ history[SessionOf[r]][Len(history[SessionOf[r]])] = Question(r)

\* With serial sends no two requests of a session ask at a time, and none
\* asks while another one is about to be stored.
LEMMA AsksAlone ==
  ASSUME IInv, SerialInv, NEW q \in Requests, NEW r \in Requests,
         SessionOf[q] = SessionOf[r], Asking(q), Asking(r) \/ send[r] = "setup"
  PROVE  q = r
<1> TypeOK /\ Lifecycle
  BY DEF IInv
<1>1. \A p \in Requests : Asking(p) => send[p] \in InSend \/ monitor[p] = "waiting"
  BY DEF Asking, TypeOK, Lifecycle, InSend, InTask
<1>2. \A p \in Requests : Asking(p) \/ send[p] = "setup" =>
         \/ /\ send[p] \in {"setup", "prepare", "arm", "spawn", "register"}
            /\ send[p] \in InSend /\ activeRuns[SessionOf[p]] = None
         \/ monitor[p] = "waiting" /\ activeRuns[SessionOf[p]] = p
  <2> SUFFICES ASSUME NEW p \in Requests, Asking(p) \/ send[p] = "setup"
               PROVE  \/ /\ send[p] \in {"setup", "prepare", "arm", "spawn", "register"}
                         /\ send[p] \in InSend /\ activeRuns[SessionOf[p]] = None
                      \/ monitor[p] = "waiting" /\ activeRuns[SessionOf[p]] = p
    OBVIOUS
  <2>1. \/ send[p] \in {"setup", "prepare", "arm", "spawn", "register"}
        \/ monitor[p] = "waiting"
    BY DEF Asking, TypeOK, Lifecycle, InTask
  <2> QED
    BY <2>1 DEF SerialInv, InSend
<1> QED
  BY <1>2, ChatAssumption DEF SerialInv

\* A step that stores nothing and lets no request begin to ask.
LEMMA QuestionFrame ==
  ASSUME QuestionLast, AnswerFollowsQuestion, history' = history,
         \A r \in Requests : Asking(r)' => Asking(r)
  PROVE  QuestionLast' /\ AnswerFollowsQuestion'
BY DEF QuestionLast, AnswerFollowsQuestion

\* One entry is stored at the end of a session's conversation.
LEMMA EntryStored ==
  ASSUME TypeOK, AnswerFollowsQuestion, NEW s \in Sessions, NEW e \in Entry,
         history' = [history EXCEPT ![s] = Append(@, e)],
         e.role = "assistant" =>
            /\ history[s] # <<>>
            /\ history[s][Len(history[s])] = Question(e.req)
  PROVE  /\ AnswerFollowsQuestion'
         /\ history'[s] # <<>> /\ history'[s][Len(history'[s])] = e
         /\ \A t \in Sessions : t # s => history'[t] = history[t]
<1>1. history[s] \in Seq(Entry) /\ history'[s] = Append(history[s], e)
  BY DEF TypeOK
<1>2. \A t \in Sessions : t # s => history'[t] = history[t]
  BY DEF TypeOK
<1>3. /\ Len(history[s]) \in Nat
      /\ Len(history'[s]) = Len(history[s]) + 1
      /\ history'[s][Len(history[s]) + 1] = e
      /\ \A i \in 1..Len(history[s]) : history'[s][i] = history[s][i]
  BY <1>1, AppendIndex
<1>4. history'[s] # <<>>
  BY <1>1, <1>3
<1>5. ASSUME NEW t \in Sessions, NEW i \in 1..Len(history'[t]),
             history'[t][i].role = "assistant"
      PROVE  /\ i > 1
             /\ history'[t][i - 1] = [role |-> "user", req |-> history'[t][i].req]
  <2>1. CASE t # s
    BY <1>2, <1>5, <2>1 DEF AnswerFollowsQuestion
  <2>2. CASE t = s /\ i \in 1..Len(history[s])
    <3>1. history[s][i].role = "assistant"
      BY <1>3, <1>5, <2>2
    <3>2. i > 1 /\ history[s][i - 1] = [role |-> "user", req |-> history[s][i].req]
      BY <2>2, <3>1 DEF AnswerFollowsQuestion
    <3>3. i - 1 \in 1..Len(history[s])
      BY <1>3, <2>2, <3>2
    <3> QED
      BY <1>3, <2>2, <3>2, <3>3
  <2>3. CASE t = s /\ i = Len(history[s]) + 1
    <3>1. history[s] # <<>> /\ history[s][Len(history[s])] = Question(e.req)
      BY <1>3, <1>5, <2>3
    <3>2. Len(history[s]) \in 1..Len(history[s])
      BY <1>1, <1>3, <3>1
    <3> QED
      BY <1>3, <2>3, <3>1, <3>2 DEF Question
  <2> QED
    BY <1>3, <1>5, <2>1, <2>2, <2>3
<1> QED
  BY <1>2, <1>3, <1>4, <1>5 DEF AnswerFollowsQuestion

LEMMA QuestionStep ==
  ASSUME SerialSends, MaxAborts = 0
  PROVE  IInv /\ SerialInv /\ QuestionLast /\ AnswerFollowsQuestion /\ [Next]_vars
            => QuestionLast' /\ AnswerFollowsQuestion'
<1> SUFFICES ASSUME IInv, SerialInv, QuestionLast, AnswerFollowsQuestion, [Next]_vars
             PROVE  QuestionLast' /\ AnswerFollowsQuestion'
  OBVIOUS
<1> TypeOK /\ Lifecycle /\ ChatAssumption
  BY ChatAssumption DEF IInv
<1>1. ASSUME NEW r \in Requests, Submit(r) \/ SendNext(r)
      PROVE  QuestionLast' /\ AnswerFollowsQuestion'
  <2> USE DEF SendStep, taskVars
  <2>1. CASE StoreMessage(r)
    <3> DEFINE s == SessionOf[r]
    <3>1. /\ send[r] = "setup" /\ send' = [send EXCEPT ![r] = "prepare"]
          /\ history' = [history EXCEPT ![s] = Append(@, Question(r))]
          /\ task' = task
      BY <2>1 DEF StoreMessage, Question
    <3>2. s \in Sessions /\ Question(r) \in Entry /\ Question(r).role # "assistant"
      BY DEF ChatAssumption, Question, Entry
    <3>3. /\ AnswerFollowsQuestion'
          /\ history'[s] # <<>> /\ history'[s][Len(history'[s])] = Question(r)
          /\ \A t \in Sessions : t # s => history'[t] = history[t]
      BY <3>1, <3>2, EntryStored
    <3>4. ASSUME NEW q \in Requests, Asking(q)', q # r
          PROVE  /\ history'[SessionOf[q]] # <<>>
                 /\ history'[SessionOf[q]][Len(history'[SessionOf[q]])] = Question(q)
      <4>1. Asking(q)
        BY <3>1, <3>4 DEF Asking, TypeOK
      <4>2. SessionOf[q] # s
        BY <3>1, <3>4, <4>1, AsksAlone
      <4> QED
        BY <3>3, <4>1, <4>2 DEF QuestionLast, ChatAssumption
    <3> QED
      BY <3>3, <3>4 DEF QuestionLast
  <2>2. CASE ~ StoreMessage(r)
    <3>1. history' = history
      BY <1>1, <2>2 DEF SendNext, Submit, CheckActive, RequestYield, Enqueue, SendFails,
           Prepare, Arm, Spawn, Register
    <3>2. \E to \in InSend \cup Settled :
             /\ send' = [send EXCEPT ![r] = to]
             /\ to \in {"prepare", "arm", "spawn"} =>
                  send[r] \in {"prepare", "arm", "spawn"}
      <4> USE DEF InSend, Settled
      <4>1. CASE RequestYield(r)
        BY <4>1 DEF RequestYield
      <4>2. CASE Arm(r)
        BY <4>2 DEF Arm
      <4>3. CASE SendFails(r)
        BY <4>3 DEF SendFails
      <4>4. CASE CheckActive(r) \/ Enqueue(r)
        BY <4>4 DEF CheckActive, Enqueue
      <4>5. CASE Submit(r) \/ Spawn(r) \/ Register(r)
        BY <4>5 DEF Submit, Spawn, Register
      <4>6. CASE Prepare(r)
        BY <4>6 DEF Prepare
      <4> QED
        BY <1>1, <2>2, <4>1, <4>2, <4>3, <4>4, <4>5, <4>6 DEF SendNext
    <3>3. \/ task' = task
          \/ send[r] = "spawn" /\ task' = [task EXCEPT ![r] = "start"]
      BY <1>1, <2>2 DEF SendNext, Submit, CheckActive, RequestYield, Enqueue, SendFails,
           Prepare, Arm, Spawn, Register
    <3>4. \A q \in Requests : Asking(q)' => Asking(q)
      BY <3>2, <3>3 DEF Asking, TypeOK
    <3> QED
      BY <3>1, <3>4, QuestionFrame
  <2> QED
    BY <2>1, <2>2
<1>2. ASSUME NEW r \in Requests, TaskNext(r)
      PROVE  QuestionLast' /\ AnswerFollowsQuestion'
  <2>1. \E from \in InTask, to \in InTask \cup {"ended"} :
           /\ task[r] = from /\ task' = [task EXCEPT ![r] = to]
           /\ to \in {"start", "round", "model", "reply"} =>
                from \in {"start", "round", "model", "reply"}
           /\ send' = send
           /\ \/ history' = history
              \/ /\ from = "reply" /\ to = "capture"
                 /\ history' = [history EXCEPT ![SessionOf[r]] =
                                  Append(@, [role |-> "assistant", req |-> r])]
    BY <1>2 DEF TaskNext, TaskStep, StartTurn, StopTurn, CallModel, ModelAnswers,
         TurnFails, StoreAnswer, FinishTask, CancelTask, sendVars, InTask, Awaits
  <2>2. \A q \in Requests : Asking(q)' => Asking(q)
    BY <2>1 DEF Asking, TypeOK
  <2>3. CASE history' = history
    BY <2>2, <2>3, QuestionFrame
  <2>4. CASE history' # history
    <3> DEFINE s == SessionOf[r]
               answer == [role |-> "assistant", req |-> r]
    <3>1. /\ task[r] = "reply" /\ task' = [task EXCEPT ![r] = "capture"]
          /\ send' = send
          /\ history' = [history EXCEPT ![s] = Append(@, answer)]
      BY <2>1, <2>4
    <3>2. /\ s \in Sessions /\ answer \in Entry /\ answer.req = r
          /\ history[s] # <<>> /\ history[s][Len(history[s])] = Question(r)
      BY <3>1 DEF ChatAssumption, Entry, QuestionLast, Asking
    <3>3. /\ AnswerFollowsQuestion'
          /\ \A t \in Sessions : t # s => history'[t] = history[t]
      BY <3>1, <3>2, EntryStored
    <3>4. ASSUME NEW q \in Requests, Asking(q)'
          PROVE  /\ history'[SessionOf[q]] # <<>>
                 /\ history'[SessionOf[q]][Len(history'[SessionOf[q]])] = Question(q)
      <4>1. Asking(q) /\ Asking(r)
        BY <2>2, <3>1, <3>4 DEF Asking
      <4>2. q # r
        <5>1. ~ Asking(r)'
          <6>1. send[r] \notin {"prepare", "arm", "spawn"}
            BY <3>1 DEF Lifecycle
          <6> QED
            BY <3>1, <6>1 DEF Asking, TypeOK
        <5> QED
          BY <3>4, <5>1
      <4>3. SessionOf[q] # s
        BY <4>1, <4>2, AsksAlone
      <4> QED
        BY <3>3, <4>1, <4>3 DEF QuestionLast, ChatAssumption
    <3> QED
      BY <3>3, <3>4 DEF QuestionLast
  <2> QED
    BY <2>3, <2>4
<1>3. ASSUME NEW r \in Requests, MonitorNext(r)
      PROVE  QuestionLast' /\ AnswerFollowsQuestion'
  <2>1. history' = history /\ task' = task
    BY <1>3 DEF MonitorNext, RemoveHandle, RemoveSignal, DrainQueue, MonitorStep, taskVars
  <2>2. \A q \in Requests : send'[q] \in {send[q], "announced"}
    <3>1. CASE DrainQueue(r) /\ requestQueue[SessionOf[r]] # <<>>
      <4>1. \E next \in Requests : send' = [send EXCEPT ![next] = "announced"]
        BY <3>1, Announced
      <4> QED
        BY <4>1 DEF TypeOK
    <3>2. CASE ~ (DrainQueue(r) /\ requestQueue[SessionOf[r]] # <<>>)
      BY <1>3, <3>2 DEF MonitorNext, RemoveHandle, RemoveSignal, DrainQueue
    <3> QED
      BY <3>1, <3>2
  <2>3. \A q \in Requests : Asking(q)' => Asking(q)
    BY <2>1, <2>2 DEF Asking
  <2> QED
    BY <2>1, <2>3, QuestionFrame
<1>4. ASSUME Navigate \/ \E s \in Sessions : Abort(s)
      PROVE  QuestionLast' /\ AnswerFollowsQuestion'
  <2>1. UNCHANGED <<send, task, history>>
    BY <1>4 DEF Navigate, Abort, sendVars, taskVars
  <2> QED
    BY <2>1, QuestionFrame DEF Asking
<1>5. CASE HandleReady
  <2>1. history' = history /\ task' = task
    BY <1>5 DEF HandleReady, taskVars
  <2>2. \A q \in Requests : send'[q] \in {send[q], "check", "dropped"}
    BY <1>5 DEF HandleReady, SendStep, TypeOK
  <2>3. \A q \in Requests : Asking(q)' => Asking(q)
    BY <2>1, <2>2 DEF Asking
  <2> QED
    BY <2>1, <2>3, QuestionFrame
<1>6. CASE UNCHANGED vars
  <2>1. UNCHANGED <<send, task, history>>
    BY <1>6 DEF vars, sendVars, taskVars
  <2> QED
    BY <2>1, QuestionFrame DEF Asking
<1> QED
  BY <1>1, <1>2, <1>3, <1>4, <1>5, <1>6 DEF Next

(* Under the same conditions the stored conversation alternates: an answer  *)
(* directly follows the question it answers, though questions are stored by *)
(* the sends and answers by the tasks.                                      *)
THEOREM SerialAnswersFollow ==
  ASSUME SerialSends, MaxAborts = 0
  PROVE  Spec => []AnswerFollowsQuestion
<1>1. Init => QuestionLast /\ AnswerFollowsQuestion
  BY ChatAssumption DEF Init, QuestionLast, Asking, AnswerFollowsQuestion
<1>2. IInv /\ SerialInv /\ QuestionLast /\ AnswerFollowsQuestion /\ [Next]_vars
         => QuestionLast' /\ AnswerFollowsQuestion'
  BY QuestionStep
<1> QED
  BY <1>1, <1>2, SerialInductive, PTL DEF Spec
=============================================================================
