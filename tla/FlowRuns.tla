------------------------------- MODULE FlowRuns -------------------------------
(***************************************************************************)
(* The flow executor of the frontend (views/flows/executor.ts, executor-   *)
(* conductor.ts, executor-debug.ts): one flow that is run by the conductor *)
(* or node by node, or stepped through by the debugger, with the buttons   *)
(* Run, Debug, Step, Pause and Stop and the breakpoints.  A step that asks *)
(* a model, a tool or a sub-flow ends at any later time, well or badly.    *)
(* The plan and the phases of a flow are worked out before (FlowStrategy). *)
(*                                                                         *)
(* Left out: tesseract flows, variables, schedules, a second Run before    *)
(* the first has passed its report, and Run in the middle of debugging.    *)
(***************************************************************************)
EXTENDS FlowStrategy

CONSTANTS
    Drawings,       \* the flows as they are drawn
    MaxIterations,  \* rounds of a mesh
    MaxSteps,       \* steps of the debugger under way at once
    MaxToggles      \* how often a breakpoint is set or removed

ASSUME DrawingsAssumption == \A f \in Drawings : IsDrawing(f)

VARIABLES
    flow,
    mode,         \* who executes: "idle" | "conductor" | "sequential" | "debug" | "ended"
    at,           \* the phase, or the position in the plan
    stage,        \* sequential: "top" | "gate" | "breakpoint" | "step"
    open,         \* conductor: units of the phase that are under way
    mesh,         \* conductor: [round, member] of the mesh under way
    steps,        \* debugger: step -> position of its node in the plan, 0 if free
    status,       \* node -> its status on the canvas
    output,       \* node -> whether its run state has an output
    skip,         \* _skipNodes
    runStatus,    \* _runState.status
    running,      \* _running
    debugMode,    \* _debugMode
    aborted,      \* _aborted
    paused,       \* _paused
    breakpoints,  \* _breakpoints
    toggles,
    begun,        \* history: the nodes that the last step has started
    settled,      \* history: nodes that ended, or were passed over, on this path
    cut           \* history: a debug step came back with output after Stop

pathVars == <<mode, at, stage, open, mesh, steps>>
canvasVars == <<status, output, skip, settled>>
buttonVars == <<aborted, paused, breakpoints, toggles>>
flowVars == <<flow, pathVars, canvasVars, runStatus, running, debugMode, buttonVars, begun, cut>>

-----------------------------------------------------------------------------
Flows == {Prepared(f) : f \in Drawings}

EdgeSet(f) == Elements(f.edges)
MembersOf(u) == Elements(u.nodes)

flowPlan == flow.plan
phases == flow.phases

\* Reverse edges count here.
Targets(f, n) == {e.to : e \in {d \in EdgeSet(f) : d.from = n}}

\* What is skipped below S: nodes that were skipped before are not passed.
Below(f, S, skipped) ==
    LET grown[k \in 0..Len(f.nodes)] ==
            IF k = 0 THEN S
            ELSE grown[k - 1] \cup (UNION {Targets(f, n) : n \in grown[k - 1]} \ skipped)
    IN  grown[Len(f.nodes)]

\* An edge without a label is always followed.
Taken(f, n, result) ==
    {e.to : e \in {d \in EdgeSet(f) :
        d.from = n /\ d.kind # "reverse" /\ d.label \in {"", IF result THEN "true" ELSE "false"}}}

Untaken(f, n, result) == Targets(f, n) \ Taken(f, n, result)

ErrorTargets(f, n) == {e.to : e \in {d \in EdgeSet(f) : d.from = n /\ d.kind = "error"}}
SuccessTargets(f, n) == {e.to : e \in {d \in EdgeSet(f) : d.from = n /\ d.kind # "error"}}

-----------------------------------------------------------------------------
\* Nothing was executed yet.
Fresh ==
    /\ mode = "idle" /\ at = 1 /\ stage = "top" /\ open = {} /\ mesh = [round |-> 1, member |-> 1]
    /\ steps = [k \in 1..MaxSteps |-> 0]
    /\ status = [n \in NodeSet(flow) |-> "idle"] /\ output = [n \in NodeSet(flow) |-> FALSE]
    /\ skip = {} /\ begun = {} /\ settled = {}
    /\ runStatus = "idle" /\ running = FALSE /\ debugMode = FALSE
    /\ aborted = FALSE /\ paused = FALSE /\ breakpoints = {} /\ toggles = 0
    /\ cut = FALSE

FlowInit == flow \in Flows /\ Fresh

\* run() up to the choice of a path.
Run ==
    /\ mode = "idle" /\ ~ running
    /\ mode' = IF flow.conducted THEN "conductor" ELSE "sequential"
    /\ running' = TRUE /\ runStatus' = "running"
    /\ aborted' = FALSE /\ paused' = FALSE
    /\ begun' = {}
    /\ UNCHANGED <<flow, at, stage, open, mesh, steps, canvasVars, debugMode, breakpoints, toggles, cut>>

\* The end of run(): a run that was stopped in its last nodes stays "running".
Finalize(outcome) ==
    /\ mode' = "ended" /\ running' = FALSE
    /\ runStatus' = IF outcome = "running" /\ ~ aborted THEN "success" ELSE outcome
    /\ begun' = {}
    /\ UNCHANGED <<flow, at, stage, open, mesh, steps, canvasVars, debugMode, buttonVars, cut>>

-----------------------------------------------------------------------------
(* executeNode: its start, and the ways it ends *)

Mark(S) ==
    /\ status' = [n \in NodeSet(flow) |-> IF n \in S THEN "running" ELSE status[n]]
    /\ output' = [n \in NodeSet(flow) |-> output[n] /\ n \notin S]
    /\ UNCHANGED skip

Start(n) == Mark({n}) /\ begun' = {n}

NodeEnds(n, ok, skipped) ==
    /\ status' = [status EXCEPT ![n] = IF ok THEN "success" ELSE "error"]
    /\ output' = [output EXCEPT ![n] = ok \/ ErrorTargets(flow, n) # {}]
    /\ skip' = skipped
    /\ begun' = {}

\* The answer of a condition takes some of its edges, and skips what is below the others.
ConditionHolds(n, result) ==
    /\ flow.kind[n] = "condition"
    /\ NodeEnds(n, TRUE, skip \cup Below(flow, Untaken(flow, n, result), skip))

\* A loop has run its children for each item, unless there was no item.
LoopEnds(n) ==
    /\ flow.kind[n] = "loop"
    /\ \E children \in {{}, {e.to : e \in {d \in EdgeSet(flow) : d.from = n /\ d.kind # "reverse"}}} :
           NodeEnds(n, TRUE, skip \cup children)

\* A retry goes by executeAgentStep alone: the answer of a condition takes no edge then.
NodeSucceeds(n) ==
    /\ flow.kind[n] \notin {"condition", "loop"} \/ (flow.kind[n] = "condition" /\ flow.retries)
    /\ NodeEnds(n, TRUE, skip)

\* The targets of its error edges run, its other targets do not.
NodeFails(n) ==
    /\ flow.kind[n] \notin {"trigger", "loop"}
    /\ NodeEnds(n, FALSE, (skip \cup SuccessTargets(flow, n)) \ ErrorTargets(flow, n))

ExecutionOfNodeEnds(n) ==
    \/ \E result \in BOOLEAN : ConditionHolds(n, result)
    \/ LoopEnds(n)
    \/ NodeSucceeds(n)
    \/ NodeFails(n)

-----------------------------------------------------------------------------
(* runConductorStrategy *)

\* All units of a phase start at once: chains and meshes whatever is to be skipped.
StartPhase ==
    /\ mode = "conductor" /\ open = {} /\ at <= Len(phases) /\ ~ aborted
    /\ LET units == {u \in phases[at] : u.type = "single" => u.nodes[1] \notin skip}
           passed == UNION {MembersOf(u) : u \in phases[at] \ units}
       IN  /\ open' = units
           /\ at' = IF units = {} THEN at + 1 ELSE at
           /\ settled' = settled \cup passed
           /\ Mark(UNION {MembersOf(u) : u \in units})
           /\ begun' = UNION {IF u.type = "mesh" THEN {u.nodes[1]} ELSE MembersOf(u) : u \in units}
    /\ mesh' = [round |-> 1, member |-> 1]
    /\ UNCHANGED <<flow, mode, stage, steps, runStatus, running, debugMode, buttonVars, cut>>

EndPhases ==
    /\ mode = "conductor" /\ open = {} /\ at > Len(phases)
    /\ Finalize(runStatus)

AbortPhases ==
    /\ mode = "conductor" /\ open = {} /\ at <= Len(phases) /\ aborted
    /\ Finalize("error")

\* Mutant: the next phase starts as soon as one unit has ended.
UnitRacesHome(u) == open' = {} /\ at' = at + 1

\* Promise.all
UnitEnds(u) ==
    /\ open' = open \ {u}
    /\ at' = IF open = {u} THEN at + 1 ELSE at

SingleEnds ==
    \E u \in open :
        /\ u.type = "single"
        /\ ExecutionOfNodeEnds(u.nodes[1])
        /\ settled' = settled \cup {u.nodes[1]}
        /\ UnitEnds(u)
        /\ UNCHANGED <<flow, mode, stage, mesh, steps, runStatus, running, debugMode, buttonVars, cut>>

\* A failure of a chain skips nothing: what follows it runs without its input.
ChainEnds ==
    \E u \in open, ok \in BOOLEAN :
        /\ u.type = "collapsed"
        /\ status' = [n \in NodeSet(flow) |->
                         IF n \notin MembersOf(u) THEN status[n] ELSE IF ok THEN "success" ELSE "error"]
        /\ output' = [n \in NodeSet(flow) |-> IF n \in MembersOf(u) THEN ok ELSE output[n]]
        /\ settled' = settled \cup MembersOf(u)
        /\ UnitEnds(u)
        /\ begun' = {}
        /\ UNCHANGED <<flow, mode, stage, mesh, steps, skip, runStatus, running,
                       debugMode, buttonVars, cut>>

\* The member of a mesh that comes after the present one, if there is to be one.
NextMember(u) ==
    IF mesh.member < Len(u.nodes) THEN [mesh EXCEPT !.member = @ + 1]
    ELSE [round |-> mesh.round + 1, member |-> 1]

MeshGoesOn ==
    \E u \in open :
        /\ u.type = "mesh" /\ ~ aborted /\ NextMember(u).round <= MaxIterations
        /\ LET n == u.nodes[mesh.member]
               m == u.nodes[NextMember(u).member]
           IN  /\ output' = [output EXCEPT ![n] = TRUE]
               /\ settled' = settled \cup {n}
               /\ begun' = {m}
               /\ mesh' = NextMember(u)
        /\ UNCHANGED <<flow, mode, at, stage, open, steps, status, skip, runStatus, running,
                       debugMode, buttonVars, cut>>

\* The last round, a round that repeats the one before, or Stop.  Every member is
\* a success then, though it may not have had its turn.
MeshEnds ==
    \E u \in open :
        /\ u.type = "mesh"
        /\ \/ aborted
           \/ mesh.member = Len(u.nodes) /\ (mesh.round >= 2 \/ mesh.round = MaxIterations)
        /\ output' = [output EXCEPT ![u.nodes[mesh.member]] = TRUE]
        /\ status' = [n \in NodeSet(flow) |-> IF n \in MembersOf(u) THEN "success" ELSE status[n]]
        /\ settled' = settled \cup MembersOf(u)
        /\ UnitEnds(u)
        /\ begun' = {}
        /\ UNCHANGED <<flow, mode, stage, mesh, steps, skip, runStatus, running,
                       debugMode, buttonVars, cut>>

\* A step of a mesh throws, and run() starts over from the first node of the plan.
Fallback ==
    /\ \E u \in open : u.type = "mesh"
    /\ mode' = "sequential" /\ at' = 1 /\ stage' = "top" /\ open' = {}
    /\ skip' = {} /\ settled' = {}
    /\ status' = [n \in NodeSet(flow) |-> IF status[n] = "success" THEN "success" ELSE "idle"]
    /\ begun' = {}
    /\ UNCHANGED <<flow, mesh, steps, output, runStatus, running, debugMode,
                   buttonVars, cut>>

ConductorNext ==
    \/ StartPhase \/ EndPhases \/ AbortPhases
    \/ SingleEnds \/ ChainEnds \/ MeshGoesOn \/ MeshEnds \/ Fallback

-----------------------------------------------------------------------------
(* runSequential *)

\* Behind the gate: skip the node, stop at its breakpoint, or execute it.
PassGate(pausedNow) ==
    LET n == flowPlan[at]
    IN  /\ \/ /\ n \in skip
              /\ at' = at + 1 /\ stage' = "top"
              /\ paused' = pausedNow /\ runStatus' = "running"
              /\ settled' = settled \cup {n}
              /\ begun' = {} /\ UNCHANGED <<status, output, skip>>
           \/ /\ n \notin skip /\ n \in breakpoints /\ at > 1
              /\ stage' = "breakpoint" /\ paused' = TRUE /\ runStatus' = "paused"
              /\ begun' = {} /\ UNCHANGED <<at, canvasVars>>
           \/ /\ n \notin skip /\ ~ (n \in breakpoints /\ at > 1)
              /\ stage' = "step"
              /\ paused' = pausedNow /\ runStatus' = "running"
              /\ Start(n)
              /\ UNCHANGED <<at, settled>>
        /\ UNCHANGED <<flow, mode, open, mesh, steps, running, debugMode, breakpoints, toggles, cut>>

AtTop == mode = "sequential" /\ stage = "top"

\* Mutant: Stop is not looked at between two nodes.
NextNodeAnyway ==
    /\ AtTop /\ at <= Len(flowPlan) /\ ~ paused
    /\ PassGate(FALSE) /\ UNCHANGED aborted

NextNode ==
    /\ AtTop /\ at <= Len(flowPlan) /\ ~ aborted /\ ~ paused
    /\ PassGate(FALSE) /\ UNCHANGED aborted

Gate ==
    /\ AtTop /\ at <= Len(flowPlan) /\ ~ aborted /\ paused
    /\ stage' = "gate" /\ runStatus' = "paused"
    /\ begun' = {}
    /\ UNCHANGED <<flow, mode, at, open, mesh, steps, canvasVars, running, debugMode, buttonVars, cut>>

EndPlan ==
    /\ AtTop /\ at > Len(flowPlan)
    /\ Finalize(runStatus)

LeavePlan ==
    /\ AtTop /\ at <= Len(flowPlan) /\ aborted
    /\ Finalize("error")

StepEnds ==
    /\ mode = "sequential" /\ stage = "step"
    /\ ExecutionOfNodeEnds(flowPlan[at])
    /\ settled' = settled \cup {flowPlan[at]}
    /\ at' = at + 1 /\ stage' = "top"
    /\ UNCHANGED <<flow, mode, open, mesh, steps, runStatus, running, debugMode, buttonVars, cut>>

SequentialNext == NextNode \/ Gate \/ EndPlan \/ LeavePlan \/ StepEnds

-----------------------------------------------------------------------------
(* initDebugSession, debugStepForward, finalizeDebug *)

StartDebug ==
    /\ mode = "idle" /\ ~ running /\ ~ debugMode
    /\ mode' = "debug" /\ debugMode' = TRUE /\ runStatus' = "paused"
    /\ aborted' = FALSE /\ paused' = FALSE
    /\ begun' = {}
    /\ UNCHANGED <<flow, at, stage, open, mesh, steps, canvasVars, running, breakpoints, toggles, cut>>

\* Positions from i on whose nodes are not to be skipped.
Ahead(i, skipped) == {j \in i..Len(flowPlan) : flowPlan[j] \notin skipped}

FinalizeDebug == runStatus' = "success" /\ running' = FALSE /\ debugMode' = FALSE

\* Nothing keeps a second click from executing the node that is under way.
Step(k) ==
    /\ mode = "debug" /\ debugMode /\ steps[k] = 0 /\ at <= Len(flowPlan)
    /\ \E i \in Ahead(at, skip) :
           /\ \A j \in Ahead(at, skip) : i <= j
           /\ at' = i /\ steps' = [steps EXCEPT ![k] = i]
           /\ Start(flowPlan[i])
           /\ settled' = settled \cup {flowPlan[j] : j \in at..(i - 1)}
    /\ running' = TRUE /\ runStatus' = "running"
    /\ UNCHANGED <<flow, mode, stage, open, mesh, debugMode, buttonVars, cut>>

StepFindsNothing ==
    /\ mode = "debug" /\ debugMode /\ at <= Len(flowPlan) /\ Ahead(at, skip) = {}
    /\ FinalizeDebug
    /\ settled' = settled \cup {flowPlan[j] : j \in at..Len(flowPlan)}
    /\ begun' = {}
    /\ UNCHANGED <<flow, pathVars, status, output, skip, buttonVars, cut>>

\* Stop has taken the graph away: recording the output throws, and all that
\* comes after it is left out.
StepIsCut(k) ==
    /\ aborted /\ output'[flowPlan[steps[k]]]
    /\ cut' = TRUE
    /\ settled' = settled \cup {flowPlan[steps[k]]}
    /\ UNCHANGED <<at, running, runStatus, debugMode>>

StepAdvances(k) ==
    /\ ~ (aborted /\ output'[flowPlan[steps[k]]])
    /\ at' = steps[k] + 1
    /\ IF Ahead(steps[k] + 1, skip') # {}
       THEN /\ running' = FALSE /\ runStatus' = "paused" /\ UNCHANGED debugMode
            /\ settled' = settled \cup {flowPlan[steps[k]]}
       ELSE FinalizeDebug /\ settled' = settled \cup {flowPlan[j] : j \in steps[k]..Len(flowPlan)}
    /\ UNCHANGED cut

DebugStepEnds(k) ==
    /\ mode = "debug" /\ steps[k] # 0
    /\ ExecutionOfNodeEnds(flowPlan[steps[k]])
    /\ steps' = [steps EXCEPT ![k] = 0]
    /\ StepIsCut(k) \/ StepAdvances(k)
    /\ UNCHANGED <<flow, mode, stage, open, mesh, buttonVars>>

-----------------------------------------------------------------------------
(* The buttons *)

\* A button that finds the run waiting lets it go on at once.
LetGo(pausedNow) ==
    \/ /\ mode = "sequential" /\ stage = "gate"
       /\ PassGate(pausedNow)
    \/ /\ mode = "sequential" /\ stage = "breakpoint"
       /\ stage' = "step" /\ paused' = FALSE /\ runStatus' = "running"
       /\ Start(flowPlan[at])
       /\ UNCHANGED <<flow, mode, at, open, mesh, steps, settled, running, debugMode, breakpoints, toggles, cut>>
    \/ /\ ~ (mode = "sequential" /\ stage \in {"gate", "breakpoint"})
       /\ paused' = pausedNow /\ begun' = {}
       /\ UNCHANGED <<flow, pathVars, canvasVars, runStatus, running, debugMode, breakpoints, toggles, cut>>

Pause ==
    /\ (running \/ debugMode) /\ runStatus # "paused"
    /\ paused' = TRUE
    /\ begun' = {}
    /\ UNCHANGED <<flow, pathVars, canvasVars, runStatus, running, debugMode, aborted,
                   breakpoints, toggles, cut>>

Resume ==
    /\ (running \/ debugMode) /\ runStatus = "paused"
    /\ LetGo(FALSE)
    /\ UNCHANGED aborted

\* Mutant: Stop lets nobody go on.
AbortOnly ==
    /\ running \/ debugMode
    /\ aborted' = TRUE /\ paused' = FALSE /\ debugMode' = FALSE
    /\ begun' = {}
    /\ UNCHANGED <<flow, pathVars, canvasVars, runStatus, running, breakpoints, toggles, cut>>

Abort ==
    /\ running \/ debugMode
    /\ aborted' = TRUE
    /\ IF debugMode
       THEN /\ debugMode' = FALSE /\ paused' = FALSE /\ begun' = {}
            /\ UNCHANGED <<flow, pathVars, canvasVars, runStatus, running, breakpoints, toggles, cut>>
       ELSE LetGo(FALSE)

\* Only the sequential path looks at the breakpoints.
ToggleBreakpoint(n) ==
    /\ toggles < MaxToggles /\ mode \in {"idle", "sequential"}
    /\ toggles' = toggles + 1
    /\ breakpoints' = IF n \in breakpoints THEN breakpoints \ {n} ELSE breakpoints \cup {n}
    /\ begun' = {}
    /\ UNCHANGED <<flow, pathVars, canvasVars, runStatus, running, debugMode, aborted, paused, cut>>

-----------------------------------------------------------------------------
\* What goes on without the user.
ExecutorNext == ConductorNext \/ SequentialNext \/ \E k \in 1..MaxSteps : DebugStepEnds(k)

UserNext ==
    \/ Run \/ StartDebug \/ StepFindsNothing \/ Pause \/ Resume \/ Abort
    \/ \E k \in 1..MaxSteps : Step(k)
    \/ \E n \in NodeSet(flow) : ToggleBreakpoint(n)

FlowNext == ExecutorNext \/ UserNext

FlowSpec == FlowInit /\ [][FlowNext]_flowVars /\ WF_flowVars(ExecutorNext)

-----------------------------------------------------------------------------
(* Whatever its cycles and chains, the plan of a flow and its phases hold   *)
(* every node once and lead from inputs to outputs wherever there is an     *)
(* order: the edges outside the cycles and what is behind them.             *)
StrategyIsSound == mode = "idle" => FlowIsSound(flow)

(* A node is started only after the nodes its input comes from have ended   *)
(* or were passed over, or together with them in one chain, whoever         *)
(* executes the flow; nodes on a cycle, and behind one, have no such order. *)
NodeAfterInputs ==
    [][\A n \in begun' : \A p \in Inputs(flow, n) \ flow.entangled :
           p \in settled' \/ \E u \in open' : {p, n} \subseteq MembersOf(u)]_flowVars

(* A flow that is reported as a success has had every node executed or      *)
(* passed over, and no unit of a phase is still under way.                  *)
SuccessIsComplete == runStatus = "success" => NodeSet(flow) \subseteq settled /\ open = {}

(* After Stop no node is started any more, but for the one whose breakpoint *)
(* the run stands at: that one waits for the button a second time.          *)
QuietAfterAbort == [][aborted /\ stage # "breakpoint" => begun' = {}]_flowVars

(* Stop ends what is under way, but for a run at a breakpoint behind the    *)
(* gate, and for the debugger when its step comes back with an output.      *)
StopEnds == aborted ~> (~ running \/ stage = "breakpoint" \/ cut)
=============================================================================
