--------------------------- MODULE ToolApprovals ---------------------------
(***************************************************************************)
(* pending_approvals: one map from the id of a tool call to the sender of  *)
(* a oneshot channel, shared by the loops of chats, tasks, swarms and      *)
(* orchestrations.  A call that needs approval registers its sender, shows *)
(* a card in the chat and waits; the user's decision comes back as a       *)
(* command that names the call by id only.  Ids are chosen by providers,   *)
(* so two calls may share one.                                             *)
(***************************************************************************)
EXTENDS Naturals, FiniteSets

CONSTANTS
    Calls,          \* tool calls that need approval
    IdOf,           \* the id each bears
    Orchestrated,   \* those made by the loop of an orchestration
    NoCall

ASSUME ApprovalAssumption ==
    /\ Orchestrated \subseteq Calls
    /\ NoCall \notin Calls

Ids == {IdOf[c] : c \in Calls}
Twins(c) == {d \in Calls : IdOf[d] = IdOf[c]}

VARIABLES
    pending,        \* pending_approvals: id -> the call whose sender it holds
    wait,           \* where each call is
    channel,        \* its oneshot: open, a verdict sent, or its sender dropped
    decided,        \* what the user clicked on its card
    commands        \* engine_approve_tool under way: [card, id, allowed]

approvalVars == <<pending, wait, channel, decided, commands>>

Stages == {"idle", "waiting", "expired", "closing", "allowed", "denied", "aborted"}
Verdicts == {"none", "allow", "deny"}

ApprovalsInit ==
    /\ pending = [i \in Ids |-> NoCall]
    /\ wait = [c \in Calls |-> "idle"]
    /\ channel = [c \in Calls |-> "open"]
    /\ decided = [c \in Calls |-> "none"]
    /\ commands = {}

Goto(c, stage) == wait' = [wait EXCEPT ![c] = stage]

\* Taking an entry out of the map drops its sender; a receiver that still waits
\* then finds the channel closed.
DropSender(d) ==
    channel' = [c \in Calls |-> IF c = d /\ channel[c] = "open" THEN "closed" ELSE channel[c]]

-----------------------------------------------------------------------------
(* The loop of the agent *)

\* The sender is inserted, in place of one of an equal id, and the card is shown.
Register(c) ==
    /\ wait[c] = "idle"
    /\ Goto(c, "waiting")
    /\ DropSender(pending[IdOf[c]])
    /\ pending' = [pending EXCEPT ![IdOf[c]] = c]
    /\ UNCHANGED <<decided, commands>>

TakeAnyVerdict(c) ==
    /\ wait[c] = "waiting"
    /\ channel[c] \in {"allow", "deny", "closed"}
    /\ Goto(c, IF channel[c] # "deny" THEN "allowed" ELSE "denied")
    /\ UNCHANGED <<pending, channel, decided, commands>>

\* A verdict that has arrived is taken even if the time is up.
TakeVerdict(c) ==
    /\ wait[c] = "waiting"
    /\ channel[c] \in {"allow", "deny"}
    /\ Goto(c, IF channel[c] = "allow" THEN "allowed" ELSE "denied")
    /\ UNCHANGED <<pending, channel, decided, commands>>

\* The sender was dropped: denied.  An orchestration clears the entry first.
FindClosed(c) ==
    /\ wait[c] = "waiting"
    /\ channel[c] = "closed"
    /\ Goto(c, IF c \in Orchestrated THEN "closing" ELSE "denied")
    /\ UNCHANGED <<pending, channel, decided, commands>>

TimeOutForgets(c) ==
    /\ wait[c] = "waiting"
    /\ channel[c] = "open"
    /\ Goto(c, "denied")
    /\ UNCHANGED <<pending, channel, decided, commands>>

\* tool_timeout_secs are over: the receiver is gone, the entry is not yet.
TimeOut(c) ==
    /\ wait[c] = "waiting"
    /\ channel[c] = "open"
    /\ Goto(c, "expired")
    /\ UNCHANGED <<pending, channel, decided, commands>>

\* Whatever entry bears the id by now is removed, and the call is denied.
ClearEntry(c) ==
    /\ wait[c] \in {"expired", "closing"}
    /\ Goto(c, "denied")
    /\ DropSender(pending[IdOf[c]])
    /\ pending' = [pending EXCEPT ![IdOf[c]] = NoCall]
    /\ UNCHANGED <<decided, commands>>

\* The run of the call is aborted: the receiver is gone, the entry stays.
Abort(c) ==
    /\ wait[c] = "waiting"
    /\ Goto(c, "aborted")
    /\ UNCHANGED <<pending, channel, decided, commands>>

-----------------------------------------------------------------------------
(* The user, and the command *)

\* A policy of the frontend or a click on the card, which then shows it; the
\* command is on its way.
Decide(c, verdict) ==
    /\ wait[c] # "idle"
    /\ decided[c] = "none"
    /\ decided' = [decided EXCEPT ![c] = verdict]
    /\ commands' = commands \cup {[card |-> c, id |-> IdOf[c], verdict |-> verdict]}
    /\ UNCHANGED <<pending, wait, channel>>

ApproveToolAnyway(cmd) ==
    /\ commands' = commands \ {cmd}
    /\ pending' = [pending EXCEPT ![cmd.id] = NoCall]
    /\ channel' = [c \in Calls |->
                     IF wait[c] = "waiting" /\ channel[c] = "open" THEN cmd.verdict
                     ELSE channel[c]]
    /\ UNCHANGED <<wait, decided>>

\* The entry is taken out and its sender used; that the receiver is gone, or that
\* there is no entry, is not an error.
ApproveTool(cmd) ==
    /\ commands' = commands \ {cmd}
    /\ pending' = [pending EXCEPT ![cmd.id] = NoCall]
    /\ channel' = [c \in Calls |->
                     IF c = pending[cmd.id] /\ wait[c] = "waiting" THEN cmd.verdict
                     ELSE channel[c]]
    /\ UNCHANGED <<wait, decided>>

-----------------------------------------------------------------------------
ApprovalsNext ==
    \/ \E c \in Calls :
         \/ Register(c) \/ TakeVerdict(c) \/ FindClosed(c)
         \/ TimeOut(c) \/ ClearEntry(c) \/ Abort(c)
         \/ \E verdict \in {"allow", "deny"} : Decide(c, verdict)
    \/ \E cmd \in commands : ApproveTool(cmd)

ApprovalsSpec == ApprovalsInit /\ [][ApprovalsNext]_approvalVars

-----------------------------------------------------------------------------
Commands == [card : Calls, id : Ids, verdict : {"allow", "deny"}]

ApprovalsTypeOK ==
    /\ pending \in [Ids -> Calls \cup {NoCall}]
    /\ wait \in [Calls -> Stages]
    /\ channel \in [Calls -> {"open", "allow", "deny", "closed"}]
    /\ decided \in [Calls -> Verdicts]
    /\ commands \subseteq Commands

(* A tool is run only if the user allowed the call, or one of the same id,  *)
(* however registrations, time-outs, aborts and late commands interleave.   *)
AllowedByUser ==
    \A c \in Calls : wait[c] = "allowed" => \E d \in Twins(c) : decided[d] = "allow"

(* Whoever else registers, times out or is answered, a call that waits and  *)
(* shares its id with no other either has the answer its own user gave, or  *)
(* has its sender in the map: an answer given in time reaches it.           *)
AnswerReachesItsCall ==
    \A c \in Calls : Twins(c) = {c} /\ wait[c] = "waiting" =>
        \/ channel[c] = decided[c]
        \/ channel[c] = "open" /\ pending[IdOf[c]] = c

(* The map holds no sender of a call that is over, aborted ones excepted:   *)
(* whoever stops waiting clears the entry, or finds that it was cleared.    *)
NoLeakedEntry ==
    \A i \in Ids : pending[i] # NoCall =>
        /\ IdOf[pending[i]] = i
        /\ wait[pending[i]] \in {"waiting", "expired", "aborted"}
=============================================================================
