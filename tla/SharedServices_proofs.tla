----------------------- MODULE SharedServices_proofs -----------------------
(***************************************************************************)
(* What all runs share or live beside: approvals, the wakes of squads, the *)
(* circuit breaker of a provider, the tokens of the day and the streams of *)
(* the chat view.  Five components, one section each, with an inductive    *)
(* invariant of its own.                                                   *)
(***************************************************************************)
EXTENDS ToolApprovals, SwarmWakes, CircuitBreaker, DailyTokens, ChatStream,
        FiniteSetTheorems, TLAPS

-----------------------------------------------------------------------------
(***************************************************************************)
(* Approvals reach their calls, for any calls and any ids.                 *)
(***************************************************************************)

(* A command carries the verdict of its card; a verdict in a channel is one *)
(* the user gave on a card of the same id.                                  *)
Justified ==
    /\ \A cmd \in commands : cmd.id = IdOf[cmd.card] /\ decided[cmd.card] = cmd.verdict
    /\ \A c \in Calls : channel[c] \in {"allow", "deny"} =>
         \E d \in Twins(c) : decided[d] = channel[c]

(* Nothing has been sent on a channel whose sender the map holds, or whose  *)
(* call has not registered yet.                                             *)
SendersUnused ==
    /\ \A i \in Ids : pending[i] # NoCall => channel[pending[i]] = "open"
    /\ \A c \in Calls : wait[c] = "idle" => channel[c] = "open"

ApprovalIInv ==
    /\ ApprovalsTypeOK /\ NoLeakedEntry /\ SendersUnused /\ Justified
    /\ AllowedByUser /\ AnswerReachesItsCall

-----------------------------------------------------------------------------
LEMMA ApprovalInitInv == ApprovalsInit => ApprovalIInv
  BY ApprovalAssumption
  DEF ApprovalsInit, ApprovalIInv, ApprovalsTypeOK, NoLeakedEntry, SendersUnused, Justified, AllowedByUser,
      AnswerReachesItsCall, Stages, Verdicts

(* The map and the channels keep their types, whoever drops a sender.       *)
LEMMA ApprovalTypeStep == ApprovalIInv /\ [ApprovalsNext]_approvalVars => ApprovalsTypeOK'
  <1> SUFFICES ASSUME ApprovalIInv, [ApprovalsNext]_approvalVars PROVE ApprovalsTypeOK'
    OBVIOUS
  <1> USE ApprovalAssumption DEF ApprovalIInv, ApprovalsTypeOK, Stages, Verdicts, Commands, Ids
  <1>1. ASSUME NEW c \in Calls, Register(c) PROVE ApprovalsTypeOK'
    BY <1>1 DEF Register, Goto, DropSender
  <1>2. ASSUME NEW c \in Calls, TakeVerdict(c) PROVE ApprovalsTypeOK'
    BY <1>2 DEF TakeVerdict, Goto
  <1>3. ASSUME NEW c \in Calls, FindClosed(c) PROVE ApprovalsTypeOK'
    BY <1>3 DEF FindClosed, Goto
  <1>4. ASSUME NEW c \in Calls, TimeOut(c) PROVE ApprovalsTypeOK'
    BY <1>4 DEF TimeOut, Goto
  <1>5. ASSUME NEW c \in Calls, ClearEntry(c) PROVE ApprovalsTypeOK'
    BY <1>5 DEF ClearEntry, Goto, DropSender
  <1>6. ASSUME NEW c \in Calls, Abort(c) PROVE ApprovalsTypeOK'
    BY <1>6 DEF Abort, Goto
  <1>7. ASSUME NEW c \in Calls, NEW v \in {"allow", "deny"}, Decide(c, v) PROVE ApprovalsTypeOK'
    BY <1>7 DEF Decide
  <1>8. ASSUME NEW cmd \in commands, ApproveTool(cmd) PROVE ApprovalsTypeOK'
    BY <1>8 DEF ApproveTool
  <1>9. CASE UNCHANGED approvalVars
    BY <1>9 DEF approvalVars
  <1>10. QED
    BY <1>1, <1>2, <1>3, <1>4, <1>5, <1>6, <1>7, <1>8, <1>9 DEF ApprovalsNext

(* Who stops waiting has been taken out of the map, or will clear its entry. *)
LEMMA EntryStep == ApprovalIInv /\ [ApprovalsNext]_approvalVars => NoLeakedEntry'
  <1> SUFFICES ASSUME ApprovalIInv, [ApprovalsNext]_approvalVars PROVE NoLeakedEntry'
    OBVIOUS
  <1> USE ApprovalAssumption DEF ApprovalIInv, ApprovalsTypeOK, NoLeakedEntry, SendersUnused,
         Ids, Stages, Verdicts, Commands
  <1>1. ASSUME NEW c \in Calls, Register(c) PROVE NoLeakedEntry'
    BY <1>1 DEF Register, Goto, DropSender
  <1>2. ASSUME NEW c \in Calls, TakeVerdict(c) PROVE NoLeakedEntry'
    BY <1>2 DEF TakeVerdict, Goto
  <1>3. ASSUME NEW c \in Calls, FindClosed(c) PROVE NoLeakedEntry'
    BY <1>3 DEF FindClosed, Goto
  <1>4. ASSUME NEW c \in Calls, TimeOut(c) PROVE NoLeakedEntry'
    BY <1>4 DEF TimeOut, Goto
  <1>5. ASSUME NEW c \in Calls, ClearEntry(c) PROVE NoLeakedEntry'
    BY <1>5 DEF ClearEntry, Goto, DropSender
  <1>6. ASSUME NEW c \in Calls, Abort(c) PROVE NoLeakedEntry'
    BY <1>6 DEF Abort, Goto
  <1>7. ASSUME NEW c \in Calls, NEW v \in {"allow", "deny"}, Decide(c, v) PROVE NoLeakedEntry'
    BY <1>7 DEF Decide, Twins
  <1>8. ASSUME NEW cmd \in commands, ApproveTool(cmd) PROVE NoLeakedEntry'
    BY <1>8 DEF ApproveTool
  <1>9. CASE UNCHANGED approvalVars
    BY <1>9 DEF approvalVars
  <1>10. QED
    BY <1>1, <1>2, <1>3, <1>4, <1>5, <1>6, <1>7, <1>8, <1>9 DEF ApprovalsNext

(* A sender that is used or dropped leaves the map in the same step.         *)
LEMMA SenderStep == ApprovalIInv /\ [ApprovalsNext]_approvalVars => SendersUnused'
  <1> SUFFICES ASSUME ApprovalIInv, [ApprovalsNext]_approvalVars PROVE SendersUnused'
    OBVIOUS
  <1> USE ApprovalAssumption DEF ApprovalIInv, ApprovalsTypeOK, NoLeakedEntry, SendersUnused,
         Ids, Stages, Verdicts, Commands, Justified
  <1>1. ASSUME NEW c \in Calls, Register(c) PROVE SendersUnused'
    BY <1>1 DEF Register, Goto, DropSender
  <1>2. ASSUME NEW c \in Calls, TakeVerdict(c) PROVE SendersUnused'
    BY <1>2 DEF TakeVerdict, Goto
  <1>3. ASSUME NEW c \in Calls, FindClosed(c) PROVE SendersUnused'
    BY <1>3 DEF FindClosed, Goto
  <1>4. ASSUME NEW c \in Calls, TimeOut(c) PROVE SendersUnused'
    BY <1>4 DEF TimeOut, Goto
  <1>5. ASSUME NEW c \in Calls, ClearEntry(c) PROVE SendersUnused'
    BY <1>5 DEF ClearEntry, Goto, DropSender
  <1>6. ASSUME NEW c \in Calls, Abort(c) PROVE SendersUnused'
    BY <1>6 DEF Abort, Goto
  <1>7. ASSUME NEW c \in Calls, NEW v \in {"allow", "deny"}, Decide(c, v) PROVE SendersUnused'
    BY <1>7 DEF Decide, Twins
  <1>8. ASSUME NEW cmd \in commands, ApproveTool(cmd) PROVE SendersUnused'
    BY <1>8 DEF ApproveTool
  <1>9. CASE UNCHANGED approvalVars
    BY <1>9 DEF approvalVars
  <1>10. QED
    BY <1>1, <1>2, <1>3, <1>4, <1>5, <1>6, <1>7, <1>8, <1>9 DEF ApprovalsNext

(* A verdict is sent only by the command of a card of the same id.          *)
LEMMA JustifiedStep == ApprovalIInv /\ [ApprovalsNext]_approvalVars => Justified'
  <1> SUFFICES ASSUME ApprovalIInv, [ApprovalsNext]_approvalVars PROVE Justified'
    OBVIOUS
  <1> USE ApprovalAssumption DEF ApprovalIInv, ApprovalsTypeOK, NoLeakedEntry, SendersUnused,
         Ids, Stages, Verdicts, Commands, Justified, Twins
  <1>1. ASSUME NEW c \in Calls, Register(c) PROVE Justified'
    BY <1>1 DEF Register, Goto, DropSender
  <1>2. ASSUME NEW c \in Calls, TakeVerdict(c) PROVE Justified'
    BY <1>2 DEF TakeVerdict, Goto
  <1>3. ASSUME NEW c \in Calls, FindClosed(c) PROVE Justified'
    BY <1>3 DEF FindClosed, Goto
  <1>4. ASSUME NEW c \in Calls, TimeOut(c) PROVE Justified'
    BY <1>4 DEF TimeOut, Goto
  <1>5. ASSUME NEW c \in Calls, ClearEntry(c) PROVE Justified'
    BY <1>5 DEF ClearEntry, Goto, DropSender
  <1>6. ASSUME NEW c \in Calls, Abort(c) PROVE Justified'
    BY <1>6 DEF Abort, Goto
  <1>7. ASSUME NEW c \in Calls, NEW v \in {"allow", "deny"}, Decide(c, v) PROVE Justified'
    BY <1>7 DEF Decide
  <1>8. ASSUME NEW cmd \in commands, ApproveTool(cmd) PROVE Justified'
    BY <1>8 DEF ApproveTool
  <1>9. CASE UNCHANGED approvalVars
    BY <1>9 DEF approvalVars
  <1>10. QED
    BY <1>1, <1>2, <1>3, <1>4, <1>5, <1>6, <1>7, <1>8, <1>9 DEF ApprovalsNext

(* What the user clicked stays clicked.                                     *)
LEMMA AllowedStep == ApprovalIInv /\ [ApprovalsNext]_approvalVars => AllowedByUser'
  <1> SUFFICES ASSUME ApprovalIInv, [ApprovalsNext]_approvalVars PROVE AllowedByUser'
    OBVIOUS
  <1> USE ApprovalAssumption DEF ApprovalIInv, ApprovalsTypeOK, NoLeakedEntry, SendersUnused,
         Ids, Stages, Verdicts, Commands, Justified, AllowedByUser, Twins
  <1>1. ASSUME NEW c \in Calls, Register(c) PROVE AllowedByUser'
    BY <1>1 DEF Register, Goto, DropSender
  <1>2. ASSUME NEW c \in Calls, TakeVerdict(c) PROVE AllowedByUser'
    BY <1>2 DEF TakeVerdict, Goto
  <1>3. ASSUME NEW c \in Calls, FindClosed(c) PROVE AllowedByUser'
    BY <1>3 DEF FindClosed, Goto
  <1>4. ASSUME NEW c \in Calls, TimeOut(c) PROVE AllowedByUser'
    BY <1>4 DEF TimeOut, Goto
  <1>5. ASSUME NEW c \in Calls, ClearEntry(c) PROVE AllowedByUser'
    BY <1>5 DEF ClearEntry, Goto, DropSender
  <1>6. ASSUME NEW c \in Calls, Abort(c) PROVE AllowedByUser'
    BY <1>6 DEF Abort, Goto
  <1>7. ASSUME NEW c \in Calls, NEW v \in {"allow", "deny"}, Decide(c, v) PROVE AllowedByUser'
    BY <1>7 DEF Decide
  <1>8. ASSUME NEW cmd \in commands, ApproveTool(cmd) PROVE AllowedByUser'
    BY <1>8 DEF ApproveTool
  <1>9. CASE UNCHANGED approvalVars
    BY <1>9 DEF approvalVars
  <1>10. QED
    BY <1>1, <1>2, <1>3, <1>4, <1>5, <1>6, <1>7, <1>8, <1>9 DEF ApprovalsNext

(* Only the card of the call itself bears an id that no other call shares.  *)
LEMMA AnswerStep == ApprovalIInv /\ [ApprovalsNext]_approvalVars => AnswerReachesItsCall'
  <1> SUFFICES ASSUME ApprovalIInv, [ApprovalsNext]_approvalVars PROVE AnswerReachesItsCall'
    OBVIOUS
  <1> USE ApprovalAssumption DEF ApprovalIInv, ApprovalsTypeOK, NoLeakedEntry, SendersUnused,
         Ids, Stages, Verdicts, Commands, Justified, AnswerReachesItsCall, Twins
  <1>1. ASSUME NEW c \in Calls, Register(c) PROVE AnswerReachesItsCall'
    BY <1>1 DEF Register, Goto, DropSender
  <1>2. ASSUME NEW c \in Calls, TakeVerdict(c) PROVE AnswerReachesItsCall'
    BY <1>2 DEF TakeVerdict, Goto
  <1>3. ASSUME NEW c \in Calls, FindClosed(c) PROVE AnswerReachesItsCall'
    BY <1>3 DEF FindClosed, Goto
  <1>4. ASSUME NEW c \in Calls, TimeOut(c) PROVE AnswerReachesItsCall'
    BY <1>4 DEF TimeOut, Goto
  <1>5. ASSUME NEW c \in Calls, ClearEntry(c) PROVE AnswerReachesItsCall'
    BY <1>5 DEF ClearEntry, Goto, DropSender
  <1>6. ASSUME NEW c \in Calls, Abort(c) PROVE AnswerReachesItsCall'
    BY <1>6 DEF Abort, Goto
  <1>7. ASSUME NEW c \in Calls, NEW v \in {"allow", "deny"}, Decide(c, v) PROVE AnswerReachesItsCall'
    BY <1>7 DEF Decide
  <1>8. ASSUME NEW cmd \in commands, ApproveTool(cmd) PROVE AnswerReachesItsCall'
    BY <1>8 DEF ApproveTool
  <1>9. CASE UNCHANGED approvalVars
    BY <1>9 DEF approvalVars
  <1>10. QED
    BY <1>1, <1>2, <1>3, <1>4, <1>5, <1>6, <1>7, <1>8, <1>9 DEF ApprovalsNext

LEMMA ApprovalInductive == ApprovalsSpec => []ApprovalIInv
  <1>1. ApprovalIInv /\ [ApprovalsNext]_approvalVars => ApprovalIInv'
    BY ApprovalTypeStep, EntryStep, SenderStep, JustifiedStep, AllowedStep, AnswerStep DEF ApprovalIInv
  <1>2. QED
    BY <1>1, ApprovalInitInv, PTL DEF ApprovalsSpec

-----------------------------------------------------------------------------
(* The map, the channels and the commands keep their types.                 *)
THEOREM ApprovalsTyped == ApprovalsSpec => []ApprovalsTypeOK
  <1>1. ApprovalIInv => ApprovalsTypeOK
    BY DEF ApprovalIInv
  <1>2. QED
    BY <1>1, ApprovalInductive, PTL

(* No tool is run whose call, or a call of the same id, the user did not    *)
(* allow.                                                                   *)
THEOREM OnlyAllowedCallsRun == ApprovalsSpec => []AllowedByUser
  <1>1. ApprovalIInv => AllowedByUser
    BY DEF ApprovalIInv
  <1>2. QED
    BY <1>1, ApprovalInductive, PTL

(* A call whose id is its own keeps its sender in the map until its own     *)
(* user's answer is in its channel.                                         *)
THEOREM AnswersArrive == ApprovalsSpec => []AnswerReachesItsCall
  <1>1. ApprovalIInv => AnswerReachesItsCall
    BY DEF ApprovalIInv
  <1>2. QED
    BY <1>1, ApprovalInductive, PTL

(* Only aborted calls leave their entry behind.                             *)
THEOREM EntriesAreCleared == ApprovalsSpec => []NoLeakedEntry
  <1>1. ApprovalIInv => NoLeakedEntry
    BY DEF ApprovalIInv
  <1>2. QED
    BY <1>1, ApprovalInductive, PTL

-----------------------------------------------------------------------------
(***************************************************************************)
(* The wakes of all squads and of each squad, for any number of squads,    *)
(* members, runs and messages.                                             *)
(***************************************************************************)

\* Runs that have taken a place from the global counter and not spawned the turn.
Counting == {r \in Broadcasters : waker[r].at = "count"}

(* Every turn spawned had taken its place from the global counter, except   *)
(* those whose place a reset has forgotten since.                           *)
WakesClaimed ==
    /\ global <= GlobalCap
    /\ woken + Cardinality(Counting) <= global + Cardinality(Broadcasters)

LimitsRead == \A r \in Broadcasters : waker[r].at = "compare" => waker[r].limit <= SquadCap

SwarmIInv == SwarmTypeOK /\ LimitsRead /\ WakesClaimed /\ SquadOvershoot

-----------------------------------------------------------------------------
LEMMA NobodyIsNoNumber == Nobody \notin Nat /\ Nobody \notin Squads /\ Nobody \notin Sends
  BY SwarmAssumption

LEMMA LimitCapped == ASSUME NEW size \in Nat PROVE LimitFor(size) \in Nat /\ LimitFor(size) <= SquadCap
  <1>1. size * WakesPerMember \in Nat
    BY SwarmAssumption
  <1>2. QED
    BY <1>1, SwarmAssumption DEF LimitFor

(* The parts of the runs are finite and no larger than the whole.           *)
LEMMA PartsOfRuns ==
    ASSUME NEW S, S \subseteq Broadcasters
    PROVE  /\ IsFiniteSet(S) /\ Cardinality(S) \in Nat
           /\ Cardinality(Broadcasters) \in Nat
           /\ Cardinality(S) <= Cardinality(Broadcasters)
  BY SwarmAssumption, FS_Subset, FS_CardinalityType

(* A part never grows by losing runs.                                       *)
LEMMA SmallerPart ==
    ASSUME NEW S, NEW R, S \subseteq R, R \subseteq Broadcasters
    PROVE  Cardinality(S) <= Cardinality(R)
  BY PartsOfRuns, FS_Subset

(* One run more, one run less.                                              *)
LEMMA PartPlusOne ==
    ASSUME NEW S, S \subseteq Broadcasters, NEW r \in Broadcasters, r \notin S
    PROVE  Cardinality(S \cup {r}) = Cardinality(S) + 1
  BY PartsOfRuns, FS_AddElement

LEMMA PartMinusOne ==
    ASSUME NEW S, S \subseteq Broadcasters, NEW r \in S
    PROVE  Cardinality(S \ {r}) = Cardinality(S) - 1
  BY PartsOfRuns, FS_RemoveElement

-----------------------------------------------------------------------------
LEMMA SwarmInitInv == SwarmInit => SwarmIInv
  <1> SUFFICES ASSUME SwarmInit PROVE SwarmIInv
    OBVIOUS
  <1> USE SwarmAssumption, NobodyIsNoNumber
  <1>a. NotBroadcasting \in WakerStates
    BY DEF NotBroadcasting, WakerStates
  <1>1. SwarmTypeOK
    <2>1. waker \in [Broadcasters -> WakerStates]
      BY <1>a DEF SwarmInit
    <2>2. \A r \in Broadcasters : waker[r].at = "idle"
      BY DEF SwarmInit, NotBroadcasting
    <2>3. QED
      BY <2>1, <2>2 DEF SwarmInit, SwarmTypeOK
  <1>2. LimitsRead
    BY DEF SwarmInit, LimitsRead, NotBroadcasting
  <1>3. Counting = {} /\ \A s \in Squads : Passing(s) = {} /\ Count(s) = 0
    BY DEF SwarmInit, Counting, Passing, Count, NotBroadcasting
  <1>4. Cardinality(Broadcasters) \in Nat
    BY PartsOfRuns
  <1>5. Cardinality({}) = 0
    BY FS_EmptySet
  <1>6. WakesClaimed
    BY <1>3, <1>4, <1>5 DEF WakesClaimed, SwarmInit
  <1>7. SquadOvershoot
    <2>1. \A s \in Squads : Count(s) = 0 /\ Cardinality(Passing(s)) = 0
      BY <1>3, <1>5
    <2>2. 0 <= (SquadCap - 1) + Cardinality(Broadcasters)
      BY <1>4
    <2>3. QED
      BY <2>1, <2>2 DEF SquadOvershoot
  <1>8. QED
    BY <1>1, <1>2, <1>6, <1>7 DEF SwarmIInv

(* Where a run goes, and that no other run moves.                           *)
LEMMA NextRecipientMoves ==
    ASSUME SwarmTypeOK, NEW r \in Broadcasters, NextRecipient(r)
    PROVE  /\ waker' \in [Broadcasters -> WakerStates]
           /\ waker'[r].at \in {"idle", "check"}
           /\ waker'[r].at # "idle" => waker'[r].squad = waker[r].squad
           /\ \A q \in Broadcasters \ {r} : waker'[q] = waker[q]
  <1>1. waker[r] \in WakerStates
    BY DEF SwarmTypeOK
  <1>2. waker'[r] = IF waker[r].left > 1
                    THEN [at |-> "check", squad |-> waker[r].squad,
                          left |-> waker[r].left - 1, limit |-> 0]
                    ELSE NotBroadcasting
    BY DEF SwarmTypeOK, NextRecipient
  <1>3. \A q \in Broadcasters \ {r} : waker'[q] = waker[q]
    BY DEF SwarmTypeOK, NextRecipient
  <1>4. waker'[r] \in WakerStates /\ DOMAIN waker' = Broadcasters
    BY <1>1, <1>2 DEF WakerStates, NotBroadcasting, NextRecipient, SwarmTypeOK
  <1>5. waker' = [q \in Broadcasters |-> waker'[q]]
    BY DEF NextRecipient, SwarmTypeOK
  <1>6. waker' \in [Broadcasters -> WakerStates]
    BY <1>3, <1>4, <1>5 DEF SwarmTypeOK
  <1>7. QED
    BY <1>2, <1>3, <1>6 DEF NotBroadcasting

LEMMA WakeAtMoves ==
    ASSUME SwarmTypeOK, NEW r \in Broadcasters,
           NEW stage \in {"limit", "claim", "count"}, WakeAt(r, stage)
    PROVE  /\ waker' \in [Broadcasters -> WakerStates]
           /\ waker'[r].at = stage /\ waker'[r].squad = waker[r].squad
           /\ \A q \in Broadcasters \ {r} : waker'[q] = waker[q]
  BY DEF SwarmTypeOK, WakeAt, WakerStates

LEMMA BroadcastMoves ==
    ASSUME SwarmTypeOK, NEW r \in Broadcasters, NEW s \in Squads, Broadcast(r, s)
    PROVE  /\ waker' \in [Broadcasters -> WakerStates]
           /\ waker'[r].at = "check" /\ waker'[r].squad = s
           /\ \A q \in Broadcasters \ {r} : waker'[q] = waker[q]
  <1>1. PICK others \in {Members[s] - 1, Members[s]} \ {0} :
          waker' = [waker EXCEPT ![r] =
                      [at |-> "check", squad |-> s, left |-> others, limit |-> 0]]
    BY DEF Broadcast
  <1>2. others \in Nat
    BY SwarmAssumption
  <1>3. [at |-> "check", squad |-> s, left |-> others, limit |-> 0] \in WakerStates
    BY <1>2 DEF WakerStates
  <1>4. QED
    BY <1>1, <1>3 DEF SwarmTypeOK

LEMMA WakeLimitCapped ==
    ASSUME SwarmTypeOK, NEW s \in Squads
    PROVE  WakeLimit(s) \in Nat /\ WakeLimit(s) <= SquadCap
  BY LimitCapped, SwarmAssumption DEF WakeLimit, SwarmTypeOK

LEMMA ReadLimitMoves ==
    ASSUME SwarmTypeOK, NEW r \in Broadcasters, ReadLimit(r)
    PROVE  /\ waker' \in [Broadcasters -> WakerStates]
           /\ waker'[r].at = "compare" /\ waker'[r].squad = waker[r].squad
           /\ waker'[r].limit <= SquadCap
           /\ \A q \in Broadcasters \ {r} : waker'[q] = waker[q]
  <1>1. waker[r].squad \in Squads
    BY DEF ReadLimit, SwarmTypeOK
  <1>2. WakeLimit(waker[r].squad) \in Nat /\ WakeLimit(waker[r].squad) <= SquadCap
    BY <1>1, WakeLimitCapped
  <1>3. QED
    BY <1>2 DEF ReadLimit, SwarmTypeOK, WakerStates

(* A run that does not pass the check counts for no squad anew.             *)
LEMMA PassingShrinks ==
    ASSUME SwarmTypeOK, NEW r \in Broadcasters, NEW s \in Squads,
           r \in Passing(s)' => r \in Passing(s),
           \A q \in Broadcasters \ {r} : waker'[q] = waker[q]
    PROVE  Cardinality(Passing(s)') <= Cardinality(Passing(s))
  <1>1. Passing(s)' \subseteq Passing(s) /\ Passing(s) \subseteq Broadcasters
    BY DEF Passing
  <1>2. QED
    BY <1>1, SmallerPart

LEMMA CountingShrinks ==
    ASSUME SwarmTypeOK, NEW r \in Broadcasters, waker'[r].at # "count",
           \A q \in Broadcasters \ {r} : waker'[q] = waker[q]
    PROVE  Cardinality(Counting') <= Cardinality(Counting)
  <1>1. Counting' \subseteq Counting /\ Counting \subseteq Broadcasters
    BY DEF Counting
  <1>2. QED
    BY <1>1, SmallerPart

LEMMA PartsAreNumbers ==
    /\ Cardinality(Counting) \in Nat /\ Cardinality(Counting) <= Cardinality(Broadcasters)
    /\ Cardinality(Counting') \in Nat /\ Cardinality(Counting') <= Cardinality(Broadcasters)
    /\ \A s \in Squads :
         /\ Cardinality(Passing(s)) \in Nat
         /\ Cardinality(Passing(s)) <= Cardinality(Broadcasters)
         /\ Cardinality(Passing(s)') \in Nat
         /\ Cardinality(Passing(s)') <= Cardinality(Broadcasters)
    /\ Cardinality(Broadcasters) \in Nat
  <1>1. Counting \subseteq Broadcasters /\ Counting' \subseteq Broadcasters
    BY DEF Counting
  <1>2. \A s \in Squads : Passing(s) \subseteq Broadcasters /\ Passing(s)' \subseteq Broadcasters
    BY DEF Passing
  <1>3. QED
    BY <1>1, <1>2, PartsOfRuns

-----------------------------------------------------------------------------
(* Counters count, and a run under way has a squad.                          *)
LEMMA SwarmTypeStep == SwarmIInv /\ [SwarmNext]_swarmVars => SwarmTypeOK'
  <1> SUFFICES ASSUME SwarmIInv, [SwarmNext]_swarmVars PROVE SwarmTypeOK'
    OBVIOUS
  <1> USE DEF SwarmIInv
  <1>1. ASSUME NEW r \in Broadcasters, NEW s \in Squads, Broadcast(r, s) PROVE SwarmTypeOK'
    <2>1. sizes' \in [Squads -> Nat \cup {Nobody}]
      BY <1>1, SwarmAssumption DEF Broadcast, SwarmTypeOK
    <2>2. UNCHANGED <<counters, global, send, countersLock, woken>>
      BY <1>1 DEF Broadcast
    <2>3. QED
      BY <1>1, <2>1, <2>2, BroadcastMoves DEF SwarmTypeOK
  <1>2. ASSUME NEW r \in Broadcasters, CheckGlobal(r) PROVE SwarmTypeOK'
    BY <1>2, NextRecipientMoves, WakeAtMoves DEF CheckGlobal, SwarmTypeOK
  <1>3. ASSUME NEW r \in Broadcasters, ReadLimit(r) PROVE SwarmTypeOK'
    BY <1>3, ReadLimitMoves DEF ReadLimit, SwarmTypeOK
  <1>4. ASSUME NEW r \in Broadcasters, CompareLimit(r) PROVE SwarmTypeOK'
    BY <1>4, NextRecipientMoves, WakeAtMoves DEF CompareLimit, SwarmTypeOK
  <1>5. ASSUME NEW r \in Broadcasters, ClaimWake(r) PROVE SwarmTypeOK'
    BY <1>5, NextRecipientMoves, WakeAtMoves DEF ClaimWake, SwarmTypeOK
  <1>6. ASSUME NEW r \in Broadcasters, CountWake(r) PROVE SwarmTypeOK'
    BY <1>6, NextRecipientMoves, NobodyIsNoNumber DEF CountWake, Count, SwarmTypeOK
  <1>7. ASSUME NEW m \in Sends, ResetGlobal(m) PROVE SwarmTypeOK'
    BY <1>7 DEF ResetGlobal, SwarmTypeOK
  <1>8. ASSUME NEW m \in Sends, ResetCounters(m) PROVE SwarmTypeOK'
    BY <1>8 DEF ResetCounters, SwarmTypeOK
  <1>9. ASSUME NEW m \in Sends, ResetSizes(m) PROVE SwarmTypeOK'
    BY <1>9 DEF ResetSizes, SwarmTypeOK
  <1>10. CASE UNCHANGED swarmVars
    BY <1>10 DEF swarmVars, SwarmTypeOK
  <1>11. QED
    BY <1>1, <1>2, <1>3, <1>4, <1>5, <1>6, <1>7, <1>8, <1>9, <1>10 DEF SwarmNext

(* A limit that was read is capped.                                          *)
LEMMA LimitStep == SwarmIInv /\ [SwarmNext]_swarmVars => LimitsRead'
  <1> SUFFICES ASSUME SwarmIInv, [SwarmNext]_swarmVars PROVE LimitsRead'
    OBVIOUS
  <1> USE DEF SwarmIInv, LimitsRead
  <1>1. ASSUME NEW r \in Broadcasters, NEW s \in Squads, Broadcast(r, s) PROVE LimitsRead'
    BY <1>1, BroadcastMoves
  <1>2. ASSUME NEW r \in Broadcasters, CheckGlobal(r) PROVE LimitsRead'
    BY <1>2, NextRecipientMoves, WakeAtMoves DEF CheckGlobal
  <1>3. ASSUME NEW r \in Broadcasters, ReadLimit(r) PROVE LimitsRead'
    BY <1>3, ReadLimitMoves
  <1>4. ASSUME NEW r \in Broadcasters, CompareLimit(r) PROVE LimitsRead'
    BY <1>4, NextRecipientMoves, WakeAtMoves DEF CompareLimit
  <1>5. ASSUME NEW r \in Broadcasters, ClaimWake(r) PROVE LimitsRead'
    BY <1>5, NextRecipientMoves, WakeAtMoves DEF ClaimWake
  <1>6. ASSUME NEW r \in Broadcasters, CountWake(r) PROVE LimitsRead'
    BY <1>6, NextRecipientMoves DEF CountWake
  <1>7. ASSUME NEW m \in Sends, ResetGlobal(m) PROVE LimitsRead'
    BY <1>7 DEF ResetGlobal
  <1>8. ASSUME NEW m \in Sends, ResetCounters(m) PROVE LimitsRead'
    BY <1>8 DEF ResetCounters
  <1>9. ASSUME NEW m \in Sends, ResetSizes(m) PROVE LimitsRead'
    BY <1>9 DEF ResetSizes
  <1>10. CASE UNCHANGED swarmVars
    BY <1>10 DEF swarmVars
  <1>11. QED
    BY <1>1, <1>2, <1>3, <1>4, <1>5, <1>6, <1>7, <1>8, <1>9, <1>10 DEF SwarmNext

(* A place is taken before the turn is spawned, and a reset forgets both.    *)
LEMMA ClaimedStep == SwarmIInv /\ [SwarmNext]_swarmVars => WakesClaimed'
  <1> SUFFICES ASSUME SwarmIInv, [SwarmNext]_swarmVars PROVE WakesClaimed'
    OBVIOUS
  <1> USE PartsAreNumbers, SwarmAssumption DEF SwarmIInv, WakesClaimed
  <1>1. ASSUME NEW r \in Broadcasters, NEW s \in Squads, Broadcast(r, s) PROVE WakesClaimed'
    BY <1>1, BroadcastMoves, CountingShrinks DEF Broadcast, SwarmTypeOK
  <1>2. ASSUME NEW r \in Broadcasters, CheckGlobal(r) PROVE WakesClaimed'
    BY <1>2, NextRecipientMoves, WakeAtMoves, CountingShrinks DEF CheckGlobal, SwarmTypeOK
  <1>3. ASSUME NEW r \in Broadcasters, ReadLimit(r) PROVE WakesClaimed'
    <2>1. UNCHANGED <<global, woken>>
      BY <1>3 DEF ReadLimit
    <2>2. Cardinality(Counting') <= Cardinality(Counting)
      BY <1>3, ReadLimitMoves, CountingShrinks
    <2>3. QED
      BY <2>1, <2>2 DEF SwarmTypeOK
  <1>4. ASSUME NEW r \in Broadcasters, CompareLimit(r) PROVE WakesClaimed'
    BY <1>4, NextRecipientMoves, WakeAtMoves, CountingShrinks DEF CompareLimit, SwarmTypeOK
  <1>5. ASSUME NEW r \in Broadcasters, ClaimWake(r) PROVE WakesClaimed'
    <2>1. CASE global >= GlobalCap
      BY <1>5, <2>1, NextRecipientMoves, CountingShrinks DEF ClaimWake, SwarmTypeOK
    <2>2. CASE ~ (global >= GlobalCap)
      <3>1. WakeAt(r, "count") /\ global' = global + 1 /\ woken' = woken /\ r \notin Counting
        BY <1>5, <2>2 DEF ClaimWake, Counting
      <3>2. Counting' = Counting \cup {r} /\ Counting \subseteq Broadcasters
        BY <3>1, WakeAtMoves DEF Counting
      <3>3. Cardinality(Counting') = Cardinality(Counting) + 1
        BY <3>1, <3>2, PartPlusOne
      <3>4. QED
        BY <2>2, <3>1, <3>3 DEF SwarmTypeOK
    <2>3. QED
      BY <2>1, <2>2
  <1>6. ASSUME NEW r \in Broadcasters, CountWake(r) PROVE WakesClaimed'
    <2>1. r \in Counting /\ Counting \subseteq Broadcasters
      BY <1>6 DEF CountWake, Counting
    <2>2. Counting' = Counting \ {r}
      BY <1>6, <2>1, NextRecipientMoves DEF CountWake, Counting
    <2>3. Cardinality(Counting') = Cardinality(Counting) - 1
      BY <2>1, <2>2, PartMinusOne
    <2>4. QED
      BY <1>6, <2>3 DEF CountWake, SwarmTypeOK
  <1>7. ASSUME NEW m \in Sends, ResetGlobal(m) PROVE WakesClaimed'
    BY <1>7 DEF ResetGlobal, SwarmTypeOK
  <1>8. ASSUME NEW m \in Sends, ResetCounters(m) PROVE WakesClaimed'
    <2>1. Counting' = Counting
      BY <1>8 DEF ResetCounters, Counting
    <2>2. QED
      BY <1>8, <2>1 DEF ResetCounters
  <1>9. ASSUME NEW m \in Sends, ResetSizes(m) PROVE WakesClaimed'
    <2>1. Counting' = Counting
      BY <1>9 DEF ResetSizes, Counting
    <2>2. QED
      BY <1>9, <2>1 DEF ResetSizes
  <1>10. CASE UNCHANGED swarmVars
    <2>1. Counting' = Counting
      BY <1>10 DEF swarmVars, Counting
    <2>2. QED
      BY <1>10, <2>1 DEF swarmVars
  <1>11. QED
    BY <1>1, <1>2, <1>3, <1>4, <1>5, <1>6, <1>7, <1>8, <1>9, <1>10 DEF SwarmNext

LEMMA CountsAreNumbers == ASSUME SwarmTypeOK PROVE \A t \in Squads : Count(t) \in Nat
  BY DEF SwarmTypeOK, Count

LEMMA SameCount ==
    ASSUME SwarmTypeOK, SquadOvershoot, counters' = counters,
           \A t \in Squads : Cardinality(Passing(t)') <= Cardinality(Passing(t))
    PROVE  SquadOvershoot'
  <1>1. \A t \in Squads : Count(t)' = Count(t)
    BY DEF Count
  <1>2. QED
    BY <1>1, PartsAreNumbers, CountsAreNumbers, SwarmAssumption DEF SquadOvershoot

(* A run passes the check only while the squad has a wake left.              *)
LEMMA SquadStep == SwarmIInv /\ [SwarmNext]_swarmVars => SquadOvershoot'
  <1> SUFFICES ASSUME SwarmIInv, [SwarmNext]_swarmVars PROVE SquadOvershoot'
    OBVIOUS
  <1> USE PartsAreNumbers, SwarmAssumption DEF SwarmIInv
  <1>1. ASSUME NEW r \in Broadcasters, NEW s \in Squads, Broadcast(r, s) PROVE SquadOvershoot'
    <2>1. counters' = counters
      BY <1>1 DEF Broadcast
    <2>2. ASSUME NEW t \in Squads PROVE Cardinality(Passing(t)') <= Cardinality(Passing(t))
      BY <1>1, BroadcastMoves, PassingShrinks DEF Broadcast, Passing
    <2>3. QED
      BY <2>1, <2>2, SameCount
  <1>2. ASSUME NEW r \in Broadcasters, CheckGlobal(r) PROVE SquadOvershoot'
    <2>1. counters' = counters
      BY <1>2 DEF CheckGlobal
    <2>2. ASSUME NEW t \in Squads PROVE Cardinality(Passing(t)') <= Cardinality(Passing(t))
      BY <1>2, NextRecipientMoves, WakeAtMoves, PassingShrinks DEF CheckGlobal, Passing
    <2>3. QED
      BY <2>1, <2>2, SameCount
  <1>3. ASSUME NEW r \in Broadcasters, ReadLimit(r) PROVE SquadOvershoot'
    <2>1. counters' = counters
      BY <1>3 DEF ReadLimit
    <2>2. ASSUME NEW t \in Squads PROVE Cardinality(Passing(t)') <= Cardinality(Passing(t))
      <3>1. waker'[r].at = "compare" /\ \A q \in Broadcasters \ {r} : waker'[q] = waker[q]
        BY <1>3, ReadLimitMoves
      <3>2. r \notin Passing(t)'
        BY <3>1 DEF Passing
      <3>3. QED
        BY <3>1, <3>2, PassingShrinks
    <2>3. QED
      BY <2>1, <2>2, SameCount
  <1>4. ASSUME NEW r \in Broadcasters, CompareLimit(r) PROVE SquadOvershoot'
    <2>1. counters' = counters /\ waker[r].squad \in Squads
      BY <1>4 DEF CompareLimit, SwarmTypeOK
    <2>2. ASSUME NEW t \in Squads, t # waker[r].squad \/ waker'[r].at # "claim"
          PROVE  Cardinality(Passing(t)') <= Cardinality(Passing(t))
      BY <1>4, <2>2, NextRecipientMoves, WakeAtMoves, PassingShrinks DEF CompareLimit, Passing
    <2>3. CASE waker'[r].at # "claim"
      BY <2>1, <2>2, <2>3, SameCount
    <2>4. CASE waker'[r].at = "claim"
      <3>1. Count(waker[r].squad) <= SquadCap - 1
        BY <1>4, <2>4, NextRecipientMoves DEF CompareLimit, Count, LimitsRead, SwarmTypeOK, WakerStates
      <3>2. QED
        BY <2>1, <2>2, <3>1 DEF SquadOvershoot, Count, SwarmTypeOK
    <2>5. QED
      BY <2>3, <2>4
  <1>5. ASSUME NEW r \in Broadcasters, ClaimWake(r) PROVE SquadOvershoot'
    <2>1. counters' = counters
      BY <1>5 DEF ClaimWake
    <2>2. ASSUME NEW t \in Squads PROVE Cardinality(Passing(t)') <= Cardinality(Passing(t))
      BY <1>5, NextRecipientMoves, WakeAtMoves, PassingShrinks DEF ClaimWake, Passing
    <2>3. QED
      BY <2>1, <2>2, SameCount
  <1>6. ASSUME NEW r \in Broadcasters, CountWake(r) PROVE SquadOvershoot'
    <2>0. PICK own \in Squads : own = waker[r].squad
      BY <1>6 DEF CountWake, SwarmTypeOK
    <2>1. r \in Passing(own) /\ Passing(own) \subseteq Broadcasters
      BY <1>6, <2>0 DEF CountWake, Passing
    <2>2. Passing(own)' = Passing(own) \ {r}
      BY <1>6, <2>0, NextRecipientMoves DEF CountWake, Passing
    <2>3. Cardinality(Passing(own)') = Cardinality(Passing(own)) - 1
      BY <2>1, <2>2, PartMinusOne
    <2>4. Count(own)' = Count(own) + 1
      BY <1>6, <2>0, NobodyIsNoNumber DEF CountWake, Count, SwarmTypeOK
    <2>5. ASSUME NEW t \in Squads, t # own
          PROVE  /\ Count(t)' = Count(t)
                 /\ Cardinality(Passing(t)') <= Cardinality(Passing(t))
      BY <1>6, <2>0, <2>5, NextRecipientMoves, PassingShrinks DEF CountWake, Count, SwarmTypeOK, Passing
    <2>6. QED
      BY <2>1, <2>3, <2>4, <2>5, CountsAreNumbers DEF SquadOvershoot
  <1>7. ASSUME NEW m \in Sends, ResetGlobal(m) PROVE SquadOvershoot'
    <2>1. \A t \in Squads : Passing(t)' = Passing(t)
      BY <1>7 DEF ResetGlobal, Passing
    <2>2. \A t \in Squads : Count(t)' = 0 \/ Count(t)' = Count(t)
      BY <1>7 DEF ResetGlobal, Count
    <2>3. QED
      BY <2>1, <2>2, CountsAreNumbers DEF SquadOvershoot
  <1>8. ASSUME NEW m \in Sends, ResetCounters(m) PROVE SquadOvershoot'
    <2>1. \A t \in Squads : Passing(t)' = Passing(t)
      BY <1>8 DEF ResetCounters, Passing
    <2>2. \A t \in Squads : Count(t)' = 0 \/ Count(t)' = Count(t)
      BY <1>8 DEF ResetCounters, Count
    <2>3. QED
      BY <2>1, <2>2, CountsAreNumbers DEF SquadOvershoot
  <1>9. ASSUME NEW m \in Sends, ResetSizes(m) PROVE SquadOvershoot'
    <2>1. \A t \in Squads : Passing(t)' = Passing(t)
      BY <1>9 DEF ResetSizes, Passing
    <2>2. \A t \in Squads : Count(t)' = 0 \/ Count(t)' = Count(t)
      BY <1>9 DEF ResetSizes, Count
    <2>3. QED
      BY <2>1, <2>2, CountsAreNumbers DEF SquadOvershoot
  <1>10. CASE UNCHANGED swarmVars
    <2>1. \A t \in Squads : Passing(t)' = Passing(t)
      BY <1>10 DEF swarmVars, Passing
    <2>2. \A t \in Squads : Count(t)' = 0 \/ Count(t)' = Count(t)
      BY <1>10 DEF swarmVars, Count
    <2>3. QED
      BY <2>1, <2>2, CountsAreNumbers DEF SquadOvershoot
  <1>11. QED
    BY <1>1, <1>2, <1>3, <1>4, <1>5, <1>6, <1>7, <1>8, <1>9, <1>10 DEF SwarmNext

LEMMA SwarmInductive == SwarmSpec => []SwarmIInv
  <1>1. SwarmIInv /\ [SwarmNext]_swarmVars => SwarmIInv'
    BY SwarmTypeStep, LimitStep, ClaimedStep, SquadStep DEF SwarmIInv
  <1>2. QED
    BY <1>1, SwarmInitInv, PTL DEF SwarmSpec

-----------------------------------------------------------------------------
(* The counters are numbers, whatever resets and broadcasts interleave.     *)
THEOREM SwarmTyped == SwarmSpec => []SwarmTypeOK
  <1>1. SwarmIInv => SwarmTypeOK
    BY DEF SwarmIInv
  <1>2. QED
    BY <1>1, SwarmInductive, PTL

(* The turns spawned between two resets exceed the global ceiling by at     *)
(* most one for each run.                                                   *)
THEOREM GlobalCeiling == SwarmSpec => []WakesCapped
  <1>1. SwarmIInv => WakesCapped
    BY PartsAreNumbers, SwarmAssumption DEF SwarmIInv, WakesClaimed, WakesCapped, SwarmTypeOK
  <1>2. QED
    BY <1>1, SwarmInductive, PTL

(* The wakes of a squad exceed its cap by less than the number of runs.     *)
THEOREM SquadCeiling == SwarmSpec => []SquadOvershoot
  <1>1. SwarmIInv => SquadOvershoot
    BY DEF SwarmIInv
  <1>2. QED
    BY <1>1, SwarmInductive, PTL

-----------------------------------------------------------------------------
(***************************************************************************)
(* The breaker trips at its threshold, for any number of requests, any     *)
(* threshold, cooldown and number of retries.                              *)
(***************************************************************************)

(* The time a request is about to store is a time, never 0.                 *)
StampsAreTimes == \A r \in Requests : req[r].at = "store" => req[r].age <= Cooldown

BreakerIInv == BreakerTypeOK /\ StampsAreTimes /\ ThresholdTrips

-----------------------------------------------------------------------------
LEMMA BreakerInitInv == BreakerInit => BreakerIInv
  <1> SUFFICES ASSUME BreakerInit PROVE BreakerIInv
    OBVIOUS
  <1>1. NoRequest \in RequestStates
    BY BreakerAssumption DEF NoRequest, RequestStates, Ages, Never
  <1>2. 0 \in 0..Threshold /\ Never \in Ages
    BY BreakerAssumption DEF Ages, Never
  <1>3. BreakerTypeOK
    BY <1>1, <1>2 DEF BreakerInit, BreakerTypeOK
  <1>4. StampsAreTimes /\ ThresholdTrips
    BY BreakerAssumption DEF BreakerInit, StampsAreTimes, ThresholdTrips, NoRequest
  <1>5. QED
    BY <1>3, <1>4 DEF BreakerIInv

LEMMA RequestAtMoves ==
    ASSUME BreakerTypeOK, NEW r \in Requests,
           NEW stage \in {"send", "read_trip", "stamp", "zero_trip"}, RequestAt(r, stage)
    PROVE  /\ req' \in [Requests -> RequestStates]
           /\ req'[r].at = stage
           /\ \A q \in Requests \ {r} : req'[q] = req[q]
  BY DEF BreakerTypeOK, RequestAt, RequestStates

LEMMA ReadClockMoves ==
    ASSUME BreakerTypeOK, NEW r \in Requests, ReadClock(r)
    PROVE  /\ req' \in [Requests -> RequestStates]
           /\ req'[r].at = "store" /\ req'[r].age = 0
           /\ \A q \in Requests \ {r} : req'[q] = req[q]
  <1>1. 0 \in Ages
    BY BreakerAssumption DEF Ages, Never
  <1>2. QED
    BY <1>1 DEF BreakerTypeOK, ReadClock, RequestStates

(* What becomes of a request that is over, or has failed.                    *)
LEMMA DoneMoves ==
    ASSUME BreakerTypeOK, NEW r \in Requests, RequestDone(r)
    PROVE  /\ req' \in [Requests -> RequestStates]
           /\ req'[r].at = "idle"
           /\ \A q \in Requests \ {r} : req'[q] = req[q]
  BY BreakerAssumption DEF BreakerTypeOK, RequestDone, RequestStates, NoRequest, Ages, Never

LEMMA AfterFailureMoves ==
    ASSUME BreakerTypeOK, NEW r \in Requests, AfterFailure(r)
    PROVE  /\ req' \in [Requests -> RequestStates]
           /\ req'[r].at \in {"idle", "send"}
           /\ \A q \in Requests \ {r} : req'[q] = req[q]
  <1>1. CASE RequestDone(r)
    BY <1>1, DoneMoves
  <1>2. CASE req[r].attempt < MaxRetries /\ Retry(r)
    <2>1. req[r].attempt + 1 \in 0..MaxRetries
      BY <1>2, BreakerAssumption DEF BreakerTypeOK, RequestStates
    <2>2. [at |-> "send", attempt |-> req[r].attempt + 1, age |-> 0] \in RequestStates
      BY <2>1, BreakerAssumption DEF RequestStates, Ages, Never
    <2>3. QED
      BY <1>2, <2>2 DEF BreakerTypeOK, Retry
  <1>3. QED
    BY <1>1, <1>2 DEF AfterFailure

(* The count stays within its cap, the trip within the ages.                 *)
LEMMA BreakerTypeStep == BreakerIInv /\ [BreakerNext]_breakerVars => BreakerTypeOK'
  <1> SUFFICES ASSUME BreakerIInv, [BreakerNext]_breakerVars PROVE BreakerTypeOK'
    OBVIOUS
  <1> USE BreakerAssumption DEF BreakerIInv
  <1>1. ASSUME NEW r \in Requests, ReadFailures(r) PROVE BreakerTypeOK'
    BY <1>1, RequestAtMoves DEF ReadFailures, BreakerTypeOK
  <1>2. ASSUME NEW r \in Requests, ReadTrip(r) PROVE BreakerTypeOK'
    BY <1>2 DEF ReadTrip, BreakerTypeOK, RequestStates, Ages, Never
  <1>3. ASSUME NEW r \in Requests, Probe(r) PROVE BreakerTypeOK'
    BY <1>3, RequestAtMoves DEF Probe, BreakerTypeOK, RequestStates
  <1>4. ASSUME NEW r \in Requests, Refuse(r) PROVE BreakerTypeOK'
    BY <1>4, DoneMoves DEF Refuse, BreakerTypeOK
  <1>5. ASSUME NEW r \in Requests, FailUnrecorded(r) PROVE BreakerTypeOK'
    BY <1>5, AfterFailureMoves DEF FailUnrecorded, BreakerTypeOK
  <1>6. ASSUME NEW r \in Requests, CountFailure(r) PROVE BreakerTypeOK'
    BY <1>6, AfterFailureMoves, RequestAtMoves DEF CountFailure, BreakerTypeOK, Capped
  <1>7. ASSUME NEW r \in Requests, ReadClock(r) PROVE BreakerTypeOK'
    BY <1>7, ReadClockMoves DEF ReadClock, BreakerTypeOK
  <1>8. ASSUME NEW r \in Requests, StoreTrip(r) PROVE BreakerTypeOK'
    BY <1>8, AfterFailureMoves DEF StoreTrip, BreakerTypeOK, RequestStates, Ages, Never
  <1>9. ASSUME NEW r \in Requests, ZeroFailures(r) PROVE BreakerTypeOK'
    <2>1. req' \in [Requests -> RequestStates]
      BY <1>9, RequestAtMoves DEF ZeroFailures
    <2>2. failures' = 0 /\ torn' = FALSE /\ trip' = trip
      BY <1>9 DEF ZeroFailures
    <2>3. failures' \in 0..Threshold
      BY <2>2
    <2>4. QED
      BY <2>1, <2>2, <2>3, Zenon DEF BreakerTypeOK
  <1>10. ASSUME NEW r \in Requests, ZeroTrip(r) PROVE BreakerTypeOK'
    BY <1>10, DoneMoves DEF ZeroTrip, BreakerTypeOK, Ages, Never
  <1>11. ASSUME Tick PROVE BreakerTypeOK'
    BY <1>11 DEF Tick, BreakerTypeOK, RequestStates, Ages, Never, Older
  <1>12. CASE UNCHANGED breakerVars
    BY <1>12 DEF breakerVars, BreakerTypeOK
  <1>13. QED
    BY <1>1, <1>2, <1>3, <1>4, <1>5, <1>6, <1>7, <1>8, <1>9, <1>10, <1>11, <1>12
    DEF BreakerNext, RequestStep

(* A clock just read is no older than the trip it becomes.                   *)
LEMMA StampStep == BreakerIInv /\ [BreakerNext]_breakerVars => StampsAreTimes'
  <1> SUFFICES ASSUME BreakerIInv, [BreakerNext]_breakerVars PROVE StampsAreTimes'
    OBVIOUS
  <1> USE BreakerAssumption DEF BreakerIInv, StampsAreTimes
  <1>1. ASSUME NEW r \in Requests, ReadFailures(r) PROVE StampsAreTimes'
    BY <1>1, RequestAtMoves DEF ReadFailures, BreakerTypeOK
  <1>2. ASSUME NEW r \in Requests, ReadTrip(r) PROVE StampsAreTimes'
    BY <1>2 DEF ReadTrip, BreakerTypeOK, RequestStates, Ages, Never
  <1>3. ASSUME NEW r \in Requests, Probe(r) PROVE StampsAreTimes'
    BY <1>3, RequestAtMoves DEF Probe, BreakerTypeOK, RequestStates
  <1>4. ASSUME NEW r \in Requests, Refuse(r) PROVE StampsAreTimes'
    BY <1>4, DoneMoves DEF Refuse, BreakerTypeOK
  <1>5. ASSUME NEW r \in Requests, FailUnrecorded(r) PROVE StampsAreTimes'
    BY <1>5, AfterFailureMoves DEF FailUnrecorded, BreakerTypeOK
  <1>6. ASSUME NEW r \in Requests, CountFailure(r) PROVE StampsAreTimes'
    BY <1>6, AfterFailureMoves, RequestAtMoves DEF CountFailure, BreakerTypeOK, Capped
  <1>7. ASSUME NEW r \in Requests, ReadClock(r) PROVE StampsAreTimes'
    <2>1. req'[r].age = 0 /\ \A q \in Requests \ {r} : req'[q] = req[q]
      BY <1>7, ReadClockMoves
    <2>2. QED
      BY <2>1
  <1>8. ASSUME NEW r \in Requests, StoreTrip(r) PROVE StampsAreTimes'
    BY <1>8, AfterFailureMoves DEF StoreTrip, BreakerTypeOK, RequestStates, Ages, Never
  <1>9. ASSUME NEW r \in Requests, ZeroFailures(r) PROVE StampsAreTimes'
    BY <1>9, RequestAtMoves DEF ZeroFailures, BreakerTypeOK
  <1>10. ASSUME NEW r \in Requests, ZeroTrip(r) PROVE StampsAreTimes'
    BY <1>10, DoneMoves DEF ZeroTrip, BreakerTypeOK, Ages, Never
  <1>11. ASSUME Tick PROVE StampsAreTimes'
    BY <1>11 DEF Tick, BreakerTypeOK, RequestStates, Ages, Never, Older
  <1>12. CASE UNCHANGED breakerVars
    BY <1>12 DEF breakerVars, BreakerTypeOK
  <1>13. QED
    BY <1>1, <1>2, <1>3, <1>4, <1>5, <1>6, <1>7, <1>8, <1>9, <1>10, <1>11, <1>12
    DEF BreakerNext, RequestStep

(* Who reaches the threshold goes on to store the trip.                      *)
LEMMA TripStep == BreakerIInv /\ [BreakerNext]_breakerVars => ThresholdTrips'
  <1> SUFFICES ASSUME BreakerIInv, [BreakerNext]_breakerVars PROVE ThresholdTrips'
    OBVIOUS
  <1> USE BreakerAssumption DEF BreakerIInv, StampsAreTimes, ThresholdTrips
  <1>1. ASSUME NEW r \in Requests, ReadFailures(r) PROVE ThresholdTrips'
    BY <1>1, RequestAtMoves DEF ReadFailures, BreakerTypeOK
  <1>2. ASSUME NEW r \in Requests, ReadTrip(r) PROVE ThresholdTrips'
    BY <1>2 DEF ReadTrip, BreakerTypeOK, RequestStates, Ages, Never
  <1>3. ASSUME NEW r \in Requests, Probe(r) PROVE ThresholdTrips'
    BY <1>3, RequestAtMoves DEF Probe, BreakerTypeOK, RequestStates
  <1>4. ASSUME NEW r \in Requests, Refuse(r) PROVE ThresholdTrips'
    BY <1>4, DoneMoves DEF Refuse, BreakerTypeOK
  <1>5. ASSUME NEW r \in Requests, FailUnrecorded(r) PROVE ThresholdTrips'
    BY <1>5, AfterFailureMoves DEF FailUnrecorded, BreakerTypeOK
  <1>6. ASSUME NEW r \in Requests, CountFailure(r) PROVE ThresholdTrips'
    BY <1>6, AfterFailureMoves, RequestAtMoves DEF CountFailure, BreakerTypeOK, Capped
  <1>7. ASSUME NEW r \in Requests, ReadClock(r) PROVE ThresholdTrips'
    BY <1>7, ReadClockMoves DEF ReadClock, BreakerTypeOK
  <1>8. ASSUME NEW r \in Requests, StoreTrip(r) PROVE ThresholdTrips'
    BY <1>8, AfterFailureMoves DEF StoreTrip, BreakerTypeOK, RequestStates, Ages, Never
  <1>9. ASSUME NEW r \in Requests, ZeroFailures(r) PROVE ThresholdTrips'
    BY <1>9, RequestAtMoves DEF ZeroFailures, BreakerTypeOK
  <1>10. ASSUME NEW r \in Requests, ZeroTrip(r) PROVE ThresholdTrips'
    BY <1>10, DoneMoves DEF ZeroTrip, BreakerTypeOK, Ages, Never
  <1>11. ASSUME Tick PROVE ThresholdTrips'
    BY <1>11 DEF Tick, BreakerTypeOK, RequestStates, Ages, Never, Older
  <1>12. CASE UNCHANGED breakerVars
    BY <1>12 DEF breakerVars, BreakerTypeOK
  <1>13. QED
    BY <1>1, <1>2, <1>3, <1>4, <1>5, <1>6, <1>7, <1>8, <1>9, <1>10, <1>11, <1>12
    DEF BreakerNext, RequestStep

LEMMA BreakerInductive == BreakerSpec => []BreakerIInv
  <1>1. BreakerIInv /\ [BreakerNext]_breakerVars => BreakerIInv'
    BY BreakerTypeStep, StampStep, TripStep DEF BreakerIInv
  <1>2. QED
    BY <1>1, BreakerInitInv, PTL DEF BreakerSpec

-----------------------------------------------------------------------------
(* The count, the trip and the requests keep their types.                   *)
THEOREM BreakerTyped == BreakerSpec => []BreakerTypeOK
  <1>1. BreakerIInv => BreakerTypeOK
    BY DEF BreakerIInv
  <1>2. QED
    BY <1>1, BreakerInductive, PTL

(* At the threshold the breaker is tripped, or is being tripped, unless a   *)
(* success that began before those failures erased the trip after them.     *)
THEOREM BreakerTrips == BreakerSpec => []ThresholdTrips
  <1>1. BreakerIInv => ThresholdTrips
    BY DEF BreakerIInv
  <1>2. QED
    BY <1>1, BreakerInductive, PTL

-----------------------------------------------------------------------------
(***************************************************************************)
(* What was recorded today is counted, and the budget is overrun by what   *)
(* is under way, for any number of runs, counters, costs and days.         *)
(***************************************************************************)

(* The lock of the date belongs to the run that zeroes the counters, which  *)
(* has set the date to its own.                                             *)
LockHeld ==
    /\ \A r \in Spenders : round[r].at = "zero" => dateLock = r /\ round[r].day = date
    /\ \A r \in Spenders : round[r].at = "add" => round[r].field <= Fields

(* Unless the date went back, whoever adds has looked at it no later than   *)
(* it was set; while it is being zeroed for a new day nothing of that day   *)
(* has been added.                                                          *)
AddsAreDated ==
    ~ wentBack =>
        /\ \A r \in Spenders : round[r].at = "add" => round[r].day <= date
        /\ \A h \in Spenders : round[h].at = "zero" =>
             /\ \A f \in 1..Fields : owed[f] = 0
             /\ \A r \in Spenders : round[r].at = "add" => round[r].day < date

TokenIInv == TokensTypeOK /\ LockHeld /\ AddsAreDated /\ TodayIsCounted /\ OvershootBounded

-----------------------------------------------------------------------------
LEMMA RunsAreCounted ==
    ASSUME NEW S, S \subseteq Spenders
    PROVE  /\ IsFiniteSet(S) /\ Cardinality(S) \in Nat
           /\ Cardinality(Spenders) \in Nat
           /\ Cardinality(S) <= Cardinality(Spenders)
  BY TokenAssumption, FS_Subset, FS_CardinalityType

LEMMA FewerRuns ==
    ASSUME NEW S, NEW R, S \subseteq R, R \subseteq Spenders
    PROVE  Cardinality(S) <= Cardinality(R)
  BY RunsAreCounted, FS_Subset

LEMMA OneRunLess ==
    ASSUME NEW S, S \subseteq Spenders, NEW r \in S
    PROVE  Cardinality(S \ {r}) = Cardinality(S) - 1
  BY RunsAreCounted, FS_RemoveElement

(* Costs of more runs are more, and one run costs MaxCost.                  *)
LEMMA TimesMonotone ==
    ASSUME NEW m \in Nat, NEW j \in Nat, NEW k \in Nat, j <= k
    PROVE  m * j \in Nat /\ m * j <= m * k
  OBVIOUS

LEMMA TimesOneLess ==
    ASSUME NEW m \in Nat, NEW k \in Nat
    PROVE  m * (k - 1) = m * k - m /\ m * k \in Nat
  OBVIOUS

\* What a call under way may still cost becomes what it did cost.
LEMMA CallIsPaid ==
    ASSUME NEW limit \in Int, NEW before \in Nat, NEW after \in Nat, NEW cost \in Nat,
           NEW m \in Nat, NEW open \in Nat, NEW left \in Nat, NEW all \in Nat,
           after = before + cost, cost <= m, left <= open - m,
           before + open <= limit + all
    PROVE  after + left <= limit + all
  OBVIOUS

LEMMA SpendingIsCounted ==
    /\ Spending \subseteq Spenders /\ Spending' \subseteq Spenders
    /\ Cardinality(Spending) \in Nat /\ Cardinality(Spending') \in Nat
    /\ Cardinality(Spenders) \in Nat
    /\ Cardinality(Spending') <= Cardinality(Spenders)
  <1>1. Spending \subseteq Spenders /\ Spending' \subseteq Spenders
    BY DEF Spending
  <1>2. QED
    BY <1>1, RunsAreCounted

LEMMA TokenInitInv == TokensInit => TokenIInv
  <1> SUFFICES ASSUME TokensInit PROVE TokenIInv
    OBVIOUS
  <1>1. NoRound \in RoundStates /\ NoRound.at = "idle" /\ NoRound.op = "none"
    BY TokenAssumption DEF NoRound, RoundStates
  <1>2. TokensTypeOK
    BY <1>1, TokenAssumption DEF TokensInit, TokensTypeOK
  <1>3. LockHeld /\ AddsAreDated /\ TodayIsCounted
    BY <1>1, TokenAssumption DEF TokensInit, LockHeld, AddsAreDated, TodayIsCounted
  <1>4. Spending = {}
    BY <1>1 DEF TokensInit, Spending
  <1>5. Cardinality(Spending) = 0 /\ spent[CostAt] = 0
    BY <1>4, FS_EmptySet, TokenAssumption DEF TokensInit
  <1>6. MaxCost * Cardinality(Spenders) \in Nat /\ MaxCost * 0 = 0
    BY TokenAssumption, SpendingIsCounted, TimesMonotone
  <1>7. OvershootBounded
    BY <1>5, <1>6, TokenAssumption DEF OvershootBounded
  <1>8. QED
    BY <1>2, <1>3, <1>7 DEF TokenIInv

-----------------------------------------------------------------------------
(* What each step makes of the run that takes it; the others stay.          *)
LEMMA UpdateMoves ==
    ASSUME TokensTypeOK, NEW r \in Spenders, NEW new \in RoundStates, Update(r, new)
    PROVE  /\ round' \in [Spenders -> RoundStates]
           /\ round'[r] = new
           /\ \A q \in Spenders \ {r} : round'[q] = round[q]
  BY DEF TokensTypeOK, Update

LEMMA RowMoves ==
    ASSUME NEW w \in RoundStates, NEW stage \in {"zero", "add", "load"},
           NEW f \in 1..(Fields + 1)
    PROVE  /\ [w EXCEPT !.at = stage, !.field = f] \in RoundStates
           /\ [w EXCEPT !.field = f] \in RoundStates
  BY DEF RoundStates

LEMMA FieldsInRange ==
    /\ 1 \in 1..(Fields + 1)
    /\ \A f \in 1..(Fields + 1) : f <= Fields => f + 1 \in 1..(Fields + 1)
  BY TokenAssumption

LEMMA BodyOf ==
    ASSUME NEW op
    PROVE  Body(op) \in {"add", "load"} /\ (Body(op) = "add" <=> op = "record")
  BY DEF Body

LEMMA ReadDayMoves ==
    ASSUME TokensTypeOK, LockHeld, NEW r \in Spenders, ReadDay(r)
    PROVE  /\ round' \in [Spenders -> RoundStates]
           /\ round'[r].at = "lock"
           /\ round'[r].op = round[r].op /\ round'[r].day = today /\ round'[r].field = round[r].field
           /\ round'[r].cost = round[r].cost
           /\ \A q \in Spenders \ {r} : round'[q] = round[q]
  <1> DEFINE new == [round[r] EXCEPT !.at = "lock", !.day = today]
  <1>1. round[r] \in RoundStates /\ Update(r, new)
    BY DEF TokensTypeOK, ReadDay
  <1>2. new \in RoundStates
    BY <1>1, BodyOf, TokenAssumption DEF RoundStates, TokensTypeOK, ReadDay
  <1>3. /\ new.at = "lock"
        /\ new.op = round[r].op /\ new.day = today /\ new.field = round[r].field
        /\ new.cost = round[r].cost
    BY <1>1, BodyOf DEF RoundStates, ReadDay
  <1> HIDE DEF new
  <1>4. QED
    BY <1>1, <1>2, <1>3, UpdateMoves

LEMMA SameDayMoves ==
    ASSUME TokensTypeOK, LockHeld, NEW r \in Spenders, SameDay(r)
    PROVE  /\ round' \in [Spenders -> RoundStates]
           /\ round'[r].at = Body(round[r].op)
           /\ round'[r].op = round[r].op /\ round'[r].day = round[r].day /\ round'[r].field = 1
           /\ round'[r].cost = round[r].cost
           /\ \A q \in Spenders \ {r} : round'[q] = round[q]
  <1> DEFINE new == [round[r] EXCEPT !.at = Body(round[r].op), !.field = 1]
  <1>1. round[r] \in RoundStates /\ Update(r, new)
    BY DEF TokensTypeOK, SameDay
  <1>2. new \in RoundStates
    BY <1>1, BodyOf, RowMoves, FieldsInRange
  <1>3. /\ new.at = Body(round[r].op)
        /\ new.op = round[r].op /\ new.day = round[r].day /\ new.field = 1
        /\ new.cost = round[r].cost
    BY <1>1, BodyOf DEF RoundStates, SameDay
  <1> HIDE DEF new
  <1>4. QED
    BY <1>1, <1>2, <1>3, UpdateMoves

LEMMA NewDayMoves ==
    ASSUME TokensTypeOK, LockHeld, NEW r \in Spenders, NewDay(r)
    PROVE  /\ round' \in [Spenders -> RoundStates]
           /\ round'[r].at = "zero"
           /\ round'[r].op = round[r].op /\ round'[r].day = round[r].day /\ round'[r].field = 1
           /\ round'[r].cost = round[r].cost
           /\ \A q \in Spenders \ {r} : round'[q] = round[q]
  <1> DEFINE new == [round[r] EXCEPT !.at = "zero", !.field = 1]
  <1>1. round[r] \in RoundStates /\ Update(r, new)
    BY DEF TokensTypeOK, NewDay
  <1>2. new \in RoundStates
    BY <1>1, BodyOf, RowMoves, FieldsInRange
  <1>3. /\ new.at = "zero"
        /\ new.op = round[r].op /\ new.day = round[r].day /\ new.field = 1
        /\ new.cost = round[r].cost
    BY <1>1, BodyOf DEF RoundStates, NewDay
  <1> HIDE DEF new
  <1>4. QED
    BY <1>1, <1>2, <1>3, UpdateMoves

LEMMA ZeroMoves ==
    ASSUME TokensTypeOK, LockHeld, NEW r \in Spenders, Zero(r)
    PROVE  /\ round' \in [Spenders -> RoundStates]
           /\ round'[r].at = "zero"
           /\ round'[r].op = round[r].op /\ round'[r].day = round[r].day /\ round'[r].field = round[r].field + 1
           /\ round'[r].cost = round[r].cost
           /\ \A q \in Spenders \ {r} : round'[q] = round[q]
  <1> DEFINE new == [round[r] EXCEPT !.field = @ + 1]
  <1>1. round[r] \in RoundStates /\ Update(r, new)
    BY DEF TokensTypeOK, Zero
  <1>2. new \in RoundStates
    <2>1. round[r].field \in 1..(Fields + 1) /\ round[r].field <= Fields
      BY <1>1 DEF Zero, RoundStates
    <2>2. round[r].field + 1 \in 1..(Fields + 1)
      BY <2>1, FieldsInRange
    <2>3. QED
      BY <1>1, <2>2, RowMoves
  <1>3. /\ new.at = "zero"
        /\ new.op = round[r].op /\ new.day = round[r].day /\ new.field = round[r].field + 1
        /\ new.cost = round[r].cost
    BY <1>1, BodyOf DEF RoundStates, Zero
  <1> HIDE DEF new
  <1>4. QED
    BY <1>1, <1>2, <1>3, UpdateMoves

LEMMA ClearWarningsMoves ==
    ASSUME TokensTypeOK, LockHeld, NEW r \in Spenders, ClearWarnings(r)
    PROVE  /\ round' \in [Spenders -> RoundStates]
           /\ round'[r].at = Body(round[r].op)
           /\ round'[r].op = round[r].op /\ round'[r].day = round[r].day /\ round'[r].field = 1
           /\ round'[r].cost = round[r].cost
           /\ \A q \in Spenders \ {r} : round'[q] = round[q]
  <1> DEFINE new == [round[r] EXCEPT !.at = Body(round[r].op), !.field = 1]
  <1>1. round[r] \in RoundStates /\ Update(r, new)
    BY DEF TokensTypeOK, ClearWarnings
  <1>2. new \in RoundStates
    BY <1>1, BodyOf, RowMoves, FieldsInRange
  <1>3. /\ new.at = Body(round[r].op)
        /\ new.op = round[r].op /\ new.day = round[r].day /\ new.field = 1
        /\ new.cost = round[r].cost
    BY <1>1, BodyOf DEF RoundStates, ClearWarnings
  <1> HIDE DEF new
  <1>4. QED
    BY <1>1, <1>2, <1>3, UpdateMoves

LEMMA StartRoundMoves ==
    ASSUME TokensTypeOK, LockHeld, NEW r \in Spenders, StartRound(r)
    PROVE  /\ round' \in [Spenders -> RoundStates]
           /\ round'[r].at = "day"
           /\ round'[r].op = "check"
           /\ \A q \in Spenders \ {r} : round'[q] = round[q]
  <1> DEFINE new == [round[r] EXCEPT !.at = "day", !.op = "check"]
  <1>1. round[r] \in RoundStates /\ Update(r, new)
    BY DEF TokensTypeOK, StartRound, Begin
  <1>2. new \in RoundStates
    BY <1>1, BodyOf, TokenAssumption DEF RoundStates, TokensTypeOK, StartRound, Begin
  <1>3. new.at = "day" /\ new.op = "check"
    BY <1>1, BodyOf DEF RoundStates, StartRound, Begin
  <1> HIDE DEF new
  <1>4. QED
    BY <1>1, <1>2, <1>3, UpdateMoves

LEMMA LoadForCheckMoves ==
    ASSUME TokensTypeOK, LockHeld, NEW r \in Spenders, LoadForCheck(r)
    PROVE  /\ round' \in [Spenders -> RoundStates]
           /\ round'[r].at \in {"idle", "model"}
           /\ \A q \in Spenders \ {r} : round'[q] = round[q]
  <1>1. round[r] \in RoundStates /\ NoRound \in RoundStates /\ NoRound.at = "idle"
    BY TokenAssumption DEF TokensTypeOK, RoundStates, NoRound
  <1>2. [round[r] EXCEPT !.at = "model"] \in RoundStates
    BY <1>1 DEF RoundStates
  <1>3. [round[r] EXCEPT !.at = "model"].at = "model"
    BY <1>1 DEF RoundStates
  <1>4. Update(r, NoRound) \/ Update(r, [round[r] EXCEPT !.at = "model"])
    BY DEF LoadForCheck
  <1>5. QED
    BY <1>1, <1>2, <1>3, <1>4, UpdateMoves

LEMMA ModelFailsMoves ==
    ASSUME TokensTypeOK, LockHeld, NEW r \in Spenders, ModelFails(r)
    PROVE  /\ round' \in [Spenders -> RoundStates]
           /\ round'[r].at = "idle"
           /\ \A q \in Spenders \ {r} : round'[q] = round[q]
  <1> DEFINE new == NoRound
  <1>1. round[r] \in RoundStates /\ Update(r, new)
    BY DEF TokensTypeOK, ModelFails, NoRound
  <1>2. new \in RoundStates
    BY <1>1, BodyOf, TokenAssumption DEF RoundStates, TokensTypeOK, ModelFails, NoRound
  <1>3. new.at = "idle"
    BY <1>1, BodyOf DEF RoundStates, ModelFails, NoRound
  <1> HIDE DEF new
  <1>4. QED
    BY <1>1, <1>2, <1>3, UpdateMoves

LEMMA ModelReturnsMoves ==
    ASSUME TokensTypeOK, LockHeld, NEW r \in Spenders, NEW cost \in Costs, ModelReturns(r, cost)
    PROVE  /\ round' \in [Spenders -> RoundStates]
           /\ round'[r].at = "day"
           /\ round'[r].op = "record" /\ round'[r].cost = cost
           /\ \A q \in Spenders \ {r} : round'[q] = round[q]
  <1> DEFINE new == [round[r] EXCEPT !.at = "day", !.op = "record", !.cost = cost]
  <1>1. round[r] \in RoundStates /\ Update(r, new)
    BY DEF TokensTypeOK, ModelReturns
  <1>2. new \in RoundStates
    BY <1>1, BodyOf, TokenAssumption DEF RoundStates, TokensTypeOK, ModelReturns
  <1>3. new.at = "day" /\ new.op = "record" /\ new.cost = cost
    BY <1>1, BodyOf DEF RoundStates, ModelReturns
  <1> HIDE DEF new
  <1>4. QED
    BY <1>1, <1>2, <1>3, UpdateMoves

LEMMA AddMoves ==
    ASSUME TokensTypeOK, LockHeld, NEW r \in Spenders, Add(r)
    PROVE  /\ round' \in [Spenders -> RoundStates]
           /\ round'[r].at \in {"add", "day"} /\ round'[r].day = round[r].day
           /\ round'[r].at = "add" => round[r].field < Fields /\ round'[r].field = round[r].field + 1
           /\ round'[r].at = "day" => round[r].field >= Fields /\ round'[r].op = "warn"
           /\ \A q \in Spenders \ {r} : round'[q] = round[q]
  <1>1. round[r] \in RoundStates /\ round[r].at = "add" /\ round[r].field \in 1..Fields
    BY TokenAssumption DEF TokensTypeOK, Add, RoundStates, LockHeld
  <1>2. CASE round[r].field < Fields
    <2> DEFINE new == [round[r] EXCEPT !.field = @ + 1]
    <2>1. Update(r, new)
      BY <1>2 DEF Add
    <2>2. new \in RoundStates
      <3>1. round[r].field \in 1..(Fields + 1) /\ round[r].field + 1 \in 1..(Fields + 1)
        BY <1>1, <1>2, TokenAssumption
      <3>2. QED
        BY <1>1, <3>1, RowMoves
    <2>3. new.at = "add" /\ new.day = round[r].day /\ new.field = round[r].field + 1
      BY <1>1 DEF RoundStates
    <2> HIDE DEF new
    <2>4. QED
      BY <1>2, <2>1, <2>2, <2>3, UpdateMoves
  <1>3. CASE ~ (round[r].field < Fields)
    <2> DEFINE new == [round[r] EXCEPT !.at = "day", !.op = "warn"]
    <2>1. Update(r, new)
      BY <1>3 DEF Add, Begin
    <2>2. new \in RoundStates
      BY <1>1 DEF RoundStates
    <2>3. new.at = "day" /\ new.day = round[r].day /\ new.op = "warn"
      BY <1>1 DEF RoundStates
    <2>4. round[r].field >= Fields
      BY <1>1, <1>3, TokenAssumption
    <2> HIDE DEF new
    <2>5. QED
      BY <2>1, <2>2, <2>3, <2>4, UpdateMoves
  <1>4. QED
    BY <1>2, <1>3

LEMMA LoadForWarningMoves ==
    ASSUME TokensTypeOK, LockHeld, NEW r \in Spenders, LoadForWarning(r)
    PROVE  /\ round' \in [Spenders -> RoundStates]
           /\ round'[r].at = "warn"
           /\ \A q \in Spenders \ {r} : round'[q] = round[q]
  <1> DEFINE new == [round[r] EXCEPT !.at = "warn", !.usd = spent[CostAt]]
  <1>1. round[r] \in RoundStates /\ Update(r, new)
    BY DEF TokensTypeOK, LoadForWarning
  <1>2. new \in RoundStates
    BY <1>1, BodyOf, TokenAssumption DEF RoundStates, TokensTypeOK, LoadForWarning
  <1>3. new.at = "warn"
    BY <1>1, BodyOf DEF RoundStates, LoadForWarning
  <1> HIDE DEF new
  <1>4. QED
    BY <1>1, <1>2, <1>3, UpdateMoves

LEMMA WarnMoves ==
    ASSUME TokensTypeOK, LockHeld, NEW r \in Spenders, Warn(r)
    PROVE  /\ round' \in [Spenders -> RoundStates]
           /\ round'[r].at = "idle"
           /\ \A q \in Spenders \ {r} : round'[q] = round[q]
  <1> DEFINE new == NoRound
  <1>1. round[r] \in RoundStates /\ Update(r, new)
    BY DEF TokensTypeOK, Warn, NoRound
  <1>2. new \in RoundStates
    BY <1>1, BodyOf, TokenAssumption DEF RoundStates, TokensTypeOK, Warn, NoRound
  <1>3. new.at = "idle"
    BY <1>1, BodyOf DEF RoundStates, Warn, NoRound
  <1> HIDE DEF new
  <1>4. QED
    BY <1>1, <1>2, <1>3, UpdateMoves

LEMMA AddTo ==
    ASSUME NEW s \in [1..Fields -> Nat], NEW f \in 1..Fields, NEW c \in Nat
    PROVE  [s EXCEPT ![f] = @ + c] \in [1..Fields -> Nat]
  OBVIOUS

-----------------------------------------------------------------------------
(* The counters stay numbers, and each run somewhere in its round.            *)
LEMMA TokenTypeStep == TokenIInv /\ [TokensNext]_tokenVars => TokensTypeOK'
  <1> SUFFICES ASSUME TokenIInv, [TokensNext]_tokenVars PROVE TokensTypeOK'
    OBVIOUS
  <1> USE TokenAssumption DEF TokenIInv
  <1>1. ASSUME NEW r \in Spenders, ReadDay(r) PROVE TokensTypeOK'
    <2>1. round' \in [Spenders -> RoundStates]
      BY <1>1, ReadDayMoves
    <2>2. QED
      BY <1>1, <2>1 DEF ReadDay, TokensTypeOK
  <1>2. ASSUME NEW r \in Spenders, SameDay(r) PROVE TokensTypeOK'
    <2>1. round' \in [Spenders -> RoundStates]
      BY <1>2, SameDayMoves
    <2>2. QED
      BY <1>2, <2>1 DEF SameDay, TokensTypeOK
  <1>3. ASSUME NEW r \in Spenders, NewDay(r) PROVE TokensTypeOK'
    <2>1. round' \in [Spenders -> RoundStates]
      BY <1>3, NewDayMoves
    <2>2. round[r].day \in Nat
      BY DEF TokensTypeOK, RoundStates
    <2>3. QED
      BY <1>3, <2>1, <2>2 DEF NewDay, TokensTypeOK
  <1>4. ASSUME NEW r \in Spenders, Zero(r) PROVE TokensTypeOK'
    <2>1. round' \in [Spenders -> RoundStates]
      BY <1>4, ZeroMoves
    <2>2. QED
      BY <1>4, <2>1 DEF Zero, TokensTypeOK
  <1>5. ASSUME NEW r \in Spenders, ClearWarnings(r) PROVE TokensTypeOK'
    <2>1. round' \in [Spenders -> RoundStates]
      BY <1>5, ClearWarningsMoves
    <2>2. QED
      BY <1>5, <2>1 DEF ClearWarnings, TokensTypeOK
  <1>6. ASSUME NEW r \in Spenders, StartRound(r) PROVE TokensTypeOK'
    <2>1. round' \in [Spenders -> RoundStates]
      BY <1>6, StartRoundMoves
    <2>2. QED
      BY <1>6, <2>1 DEF StartRound, TokensTypeOK
  <1>7. ASSUME NEW r \in Spenders, LoadForCheck(r) PROVE TokensTypeOK'
    <2>1. round' \in [Spenders -> RoundStates]
      BY <1>7, LoadForCheckMoves
    <2>2. QED
      BY <1>7, <2>1 DEF LoadForCheck, TokensTypeOK
  <1>8. ASSUME NEW r \in Spenders, ModelFails(r) PROVE TokensTypeOK'
    <2>1. round' \in [Spenders -> RoundStates]
      BY <1>8, ModelFailsMoves
    <2>2. QED
      BY <1>8, <2>1 DEF ModelFails, TokensTypeOK
  <1>9. ASSUME NEW r \in Spenders, NEW cost \in Costs, ModelReturns(r, cost) PROVE TokensTypeOK'
    <2>1. round' \in [Spenders -> RoundStates]
      BY <1>9, ModelReturnsMoves
    <2>2. QED
      BY <1>9, <2>1 DEF ModelReturns, TokensTypeOK
  <1>10. ASSUME NEW r \in Spenders, Add(r) PROVE TokensTypeOK'
    <2>1. round' \in [Spenders -> RoundStates]
      BY <1>10, AddMoves
    <2>2. round[r].field \in 1..Fields /\ round[r].cost \in Nat
      <3>1. round[r] \in RoundStates /\ round[r].field <= Fields
        BY <1>10 DEF Add, LockHeld, TokensTypeOK
      <3>2. QED
        BY <3>1 DEF RoundStates
    <2>3. spent' \in [1..Fields -> Nat]
      <3>1. spent' = [spent EXCEPT ![round[r].field] = @ + round[r].cost]
        BY <1>10 DEF Add
      <3>2. QED
        BY <2>2, <3>1, AddTo DEF TokensTypeOK
    <2>4. owed' \in [1..Fields -> Nat]
      <3>1. \/ owed' = [owed EXCEPT ![round[r].field] = @ + round[r].cost]
            \/ owed' = owed
        BY <1>10 DEF Add
      <3>2. owed \in [1..Fields -> Nat]
        BY DEF TokensTypeOK
      <3>3. [owed EXCEPT ![round[r].field] = @ + round[r].cost] \in [1..Fields -> Nat]
        BY <2>2, <3>2, AddTo
      <3>4. QED
        BY <3>1, <3>2, <3>3, Zenon
    <2>5. QED
      BY <1>10, <2>1, <2>3, <2>4 DEF Add, TokensTypeOK
  <1>11. ASSUME NEW r \in Spenders, LoadForWarning(r) PROVE TokensTypeOK'
    <2>1. round' \in [Spenders -> RoundStates]
      BY <1>11, LoadForWarningMoves
    <2>2. QED
      BY <1>11, <2>1 DEF LoadForWarning, TokensTypeOK
  <1>12. ASSUME NEW r \in Spenders, Warn(r) PROVE TokensTypeOK'
    <2>1. round' \in [Spenders -> RoundStates]
      BY <1>12, WarnMoves
    <2>2. QED
      BY <1>12, <2>1 DEF Warn, TokensTypeOK
  <1>13. CASE Midnight
    BY <1>13 DEF Midnight, TokensTypeOK
  <1>14. CASE UNCHANGED tokenVars
    BY <1>14 DEF tokenVars, TokensTypeOK
  <1>15. QED
    BY <1>1, <1>2, <1>3, <1>4, <1>5, <1>6, <1>7, <1>8, <1>9, <1>10, <1>11, <1>12, <1>13, <1>14
    DEF TokensNext

(* The lock is taken with the new date and given up after the last counter.  *)
LEMMA LockStep == TokenIInv /\ [TokensNext]_tokenVars => LockHeld'
  <1> SUFFICES ASSUME TokenIInv, [TokensNext]_tokenVars PROVE LockHeld'
    OBVIOUS
  <1> USE TokenAssumption DEF TokenIInv
  <1>1. ASSUME NEW r \in Spenders, ReadDay(r) PROVE LockHeld'
    <2>1. /\ \A q \in Spenders \ {r} : round'[q] = round[q]
          /\ round'[r].at \notin {"zero", "add"}
      BY <1>1, ReadDayMoves
    <2>2. date' = date /\ dateLock' = dateLock
      BY <1>1 DEF ReadDay
    <2>3. QED
      BY <2>1, <2>2 DEF LockHeld
  <1>2. ASSUME NEW r \in Spenders, SameDay(r) PROVE LockHeld'
    <2>1. round'[r].at # "zero" /\ round'[r].field = 1 /\ date' = date /\ dateLock' = dateLock
      BY <1>2, SameDayMoves, BodyOf DEF SameDay
    <2>2. QED
      BY <1>2, <2>1, SameDayMoves DEF LockHeld
  <1>3. ASSUME NEW r \in Spenders, NewDay(r) PROVE LockHeld'
    <2>1. \A q \in Spenders : round[q].at # "zero"
      BY <1>3 DEF NewDay, LockHeld
    <2>2. /\ round'[r].at = "zero" /\ round'[r].day = round[r].day
          /\ \A q \in Spenders \ {r} : round'[q] = round[q]
      BY <1>3, NewDayMoves
    <2>3. date' = round[r].day /\ dateLock' = r
      BY <1>3 DEF NewDay
    <2>4. QED
      BY <2>1, <2>2, <2>3 DEF LockHeld
  <1>4. ASSUME NEW r \in Spenders, Zero(r) PROVE LockHeld'
    <2>1. /\ \A q \in Spenders \ {r} : round'[q] = round[q]
          /\ round'[r].at = "zero" /\ round'[r].day = round[r].day
      BY <1>4, ZeroMoves
    <2>2. date' = date /\ dateLock' = dateLock /\ round[r].at = "zero"
      BY <1>4 DEF Zero
    <2>3. QED
      BY <2>1, <2>2 DEF LockHeld
  <1>5. ASSUME NEW r \in Spenders, ClearWarnings(r) PROVE LockHeld'
    <2>1. /\ round'[r].at # "zero" /\ round'[r].field = 1 /\ date' = date
          /\ round[r].at = "zero"
      BY <1>5, ClearWarningsMoves, BodyOf DEF ClearWarnings
    <2>2. \A q \in Spenders \ {r} : round'[q] = round[q] /\ round[q].at # "zero"
      BY <1>5, <2>1, ClearWarningsMoves DEF LockHeld
    <2>3. QED
      BY <2>1, <2>2 DEF LockHeld
  <1>6. ASSUME NEW r \in Spenders, StartRound(r) PROVE LockHeld'
    <2>1. /\ \A q \in Spenders \ {r} : round'[q] = round[q]
          /\ round'[r].at \notin {"zero", "add"}
      BY <1>6, StartRoundMoves
    <2>2. date' = date /\ dateLock' = dateLock
      BY <1>6 DEF StartRound
    <2>3. QED
      BY <2>1, <2>2 DEF LockHeld
  <1>7. ASSUME NEW r \in Spenders, LoadForCheck(r) PROVE LockHeld'
    <2>1. /\ \A q \in Spenders \ {r} : round'[q] = round[q]
          /\ round'[r].at \notin {"zero", "add"}
      BY <1>7, LoadForCheckMoves
    <2>2. date' = date /\ dateLock' = dateLock
      BY <1>7 DEF LoadForCheck
    <2>3. QED
      BY <2>1, <2>2 DEF LockHeld
  <1>8. ASSUME NEW r \in Spenders, ModelFails(r) PROVE LockHeld'
    <2>1. /\ \A q \in Spenders \ {r} : round'[q] = round[q]
          /\ round'[r].at \notin {"zero", "add"}
      BY <1>8, ModelFailsMoves
    <2>2. date' = date /\ dateLock' = dateLock
      BY <1>8 DEF ModelFails
    <2>3. QED
      BY <2>1, <2>2 DEF LockHeld
  <1>9. ASSUME NEW r \in Spenders, NEW cost \in Costs, ModelReturns(r, cost) PROVE LockHeld'
    <2>1. /\ \A q \in Spenders \ {r} : round'[q] = round[q]
          /\ round'[r].at \notin {"zero", "add"}
      BY <1>9, ModelReturnsMoves
    <2>2. date' = date /\ dateLock' = dateLock
      BY <1>9 DEF ModelReturns
    <2>3. QED
      BY <2>1, <2>2 DEF LockHeld
  <1>10. ASSUME NEW r \in Spenders, Add(r) PROVE LockHeld'
    <2>1. /\ \A q \in Spenders \ {r} : round'[q] = round[q]
          /\ round'[r].at = "add" => round'[r].field <= Fields
          /\ round'[r].at # "zero"
      <3>1. round[r].field \in Nat
        BY DEF TokensTypeOK, RoundStates
      <3>2. QED
        BY <1>10, <3>1, AddMoves
    <2>2. date' = date /\ dateLock' = dateLock
      BY <1>10 DEF Add
    <2>3. QED
      BY <2>1, <2>2 DEF LockHeld
  <1>11. ASSUME NEW r \in Spenders, LoadForWarning(r) PROVE LockHeld'
    <2>1. /\ \A q \in Spenders \ {r} : round'[q] = round[q]
          /\ round'[r].at \notin {"zero", "add"}
      BY <1>11, LoadForWarningMoves
    <2>2. date' = date /\ dateLock' = dateLock
      BY <1>11 DEF LoadForWarning
    <2>3. QED
      BY <2>1, <2>2 DEF LockHeld
  <1>12. ASSUME NEW r \in Spenders, Warn(r) PROVE LockHeld'
    <2>1. /\ \A q \in Spenders \ {r} : round'[q] = round[q]
          /\ round'[r].at \notin {"zero", "add"}
      BY <1>12, WarnMoves
    <2>2. date' = date /\ dateLock' = dateLock
      BY <1>12 DEF Warn
    <2>3. QED
      BY <2>1, <2>2 DEF LockHeld
  <1>13. CASE Midnight
    BY <1>13 DEF Midnight, LockHeld
  <1>14. CASE UNCHANGED tokenVars
    BY <1>14 DEF tokenVars, LockHeld
  <1>15. QED
    BY <1>1, <1>2, <1>3, <1>4, <1>5, <1>6, <1>7, <1>8, <1>9, <1>10, <1>11, <1>12, <1>13, <1>14
    DEF TokensNext

(* A new date is set only once the zeroing of the last one is over.           *)
LEMMA DatedStep == TokenIInv /\ [TokensNext]_tokenVars => AddsAreDated'
  <1> SUFFICES ASSUME TokenIInv, [TokensNext]_tokenVars PROVE AddsAreDated'
    OBVIOUS
  <1> USE TokenAssumption DEF TokenIInv
  <1>1. ASSUME NEW r \in Spenders, ReadDay(r) PROVE AddsAreDated'
    <2>1. /\ \A q \in Spenders \ {r} : round'[q] = round[q]
          /\ round'[r].at \notin {"zero", "add"}
      BY <1>1, ReadDayMoves
    <2>2. UNCHANGED <<date, owed, wentBack>>
      BY <1>1 DEF ReadDay
    <2>3. QED
      BY <2>1, <2>2 DEF AddsAreDated
  <1>2. ASSUME NEW r \in Spenders, SameDay(r) PROVE AddsAreDated'
    <2>1. /\ \A q \in Spenders \ {r} : round'[q] = round[q]
          /\ round'[r].at # "zero" /\ round'[r].day = round[r].day
      BY <1>2, SameDayMoves, BodyOf
    <2>2. \A q \in Spenders : round[q].at # "zero"
      BY <1>2 DEF SameDay, LockHeld
    <2>3. UNCHANGED <<date, owed, wentBack>> /\ round[r].day = date /\ date \in Nat
      BY <1>2 DEF SameDay, TokensTypeOK
    <2>4. QED
      BY <2>1, <2>2, <2>3 DEF AddsAreDated
  <1>3. ASSUME NEW r \in Spenders, NewDay(r) PROVE AddsAreDated'
    <2>1. /\ \A q \in Spenders \ {r} : round'[q] = round[q]
          /\ round'[r].at = "zero"
      BY <1>3, NewDayMoves
    <2>2. \A q \in Spenders : round[q].at # "zero" /\ round[q].day \in Nat
      BY <1>3 DEF NewDay, LockHeld, TokensTypeOK, RoundStates
    <2>3. date' = round[r].day /\ date # date' /\ date \in Nat /\ date' \in Nat
      BY <1>3, <2>2 DEF NewDay, TokensTypeOK
    <2>4. owed' = [f \in 1..Fields |-> 0]
      BY <1>3 DEF NewDay
    <2>5. ~ wentBack' => ~ wentBack /\ date < date'
      <3>1. ~ wentBack' => ~ wentBack /\ ~ (round[r].day < date)
        BY <1>3, Zenon DEF NewDay
      <3>2. QED
        BY <2>3, <3>1
    <2>6. ASSUME ~ wentBack' PROVE \A q \in Spenders : round'[q].at = "add" => round'[q].day < date'
      <3>1. /\ ~ wentBack /\ date < date'
            /\ \A q \in Spenders : round[q].at = "add" => round[q].day <= date
        BY <2>5, <2>6 DEF AddsAreDated
      <3>2. QED
        BY <2>1, <2>2, <2>3, <3>1
    <2>7. \A q \in Spenders : round'[q].at = "add" => round'[q].day \in Nat
      BY <2>1, <2>2
    <2>8. \A f \in 1..Fields : owed'[f] = 0
      BY <2>4
    <2>9. QED
      BY <2>3, <2>6, <2>7, <2>8 DEF AddsAreDated
  <1>4. ASSUME NEW r \in Spenders, Zero(r) PROVE AddsAreDated'
    <2>1. /\ \A q \in Spenders \ {r} : round'[q] = round[q]
          /\ round[r].at = "zero" /\ round'[r].at = "zero"
      BY <1>4, ZeroMoves DEF Zero
    <2>2. UNCHANGED <<date, owed, wentBack>>
      BY <1>4 DEF Zero
    <2>3. QED
      BY <2>1, <2>2 DEF AddsAreDated
  <1>5. ASSUME NEW r \in Spenders, ClearWarnings(r) PROVE AddsAreDated'
    <2>1. /\ \A q \in Spenders \ {r} : round'[q] = round[q]
          /\ round'[r].at # "zero" /\ round'[r].day = round[r].day
      BY <1>5, ClearWarningsMoves, BodyOf
    <2>2. round[r].day = date /\ \A q \in Spenders \ {r} : round[q].at # "zero"
      BY <1>5 DEF ClearWarnings, LockHeld
    <2>3. UNCHANGED <<date, owed, wentBack>> /\ date \in Nat
      BY <1>5 DEF ClearWarnings, TokensTypeOK
    <2>4. QED
      BY <2>1, <2>2, <2>3 DEF AddsAreDated
  <1>6. ASSUME NEW r \in Spenders, StartRound(r) PROVE AddsAreDated'
    <2>1. /\ \A q \in Spenders \ {r} : round'[q] = round[q]
          /\ round'[r].at \notin {"zero", "add"}
      BY <1>6, StartRoundMoves
    <2>2. UNCHANGED <<date, owed, wentBack>>
      BY <1>6 DEF StartRound
    <2>3. QED
      BY <2>1, <2>2 DEF AddsAreDated
  <1>7. ASSUME NEW r \in Spenders, LoadForCheck(r) PROVE AddsAreDated'
    <2>1. /\ \A q \in Spenders \ {r} : round'[q] = round[q]
          /\ round'[r].at \notin {"zero", "add"}
      BY <1>7, LoadForCheckMoves
    <2>2. UNCHANGED <<date, owed, wentBack>>
      BY <1>7 DEF LoadForCheck
    <2>3. QED
      BY <2>1, <2>2 DEF AddsAreDated
  <1>8. ASSUME NEW r \in Spenders, ModelFails(r) PROVE AddsAreDated'
    <2>1. /\ \A q \in Spenders \ {r} : round'[q] = round[q]
          /\ round'[r].at \notin {"zero", "add"}
      BY <1>8, ModelFailsMoves
    <2>2. UNCHANGED <<date, owed, wentBack>>
      BY <1>8 DEF ModelFails
    <2>3. QED
      BY <2>1, <2>2 DEF AddsAreDated
  <1>9. ASSUME NEW r \in Spenders, NEW cost \in Costs, ModelReturns(r, cost) PROVE AddsAreDated'
    <2>1. /\ \A q \in Spenders \ {r} : round'[q] = round[q]
          /\ round'[r].at \notin {"zero", "add"}
      BY <1>9, ModelReturnsMoves
    <2>2. UNCHANGED <<date, owed, wentBack>>
      BY <1>9 DEF ModelReturns
    <2>3. QED
      BY <2>1, <2>2 DEF AddsAreDated
  <1>10. ASSUME NEW r \in Spenders, Add(r) PROVE AddsAreDated'
    <2>1. /\ \A q \in Spenders \ {r} : round'[q] = round[q]
          /\ round'[r].at # "zero" /\ round'[r].day = round[r].day
      BY <1>10, AddMoves
    <2>2. UNCHANGED <<date, wentBack>> /\ round[r].at = "add"
      BY <1>10 DEF Add
    <2>3. \/ owed' = owed
          \/ round[r].day = date /\ date \in Nat
      BY <1>10 DEF Add, TokensTypeOK
    <2>4. QED
      BY <2>1, <2>2, <2>3 DEF AddsAreDated
  <1>11. ASSUME NEW r \in Spenders, LoadForWarning(r) PROVE AddsAreDated'
    <2>1. /\ \A q \in Spenders \ {r} : round'[q] = round[q]
          /\ round'[r].at \notin {"zero", "add"}
      BY <1>11, LoadForWarningMoves
    <2>2. UNCHANGED <<date, owed, wentBack>>
      BY <1>11 DEF LoadForWarning
    <2>3. QED
      BY <2>1, <2>2 DEF AddsAreDated
  <1>12. ASSUME NEW r \in Spenders, Warn(r) PROVE AddsAreDated'
    <2>1. /\ \A q \in Spenders \ {r} : round'[q] = round[q]
          /\ round'[r].at \notin {"zero", "add"}
      BY <1>12, WarnMoves
    <2>2. UNCHANGED <<date, owed, wentBack>>
      BY <1>12 DEF Warn
    <2>3. QED
      BY <2>1, <2>2 DEF AddsAreDated
  <1>13. CASE Midnight
    BY <1>13 DEF Midnight, AddsAreDated
  <1>14. CASE UNCHANGED tokenVars
    BY <1>14 DEF tokenVars, AddsAreDated
  <1>15. QED
    BY <1>1, <1>2, <1>3, <1>4, <1>5, <1>6, <1>7, <1>8, <1>9, <1>10, <1>11, <1>12, <1>13, <1>14
    DEF TokensNext

(* A counter is zeroed only while nothing of its day has been added.          *)
LEMMA CountedStep == TokenIInv /\ [TokensNext]_tokenVars => TodayIsCounted'
  <1> SUFFICES ASSUME TokenIInv, [TokensNext]_tokenVars PROVE TodayIsCounted'
    OBVIOUS
  <1> USE TokenAssumption DEF TokenIInv
  <1>1. ASSUME NEW r \in Spenders, ReadDay(r) PROVE TodayIsCounted'
    BY <1>1 DEF ReadDay, TodayIsCounted
  <1>2. ASSUME NEW r \in Spenders, SameDay(r) PROVE TodayIsCounted'
    BY <1>2 DEF SameDay, TodayIsCounted
  <1>3. ASSUME NEW r \in Spenders, NewDay(r) PROVE TodayIsCounted'
    <2>1. spent' = spent /\ owed' = [f \in 1..Fields |-> 0]
      BY <1>3 DEF NewDay
    <2>2. QED
      BY <2>1 DEF TodayIsCounted, TokensTypeOK
  <1>4. ASSUME NEW r \in Spenders, Zero(r) PROVE TodayIsCounted'
    <2>1. ~ wentBack => \A f \in 1..Fields : owed[f] = 0
      BY <1>4 DEF Zero, AddsAreDated
    <2>2. spent' = [spent EXCEPT ![round[r].field] = 0] /\ UNCHANGED <<owed, wentBack>>
      BY <1>4 DEF Zero
    <2>3. \A f \in 1..Fields : spent'[f] \in {0, spent[f]} /\ spent[f] \in Nat
      BY <2>2 DEF TokensTypeOK
    <2>4. QED
      BY <2>1, <2>2, <2>3 DEF TodayIsCounted
  <1>5. ASSUME NEW r \in Spenders, ClearWarnings(r) PROVE TodayIsCounted'
    BY <1>5 DEF ClearWarnings, TodayIsCounted
  <1>6. ASSUME NEW r \in Spenders, StartRound(r) PROVE TodayIsCounted'
    BY <1>6 DEF StartRound, TodayIsCounted
  <1>7. ASSUME NEW r \in Spenders, LoadForCheck(r) PROVE TodayIsCounted'
    BY <1>7 DEF LoadForCheck, TodayIsCounted
  <1>8. ASSUME NEW r \in Spenders, ModelFails(r) PROVE TodayIsCounted'
    BY <1>8 DEF ModelFails, TodayIsCounted
  <1>9. ASSUME NEW r \in Spenders, NEW cost \in Costs, ModelReturns(r, cost) PROVE TodayIsCounted'
    BY <1>9 DEF ModelReturns, TodayIsCounted
  <1>10. ASSUME NEW r \in Spenders, Add(r) PROVE TodayIsCounted'
    <2>1. spent' = [spent EXCEPT ![round[r].field] = @ + round[r].cost]
      BY <1>10 DEF Add
    <2>2. \/ owed' = [owed EXCEPT ![round[r].field] = @ + round[r].cost]
          \/ owed' = owed
      BY <1>10 DEF Add
    <2>3. round[r].cost \in Nat /\ wentBack' = wentBack
      BY <1>10 DEF Add, TokensTypeOK, RoundStates
    <2>4. ASSUME NEW f \in 1..Fields, spent[f] >= owed[f] PROVE spent'[f] >= owed'[f]
      <3>1. spent[f] \in Nat /\ owed[f] \in Nat
        BY DEF TokensTypeOK
      <3>2. CASE f = round[r].field
        <4>1. spent'[f] = spent[f] + round[r].cost
          BY <2>1, <3>2 DEF TokensTypeOK
        <4>2. owed'[f] = owed[f] + round[r].cost \/ owed'[f] = owed[f]
          BY <2>2, <3>2 DEF TokensTypeOK
        <4>3. QED
          BY <2>3, <2>4, <3>1, <4>1, <4>2
      <3>3. CASE f # round[r].field
        BY <2>1, <2>2, <2>4, <3>3 DEF TokensTypeOK
      <3>4. QED
        BY <3>2, <3>3
    <2>5. QED
      BY <2>3, <2>4 DEF TodayIsCounted
  <1>11. ASSUME NEW r \in Spenders, LoadForWarning(r) PROVE TodayIsCounted'
    BY <1>11 DEF LoadForWarning, TodayIsCounted
  <1>12. ASSUME NEW r \in Spenders, Warn(r) PROVE TodayIsCounted'
    BY <1>12 DEF Warn, TodayIsCounted
  <1>13. CASE Midnight
    BY <1>13 DEF Midnight, TodayIsCounted
  <1>14. CASE UNCHANGED tokenVars
    BY <1>14 DEF tokenVars, TodayIsCounted
  <1>15. QED
    BY <1>1, <1>2, <1>3, <1>4, <1>5, <1>6, <1>7, <1>8, <1>9, <1>10, <1>11, <1>12, <1>13, <1>14
    DEF TokensNext

(* Who has less to come and has spent no more stays within the bound.         *)
LEMMA NotMore ==
    ASSUME TokensTypeOK, OvershootBounded, Spending' \subseteq Spending,
           spent' = spent \/ (spent'[CostAt] \in Nat /\ spent'[CostAt] <= spent[CostAt])
    PROVE  OvershootBounded'
  <1>1. spent[CostAt] \in Nat /\ spent'[CostAt] \in Nat /\ spent'[CostAt] <= spent[CostAt]
    BY TokenAssumption DEF TokensTypeOK
  <1>2. Cardinality(Spending') <= Cardinality(Spending)
    BY SpendingIsCounted, FewerRuns
  <1>3. /\ MaxCost * Cardinality(Spending') <= MaxCost * Cardinality(Spending)
        /\ MaxCost * Cardinality(Spending') \in Nat
        /\ MaxCost * Cardinality(Spending) \in Nat
        /\ MaxCost * Cardinality(Spenders) \in Nat
    <2>1. /\ Cardinality(Spending) \in Nat /\ Cardinality(Spending') \in Nat
          /\ Cardinality(Spenders) \in Nat /\ MaxCost \in Nat
      BY SpendingIsCounted, TokenAssumption
    <2>2. QED
      BY <1>2, <2>1, TimesMonotone
  <1>4. QED
    BY <1>1, <1>3, TokenAssumption DEF OvershootBounded

(* A run is let through below the budget, and pays when it adds.               *)
LEMMA OvershootStep == TokenIInv /\ [TokensNext]_tokenVars => OvershootBounded'
  <1> SUFFICES ASSUME TokenIInv, [TokensNext]_tokenVars PROVE OvershootBounded'
    OBVIOUS
  <1> USE TokenAssumption DEF TokenIInv
  <1>1. ASSUME NEW r \in Spenders, ReadDay(r) PROVE OvershootBounded'
    <2>1. Spending' \subseteq Spending
      BY <1>1, ReadDayMoves DEF ReadDay, Spending
    <2>2. spent' = spent
      BY <1>1 DEF ReadDay
    <2>3. QED
      BY <2>1, <2>2, NotMore
  <1>2. ASSUME NEW r \in Spenders, SameDay(r) PROVE OvershootBounded'
    <2>1. Spending' \subseteq Spending
      <3>1. /\ \A q \in Spenders \ {r} : round'[q] = round[q]
            /\ round'[r].at \in {"add", "load"} /\ round'[r].op = round[r].op
            /\ round'[r].at = "add" => round[r].op = "record"
        BY <1>2, SameDayMoves, BodyOf
      <3>2. round[r].at \in {"lock", "zero"}
        BY <1>2 DEF SameDay
      <3>3. QED
        BY <3>1, <3>2 DEF Spending
    <2>2. spent' = spent
      BY <1>2 DEF SameDay
    <2>3. QED
      BY <2>1, <2>2, NotMore
  <1>3. ASSUME NEW r \in Spenders, NewDay(r) PROVE OvershootBounded'
    <2>1. Spending' \subseteq Spending
      BY <1>3, NewDayMoves DEF NewDay, Spending
    <2>2. spent' = spent
      BY <1>3 DEF NewDay
    <2>3. QED
      BY <2>1, <2>2, NotMore
  <1>4. ASSUME NEW r \in Spenders, Zero(r) PROVE OvershootBounded'
    <2>1. Spending' \subseteq Spending
      BY <1>4, ZeroMoves DEF Zero, Spending
    <2>2. spent'[CostAt] \in Nat /\ spent'[CostAt] <= spent[CostAt]
      BY <1>4 DEF Zero, TokensTypeOK
    <2>3. QED
      BY <2>1, <2>2, NotMore
  <1>5. ASSUME NEW r \in Spenders, ClearWarnings(r) PROVE OvershootBounded'
    <2>1. Spending' \subseteq Spending
      <3>1. /\ \A q \in Spenders \ {r} : round'[q] = round[q]
            /\ round'[r].at \in {"add", "load"} /\ round'[r].op = round[r].op
            /\ round'[r].at = "add" => round[r].op = "record"
        BY <1>5, ClearWarningsMoves, BodyOf
      <3>2. round[r].at \in {"lock", "zero"}
        BY <1>5 DEF ClearWarnings
      <3>3. QED
        BY <3>1, <3>2 DEF Spending
    <2>2. spent' = spent
      BY <1>5 DEF ClearWarnings
    <2>3. QED
      BY <2>1, <2>2, NotMore
  <1>6. ASSUME NEW r \in Spenders, StartRound(r) PROVE OvershootBounded'
    <2>1. Spending' \subseteq Spending
      BY <1>6, StartRoundMoves DEF StartRound, Spending
    <2>2. spent' = spent
      BY <1>6 DEF StartRound
    <2>3. QED
      BY <2>1, <2>2, NotMore
  <1>7. ASSUME NEW r \in Spenders, LoadForCheck(r) PROVE OvershootBounded'
    <2>1. CASE spent[CostAt] >= Budget
      <3>1. Spending' \subseteq Spending
        <4>1. Update(r, NoRound) /\ NoRound \in RoundStates
          BY <1>7, <2>1 DEF LoadForCheck, NoRound, RoundStates
        <4>2. round'[r].at = "idle" /\ round'[r].op = "none"
          BY <4>1, UpdateMoves DEF NoRound
        <4>3. QED
          BY <1>7, <4>2, LoadForCheckMoves DEF Spending
      <3>2. spent' = spent
        BY <1>7 DEF LoadForCheck
      <3>3. QED
        BY <3>1, <3>2, NotMore
    <2>2. CASE ~ (spent[CostAt] >= Budget)
      <3>1. spent'[CostAt] = spent[CostAt] /\ spent[CostAt] \in Nat
        BY <1>7 DEF LoadForCheck, TokensTypeOK
      <3>2. MaxCost * Cardinality(Spending') <= MaxCost * Cardinality(Spenders)
        BY SpendingIsCounted, TimesMonotone
      <3>3. /\ MaxCost * Cardinality(Spending') \in Nat
            /\ MaxCost * Cardinality(Spenders) \in Nat
        BY SpendingIsCounted, TimesMonotone
      <3>4. QED
        BY <2>2, <3>1, <3>2, <3>3 DEF OvershootBounded
    <2>3. QED
      BY <2>1, <2>2
  <1>8. ASSUME NEW r \in Spenders, ModelFails(r) PROVE OvershootBounded'
    <2>1. Spending' \subseteq Spending
      BY <1>8, ModelFailsMoves DEF ModelFails, Spending
    <2>2. spent' = spent
      BY <1>8 DEF ModelFails
    <2>3. QED
      BY <2>1, <2>2, NotMore
  <1>9. ASSUME NEW r \in Spenders, NEW cost \in Costs, ModelReturns(r, cost) PROVE OvershootBounded'
    <2>1. Spending' \subseteq Spending
      BY <1>9, ModelReturnsMoves DEF ModelReturns, Spending
    <2>2. spent' = spent
      BY <1>9 DEF ModelReturns
    <2>3. QED
      BY <2>1, <2>2, NotMore
  <1>10. ASSUME NEW r \in Spenders, Add(r) PROVE OvershootBounded'
    <2>1. Spending' \subseteq Spending
      <3>1. round[r].field \in Nat
        BY DEF TokensTypeOK, RoundStates
      <3>2. round[r].at = "add"
        BY <1>10 DEF Add
      <3>3. QED
        BY <1>10, <3>1, <3>2, AddMoves DEF Spending
    <2>2. spent' = [spent EXCEPT ![round[r].field] = @ + round[r].cost] /\ round[r].at = "add"
      BY <1>10 DEF Add
    <2>3. CASE round[r].field # CostAt
      BY <2>1, <2>2, <2>3, NotMore DEF TokensTypeOK
    <2>4. CASE round[r].field = CostAt
      <3>1. r \in Spending
        BY <2>2, <2>4 DEF Spending
      <3>2. r \notin Spending'
        BY <1>10, <2>4, AddMoves DEF Spending
      <3>3. Spending' \subseteq Spending \ {r}
        BY <2>1, <3>2
      <3>4. Cardinality(Spending') <= Cardinality(Spending) - 1
        <4>1. Spending \subseteq Spenders /\ Spending \ {r} \subseteq Spenders
          BY SpendingIsCounted
        <4>2. Cardinality(Spending \ {r}) = Cardinality(Spending) - 1
          BY <3>1, <4>1, OneRunLess
        <4>3. Cardinality(Spending') <= Cardinality(Spending \ {r})
          BY <3>3, <4>1, FewerRuns
        <4>4. QED
          BY <4>2, <4>3
      <3>5. /\ MaxCost * Cardinality(Spending') <= MaxCost * (Cardinality(Spending) - 1)
            /\ Cardinality(Spending) - 1 \in Nat
        <4>1. /\ Cardinality(Spending) \in Nat /\ Cardinality(Spending') \in Nat
              /\ MaxCost \in Nat
          BY SpendingIsCounted, TokenAssumption
        <4>2. Cardinality(Spending) - 1 \in Nat
          BY <3>4, <4>1
        <4>3. QED
          BY <3>4, <4>1, <4>2, TimesMonotone
      <3>6. MaxCost * (Cardinality(Spending) - 1) = MaxCost * Cardinality(Spending) - MaxCost
        BY SpendingIsCounted, TimesOneLess
      <3>7. /\ spent[CostAt] \in Nat /\ round[r].cost \in 0..MaxCost
            /\ spent'[CostAt] = spent[CostAt] + round[r].cost
        BY <2>2, <2>4 DEF TokensTypeOK, RoundStates
      <3>8. /\ MaxCost * Cardinality(Spending) \in Nat
            /\ MaxCost * Cardinality(Spending') \in Nat
            /\ MaxCost * Cardinality(Spenders) \in Nat
        BY SpendingIsCounted, TimesMonotone
      <3>9. spent'[CostAt] \in Nat /\ MaxCost \in Nat /\ Budget - 1 \in Int
        BY <2>2, <3>7, TokenAssumption
      <3>10. MaxCost * Cardinality(Spending') <= MaxCost * Cardinality(Spending) - MaxCost
        BY <3>5, <3>6
      <3>11. spent[CostAt] + MaxCost * Cardinality(Spending)
                <= (Budget - 1) + MaxCost * Cardinality(Spenders)
        BY DEF OvershootBounded
      <3>12. spent'[CostAt] + MaxCost * Cardinality(Spending')
                <= (Budget - 1) + MaxCost * Cardinality(Spenders)
        <4> DEFINE open == MaxCost * Cardinality(Spending)
                   left == MaxCost * Cardinality(Spending')
                   all  == MaxCost * Cardinality(Spenders)
        <4>1. /\ open \in Nat /\ left \in Nat /\ all \in Nat
              /\ left <= open - MaxCost /\ spent[CostAt] + open <= (Budget - 1) + all
          BY <3>8, <3>10, <3>11
        <4>2. round[r].cost \in Nat /\ round[r].cost <= MaxCost
          BY <3>7, <3>9
        <4> HIDE DEF open, left, all
        <4>3. spent'[CostAt] + left <= (Budget - 1) + all
          BY <3>7, <3>9, <4>1, <4>2, CallIsPaid
        <4>4. QED
          BY <4>3 DEF left, all
      <3>13. QED
        BY <3>12 DEF OvershootBounded
    <2>5. QED
      BY <2>3, <2>4
  <1>11. ASSUME NEW r \in Spenders, LoadForWarning(r) PROVE OvershootBounded'
    <2>1. Spending' \subseteq Spending
      BY <1>11, LoadForWarningMoves DEF LoadForWarning, Spending
    <2>2. spent' = spent
      BY <1>11 DEF LoadForWarning
    <2>3. QED
      BY <2>1, <2>2, NotMore
  <1>12. ASSUME NEW r \in Spenders, Warn(r) PROVE OvershootBounded'
    <2>1. Spending' \subseteq Spending
      BY <1>12, WarnMoves DEF Warn, Spending
    <2>2. spent' = spent
      BY <1>12 DEF Warn
    <2>3. QED
      BY <2>1, <2>2, NotMore
  <1>13. CASE Midnight
    <2>1. Spending' \subseteq Spending /\ spent' = spent
      BY <1>13 DEF Midnight, Spending
    <2>2. QED
      BY <2>1, NotMore
  <1>14. CASE UNCHANGED tokenVars
    <2>1. Spending' \subseteq Spending /\ spent' = spent
      BY <1>14 DEF tokenVars, Spending
    <2>2. QED
      BY <2>1, NotMore
  <1>15. QED
    BY <1>1, <1>2, <1>3, <1>4, <1>5, <1>6, <1>7, <1>8, <1>9, <1>10, <1>11, <1>12, <1>13, <1>14
    DEF TokensNext

LEMMA TokenInductive == TokensSpec => []TokenIInv
  <1>1. TokenIInv /\ [TokensNext]_tokenVars => TokenIInv'
    BY TokenTypeStep, LockStep, DatedStep, CountedStep, OvershootStep DEF TokenIInv
  <1>2. QED
    BY <1>1, TokenInitInv, PTL DEF TokensSpec

-----------------------------------------------------------------------------
(* The counters of the day are numbers, and each run is in its round.       *)
THEOREM TokensTyped == TokensSpec => []TokensTypeOK
  <1>1. TokenIInv => TokensTypeOK
    BY DEF TokenIInv
  <1>2. QED
    BY <1>1, TokenInductive, PTL

(* What was recorded on the day of the tracker is in its counters, as long  *)
(* as no run has set the date back.                                         *)
THEOREM NothingOfTodayIsWiped == TokensSpec => []TodayIsCounted
  <1>1. TokenIInv => TodayIsCounted
    BY DEF TokenIInv
  <1>2. QED
    BY <1>1, TokenInductive, PTL

(* The budget is overrun by at most one call of each run.                   *)
THEOREM BudgetOverrun == TokensSpec => []OvershootBounded
  <1>1. TokenIInv => OvershootBounded
    BY DEF TokenIInv
  <1>2. QED
    BY <1>1, TokenInductive, PTL

-----------------------------------------------------------------------------
(***************************************************************************)
(* Chats end with their own runs, for any calls, sessions and events: where *)
(* the streams of the view are, whose replies are under way, and which run  *)
(* id each stream bears.                                                    *)
(***************************************************************************)

CallStages == {"idle", "encoding", "sending", "waiting", "queueing", "done"}
StreamStates ==
    [runId : AllCalls \cup {None, Queued}, resolve : BOOLEAN, timer : BOOLEAN, grace : BOOLEAN,
     settled : {"no", "own", "other", "timer", "stop"}]
ReplySet ==
    [to : AllCalls, runId : AllCalls \cup {None, Queued}, session : Sessions \cup {None}]
EventSet ==
    [kind : {"end", "error", "ready"}, run : AllCalls, session : Sessions, text : BOOLEAN]

CallStates == [at : CallStages, key : Keys \cup {None}, session : Keys \cup {None}]
RunStates ==
    [at : {"none", "thinking", "warned", "finishing", "aborted", "done"},
     session : Sessions \cup {None}]

ViewTypes ==
    /\ current \in Keys
    /\ streams \in [Keys -> AllCalls \cup {None}]
    /\ call \in [AllCalls -> CallStates]
    /\ ss \in [AllCalls -> StreamStates]

EngineTypes ==
    /\ known \subseteq Sessions
    /\ active \in [Sessions -> AllCalls \cup {None}]
    /\ run \in [AllCalls -> RunStates]
    /\ \A c \in AllCalls : run[c].at # "none" => run[c].session \in Sessions

WireTypes ==
    /\ replies \subseteq ReplySet
    /\ aborting \subseteq Sessions
    /\ events \in Seq(EventSet)

StreamTypes == ViewTypes /\ EngineTypes /\ WireTypes

\* A call has a stream only from its send on, and in the key it was sent from
\* unless that was a new chat; and there only until it ends.
Placed ==
    \A k \in Keys : \A c \in AllCalls : streams[k] = c =>
        /\ call[c].at \in {"sending", "waiting", "done"}
        /\ call[c].key # NoKey => k = call[c].key /\ call[c].at # "done"

\* A send from a session goes to this session.
Addressed ==
    \A c \in AllCalls : call[c].at = "sending" =>
        call[c].key \in Keys /\ (call[c].key # NoKey => call[c].session = call[c].key)

\* A reply is to a call that waits for one, once, and of its session and its run.
Replied ==
    /\ \A m \in replies :
         /\ call[m.to].at \in {"sending", "queueing"}
         /\ m.runId \in {m.to, Queued, None}
         /\ m.runId # None =>
              /\ m.session \in Sessions
              /\ call[m.to].session # NoKey => m.session = call[m.to].session
    /\ \A m, n \in replies : m.to = n.to => m = n

\* A send that has its reply has the id of its run.
Named == \A c \in AllCalls : call[c].at = "waiting" => ss[c].runId \in {c, Queued}

StreamInv == StreamTypes /\ Placed /\ Addressed /\ Replied /\ Named

LEMMA Distinct ==
    /\ NoKey \in Keys /\ Sessions \subseteq Keys /\ NoKey \notin Sessions
    /\ None \notin Keys /\ None \notin AllCalls /\ Queued \notin AllCalls /\ Queued # None
BY StreamAssumption DEF Keys, AllCalls

LEMMA StreamStart == StreamInit => StreamInv
<1> SUFFICES ASSUME StreamInit PROVE StreamInv
  OBVIOUS
<1>1. /\ NoStream \in StreamStates /\ NoStream.settled = "no"
      /\ [at |-> "idle", key |-> None, session |-> None] \in CallStates
      /\ NoRun \in RunStates /\ NoRun.at = "none"
  BY DEF NoStream, StreamStates, CallStages, CallStates, RunStates, NoRun
<1>2. ViewTypes
  BY <1>1, Distinct, StreamAssumption DEF StreamInit, ViewTypes, Keys
<1>3. EngineTypes /\ WireTypes
  BY <1>1, Distinct, StreamAssumption DEF StreamInit, EngineTypes, WireTypes
<1>4. Placed /\ Addressed /\ Replied /\ Named
  BY Distinct DEF StreamInit, Placed, Addressed, Replied, Named
<1> QED
  BY <1>2, <1>3, <1>4 DEF StreamInv, StreamTypes

-----------------------------------------------------------------------------
(* Every step leaves the variables in their types. *)

\* Ways to change the state of a stream.
LEMMA Settling ==
    ASSUME NEW c \in AllCalls, ss \in [AllCalls -> StreamStates],
           NEW by \in {"own", "other", "timer", "stop"}
    PROVE  /\ NoStream \in StreamStates /\ NewStream \in StreamStates
           /\ Resolved(c, by) \in StreamStates
           /\ Resolved(c, by).runId = ss[c].runId
           /\ Resolved(c, by).settled \in {ss[c].settled, by}
           /\ [ss[c] EXCEPT !.timer = FALSE, !.settled = Settle(c, by)] \in StreamStates
BY DEF NoStream, NewStream, Resolved, Settle, StreamStates

\* What a run of its own emits.
LEMMA Emitted ==
    ASSUME EngineTypes, NEW c \in AllCalls, run[c].at # "none",
           NEW kind \in {"end", "error", "ready"}, NEW text \in BOOLEAN
    PROVE  Event(kind, c, text) \in EventSet
BY DEF EngineTypes, RunStates, Event, EventSet

LEMMA Shown ==
    ASSUME ViewTypes, NEW c \in AllCalls, NEW to \in Keys, Show(c, to)
    PROVE  /\ streams' \in [Keys -> AllCalls \cup {None}]
           /\ call' \in [AllCalls -> CallStates]
           /\ ss' \in [AllCalls -> StreamStates]
<1>1. PICK swept \in SUBSET Keys :
          /\ streams' = [k \in Keys |->
                          IF k = current THEN c ELSE IF k \in swept THEN None ELSE streams[k]]
          /\ call' = [call EXCEPT ![c] = [at |-> "sending", key |-> current, session |-> to]]
          /\ ss' = [ss EXCEPT ![c] = NewStream]
  BY DEF Show
<1>2. [at |-> "sending", key |-> current, session |-> to] \in CallStates
  BY DEF ViewTypes, CallStates, CallStages
<1>3. NewStream \in StreamStates
  BY DEF NoStream, NewStream, StreamStates
<1> QED
  BY <1>1, <1>2, <1>3 DEF ViewTypes

LEMMA CallTypes ==
    ASSUME ViewTypes, NEW c \in AllCalls, NEW at \in CallStages
    PROVE  [call EXCEPT ![c].at = at] \in [AllCalls -> CallStates]
BY DEF ViewTypes, CallStates

LEMMA EndTypes ==
    ASSUME ViewTypes, NEW c \in AllCalls, End(c)
    PROVE  /\ streams' \in [Keys -> AllCalls \cup {None}]
           /\ call' \in [AllCalls -> CallStates]
           /\ ss' \in [AllCalls -> StreamStates]
<1>1. NoStream \in StreamStates /\ "done" \in CallStages
  BY DEF NoStream, StreamStates, CallStages
<1> QED
  BY <1>1, CallTypes DEF End, ViewTypes

LEMMA TeardownTypes ==
    ASSUME ViewTypes, WireTypes, NEW k \in Keys, Teardown(k)
    PROVE  /\ streams' \in [Keys -> AllCalls \cup {None}]
           /\ ss' \in [AllCalls -> StreamStates]
           /\ aborting' \subseteq Sessions
<1>0. aborting \subseteq Sessions /\ aborting \cup ({k} \ {NoKey}) \subseteq Sessions
  BY DEF WireTypes, Keys
<1>1. CASE streams[k] = None
  BY <1>0, <1>1 DEF ViewTypes, Teardown
<1>2. CASE streams[k] # None
  <2>1. streams[k] \in AllCalls
    BY <1>2 DEF ViewTypes
  <2>2. Resolved(streams[k], "stop") \in StreamStates /\ ss[streams[k]] \in StreamStates
    BY <2>1, Settling DEF ViewTypes
  <2>3. [IF ss[streams[k]].resolve THEN Resolved(streams[k], "stop") ELSE ss[streams[k]]
           EXCEPT !.timer = FALSE] \in StreamStates
    BY <2>2 DEF StreamStates
  <2> QED
    BY <1>0, <1>2, <2>3 DEF ViewTypes, Teardown
<1> QED
  BY <1>1, <1>2

LEMMA EmittedTypes ==
    ASSUME WireTypes, NEW evts \in Seq(EventSet), Emit(evts)
    PROVE  events' \in Seq(EventSet)
BY DEF WireTypes, Emit

LEMMA Unchanged ==
    /\ ViewTypes /\ UNCHANGED viewVars => ViewTypes'
    /\ EngineTypes /\ UNCHANGED engineVars => EngineTypes'
    /\ WireTypes /\ UNCHANGED wireVars => WireTypes'
    /\ WireTypes /\ UNCHANGED <<aborting, events>> /\ replies' \subseteq ReplySet => WireTypes'
BY DEF ViewTypes, EngineTypes, WireTypes, viewVars, engineVars, wireVars

\* The steps of a call.
LEMMA CallStepTypes ==
    ASSUME StreamTypes, Replied, NEW c \in AllCalls,
           CheckIdle(c) \/ QueueMessage(c) \/ CallNext(c) \/ TimesOut(c) \/ GraceExpires(c)
    PROVE  StreamTypes'
<1> USE DEF StreamTypes
<1>1. CASE CheckIdle(c)
  <2>1. call' \in [AllCalls -> CallStates]
    BY <1>1, CallTypes DEF CheckIdle, CallStages
  <2> QED
    BY <1>1, <2>1, Unchanged DEF CheckIdle, ViewTypes
<1>2. CASE QueueMessage(c)
  <2>1. [at |-> "queueing", key |-> current, session |-> current] \in CallStates
    BY DEF ViewTypes, CallStates, CallStages
  <2> QED
    BY <1>2, <2>1, Unchanged DEF QueueMessage, ViewTypes
<1>3. CASE HandleSendResult(c)
  <2>1. PICK reply \in replies :
            /\ reply.to = c /\ reply.runId # None
            /\ replies' = replies \ {reply}
            /\ ss' = [ss EXCEPT ![c].runId = reply.runId]
            /\ current' = reply.session
            /\ streams' = Moved(c, reply.session)
    BY <1>3 DEF HandleSendResult
  <2>2. reply \in ReplySet /\ reply.runId \in AllCalls \cup {None, Queued}
    BY DEF WireTypes, ReplySet
  <2>3. reply.session \in Keys
    BY <2>1, Distinct DEF Replied
  <2>4. [ss[c] EXCEPT !.runId = reply.runId] \in StreamStates
    BY <2>2 DEF ViewTypes, StreamStates
  <2>5. ss' \in [AllCalls -> StreamStates]
    BY <2>1, <2>4 DEF ViewTypes
  <2>6. streams' \in [Keys -> AllCalls \cup {None}]
    BY <2>1, <2>3 DEF ViewTypes, Moved
  <2>7. call' \in [AllCalls -> CallStates]
    BY <1>3, CallTypes DEF HandleSendResult, CallStages
  <2>8. ViewTypes'
    BY <2>1, <2>3, <2>5, <2>6, <2>7 DEF ViewTypes
  <2> QED
    BY <1>3, <2>1, <2>8, Unchanged DEF HandleSendResult, viewVars, WireTypes, EngineTypes, engineVars
<1>4. CASE SendFails(c)
  BY <1>4, EndTypes, Unchanged DEF SendFails, ViewTypes, WireTypes
<1>5. CASE Finish(c)
  BY <1>5, EndTypes, Unchanged DEF Finish, ViewTypes
<1>6. CASE ShowAndSend(c)
  BY <1>6, Shown, Unchanged DEF ShowAndSend, ViewTypes
<1>7. CASE Acknowledge(c)
  <2>1. call' \in [AllCalls -> CallStates]
    BY <1>7, CallTypes DEF Acknowledge, CallStages
  <2> QED
    BY <1>7, <2>1, Unchanged DEF Acknowledge, ViewTypes, WireTypes
<1>8. CASE TimesOut(c)
  BY <1>8, Settling, Unchanged DEF TimesOut, ViewTypes
<1>9. CASE GraceExpires(c)
  <2>1. Resolved(c, "own") \in StreamStates /\ ss[c] \in StreamStates
    BY Settling DEF ViewTypes
  <2>2. /\ [Resolved(c, "own") EXCEPT !.grace = FALSE] \in StreamStates
        /\ [ss[c] EXCEPT !.grace = FALSE] \in StreamStates
    BY <2>1 DEF StreamStates
  <2> QED
    BY <1>9, <2>2, Unchanged DEF GraceExpires, ViewTypes
<1> QED
  BY <1>1, <1>2, <1>3, <1>4, <1>5, <1>6, <1>7, <1>8, <1>9 DEF CallNext

\* The steps of a run.
LEMMA EngineStepTypes ==
    ASSUME StreamTypes, NEW c \in AllCalls, EngineNext(c)
    PROVE  StreamTypes'
<1> USE DEF StreamTypes
<1>1. CASE EngineChatSend(c)
  <2>1. PICK session \in Sessions : Receive(c, session)
    BY <1>1 DEF EngineChatSend
  <2>2. known' \subseteq Sessions
    BY <2>1 DEF Receive, EngineTypes
  <2>3. /\ [to |-> c, runId |-> Queued, session |-> session] \in ReplySet
        /\ [to |-> c, runId |-> c, session |-> session] \in ReplySet
    BY DEF ReplySet
  <2>4. replies' \subseteq ReplySet
    BY <2>1, <2>3 DEF Receive, WireTypes
  <2>5. active' \in [Sessions -> AllCalls \cup {None}]
    BY <2>1 DEF Receive, EngineTypes
  <2>6. [at |-> "thinking", session |-> session] \in RunStates
    BY DEF RunStates
  <2>7. /\ run' \in [AllCalls -> RunStates]
        /\ \A d \in AllCalls : run'[d].at # "none" => run'[d].session \in Sessions
    BY <2>1, <2>6 DEF Receive, EngineTypes
  <2>8. EngineTypes'
    BY <2>2, <2>5, <2>7 DEF EngineTypes
  <2>9. WireTypes' /\ ViewTypes'
    BY <1>1, <2>4, Unchanged DEF EngineChatSend
  <2> QED
    BY <2>8, <2>9
<1>2. CASE EngineChatSendFails(c)
  <2>1. [to |-> c, runId |-> None, session |-> None] \in ReplySet
    BY DEF ReplySet
  <2>2. replies' \subseteq ReplySet
    BY <1>2, <2>1 DEF EngineChatSendFails, WireTypes
  <2> QED
    BY <1>2, <2>2, Unchanged DEF EngineChatSendFails
<1> SUFFICES ASSUME WarnOfBudget(c) \/ RunEnds(c) \/ RunBreaksOff(c) \/ Cleanup(c)
             PROVE  StreamTypes'
  BY <1>1, <1>2 DEF EngineNext
<1>3. PICK from, to \in {"thinking", "warned", "finishing", "aborted", "done"} :
          /\ from \in {"thinking", "warned", "finishing", "aborted"}
          /\ run[c].at = from
          /\ run' = [run EXCEPT ![c].at = to]
          /\ UNCHANGED <<viewVars, known, replies, aborting>>
  BY DEF WarnOfBudget, RunEnds, RunBreaksOff, Cleanup, RunGoes, Running
<1>4. run[c].at # "none" /\ run[c].session \in Sessions
  BY <1>3 DEF EngineTypes
<1>5. [run[c] EXCEPT !.at = to] \in RunStates /\ [run[c] EXCEPT !.at = to].session = run[c].session
  BY DEF EngineTypes, RunStates
<1>6. /\ run' \in [AllCalls -> RunStates]
      /\ \A d \in AllCalls : run'[d].at # "none" => run'[d].session \in Sessions
  BY <1>3, <1>4, <1>5 DEF EngineTypes
<1>7. active' \in [Sessions -> AllCalls \cup {None}]
  BY DEF WarnOfBudget, RunEnds, RunBreaksOff, Cleanup, EngineTypes
<1>8. events' \in Seq(EventSet)
  <2>1. \A kind \in {"end", "error", "ready"}, text \in BOOLEAN : Event(kind, c, text) \in EventSet
    BY <1>4, Emitted
  <2>2. <<>> \in Seq(EventSet) /\ \A e \in EventSet : <<e>> \in Seq(EventSet)
    OBVIOUS
  <2>3. \A a, b \in Seq(EventSet) : a \o b \in Seq(EventSet)
    OBVIOUS
  <2>4. CASE WarnOfBudget(c) \/ RunEnds(c)
    BY <2>1, <2>2, <2>4, EmittedTypes DEF WarnOfBudget, RunEnds
  <2>5. CASE RunBreaksOff(c)
    BY <2>5 DEF RunBreaksOff, WireTypes
  <2>6. CASE Cleanup(c)
    <3> DEFINE ready == IF queue[run[c].session] > 0 THEN <<Event("ready", c, TRUE)>> ELSE <<>>
               end   == IF run[c].at = "aborted" THEN <<Event("end", c, FALSE)>> ELSE <<>>
    <3>1. Emit(ready \o end)
      BY <2>6 DEF Cleanup
    <3>2. ready \in Seq(EventSet) /\ end \in Seq(EventSet)
      BY <2>1, <2>2
    <3> QED
      BY <2>3, <3>1, <3>2, EmittedTypes
  <2> QED
    BY <2>4, <2>5, <2>6
<1> QED
  BY <1>3, <1>6, <1>7, <1>8, Unchanged DEF EngineTypes, WireTypes

LEMMA TypesKept == StreamInv /\ StreamNext => StreamTypes'
<1> SUFFICES ASSUME StreamInv, StreamNext PROVE StreamTypes'
  OBVIOUS
<1> USE DEF StreamInv, StreamTypes
<1>1. ASSUME NEW c \in AllCalls,
             CheckIdle(c) \/ QueueMessage(c) \/ CallNext(c) \/ TimesOut(c) \/ GraceExpires(c)
      PROVE  StreamTypes'
  BY <1>1, CallStepTypes
<1>2. ASSUME NEW c \in AllCalls, EngineNext(c) PROVE StreamTypes'
  BY <1>2, EngineStepTypes
<1>3. ASSUME NEW s \in Sessions, EngineChatAbort(s) PROVE StreamTypes'
  <2>1. aborting' \subseteq Sessions
    BY <1>3 DEF EngineChatAbort, WireTypes
  <2>2. CASE active[s] = None
    BY <1>3, <2>1, <2>2, Unchanged
    DEF EngineChatAbort, EngineTypes, WireTypes
  <2>3. CASE active[s] # None
    <3>1. active[s] \in AllCalls
      BY <2>3 DEF EngineTypes
    <3>2. [run[active[s]] EXCEPT !.at = "aborted"] \in RunStates
      BY <3>1 DEF EngineTypes, RunStates
    <3>3. [run[active[s]] EXCEPT !.at = "aborted"].session = run[active[s]].session
      BY <3>1 DEF EngineTypes, RunStates
    <3>4. /\ run' \in [AllCalls -> RunStates]
          /\ \A d \in AllCalls : run'[d].at # "none" => run'[d].session \in Sessions
      BY <1>3, <2>3, <3>1, <3>2, <3>3 DEF EngineChatAbort, EngineTypes, Running
    <3>5. active' \in [Sessions -> AllCalls \cup {None}]
      BY <1>3, <2>3 DEF EngineChatAbort, EngineTypes
    <3> QED
      BY <1>3, <2>1, <3>4, <3>5, Unchanged DEF EngineChatAbort, EngineTypes, WireTypes
  <2> QED
    BY <2>2, <2>3
<1>4. CASE Stop
  BY <1>4, TeardownTypes, Unchanged DEF Stop, Move, ViewTypes, WireTypes
<1>5. CASE SwitchSession
  BY <1>5, TeardownTypes, Unchanged, Distinct
  DEF SwitchSession, Move, ViewTypes, WireTypes, EngineTypes, Keys
<1>6. CASE InboxNewChat
  BY <1>6, Unchanged, Distinct DEF InboxNewChat, ViewTypes
<1>7. CASE HandleAgentEvent
  <2>1. Head(events) \in EventSet /\ Tail(events) \in Seq(EventSet)
    BY <1>7 DEF HandleAgentEvent, WireTypes
  <2>2. ss' \in [AllCalls -> StreamStates]
    <3> DEFINE e == Head(events)
               c == streams[e.session]
    <3>1. c \in AllCalls \cup {None} /\ By(c, e) \in {"own", "other"}
      BY <2>1 DEF ViewTypes, EventSet, Keys, By
    <3> HIDE DEF e
    <3>2. ss \in [AllCalls -> StreamStates]
      BY DEF ViewTypes
    <3>3. c \in AllCalls => /\ Resolved(c, By(c, e)) \in StreamStates
                            /\ [ss[c] EXCEPT !.grace = TRUE] \in StreamStates
      <4> SUFFICES ASSUME c \in AllCalls
                   PROVE  /\ Resolved(c, By(c, e)) \in StreamStates
                          /\ [ss[c] EXCEPT !.grace = TRUE] \in StreamStates
        OBVIOUS
      <4>1. Resolved(c, By(c, e)) \in StreamStates
        BY <3>1, <3>2, Settling
      <4>2. ss[c] \in StreamStates
        BY <3>2
      <4>3. [ss[c] EXCEPT !.grace = TRUE] \in StreamStates
        BY <4>2 DEF StreamStates
      <4> QED
        BY <4>1, <4>3
    <3>4. ss' = ss \/ OnEnd(e) \/ OnError(e)
      BY <1>7 DEF HandleAgentEvent, e
    <3> QED
      BY <3>1, <3>2, <3>3, <3>4 DEF OnEnd, OnError
  <2> QED
    BY <1>7, <2>1, <2>2, Unchanged DEF HandleAgentEvent, ViewTypes, WireTypes
<1>8. CASE HandleQueueReady
  <2>1. Head(events) \in EventSet /\ Tail(events) \in Seq(EventSet)
    BY <1>8 DEF HandleQueueReady, WireTypes
  <2>2. Head(events).session \in Keys
    BY <2>1 DEF EventSet, Keys
  <2>3. UNCHANGED <<streams, call, ss>> \/ \E c \in AllCalls : Show(c, Head(events).session)
    BY <1>8 DEF HandleQueueReady
  <2>4. ViewTypes'
    BY <1>8, <2>2, <2>3, Shown DEF HandleQueueReady, ViewTypes
  <2> QED
    BY <1>8, <2>1, <2>4, Unchanged DEF HandleQueueReady, WireTypes
<1> QED
  BY <1>1, <1>2, <1>3, <1>4, <1>5, <1>6, <1>7, <1>8 DEF StreamNext

-----------------------------------------------------------------------------
(* Every step leaves the streams, the replies and the run ids where they belong. *)

Belongs == Placed /\ Addressed /\ Replied /\ Named

\* Steps that move no call.
LEMMA StillBelongs ==
    ASSUME StreamInv, UNCHANGED <<call, replies>>,
           \A k \in Keys : streams'[k] \in {streams[k], None},
           \A c \in AllCalls : ss'[c].runId = ss[c].runId
    PROVE  Belongs'
<1>1. Placed'
  BY Distinct DEF StreamInv, Placed
<1>2. Addressed' /\ Replied' /\ Named'
  BY DEF StreamInv, Addressed, Replied, Named
<1> QED
  BY <1>1, <1>2 DEF Belongs

LEMMA ShowBelongs ==
    ASSUME StreamInv, NEW c \in AllCalls, NEW to \in Keys, Show(c, to), UNCHANGED replies,
           call[c].at \in {"idle", "encoding"}, current # NoKey => to = current
    PROVE  Belongs'
<1>1. PICK swept \in SUBSET Keys :
          /\ streams' = [k \in Keys |->
                          IF k = current THEN c ELSE IF k \in swept THEN None ELSE streams[k]]
          /\ call' = [call EXCEPT ![c] = [at |-> "sending", key |-> current, session |-> to]]
          /\ ss' = [ss EXCEPT ![c] = NewStream]
  BY DEF Show
<1>2. /\ call'[c].at = "sending" /\ call'[c].key = current /\ call'[c].session = to
      /\ \A d \in AllCalls \ {c} : call'[d] = call[d] /\ ss'[d] = ss[d]
  BY <1>1 DEF StreamInv, StreamTypes, ViewTypes
<1>3. \A k \in Keys : streams[k] # c
  BY DEF StreamInv, Placed
<1>4. \A m \in replies : m.to \in AllCalls \ {c}
  BY DEF StreamInv, StreamTypes, WireTypes, ReplySet, Replied
<1>5. Placed'
  BY <1>1, <1>2, <1>3, Distinct DEF StreamInv, Placed
<1>6. Addressed' /\ Named'
  BY <1>2 DEF StreamInv, StreamTypes, ViewTypes, Addressed, Named
<1>7. Replied'
  BY <1>2, <1>4 DEF StreamInv, Replied
<1> QED
  BY <1>5, <1>6, <1>7 DEF Belongs

LEMMA EndBelongs ==
    ASSUME StreamInv, NEW c \in AllCalls, End(c),
           replies' \subseteq replies, \A m \in replies' : m.to # c,
           call[c].at \in {"sending", "waiting"}
    PROVE  Belongs'
<1>1. /\ call'[c].at = "done" /\ call'[c].key = call[c].key
      /\ \A d \in AllCalls \ {c} : call'[d] = call[d] /\ ss'[d] = ss[d]
  BY DEF End, StreamInv, StreamTypes, ViewTypes, CallStates
<1>2. \A k \in Keys : /\ streams'[k] \in {streams[k], None}
                      /\ k = call[c].key => streams'[k] = None
  BY DEF End, StreamInv, StreamTypes, ViewTypes
<1>3. \A m \in replies' : m.to \in AllCalls \ {c}
  BY DEF StreamInv, StreamTypes, WireTypes, ReplySet
<1>4. Placed'
  BY <1>1, <1>2, Distinct DEF StreamInv, Placed
<1>5. Addressed' /\ Named'
  BY <1>1 DEF StreamInv, Addressed, Named
<1>6. Replied'
  BY <1>1, <1>3 DEF StreamInv, Replied
<1> QED
  BY <1>4, <1>5, <1>6 DEF Belongs

LEMMA TeardownBelongs ==
    ASSUME StreamInv, NEW k \in Keys, Teardown(k), UNCHANGED <<call, replies>>
    PROVE  Belongs'
<1>1. CASE streams[k] = None
  BY <1>1, StillBelongs DEF Teardown
<1>2. CASE streams[k] # None
  <2>1. streams[k] \in AllCalls
    BY <1>2 DEF StreamInv, StreamTypes, ViewTypes
  <2>2. /\ ss[streams[k]] \in StreamStates /\ Resolved(streams[k], "stop") \in StreamStates
        /\ Resolved(streams[k], "stop").runId = ss[streams[k]].runId
    BY <2>1, Settling DEF StreamInv, StreamTypes, ViewTypes
  <2>3. [IF ss[streams[k]].resolve THEN Resolved(streams[k], "stop") ELSE ss[streams[k]]
           EXCEPT !.timer = FALSE].runId = ss[streams[k]].runId
    BY <2>2 DEF StreamStates
  <2>4. \A c \in AllCalls : ss'[c].runId = ss[c].runId
    BY <1>2, <2>1, <2>3 DEF Teardown, StreamInv, StreamTypes, ViewTypes
  <2>5. \A j \in Keys : streams'[j] \in {streams[j], None}
    BY <1>2 DEF Teardown, StreamInv, StreamTypes, ViewTypes
  <2> QED
    BY <2>4, <2>5, StillBelongs
<1> QED
  BY <1>1, <1>2

\* A call is replied to once: the reply to take is the only one.
LEMMA ReplyTaken ==
    ASSUME StreamInv, NEW reply \in replies, replies' = replies \ {reply}
    PROVE  replies' \subseteq replies /\ \A m \in replies' : m.to # reply.to
BY DEF StreamInv, Replied

\* The stream of a send from a session stays where it is.
LEMMA ResultBelongs ==
    ASSUME StreamInv, NEW c \in AllCalls, HandleSendResult(c)
    PROVE  Belongs'
<1> USE DEF StreamInv
<1>1. PICK reply \in replies :
          /\ reply.to = c /\ reply.runId # None
          /\ replies' = replies \ {reply}
          /\ ss' = [ss EXCEPT ![c].runId = reply.runId]
          /\ streams' = Moved(c, reply.session)
  BY DEF HandleSendResult
<1>2. call[c].at = "sending" /\ call' = [call EXCEPT ![c].at = "waiting"]
  BY DEF HandleSendResult
<1>3. /\ call'[c].at = "waiting" /\ call'[c].key = call[c].key
      /\ \A d \in AllCalls \ {c} : call'[d] = call[d]
  BY <1>2 DEF StreamTypes, ViewTypes, CallStates
<1>4. /\ reply.session \in Keys
      /\ call[c].session # NoKey => reply.session = call[c].session
  BY <1>1, Distinct DEF Replied
<1>5. /\ call[c].key \in Keys
      /\ call[c].key # NoKey => call[c].session = call[c].key
  BY <1>2 DEF Addressed
<1>6. call[c].key # NoKey => streams' = streams
  BY <1>1, <1>4, <1>5 DEF Moved
<1>7. \A k \in Keys : streams'[k] \in {streams[k], None, c}
  BY <1>1 DEF Moved, StreamTypes, ViewTypes
<1>8. Placed'
  BY <1>2, <1>3, <1>6, <1>7, Distinct DEF Placed
<1>9. Addressed'
  BY <1>2, <1>3 DEF Addressed
<1>10. Replied'
  <2>1. \A m \in replies' : m \in replies /\ m.to \in AllCalls \ {c}
    BY <1>1, ReplyTaken DEF StreamTypes, WireTypes, ReplySet
  <2> QED
    BY <1>3, <2>1 DEF Replied
<1>11. Named'
  <2>1. ss'[c].runId = reply.runId /\ \A d \in AllCalls \ {c} : ss'[d] = ss[d]
    BY <1>1 DEF StreamTypes, ViewTypes, StreamStates
  <2>2. reply.runId \in {c, Queued}
    BY <1>1 DEF Replied
  <2> QED
    BY <1>3, <2>1, <2>2 DEF Named
<1> QED
  BY <1>8, <1>9, <1>10, <1>11 DEF Belongs

\* Calls that move between stages without a stream.
LEMMA StageBelongs ==
    ASSUME StreamInv, NEW c \in AllCalls, UNCHANGED <<streams, ss>>,
           NEW new \in CallStates, call' = [call EXCEPT ![c] = new],
           call[c].at \in {"idle", "encoding", "queueing"},
           new.at \in {"encoding", "queueing", "done"},
           replies' \subseteq replies, \A m \in replies' : m.to # c
    PROVE  Belongs'
<1>1. call'[c] = new /\ \A d \in AllCalls \ {c} : call'[d] = call[d]
  BY DEF StreamInv, StreamTypes, ViewTypes
<1>2. \A m \in replies' : m.to \in AllCalls \ {c}
  BY DEF StreamInv, StreamTypes, WireTypes, ReplySet
<1>3. Placed'
  BY <1>1 DEF StreamInv, Placed
<1>4. Addressed' /\ Named'
  BY <1>1 DEF StreamInv, Addressed, Named
<1>5. Replied'
  BY <1>1, <1>2 DEF StreamInv, Replied
<1> QED
  BY <1>3, <1>4, <1>5 DEF Belongs

LEMMA CallStepBelongs ==
    ASSUME StreamInv, NEW c \in AllCalls,
           CheckIdle(c) \/ QueueMessage(c) \/ CallNext(c) \/ TimesOut(c) \/ GraceExpires(c)
    PROVE  Belongs'
<1> USE DEF StreamInv, StreamTypes
<1>1. CASE CheckIdle(c)
  <2>1. [call[c] EXCEPT !.at = "encoding"] \in CallStates
    BY DEF ViewTypes, CallStates, CallStages
  <2>2. [call[c] EXCEPT !.at = "encoding"].at = "encoding"
    BY DEF ViewTypes, CallStates
  <2>3. call[c].at = "idle" /\ \A m \in replies : m.to # c
    BY <1>1 DEF CheckIdle, Idle, Replied
  <2>4. call' = [call EXCEPT ![c] = [call[c] EXCEPT !.at = "encoding"]]
    BY <1>1 DEF CheckIdle
  <2> QED
    BY <1>1, <2>1, <2>2, <2>3, <2>4, StageBelongs DEF CheckIdle, wireVars
<1>2. CASE QueueMessage(c)
  <2>1. [at |-> "queueing", key |-> current, session |-> current] \in CallStates
    BY DEF ViewTypes, CallStates, CallStages
  <2>2. call[c].at = "idle" /\ \A m \in replies : m.to # c
    BY <1>2 DEF QueueMessage, Idle, Replied
  <2> QED
    BY <1>2, <2>1, <2>2, StageBelongs DEF QueueMessage, wireVars
<1>3. CASE HandleSendResult(c)
  BY <1>3, ResultBelongs
<1>4. CASE SendFails(c)
  <2>1. PICK reply \in replies : reply.to = c /\ replies' = replies \ {reply}
    BY <1>4 DEF SendFails
  <2> QED
    BY <1>4, <2>1, ReplyTaken, EndBelongs DEF SendFails
<1>5. CASE Finish(c)
  <2>1. call[c].at = "waiting" /\ End(c) /\ replies' = replies
    BY <1>5 DEF Finish, MayFinish, wireVars
  <2>2. \A m \in replies : m.to # c
    BY <2>1 DEF Replied
  <2> QED
    BY <2>1, <2>2, EndBelongs
<1>6. CASE ShowAndSend(c)
  BY <1>6, ShowBelongs DEF ShowAndSend, ViewTypes, wireVars
<1>7. CASE Acknowledge(c)
  <2>1. PICK reply \in replies : reply.to = c /\ replies' = replies \ {reply}
    BY <1>7 DEF Acknowledge
  <2>2. [call[c] EXCEPT !.at = "done"] \in CallStates
    BY DEF ViewTypes, CallStates, CallStages
  <2>3. [call[c] EXCEPT !.at = "done"].at = "done"
    BY DEF ViewTypes, CallStates
  <2>4. call' = [call EXCEPT ![c] = [call[c] EXCEPT !.at = "done"]]
    BY <1>7 DEF Acknowledge
  <2> QED
    BY <1>7, <2>1, <2>2, <2>3, <2>4, ReplyTaken, StageBelongs DEF Acknowledge
<1>8. CASE TimesOut(c)
  <2>1. [ss[c] EXCEPT !.timer = FALSE, !.settled = Settle(c, "timer")].runId = ss[c].runId
    BY DEF ViewTypes, StreamStates
  <2> QED
    BY <1>8, <2>1, StillBelongs DEF TimesOut, ViewTypes, wireVars
<1>9. CASE GraceExpires(c)
  <2>1. /\ Resolved(c, "own") \in StreamStates /\ Resolved(c, "own").runId = ss[c].runId
        /\ ss[c] \in StreamStates
    BY Settling DEF ViewTypes
  <2>2. /\ [Resolved(c, "own") EXCEPT !.grace = FALSE].runId = ss[c].runId
        /\ [ss[c] EXCEPT !.grace = FALSE].runId = ss[c].runId
    BY <2>1 DEF StreamStates
  <2> QED
    BY <1>9, <2>2, StillBelongs DEF GraceExpires, ViewTypes, wireVars
<1> QED
  BY <1>1, <1>2, <1>3, <1>4, <1>5, <1>6, <1>7, <1>8, <1>9 DEF CallNext

LEMMA EngineStepBelongs ==
    ASSUME StreamInv, NEW c \in AllCalls, EngineNext(c)
    PROVE  Belongs'
<1> USE DEF StreamInv, StreamTypes
<1>1. CASE EngineChatSend(c) \/ EngineChatSendFails(c)
  <2>1. PICK reply \in ReplySet :
            /\ replies' = replies \cup {reply} /\ reply.to = c
            /\ reply.runId \in {c, Queued, None}
            /\ reply.runId # None =>
                 /\ reply.session \in Sessions
                 /\ call[c].session # NoKey => reply.session = call[c].session
    <3>1. CASE EngineChatSend(c)
      <4>1. PICK session \in Sessions :
                /\ session = call[c].session \/ call[c].session = NoKey
                /\ Receive(c, session)
        BY <3>1 DEF EngineChatSend
      <4>2. PICK id \in {c, Queued} :
                replies' = replies \cup {[to |-> c, runId |-> id, session |-> session]}
        BY <4>1 DEF Receive
      <4>3. [to |-> c, runId |-> id, session |-> session] \in ReplySet
        BY DEF ReplySet
      <4> QED
        BY <4>1, <4>2, <4>3
    <3>2. CASE EngineChatSendFails(c)
      <4>1. [to |-> c, runId |-> None, session |-> None] \in ReplySet
        BY DEF ReplySet
      <4> QED
        BY <3>2, <4>1 DEF EngineChatSendFails
    <3> QED
      BY <1>1, <3>1, <3>2
  <2>2. /\ UNCHANGED <<streams, call, ss>> /\ call[c].at \in {"sending", "queueing"}
        /\ \A m \in replies : m.to # c
    BY <1>1 DEF EngineChatSend, EngineChatSendFails, Waits, viewVars
  <2>3. Replied'
    BY <2>1, <2>2 DEF Replied
  <2>4. Placed' /\ Addressed' /\ Named'
    BY <2>2 DEF Placed, Addressed, Named
  <2> QED
    BY <2>3, <2>4 DEF Belongs
<1>2. CASE WarnOfBudget(c) \/ RunEnds(c) \/ RunBreaksOff(c) \/ Cleanup(c)
  <2>1. UNCHANGED <<streams, call, ss, replies>>
    BY <1>2 DEF WarnOfBudget, RunEnds, RunBreaksOff, Cleanup, RunGoes, viewVars
  <2> QED
    BY <2>1, StillBelongs
<1> QED
  BY <1>1, <1>2 DEF EngineNext

\* An event leaves every run id alone.
LEMMA EventSettles ==
    ASSUME StreamInv, HandleAgentEvent
    PROVE  \A c \in AllCalls :
             /\ ss'[c].runId = ss[c].runId
             /\ \/ ss'[c].settled = ss[c].settled
                \/ /\ streams[Head(events).session] = c /\ Passes(Head(events))
                   /\ ss'[c].settled \in {ss[c].settled, By(c, Head(events))}
<1> DEFINE e == Head(events)
           s == streams[e.session]
<1>1. e \in EventSet
  BY DEF HandleAgentEvent, StreamInv, StreamTypes, WireTypes
<1>2. s \in AllCalls \cup {None} /\ By(s, e) \in {"own", "other"}
  BY <1>1 DEF StreamInv, StreamTypes, ViewTypes, EventSet, Keys, By
<1>3. ss' = ss \/ (Passes(e) /\ (OnEnd(e) \/ OnError(e)))
  BY DEF HandleAgentEvent
<1> HIDE DEF e
<1>4. ss \in [AllCalls -> StreamStates]
  BY DEF StreamInv, StreamTypes, ViewTypes
<1>5. CASE ss' = ss
  BY <1>5
<1>6. CASE ss' # ss
  <2>1. Passes(e) /\ s \in AllCalls
    BY <1>2, <1>3, <1>6 DEF OnEnd, OnError
  <2>2. /\ Resolved(s, By(s, e)).runId = ss[s].runId
        /\ Resolved(s, By(s, e)).settled \in {ss[s].settled, By(s, e)}
    BY <1>2, <1>4, <2>1, Settling
  <2>3. /\ [ss[s] EXCEPT !.grace = TRUE].runId = ss[s].runId
        /\ [ss[s] EXCEPT !.grace = TRUE].settled = ss[s].settled
    BY <1>4, <2>1 DEF StreamStates
  <2>4. PICK new : /\ ss' = [ss EXCEPT ![s] = new]
                   /\ new.runId = ss[s].runId
                   /\ new.settled \in {ss[s].settled, By(s, e)}
    <3>1. \/ ss' = [ss EXCEPT ![s] = Resolved(s, By(s, e))]
          \/ ss' = [ss EXCEPT ![s] = [ss[s] EXCEPT !.grace = TRUE]]
      BY <1>3, <1>6, <2>1 DEF OnEnd, OnError
    <3> QED
      BY <2>2, <2>3, <3>1
  <2>5. ss'[s] = new /\ \A c \in AllCalls \ {s} : ss'[c] = ss[c]
    BY <1>4, <2>1, <2>4
  <2> QED
    BY <2>1, <2>4, <2>5 DEF e
<1> QED
  BY <1>5, <1>6

LEMMA BelongsKept == StreamInv /\ StreamNext => Belongs'
<1> SUFFICES ASSUME StreamInv, StreamNext PROVE Belongs'
  OBVIOUS
<1>1. ASSUME NEW c \in AllCalls,
             CheckIdle(c) \/ QueueMessage(c) \/ CallNext(c) \/ TimesOut(c) \/ GraceExpires(c)
      PROVE  Belongs'
  BY <1>1, CallStepBelongs
<1>2. ASSUME NEW c \in AllCalls, EngineNext(c) PROVE Belongs'
  BY <1>2, EngineStepBelongs
<1>3. CASE InboxNewChat \/ \E s \in Sessions : EngineChatAbort(s)
  BY <1>3, StillBelongs DEF EngineChatAbort, InboxNewChat, viewVars, wireVars
<1>4. current \in Keys
  BY DEF StreamInv, StreamTypes, ViewTypes
<1>5. CASE Stop \/ SwitchSession
  BY <1>4, <1>5, TeardownBelongs DEF Stop, SwitchSession
<1>6. CASE HandleAgentEvent
  BY <1>6, EventSettles, StillBelongs DEF HandleAgentEvent
<1>7. CASE HandleQueueReady
  <2>0. Head(events) \in EventSet
    BY <1>7 DEF HandleQueueReady, StreamInv, StreamTypes, WireTypes
  <2>1. Head(events).session \in Keys
    BY <2>0 DEF EventSet, Keys
  <2>2. CASE UNCHANGED <<streams, call, ss>>
    BY <1>7, <2>2, StillBelongs DEF HandleQueueReady
  <2>3. CASE ~ UNCHANGED <<streams, call, ss>>
    <3>1. PICK c \in AllCalls : Idle(c) /\ Show(c, Head(events).session)
      BY <1>7, <2>3 DEF HandleQueueReady
    <3>2. current \in {NoKey, Head(events).session} /\ UNCHANGED replies
      BY <1>7, <2>3 DEF HandleQueueReady
    <3> QED
      BY <2>1, <3>1, <3>2, ShowBelongs DEF Idle
  <2> QED
    BY <2>2, <2>3
<1> QED
  BY <1>1, <1>2, <1>3, <1>5, <1>6, <1>7 DEF StreamNext

LEMMA StreamStep == StreamInv /\ [StreamNext]_streamVars => StreamInv'
<1> SUFFICES ASSUME StreamInv, [StreamNext]_streamVars PROVE StreamInv'
  OBVIOUS
<1>1. CASE StreamNext
  BY <1>1, TypesKept, BelongsKept DEF StreamInv, Belongs
<1>2. CASE UNCHANGED streamVars
  <2>1. ViewTypes' /\ EngineTypes' /\ WireTypes'
    BY <1>2, Unchanged DEF StreamInv, StreamTypes, streamVars
  <2>2. Belongs'
    BY <1>2, StillBelongs DEF streamVars, viewVars, wireVars
  <2> QED
    BY <2>1, <2>2 DEF StreamInv, StreamTypes, Belongs
<1> QED
  BY <1>1, <1>2

-----------------------------------------------------------------------------
(* A stream is in the map only where its send was made, and goes when this   *)
(* ends; only the stream of a new chat's first message, which was moved to   *)
(* the key of the session, may stay behind (the finally clause of            *)
(* sendMessage).                                                             *)
THEOREM OnlyNewChatsLeaveStreams == StreamSpec => []LeftBehind
<1>1. StreamInv => LeftBehind
  BY Distinct DEF StreamInv, StreamTypes, ViewTypes, Placed, LeftBehind
<1> QED
  BY <1>1, StreamStart, StreamStep, PTL DEF StreamSpec

\* No step settles the promise of a send that has its reply by another run's event.
LEMMA OwnStep ==
    StreamInv /\ StreamNext =>
        \A c \in AllCalls :
            call[c].at = "waiting" /\ ss[c].settled = "no" => ss'[c].settled # "other"
<1> SUFFICES ASSUME StreamInv, StreamNext, NEW c \in AllCalls,
                    call[c].at = "waiting", ss[c].settled = "no"
             PROVE  ss'[c].settled # "other"
  OBVIOUS
<1> USE DEF StreamInv, StreamTypes, ViewTypes
<1>1. CASE ss'[c] \in {ss[c], NoStream, NewStream}
  <2>1. NoStream.settled = "no" /\ NewStream.settled = "no"
    BY DEF NoStream, NewStream
  <2> QED
    BY <1>1, <2>1
<1>2. CASE HandleAgentEvent
  <2> DEFINE e == Head(events)
  <2>1. e \in EventSet
    BY <1>2 DEF HandleAgentEvent, WireTypes
  <2>2. SUFFICES ASSUME streams[e.session] = c, Passes(e), ss'[c].settled = By(c, e)
                 PROVE  ss'[c].settled # "other"
    BY <1>2, EventSettles
  <2>3. ss[c].runId \in {None, e.run} /\ ss[c].runId \in {c, Queued}
    BY <2>2, Distinct DEF Passes, Named
  <2>4. e.run = c
    BY <2>1, <2>3, Distinct DEF EventSet
  <2> QED
    BY <2>2, <2>4 DEF By
<1>3. ASSUME NEW k \in Keys, Teardown(k) PROVE ss'[c].settled # "other"
  <2>1. CASE streams[k] = None
    BY <1>3, <2>1 DEF Teardown
  <2>2. CASE streams[k] # None
    <3> DEFINE s == streams[k]
    <3>1. s \in AllCalls
      BY <2>2
    <3>2. Resolved(s, "stop") \in StreamStates /\ ss[s] \in StreamStates
          /\ Resolved(s, "stop").settled \in {ss[s].settled, "stop"}
      BY <3>1, Settling
    <3>3. [IF ss[s].resolve THEN Resolved(s, "stop") ELSE ss[s]
             EXCEPT !.timer = FALSE].settled \in {ss[s].settled, "stop"}
      BY <3>2 DEF StreamStates
    <3> QED
      BY <1>3, <2>2, <3>1, <3>3 DEF Teardown
  <2> QED
    BY <2>1, <2>2
<1>4. ASSUME NEW d \in AllCalls, GraceExpires(d) PROVE ss'[c].settled # "other"
  <2>1. /\ Resolved(d, "own") \in StreamStates /\ ss[d] \in StreamStates
        /\ Resolved(d, "own").settled \in {ss[d].settled, "own"}
    BY Settling
  <2>2. /\ [Resolved(d, "own") EXCEPT !.grace = FALSE].settled \in {ss[d].settled, "own"}
        /\ [ss[d] EXCEPT !.grace = FALSE].settled = ss[d].settled
    BY <2>1 DEF StreamStates
  <2> QED
    BY <1>4, <2>2 DEF GraceExpires
<1>5. ASSUME NEW d \in AllCalls, TimesOut(d) PROVE ss'[c].settled # "other"
  BY <1>5 DEF TimesOut, Settle, StreamStates
<1>6. ASSUME NEW d \in AllCalls, HandleSendResult(d) PROVE ss'[c].settled # "other"
  BY <1>6 DEF HandleSendResult, StreamStates
<1>7. ASSUME NEW d \in AllCalls, CheckIdle(d) \/ QueueMessage(d) \/ Acknowledge(d) \/ EngineNext(d)
      PROVE  ss' = ss
  BY <1>7 DEF CheckIdle, QueueMessage, Acknowledge, EngineNext, EngineChatSend,
              EngineChatSendFails, WarnOfBudget, RunEnds, RunBreaksOff, Cleanup, RunGoes, viewVars
<1>8. ASSUME NEW d \in AllCalls, SendFails(d) \/ Finish(d)
      PROVE  ss'[c] \in {ss[c], NoStream}
  BY <1>8 DEF SendFails, Finish, End
<1>9. ASSUME NEW d \in AllCalls, NEW to, Show(d, to)
      PROVE  ss'[c] \in {ss[c], NewStream}
  BY <1>9 DEF Show
<1>10. CASE InboxNewChat \/ \E s \in Sessions : EngineChatAbort(s)
  BY <1>10, <1>1 DEF InboxNewChat, EngineChatAbort, viewVars
<1>11. CASE Stop \/ SwitchSession
  BY <1>11, <1>3 DEF Stop, SwitchSession
<1>12. CASE HandleQueueReady
  BY <1>12, <1>9, <1>1 DEF HandleQueueReady
<1>13. ASSUME NEW d \in AllCalls,
             CheckIdle(d) \/ QueueMessage(d) \/ CallNext(d) \/ EngineNext(d) \/ TimesOut(d)
               \/ GraceExpires(d)
       PROVE  ss'[c].settled # "other"
  BY <1>13, <1>1, <1>4, <1>5, <1>6, <1>7, <1>8, <1>9 DEF CallNext, ShowAndSend
<1> QED
  BY <1>2, <1>10, <1>11, <1>12, <1>13 DEF StreamNext

\* Once the reply to its send is in, no event of another run ends the wait: the id the
\* reply brings is compared with that of each event (handleAgentEvent).
THEOREM OnlyOwnRunEnds == StreamSpec => OwnRunEnds
<1>1. StreamInv /\ [StreamNext]_streamVars =>
        [\A c \in AllCalls :
             call[c].at = "waiting" /\ ss[c].settled = "no" => ss'[c].settled # "other"]_streamVars
  BY OwnStep
<1> QED
  BY <1>1, StreamStart, StreamStep, PTL DEF StreamSpec, OwnRunEnds
=============================================================================
