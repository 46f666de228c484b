----------------------------- MODULE SwarmWakes -----------------------------
(***************************************************************************)
(* The budget of squads: every broadcast wakes the members of its squad,   *)
(* who may broadcast in turn.  A wake is checked against the limit of the  *)
(* squad and of all squads, then claimed from a global counter and from   *)
(* that of the squad, each step under a lock of its own or none; and each  *)
(* chat message of the user resets all counters, one after the other.      *)
(***************************************************************************)
EXTENDS Naturals, FiniteSets

CONSTANTS
    Squads,
    Members,            \* members of each squad
    Broadcasters,               \* agent runs that may broadcast at the same time
    Sends,              \* chat messages that reset the counters
    WakesPerMember,     \* WAKES_PER_MEMBER
    SquadCap,           \* MAX_SWARM_WAKES_CAP
    GlobalCap,          \* MAX_GLOBAL_SWARM_WAKES
    UnknownSize,        \* the size wake_limit assumes
    Nobody              \* no run, no squad, no entry in a map

ASSUME SwarmAssumption ==
    /\ IsFiniteSet(Broadcasters)
    /\ Members \in [Squads -> Nat \ {0}]
    /\ WakesPerMember \in Nat /\ UnknownSize \in Nat
    /\ SquadCap \in Nat \ {0} /\ GlobalCap \in Nat
    /\ Nobody \notin Squads /\ Nobody \notin Sends /\ Nobody \notin Nat

VARIABLES
    counters,           \* SWARM_COUNTERS: per squad, or no entry
    global,             \* GLOBAL_SWARM_COUNTER
    sizes,              \* SQUAD_MEMBER_COUNT: per squad, or no entry
    waker,              \* each run: where it is, its squad, the wakes yet to try
    send,               \* each chat message: where reset_all_counters is
    countersLock,       \* the reset that holds the lock of SWARM_COUNTERS
    woken               \* history: turns spawned since the global counter was reset

swarmVars == <<counters, global, sizes, waker, send, countersLock, woken>>

Count(s) == IF counters[s] = Nobody THEN 0 ELSE counters[s]

\* The most wakes a squad of that size may have.
LimitFor(size) ==
    IF size * WakesPerMember <= SquadCap THEN size * WakesPerMember ELSE SquadCap
WakeLimit(s) == LimitFor(IF sizes[s] = Nobody THEN UnknownSize ELSE sizes[s])

NotBroadcasting == [at |-> "idle", squad |-> Nobody, left |-> 0, limit |-> 0]
WakeAt(r, stage) == waker' = [waker EXCEPT ![r] = [@ EXCEPT !.at = stage]]

\* The next recipient, or the end of the broadcast.
NextRecipient(r) ==
    waker' = [waker EXCEPT ![r] =
              IF @.left > 1
              THEN [at |-> "check", squad |-> @.squad, left |-> @.left - 1, limit |-> 0]
              ELSE NotBroadcasting]

SwarmInit ==
    /\ counters = [s \in Squads |-> Nobody]
    /\ global = 0
    /\ sizes = [s \in Squads |-> Nobody]
    /\ waker = [r \in Broadcasters |-> NotBroadcasting]
    /\ send = [m \in Sends |-> "new"]
    /\ countersLock = Nobody
    /\ woken = 0

-----------------------------------------------------------------------------
(* A broadcast wakes everybody but its sender, who need not be a member *)

Broadcast(r, s) ==
    /\ waker[r].at = "idle"
    /\ sizes' = [sizes EXCEPT ![s] = Members[s]]
    /\ \E others \in {Members[s] - 1, Members[s]} \ {0} :
         waker' = [waker EXCEPT ![r] =
                     [at |-> "check", squad |-> s, left |-> others, limit |-> 0]]
    /\ UNCHANGED <<counters, global, send, countersLock, woken>>

CheckGlobal(r) ==
    /\ waker[r].at = "check"
    /\ IF global >= GlobalCap THEN NextRecipient(r) ELSE WakeAt(r, "limit")
    /\ UNCHANGED <<counters, global, sizes, send, countersLock, woken>>

ReadLimit(r) ==
    /\ waker[r].at = "limit"
    /\ waker' = [waker EXCEPT ![r] =
                    [@ EXCEPT !.at = "compare", !.limit = WakeLimit(waker[r].squad)]]
    /\ UNCHANGED <<counters, global, sizes, send, countersLock, woken>>

CompareAtMost(r) ==
    /\ waker[r].at = "compare"
    /\ countersLock = Nobody
    /\ IF counters[waker[r].squad] = Nobody \/ Count(waker[r].squad) <= waker[r].limit
       THEN WakeAt(r, "claim") ELSE NextRecipient(r)
    /\ UNCHANGED <<counters, global, sizes, send, countersLock, woken>>

CompareLimit(r) ==
    /\ waker[r].at = "compare"
    /\ countersLock = Nobody
    /\ IF counters[waker[r].squad] = Nobody \/ Count(waker[r].squad) < waker[r].limit
       THEN WakeAt(r, "claim") ELSE NextRecipient(r)
    /\ UNCHANGED <<counters, global, sizes, send, countersLock, woken>>

\* The compare-and-exchange takes the last place for one run only.
ClaimWake(r) ==
    /\ waker[r].at = "claim"
    /\ IF global >= GlobalCap
       THEN NextRecipient(r) /\ UNCHANGED global
       ELSE global' = global + 1 /\ WakeAt(r, "count")
    /\ UNCHANGED <<counters, sizes, send, countersLock, woken>>

\* The squad's counter goes up, and the member's turn is spawned: it is a run
\* that may broadcast.
CountWake(r) ==
    /\ waker[r].at = "count"
    /\ countersLock = Nobody
    /\ counters' = [counters EXCEPT ![waker[r].squad] = Count(waker[r].squad) + 1]
    /\ woken' = woken + 1
    /\ NextRecipient(r)
    /\ UNCHANGED <<global, sizes, send, countersLock>>

-----------------------------------------------------------------------------
(* reset_all_counters, at the start of engine_chat_send *)

ResetGlobal(m) ==
    /\ send[m] = "new"
    /\ global' = 0
    /\ woken' = 0
    /\ send' = [send EXCEPT ![m] = "global"]
    /\ UNCHANGED <<counters, sizes, waker, countersLock>>

ResetCounters(m) ==
    /\ send[m] = "global"
    /\ countersLock = Nobody
    /\ counters' = [s \in Squads |-> Nobody]
    /\ countersLock' = m
    /\ send' = [send EXCEPT ![m] = "counters"]
    /\ UNCHANGED <<global, sizes, waker, woken>>

ResetSizes(m) ==
    /\ send[m] = "counters"
    /\ sizes' = [s \in Squads |-> Nobody]
    /\ countersLock' = Nobody
    /\ send' = [send EXCEPT ![m] = "done"]
    /\ UNCHANGED <<counters, global, waker, woken>>

-----------------------------------------------------------------------------
SwarmNext ==
    \/ \E r \in Broadcasters :
         \/ \E s \in Squads : Broadcast(r, s)
         \/ CheckGlobal(r) \/ ReadLimit(r) \/ CompareLimit(r)
         \/ ClaimWake(r) \/ CountWake(r)
    \/ \E m \in Sends : ResetGlobal(m) \/ ResetCounters(m) \/ ResetSizes(m)

SwarmSpec == SwarmInit /\ [][SwarmNext]_swarmVars

-----------------------------------------------------------------------------
WakerStates ==
    [at : {"idle", "check", "limit", "compare", "claim", "count"},
     squad : Squads \cup {Nobody}, left : Nat, limit : Nat]

SwarmTypeOK ==
    /\ counters \in [Squads -> Nat \cup {Nobody}]
    /\ global \in Nat
    /\ sizes \in [Squads -> Nat \cup {Nobody}]
    /\ waker \in [Broadcasters -> WakerStates]
    /\ \A r \in Broadcasters : waker[r].at # "idle" => waker[r].squad \in Squads
    /\ send \in [Sends -> {"new", "global", "counters", "done"}]
    /\ countersLock \in Sends \cup {Nobody}
    /\ woken \in Nat

\* Broadcasters past the check of a squad's limit that have yet to count their wake.
Passing(s) == {r \in Broadcasters : waker[r].squad = s /\ waker[r].at \in {"claim", "count"}}

(* Between two messages of the user no more turns are spawned than the      *)
(* global ceiling allows, but for those claimed before the first message    *)
(* and spawned after it: at most one for each run.                          *)
WakesCapped == woken <= GlobalCap + Cardinality(Broadcasters)

(* Runs that are past the check do not see one another, but they are the    *)
(* only excess: the wakes of a squad, counted and about to be, exceed the   *)
(* cap by less than the number of runs.                                     *)
SquadOvershoot ==
    \A s \in Squads :
        Count(s) + Cardinality(Passing(s)) <= (SquadCap - 1) + Cardinality(Broadcasters)
=============================================================================
