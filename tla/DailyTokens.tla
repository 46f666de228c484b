---------------------------- MODULE DailyTokens ----------------------------
(***************************************************************************)
(* DailyTokenTracker: what all runs of a day have spent, shared by chats,  *)
(* tasks, channels and swarms.  The date has a lock, the counters are      *)
(* atomics of their own; each operation first looks whether the day has    *)
(* changed and, if so, zeroes the counters one by one under the lock of    *)
(* the date.  A run checks the budget before each call of its model and    *)
(* records what the call cost after it.                                    *)
(***************************************************************************)
EXTENDS Naturals, Sequences, FiniteSets

CONSTANTS
    Spenders,           \* agent runs
    Fields,         \* the counters, in the order record adds to them
    CostAt,         \* the position of cost_microdollars, which is checked
    Costs,          \* what a call may cost
    MaxCost,        \* the most it may cost
    Budget,         \* daily_budget_usd
    Levels,         \* spendings that are warned of, highest first
    LastDay,        \* bound on the days that pass
    NoSpender

ASSUME TokenAssumption ==
    /\ IsFiniteSet(Spenders) /\ NoSpender \notin Spenders
    /\ Fields \in Nat \ {0} /\ CostAt \in 1..Fields
    /\ MaxCost \in Nat /\ Costs \subseteq 0..MaxCost
    /\ Budget \in Nat \ {0} /\ LastDay \in Nat
    /\ Levels \in Seq(Nat)

VARIABLES
    today,          \* the UTC date
    date,           \* tracker.date
    dateLock,       \* the run that holds its lock
    spent,          \* the counters
    warned,         \* warnings_emitted
    round,          \* each run: where it is and what it holds
    owed,           \* history: what records of tracker.date have added to each counter
    wentBack        \* history: the date was set back

tokenVars == <<today, date, dateLock, spent, warned, round, owed, wentBack>>

\* op is the operation maybe_reset is called for, day what that read of the clock.
NoRound == [at |-> "idle", op |-> "none", day |-> 0, field |-> 1, cost |-> 0, usd |-> 0]
Update(r, new) == round' = [round EXCEPT ![r] = new]
Begin(r, op) == Update(r, [round[r] EXCEPT !.at = "day", !.op = op])

TokensInit ==
    /\ today = 0 /\ date = 0
    /\ dateLock = NoSpender
    /\ spent = [f \in 1..Fields |-> 0]
    /\ warned = {}
    /\ round = [r \in Spenders |-> NoRound]
    /\ owed = spent
    /\ wentBack = FALSE

Midnight ==
    /\ today < LastDay
    /\ today' = today + 1
    /\ UNCHANGED <<date, dateLock, spent, warned, round, owed, wentBack>>

-----------------------------------------------------------------------------
(* maybe_reset *)

\* The day is read before the lock is taken.
ReadDay(r) ==
    /\ round[r].at = "day"
    /\ Update(r, [round[r] EXCEPT !.at = "lock", !.day = today])
    /\ UNCHANGED <<today, date, dateLock, spent, warned, owed, wentBack>>

\* What the operation does once the date is settled.
Body(op) == IF op = "record" THEN "add" ELSE "load"

SameDay(r) ==
    /\ round[r].at = "lock" /\ dateLock = NoSpender
    /\ date = round[r].day
    /\ Update(r, [round[r] EXCEPT !.at = Body(round[r].op), !.field = 1])
    /\ UNCHANGED <<today, date, dateLock, spent, warned, owed, wentBack>>

NewDayUnlocked(r) ==
    /\ round[r].at = "lock" /\ dateLock = NoSpender
    /\ date # round[r].day
    /\ date' = round[r].day
    /\ owed' = [f \in 1..Fields |-> 0]
    /\ wentBack' = (wentBack \/ round[r].day < date)
    /\ Update(r, [round[r] EXCEPT !.at = "zero", !.field = 1])
    /\ UNCHANGED <<today, dateLock, spent, warned>>

NewDay(r) ==
    /\ round[r].at = "lock" /\ dateLock = NoSpender
    /\ date # round[r].day
    /\ date' = round[r].day
    /\ dateLock' = r
    /\ owed' = [f \in 1..Fields |-> 0]
    /\ wentBack' = (wentBack \/ round[r].day < date)
    /\ Update(r, [round[r] EXCEPT !.at = "zero", !.field = 1])
    /\ UNCHANGED <<today, spent, warned>>

Zero(r) ==
    /\ round[r].at = "zero"
    /\ round[r].field <= Fields
    /\ spent' = [spent EXCEPT ![round[r].field] = 0]
    /\ Update(r, [round[r] EXCEPT !.field = @ + 1])
    /\ UNCHANGED <<today, date, dateLock, warned, owed, wentBack>>

ClearWarnings(r) ==
    /\ round[r].at = "zero"
    /\ round[r].field > Fields
    /\ warned' = {}
    /\ dateLock' = NoSpender
    /\ Update(r, [round[r] EXCEPT !.at = Body(round[r].op), !.field = 1])
    /\ UNCHANGED <<today, date, spent, owed, wentBack>>

-----------------------------------------------------------------------------
(* A round of a run: check_budget, the model, record, check_budget_warning *)

StartRound(r) ==
    /\ round[r].at = "idle"
    /\ Begin(r, "check")
    /\ UNCHANGED <<today, date, dateLock, spent, warned, owed, wentBack>>

\* Over budget the run ends; else its model is called.
LoadForCheckBeyond(r) ==
    /\ round[r].at = "load" /\ round[r].op = "check"
    /\ Update(r, IF spent[CostAt] > Budget THEN NoRound ELSE [round[r] EXCEPT !.at = "model"])
    /\ UNCHANGED <<today, date, dateLock, spent, warned, owed, wentBack>>

LoadForCheck(r) ==
    /\ round[r].at = "load" /\ round[r].op = "check"
    /\ Update(r, IF spent[CostAt] >= Budget THEN NoRound ELSE [round[r] EXCEPT !.at = "model"])
    /\ UNCHANGED <<today, date, dateLock, spent, warned, owed, wentBack>>

\* The call fails, and the run ends with nothing recorded.
ModelFails(r) ==
    /\ round[r].at = "model"
    /\ Update(r, NoRound)
    /\ UNCHANGED <<today, date, dateLock, spent, warned, owed, wentBack>>

ModelReturns(r, cost) ==
    /\ round[r].at = "model"
    /\ Update(r, [round[r] EXCEPT !.at = "day", !.op = "record", !.cost = cost])
    /\ UNCHANGED <<today, date, dateLock, spent, warned, owed, wentBack>>

Add(r) ==
    LET f == round[r].field IN
    /\ round[r].at = "add"
    /\ spent' = [spent EXCEPT ![f] = @ + round[r].cost]
    /\ owed' = IF round[r].day = date THEN [owed EXCEPT ![f] = @ + round[r].cost] ELSE owed
    /\ IF f < Fields THEN Update(r, [round[r] EXCEPT !.field = @ + 1]) ELSE Begin(r, "warn")
    /\ UNCHANGED <<today, date, dateLock, warned, wentBack>>

LoadForWarning(r) ==
    /\ round[r].at = "load" /\ round[r].op = "warn"
    /\ Update(r, [round[r] EXCEPT !.at = "warn", !.usd = spent[CostAt]])
    /\ UNCHANGED <<today, date, dateLock, spent, warned, owed, wentBack>>

\* The highest level reached that was not warned of yet, and the next round.
Warn(r) ==
    LET due == {i \in 1..Len(Levels) : round[r].usd >= Levels[i] /\ i \notin warned} IN
    /\ round[r].at = "warn"
    /\ warned' = warned \cup {i \in due : \A j \in due : i <= j}
    /\ Update(r, NoRound)
    /\ UNCHANGED <<today, date, dateLock, spent, owed, wentBack>>

-----------------------------------------------------------------------------
TokensNext ==
    \/ Midnight
    \/ \E r \in Spenders :
         \/ ReadDay(r) \/ SameDay(r) \/ NewDay(r) \/ Zero(r) \/ ClearWarnings(r)
         \/ StartRound(r) \/ LoadForCheck(r) \/ ModelFails(r)
         \/ \E cost \in Costs : ModelReturns(r, cost)
         \/ Add(r) \/ LoadForWarning(r) \/ Warn(r)

TokensSpec == TokensInit /\ [][TokensNext]_tokenVars

-----------------------------------------------------------------------------
RoundStates ==
    [at : {"idle", "day", "lock", "zero", "load", "model", "add", "warn"},
     op : {"none", "check", "record", "warn"}, day : Nat, field : 1..(Fields + 1),
     cost : 0..MaxCost, usd : Nat]

TokensTypeOK ==
    /\ today \in Nat /\ date \in Nat
    /\ dateLock \in Spenders \cup {NoSpender}
    /\ spent \in [1..Fields -> Nat] /\ owed \in [1..Fields -> Nat]
    /\ warned \subseteq 1..Len(Levels)
    /\ round \in [Spenders -> RoundStates]
    /\ wentBack \in BOOLEAN

(* What was recorded on the day of the tracker is in its counters: a reset  *)
(* under way never wipes what a run of the new day adds, unless a run that  *)
(* read the clock before midnight has set the date back.                    *)
TodayIsCounted == ~ wentBack => \A f \in 1..Fields : spent[f] >= owed[f]

\* Spenders past the check of the budget that have yet to add their cost.
Spending ==
    {r \in Spenders :
        \/ round[r].at = "model"
        \/ round[r].op = "record" /\ round[r].at \in {"day", "lock", "zero"}
        \/ round[r].at = "add" /\ round[r].field <= CostAt}

(* The budget is overrun by no more than one call of each run, calls under  *)
(* way at their highest cost included.                                      *)
OvershootBounded ==
    spent[CostAt] + MaxCost * Cardinality(Spending)
        <= (Budget - 1) + MaxCost * Cardinality(Spenders)
=============================================================================
