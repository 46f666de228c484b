--------------------------- MODULE CircuitBreaker ---------------------------
(***************************************************************************)
(* The circuit breaker of a provider and the requests that share it: two   *)
(* atomics, the count of consecutive failures and the time of the trip,    *)
(* written and read one after the other without a lock.  A request asks    *)
(* the breaker once, then sends up to MaxRetries + 1 attempts and records  *)
(* what becomes of each.                                                   *)
(***************************************************************************)
EXTENDS Naturals

CONSTANTS
    Requests,       \* agents that send one request after the other
    Threshold,      \* threshold
    Cooldown,       \* cooldown_secs
    MaxRetries      \* MAX_RETRIES

ASSUME BreakerAssumption ==
    Threshold \in Nat \ {0} /\ Cooldown \in Nat \ {0} /\ MaxRetries \in Nat

VARIABLES
    failures,       \* consecutive_failures, up to Threshold: above it nothing differs
    trip,           \* tripped_at as its age in seconds, up to Cooldown, or Never for 0
    req,            \* each request: where it is, its attempt, the age of the time it holds
    torn            \* history: a success erased the trip of failures that came after it

breakerVars == <<failures, trip, req, torn>>

Never == Cooldown + 1
Ages == 0..Never
Older(age) == IF age < Cooldown THEN age + 1 ELSE age
Capped(n) == IF n <= Threshold THEN n ELSE Threshold

NoRequest == [at |-> "idle", attempt |-> 0, age |-> 0]
RequestAt(r, stage) == req' = [req EXCEPT ![r] = [@ EXCEPT !.at = stage]]
RequestDone(r) == req' = [req EXCEPT ![r] = NoRequest]

BreakerInit ==
    /\ failures = 0
    /\ trip = Never
    /\ req = [r \in Requests |-> NoRequest]
    /\ torn = FALSE

-----------------------------------------------------------------------------
(* check *)

ReadFailures(r) ==
    /\ req[r].at = "idle"
    /\ RequestAt(r, IF failures < Threshold THEN "send" ELSE "read_trip")
    /\ UNCHANGED <<failures, trip, torn>>

ReadTrip(r) ==
    /\ req[r].at = "read_trip"
    /\ req' = [req EXCEPT ![r] = [@ EXCEPT !.at = "read_clock", !.age = trip]]
    /\ UNCHANGED <<failures, trip, torn>>

\* Any request that comes after the cooldown is let through as a probe.
Probe(r) ==
    /\ req[r].at = "read_clock"
    /\ req[r].age >= Cooldown
    /\ RequestAt(r, "send")
    /\ UNCHANGED <<failures, trip, torn>>

RefuseAndRecord(r) ==
    /\ req[r].at = "read_clock"
    /\ req[r].age < Cooldown
    /\ trip' = 0
    /\ RequestDone(r)
    /\ UNCHANGED <<failures, torn>>

Refuse(r) ==
    /\ req[r].at = "read_clock"
    /\ req[r].age < Cooldown
    /\ RequestDone(r)
    /\ UNCHANGED <<failures, trip, torn>>

-----------------------------------------------------------------------------
(* The attempts of a request *)

Retry(r) ==
    req' = [req EXCEPT ![r] = [at |-> "send", attempt |-> @.attempt + 1, age |-> 0]]

\* The next attempt, or the end: an error that is not retried, or retries used up.
AfterFailure(r) == (req[r].attempt < MaxRetries /\ Retry(r)) \/ RequestDone(r)

\* A stream that breaks off, or a schema error: neither success nor failure.
FailUnrecorded(r) ==
    /\ req[r].at = "send"
    /\ AfterFailure(r)
    /\ UNCHANGED <<failures, trip, torn>>

\* record_failure
CountFailureLate(r) ==
    /\ req[r].at = "send"
    /\ failures' = Capped(failures + 1)
    /\ IF failures >= Threshold THEN RequestAt(r, "stamp") ELSE AfterFailure(r)
    /\ UNCHANGED <<trip, torn>>

CountFailure(r) ==
    /\ req[r].at = "send"
    /\ failures' = Capped(failures + 1)
    /\ IF failures + 1 >= Threshold THEN RequestAt(r, "stamp") ELSE AfterFailure(r)
    /\ UNCHANGED <<trip, torn>>

ReadClock(r) ==
    /\ req[r].at = "stamp"
    /\ req' = [req EXCEPT ![r] = [@ EXCEPT !.at = "store", !.age = 0]]
    /\ UNCHANGED <<failures, trip, torn>>

StoreTrip(r) ==
    /\ req[r].at = "store"
    /\ trip' = req[r].age
    /\ torn' = FALSE
    /\ AfterFailure(r)
    /\ UNCHANGED failures

\* record_success
ZeroFailures(r) ==
    /\ req[r].at = "send"
    /\ failures' = 0
    /\ torn' = FALSE
    /\ RequestAt(r, "zero_trip")
    /\ UNCHANGED trip

ZeroTrip(r) ==
    /\ req[r].at = "zero_trip"
    /\ trip' = Never
    /\ torn' = (failures >= Threshold)
    /\ RequestDone(r)
    /\ UNCHANGED failures

\* A second passes, also between two steps of a request.
Tick ==
    /\ trip' = Older(trip)
    /\ req' = [r \in Requests |-> [req[r] EXCEPT !.age = Older(@)]]
    /\ UNCHANGED <<failures, torn>>

-----------------------------------------------------------------------------
RequestStep(r) ==
    \/ ReadFailures(r) \/ ReadTrip(r) \/ Probe(r) \/ Refuse(r)
    \/ FailUnrecorded(r) \/ CountFailure(r) \/ ReadClock(r) \/ StoreTrip(r)
    \/ ZeroFailures(r) \/ ZeroTrip(r)

BreakerNext == Tick \/ \E r \in Requests : RequestStep(r)

BreakerFairness == WF_breakerVars(Tick) /\ \A r \in Requests : WF_breakerVars(RequestStep(r))

BreakerSpec == BreakerInit /\ [][BreakerNext]_breakerVars
FairBreakerSpec == BreakerSpec /\ BreakerFairness

-----------------------------------------------------------------------------
RequestStates ==
    [at : {"idle", "read_trip", "read_clock", "send", "stamp", "store", "zero_trip"},
     attempt : 0..MaxRetries, age : Ages]

BreakerTypeOK ==
    /\ failures \in 0..Threshold
    /\ trip \in Ages
    /\ req \in [Requests -> RequestStates]
    /\ torn \in BOOLEAN

(* Once the threshold is reached the breaker is tripped, or a request is    *)
(* about to trip it, however failures and successes of other requests       *)
(* interleave, unless a success that began before those failures erased     *)
(* the trip after them.                                                     *)
ThresholdTrips ==
    failures >= Threshold /\ ~ torn =>
        trip # Never \/ \E r \in Requests : req[r].at \in {"stamp", "store"}

(* The breaker never refuses for ever: as requests keep coming, again and   *)
(* again one is let through, although attempts still under way may trip it  *)
(* anew at any time.                                                        *)
RefusalsEnd == []<>(\E r \in Requests : req[r].at = "send")
=============================================================================
