----------------------------- MODULE MCTaskRuns -----------------------------
(* Tasks and agents for the model-checking runs of TaskRuns. *)
EXTENDS TaskRuns

CONSTANTS t, u, a, b, e1, e2

\* Two agents for one task, one of them has another task as well.
Assigned == [x \in Tasks |-> IF x = t THEN <<a, b>> ELSE <<a>>]

Kind(recurring, persistent, triggered) ==
    [recurring |-> recurring, persistent |-> persistent, triggered |-> triggered]
OnceOnly == Kind(FALSE, FALSE, FALSE)
OneKind  == {OnceOnly}
AllKinds == {OnceOnly, Kind(TRUE, FALSE, TRUE), Kind(FALSE, TRUE, FALSE)}
=============================================================================
