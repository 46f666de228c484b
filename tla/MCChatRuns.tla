----------------------------- MODULE MCChatRuns -----------------------------
(* Constant values for the model-checking runs of ChatRuns. *)
EXTENDS ChatRuns, TLC

CONSTANTS r1, r2, r3, s1, s2

ThreeRequests == {r1, r2, r3}
TwoRequests   == {r1, r2}
OneSession    == {s1}
TwoSessions   == {s1, s2}
AllViews      == {s1, s2, None}

\* All requests in one session.
SameSession == [r \in Requests |-> s1]
\* Two requests share a session, the third has the other.
SplitSession == [r \in Requests |-> IF r = r3 THEN s2 ELSE s1]

\* Requests of one session are interchangeable.
RequestSymmetry == Permutations(Requests)
=============================================================================
