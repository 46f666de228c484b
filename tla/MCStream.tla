------------------------------ MODULE MCStream ------------------------------
(* Constant values for the runs of ChatStream alone: two sessions, one of   *)
(* them stored at first, two calls, and one move of the user.               *)
EXTENDS ChatStream

CONSTANTS a, b

BothSessions == {a, b}
FirstSession == {a}
=============================================================================
