------------------------------ MODULE MCHistory ------------------------------
(* Constant values for the runs of ConversationHistory alone: three          *)
(* questions, turns of one round with two calls, and tools that fail in the  *)
(* same words.                                                               *)
EXTENDS ConversationHistory

CONSTANTS q1, q2, q3

ThreeQuestions == <<q1, q2, q3>>
TwoCalls == {<<2>>}
ToolOutputs == [text : {"ok"}, size : {1, 3}] \cup [text : {"error"}, size : {1}]
=============================================================================
