---------------------------- MODULE MCChatSession ----------------------------
(* ChatSession for TLC: one turn has ended, the others meet. *)
EXTENDS ChatSession

CONSTANTS t1, t2

Before == <<t1>>

AnswerOfT2 == {Msg(t2, "answer")}
=============================================================================
