----------------------------- MODULE MCAgentLoop ----------------------------
(* One Turn with a question in front of a call, or two calls. *)
EXTENDS AgentLoop

MCBatches == {<<"act">>, <<"ask", "act">>}
=============================================================================
