--------------------------- MODULE MCThreadContext --------------------------
(* A question in front of a write, a write, a validation. *)
EXTENDS ThreadContext

MCBatches == {<<"ask", "write">>, <<"write">>, <<"check">>}
=============================================================================
