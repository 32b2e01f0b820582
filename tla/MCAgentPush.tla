---------------------------- MODULE MCAgentPush ----------------------------
(* One path with a few lines, all different.                                *)
EXTENDS AgentPush

CONSTANT p

Two   == [q \in {p} |-> <<"a", "b">>]
Three == [q \in {p} |-> <<"a", "b", "c">>]
=============================================================================
