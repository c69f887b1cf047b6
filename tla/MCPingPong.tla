------------------------------ MODULE MCPingPong ------------------------------
(* Calls of the run of PingPong. *)
EXTENDS PingPong

Even == {2, 4}
=============================================================================
