------------------------------ MODULE MCServer ------------------------------
(* Instances of Server for TLC. *)
EXTENDS Server

MCAddresses == {"a", "b"}

MCPorts == {1, 2}
=============================================================================
