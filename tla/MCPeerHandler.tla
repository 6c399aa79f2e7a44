--------------------------- MODULE MCPeerHandler ---------------------------
(* Instances of PeerHandler for TLC. *)
EXTENDS PeerHandler

MCPorts == {1, 2, 3}
=============================================================================
