--------------------------- MODULE MCPolicyDaemon ---------------------------
(* Instances of PolicyDaemon for TLC. *)
EXTENDS PolicyDaemon
=============================================================================
