--------------------------- MODULE MCPolicyHistory ---------------------------
(* Instances of PolicyHistory for TLC. *)
EXTENDS PolicyHistory

CONSTANTS c1
=============================================================================
