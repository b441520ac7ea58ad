--------------------------- MODULE MCPolicyRouting ---------------------------
(* Instances of PolicyRouting for TLC. *)
EXTENDS PolicyRouting

CONSTANTS c1

\* A segment that was removed and has lost its last user is gone: nobody can attach it
\* again, and what it held makes no difference.
LiveMem == <<[s \in Segment |-> IF s = seg \/ Attached(s) THEN mem[s] ELSE ZeroMemory],
             seg, segs, terms, bpc, setterVars, clientVars, ghostVars>>
=============================================================================
