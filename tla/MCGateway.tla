------------------------------ MODULE MCGateway ------------------------------
EXTENDS Gateway
\* w1 is v1 with other weights.
XmlDigest == [v1 |-> "x1", w1 |-> "x1", v2 |-> "x2"]
AllProcesses == DOMAIN Main
AllModels == UNION {{h.stages[k].model : k \in DOMAIN h.stages} : h \in UNION {Main[p].jobs : p \in AllProcesses}}
=============================================================================
