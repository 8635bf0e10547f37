------------------------------ MODULE MCAgents ------------------------------
\* A group with a chat and a task series, a worker without a session yet, and
\* a third group.
EXTENDS Agents

CONSTANTS A, B, C, a1, a2, b, c

MCGroupOf == (a1 :> A) @@ (a2 :> A) @@ (b :> B) @@ (c :> C)
MCKnown == {<<A, B>>, <<B, A>>, <<C, B>>}
MCPolicies == {<<B, A>>}
MCOldest == <<a1, c, a2, b>>
=============================================================================
