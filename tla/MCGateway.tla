----------------------------- MODULE MCGateway -----------------------------
(* Small instances of Gateway.                                               *)
EXTENDS Gateway

CONSTANTS t1, plan1

MCPolicies == {}
MCBudget == [limit |-> 6, ceiling |-> None, reserve |-> 1]
=============================================================================
