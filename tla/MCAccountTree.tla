--------------------------- MODULE MCAccountTree ---------------------------
(* Small instances of AccountTree: a task, its session and the session's agent. *)
EXTENDS AccountTree, TLC

CONSTANTS t1, plan1, session, agent, k1, k2

MCParentOf == session :> t1 @@ agent :> session
MCPayers == session :> {t1} @@ agent :> {session}
MCPolicies == {[limit |-> 2, ceiling |-> None], [limit |-> 1, ceiling |-> None], [limit |-> 2, ceiling |-> 1]}
MCSymmetry == Permutations({k1, k2})
=============================================================================
