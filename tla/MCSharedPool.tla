---------------------------- MODULE MCSharedPool ----------------------------
(* A small instance of SharedPool for TLC. *)
EXTENDS SharedPool, TLC

CONSTANTS p1, s1, s2, k1, k2, m1, boot1, boot2, unit1, mark1

\* Two sessions of one principal.
MCTwoSessions ==
  {[principal |-> "alice", session |-> s1], [principal |-> "alice", session |-> s2]}

\* The three ways a caller decides; all pass a session cap.
MCGates ==
  {[source |-> "provider", cap |-> None, sessionCap |-> 2],
   [source |-> "stored", cap |-> None, sessionCap |-> 2],
   [source |-> "local", cap |-> 3, sessionCap |-> 2]}

MCBootOf == (k1 :> boot1) @@ (k2 :> boot2)

MCFewReadings ==
  {[age |-> 0, life |-> 2, used |-> 2, limit |-> 2],
   [age |-> 1, life |-> None, used |-> 1, limit |-> 2]}

\* The keys differ in their boot; the sessions in nothing.
MCSessions == Permutations({s1, s2})
=============================================================================
