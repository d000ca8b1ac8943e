--------------------------- MODULE MCSharedBudget ---------------------------
(* Small instances of SharedBudget; each .cfg picks the inputs it needs.     *)
EXTENDS SharedBudget, TLC

CONSTANTS s1, s2, a1, m1, m2, c1

MCOneConfig == {[cap |-> 4, hold |-> 2]}
MCTightConfigs == {[cap |-> 3, hold |-> 1], [cap |-> 2, hold |-> 2]}
MCNoCharges == [k \in ChargeKeys |-> None]
MCEvents == (c1 :> 0)
MCForward == {1}
MCSymmetry == Permutations({m1, m2})
=============================================================================
