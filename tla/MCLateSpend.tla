----------------------------- MODULE MCLateSpend -----------------------------
(* Small instances of LateSpend for TLC. *)
EXTENDS LateSpend, TLC

CONSTANTS s1, a1, t1, t2

MCOneConfig == {[cap |-> 4, hold |-> 1]}
MCNoCharges == [k \in ChargeKeys |-> None]
MCForward == {1}
MCSymmetry == Permutations({t1, t2})
==============================================================================
