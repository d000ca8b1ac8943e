-------------------------------- MODULE Sums --------------------------------
(***************************************************************************)
(* The SUM of a column over the first N rows of a table.  A recursive      *)
(* function, no RECURSIVE operator, so that modules with proofs can use it.*)
(***************************************************************************)
EXTENDS Integers

\* f[1] + ... + f[N], 0 for an empty table.
SumOf(f, N) ==
  LET S[n \in 0..N] == IF n = 0 THEN 0 ELSE S[n - 1] + f[n]
  IN  S[N]
=============================================================================
