----------------------------- MODULE Sums_proofs -----------------------------
(***************************************************************************)
(* Facts about sums over a table, for tables of any length.  The induction *)
(* is over sets of naturals: a set that contains 0 and is closed under     *)
(* successor has no least number outside it.  Partial sums are shown to    *)
(* exist that way, so that the recursive function of SumOf is one of them. *)
(* Then sums of a function over a finite set (SumOver): what they are      *)
(* of the empty set, of one more point, of disjoint parts, and how they    *)
(* compare.                                                                *)
(***************************************************************************)
EXTENDS Sums, FiniteSetTheorems, WellFoundedInduction, TLAPS

\* Induction over a set of naturals: there is no least number outside it.
LEMMA SetInduction ==
  ASSUME NEW S, 0 \in S, \A n \in Nat : n \in S => n + 1 \in S
  PROVE  Nat \subseteq S
<1> DEFINE T == Nat \ S
<1>1. SUFFICES ASSUME T # {} PROVE FALSE
  OBVIOUS
<1>2. PICK x \in T : \A y \in T : ~ (<<y, x>> \in OpToRel(<, Nat))
  <2>1. T \subseteq Nat
    OBVIOUS
  <2> HIDE DEF T
  <2> QED
    BY <1>1, <2>1, NatLessThanWellFounded, WFMin
<1>3. x # 0 /\ x \in Nat
  OBVIOUS
<1>4. x - 1 \in Nat /\ x - 1 \notin T
  <2>1. OpToRel(<, Nat) = {ss \in Nat \X Nat : ss[1] < ss[2]}
    BY Zenon DEF OpToRel
  <2>2. \A y \in Nat : y < x => <<y, x>> \in {ss \in Nat \X Nat : ss[1] < ss[2]}
    BY <1>3
  <2>3. \A y \in T : <<y, x>> \notin {ss \in Nat \X Nat : ss[1] < ss[2]}
    BY <1>2, <2>1, Zenon
  <2>4. \A y \in Nat : y < x => y \notin T
    BY <2>2, <2>3, Zenon
  <2> HIDE DEF T
  <2> QED
    BY <1>3, <2>4
<1>5. (x - 1) + 1 \in S
  BY <1>4
<1> QED
  BY <1>3, <1>5

\* A bounded set of naturals has a greatest element.
LEMMA Greatest ==
  ASSUME NEW n \in Nat, NEW S \in SUBSET (0..n), S # {}
  PROVE  \E m \in S : \A s \in S : s <= m
<1> DEFINE T == {k \in Nat : \A R \in SUBSET (0..k) : R # {} => \E m \in R : \A s \in R : s <= m}
<1>1. 0 \in T
  <2> SUFFICES ASSUME NEW R \in SUBSET (0..0), R # {} PROVE \E m \in R : \A s \in R : s <= m
    OBVIOUS
  <2>1. \A x \in R : x = 0
    OBVIOUS
  <2>2. PICK m \in R : TRUE
    OBVIOUS
  <2>3. \A s \in R : s <= m
    BY <2>1
  <2> QED
    BY <2>3
<1>2. \A k \in Nat : k \in T => k + 1 \in T
  <2> SUFFICES ASSUME NEW k \in Nat, k \in T, NEW R \in SUBSET (0..(k + 1)), R # {}
               PROVE  \E m \in R : \A s \in R : s <= m
    OBVIOUS
  <2>1. CASE k + 1 \in R
    BY <2>1
  <2>2. CASE k + 1 \notin R
    <3>1. R \in SUBSET (0..k)
      BY <2>2
    <3> QED
      BY <3>1
  <2> QED
    BY <2>1, <2>2
<1> HIDE DEF T
<1>3. n \in T
  BY <1>1, <1>2, SetInduction
<1> QED
  BY <1>3 DEF T

\* The partial sums a definition of SumOf chooses.
IsPartial(S, f, N) == S = [n \in 0..N |-> IF n = 0 THEN 0 ELSE S[n - 1] + f[n]]
Partial(f, N) == CHOOSE S : IsPartial(S, f, N)

\* A table of partial sums can be extended by one row.
LEMMA PartialExtends ==
  ASSUME NEW f, NEW n \in Nat, NEW S, IsPartial(S, f, n)
  PROVE  \E R : IsPartial(R, f, n + 1)
<1> DEFINE R == [m \in 0..(n + 1) |-> IF m = n + 1 THEN S[n] + f[n + 1] ELSE S[m]]
<1>0. \A m \in 0..n : S[m] = IF m = 0 THEN 0 ELSE S[m - 1] + f[m]
  BY DEF IsPartial
<1>1. \A m \in 0..(n + 1) : R[m] = IF m = 0 THEN 0 ELSE R[m - 1] + f[m]
  <2> SUFFICES ASSUME NEW m \in 0..(n + 1)
               PROVE  R[m] = IF m = 0 THEN 0 ELSE R[m - 1] + f[m]
    OBVIOUS
  <2>1. CASE m = n + 1
    BY <2>1
  <2>2. CASE m # n + 1 /\ m # 0
    <3>1. m \in 0..n /\ m - 1 \in 0..(n + 1) /\ m - 1 # n + 1
      BY <2>2
    <3>2. R[m] = S[m] /\ R[m - 1] = S[m - 1]
      BY <2>2, <3>1
    <3> QED
      BY <1>0, <2>2, <3>1, <3>2
  <2>3. CASE m = 0
    BY <1>0, <2>3
  <2> QED
    BY <2>1, <2>2, <2>3
<1>2. R = [m \in 0..(n + 1) |-> R[m]]
  OBVIOUS
<1> HIDE DEF R
<1>3. IsPartial(R, f, n + 1)
  BY <1>1, <1>2 DEF IsPartial
<1> QED
  BY <1>3

\* Partial sums exist for every length.
LEMMA PartialExists ==
  ASSUME NEW f, NEW N \in Nat
  PROVE  \E S : IsPartial(S, f, N)
<1> DEFINE T == {n \in Nat : \E S : IsPartial(S, f, n)}
<1>1. 0 \in T
  <2>1. IsPartial([n \in 0..0 |-> 0], f, 0)
    BY DEF IsPartial
  <2> QED
    BY <2>1
<1>2. \A n \in Nat : n \in T => n + 1 \in T
  BY PartialExtends
<1> HIDE DEF T
<1>3. Nat \subseteq T
  BY <1>1, <1>2, SetInduction
<1> QED
  BY <1>3 DEF T

\* The function SumOf chooses is one of partial sums.
LEMMA PartialIs ==
  ASSUME NEW f, NEW N \in Nat
  PROVE  IsPartial(Partial(f, N), f, N) /\ SumOf(f, N) = Partial(f, N)[N]
<1>1. IsPartial(Partial(f, N), f, N)
  BY PartialExists, Zenon DEF Partial
<1>2. SumOf(f, N) = Partial(f, N)[N]
  BY DEF SumOf, Partial, IsPartial
<1> QED
  BY <1>1, <1>2

\* The recursion equation of the partial sums.
LEMMA PartialAt ==
  ASSUME NEW f, NEW N \in Nat
  PROVE  /\ Partial(f, N)[0] = 0
         /\ \A n \in 1..N : Partial(f, N)[n] = Partial(f, N)[n - 1] + f[n]
<1> DEFINE P == Partial(f, N)
<1>1. P = [n \in 0..N |-> IF n = 0 THEN 0 ELSE P[n - 1] + f[n]]
  BY PartialIs DEF IsPartial
<1> HIDE DEF P
<1>2. P[0] = 0 /\ \A n \in 1..N : P[n] = P[n - 1] + f[n]
  BY <1>1
<1> QED
  BY <1>2 DEF P

-----------------------------------------------------------------------------
\* A sum of integers is an integer.
LEMMA SumInt ==
  ASSUME NEW N \in Nat, NEW f, \A i \in 1..N : f[i] \in Int
  PROVE  SumOf(f, N) \in Int
<1> DEFINE P == Partial(f, N)
           T == {n \in Nat : n <= N => P[n] \in Int}
<1>1. P[0] = 0 /\ \A n \in 1..N : P[n] = P[n - 1] + f[n]
  BY PartialAt
<1> HIDE DEF P
<1>2. 0 \in T
  BY <1>1
<1>3. \A n \in Nat : n \in T => n + 1 \in T
  <2> SUFFICES ASSUME NEW n \in Nat, n \in T, n + 1 <= N PROVE P[n + 1] \in Int
    OBVIOUS
  <2>1. n + 1 \in 1..N /\ (n + 1) - 1 = n /\ P[n] \in Int
    OBVIOUS
  <2> QED
    BY <1>1, <2>1
<1> HIDE DEF T
<1>4. N \in T
  BY <1>2, <1>3, SetInduction
<1> QED
  BY <1>4, PartialIs DEF T, P

\* Summand by summand: a comparison carries over to the sums.
LEMMA SumMonotone ==
  ASSUME NEW N \in Nat, NEW f, NEW g,
         \A i \in 1..N : f[i] \in Int /\ g[i] \in Int /\ f[i] <= g[i]
  PROVE  SumOf(f, N) <= SumOf(g, N)
<1> DEFINE P == Partial(f, N)
           Q == Partial(g, N)
           T == {n \in Nat : n <= N => P[n] \in Int /\ Q[n] \in Int /\ P[n] <= Q[n]}
<1>1. /\ P[0] = 0 /\ \A n \in 1..N : P[n] = P[n - 1] + f[n]
      /\ Q[0] = 0 /\ \A n \in 1..N : Q[n] = Q[n - 1] + g[n]
  BY PartialAt
<1> HIDE DEF P, Q
<1>2. 0 \in T
  BY <1>1
<1>3. \A n \in Nat : n \in T => n + 1 \in T
  <2> SUFFICES ASSUME NEW n \in Nat, n \in T, n + 1 <= N
               PROVE  P[n + 1] \in Int /\ Q[n + 1] \in Int /\ P[n + 1] <= Q[n + 1]
    OBVIOUS
  <2>1. n + 1 \in 1..N /\ (n + 1) - 1 = n /\ P[n] \in Int /\ Q[n] \in Int /\ P[n] <= Q[n]
    OBVIOUS
  <2> QED
    BY <1>1, <2>1
<1> HIDE DEF T
<1>4. N \in T
  BY <1>2, <1>3, SetInduction
<1> QED
  BY <1>4, PartialIs DEF T, P, Q

\* The sum of the sums is the sum.
LEMMA SumPlus ==
  ASSUME NEW N \in Nat, NEW f, NEW g, NEW h,
         \A i \in 1..N : f[i] \in Int /\ g[i] \in Int /\ h[i] = f[i] + g[i]
  PROVE  SumOf(h, N) = SumOf(f, N) + SumOf(g, N)
<1> DEFINE P == Partial(f, N)
           Q == Partial(g, N)
           R == Partial(h, N)
           T == {n \in Nat : n <= N => P[n] \in Int /\ Q[n] \in Int /\ R[n] = P[n] + Q[n]}
<1>1. /\ P[0] = 0 /\ \A n \in 1..N : P[n] = P[n - 1] + f[n]
      /\ Q[0] = 0 /\ \A n \in 1..N : Q[n] = Q[n - 1] + g[n]
      /\ R[0] = 0 /\ \A n \in 1..N : R[n] = R[n - 1] + h[n]
  BY PartialAt
<1> HIDE DEF P, Q, R
<1>2. 0 \in T
  BY <1>1
<1>3. \A n \in Nat : n \in T => n + 1 \in T
  <2> SUFFICES ASSUME NEW n \in Nat, n \in T, n + 1 <= N
               PROVE  /\ P[n + 1] \in Int /\ Q[n + 1] \in Int
                      /\ R[n + 1] = P[n + 1] + Q[n + 1]
    OBVIOUS
  <2>1. n + 1 \in 1..N /\ (n + 1) - 1 = n /\ P[n] \in Int /\ Q[n] \in Int /\ R[n] = P[n] + Q[n]
    OBVIOUS
  <2>2. f[n + 1] \in Int /\ g[n + 1] \in Int /\ h[n + 1] = f[n + 1] + g[n + 1]
    BY <2>1
  <2>3. /\ P[n + 1] = P[n] + f[n + 1] /\ Q[n + 1] = Q[n] + g[n + 1]
        /\ R[n + 1] = R[n] + h[n + 1]
    BY <1>1, <2>1
  <2> QED
    BY <2>1, <2>2, <2>3
<1> HIDE DEF T
<1>4. N \in T
  BY <1>2, <1>3, SetInduction
<1> QED
  BY <1>4, PartialIs DEF T, P, Q, R

\* A sum of which all summands but the k-th are zero.
LEMMA SumSingle ==
  ASSUME NEW N \in Nat, NEW f, NEW k \in 1..N, f[k] \in Int,
         \A i \in 1..N : i # k => f[i] = 0
  PROVE  SumOf(f, N) = f[k]
<1> DEFINE P == Partial(f, N)
           T == {n \in Nat : n <= N => P[n] = IF n < k THEN 0 ELSE f[k]}
<1>1. P[0] = 0 /\ \A n \in 1..N : P[n] = P[n - 1] + f[n]
  BY PartialAt
<1> HIDE DEF P
<1>2. 0 \in T
  BY <1>1
<1>3. \A n \in Nat : n \in T => n + 1 \in T
  <2> SUFFICES ASSUME NEW n \in Nat, n \in T, n + 1 <= N
               PROVE  P[n + 1] = IF n + 1 < k THEN 0 ELSE f[k]
    OBVIOUS
  <2>1. n + 1 \in 1..N /\ (n + 1) - 1 = n /\ P[n] = IF n < k THEN 0 ELSE f[k]
    OBVIOUS
  <2>2. P[n + 1] = P[n] + f[n + 1]
    BY <1>1, <2>1
  <2>3. f[n + 1] = IF n + 1 = k THEN f[k] ELSE 0
    BY <2>1
  <2> QED
    BY <2>1, <2>2, <2>3
<1> HIDE DEF T
<1>4. N \in T
  BY <1>2, <1>3, SetInduction
<1> QED
  BY <1>4, PartialIs DEF T, P

\* Nothing adds up to nothing.
LEMMA SumZero ==
  ASSUME NEW N \in Nat, NEW f, \A i \in 1..N : f[i] = 0
  PROVE  SumOf(f, N) = 0
<1>1. \A i \in 1..N : f[i] \in Int /\ f[i] = f[i] + f[i]
  OBVIOUS
<1>2. SumOf(f, N) \in Int
  BY <1>1, SumInt
<1>3. SumOf(f, N) = SumOf(f, N) + SumOf(f, N)
  BY <1>1, SumPlus, Zenon
<1>4. \A s \in Int : s = s + s => s = 0
  OBVIOUS
<1> QED
  BY <1>2, <1>3, <1>4, Zenon

\* A sum of naturals is a natural.
LEMMA SumNat ==
  ASSUME NEW N \in Nat, NEW f, \A i \in 1..N : f[i] \in Nat
  PROVE  SumOf(f, N) \in Nat
<1> DEFINE z == [i \in 1..N |-> 0]
<1>1. \A i \in 1..N : z[i] = 0
  OBVIOUS
<1> HIDE DEF z
<1>2. SumOf(z, N) = 0
  BY <1>1, SumZero
<1>3. SumOf(z, N) <= SumOf(f, N) /\ SumOf(f, N) \in Int
  BY <1>1, SumMonotone, SumInt
<1> QED
  BY <1>2, <1>3

\* One summand grows by at most d, the others do not grow.
LEMMA SumGrows ==
  ASSUME NEW N \in Nat, NEW f, NEW g, NEW k \in 1..N, NEW d \in Int,
         \A i \in 1..N : f[i] \in Int /\ g[i] \in Int /\ (i # k => g[i] <= f[i]),
         g[k] <= f[k] + d
  PROVE  SumOf(g, N) <= SumOf(f, N) + d
<1> DEFINE one == [i \in 1..N |-> IF i = k THEN d ELSE 0]
           up  == [i \in 1..N |-> f[i] + one[i]]
<1>1. /\ \A i \in 1..N : one[i] \in Int /\ (i # k => one[i] = 0)
      /\ one[k] = d
  OBVIOUS
<1>2. \A i \in 1..N : up[i] = f[i] + one[i]
  OBVIOUS
<1> HIDE DEF one, up
<1>3. \A i \in 1..N : up[i] \in Int /\ g[i] <= up[i]
  BY <1>1, <1>2
<1>4. SumOf(one, N) = d
  BY <1>1, SumSingle
<1>5. SumOf(up, N) = SumOf(f, N) + SumOf(one, N)
  BY <1>1, <1>2, SumPlus
<1>6. SumOf(g, N) <= SumOf(up, N)
  BY <1>3, SumMonotone
<1> QED
  BY <1>4, <1>5, <1>6

-----------------------------------------------------------------------------
(* Finite sets: induction, and the last element of an order.               *)

\* What holds of nothing and is kept by one more element holds of every subset.
LEMMA FiniteInduction ==
  ASSUME NEW S, IsFiniteSet(S), NEW C, {} \in C,
         \A D \in SUBSET S : \A x \in S \ D : D \in C => D \cup {x} \in C
  PROVE  \A D \in SUBSET S : D \in C
<1> DEFINE T == {n \in Nat : \A D \in SUBSET S : Cardinality(D) = n => D \in C}
<1>0. \A D \in SUBSET S : IsFiniteSet(D) /\ Cardinality(D) \in Nat
  BY FS_Subset, FS_CardinalityType
<1>1. 0 \in T
  BY <1>0, FS_EmptySet
<1>2. \A n \in Nat : n \in T => n + 1 \in T
  <2> SUFFICES ASSUME NEW n \in Nat, n \in T, NEW D \in SUBSET S, Cardinality(D) = n + 1
               PROVE  D \in C
    OBVIOUS
  <2>1. D # {}
    BY FS_EmptySet
  <2>2. PICK x \in D : TRUE
    BY <2>1
  <2>3. D \ {x} \in SUBSET S /\ x \in S \ (D \ {x}) /\ (D \ {x}) \cup {x} = D
    OBVIOUS
  <2>4. Cardinality(D \ {x}) = n
    BY <1>0, FS_RemoveElement
  <2>5. D \ {x} \in C
    BY <2>3, <2>4
  <2> QED
    BY <2>3, <2>5
<1> HIDE DEF T
<1>3. Nat \subseteq T
  BY <1>1, <1>2, SetInduction
<1> QED
  BY <1>0, <1>3 DEF T

\* A finite set has a last element in every order that compares any two of its
\* elements.
LEMMA FiniteLast ==
  ASSUME NEW S, IsFiniteSet(S), S # {}, NEW R,
         \A x, y \in S : x # y => <<x, y>> \in R \/ <<y, x>> \in R,
         \A x, y, z \in S : <<x, y>> \in R /\ <<y, z>> \in R => <<x, z>> \in R
  PROVE  \E x \in S : \A y \in S \ {x} : <<y, x>> \in R
<1> DEFINE C == {D \in SUBSET S : D # {} => \E x \in D : \A y \in D \ {x} : <<y, x>> \in R}
<1>1. {} \in C
  OBVIOUS
<1>2. \A D \in SUBSET S : \A x \in S \ D : D \in C => D \cup {x} \in C
  <2> SUFFICES ASSUME NEW D \in SUBSET S, NEW x \in S \ D, D \in C
               PROVE  \E z \in D \cup {x} : \A y \in (D \cup {x}) \ {z} : <<y, z>> \in R
    OBVIOUS
  <2>1. CASE D = {}
    BY <2>1
  <2>2. CASE D # {}
    <3>1. PICK m \in D : \A y \in D \ {m} : <<y, m>> \in R
      BY <2>2
    <3>2. CASE <<x, m>> \in R
      BY <3>1, <3>2
    <3>3. CASE <<m, x>> \in R
      BY <3>1, <3>3
    <3> QED
      BY <3>2, <3>3
  <2> QED
    BY <2>1, <2>2
<1> HIDE DEF C
<1>3. S \in C
  BY <1>1, <1>2, FiniteInduction
<1> QED
  BY <1>3 DEF C

LEMMA FiniteImage ==
  ASSUME NEW S, IsFiniteSet(S), NEW f, NEW T, T = {f[x] : x \in S}
  PROVE  IsFiniteSet(T)
<1> DEFINE C == {D \in SUBSET S : IsFiniteSet({f[x] : x \in D})}
<1>1. {} \in C
  <2>1. {f[x] : x \in {}} = {}
    OBVIOUS
  <2> QED
    BY <2>1, FS_EmptySet
<1>2. ASSUME NEW D \in SUBSET S, NEW y \in S \ D, D \in C PROVE D \cup {y} \in C
  <2>1. PICK A, B : A = {f[x] : x \in D} /\ B = {f[x] : x \in D \cup {y}}
    OBVIOUS
  <2>2. B = A \cup {f[y]}
    BY <2>1
  <2>3. IsFiniteSet(A)
    BY <1>2, <2>1
  <2>4. IsFiniteSet(B)
    BY <2>2, <2>3, FS_AddElement
  <2> QED
    BY <2>1, <2>4
<1> HIDE DEF C
<1>3. S \in C
  BY <1>1, <1>2, FiniteInduction
<1> QED
  BY <1>3 DEF C

\* An order in which the elements of subsets of S are taken, the last one first.
Picks(last, S) == \A D \in SUBSET S : D # {} => last[D] \in D

\* What one more element keeps.
Closed(last, S, C) == \A D \in SUBSET S : D # {} /\ D \ {last[D]} \in C => D \in C

\* The same, the last element being taken away.
LEMMA FoldInduction ==
  ASSUME NEW S, IsFiniteSet(S), NEW C, {} \in C, NEW last, Picks(last, S), Closed(last, S, C)
  PROVE  \A D \in SUBSET S : D \in C
<1> DEFINE T == {n \in Nat : \A D \in SUBSET S : Cardinality(D) = n => D \in C}
<1>0. \A D \in SUBSET S : IsFiniteSet(D) /\ Cardinality(D) \in Nat
  BY FS_Subset, FS_CardinalityType
<1>1. 0 \in T
  BY <1>0, FS_EmptySet
<1>2. \A n \in Nat : n \in T => n + 1 \in T
  <2> SUFFICES ASSUME NEW n \in Nat, n \in T, NEW D \in SUBSET S, Cardinality(D) = n + 1
               PROVE  D \in C
    OBVIOUS
  <2>1. D # {}
    BY FS_EmptySet
  <2>2. last[D] \in D
    BY <2>1 DEF Picks
  <2>3. D \ {last[D]} \in SUBSET S /\ Cardinality(D \ {last[D]}) = n
    BY <1>0, <2>2, FS_RemoveElement
  <2>4. D \ {last[D]} \in C
    BY <2>3
  <2> QED
    BY <2>1, <2>4 DEF Closed
<1> HIDE DEF T
<1>3. Nat \subseteq T
  BY <1>1, <1>2, SetInduction
<1> QED
  BY <1>0, <1>3 DEF T

Maps(g, V, S) == \A v \in V : \A x \in S : g[<<v, x>>] \in V

\* The values of the fold of g over the subsets of S.
IsFold(f, S, V, base, last, g) ==
  /\ f = [D \in SUBSET S |-> f[D]]
  /\ \A D \in SUBSET S :
       /\ f[D] \in V
       /\ f[D] = IF D = {} THEN base ELSE g[<<f[D \ {last[D]}], last[D]>>]

\* A fold over a finite set is defined, whatever order it takes the elements in.
LEMMA FoldExists ==
  ASSUME NEW S, IsFiniteSet(S), NEW V, NEW base \in V, NEW last, NEW g, Picks(last, S),
         Maps(g, V, S)
  PROVE  \E f : IsFold(f, S, V, base, last, g)
<1> DEFINE Rec(f, D) == IF D = {} THEN base ELSE g[<<f[D \ {last[D]}], last[D]>>]
           Upto(f, n) == \A D \in SUBSET S : Cardinality(D) <= n => f[D] = Rec(f, D) /\ f[D] \in V
           Is(f) == f = [D \in SUBSET S |-> f[D]]
           T == {n \in Nat : \E f : Is(f) /\ Upto(f, n)}
<1>a. \A D \in SUBSET S : IsFiniteSet(D) /\ Cardinality(D) \in Nat
  BY FS_Subset, FS_CardinalityType
<1>b. \A D \in SUBSET S : Cardinality(D) <= 0 => D = {}
  BY <1>a, FS_EmptySet
<1>c. ASSUME NEW D \in SUBSET S, D # {}
      PROVE  last[D] \in S /\ D \ {last[D]} \in SUBSET S /\ Cardinality(D \ {last[D]}) = Cardinality(D) - 1
  <2>1. last[D] \in D
    BY <1>c DEF Picks
  <2> QED
    BY <1>a, <2>1, FS_RemoveElement
<1>1. 0 \in T
  <2> DEFINE f == [D \in SUBSET S |-> base]
  <2>1. \A D \in SUBSET S : f[D] = base
    OBVIOUS
  <2>2. Is(f)
    OBVIOUS
  <2> HIDE DEF f
  <2>4. Upto(f, 0)
    BY <2>1, <1>b
  <2> QED
    BY <2>2, <2>4
<1>2. \A n \in Nat : n \in T => n + 1 \in T
  <2> SUFFICES ASSUME NEW n \in Nat, n \in T PROVE n + 1 \in T
    OBVIOUS
  <2>1. PICK f : Is(f) /\ Upto(f, n)
    OBVIOUS
  <2> DEFINE h == [D \in SUBSET S |-> Rec(f, D)]
  <2>2. \A D \in SUBSET S : h[D] = Rec(f, D)
    OBVIOUS
  <2>3. Is(h)
    OBVIOUS
  <2> HIDE DEF h
  <2>4. ASSUME NEW D \in SUBSET S, Cardinality(D) <= n + 1 PROVE h[D] = Rec(h, D) /\ h[D] \in V
    <3>1. CASE D = {}
      BY <3>1, <2>2
    <3>2. CASE D # {}
      <4>1. last[D] \in S /\ D \ {last[D]} \in SUBSET S /\ Cardinality(D \ {last[D]}) <= n
        <5>1. Cardinality(D) \in Nat
          BY <1>a
        <5> QED
          BY <1>c, <2>4, <3>2, <5>1
      <4>2. PICK E : E = D \ {last[D]}
        OBVIOUS
      <4>3. f[E] = Rec(f, E) /\ f[E] \in V /\ h[E] = Rec(f, E)
        BY <2>1, <2>2, <4>1, <4>2
      <4>4. h[D] = g[<<f[E], last[D]>>]
        BY <2>2, <3>2, <4>2
      <4> HIDE DEF Rec
      <4>5. h[E] = f[E]
        BY <4>3
      <4>6. h[D] \in V
        BY <4>1, <4>3, <4>4 DEF Maps
      <4> QED
        BY <3>2, <4>2, <4>4, <4>5, <4>6 DEF Rec
    <3> QED
      BY <3>1, <3>2
  <2>5. Upto(h, n + 1)
    BY <2>4
  <2>6. n + 1 \in Nat
    OBVIOUS
  <2> HIDE DEF Upto, Is
  <2> QED
    BY <2>3, <2>5, <2>6
<1> HIDE DEF T
<1>d. Cardinality(S) \in Nat /\ \A D \in SUBSET S : Cardinality(D) <= Cardinality(S)
  BY <1>a, FS_Subset
<1>3. Cardinality(S) \in T
  BY <1>d, <1>1, <1>2, SetInduction
<1>4. PICK f : Is(f) /\ Upto(f, Cardinality(S))
  BY <1>3 DEF T
<1>6. \A D \in SUBSET S : f[D] = Rec(f, D) /\ f[D] \in V
  BY <1>4, <1>d
<1> QED
  BY <1>4, <1>6 DEF IsFold

-----------------------------------------------------------------------------
(* Sums over finite sets. *)

One(D) == CHOOSE x \in D : TRUE

IsSums(F, f, S) == F = [D \in SUBSET S |-> IF D = {} THEN 0 ELSE f[One(D)] + F[D \ {One(D)}]]
AllSums(f, S) == CHOOSE F : IsSums(F, f, S)

Ints(f, S) == IsFiniteSet(S) /\ \A x \in S : f[x] \in Int

LEMMA SumsExist ==
  ASSUME NEW f, NEW S, Ints(f, S)
  PROVE  \E F : IsSums(F, f, S) /\ \A D \in SUBSET S : F[D] \in Int
<1> DEFINE last == [D \in SUBSET S |-> One(D)]
           g == [q \in Int \X S |-> f[q[2]] + q[1]]
<1>1. Picks(last, S)
  BY DEF One, Picks
<1>2. \A v \in Int : \A x \in S : g[<<v, x>>] = f[x] + v
  OBVIOUS
<1> HIDE DEF g
<1>3. Maps(g, Int, S)
  <2>1. ASSUME NEW v \in Int, NEW x \in S PROVE g[<<v, x>>] \in Int
    <3>1. f[x] \in Int
      BY DEF Ints
    <3> QED
      BY <1>2, <3>1
  <2> QED
    BY <2>1 DEF Maps
<1>4. \A D \in SUBSET S : last[D] = One(D)
  OBVIOUS
<1> HIDE DEF last, g
<1>50. PICK F : IsFold(F, S, Int, 0, last, g)
  BY <1>1, <1>3, FoldExists DEF Ints
<1>5. /\ F = [D \in SUBSET S |-> F[D]]
      /\ \A D \in SUBSET S :
           /\ F[D] \in Int
           /\ F[D] = IF D = {} THEN 0 ELSE g[<<F[D \ {last[D]}], last[D]>>]
  BY <1>50 DEF IsFold
<1>6. ASSUME NEW D \in SUBSET S PROVE F[D] = IF D = {} THEN 0 ELSE f[One(D)] + F[D \ {One(D)}]
  <2>1. CASE D = {}
    BY <1>5, <2>1
  <2>2. CASE D # {}
    <3>1. One(D) \in S /\ D \ {One(D)} \in SUBSET S
      BY <1>1, <1>4, <2>2 DEF Picks
    <3>2. F[D \ {One(D)}] \in Int
      BY <1>5, <3>1
    <3>3. F[D] = g[<<F[D \ {One(D)}], One(D)>>]
      BY <1>4, <1>5, <2>2
    <3> QED
      BY <1>2, <2>2, <3>1, <3>2, <3>3
  <2> QED
    BY <2>1, <2>2
<1>7. IsSums(F, f, S)
  BY <1>5, <1>6 DEF IsSums
<1> QED
  BY <1>5, <1>7

SameOn(F, G, R) == \A D \in SUBSET R : F[D] = G[D]

\* Two tables of sums over nested sets agree, and taking any one element away takes
\* its value away.
LEMMA SumsAgree ==
  ASSUME NEW f, NEW S, NEW R, R \subseteq S, IsFiniteSet(S), NEW F, NEW G, IsSums(F, f, S), IsSums(G, f, R)
  PROVE  SameOn(F, G, R)
<1> DEFINE last == [D \in SUBSET S |-> One(D)]
           C == {D \in SUBSET R : F[D] = G[D]}
<1>1. /\ Picks(last, R) /\ \A D \in SUBSET R : last[D] = One(D)
  BY DEF One, Picks
<1>2. IsFiniteSet(R)
  BY FS_Subset
<1>3. {} \in C
  BY DEF IsSums
<1>4. ASSUME NEW D \in SUBSET R, D # {}, D \ {One(D)} \in C PROVE D \in C
  <2>1. F[D] = f[One(D)] + F[D \ {One(D)}] /\ G[D] = f[One(D)] + G[D \ {One(D)}]
    BY <1>4 DEF IsSums
  <2> QED
    BY <1>4, <2>1
<1> HIDE DEF C, last
<1>5. Closed(last, R, C)
  BY <1>1, <1>4 DEF Closed
<1>6. \A D \in SUBSET R : D \in C
  BY <1>1, <1>2, <1>3, <1>5, FoldInduction
<1> QED
  BY <1>6 DEF C, SameOn

\* Any element may be taken away first.
Splits(F, f, D) == \A x \in D : F[D] = f[x] + F[D \ {x}]
IntValued(F, S) == \A D \in SUBSET S : F[D] \in Int

LEMMA SumsAny ==
  ASSUME NEW f, NEW S, Ints(f, S), NEW F, IsSums(F, f, S), IntValued(F, S)
  PROVE  \A D \in SUBSET S : Splits(F, f, D)
<1> DEFINE T == {n \in Nat : \A D \in SUBSET S : Cardinality(D) = n => Splits(F, f, D)}
<1>0. \A D \in SUBSET S : IsFiniteSet(D) /\ Cardinality(D) \in Nat
  BY FS_Subset, FS_CardinalityType DEF Ints
<1>a. ASSUME NEW D \in SUBSET S, D # {}
      PROVE  One(D) \in D /\ F[D] = f[One(D)] + F[D \ {One(D)}]
  BY <1>a DEF IsSums, One
<1>1. 0 \in T
  <2>1. \A D \in SUBSET S : Cardinality(D) = 0 => D = {}
    BY <1>0, FS_EmptySet
  <2> QED
    BY <2>1 DEF Splits
<1>2. ASSUME NEW n \in Nat, n \in T PROVE n + 1 \in T
  <2>1. ASSUME NEW D \in SUBSET S, Cardinality(D) = n + 1, NEW x \in D
        PROVE  F[D] = f[x] + F[D \ {x}]
    <3>1. PICK c : c = One(D)
      OBVIOUS
    <3>2. c \in D /\ F[D] = f[c] + F[D \ {c}]
      BY <1>a, <3>1
    <3>3. CASE x = c
      BY <3>2, <3>3
    <3>4. CASE x # c
      <4>1. /\ D \ {c} \in SUBSET S /\ Cardinality(D \ {c}) = n /\ x \in D \ {c}
            /\ D \ {x} \in SUBSET S /\ Cardinality(D \ {x}) = n /\ c \in D \ {x}
        BY <1>0, <2>1, <3>2, <3>4, FS_RemoveElement
      <4>2. PICK E : E = (D \ {c}) \ {x}
        OBVIOUS
      <4>3. E = (D \ {x}) \ {c} /\ E \in SUBSET S
        BY <4>2
      <4>4. F[D \ {c}] = f[x] + F[E]
        BY <1>2, <4>1, <4>2 DEF Splits
      <4>5. F[D \ {x}] = f[c] + F[E]
        BY <1>2, <4>1, <4>3 DEF Splits
      <4>6. F[E] \in Int /\ f[x] \in Int /\ f[c] \in Int
        BY <3>2, <4>3 DEF Ints, IntValued
      <4> HIDE DEF T
      <4> QED
        BY <3>2, <4>4, <4>5, <4>6
    <3> QED
      BY <3>3, <3>4
  <2>2. \A D \in SUBSET S : Cardinality(D) = n + 1 => Splits(F, f, D)
    BY <2>1 DEF Splits
  <2>3. n + 1 \in Nat
    OBVIOUS
  <2> QED
    BY <2>2, <2>3
<1> HIDE DEF T
<1>3. Nat \subseteq T
  BY <1>1, <1>2, SetInduction
<1> QED
  BY <1>0, <1>3 DEF T

\* The sum of f over S: nothing adds up to 0, and an element taken away takes its
\* value with it.
SumOver(f, S) == AllSums(f, S)[S]

LEMMA SumIsAt ==
  ASSUME NEW f, NEW S, Ints(f, S)
  PROVE  SumOver(f, S) = AllSums(f, S)[S] /\ IsSums(AllSums(f, S), f, S)
<1>1. SumOver(f, S) = AllSums(f, S)[S]
  BY DEF SumOver
<1>2. IsSums(AllSums(f, S), f, S)
  BY SumsExist, Zenon DEF AllSums
<1> QED
  BY <1>1, <1>2

LEMMA SumIs ==
  ASSUME NEW f, NEW S, Ints(f, S)
  PROVE  /\ SumOver(f, S) \in Int
         /\ S = {} => SumOver(f, S) = 0
         /\ \A x \in S : SumOver(f, S) = f[x] + SumOver(f, S \ {x})
<1>1. PICK F : F = AllSums(f, S)
  OBVIOUS
<1>2. IsSums(F, f, S) /\ SumOver(f, S) = F[S]
  BY <1>1, SumIsAt
<1>3. PICK G : IsSums(G, f, S) /\ IntValued(G, S)
  BY SumsExist DEF IntValued
<1>f. IsFiniteSet(S) /\ S \subseteq S
  BY DEF Ints
<1>4. SameOn(F, G, S)
  BY <1>2, <1>3, <1>f, SumsAgree
<1>5. IntValued(F, S)
  BY <1>3, <1>4 DEF IntValued, SameOn
<1>6. Splits(F, f, S)
  BY <1>2, <1>5, <1>f, SumsAny
<1>7. ASSUME NEW x \in S PROVE SumOver(f, S \ {x}) = F[S \ {x}]
  <2>1. PICK R : R = S \ {x}
    OBVIOUS
  <2>2. R \subseteq S /\ Ints(f, R)
    BY <2>1, FS_Subset DEF Ints
  <2>3. PICK H : H = AllSums(f, R)
    OBVIOUS
  <2>4. IsSums(H, f, R) /\ SumOver(f, R) = H[R]
    BY <2>2, <2>3, SumIsAt
  <2>5. SameOn(F, H, R)
    BY <1>2, <1>f, <2>2, <2>4, SumsAgree
  <2> QED
    BY <2>1, <2>4, <2>5 DEF SameOn
<1>8. S = {} => F[S] = 0
  BY <1>2 DEF IsSums
<1>9. F[S] \in Int
  BY <1>5 DEF IntValued
<1> QED
  BY <1>2, <1>6, <1>7, <1>8, <1>9 DEF Splits

\* Adding up the elements one by one.
LEMMA SumAdd ==
  ASSUME NEW f, NEW S, Ints(f, S), NEW x, x \notin S, f[x] \in Int
  PROVE  SumOver(f, S \cup {x}) = f[x] + SumOver(f, S)
<1>1. PICK R : R = S \cup {x}
  OBVIOUS
<1>2. IsFiniteSet(R)
  BY <1>1, FS_AddElement DEF Ints
<1>3. Ints(f, R) /\ x \in R /\ R \ {x} = S
  BY <1>1, <1>2 DEF Ints
<1> QED
  BY <1>1, <1>3, SumIs

\* A sum with larger summands, and more of them, is larger.
Below(f, g, S) == \A x \in S : f[x] <= g[x]
Above0(g, S) == \A x \in S : g[x] >= 0

LEMMA SumSubset ==
  ASSUME NEW f, NEW g, NEW S, NEW R, S \subseteq R, Ints(f, S), Ints(g, R), Below(f, g, S),
         Above0(g, R \ S)
  PROVE  SumOver(f, S) <= SumOver(g, R)
<1> DEFINE C == {D \in SUBSET R : SumOver(f, D \cap S) <= SumOver(g, D)}
<1>0. IsFiniteSet(R)
  BY DEF Ints
<1>a. \A D \in SUBSET R : Ints(g, D) /\ Ints(f, D \cap S)
  BY <1>0, FS_Subset DEF Ints
<1>1. {} \in C
  <2>1. {} \cap S = {} /\ Ints(f, {}) /\ Ints(g, {})
    BY FS_EmptySet DEF Ints
  <2>2. SumOver(f, {}) = 0 /\ SumOver(g, {}) = 0
    BY <2>1, SumIs
  <2> QED
    BY <2>1, <2>2
<1>2. ASSUME NEW D \in SUBSET R, NEW x \in R \ D, D \in C PROVE D \cup {x} \in C
  <2>1. SumOver(g, D \cup {x}) = g[x] + SumOver(g, D) /\ g[x] \in Int
    BY <1>a, SumAdd DEF Ints
  <2>2. SumOver(f, D \cap S) <= SumOver(g, D) /\ SumOver(f, D \cap S) \in Int /\ SumOver(g, D) \in Int
    BY <1>2, <1>a, SumIs
  <2>3. CASE x \in S
    <3>1. PICK E : E = D \cap S
      OBVIOUS
    <3>2. (D \cup {x}) \cap S = E \cup {x} /\ x \notin E /\ Ints(f, E)
      BY <1>2, <1>a, <2>3, <3>1
    <3>3. f[x] \in Int /\ f[x] <= g[x]
      BY <2>3 DEF Ints, Below
    <3>4. SumOver(f, E \cup {x}) = f[x] + SumOver(f, E)
      BY <3>2, <3>3, SumAdd
    <3>5. SumOver(f, E \cup {x}) <= SumOver(g, D \cup {x})
      BY <2>1, <2>2, <3>1, <3>3, <3>4
    <3> QED
      BY <3>2, <3>5
  <2>4. CASE x \notin S
    <3>1. (D \cup {x}) \cap S = D \cap S
      BY <2>4
    <3>2. g[x] >= 0
      BY <2>4, <1>2 DEF Above0
    <3> QED
      BY <2>1, <2>2, <3>1, <3>2
  <2> QED
    BY <2>3, <2>4
<1> HIDE DEF C
<1>3. R \in C
  BY <1>0, <1>1, <1>2, FiniteInduction
<1>4. R \cap S = S
  OBVIOUS
<1> QED
  BY <1>3, <1>4 DEF C

LEMMA SumSame ==
  ASSUME NEW f, NEW g, NEW S, Ints(f, S), \A x \in S : f[x] = g[x]
  PROVE  SumOver(f, S) = SumOver(g, S)
<1>1. Ints(g, S) /\ Below(f, g, S) /\ Below(g, f, S) /\ Above0(g, S \ S) /\ Above0(f, S \ S)
  BY DEF Ints, Below, Above0
<1>2. SumOver(f, S) <= SumOver(g, S)
  BY <1>1, SumSubset
<1>3. SumOver(g, S) <= SumOver(f, S)
  BY <1>1, SumSubset
<1>4. SumOver(f, S) \in Int /\ SumOver(g, S) \in Int
  BY <1>1, SumIs
<1> QED
  BY <1>2, <1>3, <1>4

LEMMA SumPositive ==
  ASSUME NEW g, NEW S, Ints(g, S), Above0(g, S)
  PROVE  SumOver(g, S) \in Nat
<1>1. Ints(g, {}) /\ Below(g, g, {}) /\ Above0(g, S \ {})
  BY FS_EmptySet DEF Ints, Below, Above0
<1>2. SumOver(g, {}) = 0
  BY <1>1, SumIs
<1>3. SumOver(g, {}) <= SumOver(g, S)
  BY <1>1, SumSubset
<1> QED
  BY <1>2, <1>3, SumIs

\* Two parts add up.
LEMMA SumUnion ==
  ASSUME NEW f, NEW S, NEW R, S \cap R = {}, Ints(f, S), Ints(f, R)
  PROVE  SumOver(f, S \cup R) = SumOver(f, S) + SumOver(f, R) /\ Ints(f, S \cup R)
<1> DEFINE C == {D \in SUBSET R : SumOver(f, S \cup D) = SumOver(f, S) + SumOver(f, D)}
<1>0. /\ \A D \in SUBSET R : Ints(f, D) /\ Ints(f, S \cup D)
      /\ IsFiniteSet(R) /\ \A D \in SUBSET R : SumOver(f, D) \in Int
      /\ SumOver(f, S) \in Int
  <2>1. \A D \in SUBSET R : Ints(f, D)
    BY FS_Subset DEF Ints
  <2>2. \A D \in SUBSET R : Ints(f, S \cup D)
    BY <2>1, FS_Union DEF Ints
  <2> QED
    BY <2>1, <2>2, SumIs DEF Ints
<1>1. {} \in C
  <2>1. S \cup {} = S /\ SumOver(f, {}) = 0
    BY <1>0, SumIs
  <2> QED
    BY <1>0, <2>1
<1>2. ASSUME NEW D \in SUBSET R, NEW x \in R \ D, D \in C PROVE D \cup {x} \in C
  <2>1. PICK A : A = S \cup D
    OBVIOUS
  <2>2. S \cup (D \cup {x}) = A \cup {x} /\ x \notin A /\ Ints(f, A) /\ f[x] \in Int
    BY <1>0, <2>1 DEF Ints
  <2>3. SumOver(f, A \cup {x}) = f[x] + SumOver(f, A)
    BY <2>2, SumAdd
  <2>4. SumOver(f, D \cup {x}) = f[x] + SumOver(f, D)
    BY <1>0, <1>2, <2>2, SumAdd
  <2>5. SumOver(f, A) = SumOver(f, S) + SumOver(f, D)
    BY <1>2, <2>1
  <2>6. SumOver(f, D) \in Int /\ SumOver(f, S) \in Int
    BY <1>0
  <2>7. SumOver(f, A \cup {x}) = SumOver(f, S) + SumOver(f, D \cup {x})
    BY <2>2, <2>3, <2>4, <2>5, <2>6
  <2> QED
    BY <2>2, <2>7
<1> HIDE DEF C
<1>3. R \in C
  BY <1>0, <1>1, <1>2, FiniteInduction
<1> QED
  BY <1>0, <1>3 DEF C

LEMMA SumOne ==
  ASSUME NEW f, NEW x, f[x] \in Int
  PROVE  SumOver(f, {x}) = f[x]
<1>1. Ints(f, {}) /\ SumOver(f, {}) = 0
  BY FS_EmptySet, SumIs DEF Ints
<1>2. {} \cup {x} = {x}
  OBVIOUS
<1>3. SumOver(f, {} \cup {x}) = f[x] + SumOver(f, {})
  BY <1>1, SumAdd
<1> QED
  BY <1>1, <1>2, <1>3

\* The elements of S that belong to a group, and to one of several.
Group(o, S, y) == {x \in S : o[x] = y}
Grouped(o, S, R) == {x \in S : o[x] \in R}

LEMMA GroupAdded ==
  ASSUME NEW h, NEW A, NEW k, Ints(h, A), NEW D, NEW y, y \notin D
  PROVE  /\ SumOver(h, Grouped(k, A, D \cup {y}))
               = SumOver(h, Grouped(k, A, D)) + SumOver(h, Group(k, A, y))
         /\ SumOver(h, Grouped(k, A, D)) \in Int /\ SumOver(h, Group(k, A, y)) \in Int
<1>1. PICK U, V : U = Grouped(k, A, D) /\ V = Group(k, A, y)
  OBVIOUS
<1>2. /\ U \subseteq A /\ V \subseteq A /\ U \cap V = {}
      /\ Grouped(k, A, D \cup {y}) = U \cup V
  BY <1>1 DEF Group, Grouped
<1>3. Ints(h, U) /\ Ints(h, V)
  BY <1>2, FS_Subset DEF Ints
<1>4. SumOver(h, U \cup V) = SumOver(h, U) + SumOver(h, V)
  BY <1>2, <1>3, SumUnion
<1>5. SumOver(h, U) \in Int /\ SumOver(h, V) \in Int
  BY <1>3, SumIs
<1> QED
  BY <1>1, <1>2, <1>4, <1>5

\* Two sums compare as the sums of their groups do.
LEMMA GroupsCompare ==
  ASSUME NEW T, IsFiniteSet(T), NEW f, NEW S, Ints(f, S), NEW o, \A x \in S : o[x] \in T,
         NEW g, NEW R, Ints(g, R), NEW q, \A x \in R : q[x] \in T,
         \A y \in T : SumOver(f, Group(o, S, y)) <= SumOver(g, Group(q, R, y))
  PROVE  SumOver(f, S) <= SumOver(g, R)
<1> DEFINE C == {D \in SUBSET T : SumOver(f, Grouped(o, S, D)) <= SumOver(g, Grouped(q, R, D))}
<1>1. {} \in C
  <2>1. Grouped(o, S, {}) = {} /\ Grouped(q, R, {}) = {}
    BY DEF Grouped
  <2>2. SumOver(f, {}) = 0 /\ SumOver(g, {}) = 0
    BY FS_EmptySet, SumIs DEF Ints
  <2> QED
    BY <2>1, <2>2
<1>2. ASSUME NEW D \in SUBSET T, NEW y \in T \ D, D \in C PROVE D \cup {y} \in C
  <2>1. PICK a, b, c, d : /\ a = SumOver(f, Grouped(o, S, D)) /\ b = SumOver(f, Group(o, S, y))
                          /\ c = SumOver(g, Grouped(q, R, D)) /\ d = SumOver(g, Group(q, R, y))
    OBVIOUS
  <2>2. /\ SumOver(f, Grouped(o, S, D \cup {y})) = a + b /\ a \in Int /\ b \in Int
    BY <1>2, <2>1, GroupAdded
  <2>3. /\ SumOver(g, Grouped(q, R, D \cup {y})) = c + d /\ c \in Int /\ d \in Int
    BY <1>2, <2>1, GroupAdded
  <2>4. a <= c /\ b <= d
    BY <1>2, <2>1
  <2> QED
    BY <2>2, <2>3, <2>4
<1> HIDE DEF C
<1>3. T \in C
  BY <1>1, <1>2, FiniteInduction
<1>4. Grouped(o, S, T) = S /\ Grouped(q, R, T) = R
  BY DEF Grouped
<1> QED
  BY <1>3, <1>4 DEF C
=============================================================================
