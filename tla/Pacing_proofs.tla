--------------------------- MODULE Pacing_proofs ---------------------------
(***************************************************************************)
(* What the pacing controller and the gate's loop around it promise, for   *)
(* any tasks, windows, preferences and traces.                             *)
(*                                                                         *)
(* A pass over the ready tasks (try_admit) is a fold, so what a pass does  *)
(* is shown one task at a time (PassInduction).  So are sums and a         *)
(* bucket's levels, which are folds over the evidence (FoldInduction).     *)
(*                                                                         *)
(* The starts (StartsFitWindows).  The forecast is a search that only      *)
(* moves on and ends at an instant at which no window blocks               *)
(* (SafeAdmitIs); a task that starts takes at that instant the need it was *)
(* looked up with, and no window is the fuller for it than the forecast    *)
(* assumed (StartFits, BlocksMonotone).  The pass keeps what was shown of  *)
(* the starts before (PassOK): the next task is looked up with their holds *)
(* counted.                                                                *)
(*                                                                         *)
(* The books (BooksAgree).  The controller's and the world's agree         *)
(* (Agrees) because a pass starts only tasks that are ready in the         *)
(* controller's books, which are then ready in the world's                 *)
(* (StartsAreReal), and because a completion in the driver's queue is that *)
(* of a task that runs, and the only one of that task (OwesCompletions).   *)
(*                                                                         *)
(* The real starts (RealStartsFitWindows).  What the controller counts is  *)
(* record by record what the world counts or more (Covered): a hold is     *)
(* never less than the estimate (NeedCovers) and a settlement never less   *)
(* than the world's claim; and a window has no less room on the lesser     *)
(* evidence (RoomAbove).  Its last start is never earlier than the real    *)
(* one (Lead), restarts included, so neither is the spacing after it.      *)
(*                                                                         *)
(* The windows' answers (AnswersTrue).  With nothing added a window never  *)
(* has less room at a later instant (RoomLater), and the relief it names   *)
(* is the first with enough (ReliefIs): a period's end, the ageing of the  *)
(* first record whose going suffices, the refill of what is missing.       *)
(*                                                                         *)
(* The instants (InstantsRight).  So the forecast needs two looks          *)
(* (TwoLooks): now, and when the last window that blocks is relieved, and  *)
(* what it names is the first admissible instant (ForecastIs).  While a    *)
(* pass starts nothing it only moves the timer, and a candidate's answer   *)
(* does not depend on the timer (SameAdmit), so the timer ends no later    *)
(* than any candidate's instant (Waits).                                   *)
(***************************************************************************)
EXTENDS PacingDrive, QuotaEvidence, Sums_proofs, FiniteSetTheorems, TLAPS
\* The sums of the model.
LEMMA SumFunctionIs ==
  ASSUME NEW f
  PROVE  SumFunction(f) = SumOver(f, DOMAIN f)
  BY DEF SumFunction, SumFunctionOnSet, FoldFunctionOnSet, MapThenFoldSet, SumOver, AllSums,
         IsSums, One

(* Extremes. *)

LEMMA MaxIs ==
  ASSUME NEW S, IsFiniteSet(S), S # {}, S \subseteq Int
  PROVE  Max(S) \in S /\ \A y \in S : y <= Max(S)
<1> DEFINE R == {q \in S \X S : q[1] <= q[2]}
<1>1. \A x, y \in S : <<x, y>> \in R <=> x <= y
  OBVIOUS
<1> HIDE DEF R
<1>2. \A x, y \in S : x # y => <<x, y>> \in R \/ <<y, x>> \in R
  BY <1>1
<1>3. \A x, y, z \in S : <<x, y>> \in R /\ <<y, z>> \in R => <<x, z>> \in R
  BY <1>1
<1>4. PICK x \in S : \A y \in S \ {x} : <<y, x>> \in R
  BY <1>2, <1>3, FiniteLast
<1>5. \A y \in S : x >= y
  <2> TAKE y \in S
  <2>1. x \in Int /\ y \in Int
    OBVIOUS
  <2>2. x = y \/ y <= x
    BY <1>1, <1>4
  <2> QED
    BY <2>1, <2>2
<1>6. Max(S) \in S /\ \A y \in S : Max(S) >= y
  BY <1>5, Zenon DEF Max
<1> QED
  BY <1>6

LEMMA MinIs ==
  ASSUME NEW S, IsFiniteSet(S), S # {}, S \subseteq Int
  PROVE  Min(S) \in S /\ \A y \in S : Min(S) <= y
<1> DEFINE R == {q \in S \X S : q[2] <= q[1]}
<1>1. \A x, y \in S : <<x, y>> \in R <=> y <= x
  OBVIOUS
<1> HIDE DEF R
<1>2. \A x, y \in S : x # y => <<x, y>> \in R \/ <<y, x>> \in R
  BY <1>1
<1>3. \A x, y, z \in S : <<x, y>> \in R /\ <<y, z>> \in R => <<x, z>> \in R
  BY <1>1
<1>4. PICK x \in S : \A y \in S \ {x} : <<y, x>> \in R
  BY <1>2, <1>3, FiniteLast
<1>5. \A y \in S : x =< y
  <2> TAKE y \in S
  <2>1. x \in Int /\ y \in Int
    OBVIOUS
  <2>2. x = y \/ x <= y
    BY <1>1, <1>4
  <2> QED
    BY <2>1, <2>2
<1>6. Min(S) \in S /\ \A y \in S : Min(S) =< y
  BY <1>5, Zenon DEF Min
<1> QED
  BY <1>6

LEMMA TwoIs ==
  ASSUME NEW a \in Int, NEW b \in Int
  PROVE  /\ Min({a, b}) = IF a <= b THEN a ELSE b
         /\ Max({a, b}) = Larger(a, b)
<1>1. IsFiniteSet({a, b}) /\ {a, b} # {} /\ {a, b} \subseteq Int
  <2>1. IsFiniteSet({a} \cup {b})
    BY FS_AddElement, FS_Singleton
  <2>2. {a} \cup {b} = {a, b}
    OBVIOUS
  <2> QED
    BY <2>1, <2>2
<1>2. Min({a, b}) \in {a, b} /\ \A y \in {a, b} : Min({a, b}) <= y
  BY <1>1, MinIs
<1>3. Max({a, b}) \in {a, b} /\ \A y \in {a, b} : y <= Max({a, b})
  BY <1>1, MaxIs
<1> QED
  BY <1>2, <1>3 DEF Larger
-----------------------------------------------------------------------------
(* The windows. *)

\* Evidence: finitely many records, one under each id.
IsUsage(usage) ==
  /\ IsFiniteSet(usage)
  /\ \A u \in usage : u.id \in Nat /\ u.at \in Nat /\ u.amount \in Nat
  /\ \A u, v \in usage : u.id = v.id => u = v

AmountsOf(records) == [u \in records |-> u.amount]

LEMMA UsageSubset ==
  ASSUME NEW usage, IsUsage(usage), NEW D, D \subseteq usage
  PROVE  IsUsage(D)
  BY FS_Subset DEF IsUsage

LEMMA AmountIs ==
  ASSUME NEW D, IsUsage(D)
  PROVE  /\ Amount(D) = SumOver(AmountsOf(D), D) /\ Amount(D) \in Nat
         /\ Ints(AmountsOf(D), D) /\ Above0(AmountsOf(D), D)
<1>1. PICK f : f = AmountsOf(D)
  OBVIOUS
<1>2. Ints(f, D) /\ Above0(f, D) /\ DOMAIN f = D
  BY <1>1 DEF AmountsOf, IsUsage, Ints, Above0
<1>3. Amount(D) = SumOver(f, D)
  BY <1>1, <1>2, SumFunctionIs DEF Amount, AmountsOf
<1> QED
  BY <1>1, <1>2, <1>3, SumPositive

LEMMA NewestIn ==
  ASSUME NEW D, IsUsage(D), D # {}
  PROVE  Newest(D) \in D /\ \A o \in D \ {Newest(D)} : Older(o, Newest(D))
<1> DEFINE R == {q \in D \X D : Older(q[1], q[2])}
<1>1. \A x, y \in D : <<x, y>> \in R <=> Older(x, y)
  OBVIOUS
<1>2. \A x \in D : x.at \in Nat /\ x.id \in Nat
  BY DEF IsUsage
<1>3. \A x, y \in D : x # y => Older(x, y) \/ Older(y, x)
  BY <1>2 DEF Older, IsUsage
<1>4. \A x, y, z \in D : Older(x, y) /\ Older(y, z) => Older(x, z)
  BY <1>2 DEF Older
<1> HIDE DEF R
<1>6. \A x, y \in D : x # y => <<x, y>> \in R \/ <<y, x>> \in R
  BY <1>1, <1>3
<1>7. \A x, y, z \in D : <<x, y>> \in R /\ <<y, z>> \in R => <<x, z>> \in R
  BY <1>1, <1>4
<1>8. \E x \in D : \A y \in D \ {x} : <<y, x>> \in R
  BY <1>6, <1>7, FiniteLast DEF IsUsage
<1>9. \E x \in D : \A y \in D \ {x} : Older(y, x)
  BY <1>1, <1>8
<1> QED
  BY <1>9, Zenon DEF Newest

Levels == [at : Int, level : Int]
Base(w) == [at |-> w.anchor, level |-> w.level * w.period]

\* The levels of a bucket after each set of records.
IsLevels(f, w, S) ==
  f = [D \in SUBSET S |-> IF D = {} THEN Base(w) ELSE Use(w, Newest(D), f[D \ {Newest(D)}])]
LevelsOf(w, S) == CHOOSE f : IsLevels(f, w, S)

Bucket(w) ==
  /\ w.limit \in Nat /\ w.refill \in Nat \ {0} /\ w.period \in Nat \ {0}
  /\ w.anchor \in Nat /\ w.level \in Nat

LEMMA FilledIs ==
  ASSUME NEW w, Bucket(w), NEW level \in Int, NEW elapsed \in Int
  PROVE  /\ Filled(w, level, elapsed) \in Int
         /\ Filled(w, level, elapsed) =
              IF level + w.refill * elapsed <= w.limit * w.period
              THEN level + w.refill * elapsed ELSE w.limit * w.period
<1>1. w.refill * elapsed \in Int /\ w.limit * w.period \in Int
  BY DEF Bucket
<1>2. PICK a, b : a = level + w.refill * elapsed /\ b = w.limit * w.period
  OBVIOUS
<1>3. a \in Int /\ b \in Int
  BY <1>1, <1>2
<1> QED
  BY <1>2, <1>3, TwoIs DEF Filled

LEMMA UseIs ==
  ASSUME NEW w, Bucket(w), NEW u, u.at \in Nat, u.amount \in Nat, NEW acc \in Levels
  PROVE  Use(w, u, acc) \in Levels
<1>1. acc.at \in Int /\ acc.level \in Int /\ u.amount * w.period \in Int
  BY DEF Levels, Bucket
<1>2. u.at - acc.at \in Int
  BY <1>1
<1>3. Filled(w, acc.level, u.at - acc.at) \in Int
  BY <1>1, <1>2, FilledIs
<1> QED
  BY <1>1, <1>3 DEF Use, Levels

LEMMA LevelsExist ==
  ASSUME NEW w, Bucket(w), NEW S, IsUsage(S)
  PROVE  \E f : IsLevels(f, w, S) /\ \A D \in SUBSET S : f[D] \in Levels
<1> DEFINE last == [D \in SUBSET S |-> Newest(D)]
           g == [q \in Levels \X S |-> Use(w, q[2], q[1])]
<1>0. \A D \in SUBSET S : D # {} => Newest(D) \in D
  BY UsageSubset, NewestIn
<1>1. Picks(last, S)
  BY <1>0 DEF Picks
<1>2. \A v \in Levels : \A x \in S : g[<<v, x>>] = Use(w, x, v)
  OBVIOUS
<1> HIDE DEF g
<1>3. Maps(g, Levels, S)
  <2>1. ASSUME NEW v \in Levels, NEW x \in S PROVE g[<<v, x>>] \in Levels
    <3>1. x.at \in Nat /\ x.amount \in Nat
      BY DEF IsUsage
    <3> QED
      BY <1>2, <3>1, UseIs
  <2> QED
    BY <2>1 DEF Maps
<1>4. \A D \in SUBSET S : last[D] = Newest(D)
  OBVIOUS
<1> HIDE DEF last, g
<1>b. Base(w) \in Levels
  BY DEF Base, Levels, Bucket
<1>50. PICK F : IsFold(F, S, Levels, Base(w), last, g)
  BY <1>1, <1>3, <1>b, FoldExists DEF IsUsage
<1>5. /\ F = [D \in SUBSET S |-> F[D]]
      /\ \A D \in SUBSET S :
           /\ F[D] \in Levels
           /\ F[D] = IF D = {} THEN Base(w) ELSE g[<<F[D \ {last[D]}], last[D]>>]
  BY <1>50 DEF IsFold
<1>6. ASSUME NEW D \in SUBSET S
      PROVE  F[D] = IF D = {} THEN Base(w) ELSE Use(w, Newest(D), F[D \ {Newest(D)}])
  <2>1. CASE D = {}
    BY <1>5, <2>1
  <2>2. CASE D # {}
    <3>1. Newest(D) \in S /\ D \ {Newest(D)} \in SUBSET S
      BY <1>0, <2>2
    <3>2. F[D \ {Newest(D)}] \in Levels
      BY <1>5, <3>1
    <3>3. F[D] = g[<<F[D \ {Newest(D)}], Newest(D)>>]
      BY <1>4, <1>5, <2>2
    <3> QED
      BY <1>2, <2>2, <3>1, <3>2, <3>3
  <2> QED
    BY <2>1, <2>2
<1>7. IsLevels(F, w, S)
  BY <1>5, <1>6 DEF IsLevels
<1> QED
  BY <1>5, <1>7

\* Two tables of levels agree.
LEMMA LevelsAgree ==
  ASSUME NEW w, NEW S, NEW R, R \subseteq S, IsUsage(S), NEW F, NEW G, IsLevels(F, w, S), IsLevels(G, w, R)
  PROVE  SameOn(F, G, R)
<1> DEFINE last == [D \in SUBSET S |-> Newest(D)]
           C == {D \in SUBSET R : F[D] = G[D]}
<1>0. \A D \in SUBSET R : D # {} => Newest(D) \in D
  BY UsageSubset, NewestIn
<1>1. /\ Picks(last, R) /\ \A D \in SUBSET R : last[D] = Newest(D)
  BY <1>0 DEF Picks
<1>2. IsFiniteSet(R)
  BY FS_Subset DEF IsUsage
<1>3. {} \in C
  BY DEF IsLevels
<1>4. ASSUME NEW D \in SUBSET R, D # {}, D \ {Newest(D)} \in C PROVE D \in C
  <2>1. /\ F[D] = Use(w, Newest(D), F[D \ {Newest(D)}])
        /\ G[D] = Use(w, Newest(D), G[D \ {Newest(D)}])
    BY <1>4 DEF IsLevels
  <2> QED
    BY <1>4, <2>1
<1> HIDE DEF C, last
<1>5. Closed(last, R, C)
  BY <1>1, <1>4 DEF Closed
<1>6. \A D \in SUBSET R : D \in C
  BY <1>1, <1>2, <1>3, <1>5, FoldInduction
<1> QED
  BY <1>6 DEF C, SameOn

Counted(w, usage, at) == {u \in Seen(usage, at) : u.at >= w.anchor}

\* The level is that after the records that count, refilled until now.
LEMMA BucketLevelIs ==
  ASSUME NEW w, Bucket(w), NEW usage, IsUsage(usage), NEW at \in Int, NEW S, S = Counted(w, usage, at)
  PROVE  \E F : /\ IsLevels(F, w, S) /\ \A D \in SUBSET S : F[D] \in Levels
                /\ BucketLevel(w, usage, at) = Filled(w, F[S].level, at - F[S].at)
<1>1. IsUsage(S)
  BY UsageSubset DEF Counted, Seen
<1>2. PICK F : F = LevelsOf(w, S)
  OBVIOUS
<1>3. IsLevels(F, w, S)
  BY <1>1, <1>2, LevelsExist, Zenon DEF LevelsOf
<1>4. PICK G : IsLevels(G, w, S) /\ \A D \in SUBSET S : G[D] \in Levels
  BY <1>1, LevelsExist
<1>5. SameOn(F, G, S)
  BY <1>1, <1>3, <1>4, LevelsAgree
<1>6. BucketLevel(w, usage, at) = Filled(w, F[S].level, at - F[S].at)
  BY <1>2 DEF BucketLevel, MapThenFoldSet, LevelsOf, IsLevels, Base, Counted
<1> QED
  BY <1>3, <1>4, <1>5, <1>6 DEF SameOn

\* What a window has left before the outstanding holds.
Room(w, usage, at) ==
  IF w.kind = "fixed" THEN w.limit - Amount({u \in Seen(usage, at) : u.at >= PeriodStart(w, at)})
  ELSE IF w.kind = "sliding" THEN w.limit - Amount(InWindow(w, usage, at))
  ELSE BucketLevel(w, usage, at) \div w.period

\* What a window answers.
LEMMA AnswerIs ==
  ASSUME NEW left, NEW outstanding, NEW limit, NEW relief, NEW a, a = Answer(left, outstanding, limit, relief)
  PROVE  /\ a.blocks <=> left <= 0
         /\ a.until.relief = "at" => a.until = relief
  BY DEF Answer, NoRelief

LEMMA Kinds ==
  ASSUME NEW w, IsWindow(w)
  PROVE  /\ w.limit \in Nat /\ w.validUntil \subseteq Nat
         /\ \/ /\ w.kind = "fixed"
               /\ w.cycle \in Nat \ {0} /\ w.resets \subseteq 0..(w.cycle - 1) /\ 0 \in w.resets
            \/ w.kind = "sliding" /\ w.length \in Nat \ {0}
            \/ w.kind = "bucket" /\ Bucket(w)
  BY DEF IsWindow, Bucket

LEMMA LevelInt ==
  ASSUME NEW w, Bucket(w), NEW usage, IsUsage(usage), NEW at \in Int
  PROVE  BucketLevel(w, usage, at) \in Int
<1>1. PICK S : S = Counted(w, usage, at)
  OBVIOUS
<1>2. PICK F : /\ \A D \in SUBSET S : F[D] \in Levels
               /\ BucketLevel(w, usage, at) = Filled(w, F[S].level, at - F[S].at)
  BY <1>1, BucketLevelIs
<1>3. F[S].level \in Int /\ F[S].at \in Int
  BY <1>2 DEF Levels
<1>4. at - F[S].at \in Int
  BY <1>3
<1> QED
  BY <1>2, <1>3, <1>4, FilledIs

LEMMA RoomInt ==
  ASSUME NEW w, IsWindow(w), NEW usage, IsUsage(usage), NEW at \in Int
  PROVE  Room(w, usage, at) \in Int
<1>1. CASE w.kind = "fixed"
  <2>1. PICK D : D = {u \in Seen(usage, at) : u.at >= PeriodStart(w, at)}
    OBVIOUS
  <2>2. Amount(D) \in Nat
    BY <2>1, UsageSubset, AmountIs DEF Seen
  <2> QED
    BY <1>1, <2>1, <2>2, Kinds DEF Room
<1>2. CASE w.kind = "sliding"
  <2>1. PICK D : D = InWindow(w, usage, at)
    OBVIOUS
  <2>2. Amount(D) \in Nat
    BY <2>1, UsageSubset, AmountIs DEF Seen, InWindow
  <2> QED
    BY <1>2, <2>1, <2>2, Kinds DEF Room
<1>3. CASE w.kind = "bucket"
  <2>1. Bucket(w)
    BY <1>3, Kinds
  <2>2. BucketLevel(w, usage, at) \in Int /\ w.period \in Nat \ {0}
    BY <2>1, LevelInt DEF Bucket
  <2> QED
    BY <1>3, <2>2 DEF Room
<1> QED
  BY <1>1, <1>2, <1>3, Kinds

LEMMA MeasureIs ==
  ASSUME NEW w, IsWindow(w), NEW usage, NEW outstanding, NEW at
  PROVE  Measure(w, usage, outstanding, at).blocks <=> Room(w, usage, at) - outstanding <= 0
<1>1. CASE w.kind = "fixed"
  <2>1. Measure(w, usage, outstanding, at) = EvaluatePeriod(w, usage, outstanding, at)
    BY <1>1 DEF Measure
  <2> QED
    BY <1>1, <2>1, AnswerIs DEF EvaluatePeriod, Room
<1>2. CASE w.kind = "sliding"
  <2>1. Measure(w, usage, outstanding, at) = EvaluateSliding(w, usage, outstanding, at)
    BY <1>2 DEF Measure
  <2>2. PICK left : left = w.limit - Amount(InWindow(w, usage, at)) - outstanding
    OBVIOUS
  <2>3. \E relief : EvaluateSliding(w, usage, outstanding, at) = Answer(left, outstanding, w.limit, relief)
    BY <2>2 DEF EvaluateSliding
  <2>4. Measure(w, usage, outstanding, at).blocks <=> left <= 0
    BY <2>1, <2>3, AnswerIs
  <2> QED
    BY <1>2, <2>2, <2>4 DEF Room
<1>3. CASE w.kind = "bucket"
  <2>1. Measure(w, usage, outstanding, at) = EvaluateBucket(w, usage, outstanding, at)
    BY <1>3 DEF Measure
  <2> QED
    BY <1>3, <2>1, AnswerIs DEF EvaluateBucket, Room
<1> QED
  BY <1>1, <1>2, <1>3, Kinds

\* An answer is the window's own, or that its entitlement has expired.
LEMMA EvaluateIs ==
  ASSUME NEW w, NEW usage, NEW outstanding, NEW at, NEW a, a = Evaluate(w, usage, outstanding, at),
         NEW m, m = Measure(w, usage, outstanding, at)
  PROVE  /\ a.blocks <=> Expired(w, at) \/ m.blocks
         /\ Expired(w, at) /\ ~m.blocks => a.until.relief = "expired"
         /\ ~(Expired(w, at) /\ ~m.blocks) => a = m
<1>1. a = IF Expired(w, at) /\ ~m.blocks THEN [blocks |-> TRUE, until |-> NoRelief("expired")] ELSE m
  BY DEF Evaluate
<1>2. CASE Expired(w, at) /\ ~m.blocks
  BY <1>1, <1>2 DEF NoRelief
<1>3. CASE ~(Expired(w, at) /\ ~m.blocks)
  BY <1>1, <1>3
<1> QED
  BY <1>2, <1>3

LEMMA BlocksIs ==
  ASSUME NEW w, IsWindow(w), NEW usage, NEW outstanding, NEW at
  PROVE  Blocks(w, usage, outstanding, at) <=> Expired(w, at) \/ Room(w, usage, at) - outstanding <= 0
  BY EvaluateIs, MeasureIs DEF Blocks

\* More outstanding never unblocks a window.
LEMMA BlocksMonotone ==
  ASSUME NEW w, IsWindow(w), NEW usage, IsUsage(usage), NEW a \in Int, NEW b \in Int, a <= b,
         NEW at \in Int, ~Blocks(w, usage, b, at)
  PROVE  ~Blocks(w, usage, a, at)
<1>1. Room(w, usage, at) \in Int
  BY RoomInt
<1> QED
  BY <1>1, BlocksIs

LEMMA MinNat ==
  ASSUME NEW S, S # {}, S \subseteq Nat
  PROVE  Min(S) \in S /\ \A y \in S : Min(S) <= y
<1>1. PICK n \in S : TRUE
  OBVIOUS
<1>2. PICK D : D = S \cap 0..n
  OBVIOUS
<1>3. IsFiniteSet(D) /\ D # {} /\ D \subseteq Int
  <2>1. IsFiniteSet(0..n)
    BY FS_Interval
  <2> QED
    BY <1>1, <1>2, <2>1, FS_Subset
<1>4. Min(D) \in D /\ \A y \in D : Min(D) <= y
  BY <1>3, MinIs
<1>5. PICK m : m = Min(D)
  OBVIOUS
<1>6. m \in S /\ m \in Nat /\ m <= n /\ \A y \in D : m <= y
  BY <1>2, <1>4, <1>5
<1>7. \A y \in S : m =< y
  <2> TAKE y \in S
  <2>1. y \in Nat /\ n \in Nat
    OBVIOUS
  <2>2. CASE y <= n
    BY <1>2, <1>6, <2>1, <2>2
  <2>3. CASE y > n
    BY <1>6, <2>1, <2>3
  <2> QED
    BY <2>1, <2>2, <2>3
<1>8. \E x \in S : \A y \in S : x =< y
  BY <1>6, <1>7
<1>9. Min(S) \in S /\ \A y \in S : Min(S) =< y
  BY <1>8, Zenon DEF Min
<1> QED
  BY <1>9

\* The relief a window names is an instant.
LEMMA MeasureUntil ==
  ASSUME NEW w, IsWindow(w), NEW usage, IsUsage(usage), NEW outstanding \in Int, NEW at \in Nat,
         NEW a, a = Measure(w, usage, outstanding, at), a.until.relief = "at"
  PROVE  a.until.at \in Int
<1>1. CASE w.kind = "fixed"
  <2>1. PICK relief : relief = At(PeriodEnd(w, at))
    OBVIOUS
  <2>2. a.until = relief
    BY <1>1, <2>1, AnswerIs DEF Measure, EvaluatePeriod
  <2>3. w.cycle \in Nat \ {0} /\ w.resets \subseteq 0..(w.cycle - 1)
    BY <1>1, Kinds
  <2>4. at % w.cycle \in 0..(w.cycle - 1)
    BY <2>3
  <2>5. PICK S : S = {r \in w.resets \cup {w.cycle} : r > at % w.cycle}
    OBVIOUS
  <2>6. S # {} /\ S \subseteq Nat
    BY <2>3, <2>4, <2>5
  <2>7. Min(S) \in Nat
    BY <2>6, MinNat
  <2>8. PeriodEnd(w, at) \in Int
    BY <2>4, <2>5, <2>7 DEF PeriodEnd
  <2> QED
    BY <2>1, <2>2, <2>8 DEF At
<1>2. CASE w.kind = "sliding"
  <2> DEFINE in == InWindow(w, usage, at)
             Left(n) == w.limit - Amount({u \in in : u.at > n}) - outstanding
             enough == {u.at : u \in {v \in in : Left(v.at) > 0}}
             relief == IF enough = {} THEN NoRelief("unknown") ELSE At(Min(enough) + w.length)
  <2>1. a = Answer(w.limit - Amount(in) - outstanding, outstanding, w.limit, relief)
    BY <1>2 DEF Measure, EvaluateSliding
  <2>2. enough \subseteq Nat
    BY DEF InWindow, Seen, IsUsage
  <2> HIDE DEF enough, in
  <2>3. a.until = relief
    BY <2>1, AnswerIs
  <2>4. enough # {} /\ a.until = At(Min(enough) + w.length)
    BY <2>3 DEF NoRelief
  <2>5. Min(enough) \in Nat /\ w.length \in Nat
    BY <1>2, <2>2, <2>4, MinNat, Kinds
  <2> QED
    BY <2>4, <2>5 DEF At
<1>3. CASE w.kind = "bucket"
  <2>1. Bucket(w)
    BY <1>3, Kinds
  <2>2. PICK level : level = BucketLevel(w, usage, at)
    OBVIOUS
  <2>3. level \in Int
    BY <2>1, <2>2, LevelInt
  <2>4. PICK deficit : deficit = (outstanding + 1) * w.period - level
    OBVIOUS
  <2>5. deficit \in Int /\ w.refill \in Nat \ {0}
    <3>1. (outstanding + 1) * w.period \in Int
      BY <2>1 DEF Bucket
    <3> QED
      BY <2>1, <2>3, <2>4, <3>1 DEF Bucket
  <2>6. PICK relief : relief = At(at + CeilDiv(deficit, w.refill))
    OBVIOUS
  <2>7. a = Answer((level \div w.period) - outstanding, outstanding, w.limit, relief)
    BY <1>3, <2>2, <2>4, <2>6 DEF Measure, EvaluateBucket
  <2>8. a.until = relief
    BY <2>7, AnswerIs
  <2>9. CeilDiv(deficit, w.refill) \in Int
    BY <2>5 DEF CeilDiv
  <2> QED
    BY <2>6, <2>8, <2>9 DEF At
<1> QED
  BY <1>1, <1>2, <1>3, Kinds

LEMMA UntilIs ==
  ASSUME NEW w, IsWindow(w), NEW usage, IsUsage(usage), NEW outstanding \in Int, NEW at \in Nat,
         NEW a, a = Evaluate(w, usage, outstanding, at), a.until.relief = "at"
  PROVE  a.until.at \in Int
<1>1. PICK m : m = Measure(w, usage, outstanding, at)
  OBVIOUS
<1>2. a = m
  BY <1>1, EvaluateIs
<1> QED
  BY <1>1, <1>2, MeasureUntil
-----------------------------------------------------------------------------
(* Two bodies of evidence, record by record. *)

Twin(u, v) == u.id = v.id /\ u.at = v.at /\ u.amount <= v.amount

Covered(lo, hi) ==
  /\ \A u \in lo : \E v \in hi : Twin(u, v)
  /\ \A v \in hi : \E u \in lo : Twin(u, v)

\* The records of lo that have a twin in D.
Part(lo, D) == {u \in lo : \E v \in D : u.id = v.id}

LEMMA AmountAdd ==
  ASSUME NEW D, IsUsage(D), NEW u, u \notin D, IsUsage(D \cup {u})
  PROVE  Amount(D \cup {u}) = Amount(D) + u.amount
<1>1. PICK E : E = D \cup {u}
  OBVIOUS
<1>2. PICK f, g : f = AmountsOf(D) /\ g = AmountsOf(E)
  OBVIOUS
<1>3. Amount(D) = SumOver(f, D) /\ Ints(f, D) /\ Amount(D) \in Nat
  BY <1>2, AmountIs
<1>4. IsUsage(E) /\ Amount(E) = SumOver(g, E) /\ u.amount \in Nat
  BY <1>1, <1>2, AmountIs DEF IsUsage
<1>5. \A x \in D : f[x] = g[x]
  BY <1>1, <1>2 DEF AmountsOf
<1>6. g[u] = u.amount
  BY <1>1, <1>2 DEF AmountsOf
<1>7. Ints(g, D) /\ SumOver(g, D) = SumOver(f, D)
  BY <1>3, <1>5, SumSame DEF Ints
<1>8. SumOver(g, D \cup {u}) = g[u] + SumOver(g, D)
  BY <1>4, <1>6, <1>7, SumAdd
<1> QED
  BY <1>1, <1>3, <1>4, <1>6, <1>7, <1>8

\* One more record of hi is one more of lo.
LEMMA PartAdd ==
  ASSUME NEW lo, NEW hi, IsUsage(lo), IsUsage(hi), Covered(lo, hi), NEW D \in SUBSET hi, NEW v \in hi \ D
  PROVE  \E u \in lo : Twin(u, v) /\ u \notin Part(lo, D) /\ Part(lo, D \cup {v}) = Part(lo, D) \cup {u}
<1>1. PICK u \in lo : Twin(u, v)
  BY DEF Covered
<1>2. u \notin Part(lo, D)
  BY <1>1 DEF Part, Twin, IsUsage
<1>3. \A x \in lo : x.id = v.id => x = u
  BY <1>1 DEF Twin, IsUsage
<1>4. Part(lo, D \cup {v}) = Part(lo, D) \cup {u}
  BY <1>1, <1>3 DEF Part, Twin
<1> QED
  BY <1>1, <1>2, <1>4

LEMMA PartAll ==
  ASSUME NEW lo, NEW hi, Covered(lo, hi)
  PROVE  Part(lo, hi) = lo /\ Part(lo, {}) = {}
  BY DEF Part, Covered, Twin

LEMMA AmountCovered ==
  ASSUME NEW lo, NEW hi, IsUsage(lo), IsUsage(hi), Covered(lo, hi)
  PROVE  Amount(lo) <= Amount(hi)
<1> DEFINE C == {D \in SUBSET hi : Amount(Part(lo, D)) <= Amount(D)}
<1>1. {} \in C
  <2>1. IsUsage({}) /\ Part(lo, {}) = {}
    BY PartAll, FS_EmptySet DEF IsUsage
  <2>2. Amount({}) \in Nat
    BY <2>1, AmountIs
  <2> QED
    BY <2>1, <2>2
<1>2. ASSUME NEW D \in SUBSET hi, NEW v \in hi \ D, D \in C
      PROVE  D \cup {v} \in C
  <2>1. PICK u \in lo : Twin(u, v) /\ u \notin Part(lo, D) /\ Part(lo, D \cup {v}) = Part(lo, D) \cup {u}
    BY PartAdd
  <2>2. PICK X, Y : X = Part(lo, D) /\ Y = D \cup {v}
    OBVIOUS
  <2>3. IsUsage(X) /\ IsUsage(X \cup {u}) /\ IsUsage(D) /\ IsUsage(Y)
    BY <2>2, UsageSubset DEF Part
  <2>4. Amount(X \cup {u}) = Amount(X) + u.amount
    BY <2>1, <2>2, <2>3, AmountAdd
  <2>5. Amount(Y) = Amount(D) + v.amount
    BY <2>2, <2>3, AmountAdd
  <2>6. Amount(X) \in Nat /\ Amount(D) \in Nat
    BY <2>3, AmountIs
  <2>7. u.amount \in Nat /\ v.amount \in Nat /\ u.amount <= v.amount
    BY <2>1 DEF IsUsage, Twin
  <2>8. Amount(X) <= Amount(D)
    BY <1>2, <2>2
  <2>9. Part(lo, Y) = X \cup {u} /\ Y \in SUBSET hi
    BY <2>1, <2>2
  <2>10. Amount(Part(lo, Y)) <= Amount(Y)
    BY <2>4, <2>5, <2>6, <2>7, <2>8, <2>9
  <2>11. Y \in C
    BY <2>9, <2>10
  <2> QED
    BY <2>2, <2>11
<1> HIDE DEF C
<1>3. hi \in C
  BY <1>1, <1>2, FiniteInduction DEF IsUsage
<1> QED
  BY <1>3, PartAll DEF C

LEMMA DivMonotone ==
  ASSUME NEW a \in Int, NEW b \in Int, a <= b, NEW d \in Nat \ {0}
  PROVE  a \div d <= b \div d
<1>1. PICK x, y : x = a \div d /\ y = b \div d
  OBVIOUS
<1>2. x \in Int /\ y \in Int
  BY <1>1
<1>3. d * x <= a /\ b < d * y + d
  BY <1>1
<1>4. ASSUME x > y PROVE FALSE
  <2>1. PICK e, more : e = x - y - 1 /\ more = d * e
    OBVIOUS
  <2>2. e \in Nat /\ x = y + 1 + e
    BY <1>2, <1>4, <2>1
  <2>3. more \in Nat
    BY <2>1, <2>2
  <2>4. d * x = d * y + d + more
    BY <1>2, <2>1, <2>2
  <2>5. d * x \in Int /\ d * y \in Int
    BY <1>2
  <2> QED
    BY <1>3, <2>3, <2>4, <2>5
<1> QED
  BY <1>1, <1>2, <1>4

(* The bucket. *)

\* Levels over two bodies of evidence: the same instants, and no less where less is taken.
Above(a, b) == a \in Levels /\ b \in Levels /\ a.at = b.at /\ a.level >= b.level

LEMMA UseAbove ==
  ASSUME NEW w, Bucket(w), NEW u, NEW v, Twin(u, v), u.at \in Nat, u.amount \in Nat, v.amount \in Nat,
         NEW a, NEW b, Above(a, b)
  PROVE  Above(Use(w, u, a), Use(w, v, b))
<1>1. a \in Levels /\ b \in Levels /\ a.at = b.at /\ a.level >= b.level /\ v.at = u.at /\ u.amount <= v.amount
  BY DEF Above, Twin
<1>2. a.level \in Int /\ b.level \in Int /\ a.at \in Int
  BY <1>1 DEF Levels
<1>3. PICK e : e = u.at - a.at
  OBVIOUS
<1>4. e \in Int /\ v.at - b.at = e
  BY <1>1, <1>2, <1>3
<1>5. PICK x, y : x = Filled(w, a.level, e) /\ y = Filled(w, b.level, e)
  OBVIOUS
<1>6. PICK gain, full : gain = w.refill * e /\ full = w.limit * w.period
  OBVIOUS
<1>7. gain \in Int /\ full \in Int
  BY <1>4, <1>6 DEF Bucket
<1>8. /\ x = IF a.level + gain <= full THEN a.level + gain ELSE full
      /\ y = IF b.level + gain <= full THEN b.level + gain ELSE full
  BY <1>2, <1>4, <1>5, <1>6, FilledIs
<1>9. x \in Int /\ y \in Int /\ x >= y
  BY <1>1, <1>2, <1>7, <1>8
<1>10. PICK c, d : c = u.amount * w.period /\ d = v.amount * w.period
  OBVIOUS
<1>11. c \in Int /\ d \in Int /\ c <= d
  <2>1. PICK m, more : m = v.amount - u.amount /\ more = m * w.period
    OBVIOUS
  <2>2. m \in Nat /\ v.amount = u.amount + m /\ w.period \in Nat
    BY <1>1, <2>1 DEF Bucket
  <2>3. more \in Nat /\ d = c + more /\ c \in Nat
    BY <1>10, <2>1, <2>2
  <2> QED
    BY <2>3
<1>12. /\ Use(w, u, a) = [at |-> u.at, level |-> x - c]
       /\ Use(w, v, b) = [at |-> u.at, level |-> y - d]
  BY <1>1, <1>3, <1>4, <1>5, <1>10 DEF Use
<1>13. x - c \in Int /\ y - d \in Int /\ x - c >= y - d
  BY <1>9, <1>11
<1> QED
  BY <1>12, <1>13 DEF Above, Levels

\* The newest record of each body is the other's twin.
LEMMA NewestTwin ==
  ASSUME NEW lo, NEW hi, IsUsage(lo), IsUsage(hi), Covered(lo, hi), NEW D \in SUBSET hi, D # {}
  PROVE  /\ Newest(D) \in D /\ Part(lo, D) # {} /\ Newest(Part(lo, D)) \in Part(lo, D)
         /\ Twin(Newest(Part(lo, D)), Newest(D))
         /\ Part(lo, D \ {Newest(D)}) = Part(lo, D) \ {Newest(Part(lo, D))}
<1>1. PICK v, P : v = Newest(D) /\ P = Part(lo, D)
  OBVIOUS
<1>2. v \in D /\ \A o \in D \ {v} : Older(o, v)
  BY <1>1, UsageSubset, NewestIn
<1>3. PICK u \in lo : Twin(u, v)
  BY <1>2 DEF Covered
<1>4. u \in P /\ P # {} /\ IsUsage(P) /\ P \subseteq lo
  BY <1>1, <1>2, <1>3, UsageSubset DEF Part, Twin
<1>5. PICK n : n = Newest(P)
  OBVIOUS
<1>6. n \in P /\ \A o \in P \ {n} : Older(o, n)
  BY <1>4, <1>5, NewestIn
<1>7. PICK m \in D : m.id = n.id
  BY <1>1, <1>6 DEF Part
<1>8. Twin(n, m)
  <2>1. n \in lo /\ m \in hi
    BY <1>4, <1>6
  <2>2. PICK k \in hi : Twin(n, k)
    BY <2>1 DEF Covered
  <2>3. k = m
    BY <1>7, <2>1, <2>2 DEF Twin, IsUsage
  <2> QED
    BY <2>2, <2>3
<1>9. n = u
  <2>1. SUFFICES ASSUME n # u PROVE FALSE
    OBVIOUS
  <2>2. Older(u, n)
    BY <1>4, <1>6, <2>1
  <2>3. m # v
    BY <1>3, <1>4, <1>6, <1>8, <2>1 DEF Twin, IsUsage
  <2>4. Older(m, v)
    BY <1>2, <2>3
  <2>5. /\ u.at \in Nat /\ u.id \in Nat /\ n.at \in Nat /\ n.id \in Nat
        /\ u.at = v.at /\ u.id = v.id /\ n.at = m.at /\ n.id = m.id
    BY <1>3, <1>4, <1>6, <1>8 DEF Twin, IsUsage
  <2> QED
    BY <2>2, <2>4, <2>5 DEF Older
<1>10. Part(lo, D \ {v}) = P \ {u}
  <2>1. ASSUME NEW x \in lo PROVE x \in Part(lo, D \ {v}) <=> x \in P /\ x # u
    <3>1. CASE x = u
      BY <1>2, <1>3, <3>1 DEF Part, Twin, IsUsage
    <3>2. CASE x # u
      <4>1. x.id # v.id
        BY <1>3, <3>2 DEF Twin, IsUsage
      <4> QED
        BY <1>1, <3>2, <4>1 DEF Part
    <3> QED
      BY <3>1, <3>2
  <2> QED
    BY <1>1, <2>1 DEF Part
<1> QED
  BY <1>1, <1>2, <1>3, <1>4, <1>5, <1>9, <1>10

LEMMA LevelsAbove ==
  ASSUME NEW w, Bucket(w), NEW lo, NEW hi, IsUsage(lo), IsUsage(hi), Covered(lo, hi),
         NEW F, NEW G, IsLevels(F, w, lo), IsLevels(G, w, hi),
         \A D \in SUBSET lo : F[D] \in Levels, \A D \in SUBSET hi : G[D] \in Levels
  PROVE  Above(F[lo], G[hi])
<1> DEFINE last == [D \in SUBSET hi |-> Newest(D)]
           C == {D \in SUBSET hi : Above(F[Part(lo, D)], G[D])}
<1>1. /\ \A D \in SUBSET hi : last[D] = Newest(D)
      /\ Picks(last, hi)
  BY NewestTwin DEF Picks
<1>2. \A D \in SUBSET lo : F[D] = IF D = {} THEN Base(w) ELSE Use(w, Newest(D), F[D \ {Newest(D)}])
  BY DEF IsLevels
<1>3. \A D \in SUBSET hi : G[D] = IF D = {} THEN Base(w) ELSE Use(w, Newest(D), G[D \ {Newest(D)}])
  BY DEF IsLevels
<1>4. {} \in C
  <2>1. Part(lo, {}) = {} /\ {} \in SUBSET lo /\ {} \in SUBSET hi
    BY PartAll
  <2>2. F[{}] = Base(w) /\ G[{}] = Base(w) /\ F[{}] \in Levels
    BY <1>2, <1>3
  <2>3. PICK b : b = Base(w)
    OBVIOUS
  <2>4. b \in Levels
    BY <2>2, <2>3
  <2>5. b.level \in Int
    BY <2>4 DEF Levels
  <2>6. Above(b, b)
    BY <2>4, <2>5 DEF Above
  <2>7. Above(F[Part(lo, {})], G[{}])
    BY <2>1, <2>2, <2>3, <2>6
  <2> QED
    BY <2>7
<1>5. ASSUME NEW D \in SUBSET hi, D # {}, D \ {Newest(D)} \in C PROVE D \in C
  <2>1. PICK P, u, v : P = Part(lo, D) /\ u = Newest(P) /\ v = Newest(D)
    OBVIOUS
  <2>2. v \in D /\ P # {} /\ u \in P /\ Twin(u, v) /\ Part(lo, D \ {v}) = P \ {u}
    BY <1>5, <2>1, NewestTwin
  <2>3. P \subseteq lo
    BY <2>1 DEF Part
  <2>4. PICK a, b : a = F[P \ {u}] /\ b = G[D \ {v}]
    OBVIOUS
  <2>5. Above(a, b)
    BY <1>5, <2>1, <2>2, <2>4
  <2>6. F[P] = Use(w, u, a) /\ G[D] = Use(w, v, b)
    BY <1>2, <1>3, <1>5, <2>1, <2>2, <2>3, <2>4
  <2>7. u.at \in Nat /\ u.amount \in Nat /\ v.amount \in Nat
    BY <2>2, <2>3 DEF IsUsage
  <2>8. Above(Use(w, u, a), Use(w, v, b))
    BY <2>2, <2>5, <2>7, UseAbove
  <2> QED
    BY <2>1, <2>6, <2>8
<1> HIDE DEF C, last
<1>6. Closed(last, hi, C)
  BY <1>1, <1>5 DEF Closed
<1>7. hi \in C
  BY <1>1, <1>4, <1>6, FoldInduction DEF IsUsage
<1> QED
  BY <1>7, PartAll DEF C
\* A body of evidence cut at instants.
Within(S, X) == {u \in S : u.at \in X}

LEMMA CoveredWithin ==
  ASSUME NEW lo, NEW hi, IsUsage(lo), IsUsage(hi), Covered(lo, hi), NEW X,
         NEW a, NEW b, a = Within(lo, X), b = Within(hi, X)
  PROVE  IsUsage(a) /\ IsUsage(b) /\ Covered(a, b)
<1>1. ASSUME NEW u \in a PROVE \E v \in b : Twin(u, v)
  BY DEF Covered, Twin, Within
<1>2. ASSUME NEW v \in b PROVE \E u \in a : Twin(u, v)
  BY DEF Covered, Twin, Within
<1>3. IsUsage(a) /\ IsUsage(b)
  BY UsageSubset DEF Within
<1> QED
  BY <1>1, <1>2, <1>3 DEF Covered

\* A window has no less room on the lesser evidence.
LEMMA RoomAbove ==
  ASSUME NEW w, IsWindow(w), NEW lo, NEW hi, IsUsage(lo), IsUsage(hi), Covered(lo, hi), NEW at \in Nat
  PROVE  Room(w, lo, at) >= Room(w, hi, at)
<1>1. CASE w.kind = "fixed"
  <2>1. PICK X, a, b : /\ X = {n \in Nat : n <= at /\ n >= PeriodStart(w, at)}
                       /\ a = Within(lo, X) /\ b = Within(hi, X)
    OBVIOUS
  <2>2. /\ a = {u \in Seen(lo, at) : u.at >= PeriodStart(w, at)}
        /\ b = {u \in Seen(hi, at) : u.at >= PeriodStart(w, at)}
    BY <2>1 DEF Seen, IsUsage, Within
  <2>3. IsUsage(a) /\ IsUsage(b) /\ Covered(a, b)
    BY <2>1, CoveredWithin
  <2>4. Amount(a) <= Amount(b) /\ Amount(a) \in Nat /\ Amount(b) \in Nat
    BY <2>3, AmountCovered, AmountIs
  <2>5. Room(w, lo, at) = w.limit - Amount(a) /\ Room(w, hi, at) = w.limit - Amount(b) /\ w.limit \in Nat
    BY <1>1, <2>2, Kinds DEF Room
  <2> QED
    BY <2>4, <2>5
<1>2. CASE w.kind = "sliding"
  <2>1. PICK X, a, b : /\ X = {n \in Nat : n <= at /\ n > at - w.length}
                       /\ a = Within(lo, X) /\ b = Within(hi, X)
    OBVIOUS
  <2>2. a = InWindow(w, lo, at) /\ b = InWindow(w, hi, at)
    BY <2>1 DEF InWindow, Seen, IsUsage, Within
  <2>3. IsUsage(a) /\ IsUsage(b) /\ Covered(a, b)
    BY <2>1, CoveredWithin
  <2>4. Amount(a) <= Amount(b) /\ Amount(a) \in Nat /\ Amount(b) \in Nat
    BY <2>3, AmountCovered, AmountIs
  <2>5. Room(w, lo, at) = w.limit - Amount(a) /\ Room(w, hi, at) = w.limit - Amount(b) /\ w.limit \in Nat
    BY <1>2, <2>2, Kinds DEF Room
  <2> QED
    BY <2>4, <2>5
<1>3. CASE w.kind = "bucket"
  <2>0. Bucket(w) /\ w.period \in Nat \ {0}
    BY <1>3, Kinds DEF Bucket
  <2>1. PICK X, a, b : /\ X = {n \in Nat : n <= at /\ n >= w.anchor}
                       /\ a = Within(lo, X) /\ b = Within(hi, X)
    OBVIOUS
  <2>2. a = Counted(w, lo, at) /\ b = Counted(w, hi, at)
    BY <2>1 DEF Counted, Seen, IsUsage, Within
  <2>3. IsUsage(a) /\ IsUsage(b) /\ Covered(a, b)
    BY <2>1, CoveredWithin
  <2>i. at \in Int
    OBVIOUS
  <2>4. PICK F : /\ IsLevels(F, w, a) /\ \A D \in SUBSET a : F[D] \in Levels
                 /\ BucketLevel(w, lo, at) = Filled(w, F[a].level, at - F[a].at)
    BY <2>0, <2>2, <2>i, BucketLevelIs
  <2>5. PICK G : /\ IsLevels(G, w, b) /\ \A D \in SUBSET b : G[D] \in Levels
                 /\ BucketLevel(w, hi, at) = Filled(w, G[b].level, at - G[b].at)
    BY <2>0, <2>2, <2>i, BucketLevelIs
  <2>6. PICK f, g : f = F[a] /\ g = G[b]
    OBVIOUS
  <2>7. Above(f, g)
    BY <2>0, <2>3, <2>4, <2>5, <2>6, LevelsAbove
  <2>8. f.level \in Int /\ g.level \in Int /\ f.at \in Int /\ f.at = g.at /\ f.level >= g.level
    BY <2>7 DEF Above, Levels
  <2>9. PICK e, x, y : e = at - f.at /\ x = BucketLevel(w, lo, at) /\ y = BucketLevel(w, hi, at)
    OBVIOUS
  <2>10. e \in Int /\ x = Filled(w, f.level, e) /\ y = Filled(w, g.level, e)
    BY <2>4, <2>5, <2>6, <2>8, <2>9
  <2>11. PICK gain, full : gain = w.refill * e /\ full = w.limit * w.period
    OBVIOUS
  <2>12. gain \in Int /\ full \in Int
    BY <2>0, <2>10, <2>11 DEF Bucket
  <2>13. /\ x = IF f.level + gain <= full THEN f.level + gain ELSE full
         /\ y = IF g.level + gain <= full THEN g.level + gain ELSE full
    BY <2>0, <2>8, <2>10, <2>11, FilledIs
  <2>14. x \in Int /\ y \in Int /\ y <= x
    BY <2>8, <2>12, <2>13
  <2>15. y \div w.period <= x \div w.period
    BY <2>0, <2>14, DivMonotone
  <2>16. y \div w.period \in Int /\ x \div w.period \in Int
    BY <2>0, <2>14
  <2>17. Room(w, lo, at) = x \div w.period /\ Room(w, hi, at) = y \div w.period
    BY <1>3, <2>9 DEF Room
  <2> QED
    BY <2>15, <2>16, <2>17
<1> QED
  BY <1>1, <1>2, <1>3, Kinds

\* What admits on the greater evidence and more outstanding admits on the lesser.
LEMMA BlocksCovered ==
  ASSUME NEW w, IsWindow(w), NEW lo, NEW hi, IsUsage(lo), IsUsage(hi), Covered(lo, hi), NEW at \in Nat,
         NEW a \in Int, NEW b \in Int, a <= b, ~Blocks(w, hi, b, at)
  PROVE  ~Blocks(w, lo, a, at)
<1>1. PICK x, y : x = Room(w, lo, at) /\ y = Room(w, hi, at)
  OBVIOUS
<1>2. x \in Int /\ y \in Int /\ x >= y
  BY <1>1, RoomInt, RoomAbove
<1>3. ~(y - b <= 0) /\ ~Expired(w, at)
  BY <1>1, BlocksIs
<1>4. ~(x - a <= 0)
  BY <1>2, <1>3
<1> QED
  BY <1>1, <1>3, <1>4, BlocksIs
-----------------------------------------------------------------------------
(* The forecast: a search that only moves on. *)

\* The search with n looks left, of the instants clear and stuck.
IsProbe(f, clear, stuck, onward) ==
  f = [n \in 0..MaxProbeSteps |-> [t \in Nat |->
         IF n = 0 THEN None
         ELSE IF t \in clear THEN t
         ELSE IF t \in stuck THEN None
         ELSE f[n - 1][onward[t]]]]

MovesOn(clear, stuck, onward) ==
  \A t \in Nat : t \notin clear /\ t \notin stuck => onward[t] \in Nat /\ onward[t] > t

LEMMA ProbeExists ==
  ASSUME NEW clear, NEW stuck, NEW onward
  PROVE  \E f : IsProbe(f, clear, stuck, onward)
<1> DEFINE M == MaxProbeSteps
           Look(g, n) == [t \in Nat |-> IF n = 0 THEN None
                                        ELSE IF t \in clear THEN t
                                        ELSE IF t \in stuck THEN None ELSE g[onward[t]]]
           Is(f) == f = [n \in 0..M |-> f[n]]
           Upto(f, k) == \A n \in 0..M : n <= k => f[n] = Look(f[n - 1], n)
           T == {k \in Nat : \E f : Is(f) /\ Upto(f, k)}
<1>0. M \in Nat
  BY PacerAssumption, WindowsAssumption
<1>00. \A g, h : Look(g, 0) = Look(h, 0)
  OBVIOUS
<1> HIDE DEF M, Look
<1>1. 0 \in T
  <2> DEFINE f == [n \in 0..M |-> Look(None, 0)]
  <2>1. \A n \in 0..M : f[n] = Look(None, 0)
    OBVIOUS
  <2>2. Is(f)
    OBVIOUS
  <2> HIDE DEF f
  <2>3. Upto(f, 0)
    <3>1. \A n \in 0..M : n <= 0 => n = 0
      BY <1>0
    <3> QED
      BY <1>00, <2>1, <3>1
  <2> QED
    BY <2>2, <2>3
<1>2. \A k \in Nat : k \in T => k + 1 \in T
  <2> SUFFICES ASSUME NEW k \in Nat, k \in T PROVE k + 1 \in T
    OBVIOUS
  <2>1. PICK f : Is(f) /\ Upto(f, k)
    OBVIOUS
  <2> DEFINE h == [n \in 0..M |-> Look(f[n - 1], n)]
  <2>2. \A n \in 0..M : h[n] = Look(f[n - 1], n)
    OBVIOUS
  <2>3. Is(h)
    OBVIOUS
  <2> HIDE DEF h
  <2>4. ASSUME NEW n \in 0..M, n <= k + 1 PROVE h[n] = Look(h[n - 1], n)
    <3>1. CASE n = 0
      BY <1>00, <2>2, <3>1
    <3>2. CASE n # 0
      <4>1. PICK m : m = n - 1
        OBVIOUS
      <4>2. m \in 0..M /\ m <= k
        BY <1>0, <2>4, <3>2, <4>1
      <4>3. h[m] = f[m]
        BY <2>1, <2>2, <4>2
      <4> QED
        BY <2>2, <4>1, <4>3
    <3> QED
      BY <3>1, <3>2
  <2>5. Upto(h, k + 1)
    BY <2>4
  <2>6. k + 1 \in Nat
    OBVIOUS
  <2> HIDE DEF Upto, Is
  <2> QED
    BY <2>3, <2>5, <2>6
<1> HIDE DEF T
<1>3. M \in T
  BY <1>0, <1>1, <1>2, SetInduction
<1>4. PICK f : Is(f) /\ Upto(f, M)
  BY <1>3 DEF T
<1>5. ASSUME NEW n \in 0..M PROVE f[n] = Look(f[n - 1], n)
  <2>1. n <= M
    BY <1>0
  <2> HIDE DEF Is
  <2> QED
    BY <1>4, <2>1
<1>6. f = [n \in 0..M |-> Look(f[n - 1], n)]
  BY <1>4, <1>5
<1> QED
  BY <1>6 DEF IsProbe, M, Look

\* What the search finds is clear, and not earlier than where it began.
Finds(f, n, t, clear) == f[n][t] = None \/ (f[n][t] \in Nat /\ f[n][t] >= t /\ f[n][t] \in clear)

LEMMA ProbeFinds ==
  ASSUME NEW clear, NEW stuck, NEW onward, MovesOn(clear, stuck, onward), NEW f,
         IsProbe(f, clear, stuck, onward), NEW start \in Nat
  PROVE  Finds(f, MaxProbeSteps, start, clear)
<1> DEFINE M == MaxProbeSteps
           T == {n \in Nat : n <= M => \A t \in Nat : Finds(f, n, t, clear)}
<1>0. M \in Nat
  BY PacerAssumption, WindowsAssumption
<1>a. ASSUME NEW n \in 0..M, NEW t \in Nat
      PROVE  f[n][t] = IF n = 0 THEN None
                       ELSE IF t \in clear THEN t
                       ELSE IF t \in stuck THEN None ELSE f[n - 1][onward[t]]
  <2>1. f[n] = [u \in Nat |-> IF n = 0 THEN None
                              ELSE IF u \in clear THEN u
                              ELSE IF u \in stuck THEN None ELSE f[n - 1][onward[u]]]
    BY DEF IsProbe
  <2> QED
    BY <2>1
<1> HIDE DEF M
<1>1. 0 \in T
  <2>1. \A t \in Nat : f[0][t] = None
    BY <1>0, <1>a
  <2> QED
    BY <2>1 DEF Finds
<1>2. \A n \in Nat : n \in T => n + 1 \in T
  <2> SUFFICES ASSUME NEW n \in Nat, n \in T, n + 1 <= M, NEW t \in Nat
               PROVE  Finds(f, n + 1, t, clear)
    OBVIOUS
  <2>0. PICK m : m = n + 1
    OBVIOUS
  <2>00. m \in 0..M /\ m # 0 /\ m - 1 = n /\ n <= M
    BY <1>0, <2>0
  <2>1. CASE t \in clear \/ t \in stuck
    BY <1>a, <2>0, <2>00, <2>1 DEF Finds
  <2>2. CASE ~(t \in clear \/ t \in stuck)
    <3>1. PICK v : v = onward[t]
      OBVIOUS
    <3>2. v \in Nat /\ v > t
      BY <2>2, <3>1 DEF MovesOn
    <3>3. Finds(f, n, v, clear)
      BY <2>00, <3>2
    <3>4. f[m][t] = f[n][v]
      BY <1>a, <2>00, <2>2, <3>1
    <3> QED
      BY <2>0, <3>2, <3>3, <3>4 DEF Finds
  <2> QED
    BY <2>1, <2>2
<1> HIDE DEF T
<1>3. M \in T
  BY <1>0, <1>1, <1>2, SetInduction
<1> QED
  BY <1>0, <1>3 DEF T, M

BlockedAt(s, need, preference, t) ==
  {c \in {Check(w, s, need, preference, t) : w \in Windows} : c.blocks}
ClearOf(s, need, preference) == {t \in Nat : BlockedAt(s, need, preference, t) = {}}
StuckOf(s, need, preference) ==
  {t \in Nat : \E c \in BlockedAt(s, need, preference, t) : c.until.relief # "at" \/ c.until.at <= t}
OnwardOf(s, need, preference) ==
  [t \in Nat |-> Max({c.until.at : c \in BlockedAt(s, need, preference, t)})]

IsSafeProbe(f, s, need, preference) ==
  f = [n \in 0..MaxProbeSteps |-> [t \in Nat |->
         IF n = 0 THEN None
         ELSE IF BlockedAt(s, need, preference, t) = {} THEN t
         ELSE IF \E c \in BlockedAt(s, need, preference, t) :
                   c.until.relief # "at" \/ c.until.at <= t THEN None
         ELSE f[n - 1][Max({c.until.at : c \in BlockedAt(s, need, preference, t)})]]]
SafeProbe(s, need, preference) == CHOOSE f : IsSafeProbe(f, s, need, preference)

LEMMA SafeProbeIs ==
  ASSUME NEW s, NEW need, NEW preference, NEW f
  PROVE  IsSafeProbe(f, s, need, preference) <=>
           IsProbe(f, ClearOf(s, need, preference), StuckOf(s, need, preference), OnwardOf(s, need, preference))
<1> DEFINE B(t) == BlockedAt(s, need, preference, t)
           clear == ClearOf(s, need, preference)
           stuck == StuckOf(s, need, preference)
           onward == OnwardOf(s, need, preference)
           P(n, t) == IF n = 0 THEN None
                      ELSE IF B(t) = {} THEN t
                      ELSE IF \E c \in B(t) : c.until.relief # "at" \/ c.until.at <= t THEN None
                      ELSE f[n - 1][Max({c.until.at : c \in B(t)})]
           Q(n, t) == IF n = 0 THEN None
                      ELSE IF t \in clear THEN t
                      ELSE IF t \in stuck THEN None
                      ELSE f[n - 1][onward[t]]
<1>1. \A t \in Nat : /\ t \in clear <=> B(t) = {}
                     /\ t \in stuck <=> \E c \in B(t) : c.until.relief # "at" \/ c.until.at <= t
                     /\ onward[t] = Max({c.until.at : c \in B(t)})
  BY DEF ClearOf, StuckOf, OnwardOf
<1> HIDE DEF clear, stuck, onward
<1>2. ASSUME NEW n \in 0..MaxProbeSteps, NEW t \in Nat PROVE P(n, t) = Q(n, t)
  <2>1. PICK b : b <=> \E c \in B(t) : c.until.relief # "at" \/ c.until.at <= t
    OBVIOUS
  <2>2. PICK m : m = Max({c.until.at : c \in B(t)})
    OBVIOUS
  <2>3. /\ t \in clear <=> B(t) = {}
        /\ t \in stuck <=> b
        /\ onward[t] = m
    BY <1>1, <2>1, <2>2
  <2>4. P(n, t) = IF n = 0 THEN None ELSE IF B(t) = {} THEN t ELSE IF b THEN None ELSE f[n - 1][m]
    BY <2>1, <2>2
  <2> HIDE DEF P, B
  <2> QED
    BY <2>3, <2>4
<1> HIDE DEF P, Q
<1>3. [n \in 0..MaxProbeSteps |-> [t \in Nat |-> P(n, t)]]
        = [n \in 0..MaxProbeSteps |-> [t \in Nat |-> Q(n, t)]]
  BY <1>2
<1>4. IsSafeProbe(f, s, need, preference) <=> f = [n \in 0..MaxProbeSteps |-> [t \in Nat |-> P(n, t)]]
  BY DEF IsSafeProbe, P
<1>5. IsProbe(f, clear, stuck, onward) <=> f = [n \in 0..MaxProbeSteps |-> [t \in Nat |-> Q(n, t)]]
  BY DEF IsProbe, Q
<1> QED
  BY <1>3, <1>4, <1>5 DEF clear, stuck, onward

LEMMA InjectedIs ==
  ASSUME NEW w \in Windows, NEW need \in Nat, NEW preference \in Preferences
  PROVE  /\ Injected(w, need, preference) \in Int
         /\ need < w.limit => Injected(w, need, preference) >= need
<1>1. w.limit \in Nat /\ preference.reserve \in Nat
  BY PacerAssumption, WindowsAssumption, Kinds
<1>2. PICK spare : spare = IF preference.mode = "sustain" THEN (w.limit * preference.reserve) \div 10000 ELSE 0
  OBVIOUS
<1>3. spare \in Nat
  <2>1. PICK product : product = w.limit * preference.reserve
    OBVIOUS
  <2>2. product \in Nat
    BY <1>1, <2>1
  <2>3. product \div 10000 \in Nat
    BY <2>2
  <2> QED
    BY <1>2, <2>1, <2>3
<1>4. PICK a, b : a = need + spare /\ b = w.limit - 1
  OBVIOUS
<1>5. a \in Int /\ b \in Int /\ a >= need /\ (need < w.limit => b >= need)
  BY <1>1, <1>3, <1>4
<1>6. Injected(w, need, preference) = Min({a, b})
  BY <1>2, <1>4 DEF Injected
<1> QED
  BY <1>5, <1>6, TwoIs

\* The forecast names no instant, or one from which on no window blocks the need.
LEMMA SafeAdmitIs ==
  ASSUME NEW s, IsUsage(s.usage), Pending(s) \in Nat, NEW need \in Nat, NEW preference \in Preferences,
         NEW start \in Nat, NEW at, at = EarliestSafeAdmit(s, need, preference, start)
  PROVE  at = None \/ (at \in Nat /\ at >= start /\ BlockedAt(s, need, preference, at) = {})
<1> DEFINE B(t) == BlockedAt(s, need, preference, t)
<1>1. PICK clear, stuck, onward :
        /\ clear = ClearOf(s, need, preference) /\ stuck = StuckOf(s, need, preference)
        /\ onward = OnwardOf(s, need, preference)
  OBVIOUS
<1>2. ASSUME NEW t \in Nat PROVE IsFiniteSet(B(t)) /\ \A c \in B(t) : c.until.relief = "at" => c.until.at \in Int
  <2>1. IsFiniteSet({Check(w, s, need, preference, t) : w \in Windows})
    <3>1. PICK f : f = [w \in Windows |-> Check(w, s, need, preference, t)]
      OBVIOUS
    <3>2. PICK T : T = {Check(w, s, need, preference, t) : w \in Windows}
      OBVIOUS
    <3>3. T = {f[w] : w \in Windows}
      BY <3>1, <3>2
    <3>4. IsFiniteSet(Windows)
      BY PacerAssumption, WindowsAssumption
    <3> QED
      BY <3>2, <3>3, <3>4, FiniteImage
  <2>2. IsFiniteSet(B(t))
    BY <2>1, FS_Subset DEF BlockedAt
  <2>3. ASSUME NEW w \in Windows, NEW c, c = Check(w, s, need, preference, t), c.until.relief = "at"
        PROVE  c.until.at \in Int
    <3>1. PICK o : o = Pending(s) + Injected(w, need, preference)
      OBVIOUS
    <3>2. o \in Int
      BY <3>1, InjectedIs
    <3>3. IsWindow(w)
      BY PacerAssumption, WindowsAssumption
    <3>4. c = Evaluate(w, s.usage, o, t)
      BY <2>3, <3>1 DEF Check
    <3> QED
      BY <2>3, <3>2, <3>3, <3>4, UntilIs
  <2>4. \A c \in B(t) : \E w \in Windows : c = Check(w, s, need, preference, t)
    BY DEF BlockedAt
  <2> QED
    BY <2>2, <2>3, <2>4
<1>3. MovesOn(clear, stuck, onward)
  <2> SUFFICES ASSUME NEW t \in Nat, t \notin clear, t \notin stuck
               PROVE  onward[t] \in Nat /\ onward[t] > t
    BY DEF MovesOn
  <2>1. B(t) # {} /\ \A c \in B(t) : c.until.relief = "at" /\ ~(c.until.at <= t)
    BY <1>1 DEF ClearOf, StuckOf
  <2>2. PICK S : S = {c.until.at : c \in B(t)}
    OBVIOUS
  <2>3. IsFiniteSet(S)
    <3>1. PICK f : f = [c \in B(t) |-> c.until.at]
      OBVIOUS
    <3>2. S = {f[c] : c \in B(t)}
      BY <2>2, <3>1
    <3> QED
      BY <1>2, <3>2, FiniteImage
  <2>4. S # {} /\ S \subseteq Int /\ \A x \in S : ~(x <= t)
    BY <1>2, <2>1, <2>2
  <2>5. Max(S) \in S
    BY <2>3, <2>4, MaxIs
  <2>6. onward[t] = Max(S)
    BY <1>1, <2>2 DEF OnwardOf
  <2>7. Max(S) \in Int /\ ~(Max(S) <= t)
    BY <2>4, <2>5
  <2> QED
    BY <2>6, <2>7
<1>4. PICK f : f = SafeProbe(s, need, preference)
  OBVIOUS
<1>5. \E g : IsSafeProbe(g, s, need, preference)
  BY <1>1, SafeProbeIs, ProbeExists
<1>6. IsSafeProbe(f, s, need, preference)
  BY <1>4, <1>5, Zenon DEF SafeProbe
<1>7. IsProbe(f, clear, stuck, onward)
  BY <1>1, <1>6, SafeProbeIs
<1>8. Finds(f, MaxProbeSteps, start, clear)
  BY <1>3, <1>7, ProbeFinds
<1>9. at = f[MaxProbeSteps][start]
  BY <1>4 DEF EarliestSafeAdmit, SafeProbe, IsSafeProbe, BlockedAt
<1> QED
  BY <1>1, <1>8, <1>9 DEF Finds, ClearOf
-----------------------------------------------------------------------------
(* try_admit: the order of the tasks. *)

\* ready_order is an order of the tasks, so it has a last one.
LEMMA LastReadyIn ==
  ASSUME NEW D \in SUBSET Tasks, D # {}
  PROVE  LastReady(D) \in D
<1> DEFINE R == {q \in D \X D : Before(q[1], q[2])}
<1>1. \A x, y \in D : <<x, y>> \in R <=> Before(x, y)
  OBVIOUS
<1>2. \A x \in D : x \in Nat /\ Rank[x] \in Int /\ Due[x] \in Int
  BY PacerAssumption, WindowsAssumption
<1>3. \A x, y \in D : x # y => Before(x, y) \/ Before(y, x)
  BY <1>2 DEF Before
<1>4. \A x, y, z \in D : Before(x, y) /\ Before(y, z) => Before(x, z)
  BY <1>2 DEF Before
<1>5. IsFiniteSet(D)
  BY PacerAssumption, WindowsAssumption, FS_Subset
<1> HIDE DEF R
<1>6. \A x, y \in D : x # y => <<x, y>> \in R \/ <<y, x>> \in R
  BY <1>1, <1>3
<1>7. \A x, y, z \in D : <<x, y>> \in R /\ <<y, z>> \in R => <<x, z>> \in R
  BY <1>1, <1>4
<1>8. \E x \in D : \A y \in D \ {x} : <<y, x>> \in R
  BY <1>5, <1>6, <1>7, FiniteLast
<1>9. \E x \in D : \A y \in D \ {x} : Before(y, x)
  BY <1>1, <1>8
<1> QED
  BY <1>9, Zenon DEF LastReady
-----------------------------------------------------------------------------
(* try_admit: the pass over the ready tasks. *)

IsPass(f, s, preference, instant) ==
  f = [D \in SUBSET Ready(s) |->
         IF D = {} THEN [s EXCEPT !.timer = None]
         ELSE Visit(f[D \ {LastReady(D)}], LastReady(D), preference, instant)]
Pass(s, preference, instant) == CHOOSE f : IsPass(f, s, preference, instant)

LEMMA ReadyFinite ==
  ASSUME NEW s
  PROVE  /\ Ready(s) \subseteq Tasks /\ IsFiniteSet(Ready(s))
         /\ \A D \in SUBSET Ready(s) :
              /\ IsFiniteSet(D) /\ Cardinality(D) \in Nat
              /\ D # {} => /\ LastReady(D) \in D /\ D \ {LastReady(D)} \in SUBSET Ready(s)
                           /\ Cardinality(D \ {LastReady(D)}) = Cardinality(D) - 1
<1>1. Ready(s) \subseteq Tasks
  BY DEF Ready
<1>2. IsFiniteSet(Ready(s))
  BY <1>1, PacerAssumption, WindowsAssumption, FS_Subset
<1>3. ASSUME NEW D \in SUBSET Ready(s)
      PROVE  /\ IsFiniteSet(D) /\ Cardinality(D) \in Nat
             /\ D # {} => /\ LastReady(D) \in D /\ D \ {LastReady(D)} \in SUBSET Ready(s)
                          /\ Cardinality(D \ {LastReady(D)}) = Cardinality(D) - 1
  <2>1. IsFiniteSet(D) /\ Cardinality(D) \in Nat
    BY <1>2, FS_Subset, FS_CardinalityType
  <2>2. D # {} => LastReady(D) \in D
    BY <1>1, LastReadyIn
  <2>3. D # {} => Cardinality(D \ {LastReady(D)}) = Cardinality(D) - 1
    BY <2>1, <2>2, FS_RemoveElement
  <2> QED
    BY <2>1, <2>2, <2>3
<1> QED
  BY <1>1, <1>2, <1>3

\* The pass is defined: one task after the other.
LEMMA PassExists ==
  ASSUME NEW s, NEW preference, NEW instant
  PROVE  \E f : IsPass(f, s, preference, instant)
<1> DEFINE S == Ready(s)
           base == [s EXCEPT !.timer = None]
           L(D) == LastReady(D)
           Rec(f, D) == IF D = {} THEN base ELSE Visit(f[D \ {L(D)}], L(D), preference, instant)
           Upto(f, n) == \A D \in SUBSET S : Cardinality(D) <= n => f[D] = Rec(f, D)
           Is(f) == f = [D \in SUBSET S |-> f[D]]
           T == {n \in Nat : \E f : Is(f) /\ Upto(f, n)}
<1>a. \A D \in SUBSET S : IsFiniteSet(D) /\ Cardinality(D) \in Nat
  BY ReadyFinite
<1>b. \A D \in SUBSET S : Cardinality(D) <= 0 => D = {}
  BY <1>a, FS_EmptySet
<1>0. \A D \in SUBSET S : /\ Cardinality(D) \in Nat
                          /\ D # {} => /\ D \ {L(D)} \in SUBSET S
                                       /\ Cardinality(D \ {L(D)}) = Cardinality(D) - 1
  BY ReadyFinite, FS_EmptySet
<1>00. IsFiniteSet(S)
  BY ReadyFinite
<1> HIDE DEF S, base, L
<1>1. 0 \in T
  <2> DEFINE f == [D \in SUBSET S |-> base]
  <2>1. \A D \in SUBSET S : f[D] = base
    OBVIOUS
  <2>2. Is(f)
    OBVIOUS
  <2> HIDE DEF f
  <2>4. Upto(f, 0)
    BY <2>1, <1>b
  <2> QED
    BY <2>2, <2>4
<1>2. \A n \in Nat : n \in T => n + 1 \in T
  <2> SUFFICES ASSUME NEW n \in Nat, n \in T PROVE n + 1 \in T
    OBVIOUS
  <2>1. PICK f : Is(f) /\ Upto(f, n)
    OBVIOUS
  <2> DEFINE g == [D \in SUBSET S |-> Rec(f, D)]
  <2>2. \A D \in SUBSET S : g[D] = Rec(f, D)
    OBVIOUS
  <2>3. Is(g)
    OBVIOUS
  <2> HIDE DEF g
  <2>4. ASSUME NEW D \in SUBSET S, Cardinality(D) <= n + 1 PROVE g[D] = Rec(g, D)
    <3>1. CASE D = {}
      BY <3>1, <2>2
    <3>2. CASE D # {}
      <4>1. D \ {L(D)} \in SUBSET S /\ Cardinality(D \ {L(D)}) <= n
        BY <1>0, <2>4, <3>2
      <4>2. g[D \ {L(D)}] = Rec(f, D \ {L(D)})
        BY <2>2, <4>1
      <4>3. f[D \ {L(D)}] = Rec(f, D \ {L(D)})
        BY <2>1, <4>1
      <4> QED
        BY <2>2, <3>2, <4>2, <4>3
    <3> QED
      BY <3>1, <3>2
  <2>5. Upto(g, n + 1)
    BY <2>4
  <2>6. n + 1 \in Nat
    OBVIOUS
  <2> HIDE DEF Upto, Is
  <2> QED
    BY <2>3, <2>5, <2>6
<1> HIDE DEF T
<1>3. Cardinality(S) \in T
  BY <1>0, <1>1, <1>2, SetInduction
<1>4. PICK f : Is(f) /\ Upto(f, Cardinality(S))
  BY <1>3 DEF T
<1>5. \A D \in SUBSET S : Cardinality(D) <= Cardinality(S)
  BY <1>00, FS_Subset
<1>6. \A D \in SUBSET S : f[D] = Rec(f, D)
  BY <1>4, <1>5
<1>7. f = [D \in SUBSET S |-> Rec(f, D)]
  BY <1>4, <1>6
<1> QED
  BY <1>7 DEF IsPass, S, base, L

\* What the pass starts from, and what it does to each set of tasks.
Passes(f, s, preference, instant) ==
  /\ TryAdmit(s, preference, instant) = f[Ready(s)]
  /\ f[{}] = [s EXCEPT !.timer = None]
  /\ \A D \in SUBSET Ready(s) : D # {} =>
       f[D] = Visit(f[D \ {LastReady(D)}], LastReady(D), preference, instant)

LEMMA PassIs ==
  ASSUME NEW s, NEW preference, NEW instant
  PROVE  \E f : Passes(f, s, preference, instant)
<1>1. PICK f : f = Pass(s, preference, instant)
  OBVIOUS
<1>2. IsPass(f, s, preference, instant)
  BY <1>1, PassExists, Zenon DEF Pass
<1>3. TryAdmit(s, preference, instant) = Pass(s, preference, instant)[Ready(s)]
  BY DEF TryAdmit, MapThenFoldSet, Pass, IsPass
<1>4. /\ f[{}] = [s EXCEPT !.timer = None]
      /\ \A D \in SUBSET Ready(s) : D # {} =>
           f[D] = Visit(f[D \ {LastReady(D)}], LastReady(D), preference, instant)
  BY <1>2 DEF IsPass
<1>5. Passes(f, s, preference, instant)
  BY <1>1, <1>3, <1>4 DEF Passes
<1> QED
  BY <1>5

\* What holds before the first task and is kept by each holds after the last.
LEMMA PassInduction ==
  ASSUME NEW s, NEW C, {} \in C,
         \A D \in SUBSET Ready(s) : D # {} /\ D \ {LastReady(D)} \in C => D \in C
  PROVE  Ready(s) \in C
<1> DEFINE T == {n \in Nat : \A D \in SUBSET Ready(s) : Cardinality(D) = n => D \in C}
<1>1. 0 \in T
  BY ReadyFinite, FS_EmptySet
<1>2. \A n \in Nat : n \in T => n + 1 \in T
  <2> SUFFICES ASSUME NEW n \in Nat, n \in T, NEW D \in SUBSET Ready(s), Cardinality(D) = n + 1
               PROVE  D \in C
    OBVIOUS
  <2>1. D # {}
    BY FS_EmptySet
  <2>2. D \ {LastReady(D)} \in SUBSET Ready(s) /\ Cardinality(D \ {LastReady(D)}) = n
    BY <2>1, ReadyFinite
  <2> QED
    BY <2>1, <2>2
<1> HIDE DEF T
<1>3. Cardinality(Ready(s)) \in T
  BY <1>1, <1>2, SetInduction, ReadyFinite
<1> QED
  BY <1>3 DEF T

-----------------------------------------------------------------------------
(* The controller's state, as a record. *)

IsState(x) ==
  x = [completed |-> x.completed, active |-> x.active, backoff |-> x.backoff,
       lastStart |-> x.lastStart, timer |-> x.timer, usage |-> x.usage, spend |-> x.spend,
       estimates |-> x.estimates]

\* What a pass leaves alone, and what it may add.
Grown(s, x) ==
  /\ IsState(x)
  /\ x.completed = s.completed /\ x.usage = s.usage /\ x.backoff = s.backoff
  /\ x.spend = s.spend /\ x.estimates = s.estimates
  /\ DOMAIN s.active \subseteq DOMAIN x.active
  /\ DOMAIN x.active \subseteq DOMAIN s.active \cup Ready(s)
  /\ \A t \in DOMAIN s.active : x.active[t] = s.active[t]

\* Two fields of the record set.
SetBoth(x, a, b) == [x EXCEPT !.active = a, !.lastStart = b]

LEMMA SetTwo ==
  ASSUME NEW x, IsState(x), NEW a, NEW b, NEW y, y = SetBoth(x, a, b)
  PROVE  /\ IsState(y) /\ y.completed = x.completed /\ y.usage = x.usage /\ y.backoff = x.backoff
         /\ y.spend = x.spend /\ y.estimates = x.estimates /\ y.lastStart = b /\ y.timer = x.timer
         /\ y.active = a
<1>1. PICK c, d, e, g, h, i, j, k :
        x = [completed |-> c, active |-> d, backoff |-> e, lastStart |-> g, timer |-> h,
             usage |-> i, spend |-> j, estimates |-> k]
  BY DEF IsState
<1>3. PICK z : z = [x EXCEPT !.active = a]
  OBVIOUS
<1>4. z = [completed |-> c, active |-> a, backoff |-> e, lastStart |-> g, timer |-> h,
           usage |-> i, spend |-> j, estimates |-> k]
  BY <1>1, <1>3
<1>5. [z EXCEPT !.lastStart = b] =
        [completed |-> c, active |-> a, backoff |-> e, lastStart |-> b, timer |-> h,
         usage |-> i, spend |-> j, estimates |-> k]
  BY <1>4
<1>2. y = [completed |-> c, active |-> a, backoff |-> e, lastStart |-> b, timer |-> h,
           usage |-> i, spend |-> j, estimates |-> k]
  BY <1>3, <1>5, Zenon DEF SetBoth
<1> QED
  BY <1>1, <1>2 DEF IsState

\* The timer set.
LEMMA SetTimer ==
  ASSUME NEW x, IsState(x), NEW a, NEW y, y = [x EXCEPT !.timer = a]
  PROVE  /\ IsState(y) /\ y.completed = x.completed /\ y.usage = x.usage /\ y.backoff = x.backoff
         /\ y.spend = x.spend /\ y.estimates = x.estimates /\ y.lastStart = x.lastStart /\ y.timer = a
         /\ y.active = x.active
<1>1. PICK c, d, e, g, h, i, j, k :
        x = [completed |-> c, active |-> d, backoff |-> e, lastStart |-> g, timer |-> h,
             usage |-> i, spend |-> j, estimates |-> k]
  BY DEF IsState
<1>2. [x EXCEPT !.timer = a] =
        [completed |-> c, active |-> d, backoff |-> e, lastStart |-> g, timer |-> a,
         usage |-> i, spend |-> j, estimates |-> k]
  BY <1>1
<1> QED
  BY <1>1, <1>2 DEF IsState

\* A visit leaves the state, starts the task, or sets the timer.
LEMMA VisitIs ==
  ASSUME NEW x, NEW t, NEW preference, NEW instant, NEW at, at = AdmitAt(x, t, preference, instant)
  PROVE  \/ Visit(x, t, preference, instant) = x
         \/ /\ t \notin DOMAIN x.active
            /\ ~(Cardinality(DOMAIN x.active) >= Fanout(preference))
            /\ at # None /\ at <= instant
            /\ Visit(x, t, preference, instant) = Start(x, t, instant)
         \/ /\ at # None /\ ~(at <= instant)
            /\ Visit(x, t, preference, instant) = [x EXCEPT !.timer = Earlier(x.timer, at)]
<1>1. \/ Visit(x, t, preference, instant) = x
      \/ /\ ~(Cardinality(DOMAIN x.active) >= Fanout(preference)) /\ t \notin DOMAIN x.active
         /\ Visit(x, t, preference, instant) = Place(x, t, at, instant)
  BY DEF Visit
<1>2. \/ Place(x, t, at, instant) = x
      \/ at # None /\ at <= instant /\ Place(x, t, at, instant) = Start(x, t, instant)
      \/ /\ at # None /\ ~(at <= instant)
         /\ Place(x, t, at, instant) = [x EXCEPT !.timer = Earlier(x.timer, at)]
  BY DEF Place
<1> QED
  BY <1>1, <1>2, Zenon

\* What is recorded of a task that starts.
HoldOf(x, t) == [hold |-> Need(EstimateOf(x, t), x.backoff[Principal[t]]),
                 floor |-> Need(EstimateOf(x, t), 100)]

LEMMA StartGrows ==
  ASSUME NEW x, NEW t, NEW instant, IsState(x), t \notin DOMAIN x.active,
         NEW y, y = Start(x, t, instant)
  PROVE  /\ IsState(y) /\ y.completed = x.completed /\ y.usage = x.usage /\ y.backoff = x.backoff
         /\ y.spend = x.spend /\ y.estimates = x.estimates /\ y.lastStart = instant /\ y.timer = x.timer
         /\ DOMAIN y.active = DOMAIN x.active \cup {t}
         /\ y.active[t] = HoldOf(x, t)
         /\ \A u \in DOMAIN x.active : y.active[u] = x.active[u]
<1> DEFINE a == With(x.active, {t}, HoldOf(x, t))
<1>1. Start(x, t, instant) = SetBoth(x, a, instant)
  BY DEF Start, SetBoth, HoldOf
<1>2. /\ DOMAIN a = DOMAIN x.active \cup {t}
      /\ a[t] = HoldOf(x, t)
      /\ \A u \in DOMAIN x.active : a[u] = x.active[u]
  BY DEF With
<1> HIDE DEF a
<1>4. /\ IsState(y) /\ y.completed = x.completed /\ y.usage = x.usage /\ y.backoff = x.backoff
      /\ y.spend = x.spend /\ y.estimates = x.estimates /\ y.lastStart = instant /\ y.timer = x.timer
      /\ y.active = a
  BY <1>1, SetTwo
<1> QED
  BY <1>2, <1>4, Zenon

\* A visit of a task that is ready.
LEMMA VisitGrows ==
  ASSUME NEW s, NEW x, Grown(s, x), NEW t \in Ready(s), NEW preference, NEW instant
  PROVE  Grown(s, Visit(x, t, preference, instant))
<1>1. PICK at : at = AdmitAt(x, t, preference, instant)
  OBVIOUS
<1>2. PICK y : y = Visit(x, t, preference, instant)
  OBVIOUS
<1>3. IsState(x)
  BY DEF Grown
<1>4. CASE y = x
  BY <1>2, <1>4
<1>5. CASE y = [x EXCEPT !.timer = Earlier(x.timer, at)]
  <2>1. PICK e : e = Earlier(x.timer, at)
    OBVIOUS
  <2>2. Grown(s, y)
    BY <1>3, <1>5, <2>1, SetTimer DEF Grown
  <2> QED
    BY <1>2, <2>2
<1>6. CASE t \notin DOMAIN x.active /\ y = Start(x, t, instant)
  <2>1. /\ IsState(y) /\ y.completed = x.completed /\ y.usage = x.usage /\ y.backoff = x.backoff
        /\ y.spend = x.spend /\ y.estimates = x.estimates
        /\ DOMAIN y.active = DOMAIN x.active \cup {t}
        /\ \A u \in DOMAIN x.active : y.active[u] = x.active[u]
    BY ONLY <1>3, <1>6, StartGrows
  <2>2. Grown(s, y)
    BY <2>1 DEF Grown
  <2> QED
    BY <1>2, <2>2
<1> QED
  BY <1>1, <1>2, <1>4, <1>5, <1>6, VisitIs

\* A pass only starts tasks that are ready.
LEMMA PassGrows ==
  ASSUME NEW s, IsState(s), NEW preference, NEW instant
  PROVE  Grown(s, TryAdmit(s, preference, instant))
<1>0. PICK f : Passes(f, s, preference, instant)
  BY PassIs
<1> DEFINE C == {D \in SUBSET Ready(s) : Grown(s, f[D])}
<1>1. {} \in C
  <2>1. PICK y : y = [s EXCEPT !.timer = None]
    OBVIOUS
  <2>2. Grown(s, y)
    BY <2>1, SetTimer DEF Grown
  <2> QED
    BY <1>0, <2>1, <2>2 DEF Passes
<1>2. ASSUME NEW D \in SUBSET Ready(s), D # {}, D \ {LastReady(D)} \in C
      PROVE  D \in C
  <2>0. PICK t, x : t = LastReady(D) /\ x = f[D \ {t}]
    OBVIOUS
  <2>1. t \in Ready(s) /\ Grown(s, x)
    BY <1>2, <2>0, ReadyFinite
  <2>2. f[D] = Visit(x, t, preference, instant)
    BY <1>0, <1>2, <2>0 DEF Passes
  <2> QED
    BY <2>1, <2>2, VisitGrows
<1> HIDE DEF C
<1>3. Ready(s) \in C
  BY <1>1, <1>2, PassInduction
<1> QED
  BY <1>0, <1>3 DEF C, Passes

\* A state grown twice, or not at all.
LEMMA GrownTwice ==
  ASSUME NEW s, NEW x, NEW y, Grown(s, x), Grown(x, y)
  PROVE  Grown(s, y)
<1>1. Ready(x) = Ready(s)
  BY DEF Grown, Ready
<1> QED
  BY <1>1 DEF Grown

LEMMA GrownSame ==
  ASSUME NEW s, IsState(s)
  PROVE  Grown(s, s)
  BY DEF Grown
-----------------------------------------------------------------------------
(* The events, as what they do to the record. *)

Reported(f, t, amount) == [f EXCEPT ![t] = Larger(@, amount)]
Cleared(f, t) == [f EXCEPT ![t] = 0]
BackoffDone(s, t) ==
  [s.backoff EXCEPT ![Principal[t]] = IF s.spend[t] <= s.active[t].hold THEN 100 ELSE @]
BackoffSpent(s, t, amount) ==
  [s.backoff EXCEPT ![Principal[t]] =
     IF amount > s.active[t].hold
     THEN Larger(@, Min({CeilDiv(amount, Larger(s.active[t].hold, 1)) * 100, MaxBackoff})) ELSE @]
RecordOf(t, at, amount) == [id |-> t, at |-> at, amount |-> amount]

LEMMA OnCompletedIs ==
  ASSUME NEW s, IsState(s), NEW t, NEW at, t \in DOMAIN s.active, NEW y, y = OnCompleted(s, t, at)
  PROVE  /\ IsState(y)
         /\ y.active = Without(s.active, t)
         /\ y.completed = s.completed \cup {t}
         /\ y.spend = Cleared(s.spend, t)
         /\ y.backoff = BackoffDone(s, t)
         /\ y.usage = s.usage \cup {RecordOf(t, at, Settled(s, t))}
         /\ y.lastStart = s.lastStart /\ y.timer = s.timer /\ y.estimates = s.estimates
<1>1. PICK c, a, b, l, ti, u, sp, r :
        s = [completed |-> c, active |-> a, backoff |-> b, lastStart |-> l, timer |-> ti,
             usage |-> u, spend |-> sp, estimates |-> r]
  BY DEF IsState
<1>2. PICK a2, c2, sp2, b2, u2 :
        /\ a2 = Without(a, t) /\ c2 = c \cup {t} /\ sp2 = [sp EXCEPT ![t] = 0]
        /\ b2 = [b EXCEPT ![Principal[t]] = IF s.spend[t] <= s.active[t].hold THEN 100 ELSE @]
        /\ u2 = u \cup {[id |-> t, at |-> at, amount |-> Settled(s, t)]}
  OBVIOUS
<1>3. y = [completed |-> c2, active |-> a2, backoff |-> b2, lastStart |-> l, timer |-> ti,
           usage |-> u2, spend |-> sp2, estimates |-> r]
  BY <1>1, <1>2 DEF OnCompleted
<1>4. /\ IsState(y) /\ y.active = a2 /\ y.completed = c2 /\ y.spend = sp2 /\ y.backoff = b2
      /\ y.usage = u2 /\ y.lastStart = l /\ y.timer = ti /\ y.estimates = r
  BY <1>3 DEF IsState
<1>5. /\ s.active = a /\ s.completed = c /\ s.spend = sp /\ s.backoff = b
      /\ s.usage = u /\ s.lastStart = l /\ s.timer = ti /\ s.estimates = r
  BY <1>1
<1> QED
  BY <1>2, <1>4, <1>5, Zenon DEF Cleared, BackoffDone, RecordOf

LEMMA OnSpendIs ==
  ASSUME NEW s, IsState(s), NEW t, NEW amount, t \in DOMAIN s.active, NEW y, y = OnSpend(s, t, amount)
  PROVE  /\ IsState(y)
         /\ y.active = s.active /\ y.completed = s.completed /\ y.usage = s.usage
         /\ y.lastStart = s.lastStart /\ y.timer = s.timer /\ y.estimates = s.estimates
         /\ y.spend = Reported(s.spend, t, amount)
         /\ y.backoff = BackoffSpent(s, t, amount)
<1>1. PICK c, a, b, l, ti, u, sp, r :
        s = [completed |-> c, active |-> a, backoff |-> b, lastStart |-> l, timer |-> ti,
             usage |-> u, spend |-> sp, estimates |-> r]
  BY DEF IsState
<1>2. PICK ratio : ratio = Min({CeilDiv(amount, Larger(s.active[t].hold, 1)) * 100, MaxBackoff})
  OBVIOUS
<1>3. PICK sp2, b2 :
        /\ sp2 = [sp EXCEPT ![t] = Larger(@, amount)]
        /\ b2 = [b EXCEPT ![Principal[t]] = IF amount > s.active[t].hold THEN Larger(@, ratio) ELSE @]
  OBVIOUS
<1>4. y = [completed |-> c, active |-> a, backoff |-> b2, lastStart |-> l, timer |-> ti,
           usage |-> u, spend |-> sp2, estimates |-> r]
  BY <1>1, <1>2, <1>3 DEF OnSpend
<1>5. /\ IsState(y) /\ y.active = a /\ y.completed = c /\ y.spend = sp2 /\ y.backoff = b2
      /\ y.usage = u /\ y.lastStart = l /\ y.timer = ti /\ y.estimates = r
  BY <1>4 DEF IsState
<1>6. /\ s.active = a /\ s.completed = c /\ s.spend = sp /\ s.backoff = b
      /\ s.usage = u /\ s.lastStart = l /\ s.timer = ti /\ s.estimates = r
  BY <1>1
<1> QED
  BY <1>2, <1>3, <1>5, <1>6, Zenon DEF Reported, BackoffSpent

LEMMA RestartedIs ==
  ASSUME NEW s, IsState(s), NEW y, y = Restarted(s)
  PROVE  /\ IsState(y)
         /\ y.active = <<>> /\ y.completed = s.completed /\ y.usage = s.usage
         /\ y.lastStart = s.lastStart /\ y.timer = None /\ y.estimates = s.estimates
         /\ y.spend = [t \in Tasks |-> 0] /\ y.backoff = [q \in Principals |-> 100]
  BY DEF Restarted, Fresh, IsState

LEMMA OnRevisedIs ==
  ASSUME NEW s, IsState(s), NEW t, NEW e, t \notin DOMAIN s.active \cup s.completed, NEW y, y = OnRevised(s, t, e)
  PROVE  /\ IsState(y)
         /\ y.active = s.active /\ y.completed = s.completed /\ y.usage = s.usage /\ y.spend = s.spend
         /\ y.lastStart = s.lastStart /\ y.timer = s.timer /\ y.backoff = s.backoff
         /\ y.estimates = [s.estimates EXCEPT ![t] = e]
<1>1. PICK c, a, b, l, ti, u, sp, r :
        s = [completed |-> c, active |-> a, backoff |-> b, lastStart |-> l, timer |-> ti,
             usage |-> u, spend |-> sp, estimates |-> r]
  BY DEF IsState
<1>2. PICK r2 : r2 = [r EXCEPT ![t] = e]
  OBVIOUS
<1>3. y = [completed |-> c, active |-> a, backoff |-> b, lastStart |-> l, timer |-> ti,
           usage |-> u, spend |-> sp, estimates |-> r2]
  BY <1>1, <1>2 DEF OnRevised
<1>4. /\ IsState(y) /\ y.active = a /\ y.completed = c /\ y.spend = sp /\ y.backoff = b
      /\ y.usage = u /\ y.lastStart = l /\ y.timer = ti /\ y.estimates = r2
  BY <1>3 DEF IsState
<1>5. /\ s.active = a /\ s.completed = c /\ s.spend = sp /\ s.backoff = b
      /\ s.usage = u /\ s.lastStart = l /\ s.timer = ti /\ s.estimates = r
  BY <1>1
<1> QED
  BY <1>2, <1>4, <1>5, Zenon

-----------------------------------------------------------------------------
(* The controller, typed. *)

IsController(s) ==
  /\ IsState(s)
  /\ s.completed \subseteq Tasks
  /\ DOMAIN s.active \subseteq Tasks \ s.completed
  /\ \A t \in DOMAIN s.active : s.active[t].hold \in Nat /\ s.active[t].floor \in Nat
  /\ s.spend \in [Tasks -> Nat] /\ \A t \in Tasks \ DOMAIN s.active : s.spend[t] = 0
  /\ s.estimates \in [Tasks -> Nat \cup {None}]
  /\ s.backoff \in [Principals -> {b \in Nat : b >= 100}]
  /\ s.lastStart \in Nat \cup {None}
  /\ s.timer \in Nat \cup {None}
  /\ IsUsage(s.usage) /\ \A u \in s.usage : u.id \in s.completed

LEMMA LimitIs == Limit \in Nat /\ \A w \in Windows : Limit <= w.limit
<1>1. PICK S : S = {w.limit : w \in Windows}
  OBVIOUS
<1>2. S # {} /\ S \subseteq Nat
  BY <1>1, PacerAssumption, WindowsAssumption, Kinds
<1>3. Min(S) \in S /\ \A y \in S : Min(S) <= y
  BY <1>2, MinNat
<1> QED
  BY <1>1, <1>2, <1>3 DEF Limit

LEMMA NeedIs ==
  ASSUME NEW estimate \in Nat \cup {None}, NEW backoff \in Nat, NEW need, need = Need(estimate, backoff)
  PROVE  /\ need = None <=> (estimate = None \/ Larger(estimate, Floor) >= Limit)
         /\ need # None => need \in Nat /\ need < Limit
<1>0. Floor \in Nat /\ None \notin Nat /\ Limit \in Nat
  BY PacerAssumption, WindowsAssumption, LimitIs
<1>1. CASE estimate = None \/ Larger(estimate, Floor) >= Limit
  BY <1>1 DEF Need
<1>2. CASE ~(estimate = None \/ Larger(estimate, Floor) >= Limit)
  <2>1. PICK l : l = Larger(estimate, Floor)
    OBVIOUS
  <2>2. l \in Nat /\ l < Limit
    BY <1>0, <1>2, <2>1 DEF Larger
  <2>3. PICK product : product = l * backoff
    OBVIOUS
  <2>4. product \in Nat
    BY <2>2, <2>3
  <2>5. PICK a, b : a = product \div 100 /\ b = Limit - 1
    OBVIOUS
  <2>6. a \in Nat /\ b \in Nat /\ b < Limit
    BY <1>0, <2>2, <2>4, <2>5
  <2>7. need = Min({a, b})
    BY <1>2, <2>1, <2>3, <2>5 DEF Need
  <2>8. need = IF a <= b THEN a ELSE b
    BY <2>6, <2>7, TwoIs
  <2> QED
    BY <1>0, <1>2, <2>6, <2>8
<1> QED
  BY <1>1, <1>2

\* A backoff of a whole or more never makes the need smaller than the estimate.
LEMMA NeedCovers ==
  ASSUME NEW estimate \in Nat, NEW backoff \in Nat, backoff >= 100, Need(estimate, backoff) # None
  PROVE  Need(estimate, backoff) >= estimate
<1>0. Floor \in Nat /\ None \notin Nat /\ Limit \in Nat
  BY PacerAssumption, WindowsAssumption, LimitIs
<1>2. ~(estimate = None \/ Larger(estimate, Floor) >= Limit)
  BY DEF Need
<1>3. PICK l : l = Larger(estimate, Floor)
  OBVIOUS
<1>4. l \in Nat /\ l < Limit /\ l >= estimate
  BY <1>0, <1>2, <1>3 DEF Larger
<1>5. PICK extra : extra = backoff - 100
  OBVIOUS
<1>6. extra \in Nat /\ backoff = 100 + extra
  BY <1>5
<1>7. PICK more : more = l * extra
  OBVIOUS
<1>8. more \in Nat /\ l * backoff = l * 100 + more
  BY <1>4, <1>6, <1>7
<1>9. PICK a, b : a = (l * 100 + more) \div 100 /\ b = Limit - 1
  OBVIOUS
<1>10. a \in Nat /\ b \in Nat /\ a >= l /\ b >= l
  BY <1>0, <1>4, <1>8, <1>9
<1>11. Need(estimate, backoff) = Min({a, b})
  BY <1>2, <1>3, <1>8, <1>9 DEF Need
<1> QED
  BY <1>4, <1>10, <1>11, TwoIs

LEMMA SpacingIs ==
  ASSUME NEW estimate \in Nat \cup {None}
  PROVE  Spacing(estimate) \in Nat
<1> DEFINE need == IF estimate = None THEN 0 ELSE estimate
           W1 == {v \in Windows : v.kind = "sliding" /\ v.limit > 0}
           W2 == {v \in Windows : v.kind = "bucket"}
           f == [w \in W1 |-> CeilDiv(need * w.length, w.limit)]
           g == [w \in W2 |-> CeilDiv(need * w.period, w.refill)]
           A == {f[w] : w \in W1}
           B == {g[w] : w \in W2}
<1>1. need \in Nat
  OBVIOUS
<1>2. IsFiniteSet(W1) /\ IsFiniteSet(W2)
  BY PacerAssumption, WindowsAssumption, FS_Subset
<1>3. \A w \in W1 : w.limit \in Nat \ {0} /\ w.length \in Nat
  BY PacerAssumption, WindowsAssumption, Kinds
<1>4. \A w \in W2 : w.refill \in Nat \ {0} /\ w.period \in Nat
  BY PacerAssumption, WindowsAssumption, Kinds DEF Bucket
<1>c. ASSUME NEW a \in Nat, NEW b \in Nat \ {0} PROVE CeilDiv(a, b) \in Nat
  BY DEF CeilDiv
<1>5. /\ \A w \in W1 : f[w] = CeilDiv(need * w.length, w.limit)
      /\ \A w \in W2 : g[w] = CeilDiv(need * w.period, w.refill)
  OBVIOUS
<1>6. Spacing(estimate) = IF A \cup B = {} THEN 0 ELSE Max(A \cup B)
  <2>1. A = {CeilDiv(need * w.length, w.limit) : w \in W1}
    OBVIOUS
  <2>2. B = {CeilDiv(need * w.period, w.refill) : w \in W2}
    OBVIOUS
  <2> HIDE DEF A, B
  <2> QED
    BY <2>1, <2>2 DEF Spacing
<1> HIDE DEF need, W1, W2, f, g
<1>7. ASSUME NEW w \in W1 PROVE f[w] \in Nat
  <2>1. PICK a, b : a = need * w.length /\ b = w.limit
    OBVIOUS
  <2>2. a \in Nat /\ b \in Nat \ {0}
    BY <1>1, <1>3, <2>1
  <2> QED
    BY <1>5, <1>c, <2>1, <2>2
<1>8. ASSUME NEW w \in W2 PROVE g[w] \in Nat
  <2>1. PICK a, b : a = need * w.period /\ b = w.refill
    OBVIOUS
  <2>2. a \in Nat /\ b \in Nat \ {0}
    BY <1>1, <1>4, <2>1
  <2> QED
    BY <1>5, <1>c, <2>1, <2>2
<1>9. A \subseteq Nat /\ B \subseteq Nat
  BY <1>7, <1>8
<1>10. IsFiniteSet(A) /\ IsFiniteSet(B)
  BY <1>2, FiniteImage
<1> HIDE DEF A, B
<1>11. PICK P : P = A \cup B
  OBVIOUS
<1>12. IsFiniteSet(P)
  BY <1>10, <1>11, FS_Union
<1>13. P \subseteq Nat /\ P \subseteq Int
  BY <1>9, <1>11
<1>14. P # {} => Max(P) \in P
  BY <1>12, <1>13, MaxIs
<1> QED
  BY <1>6, <1>11, <1>13, <1>14

LEMMA NextWorkingIs ==
  ASSUME NEW preference \in Preferences, NEW t \in Nat
  PROVE  NextWorking(preference, t) \in Nat /\ NextWorking(preference, t) >= t
<1>1. preference.day \in Nat \ {0} /\ preference.open \in Nat /\ preference.close \in Nat
  BY PacerAssumption, WindowsAssumption
<1>2. PICK hour : hour = t % preference.day
  OBVIOUS
<1>3. hour \in 0..(preference.day - 1)
  BY <1>1, <1>2
<1>4. NextWorking(preference, t) = IF hour < preference.open THEN t - hour + preference.open
                                   ELSE IF hour >= preference.close THEN t - hour + preference.day + preference.open
                                   ELSE t
  BY <1>2 DEF NextWorking
<1> QED
  BY <1>1, <1>3, <1>4

LEMMA EarliestPacedIs ==
  ASSUME NEW s, s.lastStart \in Nat \cup {None}, NEW estimate \in Nat \cup {None},
         NEW preference \in Preferences, NEW t \in Nat, NEW e, e = EarliestPaced(s, estimate, preference, t)
  PROVE  /\ e \in Nat /\ e >= t
         /\ preference.mode = "sustain" =>
              /\ e >= NextWorking(preference, t)
              /\ s.lastStart # None => e >= s.lastStart + Spacing(estimate)
<1>1. NextWorking(preference, t) \in Nat /\ NextWorking(preference, t) >= t
  BY NextWorkingIs
<1>2. PICK b : b = IF s.lastStart = None THEN 0 ELSE s.lastStart + Spacing(estimate)
  OBVIOUS
<1>3. b \in Nat
  BY <1>2, SpacingIs, PacerAssumption, WindowsAssumption
<1>4. e = IF preference.mode = "burst" THEN t ELSE Larger(NextWorking(preference, t), b)
  BY <1>2 DEF EarliestPaced
<1> QED
  BY <1>1, <1>2, <1>3, <1>4 DEF Larger

-----------------------------------------------------------------------------
(* What the active tasks take. *)

Load(s) == [t \in DOMAIN s.active |-> Larger(s.active[t].hold, s.spend[t])]

Loaded(s) ==
  /\ IsFiniteSet(DOMAIN s.active)
  /\ \A t \in DOMAIN s.active : s.active[t].hold \in Nat /\ s.spend[t] \in Nat

LEMMA ControllerLoaded ==
  ASSUME NEW s, IsController(s)
  PROVE  Loaded(s)
<1>1. IsFiniteSet(DOMAIN s.active)
  BY PacerAssumption, WindowsAssumption, FS_Subset DEF IsController
<1> QED
  BY <1>1 DEF IsController, Loaded

LEMMA PendingIs ==
  ASSUME NEW s, Loaded(s)
  PROVE  /\ Pending(s) = SumOver(Load(s), DOMAIN s.active) /\ Pending(s) \in Nat
         /\ Taken(s) = Pending(s)
         /\ Ints(Load(s), DOMAIN s.active)
<1>1. PICK f, D : f = Load(s) /\ D = DOMAIN s.active
  OBVIOUS
<1>2. Ints(f, D) /\ Above0(f, D) /\ DOMAIN f = D
  BY <1>1 DEF Load, Loaded, Ints, Above0, Larger
<1>3. Pending(s) = SumOver(f, D)
  BY <1>1, <1>2, SumFunctionIs DEF Pending, Load
<1>4. Load(s) = [t \in DOMAIN s.active |-> Max({s.active[t].hold, s.spend[t]})]
  <2>1. ASSUME NEW t \in DOMAIN s.active
        PROVE  Larger(s.active[t].hold, s.spend[t]) = Max({s.active[t].hold, s.spend[t]})
    <3>1. PICK a, b : a = s.active[t].hold /\ b = s.spend[t]
      OBVIOUS
    <3>2. a \in Int /\ b \in Int
      BY <3>1 DEF Loaded
    <3> QED
      BY <3>1, <3>2, TwoIs
  <2> QED
    BY <2>1 DEF Load
<1>5. Taken(s) = Pending(s)
  BY <1>4 DEF Taken, Pending, Load
<1> QED
  BY <1>1, <1>2, <1>3, <1>5, SumPositive

\* A start adds its hold.
LEMMA PendingStarted ==
  ASSUME NEW x, Loaded(x), NEW t, t \notin DOMAIN x.active, x.spend[t] = 0,
         NEW y, y.spend = x.spend, DOMAIN y.active = DOMAIN x.active \cup {t},
         y.active[t].hold \in Nat, \A u \in DOMAIN x.active : y.active[u] = x.active[u]
  PROVE  Loaded(y) /\ Pending(y) = Pending(x) + y.active[t].hold
<1>1. IsFiniteSet(DOMAIN y.active)
  BY FS_AddElement DEF Loaded
<1>2. Loaded(y)
  BY <1>1 DEF Loaded
<1>3. PICK f, g, D : f = Load(x) /\ g = Load(y) /\ D = DOMAIN x.active
  OBVIOUS
<1>4. Ints(f, D) /\ Pending(x) = SumOver(f, D) /\ Pending(y) = SumOver(g, D \cup {t})
  BY <1>2, <1>3, PendingIs
<1>5. \A u \in D : f[u] = g[u]
  BY <1>3 DEF Load
<1>6. Ints(g, D) /\ SumOver(g, D) = SumOver(f, D)
  BY <1>4, <1>5, SumSame DEF Ints
<1>7. g[t] = y.active[t].hold
  BY <1>3 DEF Load, Larger
<1>8. SumOver(g, D \cup {t}) = g[t] + SumOver(g, D)
  BY <1>3, <1>6, <1>7, SumAdd
<1>9. SumOver(f, D) \in Int
  BY <1>4, SumIs
<1> QED
  BY <1>2, <1>4, <1>6, <1>7, <1>8, <1>9

(* When a task may start. *)

LEMMA AdmitAtIs ==
  ASSUME NEW x, IsController(x), NEW t \in Tasks, NEW preference \in Preferences, NEW instant \in Nat,
         NEW at, at = AdmitAt(x, t, preference, instant), at # None,
         NEW need, need = Need(EstimateOf(x, t), x.backoff[Principal[t]]),
         NEW earliest, earliest = EarliestPaced(x, EstimateOf(x, t), preference, instant)
  PROVE  /\ need \in Nat /\ need < Limit
         /\ earliest \in Nat /\ earliest >= instant
         /\ at \in Nat /\ at >= earliest
         /\ BlockedAt(x, need, preference, at) = {}
         /\ ~PastCutoff(preference, at, instant)
<1>1. EstimateOf(x, t) \in Nat \cup {None}
  BY DEF IsController, EstimateOf
<1>2. PICK b : b = x.backoff[Principal[t]]
  OBVIOUS
<1>3. b \in Nat
  BY <1>2 DEF IsController, Principals
<1>4. PICK safe : safe = EarliestSafeAdmit(x, need, preference, earliest)
  OBVIOUS
<1>5. need # None /\ at = BeforeCutoff(safe, preference, instant)
  BY <1>4 DEF AdmitAt
<1>6. at = safe /\ ~PastCutoff(preference, at, instant)
  BY <1>5 DEF BeforeCutoff
<1>7. need \in Nat /\ need < Limit
  BY <1>1, <1>2, <1>3, <1>5, NeedIs
<1>8. x.lastStart \in Nat \cup {None} /\ IsUsage(x.usage)
  BY DEF IsController
<1>9. earliest \in Nat /\ earliest >= instant
  BY <1>1, <1>8, EarliestPacedIs
<1>10. Pending(x) \in Nat
  BY ControllerLoaded, PendingIs
<1>11. safe = None \/ (safe \in Nat /\ safe >= earliest /\ BlockedAt(x, need, preference, safe) = {})
  BY <1>4, <1>7, <1>8, <1>9, <1>10, SafeAdmitIs
<1> QED
  BY <1>6, <1>7, <1>9, <1>11

LEMMA AdmitNow ==
  ASSUME NEW x, IsController(x), NEW t \in Tasks, NEW preference \in Preferences, NEW instant \in Nat,
         NEW at, at = AdmitAt(x, t, preference, instant), at # None, at <= instant,
         NEW need, need = Need(EstimateOf(x, t), x.backoff[Principal[t]])
  PROVE  /\ need \in Nat /\ need < Limit
         /\ BlockedAt(x, need, preference, instant) = {}
         /\ ~PastCutoff(preference, instant, instant)
         /\ preference.mode = "sustain" =>
              /\ NextWorking(preference, instant) = instant
              /\ x.lastStart # None => instant >= x.lastStart + Spacing(EstimateOf(x, t))
<1>1. PICK earliest : earliest = EarliestPaced(x, EstimateOf(x, t), preference, instant)
  OBVIOUS
<1>2. /\ need \in Nat /\ need < Limit
      /\ earliest \in Nat /\ earliest >= instant
      /\ at \in Nat /\ at >= earliest
      /\ BlockedAt(x, need, preference, at) = {}
      /\ ~PastCutoff(preference, at, instant)
  BY <1>1, AdmitAtIs
<1>3. at = instant /\ earliest = instant
  BY <1>2
<1>4. EstimateOf(x, t) \in Nat \cup {None} /\ x.lastStart \in Nat \cup {None}
  BY DEF IsController, EstimateOf
<1>5. preference.mode = "sustain" =>
        /\ earliest >= NextWorking(preference, instant)
        /\ x.lastStart # None => earliest >= x.lastStart + Spacing(EstimateOf(x, t))
  BY <1>1, <1>4, EarliestPacedIs
<1>6. NextWorking(preference, instant) \in Nat /\ NextWorking(preference, instant) >= instant
  BY NextWorkingIs
<1> QED
  BY <1>2, <1>3, <1>5, <1>6

\* A task that starts leaves every window with something.
FitsAll(y, instant) == \A w \in Windows : ~Blocks(w, y.usage, Taken(y), instant)

LEMMA StartFits ==
  ASSUME NEW x, IsController(x), NEW t \in Tasks \ DOMAIN x.active, NEW preference \in Preferences,
         NEW instant \in Nat, NEW need \in Nat, need < Limit,
         BlockedAt(x, need, preference, instant) = {},
         NEW y, y.usage = x.usage, y.spend = x.spend, DOMAIN y.active = DOMAIN x.active \cup {t},
         y.active[t].hold = need, \A u \in DOMAIN x.active : y.active[u] = x.active[u]
  PROVE  FitsAll(y, instant)
<1>1. Loaded(x) /\ x.spend[t] = 0 /\ IsUsage(x.usage)
  BY ControllerLoaded DEF IsController
<1>2. Loaded(y) /\ Pending(y) = Pending(x) + need
  BY <1>1, PendingStarted
<1>3. Taken(y) = Pending(x) + need /\ Pending(x) \in Nat
  BY <1>1, <1>2, PendingIs
<1>4. ASSUME NEW w \in Windows PROVE ~Blocks(w, y.usage, Taken(y), instant)
  <2>1. IsWindow(w)
    BY PacerAssumption, WindowsAssumption
  <2>2. need < w.limit
    BY LimitIs, Kinds, <2>1
  <2>3. PICK o : o = Pending(x) + Injected(w, need, preference)
    OBVIOUS
  <2>4. o \in Int /\ Taken(y) \in Int /\ Taken(y) <= o
    BY <1>3, <2>2, <2>3, InjectedIs
  <2>5. ~Check(w, x, need, preference, instant).blocks
    BY DEF BlockedAt
  <2>6. ~Blocks(w, x.usage, o, instant)
    BY <2>3, <2>5 DEF Blocks, Check
  <2> QED
    BY <1>1, <2>1, <2>4, <2>6, BlocksMonotone
<1> QED
  BY <1>4 DEF FitsAll

-----------------------------------------------------------------------------
(* What a pass starts fits. *)

\* What is asked of the starts that lead from s to x.
StartsOK(s, x, preference, instant) ==
  /\ FitsAll(x, instant)
  /\ ~PastCutoff(preference, instant, instant)
  /\ Cardinality(DOMAIN x.active) <= Fanout(preference)
  /\ preference.mode = "sustain" =>
       /\ NextWorking(preference, instant) = instant
       /\ \A t \in DOMAIN x.active \ DOMAIN s.active :
            s.lastStart # None => instant >= s.lastStart + Spacing(s.estimates[t])

\* What runs holds, and will settle at, no less than its estimate.
Held(x) ==
  \A t \in DOMAIN x.active :
    x.estimates[t] \in Nat /\ x.active[t].hold >= x.estimates[t] /\ x.active[t].floor >= x.estimates[t]

PassOK(s, x, preference, instant) ==
  /\ Grown(s, x) /\ IsController(x)
  /\ DOMAIN x.active \subseteq DOMAIN s.active => x.lastStart = s.lastStart
  /\ ~(DOMAIN x.active \subseteq DOMAIN s.active) =>
       x.lastStart = instant /\ StartsOK(s, x, preference, instant)
  /\ Held(s) => Held(x)

\* Only what a task is recorded with, the last start and the timer differ.
LEMMA TimerTyped ==
  ASSUME NEW x, IsController(x), NEW a \in Nat \cup {None}, NEW y, y = [x EXCEPT !.timer = a]
  PROVE  IsController(y) /\ y.active = x.active /\ y.lastStart = x.lastStart
         /\ y.usage = x.usage /\ y.spend = x.spend /\ Taken(y) = Taken(x)
<1>1. /\ IsState(y) /\ y.completed = x.completed /\ y.usage = x.usage /\ y.backoff = x.backoff
      /\ y.spend = x.spend /\ y.estimates = x.estimates /\ y.lastStart = x.lastStart /\ y.timer = a
      /\ y.active = x.active
  BY SetTimer DEF IsController
<1> QED
  BY <1>1 DEF IsController, Taken

LEMMA StartTyped ==
  ASSUME NEW x, IsController(x), NEW t \in Tasks \ x.completed, t \notin DOMAIN x.active, NEW instant \in Nat,
         Need(EstimateOf(x, t), x.backoff[Principal[t]]) \in Nat,
         NEW y, y = Start(x, t, instant)
  PROVE  IsController(y) /\ (Held(x) => Held(y))
<1>1. /\ IsState(y) /\ y.completed = x.completed /\ y.usage = x.usage /\ y.backoff = x.backoff
      /\ y.spend = x.spend /\ y.estimates = x.estimates /\ y.lastStart = instant /\ y.timer = x.timer
      /\ DOMAIN y.active = DOMAIN x.active \cup {t}
      /\ y.active[t] = HoldOf(x, t)
      /\ \A u \in DOMAIN x.active : y.active[u] = x.active[u]
  BY StartGrows DEF IsController
<1>2. EstimateOf(x, t) \in Nat \cup {None}
  BY DEF IsController, EstimateOf
<1>3. PICK b, n : b = x.backoff[Principal[t]] /\ n = Need(EstimateOf(x, t), 100)
  OBVIOUS
<1>4. b \in Nat /\ b >= 100
  BY <1>3 DEF IsController, Principals
<1>5. Need(EstimateOf(x, t), b) # None
  BY <1>3, PacerAssumption, WindowsAssumption
<1>6. n \in Nat
  <2>1. PICK e, m : e = EstimateOf(x, t) /\ m = Need(e, b)
    OBVIOUS
  <2>2. e \in Nat \cup {None} /\ m # None /\ n = Need(e, 100)
    BY <1>2, <1>3, <1>5, <2>1
  <2>3. ~(e = None \/ Larger(e, Floor) >= Limit)
    BY <1>4, <2>1, <2>2, NeedIs
  <2> QED
    BY <2>2, <2>3, NeedIs
<1>7. y.active[t].hold \in Nat /\ y.active[t].floor \in Nat
  BY <1>1, <1>3, <1>6 DEF HoldOf
<1>8. \A u \in DOMAIN y.active : y.active[u].hold \in Nat /\ y.active[u].floor \in Nat
  BY <1>1, <1>7 DEF IsController
<1>9. DOMAIN y.active \subseteq Tasks \ y.completed
  BY <1>1 DEF IsController
<1>10. IsController(y)
  BY <1>1, <1>8, <1>9 DEF IsController
<1>11. /\ x.estimates[t] \in Nat
       /\ y.active[t].hold >= x.estimates[t] /\ y.active[t].floor >= x.estimates[t]
  <2>1. PICK e : e = EstimateOf(x, t)
    OBVIOUS
  <2>2. e \in Nat /\ Need(e, b) # None /\ Need(e, 100) # None
    BY <1>2, <1>3, <1>5, <1>6, <2>1, PacerAssumption, WindowsAssumption DEF Need
  <2>3. Need(e, b) >= e /\ Need(e, 100) >= e
    BY <1>4, <2>2, NeedCovers
  <2>4. y.active[t].hold = Need(e, b) /\ y.active[t].floor = Need(e, 100)
    BY <1>1, <1>3, <2>1 DEF HoldOf
  <2> QED
    BY <2>1, <2>2, <2>3, <2>4 DEF EstimateOf
<1>12. Held(x) => Held(y)
  BY <1>1, <1>11 DEF Held
<1> QED
  BY <1>10, <1>12

LEMMA EarlierIs ==
  ASSUME NEW a \in Nat \cup {None}, NEW b \in Nat
  PROVE  Earlier(a, b) \in Nat
<1>1. None \notin Nat
  BY PacerAssumption, WindowsAssumption
<1>2. CASE a = None
  BY <1>2 DEF Earlier
<1>3. CASE a \in Nat
  <2>1. Earlier(a, b) = Min({a, b})
    BY <1>1, <1>3 DEF Earlier
  <2>0. a \in Int /\ b \in Int
    BY <1>3
  <2>2. Min({a, b}) = IF a <= b THEN a ELSE b
    BY <2>0, TwoIs
  <2> QED
    BY <1>3, <2>1, <2>2
<1> QED
  BY <1>2, <1>3

LEMMA VisitKeepsOK ==
  ASSUME NEW s, NEW x, NEW preference \in Preferences, NEW instant \in Nat, PassOK(s, x, preference, instant),
         NEW t \in Ready(s), NEW y, y = Visit(x, t, preference, instant)
  PROVE  PassOK(s, y, preference, instant)
<1>0. /\ Grown(s, x) /\ IsController(x)
      /\ DOMAIN x.active \subseteq DOMAIN s.active => x.lastStart = s.lastStart
      /\ ~(DOMAIN x.active \subseteq DOMAIN s.active) =>
           x.lastStart = instant /\ StartsOK(s, x, preference, instant)
      /\ Held(s) => Held(x)
  BY DEF PassOK
<1>1. t \in Tasks \ x.completed /\ x.estimates = s.estimates
  BY <1>0 DEF Grown, Ready
<1>2. PICK at : at = AdmitAt(x, t, preference, instant)
  OBVIOUS
<1>3. CASE y = x
  BY <1>3
<1>4. Grown(s, y)
  BY <1>0, VisitGrows
<1>5. CASE at # None /\ y = [x EXCEPT !.timer = Earlier(x.timer, at)]
  <2>1. at \in Nat
    BY <1>0, <1>1, <1>2, <1>5, AdmitAtIs
  <2>2. PICK e : e = Earlier(x.timer, at)
    OBVIOUS
  <2>3. e \in Nat
    BY <1>0, <2>1, <2>2, EarlierIs DEF IsController
  <2>4. IsController(y) /\ y.active = x.active /\ y.lastStart = x.lastStart
        /\ y.usage = x.usage /\ y.spend = x.spend /\ Taken(y) = Taken(x)
    BY <1>0, <1>5, <2>2, <2>3, TimerTyped
  <2>5. StartsOK(s, x, preference, instant) => StartsOK(s, y, preference, instant)
    BY <2>4 DEF StartsOK, FitsAll
  <2>6. Held(x) => Held(y)
    BY <1>0, <1>4, <2>4 DEF Held, Grown
  <2> QED
    BY <1>0, <1>4, <2>4, <2>5, <2>6 DEF PassOK
<1>6. CASE /\ t \notin DOMAIN x.active
           /\ ~(Cardinality(DOMAIN x.active) >= Fanout(preference))
           /\ at # None /\ at <= instant
           /\ y = Start(x, t, instant)
  <2>1. PICK need : need = Need(EstimateOf(x, t), x.backoff[Principal[t]])
    OBVIOUS
  <2>2. /\ need \in Nat /\ need < Limit
        /\ BlockedAt(x, need, preference, instant) = {}
        /\ ~PastCutoff(preference, instant, instant)
        /\ preference.mode = "sustain" =>
             /\ NextWorking(preference, instant) = instant
             /\ x.lastStart # None => instant >= x.lastStart + Spacing(EstimateOf(x, t))
    BY <1>0, <1>1, <1>2, <1>6, <2>1, AdmitNow
  <2>3. IsController(y) /\ (Held(x) => Held(y))
    BY <1>0, <1>1, <1>6, <2>1, <2>2, StartTyped
  <2>4. /\ y.usage = x.usage /\ y.spend = x.spend /\ y.lastStart = instant
        /\ DOMAIN y.active = DOMAIN x.active \cup {t}
        /\ y.active[t] = HoldOf(x, t)
        /\ \A u \in DOMAIN x.active : y.active[u] = x.active[u]
    BY <1>0, <1>6, StartGrows DEF IsController
  <2>5. y.active[t].hold = need
    BY <2>1, <2>4 DEF HoldOf
  <2>6. FitsAll(y, instant)
    BY <1>0, <1>1, <1>6, <2>2, <2>4, <2>5, StartFits
  <2>7. IsFiniteSet(DOMAIN x.active) /\ Cardinality(DOMAIN x.active) \in Nat
    BY <1>0, ControllerLoaded, FS_CardinalityType DEF Loaded
  <2>8. Cardinality(DOMAIN y.active) = Cardinality(DOMAIN x.active) + 1
    BY <1>6, <2>4, <2>7, FS_AddElement
  <2>9. Fanout(preference) \in Nat
    BY PacerAssumption, WindowsAssumption DEF Fanout
  <2>10. Cardinality(DOMAIN y.active) <= Fanout(preference)
    BY <1>6, <2>7, <2>8, <2>9
  <2>11. ASSUME preference.mode = "sustain", NEW u \in DOMAIN y.active \ DOMAIN s.active, s.lastStart # None
         PROVE  instant >= s.lastStart + Spacing(s.estimates[u])
    <3>1. Fanout(preference) = 1
      BY <2>11 DEF Fanout
    <3>2. Cardinality(DOMAIN x.active) = 0
      BY <1>6, <2>7, <3>1
    <3>3. DOMAIN x.active = {}
      BY <2>7, <3>2, FS_EmptySet
    <3>4. u = t /\ x.lastStart = s.lastStart
      BY <1>0, <2>4, <2>11, <3>3
    <3> QED
      BY <1>1, <2>2, <2>11, <3>4 DEF EstimateOf
  <2>12. StartsOK(s, y, preference, instant)
    BY <2>2, <2>6, <2>10, <2>11 DEF StartsOK
  <2>13. ~(DOMAIN y.active \subseteq DOMAIN s.active)
    BY <1>0, <1>6, <2>4 DEF Grown
  <2> QED
    BY <1>0, <1>4, <2>3, <2>4, <2>12, <2>13 DEF PassOK
<1> QED
  BY <1>2, <1>3, <1>5, <1>6, VisitIs

LEMMA PassFits ==
  ASSUME NEW s, IsController(s), NEW preference \in Preferences, NEW instant \in Nat
  PROVE  PassOK(s, TryAdmit(s, preference, instant), preference, instant)
<1>0. PICK f : Passes(f, s, preference, instant)
  BY PassIs
<1> DEFINE C == {D \in SUBSET Ready(s) : PassOK(s, f[D], preference, instant)}
<1>1. {} \in C
  <2>1. PICK y : y = [s EXCEPT !.timer = None]
    OBVIOUS
  <2>2. Grown(s, y)
    BY <2>1, SetTimer DEF Grown, IsController
  <2>3. IsController(y) /\ y.active = s.active /\ y.lastStart = s.lastStart
    BY <2>1, TimerTyped
  <2>5. Held(s) => Held(y)
    BY <2>2, <2>3 DEF Held, Grown
  <2>4. PassOK(s, y, preference, instant)
    BY <2>2, <2>3, <2>5 DEF PassOK
  <2> QED
    BY <1>0, <2>1, <2>4 DEF Passes
<1>2. ASSUME NEW D \in SUBSET Ready(s), D # {}, D \ {LastReady(D)} \in C
      PROVE  D \in C
  <2>0. PICK t, x : t = LastReady(D) /\ x = f[D \ {t}]
    OBVIOUS
  <2>1. t \in Ready(s) /\ PassOK(s, x, preference, instant)
    BY <1>2, <2>0, ReadyFinite
  <2>2. f[D] = Visit(x, t, preference, instant)
    BY <1>0, <1>2, <2>0 DEF Passes
  <2>3. PassOK(s, f[D], preference, instant)
    BY <2>1, <2>2, VisitKeepsOK
  <2> QED
    BY <2>3
<1> HIDE DEF C
<1>3. Ready(s) \in C
  BY <1>1, <1>2, PassInduction
<1> QED
  BY <1>0, <1>3 DEF C, Passes

-----------------------------------------------------------------------------
(* The events of the controller, typed. *)

LEMMA CompletedTyped ==
  ASSUME NEW s, IsController(s), NEW t \in Tasks, NEW instant \in Nat, NEW y, y = OnCompleted(s, t, instant)
  PROVE  /\ IsController(y) /\ y.lastStart = s.lastStart /\ DOMAIN y.active \subseteq DOMAIN s.active
         /\ DOMAIN s.active \subseteq DOMAIN y.active \cup y.completed
<1>1. CASE t \notin DOMAIN s.active
  BY <1>1 DEF OnCompleted
<1>2. CASE t \in DOMAIN s.active
  <2>1. /\ IsState(y)
        /\ y.active = Without(s.active, t)
        /\ y.completed = s.completed \cup {t}
        /\ y.spend = Cleared(s.spend, t)
        /\ y.backoff = BackoffDone(s, t)
        /\ y.usage = s.usage \cup {RecordOf(t, instant, Settled(s, t))}
        /\ y.lastStart = s.lastStart /\ y.timer = s.timer /\ y.estimates = s.estimates
    BY <1>2, OnCompletedIs DEF IsController
  <2>2. DOMAIN y.active = DOMAIN s.active \ {t} /\ \A u \in DOMAIN y.active : y.active[u] = s.active[u]
    BY <2>1 DEF Without
  <2>3. /\ y.completed \subseteq Tasks /\ DOMAIN y.active \subseteq Tasks \ y.completed
        /\ \A u \in DOMAIN y.active : y.active[u].hold \in Nat /\ y.active[u].floor \in Nat
    BY <2>1, <2>2 DEF IsController
  <2>4. y.spend \in [Tasks -> Nat] /\ \A u \in Tasks \ DOMAIN y.active : y.spend[u] = 0
    <3>1. PICK sp, D : sp = s.spend /\ D = DOMAIN s.active
      OBVIOUS
    <3>2. sp \in [Tasks -> Nat] /\ \A u \in Tasks \ D : sp[u] = 0
      BY <3>1 DEF IsController
    <3>3. y.spend = [sp EXCEPT ![t] = 0] /\ DOMAIN y.active = D \ {t}
      BY <2>1, <2>2, <3>1 DEF Cleared
    <3> QED
      BY <3>2, <3>3
  <2>5. y.backoff \in [Principals -> {b \in Nat : b >= 100}]
    <3>1. PICK bo, q, B : bo = s.backoff /\ q = Principal[t] /\ B = {b \in Nat : b >= 100}
      OBVIOUS
    <3>2. bo \in [Principals -> B] /\ 100 \in B
      BY <3>1 DEF IsController
    <3>3. y.backoff = [bo EXCEPT ![q] = IF s.spend[t] <= s.active[t].hold THEN 100 ELSE @]
      BY <2>1, <3>1 DEF BackoffDone
    <3>4. y.backoff \in [Principals -> B]
      BY <3>2, <3>3
    <3> QED
      BY <3>1, <3>4
  <2>6. IsUsage(y.usage) /\ \A u \in y.usage : u.id \in y.completed
    <3>1. PICK amount, r : amount = Settled(s, t) /\ r = RecordOf(t, instant, amount)
      OBVIOUS
    <3>2. amount \in Nat
      BY <1>2, <3>1 DEF Settled, Larger, IsController
    <3>3. r.id = t /\ r.at = instant /\ r.amount = amount
      BY <3>1 DEF RecordOf
    <3>4. y.usage = s.usage \cup {r} /\ t \notin s.completed /\ t \in Nat
      BY <1>2, <2>1, <3>1, PacerAssumption, WindowsAssumption DEF IsController
    <3>5. IsUsage(s.usage) /\ \A u \in s.usage : u.id \in s.completed
      BY DEF IsController
    <3>6. IsFiniteSet(y.usage)
      BY <3>4, <3>5, FS_AddElement DEF IsUsage
    <3> QED
      BY <2>1, <3>2, <3>3, <3>4, <3>5, <3>6 DEF IsUsage
  <2>7. IsController(y)
    BY <2>1, <2>3, <2>4, <2>5, <2>6 DEF IsController
  <2> QED
    BY <2>1, <2>2, <2>7
<1> QED
  BY <1>1, <1>2

LEMMA SpendTyped ==
  ASSUME NEW s, IsController(s), NEW t \in Tasks, NEW amount \in Nat, NEW y, y = OnSpend(s, t, amount)
  PROVE  /\ IsController(y) /\ y.lastStart = s.lastStart /\ y.active = s.active
<1>1. CASE t \notin DOMAIN s.active
  BY <1>1 DEF OnSpend
<1>2. CASE t \in DOMAIN s.active
  <2>1. /\ IsState(y)
        /\ y.active = s.active /\ y.completed = s.completed /\ y.usage = s.usage
        /\ y.lastStart = s.lastStart /\ y.timer = s.timer /\ y.estimates = s.estimates
        /\ y.spend = Reported(s.spend, t, amount)
        /\ y.backoff = BackoffSpent(s, t, amount)
    BY <1>2, OnSpendIs DEF IsController
  <2>2. y.spend \in [Tasks -> Nat] /\ \A u \in Tasks \ DOMAIN y.active : y.spend[u] = 0
    <3>1. PICK sp, D, m : sp = s.spend /\ D = DOMAIN s.active /\ m = Larger(s.spend[t], amount)
      OBVIOUS
    <3>2. sp \in [Tasks -> Nat] /\ \A u \in Tasks \ D : sp[u] = 0
      BY <3>1 DEF IsController
    <3>3. m \in Nat
      BY <3>1, <3>2 DEF Larger
    <3>4. y.spend = [sp EXCEPT ![t] = m]
      BY <2>1, <3>1 DEF Reported
    <3> QED
      BY <1>2, <2>1, <3>1, <3>2, <3>3, <3>4
  <2>3. y.backoff \in [Principals -> {b \in Nat : b >= 100}]
    <3>1. PICK bo, q, B, hold : bo = s.backoff /\ q = Principal[t] /\ B = {b \in Nat : b >= 100} /\ hold = s.active[t].hold
      OBVIOUS
    <3>2. bo \in [Principals -> B] /\ hold \in Nat /\ q \in Principals
      BY <1>2, <3>1 DEF IsController, Principals
    <3>3. PICK most, ceil : most = Larger(hold, 1) /\ ceil = CeilDiv(amount, most)
      OBVIOUS
    <3>4. most \in Nat \ {0}
      BY <3>2, <3>3 DEF Larger
    <3>5. ceil \in Nat
      BY <3>3, <3>4 DEF CeilDiv
    <3>6. PICK a, ratio : a = ceil * 100 /\ ratio = Min({a, MaxBackoff})
      OBVIOUS
    <3>7. a \in Int /\ MaxBackoff \in Int /\ a \in Nat /\ MaxBackoff \in Nat
      BY <3>5, <3>6 DEF MaxBackoff
    <3>8. ratio = IF a <= MaxBackoff THEN a ELSE MaxBackoff
      BY <3>6, <3>7, TwoIs
    <3>9. ratio \in Nat
      BY <3>7, <3>8
    <3>10. bo[q] \in Nat /\ bo[q] >= 100
      BY <3>1, <3>2
    <3>11. PICK v : v = IF amount > hold THEN Larger(bo[q], ratio) ELSE bo[q]
      OBVIOUS
    <3>12. v \in B
      BY <3>1, <3>9, <3>10, <3>11 DEF Larger
    <3>13. y.backoff = [bo EXCEPT ![q] = v]
      BY <2>1, <3>1, <3>3, <3>6, <3>11 DEF BackoffSpent
    <3>14. y.backoff \in [Principals -> B]
      BY <3>2, <3>12, <3>13
    <3> QED
      BY <3>1, <3>14
  <2>4. IsController(y)
    BY <2>1, <2>2, <2>3 DEF IsController
  <2> QED
    BY <2>1, <2>4
<1> QED
  BY <1>1, <1>2

LEMMA RevisedTyped ==
  ASSUME NEW s, IsController(s), NEW t \in Tasks, NEW e \in Estimates, NEW y, y = OnRevised(s, t, e)
  PROVE  /\ IsController(y) /\ y.lastStart = s.lastStart /\ y.active = s.active
<1>1. CASE t \in DOMAIN s.active \cup s.completed
  BY <1>1 DEF OnRevised
<1>2. CASE t \notin DOMAIN s.active \cup s.completed
  <2>1. PICK r : r = s.estimates
    OBVIOUS
  <2>2. /\ IsState(y)
        /\ y.active = s.active /\ y.completed = s.completed /\ y.usage = s.usage /\ y.spend = s.spend
        /\ y.lastStart = s.lastStart /\ y.timer = s.timer /\ y.backoff = s.backoff
        /\ y.estimates = [r EXCEPT ![t] = e]
    BY <1>2, <2>1, OnRevisedIs DEF IsController
  <2>3. r \in [Tasks -> Nat \cup {None}] /\ e \in Nat \cup {None}
    BY <2>1, PacerAssumption, WindowsAssumption DEF IsController
  <2>4. y.estimates \in [Tasks -> Nat \cup {None}]
    BY <2>2, <2>3
  <2>5. IsController(y)
    BY <2>2, <2>4 DEF IsController
  <2> QED
    BY <2>2, <2>5
<1> QED
  BY <1>1, <1>2

LEMMA FreshTyped == IsController(Fresh)
<1>1. PICK s : s = Fresh
  OBVIOUS
<1>2. /\ IsState(s) /\ s.completed = {} /\ s.active = <<>> /\ s.lastStart = None /\ s.timer = None
      /\ s.usage = {} /\ s.estimates = Estimate
      /\ s.spend = [t \in Tasks |-> 0] /\ s.backoff = [q \in Principals |-> 100]
  BY <1>1 DEF Fresh, IsState
<1>3. s.spend \in [Tasks -> Nat] /\ \A t \in Tasks : s.spend[t] = 0
  BY <1>2
<1>4. s.backoff \in [Principals -> {b \in Nat : b >= 100}]
  BY <1>2
<1>5. IsUsage(s.usage)
  BY <1>2, FS_EmptySet DEF IsUsage
<1>6. DOMAIN s.active = {}
  BY <1>2
<1>7. IsController(s)
  BY <1>2, <1>3, <1>4, <1>5, <1>6, PacerAssumption, WindowsAssumption DEF IsController
<1> QED
  BY <1>1, <1>7

-----------------------------------------------------------------------------
(* Every step of the controller. *)

PacerInv == IsController(p) /\ now \in Nat /\ pref \in Preferences

\* What an event may do before the pass.
Told(s, x) ==
  /\ IsController(x) /\ x.lastStart = s.lastStart
  /\ DOMAIN x.active \subseteq DOMAIN s.active
  /\ DOMAIN s.active \subseteq DOMAIN x.active \cup x.completed

\* What StartsFit says of a step from s to x.
Fits(s, x, preference, instant) ==
  DOMAIN x.active \ DOMAIN s.active # {} =>
    /\ \A w \in Windows : ~Blocks(w, x.usage, Taken(x), instant)
    /\ \A t \in DOMAIN x.active \ DOMAIN s.active : Deps[t] \subseteq x.completed
    /\ ~PastCutoff(preference, instant, instant)
    /\ Cardinality(DOMAIN x.active) <= Fanout(preference)
    /\ preference.mode = "sustain" =>
         /\ NextWorking(preference, instant) = instant
         /\ \A t \in DOMAIN x.active \ DOMAIN s.active :
              s.lastStart # None => instant >= s.lastStart + Spacing(EstimateOf(x, t))

LEMMA ToldFits ==
  ASSUME NEW s, NEW x, Told(s, x), NEW preference \in Preferences, NEW instant \in Nat,
         NEW y, y = TryAdmit(x, preference, instant)
  PROVE  IsController(y) /\ Fits(s, y, preference, instant)
<1>1. PassOK(x, y, preference, instant)
  BY PassFits DEF Told
<1>2. Grown(x, y) /\ IsController(y)
  BY <1>1 DEF PassOK
<1>3. ASSUME DOMAIN y.active \ DOMAIN s.active # {}
      PROVE  StartsOK(x, y, preference, instant)
  BY <1>1, <1>3 DEF PassOK, Told
<1>4. \A t \in DOMAIN y.active \ DOMAIN s.active :
        /\ t \in DOMAIN y.active \ DOMAIN x.active
        /\ Deps[t] \subseteq y.completed
  BY <1>2 DEF Told, Grown, Ready
<1>5. x.lastStart = s.lastStart /\ y.estimates = x.estimates
  BY <1>2 DEF Told, Grown
<1> QED
  BY <1>2, <1>3, <1>4, <1>5 DEF Fits, StartsOK, FitsAll, EstimateOf

LEMMA PacerStepFits ==
  ASSUME PacerInv, NEW x, Told(p, x), NEW instant \in Nat, Step(x, instant)
  PROVE  PacerInv' /\ Fits(p, p', pref', now')
<1>1. PICK s, y, preference : s = p /\ y = p' /\ preference = pref
  OBVIOUS
<1>2. y = TryAdmit(x, preference, instant) /\ now' = instant /\ pref' = preference /\ preference \in Preferences
  BY <1>1 DEF Step, PacerInv
<1>3. IsController(y) /\ Fits(s, y, preference, instant)
  BY <1>1, <1>2, ToldFits
<1> QED
  BY <1>1, <1>2, <1>3 DEF PacerInv

LEMMA PacerNextFits ==
  ASSUME PacerInv, PcNext
  PROVE  PacerInv' /\ Fits(p, p', pref', now')
<1>1. PICK s : s = p
  OBVIOUS
<1>2. IsController(s) /\ now \in Nat /\ MaxTime \in Nat
  BY <1>1, PacerAssumption, WindowsAssumption DEF PacerInv
<1>3. \A instant \in now..MaxTime : instant \in Nat
  BY <1>2
<1>4. ASSUME NEW t \in Tasks, NEW instant \in now..MaxTime, TaskCompleted(t, instant)
      PROVE  PacerInv' /\ Fits(p, p', pref', now')
  <2>1. PICK x : x = OnCompleted(s, t, instant)
    OBVIOUS
  <2>2. Told(s, x)
    BY <1>2, <1>3, <2>1, CompletedTyped DEF Told
  <2>3. Told(p, x) /\ Step(x, instant)
    BY <1>1, <1>4, <2>1, <2>2 DEF TaskCompleted
  <2> QED
    BY <1>3, <2>3, PacerStepFits
<1>5. ASSUME NEW t \in Tasks, NEW instant \in now..MaxTime, NEW amount \in Spends, Spend(t, amount, instant)
      PROVE  PacerInv' /\ Fits(p, p', pref', now')
  <2>1. PICK x : x = OnSpend(s, t, amount)
    OBVIOUS
  <2>2. amount \in Nat
    BY PacerAssumption, WindowsAssumption
  <2>3. Told(s, x)
    BY <1>2, <2>1, <2>2, SpendTyped DEF Told
  <2>4. Told(p, x) /\ Step(x, instant)
    BY <1>1, <1>5, <2>1, <2>3 DEF Spend
  <2> QED
    BY <1>3, <2>4, PacerStepFits
<1>6. ASSUME NEW t \in Tasks, NEW instant \in now..MaxTime, NEW e \in Estimates, EstimateRevised(t, e, instant)
      PROVE  PacerInv' /\ Fits(p, p', pref', now')
  <2>1. PICK x : x = OnRevised(s, t, e)
    OBVIOUS
  <2>2. Told(s, x)
    BY <1>2, <2>1, RevisedTyped DEF Told
  <2>3. Told(p, x) /\ Step(x, instant)
    BY <1>1, <1>6, <2>1, <2>2 DEF EstimateRevised
  <2> QED
    BY <1>3, <2>3, PacerStepFits
<1>7. Told(s, s)
  BY <1>2 DEF Told
<1>8. ASSUME NEW instant \in now..MaxTime, ModeChanged(instant)
      PROVE  PacerInv' /\ Fits(p, p', pref', now')
  <2>1. Told(p, s) /\ Step(s, instant)
    BY <1>1, <1>7, <1>8 DEF ModeChanged
  <2> QED
    BY <1>3, <2>1, PacerStepFits
<1>9. ASSUME Timer
      PROVE  PacerInv' /\ Fits(p, p', pref', now')
  <2>1. PICK instant : instant = s.timer
    OBVIOUS
  <2>2. Told(p, s) /\ Step(s, instant) /\ instant \in Nat
    BY <1>1, <1>2, <1>7, <1>9, <2>1 DEF Timer, IsController
  <2> QED
    BY <2>2, PacerStepFits
<1> QED
  BY <1>4, <1>5, <1>6, <1>8, <1>9 DEF PcNext

LEMMA PacerInit == PcInit => PacerInv
  BY FreshTyped DEF PcInit, PacerInv

LEMMA PacerStep ==
  ASSUME PacerInv, [PcNext]_pcVars
  PROVE  PacerInv' /\ (UNCHANGED pcVars \/ Fits(p, p', pref', now'))
<1>1. CASE UNCHANGED pcVars
  BY <1>1 DEF pcVars, PacerInv
<1>2. CASE PcNext
  BY <1>2, PacerNextFits
<1> QED
  BY <1>1, <1>2

\* For any tasks, windows, estimates and preferences, under any order of completions,
\* reports, revisions, changes of mode and timers: a step of the controller that
\* starts tasks leaves every window with something, and keeps to dependencies,
\* cutoffs, fanout, working hours and spacing.
THEOREM StartsFitWindows == PcSpec => StartsFit
<1> DEFINE new == DOMAIN p'.active \ Started
           A == new # {} =>
                  /\ \A w \in Windows : ~Blocks(w, p'.usage, Taken(p'), now')
                  /\ \A t \in new : Deps[t] \subseteq p'.completed
                  /\ ~PastCutoff(pref', now', now')
                  /\ Cardinality(DOMAIN p'.active) <= Fanout(pref')
                  /\ pref'.mode = "sustain" =>
                       /\ NextWorking(pref', now') = now'
                       /\ \A t \in new : p.lastStart # None => now' >= p.lastStart + Spacing(EstimateOf(p', t))
<1>1. PacerInv /\ [PcNext]_pcVars => PacerInv'
  BY PacerStep
<1>2. PacerInv /\ [PcNext]_pcVars => [A]_pcVars
  <2> SUFFICES ASSUME PacerInv, [PcNext]_pcVars PROVE [A]_pcVars
    OBVIOUS
  <2>1. CASE UNCHANGED pcVars
    BY <2>1
  <2>2. CASE Fits(p, p', pref', now')
    BY <2>2 DEF Fits, Started
  <2> QED
    BY <2>1, <2>2, PacerStep
<1>3. [][A]_pcVars => StartsFit
  BY DEF StartsFit
<1> QED
  BY <1>1, <1>2, <1>3, PacerInit, PTL DEF PcSpec
-----------------------------------------------------------------------------
(* The closed loop: the controller's books and the world's. *)

IsWorld(w) ==
  w = [active |-> w.active, completed |-> w.completed, usage |-> w.usage, lastStart |-> w.lastStart]

\* The books of a controller and of a world agree, but for the tasks in c.
Agrees(s, w, c) ==
  /\ s.completed \subseteq w.completed
  /\ w.completed \ c \subseteq s.completed
  /\ DOMAIN s.active \ c = DOMAIN w.active \ c

\* A completion in the queue is of a task that runs, and the only one of that task.
OwesCompletions(q, w) ==
  /\ \A i \in q : i.kind = "completed" => i.task \in DOMAIN w.active
  /\ \A i, j \in q : i.kind = "completed" /\ j.kind = "completed" /\ i.task = j.task => i = j

LoopInv ==
  /\ IsState(p) /\ IsWorld(world)
  /\ OwesCompletions(queue, world)
  /\ Agrees(p, world, cut)

LEMMA StartTasksIs ==
  ASSUME NEW w, IsWorld(w), NEW started, NEW at, NEW v, v = StartTasks(w, started, at)
  PROVE  /\ IsWorld(v) /\ v.completed = w.completed /\ v.usage = w.usage
         /\ DOMAIN v.active = DOMAIN w.active \cup started
         /\ \A t \in DOMAIN w.active : v.active[t] = w.active[t]
         /\ \A t \in started \ DOMAIN w.active : v.active[t] = 0
         /\ v.lastStart = IF started = {} THEN w.lastStart ELSE at
<1>1. PICK a, c, u, l : w = [active |-> a, completed |-> c, usage |-> u, lastStart |-> l]
  BY DEF IsWorld
<1>2. PICK b : b = With(a, started, 0)
  OBVIOUS
<1>3. /\ DOMAIN b = DOMAIN a \cup started
      /\ \A t \in DOMAIN a : b[t] = a[t]
      /\ \A t \in started \ DOMAIN a : b[t] = 0
  BY <1>2 DEF With
<1>4. PICK z : z = [w EXCEPT !.active = b]
  OBVIOUS
<1>5. z = [active |-> b, completed |-> c, usage |-> u, lastStart |-> l]
  BY <1>1, <1>4
<1>6. v = [z EXCEPT !.lastStart = IF started = {} THEN w.lastStart ELSE at]
  <2>1. w.active = a /\ w.lastStart = l
    BY <1>1
  <2> QED
    BY <1>2, <1>4, <2>1, Zenon DEF StartTasks
<1>7. v = [active |-> b, completed |-> c, usage |-> u, lastStart |-> IF started = {} THEN l ELSE at]
  BY <1>1, <1>5, <1>6
<1> QED
  BY <1>1, <1>3, <1>7 DEF IsWorld

\* A task the controller starts and that no restart has cut is ready in the world,
\* so that it really starts.
LEMMA StartsAreReal ==
  ASSUME NEW s, NEW x, NEW w, NEW c, Agrees(s, w, c), Grown(s, x),
         NEW t \in DOMAIN x.active \ DOMAIN s.active, t \notin c
  PROVE  t \in ReadyTasks(w)
  BY DEF Agrees, Grown, Ready, ReadyTasks

LEMMA AgreesStarted ==
  ASSUME NEW s, NEW x, NEW w, NEW v, NEW c, NEW started, Agrees(s, w, c), Grown(s, x),
         started = (DOMAIN x.active \ DOMAIN s.active) \cap ReadyTasks(w),
         v.completed = w.completed, DOMAIN v.active = DOMAIN w.active \cup started
  PROVE  Agrees(x, v, c)
<1>1. x.completed = s.completed /\ DOMAIN s.active \subseteq DOMAIN x.active
  BY DEF Grown
<1>2. \A t \in DOMAIN x.active \ DOMAIN s.active : t \notin c => t \in ReadyTasks(w)
  BY StartsAreReal
<1>3. DOMAIN x.active \ c = DOMAIN v.active \ c
  BY <1>1, <1>2 DEF Agrees
<1> QED
  BY <1>1, <1>3 DEF Agrees

\* What serving an item does: the controller passes, and its starts are real ones.
LEMMA ServeKeeps ==
  ASSUME NEW item \in queue, NEW told, NEW notified, NEW w, NEW preference,
         IsWorld(w), IsState(told), Grown(told, notified),
         OwesCompletions(queue \ {item}, w), Agrees(told, w, cut'),
         Serve(item, told, notified, w, preference)
  PROVE  LoopInv'
<1>1. PICK asked :
        /\ asked = IF ReadyTasks(w) = {} THEN notified ELSE TryAdmit(notified, preference, item.at)
        /\ p' = asked
        /\ world' = StartTasks(w, Decided(told, notified, asked) \cap ReadyTasks(w), item.at)
        /\ queue' = (queue \ {item}) \cup Follow(Decided(told, notified, asked) \cap ReadyTasks(w), item.at)
                      \cup Wake(asked, item.at)
  BY DEF Serve
<1>2. PICK started : started = Decided(told, notified, asked) \cap ReadyTasks(w)
  OBVIOUS
<1>3. Grown(told, asked)
  <2>1. IsState(notified)
    BY DEF Grown
  <2>2. Grown(notified, TryAdmit(notified, preference, item.at))
    BY <2>1, PassGrows
  <2> QED
    BY <1>1, <2>2, GrownTwice
<1>4. /\ IsWorld(world') /\ world'.completed = w.completed
      /\ DOMAIN world'.active = DOMAIN w.active \cup started
  BY <1>1, <1>2, StartTasksIs
<1>5. Agrees(p', world', cut')
  <2>1. started = (DOMAIN asked.active \ DOMAIN told.active) \cap ReadyTasks(w)
    BY <1>2 DEF Decided
  <2>2. PICK v, c : v = world' /\ c = cut'
    OBVIOUS
  <2>3. v.completed = w.completed /\ DOMAIN v.active = DOMAIN w.active \cup started /\ Agrees(told, w, c)
    BY <1>4, <2>2
  <2>4. Agrees(asked, v, c)
    BY <1>3, <2>1, <2>3, AgreesStarted
  <2> QED
    BY <1>1, <2>2, <2>4
<1>6. OwesCompletions(queue', world')
  <2>1. started \cap DOMAIN w.active = {}
    BY <1>2 DEF ReadyTasks
  <2>2. \A i \in Wake(asked, item.at) : i.kind # "completed"
    BY DEF Wake, Item
  <2>3. \A i \in Follow(started, item.at) : i.kind = "completed" =>
          i.task \in started /\ i = Item(item.at + trace[i.task].duration, "completed", i.task, None)
    BY DEF Follow, Item
  <2>4. queue' = (queue \ {item}) \cup Follow(started, item.at) \cup Wake(asked, item.at)
    BY <1>1, <1>2
  <2>5. \A i \in queue' : i.kind = "completed" =>
          \/ i \in queue \ {item} /\ i.task \in DOMAIN w.active
          \/ i.task \in started /\ i = Item(item.at + trace[i.task].duration, "completed", i.task, None)
    BY <2>2, <2>3, <2>4 DEF OwesCompletions
  <2> QED
    BY <1>4, <2>1, <2>5 DEF OwesCompletions
<1>7. IsState(p')
  BY <1>1, <1>3 DEF Grown
<1> QED
  BY <1>4, <1>5, <1>6, <1>7 DEF LoopInv

LEMMA CompleteTaskIs ==
  ASSUME NEW w, IsWorld(w), NEW t, NEW at, NEW v, v = CompleteTask(w, t, at)
  PROVE  /\ IsWorld(v)
         /\ v.active = Without(w.active, t) /\ v.completed = w.completed \cup {t}
         /\ v.usage = w.usage \cup {RecordOf(t, at, Claim(w, t))}
         /\ v.lastStart = w.lastStart
<1>1. PICK a, c, u, l : w = [active |-> a, completed |-> c, usage |-> u, lastStart |-> l]
  BY DEF IsWorld
<1>2. PICK a2, u2 : a2 = Without(a, t) /\ u2 = u \cup {[id |-> t, at |-> at, amount |-> Claim(w, t)]}
  OBVIOUS
<1>3. v = [active |-> a2, completed |-> c \cup {t}, usage |-> u2, lastStart |-> l]
  BY <1>1, <1>2 DEF CompleteTask
<1> QED
  BY <1>1, <1>2, <1>3 DEF IsWorld, RecordOf

LEMMA ReportSpendIs ==
  ASSUME NEW w, IsWorld(w), NEW t, NEW amount, NEW v, v = ReportSpend(w, t, amount)
  PROVE  /\ IsWorld(v)
         /\ v.active = Reported(w.active, t, amount)
         /\ v.completed = w.completed /\ v.usage = w.usage /\ v.lastStart = w.lastStart
<1>1. PICK a, c, u, l : w = [active |-> a, completed |-> c, usage |-> u, lastStart |-> l]
  BY DEF IsWorld
<1>2. PICK a2 : a2 = [a EXCEPT ![t] = Larger(@, amount)]
  OBVIOUS
<1>3. v = [active |-> a2, completed |-> c, usage |-> u, lastStart |-> l]
  BY <1>1, <1>2 DEF ReportSpend
<1>4. IsWorld(v) /\ v.active = a2 /\ v.completed = c /\ v.usage = u /\ v.lastStart = l
  BY <1>3 DEF IsWorld
<1>5. w.active = a /\ w.completed = c /\ w.usage = u /\ w.lastStart = l
  BY <1>1
<1> QED
  BY <1>2, <1>4, <1>5, Zenon DEF Reported

LEMMA SpendAgrees ==
  ASSUME NEW s, NEW w, NEW c, IsState(s), IsWorld(w), Agrees(s, w, c), NEW t, NEW amount,
         NEW x, x = OnSpend(s, t, amount), NEW v, v = ReportSpend(w, t, amount)
  PROVE  IsWorld(v) /\ Agrees(x, v, c) /\ DOMAIN v.active = DOMAIN w.active /\ v.lastStart = w.lastStart
<1>1. x.active = s.active /\ x.completed = s.completed
  <2>1. CASE t \in DOMAIN s.active
    BY <2>1, OnSpendIs
  <2>2. CASE t \notin DOMAIN s.active
    BY <2>2 DEF OnSpend
  <2> QED
    BY <2>1, <2>2
<1>2. /\ IsWorld(v) /\ v.completed = w.completed /\ v.lastStart = w.lastStart
      /\ v.active = Reported(w.active, t, amount)
  BY ReportSpendIs
<1>3. DOMAIN v.active = DOMAIN w.active
  BY <1>2 DEF Reported
<1> QED
  BY <1>1, <1>2, <1>3 DEF Agrees

LEMMA CompletedAgrees ==
  ASSUME NEW s, NEW w, NEW c, IsState(s), IsWorld(w), Agrees(s, w, c), NEW t, t \in DOMAIN w.active, NEW at,
         NEW x, x = OnCompleted(s, t, at), NEW v, v = CompleteTask(w, t, at)
  PROVE  IsWorld(v) /\ Agrees(x, v, c) /\ DOMAIN v.active = DOMAIN w.active \ {t} /\ v.lastStart = w.lastStart
<1>1. /\ IsWorld(v) /\ v.completed = w.completed \cup {t} /\ v.active = Without(w.active, t)
      /\ v.lastStart = w.lastStart
  BY CompleteTaskIs
<1>2. DOMAIN v.active = DOMAIN w.active \ {t}
  BY <1>1 DEF Without
<1>3. CASE t \in DOMAIN s.active
  <2>1. x.completed = s.completed \cup {t} /\ x.active = Without(s.active, t)
    BY <1>3, OnCompletedIs
  <2>2. DOMAIN x.active = DOMAIN s.active \ {t}
    BY <2>1 DEF Without
  <2> QED
    BY <1>1, <1>2, <2>1, <2>2 DEF Agrees
<1>4. CASE t \notin DOMAIN s.active
  <2>1. x = s
    BY <1>4 DEF OnCompleted
  <2>2. t \in c
    BY <1>4 DEF Agrees
  <2> QED
    BY <1>1, <1>2, <2>1, <2>2 DEF Agrees
<1> QED
  BY <1>3, <1>4

LEMMA LoopInit == DrInit => LoopInv
<1> SUFFICES ASSUME DrInit PROVE LoopInv
  OBVIOUS
<1>1. p = Fresh /\ world = [active |-> <<>>, completed |-> {}, usage |-> {}, lastStart |-> None] /\ cut = {}
  BY DEF DrInit, PcInit
<1>2. IsState(p) /\ IsWorld(world)
  BY <1>1 DEF Fresh, IsState, IsWorld
<1>3. Agrees(p, world, cut)
  BY <1>1 DEF Fresh, Agrees
<1>4. \A i \in queue : i.kind # "completed"
  <2>1. PICK events \in kSubset(MaxEvents, Exogenous) \cup {{}} :
          queue = events \cup {Item(0, "poll", None, None)}
    BY DEF DrInit
  <2>2. events \subseteq Exogenous
    BY DEF kSubset
  <2>3. \A i \in Exogenous : i.kind # "completed"
    BY DEF Exogenous, Item
  <2> QED
    BY <2>1, <2>2, <2>3 DEF Item
<1> QED
  BY <1>2, <1>3, <1>4 DEF LoopInv, OwesCompletions

LEMMA LoopPoll ==
  ASSUME LoopInv, NEW item \in queue, Poll(item)
  PROVE  LoopInv'
<1>1. IsState(p) /\ IsWorld(world) /\ Grown(p, p) /\ OwesCompletions(queue \ {item}, world) /\ cut' = cut
  BY GrownSame DEF LoopInv, OwesCompletions, Poll
<1>2. PICK s, w : s = p /\ w = world
  OBVIOUS
<1>3. Agrees(s, w, cut') /\ Serve(item, s, s, w, pref)
  BY <1>1, <1>2 DEF LoopInv, Poll
<1> QED
  BY <1>1, <1>2, <1>3, ServeKeeps

\* An event of the controller, told to books that agree.
LEMMA LoopNotify ==
  ASSUME LoopInv, NEW item \in queue, NEW event, NEW w, NEW preference,
         Notify(item, event, w, preference),
         IsState(event), IsWorld(w), OwesCompletions(queue \ {item}, w), Agrees(event, w, cut)
  PROVE  LoopInv'
<1>1. PICK notified :
        /\ notified = TryAdmit(event, preference, item.at)
        /\ Serve(item, event, notified, w, preference)
  BY DEF Notify
<1>2. Grown(event, notified)
  BY <1>1, PassGrows
<1>3. cut' = cut
  BY DEF Notify
<1> QED
  BY <1>1, <1>2, <1>3, ServeKeeps

LEMMA LoopSpend ==
  ASSUME LoopInv, NEW item \in queue, SpendReport(item)
  PROVE  LoopInv'
<1>1. PICK t, amount, s, w : t = item.task /\ amount = trace[item.task].overrun /\ s = p /\ w = world
  OBVIOUS
<1>2. PICK x, v : x = OnSpend(s, t, amount) /\ v = ReportSpend(w, t, amount)
  OBVIOUS
<1>3. Notify(item, x, v, pref)
  BY <1>1, <1>2 DEF SpendReport
<1>4. IsState(s) /\ IsWorld(w) /\ Agrees(s, w, cut)
  BY <1>1 DEF LoopInv
<1>5. IsState(x)
  <2>1. CASE t \in DOMAIN s.active
    BY <1>2, <1>4, <2>1, OnSpendIs
  <2>2. CASE t \notin DOMAIN s.active
    BY <1>2, <1>4, <2>2 DEF OnSpend
  <2> QED
    BY <2>1, <2>2
<1>6. IsWorld(v) /\ Agrees(x, v, cut) /\ DOMAIN v.active = DOMAIN w.active
  BY <1>2, <1>4, SpendAgrees
<1>7. OwesCompletions(queue \ {item}, v)
  BY <1>1, <1>6 DEF LoopInv, OwesCompletions
<1> QED
  BY <1>3, <1>5, <1>6, <1>7, LoopNotify

LEMMA LoopCompletion ==
  ASSUME LoopInv, NEW item \in queue, Completion(item)
  PROVE  LoopInv'
<1>1. PICK t, s, w : t = item.task /\ s = p /\ w = world
  OBVIOUS
<1>2. PICK x, v : x = OnCompleted(s, t, item.at) /\ v = CompleteTask(w, t, item.at)
  OBVIOUS
<1>3. Notify(item, x, v, pref) /\ item.kind = "completed"
  BY <1>1, <1>2 DEF Completion, Pop
<1>4. IsState(s) /\ IsWorld(w) /\ OwesCompletions(queue, w) /\ Agrees(s, w, cut)
  BY <1>1 DEF LoopInv
<1>5. t \in DOMAIN w.active /\ \A i \in queue \ {item} : i.kind = "completed" => i.task # t
  BY <1>1, <1>3, <1>4 DEF OwesCompletions
<1>6. IsState(x)
  <2>1. CASE t \in DOMAIN s.active
    BY <1>2, <1>4, <2>1, OnCompletedIs
  <2>2. CASE t \notin DOMAIN s.active
    BY <1>2, <1>4, <2>2 DEF OnCompleted
  <2> QED
    BY <2>1, <2>2
<1>7. IsWorld(v) /\ Agrees(x, v, cut) /\ DOMAIN v.active = DOMAIN w.active \ {t}
  BY <1>2, <1>4, <1>5, CompletedAgrees
<1>8. OwesCompletions(queue \ {item}, v)
  BY <1>4, <1>5, <1>7 DEF OwesCompletions
<1> QED
  BY <1>3, <1>6, <1>7, <1>8, LoopNotify

LEMMA LoopPreference ==
  ASSUME LoopInv, NEW item \in queue, PreferenceChanged(item)
  PROVE  LoopInv'
<1>1. PICK s, w : s = p /\ w = world
  OBVIOUS
<1>2. Notify(item, s, w, item.preference)
  BY <1>1 DEF PreferenceChanged
<1>3. IsState(s) /\ IsWorld(w) /\ OwesCompletions(queue \ {item}, w) /\ Agrees(s, w, cut)
  BY <1>1 DEF LoopInv, OwesCompletions
<1> QED
  BY <1>2, <1>3, LoopNotify

LEMMA LoopRestart ==
  ASSUME LoopInv, NEW item \in queue, DaemonRestart(item)
  PROVE  LoopInv'
<1>1. PICK told, w : told = Restarted(p) /\ w = world
  OBVIOUS
<1>2. Serve(item, told, told, w, pref) /\ cut' = cut \cup DOMAIN w.active
  BY <1>1 DEF DaemonRestart
<1>3. /\ IsState(told) /\ told.completed = p.completed /\ told.active = <<>>
  BY <1>1, RestartedIs DEF LoopInv
<1>4. DOMAIN told.active = {}
  BY <1>3
<1>5. Agrees(told, w, cut')
  BY <1>1, <1>2, <1>3, <1>4 DEF LoopInv, Agrees
<1>6. IsWorld(w) /\ OwesCompletions(queue \ {item}, w) /\ Grown(told, told)
  BY <1>1, <1>3, GrownSame DEF LoopInv, OwesCompletions
<1> QED
  BY <1>2, <1>3, <1>5, <1>6, ServeKeeps

LEMMA LoopStep ==
  ASSUME LoopInv, [DrNext]_drVars
  PROVE  LoopInv'
<1>1. CASE UNCHANGED drVars
  BY <1>1 DEF drVars, pcVars, LoopInv
<1>2. CASE DrNext
  BY <1>2, LoopPoll, LoopSpend, LoopCompletion, LoopPreference, LoopRestart DEF DrNext
<1> QED
  BY <1>1, <1>2

\* The controller's books are the world's: for any number of tasks, windows and
\* preferences, every trace of durations and overruns, and restarts and changes of
\* preference at any instant.
THEOREM BooksAgree == DrSpec => []BeliefMatchesWorld
<1>1. LoopInv => BeliefMatchesWorld
  BY DEF LoopInv, Agrees, BeliefMatchesWorld
<1> QED
  BY <1>1, LoopInit, LoopStep, PTL DEF DrSpec
-----------------------------------------------------------------------------
(* The closed loop: what really starts fits. *)

\* What one pass or two at one instant may do.
Passed(s, x, preference, instant) ==
  /\ Grown(s, x) /\ IsController(x)
  /\ Held(s) => Held(x)
  /\ DOMAIN x.active \subseteq DOMAIN s.active => x.lastStart = s.lastStart
  /\ ~(DOMAIN x.active \subseteq DOMAIN s.active) =>
       /\ x.lastStart = instant
       /\ FitsAll(x, instant)
       /\ preference.mode = "sustain" =>
            \A t \in DOMAIN x.active \ DOMAIN s.active :
              s.lastStart # None => instant >= s.lastStart + Spacing(s.estimates[t])

LEMMA PassedNone ==
  ASSUME NEW s, IsController(s), NEW preference, NEW instant
  PROVE  Passed(s, s, preference, instant)
<1>1. Grown(s, s)
  BY GrownSame DEF IsController
<1> QED
  BY <1>1 DEF Passed

LEMMA PassedOnce ==
  ASSUME NEW s, NEW x, NEW preference, NEW instant, PassOK(s, x, preference, instant)
  PROVE  Passed(s, x, preference, instant)
  BY DEF PassOK, StartsOK, Passed

LEMMA PassedTwice ==
  ASSUME NEW s, NEW x, NEW y, NEW preference, NEW instant \in Nat, IsController(s),
         Passed(s, x, preference, instant), PassOK(x, y, preference, instant),
         s.lastStart # None => s.lastStart <= instant
  PROVE  Passed(s, y, preference, instant)
<1>1. /\ Grown(s, x) /\ IsController(x) /\ (Held(s) => Held(x))
      /\ DOMAIN x.active \subseteq DOMAIN s.active => x.lastStart = s.lastStart
      /\ ~(DOMAIN x.active \subseteq DOMAIN s.active) =>
           /\ x.lastStart = instant
           /\ FitsAll(x, instant)
           /\ preference.mode = "sustain" =>
                \A t \in DOMAIN x.active \ DOMAIN s.active :
                  s.lastStart # None => instant >= s.lastStart + Spacing(s.estimates[t])
  BY DEF Passed
<1>2. /\ Grown(x, y) /\ IsController(y) /\ (Held(x) => Held(y))
      /\ DOMAIN y.active \subseteq DOMAIN x.active => y.lastStart = x.lastStart
      /\ ~(DOMAIN y.active \subseteq DOMAIN x.active) =>
           y.lastStart = instant /\ StartsOK(x, y, preference, instant)
  BY DEF PassOK
<1>3. Grown(s, y)
  BY <1>1, <1>2, GrownTwice
<1>4. /\ DOMAIN s.active \subseteq DOMAIN x.active /\ DOMAIN x.active \subseteq DOMAIN y.active
      /\ x.estimates = s.estimates /\ y.usage = x.usage /\ y.spend = x.spend
      /\ \A t \in DOMAIN x.active : y.active[t] = x.active[t]
  BY <1>1, <1>2 DEF Grown
<1>5. CASE DOMAIN y.active \subseteq DOMAIN x.active
  <2>1. DOMAIN y.active = DOMAIN x.active
    BY <1>4, <1>5
  <2>2. Taken(y) = Taken(x)
    BY <1>4, <2>1 DEF Taken
  <2>3. FitsAll(x, instant) => FitsAll(y, instant)
    BY <1>4, <2>2 DEF FitsAll
  <2> QED
    BY <1>1, <1>2, <1>3, <2>1, <2>3, <1>5 DEF Passed
<1>6. CASE ~(DOMAIN y.active \subseteq DOMAIN x.active)
  <2>1. /\ y.lastStart = instant /\ FitsAll(y, instant) /\ ~(DOMAIN y.active \subseteq DOMAIN s.active)
        /\ preference.mode = "sustain" =>
             \A t \in DOMAIN y.active \ DOMAIN x.active :
               x.lastStart # None => instant >= x.lastStart + Spacing(x.estimates[t])
    BY <1>2, <1>4, <1>6 DEF StartsOK
  <2>2. ASSUME preference.mode = "sustain", NEW t \in DOMAIN y.active \ DOMAIN s.active, s.lastStart # None
        PROVE  instant >= s.lastStart + Spacing(s.estimates[t])
    <3>1. CASE t \in DOMAIN x.active
      BY <1>1, <2>2, <3>1
    <3>2. CASE t \notin DOMAIN x.active
      <4>1. x.lastStart # None /\ x.lastStart \in Nat /\ s.lastStart \in Nat /\ s.lastStart <= x.lastStart
        BY <1>1, <2>2, PacerAssumption, WindowsAssumption DEF IsController
      <4>2. PICK n : n = Spacing(s.estimates[t])
        OBVIOUS
      <4>3. n \in Nat
        <5>1. t \in Tasks
          BY <1>2 DEF IsController
        <5>2. s.estimates[t] \in Nat \cup {None}
          BY <5>1 DEF IsController
        <5> QED
          BY <4>2, <5>2, SpacingIs
      <4>4. instant >= x.lastStart + n
        BY <1>4, <2>1, <2>2, <3>2, <4>1, <4>2
      <4>5. instant >= s.lastStart + n
        BY <4>1, <4>3, <4>4
      <4> QED
        BY <4>2, <4>5
    <3> QED
      BY <3>1, <3>2
  <2> QED
    BY <1>1, <1>2, <1>3, <2>1, <2>2 DEF Passed
<1> QED
  BY <1>5, <1>6

-----------------------------------------------------------------------------
TraceOK(tr) == \A t \in Tasks : tr[t].duration \in Nat /\ tr[t].overrun \in Nat \cup {None}

\* Nothing in the queue is overdue.
QueueOK(q, tr, n) ==
  \A i \in q :
    /\ i.at \in Nat /\ i.at >= n
    /\ i.kind = "preference" => i.preference \in Preferences
    /\ i.kind \in {"spend", "completed"} => i.task \in Tasks
    /\ i.kind = "spend" => tr[i.task].overrun \in Nat

\* The controller never thinks the last start earlier than it was.
Lead(s, w, n) ==
  /\ s.lastStart # None => s.lastStart <= n
  /\ w.lastStart \in Nat \cup {None}
  /\ w.lastStart # None => s.lastStart # None /\ w.lastStart <= s.lastStart

\* What the controller counts is what the world counts or more.
Mirrors(s, w) ==
  /\ \A t \in DOMAIN w.active : s.spend[t] = w.active[t]
  /\ IsUsage(w.usage) /\ Covered(w.usage, s.usage)

Sound(s, w, n, c) ==
  /\ IsController(s) /\ Held(s) /\ s.estimates = Estimate
  /\ Lead(s, w, n)
  /\ c = {} => Mirrors(s, w)

\* All of the invariant but the agreement of the books.
DriveRest ==
  /\ now \in Nat /\ pref \in Preferences
  /\ TraceOK(trace) /\ QueueOK(queue, trace, now)
  /\ Sound(p, world, now, cut)

DriveInv == LoopInv /\ DriveRest

Open(w) == SumFunction([t \in DOMAIN w.active |-> Max({Estimate[t], w.active[t]})])

LEMMA OpenBelow ==
  ASSUME NEW s, NEW w, IsController(s), Held(s), s.estimates = Estimate, Mirrors(s, w),
         DOMAIN w.active = DOMAIN s.active
  PROVE  Open(w) \in Int /\ Taken(s) \in Int /\ Open(w) <= Taken(s)
<1>1. PICK f, g, D : f = [t \in DOMAIN w.active |-> Max({Estimate[t], w.active[t]})] /\ g = Load(s) /\ D = DOMAIN s.active
  OBVIOUS
<1>2. Loaded(s)
  BY ControllerLoaded
<1>3. Taken(s) = SumOver(g, D) /\ Ints(g, D) /\ Taken(s) \in Nat
  BY <1>1, <1>2, PendingIs
<1>4. DOMAIN f = D /\ Open(w) = SumOver(f, D)
  BY <1>1, SumFunctionIs DEF Open
<1>5. ASSUME NEW t \in D PROVE f[t] \in Int /\ f[t] <= g[t] /\ g[t] \in Int
  <2>1. PICK a, b, h : a = Estimate[t] /\ b = w.active[t] /\ h = s.active[t].hold
    OBVIOUS
  <2>2. a \in Nat /\ b \in Nat /\ h \in Nat /\ h >= a /\ b = s.spend[t]
    BY <1>1, <1>2, <2>1 DEF Held, Mirrors, Loaded
  <2>i. a \in Int /\ b \in Int
    BY <2>2
  <2>3. Max({a, b}) = Larger(a, b)
    BY <2>i, TwoIs
  <2>4. f[t] = Larger(a, b) /\ g[t] = Larger(h, b)
    BY <1>1, <2>1, <2>2, <2>3 DEF Load
  <2> QED
    BY <2>2, <2>4 DEF Larger
<1>6. Ints(f, D) /\ Below(f, g, D) /\ Above0(g, D \ D)
  BY <1>3, <1>5 DEF Ints, Below, Above0
<1>7. SumOver(f, D) <= SumOver(g, D) /\ SumOver(f, D) \in Int
  BY <1>3, <1>6, SumSubset, SumIs
<1> QED
  BY <1>3, <1>4, <1>7

\* What RealStartsFit says of a step of the world from w to v.
RealFits(w, v, c, preference, instant) ==
  /\ DOMAIN v.active \ DOMAIN w.active # {} /\ c = {} =>
       \A q \in Windows : ~Blocks(q, v.usage, Open(v), instant)
  /\ \A t \in DOMAIN v.active \ DOMAIN w.active :
       preference.mode = "sustain" /\ w.lastStart # None =>
         instant >= w.lastStart + Spacing(Estimate[t])

\* Starts that the controller decides and the world makes.
LEMMA RealStarts ==
  ASSUME NEW s, NEW x, NEW w, NEW v, NEW c, NEW preference \in Preferences, NEW instant \in Nat,
         NEW started, started = (DOMAIN x.active \ DOMAIN s.active) \cap ReadyTasks(w),
         Sound(s, w, instant, c), Agrees(s, w, c), Passed(s, x, preference, instant),
         v.completed = w.completed, v.usage = w.usage, DOMAIN v.active = DOMAIN w.active \cup started,
         \A t \in DOMAIN w.active : v.active[t] = w.active[t],
         \A t \in started \ DOMAIN w.active : v.active[t] = 0,
         v.lastStart = IF started = {} THEN w.lastStart ELSE instant
  PROVE  Sound(x, v, instant, c) /\ RealFits(w, v, c, preference, instant)
<1>1. /\ IsController(s) /\ Held(s) /\ s.estimates = Estimate
      /\ Lead(s, w, instant)
      /\ c = {} => Mirrors(s, w)
  BY DEF Sound
<1>2. /\ Grown(s, x) /\ IsController(x) /\ Held(x)
      /\ DOMAIN x.active \subseteq DOMAIN s.active => x.lastStart = s.lastStart
      /\ ~(DOMAIN x.active \subseteq DOMAIN s.active) =>
           /\ x.lastStart = instant
           /\ FitsAll(x, instant)
           /\ preference.mode = "sustain" =>
                \A t \in DOMAIN x.active \ DOMAIN s.active :
                  s.lastStart # None => instant >= s.lastStart + Spacing(s.estimates[t])
  BY <1>1 DEF Passed
<1>3. x.estimates = s.estimates /\ x.usage = s.usage /\ x.spend = s.spend
  BY <1>2 DEF Grown
<1>4. s.lastStart \in Nat \cup {None} /\ None \notin Nat
  BY <1>1, PacerAssumption, WindowsAssumption DEF IsController
<1>5. Lead(x, v, instant)
  BY <1>1, <1>2, <1>4 DEF Lead
<1>6. Agrees(x, v, c)
  BY <1>2, AgreesStarted
<1>7. ASSUME c = {} PROVE Mirrors(x, v)
  <2>1. \A t \in DOMAIN w.active : s.spend[t] = w.active[t]
    BY <1>1, <1>7 DEF Mirrors
  <2>2. \A t \in started : s.spend[t] = 0
    BY <1>1 DEF IsController, ReadyTasks
  <2>3. \A t \in DOMAIN v.active : x.spend[t] = v.active[t]
    BY <1>3, <2>1, <2>2
  <2> QED
    BY <1>1, <1>3, <1>7, <2>3 DEF Mirrors
<1>8. Sound(x, v, instant, c)
  BY <1>1, <1>2, <1>3, <1>5, <1>7 DEF Sound
<1>9. ASSUME DOMAIN v.active \ DOMAIN w.active # {}, c = {}, NEW q \in Windows
      PROVE  ~Blocks(q, v.usage, Open(v), instant)
  <2>1. DOMAIN v.active = DOMAIN x.active
    BY <1>6, <1>9 DEF Agrees
  <2>2. Mirrors(x, v)
    BY <1>7, <1>9
  <2>3. PICK a, b : a = Open(v) /\ b = Taken(x)
    OBVIOUS
  <2>4. a \in Int /\ b \in Int /\ a <= b
    BY <1>1, <1>2, <1>3, <2>1, <2>2, <2>3, OpenBelow
  <2>5. ~Blocks(q, x.usage, b, instant)
    BY <1>2, <1>9, <2>3 DEF FitsAll
  <2>6. IsWindow(q) /\ IsUsage(x.usage) /\ IsUsage(v.usage) /\ Covered(v.usage, x.usage)
    BY <1>2, <2>2, PacerAssumption, WindowsAssumption DEF Mirrors, IsController
  <2>7. ~Blocks(q, v.usage, a, instant)
    BY <2>4, <2>5, <2>6, BlocksCovered
  <2> QED
    BY <2>3, <2>7
<1>10. ASSUME NEW t \in DOMAIN v.active \ DOMAIN w.active, preference.mode = "sustain", w.lastStart # None
       PROVE  instant >= w.lastStart + Spacing(Estimate[t])
  <2>1. t \in DOMAIN x.active \ DOMAIN s.active
    BY <1>10
  <2>2. s.lastStart \in Nat /\ w.lastStart \in Nat /\ w.lastStart <= s.lastStart /\ s.lastStart # None
    BY <1>1, <1>4, <1>10 DEF Lead
  <2>3. PICK n : n = Spacing(Estimate[t])
    OBVIOUS
  <2>4. n \in Nat
    <3>1. t \in Tasks
      BY <1>2, <2>1 DEF IsController
    <3> QED
      BY <2>3, <3>1, SpacingIs, PacerAssumption, WindowsAssumption
  <2>5. instant >= s.lastStart + n
    BY <1>1, <1>2, <1>10, <2>1, <2>2, <2>3
  <2>6. instant >= w.lastStart + n
    BY <2>2, <2>4, <2>5
  <2> QED
    BY <2>3, <2>6
<1> QED
  BY <1>8, <1>9, <1>10 DEF RealFits

LEMMA QueueKept ==
  ASSUME NEW q, NEW tr, NEW n, TraceOK(tr), QueueOK(q, tr, n), NEW item \in q,
         \A other \in q \ {item} : item.at <= other.at,
         NEW started \in SUBSET Tasks, NEW wake,
         \A i \in wake : i.at \in Nat /\ i.at >= item.at /\ i.kind = "poll",
         NEW follow, \A i \in follow :
           /\ i.at \in Nat /\ i.at >= item.at /\ i.kind \in {"spend", "completed"} /\ i.task \in Tasks
           /\ i.kind = "spend" => tr[i.task].overrun \in Nat
  PROVE  QueueOK((q \ {item}) \cup follow \cup wake, tr, item.at)
<1>1. \A i \in q \ {item} : i.at \in Nat /\ i.at >= item.at
  BY DEF QueueOK
<1> QED
  BY <1>1 DEF QueueOK

LEMMA FollowIs ==
  ASSUME TraceOK(trace), NEW started \in SUBSET Tasks, NEW at \in Nat, NEW i \in Follow(started, at)
  PROVE  /\ i.at \in Nat /\ i.at >= at /\ i.kind \in {"spend", "completed"} /\ i.task \in Tasks
         /\ i.kind = "spend" => trace[i.task].overrun \in Nat
<1>1. CASE \E t \in started : i = Item(at + trace[t].duration, "completed", t, None)
  <2>1. PICK t \in started : i = Item(at + trace[t].duration, "completed", t, None)
    BY <1>1
  <2>2. PICK n : n = at + trace[t].duration
    OBVIOUS
  <2>3. n \in Nat /\ n >= at
    BY <2>2 DEF TraceOK
  <2>4. i.at = n /\ i.kind = "completed" /\ i.task = t
    BY <2>1, <2>2 DEF Item
  <2> QED
    BY <2>3, <2>4
<1>2. CASE \E t \in started : trace[t].overrun # None /\ i = Item(at + trace[t].duration \div 2, "spend", t, None)
  <2>1. PICK t \in started : trace[t].overrun # None /\ i = Item(at + trace[t].duration \div 2, "spend", t, None)
    BY <1>2
  <2>2. PICK d, n : d = trace[t].duration /\ n = at + d \div 2
    OBVIOUS
  <2>3. d \in Nat
    BY <2>2 DEF TraceOK
  <2>5. n \in Nat /\ n >= at
    BY <2>2, <2>3
  <2>6. trace[t].overrun \in Nat
    BY <2>1 DEF TraceOK
  <2>4. i.at = n /\ i.kind = "spend" /\ i.task = t
    BY <2>1, <2>2 DEF Item
  <2> QED
    BY <2>4, <2>5, <2>6
<1> QED
  BY <1>1, <1>2 DEF Follow

LEMMA ServeFits ==
  ASSUME DriveInv, NEW item \in queue, First(item), NEW told, NEW notified, NEW w,
         NEW preference \in Preferences, IsWorld(w),
         Sound(told, w, item.at, cut'), Agrees(told, w, cut'), Passed(told, notified, preference, item.at),
         Serve(item, told, notified, w, preference)
  PROVE  DriveRest' /\ RealFits(w, world', cut', pref', now')
<1>0. item.at \in Nat /\ \A other \in queue \ {item} : item.at <= other.at
  BY DEF DriveInv, DriveRest, QueueOK, First
<1>1. PICK asked :
        /\ asked = IF ReadyTasks(w) = {} THEN notified ELSE TryAdmit(notified, preference, item.at)
        /\ p' = asked
        /\ world' = StartTasks(w, Decided(told, notified, asked) \cap ReadyTasks(w), item.at)
        /\ queue' = (queue \ {item}) \cup Follow(Decided(told, notified, asked) \cap ReadyTasks(w), item.at)
                      \cup Wake(asked, item.at)
        /\ now' = item.at /\ pref' = preference /\ trace' = trace
  BY DEF Serve
<1>2. PICK started : started = Decided(told, notified, asked) \cap ReadyTasks(w)
  OBVIOUS
<1>3. Passed(told, asked, preference, item.at)
  <2>1. IsController(told) /\ (told.lastStart # None => told.lastStart <= item.at) /\ IsController(notified)
    BY DEF Sound, Lead, Passed
  <2>2. PassOK(notified, TryAdmit(notified, preference, item.at), preference, item.at)
    BY <1>0, <2>1, PassFits
  <2>3. Passed(told, TryAdmit(notified, preference, item.at), preference, item.at)
    BY <1>0, <2>1, <2>2, PassedTwice
  <2> QED
    BY <1>1, <2>3
<1>4. PICK v, c, instant : v = world' /\ c = cut' /\ instant = item.at
  OBVIOUS
<1>5. /\ v.completed = w.completed /\ v.usage = w.usage
      /\ DOMAIN v.active = DOMAIN w.active \cup started
      /\ \A t \in DOMAIN w.active : v.active[t] = w.active[t]
      /\ \A t \in started \ DOMAIN w.active : v.active[t] = 0
      /\ v.lastStart = IF started = {} THEN w.lastStart ELSE instant
  BY <1>1, <1>2, <1>4, StartTasksIs
<1>6. started = (DOMAIN asked.active \ DOMAIN told.active) \cap ReadyTasks(w)
  BY <1>2 DEF Decided
<1>7. Sound(asked, v, instant, c) /\ RealFits(w, v, c, preference, instant)
  BY <1>0, <1>3, <1>4, <1>5, <1>6, RealStarts
<1>8. PICK wake, follow : wake = Wake(asked, item.at) /\ follow = Follow(started, item.at)
  OBVIOUS
<1>9. started \in SUBSET Tasks /\ TraceOK(trace) /\ QueueOK(queue, trace, now)
  BY <1>2 DEF ReadyTasks, DriveInv, DriveRest
<1>10. \A i \in wake : i.at \in Nat /\ i.at >= item.at /\ i.kind = "poll"
  <2>1. asked.timer \in Nat \cup {None}
    BY <1>3 DEF Passed, IsController
  <2> QED
    BY <1>0, <1>8, <2>1 DEF Wake, Item
<1>11. \A i \in follow :
         /\ i.at \in Nat /\ i.at >= item.at /\ i.kind \in {"spend", "completed"} /\ i.task \in Tasks
         /\ i.kind = "spend" => trace[i.task].overrun \in Nat
  BY <1>0, <1>8, <1>9, FollowIs
<1>12. queue' = (queue \ {item}) \cup follow \cup wake
  BY <1>1, <1>2, <1>8
<1>13. PICK q, tr : q = queue /\ tr = trace
  OBVIOUS
<1>14. QueueOK((q \ {item}) \cup follow \cup wake, tr, item.at)
  BY <1>0, <1>9, <1>10, <1>11, <1>13, QueueKept
<1>15. QueueOK(queue', trace', now')
  BY <1>1, <1>12, <1>13, <1>14
<1>16. Sound(p', world', now', cut') /\ RealFits(w, world', cut', pref', now')
  BY <1>1, <1>4, <1>7
<1> QED
  BY <1>0, <1>1, <1>9, <1>15, <1>16 DEF DriveRest

(* The events, told to a controller that is sound. *)

LEMMA SoundLater ==
  ASSUME NEW s, NEW w, NEW n \in Nat, NEW m \in Nat, n <= m, NEW c, Sound(s, w, n, c)
  PROVE  Sound(s, w, m, c)
<1>1. s.lastStart \in Nat \cup {None}
  BY DEF Sound, IsController
<1>2. Lead(s, w, m)
  BY <1>1 DEF Sound, Lead
<1> QED
  BY <1>2 DEF Sound

LEMMA SoundSpend ==
  ASSUME NEW s, NEW w, NEW n, NEW c, Sound(s, w, n, c), Agrees(s, w, c), IsWorld(w),
         NEW t \in Tasks, NEW amount \in Nat, NEW x, x = OnSpend(s, t, amount), NEW v, v = ReportSpend(w, t, amount)
  PROVE  Sound(x, v, n, c)
<1>1. /\ IsController(s) /\ Held(s) /\ s.estimates = Estimate
      /\ Lead(s, w, n) /\ (c = {} => Mirrors(s, w))
  BY DEF Sound
<1>2. /\ IsController(x) /\ x.lastStart = s.lastStart /\ x.active = s.active
  BY <1>1, SpendTyped
<1>3. /\ v.active = Reported(w.active, t, amount)
      /\ v.completed = w.completed /\ v.usage = w.usage /\ v.lastStart = w.lastStart
  BY ReportSpendIs
<1>4. DOMAIN v.active = DOMAIN w.active /\ \A u \in DOMAIN w.active \ {t} : v.active[u] = w.active[u]
  BY <1>3 DEF Reported
<1>5. CASE t \in DOMAIN s.active
  <2>1. /\ x.usage = s.usage /\ x.estimates = s.estimates
        /\ x.spend = Reported(s.spend, t, amount)
    BY <1>1, <1>5, OnSpendIs DEF IsController
  <2>2. ASSUME c = {} PROVE Mirrors(x, v)
    <3>1. \A u \in DOMAIN w.active : s.spend[u] = w.active[u]
      BY <1>1, <2>2 DEF Mirrors
    <3>2. s.spend \in [Tasks -> Nat]
      BY <1>1 DEF IsController
    <3>3. x.spend[t] = Larger(s.spend[t], amount) /\ \A u \in Tasks \ {t} : x.spend[u] = s.spend[u]
      BY <2>1, <3>2 DEF Reported
    <3>4. t \in DOMAIN w.active /\ DOMAIN w.active \subseteq Tasks
      BY <1>1, <1>5, <2>2 DEF Agrees, IsController
    <3>5. v.active[t] = Larger(w.active[t], amount)
      BY <1>3, <3>4 DEF Reported
    <3>6. \A u \in DOMAIN v.active : x.spend[u] = v.active[u]
      BY <1>4, <3>1, <3>3, <3>4, <3>5
    <3> QED
      BY <1>1, <1>3, <2>1, <2>2, <3>6 DEF Mirrors
  <2>3. Held(x) /\ x.estimates = Estimate
    BY <1>1, <1>2, <2>1 DEF Held
  <2> QED
    BY <1>1, <1>2, <1>3, <2>2, <2>3 DEF Sound, Lead
<1>6. CASE t \notin DOMAIN s.active
  <2>1. x = s
    BY <1>6 DEF OnSpend
  <2>2. ASSUME c = {} PROVE Mirrors(x, v)
    <3>1. t \notin DOMAIN w.active
      BY <1>6, <2>2 DEF Agrees
    <3> QED
      BY <1>1, <1>3, <1>4, <2>1, <2>2, <3>1 DEF Mirrors
  <2> QED
    BY <1>1, <1>3, <2>1, <2>2 DEF Sound, Lead
<1> QED
  BY <1>5, <1>6

\* Evidence that gains a record on either side.
LEMMA CoveredAdd ==
  ASSUME NEW lo, NEW hi, Covered(lo, hi), NEW u, NEW v, Twin(u, v)
  PROVE  Covered(lo \cup {u}, hi \cup {v})
<1>1. ASSUME NEW a \in lo \cup {u} PROVE \E b \in hi \cup {v} : Twin(a, b)
  BY DEF Covered
<1>2. ASSUME NEW b \in hi \cup {v} PROVE \E a \in lo \cup {u} : Twin(a, b)
  BY DEF Covered
<1> QED
  BY <1>1, <1>2 DEF Covered

LEMMA SoundCompleted ==
  ASSUME NEW s, NEW w, NEW n, NEW c, Sound(s, w, n, c), Agrees(s, w, c), IsWorld(w),
         NEW t \in Tasks, t \in DOMAIN w.active, NEW at \in Nat,
         NEW x, x = OnCompleted(s, t, at), NEW v, v = CompleteTask(w, t, at)
  PROVE  Sound(x, v, n, c)
<1>1. /\ IsController(s) /\ Held(s) /\ s.estimates = Estimate
      /\ Lead(s, w, n) /\ (c = {} => Mirrors(s, w))
  BY DEF Sound
<1>2. IsController(x) /\ x.lastStart = s.lastStart
  BY <1>1, CompletedTyped
<1>3. /\ v.active = Without(w.active, t)
      /\ v.usage = w.usage \cup {RecordOf(t, at, Claim(w, t))}
      /\ v.lastStart = w.lastStart
  BY CompleteTaskIs
<1>4. DOMAIN v.active = DOMAIN w.active \ {t} /\ \A u \in DOMAIN v.active : v.active[u] = w.active[u]
  BY <1>3 DEF Without
<1>5. CASE t \in DOMAIN s.active
  <2>1. /\ x.active = Without(s.active, t)
        /\ x.spend = Cleared(s.spend, t)
        /\ x.usage = s.usage \cup {RecordOf(t, at, Settled(s, t))}
        /\ x.estimates = s.estimates
    BY <1>1, <1>5, OnCompletedIs DEF IsController
  <2>2. Held(x) /\ x.estimates = Estimate
    <3>1. DOMAIN x.active \subseteq DOMAIN s.active /\ \A u \in DOMAIN x.active : x.active[u] = s.active[u]
      BY <2>1 DEF Without
    <3> QED
      BY <1>1, <2>1, <3>1 DEF Held
  <2>3. ASSUME c = {} PROVE Mirrors(x, v)
    <3>1. \A u \in DOMAIN w.active : s.spend[u] = w.active[u]
      BY <1>1, <2>3 DEF Mirrors
    <3>2. s.spend \in [Tasks -> Nat]
      BY <1>1 DEF IsController
    <3>3. \A u \in Tasks \ {t} : x.spend[u] = s.spend[u]
      BY <2>1, <3>2 DEF Cleared
    <3>4. DOMAIN w.active \subseteq Tasks
      BY <1>1, <2>3 DEF Agrees, IsController
    <3>5. \A u \in DOMAIN v.active : x.spend[u] = v.active[u]
      BY <1>4, <3>1, <3>3, <3>4
    <3>6. PICK a, b, u, k : /\ a = Claim(w, t) /\ b = Settled(s, t)
                            /\ u = RecordOf(t, at, a) /\ k = RecordOf(t, at, b)
      OBVIOUS
    <3>7. a \in Nat /\ b \in Nat /\ a <= b
      <4>1. PICK e, d, h : e = Estimate[t] /\ d = w.active[t] /\ h = s.active[t].floor
        OBVIOUS
      <4>2. e \in Nat /\ d \in Nat /\ h \in Nat /\ h >= e /\ s.spend[t] = d
        BY <1>1, <1>5, <3>1, <3>2, <4>1 DEF Held, IsController
      <4>3. a = Larger(e, d) /\ b = Larger(d, h)
        BY <3>6, <4>1, <4>2 DEF Claim, Settled
      <4> QED
        BY <4>2, <4>3 DEF Larger
    <3>8. /\ u.id = t /\ u.at = at /\ u.amount = a
          /\ k.id = t /\ k.at = at /\ k.amount = b
      BY <3>6 DEF RecordOf
    <3>9. Twin(u, k)
      BY <3>7, <3>8 DEF Twin
    <3>10. IsUsage(w.usage) /\ Covered(w.usage, s.usage)
      BY <1>1, <2>3 DEF Mirrors
    <3>11. v.usage = w.usage \cup {u} /\ x.usage = s.usage \cup {k}
      BY <1>3, <2>1, <3>6
    <3>12. \A r \in w.usage : r.id # t
      <4>1. \A r \in s.usage : r.id # t
        BY <1>1, <1>5 DEF IsController
      <4> QED
        BY <3>10, <4>1 DEF Covered, Twin
    <3>13. IsFiniteSet(w.usage \cup {u})
      BY <3>10, FS_AddElement DEF IsUsage
    <3>14. t \in Nat
      BY PacerAssumption, WindowsAssumption
    <3>15. IsUsage(w.usage \cup {u})
      BY <3>7, <3>8, <3>10, <3>12, <3>13, <3>14 DEF IsUsage
    <3>16. Covered(w.usage \cup {u}, s.usage \cup {k})
      BY <3>9, <3>10, CoveredAdd
    <3> QED
      BY <3>5, <3>11, <3>15, <3>16 DEF Mirrors
  <2> QED
    BY <1>1, <1>2, <1>3, <2>2, <2>3 DEF Sound, Lead
<1>6. CASE t \notin DOMAIN s.active
  <2>1. x = s
    BY <1>6 DEF OnCompleted
  <2>2. c # {}
    BY <1>6 DEF Agrees
  <2> QED
    BY <1>1, <1>3, <2>1, <2>2 DEF Sound, Lead
<1> QED
  BY <1>5, <1>6

LEMMA RestartTyped ==
  ASSUME NEW s, IsController(s), NEW x, x = Restarted(s)
  PROVE  IsController(x)
<1>1. /\ IsState(x)
      /\ x.active = <<>> /\ x.completed = s.completed /\ x.usage = s.usage
      /\ x.lastStart = s.lastStart /\ x.timer = None /\ x.estimates = s.estimates
      /\ x.spend = [t \in Tasks |-> 0] /\ x.backoff = [q \in Principals |-> 100]
  BY RestartedIs DEF IsController
<1>2. x.spend \in [Tasks -> Nat] /\ \A t \in Tasks : x.spend[t] = 0
  BY <1>1
<1>3. x.backoff \in [Principals -> {b \in Nat : b >= 100}]
  BY <1>1
<1>4. DOMAIN x.active = {}
  BY <1>1
<1> QED
  BY <1>1, <1>2, <1>3, <1>4 DEF IsController

LEMMA SoundRestarted ==
  ASSUME NEW s, NEW w, NEW n, NEW c, Sound(s, w, n, c), NEW x, x = Restarted(s),
         NEW d, d = c \cup DOMAIN w.active
  PROVE  Sound(x, w, n, d)
<1>1. /\ IsController(s) /\ Held(s) /\ s.estimates = Estimate
      /\ Lead(s, w, n) /\ (c = {} => Mirrors(s, w))
  BY DEF Sound
<1>2. IsController(x)
  BY <1>1, RestartTyped
<1>3. /\ x.active = <<>> /\ x.usage = s.usage /\ x.lastStart = s.lastStart /\ x.estimates = s.estimates
  BY <1>1, RestartedIs DEF IsController
<1>4. DOMAIN x.active = {}
  BY <1>3
<1>5. Held(x)
  BY <1>4 DEF Held
<1>6. ASSUME d = {} PROVE Mirrors(x, w)
  BY <1>1, <1>3, <1>6 DEF Mirrors
<1> QED
  BY <1>1, <1>2, <1>3, <1>5, <1>6 DEF Sound, Lead

\* What the step says of the world, once an event has been told.
Fitting == RealFits(world, world', cut', pref', now')

LEMMA RealFitsFrom ==
  ASSUME NEW w, NEW u, NEW v, NEW c, NEW preference, NEW instant, RealFits(u, v, c, preference, instant),
         DOMAIN u.active \subseteq DOMAIN w.active, u.lastStart = w.lastStart
  PROVE  RealFits(w, v, c, preference, instant)
  BY DEF RealFits

LEMMA DriveKnows ==
  ASSUME DriveInv, NEW item \in queue
  PROVE  /\ item.at \in Nat /\ IsState(p) /\ IsController(p) /\ IsWorld(world) /\ Agrees(p, world, cut)
         /\ pref \in Preferences /\ Sound(p, world, item.at, cut)
         /\ item.kind = "preference" => item.preference \in Preferences
         /\ item.kind \in {"spend", "completed"} => item.task \in Tasks
         /\ item.kind = "spend" => trace[item.task].overrun \in Nat
         /\ item.kind = "completed" => item.task \in DOMAIN world.active
<1>1. now \in Nat /\ item.at \in Nat /\ now <= item.at
  BY DEF DriveInv, DriveRest, QueueOK
<1>2. PICK s, w, n, c : s = p /\ w = world /\ n = now /\ c = cut
  OBVIOUS
<1>3. Sound(s, w, item.at, c)
  BY <1>1, <1>2, SoundLater DEF DriveInv, DriveRest
<1>4. Sound(p, world, item.at, cut)
  BY <1>2, <1>3
<1> QED
  BY <1>1, <1>4 DEF DriveInv, DriveRest, QueueOK, LoopInv, OwesCompletions, Sound

LEMMA NotifyFits ==
  ASSUME DriveInv, NEW item \in queue, First(item), NEW event, NEW w, NEW preference \in Preferences,
         Notify(item, event, w, preference), IsWorld(w), Sound(event, w, item.at, cut), Agrees(event, w, cut),
         DOMAIN w.active \subseteq DOMAIN world.active, w.lastStart = world.lastStart
  PROVE  DriveRest' /\ Fitting
<1>0. item.at \in Nat
  BY DriveKnows
<1>1. PICK notified :
        /\ notified = TryAdmit(event, preference, item.at)
        /\ Serve(item, event, notified, w, preference)
  BY DEF Notify
<1>2. cut' = cut
  BY DEF Notify
<1>3. IsController(event)
  BY DEF Sound
<1>4. PassOK(event, notified, preference, item.at)
  BY <1>0, <1>1, <1>3, PassFits
<1>5. Passed(event, notified, preference, item.at)
  BY <1>4, PassedOnce
<1>6. Sound(event, w, item.at, cut') /\ Agrees(event, w, cut')
  BY <1>2
<1>7. DriveRest' /\ RealFits(w, world', cut', pref', now')
  BY <1>1, <1>5, <1>6, ServeFits
<1>8. PICK u, v, c, q, n : u = world /\ v = world' /\ c = cut' /\ q = pref' /\ n = now'
  OBVIOUS
<1>9. RealFits(u, v, c, q, n)
  BY <1>7, <1>8, RealFitsFrom
<1> QED
  BY <1>7, <1>8, <1>9 DEF Fitting

LEMMA PollFits ==
  ASSUME DriveInv, NEW item \in queue, Poll(item)
  PROVE  DriveRest' /\ Fitting
<1>1. First(item) /\ Serve(item, p, p, world, pref) /\ cut' = cut
  BY DEF Poll, Pop
<1>2. PICK s, w, preference : s = p /\ w = world /\ preference = pref
  OBVIOUS
<1>3. /\ IsController(s) /\ IsWorld(w) /\ Agrees(s, w, cut') /\ preference \in Preferences
      /\ Sound(s, w, item.at, cut') /\ Serve(item, s, s, w, preference)
  BY <1>1, <1>2, DriveKnows
<1>4. Passed(s, s, preference, item.at)
  BY <1>3, PassedNone
<1>5. DriveRest' /\ RealFits(w, world', cut', pref', now')
  BY <1>1, <1>3, <1>4, ServeFits
<1> QED
  BY <1>2, <1>5 DEF Fitting

LEMMA SpendFits ==
  ASSUME DriveInv, NEW item \in queue, SpendReport(item)
  PROVE  DriveRest' /\ Fitting
<1>1. PICK t, amount, s, w, c :
        t = item.task /\ amount = trace[item.task].overrun /\ s = p /\ w = world /\ c = cut
  OBVIOUS
<1>2. PICK x, v : x = OnSpend(s, t, amount) /\ v = ReportSpend(w, t, amount)
  OBVIOUS
<1>3. First(item) /\ item.kind = "spend" /\ Notify(item, x, v, pref)
  BY <1>1, <1>2 DEF SpendReport, Pop
<1>4. /\ t \in Tasks /\ amount \in Nat /\ IsState(s) /\ IsWorld(w) /\ Agrees(s, w, c)
      /\ Sound(s, w, item.at, c) /\ pref \in Preferences
  BY <1>1, <1>3, DriveKnows
<1>5. Sound(x, v, item.at, c)
  BY <1>2, <1>4, SoundSpend
<1>6. IsWorld(v) /\ Agrees(x, v, c) /\ DOMAIN v.active = DOMAIN w.active /\ v.lastStart = w.lastStart
  BY <1>2, <1>4, SpendAgrees
<1> QED
  BY <1>1, <1>3, <1>4, <1>5, <1>6, NotifyFits

LEMMA CompletionFits ==
  ASSUME DriveInv, NEW item \in queue, Completion(item)
  PROVE  DriveRest' /\ Fitting
<1>1. PICK t, s, w, c : t = item.task /\ s = p /\ w = world /\ c = cut
  OBVIOUS
<1>2. PICK x, v : x = OnCompleted(s, t, item.at) /\ v = CompleteTask(w, t, item.at)
  OBVIOUS
<1>3. First(item) /\ item.kind = "completed" /\ Notify(item, x, v, pref)
  BY <1>1, <1>2 DEF Completion, Pop
<1>4. /\ t \in Tasks /\ t \in DOMAIN w.active /\ IsState(s) /\ IsWorld(w) /\ Agrees(s, w, c)
      /\ Sound(s, w, item.at, c) /\ pref \in Preferences /\ item.at \in Nat
  BY <1>1, <1>3, DriveKnows
<1>5. Sound(x, v, item.at, c)
  BY <1>2, <1>4, SoundCompleted
<1>6. IsWorld(v) /\ Agrees(x, v, c) /\ DOMAIN v.active = DOMAIN w.active \ {t} /\ v.lastStart = w.lastStart
  BY <1>2, <1>4, CompletedAgrees
<1> QED
  BY <1>1, <1>3, <1>4, <1>5, <1>6, NotifyFits

LEMMA PreferenceFits ==
  ASSUME DriveInv, NEW item \in queue, PreferenceChanged(item)
  PROVE  DriveRest' /\ Fitting
<1>1. PICK s, w : s = p /\ w = world
  OBVIOUS
<1>2. First(item) /\ item.kind = "preference" /\ Notify(item, s, w, item.preference)
  BY <1>1 DEF PreferenceChanged, Pop
<1>3. IsWorld(w) /\ Agrees(s, w, cut) /\ Sound(s, w, item.at, cut) /\ item.preference \in Preferences
  BY <1>1, <1>2, DriveKnows
<1> QED
  BY <1>1, <1>2, <1>3, NotifyFits

LEMMA RestartFits ==
  ASSUME DriveInv, NEW item \in queue, DaemonRestart(item)
  PROVE  DriveRest' /\ Fitting
<1>1. PICK s, w, c, x : s = p /\ w = world /\ c = cut /\ x = Restarted(s)
  OBVIOUS
<1>2. First(item) /\ Serve(item, x, x, w, pref) /\ cut' = c \cup DOMAIN w.active
  BY <1>1 DEF DaemonRestart, Pop
<1>3. IsState(s) /\ IsWorld(w) /\ Agrees(s, w, c) /\ Sound(s, w, item.at, c) /\ pref \in Preferences
  BY <1>1, DriveKnows
<1>4. Sound(x, w, item.at, cut')
  BY <1>1, <1>2, <1>3, SoundRestarted
<1>5. x.completed = s.completed /\ x.active = <<>>
  BY <1>1, <1>3, RestartedIs
<1>6. DOMAIN x.active = {}
  BY <1>5
<1>7. Agrees(x, w, cut')
  BY <1>2, <1>3, <1>5, <1>6 DEF Agrees
<1>8. Passed(x, x, pref, item.at)
  BY <1>4, PassedNone DEF Sound
<1>9. DriveRest' /\ RealFits(w, world', cut', pref', now')
  BY <1>2, <1>3, <1>4, <1>7, <1>8, ServeFits
<1> QED
  BY <1>1, <1>9 DEF Fitting

LEMMA DriveInit == DrInit => DriveInv
<1> SUFFICES ASSUME DrInit PROVE DriveInv
  OBVIOUS
<1>1. LoopInv
  BY LoopInit
<1>2. /\ p = Fresh /\ now = 0 /\ pref \in Preferences
      /\ world = [active |-> <<>>, completed |-> {}, usage |-> {}, lastStart |-> None] /\ cut = {}
      /\ trace \in [Tasks -> [duration : Durations, overrun : Spends \cup {None}]]
  BY DEF DrInit, PcInit
<1>3. TraceOK(trace)
  BY <1>2, PacerAssumption, WindowsAssumption, DriveAssumption DEF TraceOK
<1>4. QueueOK(queue, trace, now)
  <2>1. PICK events \in kSubset(MaxEvents, Exogenous) \cup {{}} :
          queue = events \cup {Item(0, "poll", None, None)}
    BY DEF DrInit
  <2>2. events \subseteq Exogenous
    BY DEF kSubset
  <2>3. ASSUME NEW i \in Exogenous
        PROVE  /\ i.at \in Nat /\ i.kind \in {"restart", "preference"}
               /\ i.kind = "preference" => i.preference \in Preferences
    BY DriveAssumption DEF Exogenous, Item
  <2>4. PICK j : j = Item(0, "poll", None, None)
    OBVIOUS
  <2>5. j.at = 0 /\ j.kind = "poll"
    BY <2>4 DEF Item
  <2> QED
    BY <1>2, <2>1, <2>2, <2>3, <2>4, <2>5 DEF QueueOK
<1>5. /\ p.active = <<>> /\ p.estimates = Estimate /\ p.usage = {} /\ p.lastStart = None
      /\ world.active = <<>> /\ world.usage = {} /\ world.lastStart = None
  BY <1>2 DEF Fresh
<1>6. DOMAIN p.active = {} /\ DOMAIN world.active = {}
  BY <1>5
<1>7. Held(p) /\ Lead(p, world, now)
  BY <1>5, <1>6 DEF Held, Lead
<1>8. Mirrors(p, world)
  BY <1>5, <1>6, FS_EmptySet DEF Mirrors, IsUsage, Covered
<1>9. Sound(p, world, now, cut)
  BY <1>2, <1>5, <1>7, <1>8, FreshTyped DEF Sound
<1> QED
  BY <1>1, <1>2, <1>3, <1>4, <1>9 DEF DriveInv, DriveRest

LEMMA DriveStep ==
  ASSUME DriveInv, [DrNext]_drVars
  PROVE  DriveInv' /\ (UNCHANGED drVars \/ Fitting)
<1>1. CASE UNCHANGED drVars
  BY <1>1 DEF drVars, pcVars, DriveInv, DriveRest, LoopInv
<1>2. CASE DrNext
  <2>1. LoopInv'
    BY <1>2, LoopStep DEF DriveInv, DriveRest
  <2>2. DriveRest' /\ Fitting
    BY <1>2, PollFits, SpendFits, CompletionFits, PreferenceFits, RestartFits DEF DrNext
  <2> QED
    BY <2>1, <2>2 DEF DriveInv, DriveRest
<1> QED
  BY <1>1, <1>2

\* For any trace of durations and overruns, restarts and changes of preference at any
\* instant: what the driver really starts leaves every window with something on the
\* world's own books, and keeps the spacing after the last real start.
THEOREM RealStartsFitWindows == DrSpec => RealStartsFit
<1> DEFINE A == LET new == DOMAIN world'.active \ DOMAIN world.active
                    open == SumFunction([t \in DOMAIN world'.active |-> Max({Estimate[t], world'.active[t]})])
                IN  new # {} /\ cut' = {} => \A w \in Windows : ~Blocks(w, world'.usage, open, now')
           B == \A t \in DOMAIN world'.active \ DOMAIN world.active :
                  pref'.mode = "sustain" /\ world.lastStart # None =>
                    now' >= world.lastStart + Spacing(Estimate[t])
<1>1. DriveInv /\ [DrNext]_drVars => DriveInv'
  BY DriveStep
<1>2. DriveInv /\ [DrNext]_drVars => [A]_drVars /\ [B]_drVars
  <2> SUFFICES ASSUME DriveInv, [DrNext]_drVars PROVE [A]_drVars /\ [B]_drVars
    OBVIOUS
  <2>1. CASE UNCHANGED drVars
    BY <2>1
  <2>2. CASE Fitting
    BY <2>2 DEF Fitting, RealFits, Open
  <2> QED
    BY <2>1, <2>2, DriveStep
<1>3. [][A]_drVars => LimitsRespected
  BY DEF LimitsRespected
<1>4. [][B]_drVars => SpacingSurvives
  BY DEF SpacingSurvives
<1> QED
  BY <1>1, <1>2, <1>3, <1>4, DriveInit, PTL DEF DrSpec, RealStartsFit
-----------------------------------------------------------------------------
(* When a window admits again: what it has left at later instants. *)

\* All of the evidence is dated by now.
Dated(usage, at) == \A u \in usage : u.at <= at

\* The multiples of a cycle up to two instants are the same or at least a cycle apart.
LEMMA CycleStep ==
  ASSUME NEW c \in Nat \ {0}, NEW a \in Nat, NEW b \in Nat, a <= b
  PROVE  LET x == a - (a % c)
             y == b - (b % c)
         IN  x \in Nat /\ y \in Nat /\ x <= a /\ a < x + c /\ (x = y \/ x + c <= y)
<1>1. PICK q, r : q = a \div c /\ r = b \div c
  OBVIOUS
<1>2. q \in Nat /\ r \in Nat
  BY <1>1
<1>3. a % c \in 0..(c - 1) /\ b % c \in 0..(c - 1)
  OBVIOUS
<1>4. PICK x, y : x = a - (a % c) /\ y = b - (b % c)
  OBVIOUS
<1>5. x = c * q /\ y = c * r
  BY <1>1, <1>4
<1>6. x \in Nat /\ y \in Nat
  BY <1>2, <1>5
<1>7. q <= r
  <2>1. a \in Int /\ b \in Int
    OBVIOUS
  <2> QED
    BY <1>1, <2>1, DivMonotone
<1>70. x <= a /\ a < x + c
  BY <1>3, <1>4
<1>8. CASE q = r
  <2>1. x = y
    BY <1>5, <1>8
  <2> QED
    BY <1>4, <1>6, <1>70, <2>1
<1>9. CASE q # r
  <2>1. PICK e, more : e = r - q - 1 /\ more = c * e
    OBVIOUS
  <2>2. e \in Nat /\ r = q + 1 + e
    BY <1>2, <1>7, <1>9, <2>1
  <2>3. more \in Nat
    BY <2>1, <2>2
  <2>4. c * r = c * q + c + more
    BY <1>2, <2>1, <2>2
  <2>5. x + c <= y
    BY <1>5, <1>6, <2>3, <2>4
  <2> QED
    BY <1>4, <1>6, <1>70, <2>5
<1> QED
  BY <1>8, <1>9

\* A period is that of its instants, and the next one begins where it ends.
LEMMA PeriodIs ==
  ASSUME NEW w, IsWindow(w), w.kind = "fixed", NEW at \in Nat, NEW t \in Nat, at <= t
  PROVE  /\ PeriodStart(w, at) \in Nat /\ PeriodEnd(w, at) \in Nat
         /\ PeriodStart(w, at) <= at /\ at < PeriodEnd(w, at)
         /\ t < PeriodEnd(w, at) => PeriodStart(w, t) = PeriodStart(w, at)
         /\ t >= PeriodEnd(w, at) => PeriodStart(w, t) >= PeriodEnd(w, at)
<1>1. PICK c, R : c = w.cycle /\ R = w.resets
  OBVIOUS
<1>2. c \in Nat \ {0} /\ R \subseteq 0..(c - 1) /\ 0 \in R
  BY <1>1, Kinds
<1>3. PICK a, b : a = at % c /\ b = t % c
  OBVIOUS
<1>4. a \in 0..(c - 1) /\ b \in 0..(c - 1)
  BY <1>2, <1>3
<1>5. PICK x, y : x = at - a /\ y = t - b
  OBVIOUS
<1>6. x \in Nat /\ y \in Nat /\ (x = y \/ x + c <= y)
  BY <1>2, <1>3, <1>5, CycleStep
<1>7. PICK L, M, N : /\ L = {r \in R : r <= a} /\ M = {r \in R : r <= b}
                     /\ N = {r \in R \cup {c} : r > a}
  OBVIOUS
<1>8. /\ IsFiniteSet(L) /\ 0 \in L /\ L \subseteq Int
      /\ IsFiniteSet(M) /\ 0 \in M /\ M \subseteq Int
      /\ c \in N /\ N \subseteq Nat
  <2>1. IsFiniteSet(0..(c - 1))
    BY <1>2, FS_Interval
  <2>2. PICK A : A = 0..(c - 1)
    OBVIOUS
  <2>3. IsFiniteSet(A) /\ R \subseteq A /\ A \subseteq Int /\ \A r \in A : r \in Nat
    BY <1>2, <2>1, <2>2
  <2>4. L \subseteq A /\ M \subseteq A
    BY <1>7, <2>3
  <2>5. 0 <= a /\ 0 <= b /\ c > a /\ c \in Nat
    BY <1>2, <1>4
  <2>6. 0 \in L /\ 0 \in M /\ c \in N
    BY <1>2, <1>7, <2>5
  <2>7. IsFiniteSet(L) /\ IsFiniteSet(M)
    BY <2>3, <2>4, FS_Subset
  <2>8. N \subseteq Nat
    BY <1>7, <2>3, <2>5
  <2> QED
    BY <2>3, <2>4, <2>6, <2>7, <2>8
<1>9. PICK l, m, n : l = Max(L) /\ m = Max(M) /\ n = Min(N)
  OBVIOUS
<1>10. l \in L /\ \A r \in L : r <= l
  BY <1>8, <1>9, MaxIs
<1>11. m \in M /\ \A r \in M : r <= m
  BY <1>8, <1>9, MaxIs
<1>12. n \in N /\ \A r \in N : n <= r
  BY <1>8, <1>9, MinNat
<1>13. /\ PeriodStart(w, at) = x + l /\ PeriodStart(w, t) = y + m
       /\ PeriodEnd(w, at) = x + n
  BY <1>1, <1>3, <1>5, <1>7, <1>9 DEF PeriodStart, PeriodEnd
<1>14. /\ l \in Nat /\ l <= a /\ m \in Nat /\ m <= b
       /\ n \in Nat /\ n > a /\ n <= c
  BY <1>2, <1>4, <1>7, <1>8, <1>10, <1>11, <1>12
<1>15. at = x + a /\ t = y + b
  BY <1>4, <1>5
<1>16. ASSUME x = y PROVE a <= b /\ (b < n => m = l) /\ (b >= n => m >= n)
  <2>1. a <= b
    BY <1>4, <1>6, <1>15, <1>16
  <2>2. ASSUME b < n PROVE m = l
    <3>1. l \in M
      BY <1>2, <1>4, <1>7, <1>10, <2>1
    <3>2. m <= a
      <4>1. ASSUME m > a PROVE FALSE
        <5>1. m \in N
          BY <1>7, <1>11, <4>1
        <5> QED
          BY <1>4, <1>12, <1>14, <2>2, <5>1
      <4> QED
        BY <1>4, <1>14, <4>1
    <3>3. m \in L
      BY <1>7, <1>11, <3>2
    <3>4. l <= m /\ m <= l
      BY <1>10, <1>11, <3>1, <3>3
    <3> QED
      BY <1>14, <3>4
  <2>3. ASSUME b >= n PROVE m >= n
    <3>1. n # c
      BY <1>2, <1>4, <1>14, <2>3
    <3>2. n \in M
      BY <1>7, <1>12, <2>3, <3>1
    <3> QED
      BY <1>11, <3>2
  <2> QED
    BY <2>1, <2>2, <2>3
<1>17. CASE x = y
  BY <1>4, <1>6, <1>13, <1>14, <1>15, <1>16, <1>17
<1>18. CASE x + c <= y
  BY <1>2, <1>4, <1>6, <1>13, <1>14, <1>15, <1>18
<1> QED
  BY <1>6, <1>17, <1>18


\* Fewer records amount to no more.
LEMMA AmountSubset ==
  ASSUME NEW D, IsUsage(D), NEW E, E \subseteq D
  PROVE  Amount(E) <= Amount(D) /\ Amount(E) \in Nat /\ Amount(D) \in Nat
<1>1. IsUsage(E)
  BY UsageSubset
<1>2. PICK f, g : f = AmountsOf(E) /\ g = AmountsOf(D)
  OBVIOUS
<1>3. /\ Amount(E) = SumOver(f, E) /\ Amount(E) \in Nat /\ Ints(f, E)
      /\ Amount(D) = SumOver(g, D) /\ Amount(D) \in Nat /\ Ints(g, D) /\ Above0(g, D)
  BY <1>1, <1>2, AmountIs
<1>4. \A x \in E : f[x] = g[x]
  BY <1>2 DEF AmountsOf
<1>5. Below(f, g, E) /\ Above0(g, D \ E)
  BY <1>3, <1>4 DEF Below, Above0, Ints
<1>6. SumOver(f, E) <= SumOver(g, D)
  BY <1>3, <1>5, SumSubset
<1> QED
  BY <1>3, <1>6

LEMMA AmountNone == Amount({}) = 0
<1>1. IsUsage({})
  BY FS_EmptySet DEF IsUsage
<1>2. PICK f : f = AmountsOf({})
  OBVIOUS
<1>3. Amount({}) = SumOver(f, {}) /\ Ints(f, {})
  BY <1>1, <1>2, AmountIs
<1> QED
  BY <1>3, SumIs

\* A fixed window has the same left until its period ends, then everything.
LEMMA FixedLater ==
  ASSUME NEW w, IsWindow(w), w.kind = "fixed", NEW usage, IsUsage(usage), NEW at \in Nat,
         Dated(usage, at), NEW t \in Nat, at <= t
  PROVE  /\ t < PeriodEnd(w, at) => Room(w, usage, t) = Room(w, usage, at)
         /\ t >= PeriodEnd(w, at) => Room(w, usage, t) = w.limit
<1>1. PICK e, x, y : e = PeriodEnd(w, at) /\ x = PeriodStart(w, at) /\ y = PeriodStart(w, t)
  OBVIOUS
<1>2. /\ x \in Nat /\ e \in Nat /\ at < e
      /\ t < e => y = x
      /\ t >= e => y >= e
  BY <1>1, PeriodIs
<1>2a. y \in Nat
  <2>1. t <= t
    OBVIOUS
  <2> QED
    BY <1>1, <2>1, PeriodIs
<1>3. PICK A, B : A = {u \in Seen(usage, at) : u.at >= x} /\ B = {u \in Seen(usage, t) : u.at >= y}
  OBVIOUS
<1>4. Room(w, usage, at) = w.limit - Amount(A) /\ Room(w, usage, t) = w.limit - Amount(B)
  BY <1>1, <1>3 DEF Room
<1>5. \A u \in usage : u.at \in Nat /\ u.at <= at /\ u.at <= t
  BY DEF IsUsage, Dated
<1>6. CASE t < e
  <2>1. A = B
    BY <1>2, <1>3, <1>5, <1>6 DEF Seen
  <2> QED
    BY <1>1, <1>2, <1>4, <1>6, <2>1
<1>7. CASE t >= e
  <2>1. B = {}
    BY <1>2, <1>2a, <1>3, <1>5, <1>7 DEF Seen
  <2>2. w.limit \in Nat
    BY Kinds
  <2> QED
    BY <1>1, <1>2, <1>4, <1>7, <2>1, <2>2, AmountNone
<1> QED
  BY <1>2, <1>6, <1>7

\* A record leaves a sliding window one length after its instant.
Left(w, usage, at, from) == w.limit - Amount({u \in InWindow(w, usage, at) : u.at > from})

LEMMA SlidingLater ==
  ASSUME NEW w, IsWindow(w), w.kind = "sliding", NEW usage, IsUsage(usage), NEW at \in Nat,
         Dated(usage, at), NEW t \in Nat, at <= t
  PROVE  /\ Room(w, usage, t) = Left(w, usage, at, t - w.length)
         /\ InWindow(w, usage, t) \subseteq InWindow(w, usage, at)
<1>1. \A u \in usage : u.at \in Nat /\ u.at <= at /\ u.at <= t
  BY DEF IsUsage, Dated
<1>2. w.length \in Nat
  BY Kinds
<1>3. InWindow(w, usage, t) = {u \in InWindow(w, usage, at) : u.at > t - w.length}
  BY <1>1, <1>2 DEF InWindow, Seen
<1> QED
  BY <1>3 DEF Room, Left

LEMMA LeftIs ==
  ASSUME NEW w, IsWindow(w), NEW usage, IsUsage(usage), NEW at \in Nat,
         NEW x \in Int, NEW y \in Int, x <= y
  PROVE  /\ Left(w, usage, at, x) \in Int /\ Left(w, usage, at, y) \in Int
         /\ Left(w, usage, at, x) <= Left(w, usage, at, y)
         /\ Left(w, usage, at, y) <= w.limit
<1>1. PICK I, X, Y : /\ I = InWindow(w, usage, at)
                     /\ X = {u \in I : u.at > x} /\ Y = {u \in I : u.at > y}
  OBVIOUS
<1>2. IsUsage(I) /\ IsUsage(X)
  BY <1>1, UsageSubset DEF InWindow, Seen
<1>3. \A u \in I : u.at \in Nat
  BY <1>2 DEF IsUsage
<1>4. Y \subseteq X
  BY <1>1, <1>3
<1>5. Amount(Y) <= Amount(X) /\ Amount(Y) \in Nat /\ Amount(X) \in Nat
  BY <1>2, <1>4, AmountSubset
<1>6. w.limit \in Nat
  BY Kinds
<1>7. Left(w, usage, at, x) = w.limit - Amount(X) /\ Left(w, usage, at, y) = w.limit - Amount(Y)
  BY <1>1 DEF Left
<1> QED
  BY <1>5, <1>6, <1>7


\* What names the relief of a window: the instant from which on it has more than o left.
Relieves(w, usage, o, at, instant) ==
  /\ instant \in Nat /\ instant > at
  /\ \A t \in Nat : t >= at => (Room(w, usage, t) - o <= 0 <=> t < instant)

Enough(w, usage, o, at) ==
  {u.at : u \in {v \in InWindow(w, usage, at) : Left(w, usage, at, v.at) - o > 0}}

LEMMA SlidingRelief ==
  ASSUME NEW w, IsWindow(w), w.kind = "sliding", NEW usage, IsUsage(usage), NEW at \in Nat,
         Dated(usage, at), NEW o \in Int, o < w.limit, Room(w, usage, at) - o <= 0
  PROVE  /\ Enough(w, usage, o, at) # {}
         /\ Relieves(w, usage, o, at, Min(Enough(w, usage, o, at)) + w.length)
<1>0. w.length \in Nat \ {0} /\ w.limit \in Nat
  BY Kinds
<1>1. PICK I : I = InWindow(w, usage, at)
  OBVIOUS
<1>2. IsUsage(I) /\ \A u \in I : u.at \in Nat /\ u.at > at - w.length
  <2>1. I \subseteq usage /\ \A u \in I : u.at > at - w.length
    BY <1>1 DEF InWindow, Seen
  <2>2. IsUsage(I)
    BY <2>1, UsageSubset
  <2> QED
    BY <2>1, <2>2 DEF IsUsage
<1>3. PICK S : S = Enough(w, usage, o, at)
  OBVIOUS
<1>4. \A n : n \in S <=> \E u \in I : n = u.at /\ Left(w, usage, at, u.at) - o > 0
  BY <1>1, <1>3 DEF Enough
<1>5. S \subseteq Nat
  BY <1>2, <1>4
\* The newest record of those up to an instant, after which just as much is left.
<1>6. ASSUME NEW x \in Int, \E u \in I : u.at <= x
      PROVE  \E u \in I : u.at <= x /\ Left(w, usage, at, u.at) = Left(w, usage, at, x)
  <2>1. PICK D : D = {u \in I : u.at <= x}
    OBVIOUS
  <2>2. IsFiniteSet(D) /\ D # {}
    <3>1. IsFiniteSet(I)
      BY <1>2 DEF IsUsage
    <3> QED
      BY <1>6, <2>1, <3>1, FS_Subset
  <2>3. PICK T : T = {u.at : u \in D}
    OBVIOUS
  <2>4. IsFiniteSet(T) /\ T # {} /\ T \subseteq Int
    <3>1. PICK f : f = [u \in D |-> u.at]
      OBVIOUS
    <3>2. T = {f[u] : u \in D}
      BY <2>3, <3>1
    <3>3. IsFiniteSet(T)
      BY <2>2, <3>2, FiniteImage
    <3>4. \A u \in D : u.at \in Int
      BY <1>2, <2>1
    <3>5. T # {} /\ T \subseteq Int
      BY <2>2, <2>3, <3>4
    <3> QED
      BY <3>3, <3>5
  <2>5. PICK m : m = Max(T)
    OBVIOUS
  <2>6. m \in T /\ \A y \in T : y <= m
    BY <2>4, <2>5, MaxIs
  <2>7. PICK u \in D : u.at = m
    BY <2>3, <2>6
  <2>8. u \in I /\ u.at <= x /\ m \in Nat
    BY <1>2, <2>1, <2>7
  <2>9. \A v \in I : v.at > m <=> v.at > x
    <3> TAKE v \in I
    <3>1. v.at \in Nat
      BY <1>2
    <3>2. CASE v.at <= x
      <4>1. v.at <= m
        BY <2>1, <2>3, <2>6, <3>2
      <4> QED
        BY <2>8, <3>1, <3>2, <4>1
    <3> QED
      BY <2>7, <2>8, <3>1, <3>2
  <2>10. {v \in I : v.at > m} = {v \in I : v.at > x}
    BY <2>9
  <2>11. Left(w, usage, at, m) = Left(w, usage, at, x)
    BY <1>1, <2>10 DEF Left
  <2> QED
    BY <2>7, <2>8, <2>11
<1>7. Left(w, usage, at, at) = w.limit
  <2>1. {u \in I : u.at > at} = {}
    BY <1>1, <1>2 DEF InWindow, Seen
  <2> QED
    BY <1>0, <1>1, <2>1, AmountNone DEF Left
<1>8. I # {}
  <2>1. ASSUME I = {} PROVE FALSE
    <3>1. Room(w, usage, at) = w.limit
      BY <1>0, <1>1, <2>1, AmountNone DEF Room
    <3> QED
      BY <1>0, <3>1
  <2> QED
    BY <2>1
<1>9. S # {}
  <2>1. \E u \in I : u.at <= at
    BY <1>1, <1>8 DEF InWindow, Seen
  <2>2. PICK u \in I : Left(w, usage, at, u.at) = w.limit
    BY <1>6, <1>7, <2>1
  <2> QED
    BY <1>0, <1>4, <2>2
<1>10. PICK m : m = Min(S)
  OBVIOUS
<1>11. m \in S /\ m \in Nat /\ \A y \in S : m <= y
  BY <1>5, <1>9, <1>10, MinNat
<1>12. m > at - w.length /\ Left(w, usage, at, m) - o > 0
  BY <1>2, <1>4, <1>11
<1>13. ASSUME NEW t \in Nat, t >= at PROVE Room(w, usage, t) - o <= 0 <=> t < m + w.length
  <2>1. PICK x : x = t - w.length
    OBVIOUS
  <2>2. x \in Int
    BY <1>0, <2>1
  <2>3. Room(w, usage, t) = Left(w, usage, at, x)
    BY <1>13, <2>1, SlidingLater
  <2>4. CASE t < m + w.length
    <3>1. x < m
      BY <1>0, <1>11, <2>1, <2>4
    <3>2. CASE \E u \in I : u.at <= x
      <4>1. PICK u \in I : u.at <= x /\ Left(w, usage, at, u.at) = Left(w, usage, at, x)
        BY <1>6, <2>2, <3>2
      <4>2. u.at \in Nat /\ u.at < m
        BY <1>2, <1>11, <2>2, <3>1, <4>1
      <4>3. u.at \notin S
        BY <1>11, <4>2
      <4>4. ~(Left(w, usage, at, x) - o > 0)
        BY <1>4, <4>1, <4>3
      <4>5. Left(w, usage, at, x) \in Int
        BY <2>2, LeftIs
      <4> QED
        BY <2>3, <2>4, <4>4, <4>5
    <3>3. CASE ~\E u \in I : u.at <= x
      <4>1. {u \in I : u.at > x} = I
        BY <1>2, <2>2, <3>3
      <4>2. Left(w, usage, at, x) = Room(w, usage, at)
        BY <1>1, <4>1 DEF Left, Room
      <4> QED
        BY <2>3, <2>4, <4>2
    <3> QED
      BY <3>2, <3>3
  <2>5. CASE ~(t < m + w.length)
    <3>1. m <= x /\ m \in Int
      BY <1>0, <1>11, <2>1, <2>5
    <3>2. /\ Left(w, usage, at, m) \in Int /\ Left(w, usage, at, x) \in Int
          /\ Left(w, usage, at, m) <= Left(w, usage, at, x)
      BY <2>2, <3>1, LeftIs
    <3> QED
      BY <1>12, <2>3, <2>5, <3>2
  <2> QED
    BY <2>4, <2>5
<1>14. m + w.length \in Nat /\ m + w.length > at
  BY <1>0, <1>11, <1>12
<1> QED
  BY <1>3, <1>9, <1>10, <1>13, <1>14 DEF Relieves


LEMMA TimesMonotone ==
  ASSUME NEW a \in Int, NEW b \in Int, a <= b, NEW d \in Nat
  PROVE  d * a \in Int /\ d * b \in Int /\ d * a <= d * b
<1>1. PICK e, more : e = b - a /\ more = d * e
  OBVIOUS
<1>2. e \in Nat /\ b = a + e
  BY <1>1
<1>3. more \in Nat
  BY <1>1, <1>2
<1>4. d * b = d * a + more
  BY <1>1, <1>2
<1>5. d * a \in Int /\ d * b \in Int
  OBVIOUS
<1> QED
  BY <1>3, <1>4, <1>5

\* A quotient is at most n where the dividend is below n + 1 times the divisor.
LEMMA DivBelow ==
  ASSUME NEW x \in Int, NEW n \in Int, NEW d \in Nat \ {0}
  PROVE  x \div d \in Int /\ (x \div d - n <= 0 <=> x < d * (n + 1))
<1>1. PICK q : q = x \div d
  OBVIOUS
<1>2. q \in Int
  BY <1>1
<1>3. d * q <= x /\ x < d * q + d
  BY <1>1
<1>4. CASE q <= n
  <2>1. q + 1 \in Int /\ n + 1 \in Int /\ q + 1 <= n + 1 /\ d \in Nat
    BY <1>2, <1>4
  <2>2. d * (q + 1) <= d * (n + 1) /\ d * (q + 1) \in Int /\ d * (n + 1) \in Int
    BY <2>1, TimesMonotone
  <2>3. d * (q + 1) = d * q + d /\ d * q \in Int
    BY <1>2
  <2> QED
    BY <1>1, <1>2, <1>3, <1>4, <2>2, <2>3
<1>5. CASE ~(q <= n)
  <2>1. n + 1 \in Int /\ n + 1 <= q /\ d \in Nat
    BY <1>2, <1>5
  <2>2. d * (n + 1) <= d * q /\ d * q \in Int /\ d * (n + 1) \in Int
    BY <1>2, <2>1, TimesMonotone
  <2> QED
    BY <1>1, <1>2, <1>3, <1>5, <2>2
<1> QED
  BY <1>4, <1>5

LEMMA CeilIs ==
  ASSUME NEW x \in Nat \ {0}, NEW d \in Nat \ {0}
  PROVE  /\ CeilDiv(x, d) \in Nat \ {0}
         /\ \A k \in Nat : d * k < x <=> k < CeilDiv(x, d)
<1>1. PICK n, y : n = CeilDiv(x, d) /\ y = x + d - 1
  OBVIOUS
<1>2. y \in Nat /\ n = y \div d
  BY <1>1 DEF CeilDiv
<1>3. n \in Nat
  BY <1>2
<1>4. d * n <= y /\ y < d * n + d /\ d * n \in Nat
  BY <1>2, <1>3
<1>5. n # 0
  <2>1. ASSUME n = 0 PROVE FALSE
    BY <1>1, <1>4, <2>1
  <2> QED
    BY <2>1
<1>6. ASSUME NEW k \in Nat PROVE d * k < x <=> k < n
  <2>0. d \in Nat /\ k \in Int /\ n \in Int /\ n - 1 \in Int
    BY <1>3
  <2>1. CASE k < n
    <3>1. k <= n - 1
      BY <1>3, <2>1
    <3>2. d * k <= d * (n - 1) /\ d * k \in Int /\ d * (n - 1) \in Int
      BY <2>0, <3>1, TimesMonotone
    <3>3. d * (n - 1) = d * n - d
      BY <1>3
    <3> QED
      BY <1>1, <1>4, <2>1, <3>2, <3>3
  <2>2. CASE ~(k < n)
    <3>1. n <= k
      BY <1>3, <2>2
    <3>2. d * n <= d * k /\ d * k \in Int
      BY <2>0, <3>1, TimesMonotone
    <3> QED
      BY <1>1, <1>4, <2>2, <3>2
  <2> QED
    BY <2>1, <2>2
<1> QED
  BY <1>1, <1>3, <1>5, <1>6

\* With nothing new, a bucket's level only refills.
LEMMA BucketLater ==
  ASSUME NEW w, Bucket(w), NEW usage, IsUsage(usage), NEW at \in Nat, Dated(usage, at),
         NEW t \in Nat, at <= t
  PROVE  BucketLevel(w, usage, t) = Filled(w, BucketLevel(w, usage, at), t - at)
<1>1. PICK S : S = Counted(w, usage, at)
  OBVIOUS
<1>2. S = Counted(w, usage, t)
  <2>1. \A u \in usage : u.at \in Nat /\ u.at <= at /\ u.at <= t
    BY DEF IsUsage, Dated
  <2> QED
    BY <1>1, <2>1 DEF Counted, Seen
<1>3. at \in Int /\ t \in Int
  OBVIOUS
<1>4. PICK F : /\ IsLevels(F, w, S) /\ \A D \in SUBSET S : F[D] \in Levels
               /\ BucketLevel(w, usage, at) = Filled(w, F[S].level, at - F[S].at)
  BY <1>1, <1>3, BucketLevelIs
<1>5. PICK G : /\ IsLevels(G, w, S) /\ \A D \in SUBSET S : G[D] \in Levels
               /\ BucketLevel(w, usage, t) = Filled(w, G[S].level, t - G[S].at)
  <2>1. t \in Int
    OBVIOUS
  <2> QED
    BY <1>2, <2>1, BucketLevelIs
<1>6. IsUsage(S)
  BY <1>1, UsageSubset DEF Counted, Seen
<1>7. SameOn(F, G, S)
  BY <1>4, <1>5, <1>6, LevelsAgree
<1>8. PICK f : f = F[S]
  OBVIOUS
<1>9. f = G[S] /\ f.level \in Int /\ f.at \in Int
  BY <1>4, <1>7, <1>8 DEF SameOn, Levels
<1>10. PICK a, b, k : a = at - f.at /\ b = t - f.at /\ k = t - at
  OBVIOUS
<1>11. a \in Int /\ k \in Nat /\ b = a + k
  BY <1>9, <1>10
<1>12. PICK x, y, z, full : x = w.refill * a /\ y = w.refill * b /\ z = w.refill * k /\ full = w.limit * w.period
  OBVIOUS
<1>13. x \in Int /\ z \in Nat /\ y = x + z /\ full \in Int
  <2>1. w.refill \in Nat
    BY DEF Bucket
  <2>2. x \in Int /\ z \in Nat
    BY <1>11, <1>12, <2>1
  <2>3. y = x + z
    BY <1>11, <1>12, <2>1
  <2>4. full \in Int
    BY <1>12 DEF Bucket
  <2> QED
    BY <2>2, <2>3, <2>4
<1>14. PICK p1, p2 : p1 = BucketLevel(w, usage, at) /\ p2 = BucketLevel(w, usage, t)
  OBVIOUS
<1>15. b \in Int /\ k \in Int
  BY <1>11
<1>16. p1 \in Int /\ p1 = IF f.level + x <= full THEN f.level + x ELSE full
  <2>1. p1 = Filled(w, f.level, a)
    BY <1>4, <1>8, <1>10, <1>14
  <2>2. Filled(w, f.level, a) \in Int
    BY <1>9, <1>11, FilledIs
  <2> QED
    BY <1>9, <1>11, <1>12, <2>1, <2>2, FilledIs
<1>17. p2 = IF f.level + y <= full THEN f.level + y ELSE full
  BY <1>5, <1>9, <1>10, <1>12, <1>14, <1>15, FilledIs
<1>18. Filled(w, p1, k) = IF p1 + z <= full THEN p1 + z ELSE full
  BY <1>12, <1>15, <1>16, FilledIs
<1>19. p2 = Filled(w, p1, k)
  BY <1>9, <1>13, <1>16, <1>17, <1>18
<1> QED
  BY <1>10, <1>14, <1>19

LEMMA BucketRelief ==
  ASSUME NEW w, IsWindow(w), w.kind = "bucket", NEW usage, IsUsage(usage), NEW at \in Nat,
         Dated(usage, at), NEW o \in Int, o < w.limit, Room(w, usage, at) - o <= 0,
         NEW d, d = (o + 1) * w.period - BucketLevel(w, usage, at)
  PROVE  Relieves(w, usage, o, at, at + CeilDiv(d, w.refill))
<1>1. Bucket(w) /\ w.period \in Nat \ {0} /\ w.refill \in Nat \ {0} /\ w.limit \in Nat
  BY Kinds DEF Bucket
<1>2. PICK level, r, goal, full :
        /\ level = BucketLevel(w, usage, at) /\ r = w.refill
        /\ goal = w.period * (o + 1) /\ full = w.limit * w.period
  OBVIOUS
<1>3. level \in Int /\ r \in Nat \ {0}
  <2>1. at \in Int
    OBVIOUS
  <2> QED
    BY <1>1, <1>2, <2>1, LevelInt
<1>4. goal \in Int /\ full \in Int /\ goal <= full /\ d = goal - level
  <2>1. o + 1 \in Int /\ w.limit \in Int /\ o + 1 <= w.limit /\ w.period \in Nat
    BY <1>1
  <2>2. w.period * (o + 1) <= w.period * w.limit /\ w.period * (o + 1) \in Int /\ w.period * w.limit \in Int
    BY <2>1, TimesMonotone
  <2>3. w.period * w.limit = w.limit * w.period /\ w.period * (o + 1) = (o + 1) * w.period
    BY <2>1
  <2> QED
    BY <1>2, <2>2, <2>3
<1>5. \A x \in Int : x \div w.period \in Int /\ (x \div w.period - o <= 0 <=> x < goal)
  BY <1>1, <1>2, DivBelow
<1>6. d \in Nat \ {0}
  <2>1. Room(w, usage, at) = level \div w.period
    BY <1>2 DEF Room
  <2>2. level < goal
    BY <1>3, <1>5, <2>1
  <2> QED
    BY <1>3, <1>4, <2>2
<1>7. PICK n : n = CeilDiv(d, r)
  OBVIOUS
<1>8. n \in Nat \ {0} /\ \A k \in Nat : r * k < d <=> k < n
  BY <1>3, <1>6, <1>7, CeilIs
<1>9. ASSUME NEW t \in Nat, t >= at PROVE Room(w, usage, t) - o <= 0 <=> t < at + n
  <2>1. PICK k : k = t - at
    OBVIOUS
  <2>2. k \in Nat /\ k \in Int
    BY <1>9, <2>1
  <2>3. PICK gain : gain = r * k
    OBVIOUS
  <2>4. gain \in Nat /\ (gain < d <=> k < n)
    <3>1. gain \in Nat
      BY <1>3, <2>2, <2>3
    <3>2. r * k < d <=> k < n
      BY <1>8, <2>2
    <3> QED
      BY <2>3, <3>1, <3>2
  <2>5. PICK later : later = BucketLevel(w, usage, t)
    OBVIOUS
  <2>6. later = Filled(w, level, k)
    BY <1>1, <1>2, <1>9, <2>1, <2>5, BucketLater
  <2>7. later = IF level + gain <= full THEN level + gain ELSE full
    BY <1>1, <1>2, <1>3, <2>2, <2>3, <2>6, FilledIs
  <2>8. later \in Int /\ (later < goal <=> gain < d)
    BY <1>3, <1>4, <2>4, <2>7
  <2>9. Room(w, usage, t) = later \div w.period
    BY <2>5 DEF Room
  <2>10. later \div w.period - o <= 0 <=> later < goal
    BY <1>5, <2>8
  <2>11. t < at + n <=> k < n
    BY <1>8, <2>1
  <2> QED
    BY <2>4, <2>8, <2>9, <2>10, <2>11
<1>10. at + n \in Nat /\ at + n > at
  BY <1>8
<1> QED
  BY <1>2, <1>7, <1>9, <1>10 DEF Relieves


\* A window never has more than its limit, and with nothing new never less than before.
LEMMA RoomLater ==
  ASSUME NEW w, IsWindow(w), NEW usage, IsUsage(usage), NEW at \in Nat, Dated(usage, at),
         NEW t \in Nat, at <= t
  PROVE  /\ Room(w, usage, at) \in Int /\ Room(w, usage, t) \in Int
         /\ Room(w, usage, at) <= Room(w, usage, t) /\ Room(w, usage, t) <= w.limit
<1>0. at \in Int /\ t \in Int /\ w.limit \in Nat
  BY Kinds
<1>1. Room(w, usage, at) \in Int /\ Room(w, usage, t) \in Int
  BY <1>0, RoomInt
<1>2. CASE w.kind = "fixed"
  <2>1. ASSUME NEW i \in Nat PROVE Room(w, usage, i) <= w.limit
    <3>1. PICK D : D = {u \in Seen(usage, i) : u.at >= PeriodStart(w, i)}
      OBVIOUS
    <3>2. Amount(D) \in Nat
      BY <3>1, AmountSubset DEF Seen
    <3> QED
      BY <1>0, <1>2, <3>1, <3>2 DEF Room
  <2>2. PeriodEnd(w, at) \in Nat
    BY <1>2, PeriodIs
  <2>3. Room(w, usage, t) = Room(w, usage, at) \/ Room(w, usage, t) = w.limit
    BY <1>2, <2>2, FixedLater
  <2> QED
    BY <1>1, <2>1, <2>3
<1>3. CASE w.kind = "sliding"
  <2>1. PICK A, B : A = InWindow(w, usage, at) /\ B = InWindow(w, usage, t)
    OBVIOUS
  <2>2. IsUsage(A) /\ B \subseteq A
    BY <1>3, <2>1, SlidingLater, UsageSubset DEF InWindow, Seen
  <2>3. Amount(B) <= Amount(A) /\ Amount(A) \in Nat /\ Amount(B) \in Nat
    BY <2>2, AmountSubset
  <2>4. Room(w, usage, at) = w.limit - Amount(A) /\ Room(w, usage, t) = w.limit - Amount(B)
    BY <1>3, <2>1 DEF Room
  <2> QED
    BY <1>0, <1>1, <2>3, <2>4
<1>4. CASE w.kind = "bucket"
  <2>0. Bucket(w) /\ w.refill \in Nat /\ w.period \in Nat \ {0}
    BY <1>4, Kinds DEF Bucket
  <2>1. PICK a, b, k, gain, full :
          /\ a = BucketLevel(w, usage, at) /\ b = BucketLevel(w, usage, t) /\ k = t - at
          /\ gain = w.refill * k /\ full = w.limit * w.period
    OBVIOUS
  <2>2. k \in Nat /\ k \in Int /\ gain \in Nat /\ full \in Int
    <3>1. k \in Nat /\ full \in Int
      BY <1>0, <2>0, <2>1
    <3> QED
      BY <2>0, <2>1, <3>1
  <2>3. a \in Int /\ b \in Int
    BY <1>0, <2>0, <2>1, LevelInt
  <2>4. b = Filled(w, a, k)
    BY <2>0, <2>1, BucketLater
  <2>5. b = IF a + gain <= full THEN a + gain ELSE full
    BY <2>0, <2>1, <2>2, <2>3, <2>4, FilledIs
  <2>6. a = Filled(w, a, 0)
    <3>1. at <= at /\ at - at = 0
      OBVIOUS
    <3> QED
      BY <2>0, <2>1, <3>1, BucketLater
  <2>7. a <= full
    <3>1. w.refill * 0 = 0 /\ 0 \in Int
      BY <2>0
    <3> QED
      BY <2>0, <2>1, <2>2, <2>3, <2>6, <3>1, FilledIs
  <2>8. a <= b /\ b <= full
    BY <2>2, <2>3, <2>5, <2>7
  <2>9. a \div w.period <= b \div w.period
    BY <2>0, <2>3, <2>8, DivMonotone
  <2>10. full < w.period * (w.limit + 1)
    <3>1. \A m, n \in Nat : n * (m + 1) = m * n + n
      OBVIOUS
    <3>2. w.period * (w.limit + 1) = full + w.period
      BY <1>0, <2>0, <2>1, <3>1
    <3> QED
      BY <2>0, <2>2, <3>2
  <2>11. b < w.period * (w.limit + 1)
    <3>1. w.period * (w.limit + 1) \in Int
      BY <1>0, <2>0
    <3> QED
      BY <2>2, <2>3, <2>8, <2>10, <3>1
  <2>12. b \div w.period - w.limit <= 0 /\ b \div w.period \in Int
    <3>1. w.limit \in Int
      BY <1>0
    <3> QED
      BY <2>0, <2>3, <2>11, <3>1, DivBelow
  <2>13. Room(w, usage, at) = a \div w.period /\ Room(w, usage, t) = b \div w.period
    BY <1>4, <2>1 DEF Room
  <2>14. b \div w.period <= w.limit
    BY <1>0, <2>12
  <2> QED
    BY <1>1, <2>9, <2>13, <2>14
<1> QED
  BY <1>2, <1>3, <1>4, Kinds

\* A window that has no room.
Full(w, usage, o, at) == Measure(w, usage, o, at).blocks

\* What a window's own figures say is exact: the relief is when it admits again, and if the
\* holds alone are as much as the limit, waiting does not help.
LEMMA MeasureRelief ==
  ASSUME NEW w, IsWindow(w), NEW usage, IsUsage(usage), NEW at \in Nat, Dated(usage, at),
         NEW o \in Int, NEW a, a = Measure(w, usage, o, at)
  PROVE  /\ o >= w.limit => /\ a.until.relief = "after_holds_settle"
                            /\ \A t \in Nat : t >= at => Full(w, usage, o, t)
         /\ o < w.limit /\ a.blocks =>
              /\ a.until.relief = "at" /\ a.until.at \in Nat /\ a.until.at > at
              /\ \A t \in Nat : t >= at => (Full(w, usage, o, t) <=> t < a.until.at)
         /\ ~a.blocks => /\ o < w.limit => a.until.relief = "not_blocking"
                         /\ \A t \in Nat : t >= at => ~Full(w, usage, o, t)
<1>0. w.limit \in Nat
  BY Kinds
<1>1. \A t : Full(w, usage, o, t) <=> Room(w, usage, t) - o <= 0
  BY MeasureIs DEF Full
<1>2. PICK room : room = Room(w, usage, at)
  OBVIOUS
<1>3. \A t \in Nat : t >= at => /\ Room(w, usage, t) \in Int /\ room \in Int
                                /\ room <= Room(w, usage, t) /\ Room(w, usage, t) <= w.limit
  <2> TAKE t \in Nat
  <2> HAVE t >= at
  <2>1. at <= t
    OBVIOUS
  <2> QED
    BY <1>2, <2>1, RoomLater
\* What the window would answer as its relief.
<1>4. \E relief :
        /\ a = Answer(room - o, o, w.limit, relief)
        /\ o < w.limit /\ room - o <= 0 => \E n : relief = At(n) /\ Relieves(w, usage, o, at, n)
  <2>1. CASE w.kind = "fixed"
    <3>1. PICK n : n = PeriodEnd(w, at)
      OBVIOUS
    <3>3. a = Answer(room - o, o, w.limit, At(n))
      BY <1>2, <2>1, <3>1 DEF Measure, EvaluatePeriod, Room
    <3>4. ASSUME o < w.limit, room - o <= 0 PROVE Relieves(w, usage, o, at, n)
      <4>1. n \in Nat /\ n > at
        BY <2>1, <3>1, PeriodIs
      <4>2. ASSUME NEW t \in Nat, t >= at PROVE Room(w, usage, t) - o <= 0 <=> t < n
        <5>1. at <= t
          BY <4>2
        <5>2. /\ t < n => Room(w, usage, t) = room
              /\ t >= n => Room(w, usage, t) = w.limit
          BY <1>2, <2>1, <3>1, <5>1, FixedLater
        <5>3. CASE t < n
          BY <3>4, <5>2, <5>3
        <5>4. CASE t >= n
          BY <1>0, <3>4, <4>1, <5>2, <5>4
        <5> QED
          BY <4>1, <5>3, <5>4
      <4> QED
        BY <4>1, <4>2 DEF Relieves
    <3> QED
      BY <3>3, <3>4
  <2>2. CASE w.kind = "sliding"
    <3> DEFINE in == InWindow(w, usage, at)
               Rest(n) == w.limit - Amount({u \in in : u.at > n}) - o
               enough == {u.at : u \in {v \in in : Rest(v.at) > 0}}
               relief == IF enough = {} THEN NoRelief("unknown") ELSE At(Min(enough) + w.length)
    <3>1. a = Answer(room - o, o, w.limit, relief)
      BY <1>2, <2>2 DEF Measure, EvaluateSliding, Room
    <3>2. enough = Enough(w, usage, o, at)
      BY DEF Enough, Left
    <3> HIDE DEF enough, in
    <3>3. ASSUME o < w.limit, room - o <= 0
          PROVE  \E n : relief = At(n) /\ Relieves(w, usage, o, at, n)
      <4>1. enough # {} /\ Relieves(w, usage, o, at, Min(enough) + w.length)
        BY <1>2, <2>2, <3>2, <3>3, SlidingRelief
      <4> QED
        BY <4>1
    <3> QED
      BY <3>1, <3>3
  <2>3. CASE w.kind = "bucket"
    <3>1. PICK level : level = BucketLevel(w, usage, at)
      OBVIOUS
    <3>2. PICK d : d = (o + 1) * w.period - level
      OBVIOUS
    <3>3. PICK n : n = at + CeilDiv(d, w.refill)
      OBVIOUS
    <3>4. a = Answer(room - o, o, w.limit, At(n))
      BY <1>2, <2>3, <3>1, <3>2, <3>3 DEF Measure, EvaluateBucket, Room
    <3>5. ASSUME o < w.limit, room - o <= 0 PROVE Relieves(w, usage, o, at, n)
      BY <1>2, <2>3, <3>1, <3>2, <3>3, <3>5, BucketRelief
    <3> QED
      BY <3>4, <3>5
  <2> QED
    BY <2>1, <2>2, <2>3, Kinds
<1>5. PICK relief :
        /\ a = Answer(room - o, o, w.limit, relief)
        /\ o < w.limit /\ room - o <= 0 => \E n : relief = At(n) /\ Relieves(w, usage, o, at, n)
  BY <1>4
<1>6. a.blocks <=> room - o <= 0
  BY <1>2, MeasureIs
<1>7. room \in Int
  BY <1>3
<1>8. a.until = IF o >= w.limit THEN NoRelief("after_holds_settle")
                ELSE IF room - o > 0 THEN NoRelief("not_blocking") ELSE relief
  BY <1>5 DEF Answer
<1>9. CASE o >= w.limit
  <2>1. a.until.relief = "after_holds_settle"
    BY <1>8, <1>9 DEF NoRelief
  <2>2. ASSUME NEW t \in Nat, t >= at PROVE Full(w, usage, o, t)
    BY <1>0, <1>1, <1>3, <1>9, <2>2
  <2>3. a.blocks
    BY <1>0, <1>3, <1>6, <1>9
  <2> QED
    BY <1>0, <1>9, <2>1, <2>2, <2>3
<1>10. CASE o < w.limit /\ a.blocks
  <2>1. PICK n : relief = At(n) /\ Relieves(w, usage, o, at, n)
    BY <1>5, <1>6, <1>10
  <2>2. n \in Nat /\ n > at /\ \A t \in Nat : t >= at => (Room(w, usage, t) - o <= 0 <=> t < n)
    BY <2>1 DEF Relieves
  <2>3. a.until = relief
    BY <1>0, <1>6, <1>7, <1>8, <1>10
  <2>4. a.until.relief = "at" /\ a.until.at = n
    BY <2>1, <2>3 DEF At
  <2> QED
    BY <1>0, <1>1, <1>10, <2>2, <2>4
<1>11. CASE o < w.limit /\ ~a.blocks
  <2>1. a.until = NoRelief("not_blocking")
    BY <1>0, <1>6, <1>7, <1>8, <1>11
  <2>2. ASSUME NEW t \in Nat, t >= at PROVE ~Full(w, usage, o, t)
    BY <1>1, <1>3, <1>6, <1>11, <2>2
  <2> QED
    BY <1>0, <1>11, <2>1, <2>2 DEF NoRelief
<1> QED
  BY <1>0, <1>9, <1>10, <1>11

\* An entitlement that has expired stays so.
LEMMA ExpiredLater ==
  ASSUME NEW w, IsWindow(w), NEW a \in Nat, NEW b \in Nat, a <= b, Expired(w, a)
  PROVE  Expired(w, b)
<1>1. PICK e \in w.validUntil : e <= a
  BY DEF Expired
<1>2. e \in Nat
  BY <1>1, Kinds
<1>3. e <= b
  BY <1>1, <1>2
<1> QED
  BY <1>3 DEF Expired

\* So is what it answers, up to the end of its entitlement.
LEMMA ReliefIs ==
  ASSUME NEW w, IsWindow(w), NEW usage, IsUsage(usage), NEW at \in Nat, Dated(usage, at),
         NEW o \in Int, NEW a, a = Evaluate(w, usage, o, at)
  PROVE  /\ \A t \in Nat : Blocks(w, usage, o, t) <=> Expired(w, t) \/ Full(w, usage, o, t)
         /\ o >= w.limit => /\ a.until.relief = "after_holds_settle"
                            /\ \A t \in Nat : t >= at => Full(w, usage, o, t)
         /\ o < w.limit /\ Full(w, usage, o, at) =>
              /\ a.until.relief = "at" /\ a.until.at \in Nat /\ a.until.at > at
              /\ \A t \in Nat : t >= at => (Full(w, usage, o, t) <=> t < a.until.at)
         /\ ~Full(w, usage, o, at) =>
              /\ Expired(w, at) => a.until.relief = "expired"
              /\ o < w.limit /\ ~Expired(w, at) => a.until.relief = "not_blocking"
              /\ \A t \in Nat : t >= at => ~Full(w, usage, o, t)
<1>0. \A t : Blocks(w, usage, o, t) <=> Expired(w, t) \/ Full(w, usage, o, t)
  BY EvaluateIs DEF Blocks, Full
<1>1. PICK m : m = Measure(w, usage, o, at)
  OBVIOUS
<1>2. Full(w, usage, o, at) <=> m.blocks
  BY <1>1 DEF Full
<1>3. /\ Expired(w, at) /\ ~m.blocks => a.until.relief = "expired"
      /\ ~(Expired(w, at) /\ ~m.blocks) => a = m
  BY <1>1, EvaluateIs
<1>4. /\ o >= w.limit => /\ m.until.relief = "after_holds_settle"
                         /\ \A t \in Nat : t >= at => Full(w, usage, o, t)
      /\ o < w.limit /\ m.blocks =>
           /\ m.until.relief = "at" /\ m.until.at \in Nat /\ m.until.at > at
           /\ \A t \in Nat : t >= at => (Full(w, usage, o, t) <=> t < m.until.at)
      /\ ~m.blocks => /\ o < w.limit => m.until.relief = "not_blocking"
                      /\ \A t \in Nat : t >= at => ~Full(w, usage, o, t)
  BY <1>1, MeasureRelief
<1>5. w.limit \in Nat /\ at >= at
  BY Kinds
<1>6. CASE o >= w.limit
  <2>1. m.blocks
    BY <1>2, <1>4, <1>5, <1>6
  <2> QED
    BY <1>0, <1>2, <1>3, <1>4, <1>5, <1>6, <2>1
<1>7. CASE o < w.limit /\ m.blocks
  BY <1>0, <1>2, <1>3, <1>4, <1>5, <1>7
<1>8. CASE o < w.limit /\ ~m.blocks
  BY <1>0, <1>2, <1>3, <1>4, <1>5, <1>8
<1> QED
  BY <1>5, <1>6, <1>7, <1>8

-----------------------------------------------------------------------------
(* What the windows answer on evidence that grows. *)

IsReading(s) ==
  /\ s.at \in Nat /\ s.until \subseteq Nat /\ s.used \in Nat /\ s.limit \in Nat
  /\ s.reads \in {"undisclosed", "mismatch", "no_limit", "used"}

\* The holds have one amount each, and no record yet.
HoldsKept ==
  /\ IsFiniteSet(holds)
  /\ \A h \in holds : h.id \in Nat /\ h.amount \in Nat
  /\ \A h, g \in holds : h.id = g.id => h = g
  /\ \A h \in holds : \A u \in spent : u.id # h.id

EvidenceInv ==
  /\ clock \in Nat
  /\ IsUsage(spent) /\ Dated(spent, clock)
  /\ HoldsKept
  /\ IsFiniteSet(snapshots) /\ \A s \in snapshots : IsReading(s)

LEMMA EvidenceInit == QeInit => EvidenceInv
  BY FS_EmptySet DEF QeInit, EvidenceInv, IsUsage, Dated, HoldsKept

LEMMA UsageAdd ==
  ASSUME NEW D, IsUsage(D), NEW u, u.id \in Nat, u.at \in Nat, u.amount \in Nat,
         \A v \in D : v.id # u.id
  PROVE  IsUsage(D \cup {u})
<1>1. IsFiniteSet(D \cup {u})
  BY FS_AddElement DEF IsUsage
<1> QED
  BY <1>1 DEF IsUsage

LEMMA EvidenceStep == EvidenceInv /\ [QeNext]_qeVars => EvidenceInv'
<1> SUFFICES ASSUME EvidenceInv, [QeNext]_qeVars PROVE EvidenceInv'
  OBVIOUS
<1>0. /\ clock \in Nat /\ IsUsage(spent) /\ Dated(spent, clock) /\ HoldsKept
      /\ IsFiniteSet(snapshots) /\ \A s \in snapshots : IsReading(s)
  BY DEF EvidenceInv
<1>1. ASSUME UNCHANGED qeVars PROVE EvidenceInv'
  BY <1>0, <1>1 DEF qeVars, EvidenceInv, HoldsKept
<1>2. ASSUME NEW id \in RecordIds, NEW at \in 0..clock, NEW amount \in Amounts, Record(id, at, amount)
      PROVE  EvidenceInv'
  <2>1. PICK u : u = [id |-> id, at |-> at, amount |-> amount]
    OBVIOUS
  <2>2. u.id = id /\ u.id \in Nat /\ u.at \in Nat /\ u.at <= clock /\ u.amount \in Nat
    BY <1>0, <2>1, EvidenceAssumption
  <2>3. spent' = spent \cup {u} /\ UNCHANGED <<clock, holds, snapshots>> /\ id \notin Used
    BY <1>2, <2>1 DEF Record
  <2>4. (\A v \in spent : v.id # u.id) /\ \A h \in holds : h.id # u.id
    BY <2>2, <2>3 DEF Used
  <2>5. IsUsage(spent')
    BY <1>0, <2>2, <2>3, <2>4, UsageAdd
  <2>6. Dated(spent', clock')
    BY <1>0, <2>2, <2>3 DEF Dated
  <2>7. HoldsKept'
    BY <1>0, <2>3, <2>4 DEF HoldsKept
  <2> QED
    BY <1>0, <2>3, <2>5, <2>6, <2>7 DEF EvidenceInv
<1>3. ASSUME NEW id \in RecordIds, NEW amount \in Amounts, Hold(id, amount) PROVE EvidenceInv'
  <2>1. PICK g : g = [id |-> id, amount |-> amount]
    OBVIOUS
  <2>2. g.id = id /\ g.id \in Nat /\ g.amount \in Nat
    BY <2>1, EvidenceAssumption
  <2>3. holds' = holds \cup {g} /\ UNCHANGED <<clock, spent, snapshots>> /\ id \notin Used
    BY <1>3, <2>1 DEF Hold
  <2>4. (\A v \in spent : v.id # g.id) /\ \A h \in holds : h.id # g.id
    BY <2>2, <2>3 DEF Used
  <2>5. IsFiniteSet(holds')
    BY <1>0, <2>3, FS_AddElement DEF HoldsKept
  <2>6. HoldsKept'
    BY <1>0, <2>2, <2>3, <2>4, <2>5 DEF HoldsKept
  <2> QED
    BY <1>0, <2>3, <2>6 DEF EvidenceInv
<1>4. ASSUME NEW g \in holds, NEW amount \in Amounts, Settle(g, amount) PROVE EvidenceInv'
  <2>1. PICK u : u = [id |-> g.id, at |-> clock, amount |-> amount]
    OBVIOUS
  <2>2. u.id = g.id /\ u.id \in Nat /\ u.at \in Nat /\ u.at <= clock /\ u.amount \in Nat
    BY <1>0, <2>1, EvidenceAssumption DEF HoldsKept
  <2>3. spent' = spent \cup {u} /\ holds' = holds \ {g} /\ UNCHANGED <<clock, snapshots>>
    BY <1>4, <2>1 DEF Settle
  <2>4. (\A v \in spent : v.id # u.id) /\ \A h \in holds' : h.id # u.id
    BY <1>0, <2>2, <2>3 DEF HoldsKept
  <2>5. IsUsage(spent')
    BY <1>0, <2>2, <2>3, <2>4, UsageAdd
  <2>6. Dated(spent', clock')
    BY <1>0, <2>2, <2>3 DEF Dated
  <2>7. IsFiniteSet(holds')
    BY <1>0, <2>3, FS_Subset DEF HoldsKept
  <2>8. HoldsKept'
    BY <1>0, <2>3, <2>4, <2>7 DEF HoldsKept
  <2> QED
    BY <1>0, <2>3, <2>5, <2>6, <2>8 DEF EvidenceInv
<1>5. ASSUME NEW at \in 0..clock, NEW reading \in Readings, NEW validity \in Validity,
             Observe(at, reading, validity)
      PROVE  EvidenceInv'
  <2>1. PICK s : s = [at |-> at, until |-> {at + v : v \in validity}, reads |-> reading.reads, used |-> reading.used,
                      limit |-> reading.limit]
    OBVIOUS
  <2>2. IsReading(s)
    <3>1. /\ reading.reads \in {"undisclosed", "mismatch", "no_limit", "used"}
          /\ reading.used \in Nat /\ reading.limit \in Nat /\ validity \subseteq Nat
      BY EvidenceAssumption
    <3>2. at \in Nat /\ {at + v : v \in validity} \subseteq Nat
      BY <1>0, <3>1
    <3> QED
      BY <2>1, <3>1, <3>2 DEF IsReading
  <2>3. snapshots' = snapshots \cup {s} /\ UNCHANGED <<clock, spent, holds>>
    BY <1>5, <2>1 DEF Observe
  <2>4. IsFiniteSet(snapshots')
    BY <1>0, <2>3, FS_AddElement
  <2>5. HoldsKept'
    BY <1>0, <2>3 DEF HoldsKept
  <2> QED
    BY <1>0, <2>2, <2>3, <2>4, <2>5 DEF EvidenceInv
<1>6. ASSUME TimePasses PROVE EvidenceInv'
  <2>1. clock' = clock + 1 /\ UNCHANGED <<spent, holds, snapshots>>
    BY <1>6 DEF TimePasses
  <2>2. Dated(spent', clock') /\ clock' \in Nat
    BY <1>0, <2>1 DEF Dated, IsUsage
  <2>3. HoldsKept'
    BY <1>0, <2>1 DEF HoldsKept
  <2> QED
    BY <1>0, <2>1, <2>2, <2>3 DEF EvidenceInv
<1> QED
  BY <1>1, <1>2, <1>3, <1>4, <1>5, <1>6 DEF QeNext

LEMMA OutstandingIs ==
  ASSUME HoldsKept
  PROVE  Outstanding \in Nat
<1>1. PICK f : f = [h \in holds |-> h.amount]
  OBVIOUS
<1>2. Ints(f, holds) /\ Above0(f, holds) /\ DOMAIN f = holds
  BY <1>1 DEF HoldsKept, Ints, Above0
<1>3. Outstanding = SumOver(f, holds)
  BY <1>1, <1>2, SumFunctionIs DEF Outstanding, Amount
<1>4. SumOver(f, holds) \in Int /\ SumOver(f, holds) >= 0
  BY <1>2, SumIs, SumPositive
<1> QED
  BY <1>3, <1>4

\* The relief a window names is the first instant at which it admits.
LEMMA ReliefExact ==
  ASSUME EvidenceInv
  PROVE  ReliefIsExact
<1> SUFFICES ASSUME NEW w \in Windows, NEW a, a = Evaluate(w, spent, Outstanding, clock)
    PROVE /\ a.until.relief = "at" =>
               /\ a.until.at > clock
               /\ \A t \in Later :
                    Blocks(w, spent, Outstanding, t) <=> t < a.until.at \/ \E e \in w.validUntil : t >= e
          /\ a.until.relief \in {"after_holds_settle", "expired"} =>
               \A t \in Later : Blocks(w, spent, Outstanding, t)
          /\ Blocks(w, spent, Outstanding, clock) =>
               a.until.relief \in {"at", "after_holds_settle", "expired"}
          /\ a.until.relief = "expired" => \E e \in w.validUntil : clock >= e
  BY DEF ReliefIsExact
<1>1. clock \in Nat /\ IsUsage(spent) /\ Dated(spent, clock) /\ HoldsKept
  BY DEF EvidenceInv
<1>2. IsWindow(w)
  BY WindowsAssumption
<1>3. PICK o : o = Outstanding
  OBVIOUS
<1>4. o \in Int /\ w.limit \in Nat
  BY <1>1, <1>2, <1>3, OutstandingIs, Kinds
<1>5. /\ \A t \in Nat : Blocks(w, spent, o, t) <=> Expired(w, t) \/ Full(w, spent, o, t)
      /\ o >= w.limit => /\ a.until.relief = "after_holds_settle"
                         /\ \A t \in Nat : t >= clock => Full(w, spent, o, t)
      /\ o < w.limit /\ Full(w, spent, o, clock) =>
           /\ a.until.relief = "at" /\ a.until.at \in Nat /\ a.until.at > clock
           /\ \A t \in Nat : t >= clock => (Full(w, spent, o, t) <=> t < a.until.at)
      /\ ~Full(w, spent, o, clock) =>
           /\ Expired(w, clock) => a.until.relief = "expired"
           /\ o < w.limit /\ ~Expired(w, clock) => a.until.relief = "not_blocking"
           /\ \A t \in Nat : t >= clock => ~Full(w, spent, o, t)
  BY <1>1, <1>2, <1>3, <1>4, ReliefIs
<1>6. \A t \in Nat : Expired(w, t) <=> \E e \in w.validUntil : t >= e
  BY <1>2, Kinds DEF Expired
<1>7. \A t \in Later : t \in Nat /\ t >= clock
  BY <1>1, EvidenceAssumption DEF Later
<1>8. CASE o >= w.limit
  BY <1>3, <1>5, <1>7, <1>8
<1>9. CASE o < w.limit /\ Full(w, spent, o, clock)
  BY <1>3, <1>5, <1>6, <1>7, <1>9
<1>10. CASE o < w.limit /\ ~Full(w, spent, o, clock)
  <2>1. CASE Expired(w, clock)
    <3>1. \A t \in Later : Blocks(w, spent, o, t)
      BY <1>1, <1>2, <1>5, <1>7, <2>1, ExpiredLater
    <3> QED
      BY <1>1, <1>3, <1>5, <1>6, <1>10, <2>1, <3>1
  <2>2. CASE ~Expired(w, clock)
    BY <1>1, <1>3, <1>5, <1>10, <2>2
  <2> QED
    BY <2>1, <2>2
<1> QED
  BY <1>4, <1>8, <1>9, <1>10

\* Of finitely many readings one is the latest, and of its instant the highest.
LEMMA LatestIs ==
  ASSUME EvidenceInv, NEW S, S = Seen(snapshots, clock), S # {}
  PROVE  /\ LatestReading(snapshots, clock) \in S
         /\ \A o \in S : LET s == LatestReading(snapshots, clock)
                         IN  s.at > o.at \/ (s.at = o.at /\ ReadingRank(s) >= ReadingRank(o))
<1> DEFINE Upto(x, y) == y.at > x.at \/ (y.at = x.at /\ ReadingRank(y) >= ReadingRank(x))
           R == {q \in S \X S : Upto(q[1], q[2])}
<1>1. \A x, y \in S : <<x, y>> \in R <=> Upto(x, y)
  OBVIOUS
<1>2. IsFiniteSet(S) /\ \A x \in S : x.at \in Nat /\ ReadingRank(x) \in Nat
  <2>1. S \subseteq snapshots
    BY DEF Seen
  <2>2. IsFiniteSet(S) /\ \A x \in S : IsReading(x)
    BY <2>1, FS_Subset DEF EvidenceInv
  <2> QED
    BY <2>2 DEF IsReading, ReadingRank
<1>3. \A x, y \in S : x # y => Upto(x, y) \/ Upto(y, x)
  BY <1>2
<1>4. \A x, y, z \in S : Upto(x, y) /\ Upto(y, z) => Upto(x, z)
  BY <1>2
<1>5. \A x \in S : Upto(x, x)
  BY <1>2
<1> HIDE DEF R, Upto
<1>6. \A x, y \in S : x # y => <<x, y>> \in R \/ <<y, x>> \in R
  BY <1>1, <1>3
<1>7. \A x, y, z \in S : <<x, y>> \in R /\ <<y, z>> \in R => <<x, z>> \in R
  BY <1>1, <1>4
<1>8. PICK x \in S : \A y \in S \ {x} : <<y, x>> \in R
  <2>1. IsFiniteSet(S)
    BY <1>2
  <2> QED
    BY <1>6, <1>7, <2>1, FiniteLast
<1>9. \A y \in S : Upto(y, x)
  BY <1>1, <1>5, <1>8
<1>10. \A y \in S : x.at > y.at \/ (x.at = y.at /\ ReadingRank(x) >= ReadingRank(y))
  BY <1>9 DEF Upto
<1> QED
  BY <1>10, Zenon DEF LatestReading

\* A gauge admits on a valid reading only.
LEMMA GaugeCloses ==
  ASSUME EvidenceInv
  PROVE  GaugeFailsClosed
<1> SUFFICES ASSUME EvaluateGauge(MaxStaleness, snapshots, clock) = "admitting"
    PROVE \E s \in snapshots :
            /\ clock - s.at < (MaxStaleness + 1) * Second
            /\ \A e \in s.until : clock < e
            /\ s.reads = "used" /\ s.used < s.limit
            /\ \A o \in snapshots : o.at > s.at => o.at > clock
            /\ \A o \in snapshots : o.at = s.at /\ o.reads # "undisclosed" => o.used <= s.used
  BY DEF GaugeFailsClosed
<1>0. clock \in Nat /\ \A s \in snapshots : IsReading(s)
  BY DEF EvidenceInv
<1>1. PICK S, s : S = Seen(snapshots, clock) /\ s = LatestReading(snapshots, clock)
  OBVIOUS
<1>2. S # {}
  BY <1>1 DEF EvaluateGauge
<1>3. s \in S /\ \A o \in S : s.at > o.at \/ (s.at = o.at /\ ReadingRank(s) >= ReadingRank(o))
  BY <1>1, <1>2, LatestIs
<1>4. "admitting" = IF (\E e \in s.until : e <= clock) \/ AgeSecs(s, clock) > MaxStaleness THEN "stale"
                    ELSE IF s.reads # "used" THEN s.reads
                    ELSE IF s.used >= s.limit THEN "blocking" ELSE "admitting"
  BY <1>1, <1>2 DEF EvaluateGauge
<1>5. s \in snapshots /\ IsReading(s) /\ s.at <= clock
  BY <1>0, <1>1, <1>3 DEF Seen
<1>6. s.reads # "admitting"
  BY <1>5 DEF IsReading
<1>7. /\ ~(\E e \in s.until : e <= clock) /\ ~(AgeSecs(s, clock) > MaxStaleness)
      /\ s.reads = "used" /\ ~(s.used >= s.limit)
  BY <1>4, <1>6
<1>8. /\ clock - s.at < (MaxStaleness + 1) * Second
      /\ (\A e \in s.until : clock < e) /\ s.used < s.limit
  <2>1. PICK age, m, k : age = clock - s.at /\ m = MaxStaleness /\ k = Second
    OBVIOUS
  <2>2. age \in Nat /\ m \in Nat /\ k \in Nat \ {0}
    BY <1>0, <1>5, <2>1, EvidenceAssumption, WindowsAssumption DEF IsReading
  <2>3. ~(age \div k > m)
    BY <1>7, <2>1 DEF AgeSecs
  <2>4. ~((m + 1) * k <= age)
    <3>1. age \div k \in Int /\ age \in Int /\ m + 1 \in Int
      BY <2>2
    <3>2. ASSUME (m + 1) * k <= age PROVE m + 1 <= age \div k
      <4>1. PICK product : product = (m + 1) * k
        OBVIOUS
      <4>2. product \in Int /\ product <= age
        BY <2>2, <3>2, <4>1
      <4>3. product \div k <= age \div k
        BY <2>2, <3>1, <4>2, DivMonotone
      <4>4. product \div k = m + 1
        BY <2>2, <4>1
      <4> QED
        BY <4>3, <4>4
    <3> QED
      BY <2>2, <2>3, <3>1, <3>2
  <2>5. (m + 1) * k \in Int
    BY <2>2
  <2>6. \A e \in s.until : e \in Nat
    BY <1>5 DEF IsReading
  <2>7. age < (m + 1) * k
    BY <2>2, <2>4, <2>5
  <2> QED
    BY <1>0, <1>5, <1>7, <2>1, <2>6, <2>7 DEF IsReading
<1>9. ASSUME NEW o \in snapshots, o.at > s.at PROVE o.at > clock
  <2>1. ASSUME o.at <= clock PROVE FALSE
    <3>1. o \in S
      BY <1>1, <2>1 DEF Seen
    <3> QED
      BY <1>0, <1>3, <1>5, <1>9, <3>1 DEF IsReading
  <2> QED
    BY <1>0, <2>1 DEF IsReading
<1>10. ASSUME NEW o \in snapshots, o.at = s.at, o.reads # "undisclosed"
       PROVE  o.used <= s.used
  <2>1. o \in S
    BY <1>1, <1>5, <1>10 DEF Seen
  <2>2. ReadingRank(o) = o.used + 1 /\ ReadingRank(s) = s.used + 1
    BY <1>7, <1>10 DEF ReadingRank
  <2> QED
    BY <1>0, <1>3, <1>5, <1>8, <1>10, <2>1, <2>2 DEF IsReading
<1> QED
  BY <1>5, <1>7, <1>8, <1>9, <1>10

\* For any windows and any growth of the evidence, with records and readings that
\* arrive late and out of order: the relief a window names is the first instant at
\* which it admits, and it does until its entitlement expires, unless the holds alone
\* take all of it; and a gauge admits only on a reading that is valid, the latest, and
\* the highest of its instant.
THEOREM AnswersTrue == QeSpec => []AnswersAreTrue
<1>1. EvidenceInv => AnswersAreTrue
  BY ReliefExact, GaugeCloses DEF AnswersAreTrue
<1> QED
  BY <1>1, EvidenceInit, EvidenceStep, PTL DEF QeSpec

-----------------------------------------------------------------------------
(* The forecast is exact. *)

\* Two looks are enough: at the start, and when the last window is relieved.
LEMMA TwoLooks ==
  ASSUME NEW s, NEW need, NEW preference, NEW start \in Nat, NEW at,
         at = EarliestSafeAdmit(s, need, preference, start),
         NEW B, B = BlockedAt(s, need, preference, start),
         NEW next, next = Max({c.until.at : c \in B})
  PROVE  /\ B = {} => at = start
         /\ B # {} /\ (\E c \in B : c.until.relief # "at" \/ c.until.at <= start) => at = None
         /\ (/\ B # {} /\ ~(\E c \in B : c.until.relief # "at" \/ c.until.at <= start)
             /\ next \in Nat /\ BlockedAt(s, need, preference, next) = {})
            => at = next
         /\ (/\ B # {} /\ ~(\E c \in B : c.until.relief # "at" \/ c.until.at <= start)
             /\ next \in Nat /\ \E c \in BlockedAt(s, need, preference, next) : c.until.relief # "at")
            => at = None
<1>1. PICK f : f = SafeProbe(s, need, preference)
  OBVIOUS
<1>2. \E g : IsSafeProbe(g, s, need, preference)
  BY SafeProbeIs, ProbeExists
<1>3. IsSafeProbe(f, s, need, preference)
  BY <1>1, <1>2, Zenon DEF SafeProbe
<1>4. at = f[MaxProbeSteps][start]
  BY <1>1 DEF EarliestSafeAdmit, SafeProbe, IsSafeProbe, BlockedAt
<1>5. PICK m, n : m = MaxProbeSteps /\ n = m - 1
  OBVIOUS
<1>6. m \in 0..MaxProbeSteps /\ m # 0 /\ n \in 0..MaxProbeSteps /\ n # 0 /\ m - 1 = n
  BY <1>5, PacerAssumption
<1>7. ASSUME NEW k \in 0..MaxProbeSteps, NEW t \in Nat, k # 0
      PROVE  f[k][t] = IF BlockedAt(s, need, preference, t) = {} THEN t
                       ELSE IF \E c \in BlockedAt(s, need, preference, t) :
                                 c.until.relief # "at" \/ c.until.at <= t THEN None
                       ELSE f[k - 1][Max({c.until.at : c \in BlockedAt(s, need, preference, t)})]
  <2> DEFINE P(j, u) == IF j = 0 THEN None
                        ELSE IF BlockedAt(s, need, preference, u) = {} THEN u
                        ELSE IF \E c \in BlockedAt(s, need, preference, u) :
                                  c.until.relief # "at" \/ c.until.at <= u THEN None
                        ELSE f[j - 1][Max({c.until.at : c \in BlockedAt(s, need, preference, u)})]
  <2>1. f = [j \in 0..MaxProbeSteps |-> [u \in Nat |-> P(j, u)]]
    BY <1>3 DEF IsSafeProbe
  <2> HIDE DEF P
  <2>2. f[k][t] = P(k, t)
    BY <2>1
  <2> QED
    BY <1>7, <2>2, Zenon DEF P
<1>8. f[m][start] = IF B = {} THEN start
                    ELSE IF \E c \in B : c.until.relief # "at" \/ c.until.at <= start THEN None
                    ELSE f[n][next]
  BY <1>6, <1>7
<1>9. /\ next \in Nat /\ BlockedAt(s, need, preference, next) = {} => f[n][next] = next
      /\ next \in Nat /\ (\E c \in BlockedAt(s, need, preference, next) : c.until.relief # "at")
           => f[n][next] = None
  BY <1>6, <1>7
<1>10. at = f[m][start]
  BY <1>4, <1>5
<1>11. CASE B = {}
  BY <1>8, <1>10, <1>11
<1>12. CASE B # {} /\ \E c \in B : c.until.relief # "at" \/ c.until.at <= start
  <2>1. at = None
    BY <1>8, <1>10, <1>12
  <2> QED
    BY <1>12, <2>1
<1>13. CASE B # {} /\ ~(\E c \in B : c.until.relief # "at" \/ c.until.at <= start)
  <2>1. at = f[n][next]
    BY <1>8, <1>10, <1>13
  <2> QED
    BY <1>9, <1>13, <2>1
<1> QED
  BY <1>11, <1>12, <1>13

\* What a need takes of a window when nothing runs is less than the window.
LEMMA InjectedFits ==
  ASSUME NEW w \in Windows, NEW need \in Nat, need < Limit, NEW preference \in Preferences
  PROVE  Injected(w, need, preference) \in Nat /\ Injected(w, need, preference) < w.limit
<1>1. w.limit \in Nat /\ need < w.limit
  BY LimitIs, Kinds, WindowsAssumption
<1>2. Injected(w, need, preference) \in Int /\ Injected(w, need, preference) >= need
  BY <1>1, InjectedIs
<1>3. PICK spare : spare = IF preference.mode = "sustain" THEN (w.limit * preference.reserve) \div 10000 ELSE 0
  OBVIOUS
<1>4. spare \in Nat
  <2>0. preference.reserve \in Nat
    BY PacerAssumption
  <2>1. PICK product : product = w.limit * preference.reserve
    OBVIOUS
  <2>2. product \in Nat
    BY <1>1, <2>0, <2>1
  <2>3. product \div 10000 \in Nat
    BY <2>2
  <2> QED
    BY <1>3, <2>1, <2>3
<1>5. PICK a, b : a = need + spare /\ b = w.limit - 1
  OBVIOUS
<1>6. a \in Int /\ b \in Int
  BY <1>1, <1>4, <1>5
<1>7. Injected(w, need, preference) = Min({a, b})
  BY <1>3, <1>5 DEF Injected
<1>8. Min({a, b}) <= b
  BY <1>6, TwoIs
<1> QED
  BY <1>1, <1>2, <1>5, <1>6, <1>7, <1>8

\* Some window's entitlement has expired.
SomeExpired(i) == \E w \in Windows : Expired(w, i)

\* What is outstanding at a window with a candidate's need.
Outlay(s, need, preference, w) == Pending(s) + Injected(w, need, preference)

\* An entitlement ends before there is room for the need.
EndsFirst(s, need, preference, start) ==
  \E w \in Windows : \E end \in w.validUntil : \A i \in Nat : i >= start /\ i < end =>
    \E v \in Windows : Full(v, s.usage, Outlay(s, need, preference, v), i)

\* From an instant that dates all of the evidence, the forecast names the first
\* instant from which no window blocks the need but for an expired entitlement, and
\* none only if there is none; with nothing running, there is one unless an
\* entitlement ends before there is room.
LEMMA ForecastIs ==
  ASSUME NEW s, IsUsage(s.usage), Pending(s) \in Nat, NEW need \in Nat, need < Limit,
         NEW preference \in Preferences, NEW start \in Nat, Dated(s.usage, start),
         NEW at, at = EarliestSafeAdmit(s, need, preference, start)
  PROVE  /\ \A i \in Nat : i >= start =>
              (BlockedAt(s, need, preference, i) = {} <=> at # None /\ i >= at /\ ~SomeExpired(i))
         /\ Pending(s) = 0 /\ at = None => EndsFirst(s, need, preference, start)
<1> DEFINE Out(w) == Outlay(s, need, preference, w)
           Shut(w, i) == Blocks(w, s.usage, Out(w), i)
           F(w, i) == Full(w, s.usage, Out(w), i)
           B(i) == BlockedAt(s, need, preference, i)
           Says(w, i) == Evaluate(w, s.usage, Out(w), i)
           Said(w) == Says(w, start)
<1>0. None \notin Nat
  BY PacerAssumption
<1>1. ASSUME NEW i PROVE B(i) = {} <=> \A w \in Windows : ~Shut(w, i)
  BY DEF BlockedAt, Check, Blocks, Outlay
<1>2. ASSUME NEW w \in Windows
      PROVE  Out(w) \in Int /\ w.limit \in Nat /\ IsWindow(w) /\ w.validUntil \subseteq Nat
  BY InjectedFits, Kinds, WindowsAssumption DEF Outlay
<1>3. ASSUME NEW w \in Windows
      PROVE  /\ \A t \in Nat : Shut(w, t) <=> Expired(w, t) \/ F(w, t)
             /\ Out(w) >= w.limit => /\ Said(w).until.relief = "after_holds_settle"
                                     /\ \A t \in Nat : t >= start => F(w, t)
             /\ Out(w) < w.limit /\ F(w, start) =>
                  /\ Said(w).until.relief = "at" /\ Said(w).until.at \in Nat /\ Said(w).until.at > start
                  /\ \A t \in Nat : t >= start => (F(w, t) <=> t < Said(w).until.at)
             /\ ~F(w, start) => /\ Expired(w, start) => Said(w).until.relief = "expired"
                                /\ \A t \in Nat : t >= start => ~F(w, t)
  <2>1. PICK o, a : o = Out(w) /\ a = Said(w)
    OBVIOUS
  <2>2. o \in Int /\ IsWindow(w)
    BY <1>2, <2>1
  <2>3. a = Evaluate(w, s.usage, o, start)
    BY <2>1
  <2>4. /\ \A t \in Nat : Blocks(w, s.usage, o, t) <=> Expired(w, t) \/ Full(w, s.usage, o, t)
        /\ o >= w.limit => /\ a.until.relief = "after_holds_settle"
                           /\ \A t \in Nat : t >= start => Full(w, s.usage, o, t)
        /\ o < w.limit /\ Full(w, s.usage, o, start) =>
             /\ a.until.relief = "at" /\ a.until.at \in Nat /\ a.until.at > start
             /\ \A t \in Nat : t >= start => (Full(w, s.usage, o, t) <=> t < a.until.at)
        /\ ~Full(w, s.usage, o, start) =>
             /\ Expired(w, start) => a.until.relief = "expired"
             /\ \A t \in Nat : t >= start => ~Full(w, s.usage, o, t)
    BY <2>2, <2>3, ReliefIs
  <2> HIDE DEF Out, Said
  <2> QED
    BY <2>1, <2>4
<1>4. ASSUME NEW i PROVE B(i) = {Says(w, i) : w \in {v \in Windows : Shut(v, i)}}
  BY DEF BlockedAt, Check, Blocks, Outlay
<1>5. PICK next : next = Max({c.until.at : c \in B(start)})
  OBVIOUS
<1>6. /\ B(start) = {} => at = start
      /\ B(start) # {} /\ (\E c \in B(start) : c.until.relief # "at" \/ c.until.at <= start) => at = None
      /\ (/\ B(start) # {} /\ ~(\E c \in B(start) : c.until.relief # "at" \/ c.until.at <= start)
          /\ next \in Nat /\ B(next) = {})
         => at = next
      /\ (/\ B(start) # {} /\ ~(\E c \in B(start) : c.until.relief # "at" \/ c.until.at <= start)
          /\ next \in Nat /\ \E c \in B(next) : c.until.relief # "at")
         => at = None
  BY <1>5, TwoLooks
<1>60. ASSUME NEW w \in Windows, NEW i, Expired(w, i), ~F(w, i)
       PROVE  Says(w, i).until.relief = "expired"
  <2>1. PICK o, a, m : o = Out(w) /\ a = Evaluate(w, s.usage, o, i) /\ m = Measure(w, s.usage, o, i)
    OBVIOUS
  <2>2. ~m.blocks
    BY <1>60, <2>1 DEF Full
  <2>3. a.until.relief = "expired"
    BY <1>60, <2>1, <2>2, EvaluateIs
  <2> QED
    BY <2>1, <2>3
<1>61. start >= start
  OBVIOUS
<1> HIDE DEF Out, Shut, F, B, Says
\* Nothing blocks at the start.
<1>7. CASE B(start) = {}
  <2>1. at = start
    BY <1>6, <1>7
  <2>2. ASSUME NEW i \in Nat, i >= start PROVE B(i) = {} <=> ~SomeExpired(i)
    <3>1. ASSUME NEW w \in Windows PROVE ~F(w, i)
      BY <1>1, <1>3, <1>7, <2>2
    <3> QED
      BY <1>1, <1>3, <3>1 DEF SomeExpired
  <2> QED
    BY <1>0, <2>1, <2>2 DEF B
\* The holds alone take all of a window.
<1>8. CASE \E w \in Windows : Out(w) >= w.limit
  <2>1. PICK w \in Windows : Out(w) >= w.limit
    BY <1>8
  <2>2. Said(w).until.relief = "after_holds_settle" /\ \A t \in Nat : t >= start => Shut(w, t)
    BY <1>3, <2>1
  <2>3. Said(w) \in B(start)
    BY <1>4, <1>61, <2>2
  <2>4. at = None
    BY <1>6, <2>2, <2>3
  <2>5. ASSUME NEW i \in Nat, i >= start PROVE B(i) # {}
    BY <1>1, <2>2, <2>5
  <2>6. Pending(s) # 0
    <3>1. Injected(w, need, preference) < w.limit /\ Injected(w, need, preference) \in Nat
      BY InjectedFits
    <3> QED
      BY <1>2, <2>1, <3>1 DEF Out, Outlay
  <2> QED
    BY <2>4, <2>5, <2>6 DEF B
\* A window with room has expired.
<1>9. CASE \E w \in Windows : Expired(w, start) /\ ~F(w, start)
  <2>1. PICK w \in Windows : Expired(w, start) /\ ~F(w, start)
    BY <1>9
  <2>2. Said(w) \in B(start) /\ Said(w).until.relief = "expired"
    BY <1>3, <1>4, <2>1
  <2>3. at = None
    BY <1>6, <2>2
  <2>4. ASSUME NEW i \in Nat, i >= start PROVE B(i) # {}
    <3>1. Expired(w, i)
      BY <1>2, <2>1, <2>4, ExpiredLater
    <3> QED
      BY <1>1, <1>3, <3>1
  <2>5. PICK end \in w.validUntil : end <= start
    BY <2>1 DEF Expired
  <2>6. \A i \in Nat : ~(i >= start /\ i < end)
    BY <1>2, <2>5
  <2> QED
    BY <2>3, <2>4, <2>5, <2>6 DEF B, EndsFirst
\* Every window that blocks is full and is relieved, the last of them at next.
<1>10. CASE /\ B(start) # {} /\ \A w \in Windows : ~(Out(w) >= w.limit)
            /\ \A w \in Windows : ~(Expired(w, start) /\ ~F(w, start))
  <2>0. \A w \in Windows : Shut(w, start) <=> F(w, start)
    BY <1>3, <1>10
  <2>1. ASSUME NEW w \in Windows, F(w, start)
        PROVE  /\ Said(w).until.relief = "at" /\ Said(w).until.at \in Nat /\ Said(w).until.at > start
               /\ \A t \in Nat : t >= start => (F(w, t) <=> t < Said(w).until.at)
    <3>1. Out(w) < w.limit
      BY <1>2, <1>10
    <3> QED
      BY <1>3, <2>1, <3>1
  <2>2. PICK S : S = {c.until.at : c \in B(start)}
    OBVIOUS
  <2>20. B(start) = {Said(w) : w \in {v \in Windows : F(v, start)}}
    BY <1>4, <2>0
  <2>3. IsFiniteSet(S)
    <3>1. PICK D : D = {v \in Windows : F(v, start)}
      OBVIOUS
    <3>2. IsFiniteSet(D)
      BY <3>1, FS_Subset, WindowsAssumption
    <3>3. PICK g : g = [w \in D |-> Said(w).until.at]
      OBVIOUS
    <3>4. S = {g[w] : w \in D}
      BY <2>2, <2>20, <3>1, <3>3
    <3> QED
      BY <3>2, <3>4, FiniteImage
  <2>4. /\ S # {} /\ \A x \in S : x \in Nat
        /\ \A x \in S : \E w \in Windows : F(w, start) /\ x = Said(w).until.at
        /\ \A w \in Windows : F(w, start) => Said(w).until.at \in S
    BY <1>10, <2>1, <2>2, <2>20
  <2>5. S \subseteq Int
    BY <2>4
  <2>6. next \in S /\ \A x \in S : x <= next
    BY <1>5, <2>2, <2>3, <2>4, <2>5, MaxIs
  <2>7. PICK last \in Windows : F(last, start) /\ next = Said(last).until.at
    BY <2>4, <2>6
  <2>8. next \in Nat /\ next > start
    BY <2>1, <2>7
  <2>9. ASSUME NEW i \in Nat, i >= next, NEW w \in Windows PROVE ~F(w, i)
    <3>1. i >= start
      BY <2>8, <2>9
    <3>2. CASE F(w, start)
      <4>1. Said(w).until.at <= next /\ Said(w).until.at \in Nat
        BY <2>4, <2>6, <3>2
      <4>2. ~(i < Said(w).until.at)
        BY <2>8, <2>9, <4>1
      <4> QED
        BY <2>1, <3>1, <3>2, <4>2
    <3>3. CASE ~F(w, start)
      BY <1>3, <3>1, <3>3
    <3> QED
      BY <3>2, <3>3
  <2>10. ASSUME NEW i \in Nat, i >= start, i < next PROVE F(last, i) /\ B(i) # {}
    <3>1. F(last, i)
      BY <2>1, <2>7, <2>10
    <3> QED
      BY <1>1, <1>3, <3>1
  <2>11. ASSUME NEW c \in B(start) PROVE c.until.relief = "at" /\ ~(c.until.at <= start)
    <3>1. PICK w \in Windows : F(w, start) /\ c = Said(w)
      BY <2>20
    <3>2. c.until.relief = "at" /\ c.until.at \in Nat /\ c.until.at > start
      BY <2>1, <3>1
    <3> QED
      BY <3>2
  <2>12. ASSUME NEW i \in Nat, i >= next PROVE B(i) = {} <=> ~SomeExpired(i)
    BY <1>1, <1>3, <2>9, <2>12 DEF SomeExpired
  <2>13. next >= next
    BY <2>8
  <2>14. CASE SomeExpired(next)
    <3>1. PICK w \in Windows : Expired(w, next)
      BY <2>14 DEF SomeExpired
    <3>2. Says(w, next).until.relief = "expired" /\ Shut(w, next)
      BY <1>3, <1>60, <2>8, <2>9, <2>13, <3>1
    <3>3. Says(w, next) \in B(next)
      BY <1>4, <3>2
    <3>4. at = None
      BY <1>6, <1>10, <2>8, <2>11, <3>2, <3>3
    <3>5. ASSUME NEW i \in Nat, i >= start PROVE B(i) # {}
      <4>1. CASE i < next
        BY <2>10, <3>5, <4>1
      <4>2. CASE i >= next
        <5>1. Expired(w, i)
          BY <1>2, <2>8, <3>1, <4>2, ExpiredLater
        <5> QED
          BY <2>12, <4>2, <5>1 DEF SomeExpired
      <4> QED
        BY <2>8, <4>1, <4>2
    <3>6. PICK end \in w.validUntil : end <= next
      BY <3>1 DEF Expired
    <3>7. ASSUME NEW i \in Nat, i >= start, i < end PROVE F(last, i)
      BY <1>2, <2>8, <2>10, <3>6, <3>7
    <3>8. \A i \in Nat : i >= start /\ i < end => \E v \in Windows : F(v, i)
      BY <3>7
    <3> QED
      BY <3>4, <3>5, <3>6, <3>8 DEF B, F, Out, EndsFirst
  <2>15. CASE ~SomeExpired(next)
    <3>1. B(next) = {}
      BY <2>8, <2>12, <2>13, <2>15
    <3>2. at = next
      BY <1>6, <1>10, <2>8, <2>11, <3>1
    <3>3. ASSUME NEW i \in Nat, i >= start PROVE B(i) = {} <=> at # None /\ i >= at /\ ~SomeExpired(i)
      <4>1. CASE i >= next
        BY <1>0, <2>8, <2>12, <3>2, <4>1
      <4>2. CASE ~(i >= next)
        <5>1. i < next
          BY <2>8, <4>2
        <5> QED
          BY <2>10, <3>2, <3>3, <4>2, <5>1
      <4> QED
        BY <4>1, <4>2
    <3> QED
      BY <1>0, <2>8, <3>2, <3>3 DEF B
  <2> QED
    BY <2>14, <2>15
<1> QED
  BY <1>7, <1>8, <1>9, <1>10

-----------------------------------------------------------------------------
(* The timer never misses an instant at which a task may start. *)

LEMMA DatedLater ==
  ASSUME NEW usage, IsUsage(usage), NEW a \in Nat, Dated(usage, a), NEW b \in Nat, a <= b
  PROVE  Dated(usage, b)
  BY DEF IsUsage, Dated

\* The forecast looks at the evidence and at what is taken, and at nothing else.
LEMMA SameForecast ==
  ASSUME NEW x, NEW y, IsUsage(x.usage), Pending(x) \in Nat, y.usage = x.usage, Pending(y) = Pending(x),
         NEW need \in Nat, need < Limit, NEW preference \in Preferences, NEW start \in Nat,
         Dated(x.usage, start)
  PROVE  EarliestSafeAdmit(x, need, preference, start) = EarliestSafeAdmit(y, need, preference, start)
<1>1. PICK a, b : /\ a = EarliestSafeAdmit(x, need, preference, start)
                  /\ b = EarliestSafeAdmit(y, need, preference, start)
  OBVIOUS
<1>2. \A i : BlockedAt(x, need, preference, i) = BlockedAt(y, need, preference, i)
  BY DEF BlockedAt, Check
<1>3. /\ a = None \/ (a \in Nat /\ a >= start /\ BlockedAt(x, need, preference, a) = {})
      /\ b = None \/ (b \in Nat /\ b >= start /\ BlockedAt(y, need, preference, b) = {})
  BY <1>1, SafeAdmitIs
<1>4. \A i \in Nat : i >= start =>
        (BlockedAt(x, need, preference, i) = {} <=> a # None /\ i >= a /\ ~SomeExpired(i))
  BY <1>1, ForecastIs
<1>5. \A i \in Nat : i >= start =>
        (BlockedAt(y, need, preference, i) = {} <=> b # None /\ i >= b /\ ~SomeExpired(i))
  BY <1>1, ForecastIs
<1>6. a # None => b # None /\ a >= b
  BY <1>2, <1>3, <1>5
<1>7. b # None => a # None /\ b >= a
  BY <1>2, <1>3, <1>4
<1> QED
  BY <1>1, <1>3, <1>6, <1>7

\* So does what a candidate is told, but for its own estimate and backoff, the last
\* start and what runs: the timer is not among them.
LEMMA SameAdmit ==
  ASSUME NEW x, NEW y, IsController(x), IsController(y), y.active = x.active, y.lastStart = x.lastStart,
         y.usage = x.usage, y.spend = x.spend, y.backoff = x.backoff, y.estimates = x.estimates,
         NEW t \in Tasks, NEW preference \in Preferences, NEW instant \in Nat, Dated(x.usage, instant)
  PROVE  AdmitAt(x, t, preference, instant) = AdmitAt(y, t, preference, instant)
<1>1. PICK estimate, b : estimate = x.estimates[t] /\ b = x.backoff[Principal[t]]
  OBVIOUS
<1>2. PICK earliest, need : /\ earliest = EarliestPaced(x, estimate, preference, instant)
                            /\ need = Need(estimate, b)
  OBVIOUS
<1>3. /\ EstimateOf(x, t) = estimate /\ EstimateOf(y, t) = estimate
      /\ EarliestPaced(y, estimate, preference, instant) = earliest
      /\ Throttled(x, t) <=> Throttled(y, t)
  BY <1>1, <1>2 DEF EstimateOf, EarliestPaced, Throttled
<1>4. estimate \in Nat \cup {None} /\ b \in Nat /\ x.lastStart \in Nat \cup {None} /\ IsUsage(x.usage)
  BY <1>1 DEF IsController, Principals
<1>5. earliest \in Nat /\ instant <= earliest
  BY <1>2, <1>4, EarliestPacedIs
<1>6. need # None => need \in Nat /\ need < Limit
  BY <1>2, <1>4, NeedIs
<1>7. Pending(x) \in Nat
  BY ControllerLoaded, PendingIs
<1>8. Pending(y) = Pending(x)
  BY DEF Pending
<1>9. Dated(x.usage, earliest)
  BY <1>4, <1>5, DatedLater
<1>10. PICK a, c : /\ a = EarliestSafeAdmit(x, need, preference, earliest)
                   /\ c = EarliestSafeAdmit(y, need, preference, earliest)
  OBVIOUS
<1>11. need # None => a = c
  BY <1>4, <1>5, <1>6, <1>7, <1>8, <1>9, <1>10, SameForecast
<1>12. AdmitAt(x, t, preference, instant) =
         IF Throttled(x, t) \/ PastCutoff(preference, earliest, instant) \/ need = None THEN None
         ELSE BeforeCutoff(a, preference, instant)
  BY <1>1, <1>2, <1>3, <1>10 DEF AdmitAt
<1>13. AdmitAt(y, t, preference, instant) =
         IF Throttled(y, t) \/ PastCutoff(preference, earliest, instant) \/ need = None THEN None
         ELSE BeforeCutoff(c, preference, instant)
  BY <1>1, <1>2, <1>3, <1>10 DEF AdmitAt
<1> QED
  BY <1>3, <1>11, <1>12, <1>13

\* The timer is ahead; and while nothing runs and anything may, it is no later than any of the
\* instants at which the tasks of D may start.
Waits(x, D, preference, instant) ==
  /\ x.timer # None => x.timer > instant
  /\ DOMAIN x.active = {} /\ Fanout(preference) > 0 =>
       \A t \in D : AdmitAt(x, t, preference, instant) # None =>
         x.timer # None /\ x.timer <= AdmitAt(x, t, preference, instant)

LEMMA EarlierOf ==
  ASSUME NEW a \in Nat \cup {None}, NEW b \in Nat
  PROVE  /\ Earlier(a, b) \in Nat /\ Earlier(a, b) <= b
         /\ a # None => Earlier(a, b) <= a
         /\ Earlier(a, b) = a \/ Earlier(a, b) = b
<1>1. None \notin Nat
  BY PacerAssumption
<1>2. CASE a = None
  BY <1>2 DEF Earlier
<1>3. CASE a \in Nat
  <2>1. Earlier(a, b) = Min({a, b})
    BY <1>1, <1>3 DEF Earlier
  <2>2. a \in Int /\ b \in Int
    BY <1>3
  <2>3. Min({a, b}) = IF a <= b THEN a ELSE b
    BY <2>2, TwoIs
  <2> QED
    BY <1>3, <2>1, <2>3
<1> QED
  BY <1>2, <1>3

LEMMA VisitWaits ==
  ASSUME NEW s, NEW x, NEW preference \in Preferences, NEW instant \in Nat,
         PassOK(s, x, preference, instant), Dated(s.usage, instant), NEW D \in SUBSET Ready(s),
         NEW t \in D, Waits(x, D \ {t}, preference, instant),
         NEW y, y = Visit(x, t, preference, instant)
  PROVE  Waits(y, D, preference, instant)
<1>0. /\ Grown(s, x) /\ IsController(x) /\ IsState(x)
      /\ t \in Ready(s) /\ t \in Tasks /\ D \subseteq Tasks
      /\ PassOK(s, y, preference, instant) /\ IsController(y)
  BY VisitKeepsOK DEF PassOK, Grown, Ready
<1>1. x.timer \in Nat \cup {None} /\ y.timer \in Nat \cup {None} /\ None \notin Nat
  BY <1>0, PacerAssumption DEF IsController
<1>2. PICK at : at = AdmitAt(x, t, preference, instant)
  OBVIOUS
<1>3. at # None => at \in Nat
  BY <1>0, <1>2, AdmitAtIs
<1>4. Dated(x.usage, instant)
  BY <1>0 DEF Grown
\* A visit that starts the task, and one that sets the timer.
<1>5. ASSUME t \notin DOMAIN x.active, y = Start(x, t, instant)
      PROVE  Waits(y, D, preference, instant)
  <2>1. y.timer = x.timer /\ DOMAIN y.active = DOMAIN x.active \cup {t}
    BY <1>0, <1>5, StartGrows
  <2> QED
    BY <2>1 DEF Waits
<1>6. ASSUME at # None, ~(at <= instant), y = [x EXCEPT !.timer = Earlier(x.timer, at)]
      PROVE  Waits(y, D, preference, instant)
  <2>1. PICK e : e = Earlier(x.timer, at)
    OBVIOUS
  <2>2. /\ y.completed = x.completed /\ y.usage = x.usage /\ y.backoff = x.backoff
        /\ y.spend = x.spend /\ y.estimates = x.estimates /\ y.lastStart = x.lastStart /\ y.timer = e
        /\ y.active = x.active
    BY <1>0, <1>6, <2>1, SetTimer
  <2>3. at \in Nat /\ at > instant
    BY <1>3, <1>6
  <2>4. e \in Nat /\ e <= at /\ (x.timer # None => e <= x.timer) /\ (e = x.timer \/ e = at)
    BY <1>1, <2>1, <2>3, EarlierOf
  <2>5. e # None /\ e > instant
    BY <1>1, <2>3, <2>4 DEF Waits
  <2>6. ASSUME DOMAIN x.active = {}, Fanout(preference) > 0, NEW u \in D, AdmitAt(y, u, preference, instant) # None
        PROVE  e <= AdmitAt(y, u, preference, instant)
    <3>1. PICK a : a = AdmitAt(x, u, preference, instant)
      OBVIOUS
    <3>2. a = AdmitAt(y, u, preference, instant)
      BY <1>0, <1>4, <2>2, <3>1, SameAdmit
    <3>3. a \in Nat
      BY <1>0, <2>6, <3>1, <3>2, AdmitAtIs
    <3>4. CASE u = t
      BY <1>2, <2>4, <3>1, <3>2, <3>4
    <3>5. CASE u # t
      <4>1. x.timer # None /\ x.timer <= a
        BY <2>6, <3>1, <3>2, <3>5 DEF Waits
      <4> QED
        BY <1>1, <2>4, <3>2, <3>3, <4>1
    <3> QED
      BY <3>4, <3>5
  <2> QED
    BY <2>2, <2>5, <2>6 DEF Waits
<1>7. CASE DOMAIN x.active = {} /\ Fanout(preference) > 0
  <2>1. Cardinality(DOMAIN x.active) = 0
    BY <1>7, FS_EmptySet
  <2>2. Fanout(preference) \in Nat
    BY PacerAssumption DEF Fanout
  <2>3. y = Place(x, t, at, instant)
    BY <1>2, <1>7, <2>1, <2>2 DEF Visit
  <2>4. CASE at = None
    <3>1. y = x
      BY <2>3, <2>4 DEF Place
    <3> QED
      BY <1>2, <2>4, <3>1 DEF Waits
  <2>5. CASE at # None /\ at <= instant
    <3>1. y = Start(x, t, instant)
      BY <2>3, <2>5 DEF Place
    <3> QED
      BY <1>5, <1>7, <3>1
  <2>6. CASE at # None /\ ~(at <= instant)
    <3>1. y = [x EXCEPT !.timer = Earlier(x.timer, at)]
      BY <2>3, <2>6 DEF Place
    <3> QED
      BY <1>6, <2>6, <3>1
  <2> QED
    BY <2>4, <2>5, <2>6
<1>8. CASE ~(DOMAIN x.active = {} /\ Fanout(preference) > 0)
  <2>1. CASE y = x
    BY <1>8, <2>1 DEF Waits
  <2> QED
    BY <1>2, <1>5, <1>6, <2>1, VisitIs
<1> QED
  BY <1>7, <1>8

LEMMA PassWaits ==
  ASSUME NEW s, IsController(s), NEW preference \in Preferences,
         NEW instant \in Nat, Dated(s.usage, instant)
  PROVE  Waits(TryAdmit(s, preference, instant), Ready(s), preference, instant)
<1>0. PICK f : Passes(f, s, preference, instant)
  BY PassIs
<1> DEFINE C == {D \in SUBSET Ready(s) : /\ PassOK(s, f[D], preference, instant)
                                         /\ Waits(f[D], D, preference, instant)}
<1>1. {} \in C
  <2>1. PICK y : y = [s EXCEPT !.timer = None]
    OBVIOUS
  <2>0. IsState(s)
    BY DEF IsController
  <2>20. /\ IsState(y) /\ y.completed = s.completed /\ y.usage = s.usage /\ y.backoff = s.backoff
         /\ y.spend = s.spend /\ y.estimates = s.estimates /\ y.active = s.active /\ y.timer = None
    BY <2>0, <2>1, SetTimer
  <2>2. Grown(s, y) /\ y.timer = None
    BY <2>20 DEF Grown
  <2>3. IsController(y) /\ y.active = s.active /\ y.lastStart = s.lastStart
    BY <2>1, TimerTyped
  <2>4. Held(s) => Held(y)
    BY <2>2, <2>3 DEF Held, Grown
  <2>5. PassOK(s, y, preference, instant) /\ Waits(y, {}, preference, instant)
    BY <2>2, <2>3, <2>4 DEF PassOK, Waits
  <2> QED
    BY <1>0, <2>1, <2>5 DEF Passes
<1>2. ASSUME NEW D \in SUBSET Ready(s), D # {}, D \ {LastReady(D)} \in C
      PROVE  D \in C
  <2>0. PICK t, x, y : t = LastReady(D) /\ x = f[D \ {t}] /\ y = f[D]
    OBVIOUS
  <2>1. /\ t \in D /\ t \in Ready(s) /\ PassOK(s, x, preference, instant)
        /\ Waits(x, D \ {t}, preference, instant)
    BY <1>2, <2>0, ReadyFinite
  <2>2. y = Visit(x, t, preference, instant)
    BY <1>0, <1>2, <2>0 DEF Passes
  <2>3. PassOK(s, y, preference, instant)
    BY <2>1, <2>2, VisitKeepsOK
  <2>4. Waits(y, D, preference, instant)
    BY <2>1, <2>2, VisitWaits
  <2> QED
    BY <2>0, <2>3, <2>4
<1> HIDE DEF C
<1>3. Ready(s) \in C
  BY <1>1, <1>2, PassInduction
<1> QED
  BY <1>0, <1>3 DEF C, Passes

-----------------------------------------------------------------------------
(* The instants the controller works with, after every step. *)

InstantsInv ==
  /\ PacerInv /\ Dated(p.usage, now)
  /\ p.timer # None => p.timer > now
  /\ NeverWedged

\* With nothing running, a forecast that names no instant does so for an entitlement.
LEMMA ForecastNone ==
  ASSUME NEW s, IsUsage(s.usage), Pending(s) = 0, NEW need \in Nat, need < Limit,
         NEW preference \in Preferences, NEW start \in Nat, Dated(s.usage, start),
         EarliestSafeAdmit(s, need, preference, start) = None
  PROVE  EndsFirst(s, need, preference, start)
<1>1. Pending(s) \in Nat
  OBVIOUS
<1>2. PICK at : at = EarliestSafeAdmit(s, need, preference, start)
  OBVIOUS
<1>3. Pending(s) = 0 /\ at = None => EndsFirst(s, need, preference, start)
  BY <1>1, <1>2, ForecastIs
<1> QED
  BY <1>2, <1>3

\* What NeverWedged says of a controller in which nothing runs.
Wakes(s, preference, instant) ==
  \A t \in Ready(s) :
    LET estimate == EstimateOf(s, t)
        need     == Need(estimate, s.backoff[Principal[t]])
        earliest == EarliestPaced(s, estimate, preference, instant)
        at       == EarliestSafeAdmit(s, need, preference, earliest)
    IN  estimate # None /\ Max({estimate, Floor}) < Limit =>
          /\ need # None
          /\ IF at = None
             THEN RunsOut(s, need, preference, earliest)
             ELSE PastCutoff(preference, at, instant) \/ (s.timer # None /\ s.timer \in instant + 1..at)

\* A cutoff that comes before an instant comes before the later ones.
LEMMA CutoffLater ==
  ASSUME NEW preference \in Preferences, NEW a \in Nat, NEW b \in Nat, a <= b, NEW instant \in Nat,
         PastCutoff(preference, a, instant)
  PROVE  PastCutoff(preference, b, instant)
<1>1. Deadline \in Nat /\ preference.target \in Nat /\ preference.horizon \in Nat
  BY PacerAssumption
<1> QED
  BY <1>1 DEF PastCutoff

LEMMA WaitsWakes ==
  ASSUME NEW s, IsController(s), NEW preference \in Preferences, Fanout(preference) > 0,
         NEW instant \in Nat, Dated(s.usage, instant), DOMAIN s.active = {},
         Waits(s, Ready(s), preference, instant)
  PROVE  Wakes(s, preference, instant)
<1>1. SUFFICES ASSUME NEW t \in Ready(s), NEW estimate, estimate = EstimateOf(s, t),
                      NEW need, need = Need(estimate, s.backoff[Principal[t]]),
                      NEW earliest, earliest = EarliestPaced(s, estimate, preference, instant),
                      NEW at, at = EarliestSafeAdmit(s, need, preference, earliest),
                      estimate # None, Max({estimate, Floor}) < Limit
               PROVE  /\ need # None
                      /\ at = None => RunsOut(s, need, preference, earliest)
                      /\ at # None => \/ PastCutoff(preference, at, instant)
                                      \/ s.timer # None /\ s.timer \in instant + 1..at
  BY DEF Wakes
<1>2. t \in Tasks /\ None \notin Nat
  BY PacerAssumption DEF Ready
<1>3. PICK b : b = s.backoff[Principal[t]]
  OBVIOUS
<1>4. /\ estimate \in Nat \cup {None} /\ b \in Nat /\ s.lastStart \in Nat \cup {None}
      /\ IsUsage(s.usage) /\ s.timer \in Nat \cup {None}
  BY <1>1, <1>2, <1>3 DEF IsController, Principals, EstimateOf
<1>5. estimate \in Int /\ Floor \in Int /\ Floor \in Nat /\ Limit \in Nat
  BY <1>1, <1>4, PacerAssumption, LimitIs
<1>6. Larger(estimate, Floor) < Limit /\ Larger(estimate, Floor) \in Int
  BY <1>1, <1>5, TwoIs DEF Larger
<1>7. need # None /\ need \in Nat /\ need < Limit
  <2>1. ~(Larger(estimate, Floor) >= Limit)
    BY <1>5, <1>6
  <2> QED
    BY <1>1, <1>3, <1>4, <2>1, NeedIs
<1>8. earliest \in Nat /\ earliest >= instant
  BY <1>1, <1>4, EarliestPacedIs
<1>9. Pending(s) = 0 /\ Taken(s) = Pending(s)
  BY ControllerLoaded, PendingIs, SumIs
<1>10. Dated(s.usage, earliest)
  BY <1>4, <1>8, DatedLater
<1>11. ASSUME at = None PROVE RunsOut(s, need, preference, earliest)
  <2>0. PICK w \in Windows : \E end \in w.validUntil : \A i \in Nat : i >= earliest /\ i < end =>
          \E v \in Windows : Full(v, s.usage, Outlay(s, need, preference, v), i)
    <3>0. IsUsage(s.usage) /\ Pending(s) \in Nat /\ need \in Nat /\ need < Limit /\ earliest \in Nat
      BY <1>4, <1>7, <1>8, <1>9
    <3>1. EndsFirst(s, need, preference, earliest)
      BY <1>1, <1>9, <1>10, <1>11, <3>0, ForecastNone
    <3> QED
      BY <3>1 DEF EndsFirst
  <2>1. PICK end \in w.validUntil : \A i \in Nat : i >= earliest /\ i < end =>
          \E v \in Windows : Full(v, s.usage, Outlay(s, need, preference, v), i)
    BY <2>0
  <2>2. end \in Nat
    BY <2>1, Kinds, WindowsAssumption
  <2>3. \A i \in earliest..(end - 1) : i \in Nat /\ i >= earliest /\ i < end
    BY <1>8, <2>2
  <2>4. \A i \in earliest..(end - 1) :
          \E v \in Windows : Measure(v, s.usage, Taken(s) + Injected(v, need, preference), i).blocks
    BY <1>9, <2>1, <2>3 DEF Full, Outlay
  <2> QED
    BY <2>1, <2>4 DEF RunsOut
<1>12. at # None => at \in Nat /\ at >= earliest
  BY <1>1, <1>4, <1>7, <1>8, <1>9, SafeAdmitIs
<1>13. ASSUME at # None, ~PastCutoff(preference, at, instant)
       PROVE  s.timer # None /\ s.timer \in instant + 1..at
  <2>1. ~PastCutoff(preference, earliest, instant)
    BY <1>8, <1>12, <1>13, CutoffLater
  <2>2. ~Throttled(s, t)
    BY DEF Throttled
  <2>3. AdmitAt(s, t, preference, instant) = BeforeCutoff(at, preference, instant)
    BY <1>1, <1>7, <2>1, <2>2 DEF AdmitAt
  <2>4. AdmitAt(s, t, preference, instant) = at
    BY <1>13, <2>3 DEF BeforeCutoff
  <2>5. s.timer # None /\ s.timer <= at /\ s.timer > instant
    BY <1>1, <1>13, <2>4 DEF Waits
  <2> QED
    BY <1>4, <1>12, <1>13, <2>5
<1> QED
  BY <1>7, <1>11, <1>13

\* An event dates what it adds by its own instant.
LEMMA EventDated ==
  ASSUME NEW s, IsState(s), IsUsage(s.usage), NEW at \in Nat, Dated(s.usage, at), NEW t
  PROVE  /\ Dated(OnCompleted(s, t, at).usage, at)
         /\ \A amount : Dated(OnSpend(s, t, amount).usage, at)
         /\ \A e : Dated(OnRevised(s, t, e).usage, at)
<1>1. Dated(OnCompleted(s, t, at).usage, at)
  <2>1. CASE t \notin DOMAIN s.active
    BY <2>1 DEF OnCompleted
  <2>2. CASE t \in DOMAIN s.active
    <3>1. PICK y : y = OnCompleted(s, t, at)
      OBVIOUS
    <3>2. y.usage = s.usage \cup {RecordOf(t, at, Settled(s, t))}
      BY <2>2, <3>1, OnCompletedIs
    <3>3. RecordOf(t, at, Settled(s, t)).at = at
      BY DEF RecordOf
    <3> QED
      BY <3>1, <3>2, <3>3 DEF Dated
  <2> QED
    BY <2>1, <2>2
<1>2. ASSUME NEW amount PROVE Dated(OnSpend(s, t, amount).usage, at)
  <2>1. CASE t \notin DOMAIN s.active
    BY <2>1 DEF OnSpend
  <2>2. CASE t \in DOMAIN s.active
    BY <2>2, OnSpendIs
  <2> QED
    BY <2>1, <2>2
<1>3. ASSUME NEW e PROVE Dated(OnRevised(s, t, e).usage, at)
  <2>1. CASE t \in DOMAIN s.active \cup s.completed
    BY <2>1 DEF OnRevised
  <2>2. CASE t \notin DOMAIN s.active \cup s.completed
    <3>1. PICK y : y = OnRevised(s, t, e)
      OBVIOUS
    <3>2. y.usage = s.usage /\ y.estimates = [s.estimates EXCEPT ![t] = e]
      BY <2>2, <3>1, OnRevisedIs
    <3> QED
      BY <3>1, <3>2
  <2> QED
    BY <2>1, <2>2
<1> QED
  BY <1>1, <1>2, <1>3

LEMMA InstantsStep ==
  ASSUME PacerInv, NEW x, IsController(x), NEW instant \in Nat, Dated(x.usage, instant), Step(x, instant),
         PacerInv'
  PROVE  InstantsInv'
<1>1. PICK y, preference : y = p' /\ preference = pref
  OBVIOUS
<1>2. /\ y = TryAdmit(x, preference, instant) /\ now' = instant /\ pref' = preference
      /\ preference \in Preferences /\ IsController(y)
  BY <1>1 DEF Step, PacerInv
<1>3. Grown(x, y) /\ Waits(y, Ready(x), preference, instant)
  BY <1>2, PassWaits, PassFits DEF PassOK
<1>4. Dated(y.usage, instant) /\ Ready(y) = Ready(x) /\ (y.timer # None => y.timer > instant)
  BY <1>3 DEF Grown, Ready, Waits
<1>5. DOMAIN y.active = {} /\ Fanout(preference) > 0 => Wakes(y, preference, instant)
  BY <1>2, <1>3, <1>4, WaitsWakes
<1>6. DOMAIN p'.active = {} /\ Fanout(pref') > 0 => Wakes(p', pref', now')
  BY <1>1, <1>2, <1>5
<1>7. NeverWedged'
  BY <1>6 DEF NeverWedged, Wakes, Started
<1> QED
  BY <1>1, <1>2, <1>4, <1>7 DEF InstantsInv

LEMMA InstantsNext ==
  ASSUME InstantsInv, PcNext, PacerInv'
  PROVE  InstantsInv'
<1>1. PICK s : s = p
  OBVIOUS
<1>2. /\ PacerInv /\ IsController(s) /\ IsState(s) /\ IsUsage(s.usage) /\ now \in Nat /\ MaxTime \in Nat
      /\ Dated(s.usage, now) /\ (s.timer # None => s.timer > now)
  BY <1>1, PacerAssumption DEF InstantsInv, PacerInv, IsController
<1>3. \A instant \in now..MaxTime : instant \in Nat /\ now <= instant
  BY <1>2
<1>4. \A instant \in now..MaxTime : Dated(s.usage, instant)
  BY <1>2, <1>3, DatedLater
<1>5. ASSUME NEW t \in Tasks, NEW instant \in now..MaxTime, TaskCompleted(t, instant)
      PROVE  InstantsInv'
  <2>1. PICK x : x = OnCompleted(s, t, instant)
    OBVIOUS
  <2>2. IsController(x) /\ Dated(x.usage, instant)
    BY <1>2, <1>3, <1>4, <2>1, CompletedTyped, EventDated
  <2>3. Step(x, instant)
    BY <1>1, <1>5, <2>1 DEF TaskCompleted
  <2> QED
    BY <1>2, <1>3, <2>2, <2>3, InstantsStep
<1>6. ASSUME NEW t \in Tasks, NEW instant \in now..MaxTime, NEW amount \in Spends, Spend(t, amount, instant)
      PROVE  InstantsInv'
  <2>1. PICK x : x = OnSpend(s, t, amount)
    OBVIOUS
  <2>2. amount \in Nat
    BY PacerAssumption
  <2>3. IsController(x) /\ Dated(x.usage, instant)
    BY <1>2, <1>3, <1>4, <2>1, <2>2, SpendTyped, EventDated
  <2>4. Step(x, instant)
    BY <1>1, <1>6, <2>1 DEF Spend
  <2> QED
    BY <1>2, <1>3, <2>3, <2>4, InstantsStep
<1>7. ASSUME NEW t \in Tasks, NEW instant \in now..MaxTime, NEW e \in Estimates, EstimateRevised(t, e, instant)
      PROVE  InstantsInv'
  <2>1. PICK x : x = OnRevised(s, t, e)
    OBVIOUS
  <2>2. IsController(x) /\ Dated(x.usage, instant)
    BY <1>2, <1>3, <1>4, <2>1, RevisedTyped, EventDated
  <2>3. Step(x, instant)
    BY <1>1, <1>7, <2>1 DEF EstimateRevised
  <2> QED
    BY <1>2, <1>3, <2>2, <2>3, InstantsStep
<1>8. ASSUME NEW instant \in now..MaxTime, ModeChanged(instant)
      PROVE  InstantsInv'
  <2>1. Step(s, instant)
    BY <1>1, <1>8 DEF ModeChanged
  <2> QED
    BY <1>2, <1>3, <1>4, <2>1, InstantsStep
<1>9. ASSUME Timer
      PROVE  InstantsInv'
  <2>1. PICK instant : instant = s.timer
    OBVIOUS
  <2>2. Step(s, instant) /\ instant \in Nat /\ now <= instant
    BY <1>1, <1>2, <1>9, <2>1 DEF Timer, IsController
  <2>3. Dated(s.usage, instant)
    BY <1>2, <2>2, DatedLater
  <2> QED
    BY <1>2, <2>2, <2>3, InstantsStep
<1> QED
  BY <1>5, <1>6, <1>7, <1>8, <1>9 DEF PcNext

LEMMA ForecastExact ==
  ASSUME InstantsInv
  PROVE  ForecastIsExact
<1>1. PICK s, preference : s = p /\ preference = pref
  OBVIOUS
<1>2. /\ IsController(s) /\ IsUsage(s.usage) /\ now \in Nat /\ MaxTime \in Nat
      /\ Dated(s.usage, now) /\ preference \in Preferences
  BY <1>1, PacerAssumption DEF InstantsInv, PacerInv, IsController
<1>3. Pending(s) \in Nat /\ Taken(s) = Pending(s)
  BY <1>2, ControllerLoaded, PendingIs
<1>4. SUFFICES ASSUME NEW t \in Ready(s), NEW need, need = Need(EstimateOf(s, t), s.backoff[Principal[t]]),
                      need # None, NEW at, at = EarliestSafeAdmit(s, need, preference, now),
                      NEW i \in now..(MaxTime + 1)
               PROVE  (\A w \in Windows : ~Blocks(w, s.usage, Taken(s) + Injected(w, need, preference), i))
                        <=> at # None /\ i >= at /\ ~\E w \in Windows : Expired(w, i)
  BY <1>1, Zenon DEF ForecastIsExact, Admits
<1>5. PICK estimate, b : estimate = EstimateOf(s, t) /\ b = s.backoff[Principal[t]]
  OBVIOUS
<1>6. estimate \in Nat \cup {None} /\ b \in Nat
  BY <1>2, <1>5 DEF IsController, Principals, EstimateOf, Ready
<1>7. need \in Nat /\ need < Limit
  BY <1>4, <1>5, <1>6, NeedIs
<1>8. i \in Nat /\ i >= now
  BY <1>2
<1>9. BlockedAt(s, need, preference, i) = {} <=> at # None /\ i >= at /\ ~SomeExpired(i)
  BY <1>2, <1>3, <1>4, <1>7, <1>8, ForecastIs
<1>10. BlockedAt(s, need, preference, i) = {} <=>
         \A w \in Windows : ~Blocks(w, s.usage, Pending(s) + Injected(w, need, preference), i)
  BY DEF BlockedAt, Check, Blocks
<1> QED
  BY <1>3, <1>9, <1>10 DEF SomeExpired

\* For any tasks, windows, estimates and preferences, under any order of completions,
\* reports, revisions, changes of mode and timers: the forecast of earliest_safe_admit
\* names the first instant from which every window admits a ready task, until an
\* entitlement expires, and none only if waiting does not help; and with nothing running
\* the timer is set for the first instant at which a feasible task may start, or earlier,
\* unless a cutoff comes before or an entitlement ends before there is room.
THEOREM InstantsRight == PcSpec => []InstantsAreRight
<1>1. PcInit => InstantsInv
  <2> SUFFICES ASSUME PcInit PROVE InstantsInv
    OBVIOUS
  <2>1. p.usage = {} /\ p.timer = None /\ begun = FALSE
    BY DEF PcInit, Fresh
  <2> QED
    BY <2>1, PacerInit DEF InstantsInv, Dated, NeverWedged
<1>2. InstantsInv /\ [PcNext]_pcVars => InstantsInv'
  <2> SUFFICES ASSUME InstantsInv, [PcNext]_pcVars PROVE InstantsInv'
    OBVIOUS
  <2>1. PacerInv'
    BY PacerStep DEF InstantsInv
  <2>2. CASE PcNext
    BY <2>1, <2>2, InstantsNext
  <2>3. CASE UNCHANGED pcVars
    <3>1. NeverWedged'
      BY <2>3 DEF InstantsInv, NeverWedged, pcVars, Started
    <3> QED
      BY <2>1, <2>3, <3>1 DEF InstantsInv, pcVars
  <2> QED
    BY <2>2, <2>3
<1>3. InstantsInv => InstantsAreRight
  BY ForecastExact DEF InstantsInv, InstantsAreRight
<1> QED
  BY <1>1, <1>2, <1>3, PTL DEF PcSpec
=============================================================================
