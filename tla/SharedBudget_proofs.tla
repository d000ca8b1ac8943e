------------------------- MODULE SharedBudget_proofs -------------------------
(***************************************************************************)
(* The shared budget of the hooks, for any number of sessions, subagents,  *)
(* prompts and rows, every configuration the file parser accepts, every    *)
(* length of a month and a clock that may also step back.                  *)
(*                                                                         *)
(* OneLiveHoldPerLane is about holds that have not lapsed at the present   *)
(* time; a clock that steps back makes a lapsed one live again, so the     *)
(* invariant says it of every active hold (OneActive), and the sweep that  *)
(* an admission makes first is why a grant keeps it.  A second booking of  *)
(* a charge is excluded by its row or, once that is pruned, by the horizon *)
(* (BookedIsKnown).  A Stop can only be wrong about a row it has not       *)
(* settled yet (StoppedIsSettled).                                         *)
(* That a message is measured exactly once needs the second invariant,     *)
(* LaneInv, of the transcript and the lane's marks.                        *)
(*                                                                         *)
(* Late spend needs a third, LateInv: of the rows, of the turns bound to   *)
(* each hold, and that a charge family's rows and what a prune folded into *)
(* the floor add up to what was ever billed to it.  The measured rows of a *)
(* session fall into disjoint groups, a hold with its true-ups or the      *)
(* charge of one turn; the turns behind two groups are disjoint, and a     *)
(* group holds no more than its turns wrote.                               *)
(*                                                                         *)
(* First what each operation does to a row and to a table, then one lemma  *)
(* for each action: it keeps the invariant and takes a step TurnAccounting *)
(* allows.                                                                 *)
(***************************************************************************)
EXTENDS LateSpend, Sums_proofs, FiniteSetTheorems, TLAPS

\* The rows with the given columns; the others have their types.
RowsWith(key, settled, usage, lane, source, expiresAt, settledAt, releasedAt, mark) ==
  [pool: Periods, who: {Who(s) : s \in Sessions}, key: {key}, amount: Nat, state: RowStates,
   settled: {settled}, usage: {usage}, kind: {"hold", "charge"}, lane: {lane},
   source: {source}, expiresAt: {expiresAt}, settledAt: {settledAt},
   releasedAt: {releasedAt}, mark: {mark}]

\* A row of the hooks.  What a settlement measures is a natural number of cents;
\* its key, its times and its mark may be anything.
IsRow(x) ==
  /\ x \in RowsWith(x.key, x.settled, x.usage, x.lane, x.source, x.expiresAt,
                    x.settledAt, x.releasedAt, x.mark)
  /\ x.state = "settled" => x.settled \in Nat
  /\ x.kind = "hold" => x.amount <= I64Max /\ x.source = "turn_hold"
  /\ x.state = "active" => x \in Row

\* Two holds of a lane are never both active in a month, swept or not.
OneActive(t) ==
  \A i, j \in Ids :
    /\ t[i] # None /\ t[j] # None
    /\ t[i].kind = "hold" /\ t[j].kind = "hold"
    /\ t[i].state = "active" /\ t[j].state = "active"
    /\ t[i].pool = t[j].pool /\ t[i].who = t[j].who /\ t[i].lane = t[j].lane
    => i = j

IsTable(t) == t = [i \in Ids |-> t[i]]

\* A table t into which n rows were inserted.
TableInv(t, n) ==
  /\ IsTable(t)
  /\ \A i \in Ids : t[i] # None => IsRow(t[i])
  /\ \A i \in Ids : i > n => t[i] = None
  /\ OneActive(t)

\* A row may end, but does not come alive, and stays in its lane and month.
Ages(x, y) ==
  /\ IsRow(y)
  /\ y.kind = x.kind /\ y.pool = x.pool /\ y.who = x.who /\ y.lane = x.lane
  /\ y.state = "active" => x.state = "active"

\* What the assumptions say of the constants.
LEMMA ConstantFacts ==
  /\ MaxRows \in Nat /\ MaxTime \in Nat /\ PeriodLen \in Nat /\ PeriodLen > 0
  /\ I64Max \in Nat /\ I64Max > 0 /\ HoldTTL \in Nat /\ Keep \in Nat /\ CeilingFactor \in Nat
  /\ \A c \in Configs : c.cap \in 0..I64Max /\ c.hold \in 0..I64Max
  /\ Ids = 1..MaxRows /\ None \notin Ids /\ None \notin Nat
  /\ None \notin Prompts /\ None \notin Agents /\ None \notin Sessions /\ None \notin Row
  BY BudgetAssumption, BudgetRowAssumption DEF Ids

LEMMA AgedTable ==
  ASSUME NEW t, NEW n \in Nat, TableInv(t, n), NEW u, IsTable(u),
         \A i \in Ids : u[i] = None \/ u[i] = t[i] \/ (t[i] # None /\ Ages(t[i], u[i]))
  PROVE  TableInv(u, n)
<1>1. \A i \in Ids : u[i] # None => IsRow(u[i]) /\ t[i] # None
  BY DEF TableInv, Ages
<1>2. OneActive(u)
  BY <1>1 DEF TableInv, OneActive, Ages
<1>3. \A i \in Ids : i > n => u[i] = None
  BY DEF TableInv
<1> QED
  BY <1>1, <1>2, <1>3 DEF TableInv

\* A row whose outcome changes.
Lapsed(x, c) == [x EXCEPT !.state = "expired", !.releasedAt = c]

LEMMA ExpiredRow ==
  ASSUME NEW x, IsRow(x), NEW c
  PROVE  Ages(x, Lapsed(x, c)) /\ Lapsed(x, c).state = "expired"
<1> DEFINE y == [x EXCEPT !.state = "expired", !.releasedAt = c]
<1>1. /\ y.pool = x.pool /\ y.who = x.who /\ y.key = x.key /\ y.amount = x.amount
      /\ y.state = "expired" /\ y.settled = x.settled /\ y.usage = x.usage /\ y.kind = x.kind
      /\ y.lane = x.lane /\ y.source = x.source /\ y.expiresAt = x.expiresAt
      /\ y.settledAt = x.settledAt /\ y.releasedAt = c /\ y.mark = x.mark
      /\ y \in RowsWith(x.key, x.settled, x.usage, x.lane, x.source, x.expiresAt,
                    x.settledAt, c, x.mark)
  BY DEF IsRow, RowsWith, RowStates
<1> HIDE DEF y
<1>2. Ages(x, y)
  BY <1>1 DEF IsRow, RowsWith, Ages
<1> QED
  BY <1>1, <1>2 DEF y, Lapsed

LEMMA ReleasedRow ==
  ASSUME NEW x, IsRow(x), NEW c
  PROVE  /\ Ages(x, Released(x, c)) /\ Released(x, c).state = "released"
<1> DEFINE y == [x EXCEPT !.state = "released", !.releasedAt = c]
<1>1. /\ y.pool = x.pool /\ y.who = x.who /\ y.key = x.key /\ y.amount = x.amount
      /\ y.state = "released" /\ y.settled = x.settled /\ y.usage = x.usage /\ y.kind = x.kind
      /\ y.lane = x.lane /\ y.source = x.source /\ y.expiresAt = x.expiresAt
      /\ y.settledAt = x.settledAt /\ y.releasedAt = c /\ y.mark = x.mark
      /\ y \in RowsWith(x.key, x.settled, x.usage, x.lane, x.source, x.expiresAt,
                    x.settledAt, c, x.mark)
  BY DEF IsRow, RowsWith, RowStates
<1> HIDE DEF y
<1>2. Ages(x, y)
  BY <1>1 DEF IsRow, RowsWith, Ages
<1> QED
  BY <1>1, <1>2 DEF y, Released

Renewed(x, e) == [x EXCEPT !.expiresAt = e]

LEMMA RenewedRow ==
  ASSUME NEW x, IsRow(x), x.state = "active", NEW e \in Nat
  PROVE  LET y == Renewed(x, e) IN
         Ages(x, y) /\ y \in Row /\ y.state = "active" /\ y.amount = x.amount
<1> DEFINE y == [x EXCEPT !.expiresAt = e]
<1>1. /\ y.pool = x.pool /\ y.who = x.who /\ y.key = x.key /\ y.amount = x.amount
      /\ y.state = x.state /\ y.settled = x.settled /\ y.usage = x.usage /\ y.kind = x.kind
      /\ y.lane = x.lane /\ y.source = x.source /\ y.expiresAt = e
      /\ y.settledAt = x.settledAt /\ y.releasedAt = x.releasedAt /\ y.mark = x.mark
      /\ y \in Row
  BY DEF IsRow, RowsWith, Row
<1>2. y \in RowsWith(x.key, x.settled, x.usage, x.lane, x.source, e,
                    x.settledAt, x.releasedAt, x.mark)
  BY DEF IsRow, RowsWith
<1> HIDE DEF y
<1>3. Ages(x, y)
  BY <1>1, <1>2 DEF IsRow, RowsWith, Ages
<1> QED
  BY <1>1, <1>3 DEF y, Renewed

\* A settlement of a hold of the main lane.
LEMMA SettledHoldRow ==
  ASSUME NEW x, IsRow(x), x.kind = "hold", x.lane = "main", NEW v \in Nat, NEW u, NEW c, NEW w
  PROVE  LET y == Settled(x, v, u, c, "main", "turn_hold", w) IN
         Ages(x, y) /\ y.state = "settled"
<1> DEFINE y == [x EXCEPT !.state = "settled", !.settled = v, !.usage = u, !.settledAt = c,
                          !.lane = "main", !.source = "turn_hold", !.mark = w]
<1>0. Settled(x, v, u, c, "main", "turn_hold", w) = y
  BY DEF Settled, IsRow
<1>1. /\ y.pool = x.pool /\ y.who = x.who /\ y.key = x.key /\ y.amount = x.amount
      /\ y.state = "settled" /\ y.settled = v /\ y.usage = u /\ y.kind = x.kind
      /\ y.lane = x.lane /\ y.source = x.source /\ y.expiresAt = x.expiresAt
      /\ y.settledAt = c /\ y.releasedAt = x.releasedAt /\ y.mark = w
      /\ y \in RowsWith(x.key, v, u, x.lane, x.source, x.expiresAt,
                    c, x.releasedAt, w)
  BY DEF IsRow, RowsWith, RowStates
<1> HIDE DEF y
<1>2. Ages(x, y)
  BY <1>1 DEF IsRow, RowsWith, Ages
<1> QED
  BY <1>0, <1>1, <1>2

\* The sweep expires holds; none of them is a gateway's.
LEMMA SweptRowAges ==
  ASSUME NEW x, x # None, IsRow(x), NEW c
  PROVE  LET y == SweptRow(x, c) IN
         /\ Ages(x, y)
         /\ x.state # "active" => y = x
         /\ y = x \/ y.state = "expired"
         /\ y.state = "active" => y.expiresAt > c
<1>1. ~IsGatewayHold(x) /\ Ages(x, x)
  BY DEF IsRow, RowsWith, IsGatewayHold, Ages
<1>2. Ages(x, Lapsed(x, c)) /\ Lapsed(x, c).state = "expired"
  BY ExpiredRow
<1>3. CASE x = None \/ x.state # "active" \/ x.expiresAt > c
  <2>1. SweptRow(x, c) = x
    BY <1>3 DEF SweptRow
  <2> QED
    BY <1>1, <1>3, <2>1
<1>4. CASE ~(x = None \/ x.state # "active" \/ x.expiresAt > c)
  <2>1. SweptRow(x, c) = Lapsed(x, c)
    BY <1>1, <1>4 DEF SweptRow, Lapsed
  <2> QED
    BY <1>2, <1>4, <2>1
<1> QED
  BY <1>3, <1>4

LEMMA SweptAges ==
  ASSUME NEW t, NEW n \in Nat, TableInv(t, n), NEW c \in Nat
  PROVE  LET u == Swept(t, c) IN
         /\ TableInv(u, n)
         /\ \A i \in Ids : t[i] = None => u[i] = None
         /\ \A i \in Ids : t[i] # None =>
              /\ Ages(t[i], u[i])
              /\ t[i].state # "active" => u[i] = t[i]
              /\ u[i] = t[i] \/ u[i].state = "expired"
              /\ u[i].state = "active" => u[i].expiresAt > c
<1> DEFINE u == Swept(t, c)
<1>0. IsTable(u)
  BY DEF Swept, IsTable
<1>1. \A i \in Ids : u[i] = SweptRow(t[i], c)
  BY DEF Swept
<1> HIDE DEF u
<1>2. \A i \in Ids : t[i] = None => u[i] = None
  <2>1. SweptRow(None, c) = None
    BY DEF SweptRow
  <2> QED
    BY <1>1, <2>1
<1>3. \A i \in Ids : t[i] # None => IsRow(t[i])
  BY DEF TableInv
<1>4. ASSUME NEW i \in Ids, t[i] # None
      PROVE  /\ Ages(t[i], u[i])
             /\ t[i].state # "active" => u[i] = t[i]
             /\ u[i] = t[i] \/ u[i].state = "expired"
             /\ u[i].state = "active" => u[i].expiresAt > c
  BY <1>1, <1>3, <1>4, SweptRowAges
<1>5. TableInv(u, n)
  BY <1>0, <1>2, <1>4, AgedTable
<1> QED
  BY <1>2, <1>4, <1>5 DEF u

\* A new hold.
LEMMA NewHoldRow ==
  ASSUME NEW p \in Periods, NEW s \in Sessions, NEW k \in Key, NEW a \in 0..I64Max,
         NEW e \in Nat, NEW l \in Agents \cup {"main"}
  PROVE  LET y == HoldRow(p, Who(s), k, a, e, l, "turn_hold") IN
         /\ IsRow(y) /\ y \in Row /\ y # None
         /\ y.pool = p /\ y.who = Who(s) /\ y.lane = l /\ y.kind = "hold"
         /\ y.state = "active" /\ y.amount = a
<1> DEFINE y == HoldRow(p, Who(s), k, a, e, l, "turn_hold")
<1>0. I64Max \in Nat /\ None \notin Row
  BY ConstantFacts
<1>1. y \in Row
  BY <1>0 DEF HoldRow, Row, RowStates, Opt
<1>2. /\ y.pool = p /\ y.who = Who(s) /\ y.key = k /\ y.amount = a /\ y.state = "active"
      /\ y.kind = "hold" /\ y.lane = l /\ y.source = "turn_hold"
      /\ y.settled = None /\ y.usage = None /\ y.expiresAt = e /\ y.settledAt = None
      /\ y.releasedAt = None /\ y.mark = None
  BY DEF HoldRow
<1>3. y \in RowsWith(k, None, None, l, "turn_hold", e, None, None, None)
  BY <1>0 DEF HoldRow, RowsWith, RowStates
<1> HIDE DEF y
<1> QED
  BY <1>0, <1>1, <1>2, <1>3 DEF IsRow, y

\* A new charge.
LEMMA NewChargeRow ==
  ASSUME NEW p \in Periods, NEW s \in Sessions, NEW k, NEW a \in Nat, NEW u, NEW c, NEW l,
         NEW src, NEW w
  PROVE  LET y == ChargeRow(p, Who(s), k, a, u, c, l, src, w) IN
         /\ IsRow(y) /\ y.pool = p /\ y.key = k /\ y.kind = "charge" /\ y.state = "settled"
<1> DEFINE y == ChargeRow(p, Who(s), k, a, u, c, l, src, w)
<1>2. /\ y.pool = p /\ y.who = Who(s) /\ y.key = k /\ y.amount = a /\ y.state = "settled"
      /\ y.kind = "charge" /\ y.lane = l /\ y.source = src
      /\ y.settled = a /\ y.usage = u /\ y.expiresAt = c /\ y.settledAt = c
      /\ y.releasedAt = None /\ y.mark = w
  BY DEF ChargeRow
<1>3. y \in RowsWith(k, a, u, l, src, c, c, None, w)
  BY DEF ChargeRow, RowsWith, RowStates
<1> HIDE DEF y
<1> QED
  BY <1>2, <1>3 DEF IsRow, y

\* A row inserted behind the others; if it is an active hold, it is the first of
\* its lane in its month.
LEMMA InsertedTable ==
  ASSUME NEW t, NEW n \in Nat, TableInv(t, n), n + 1 \in Ids, NEW x,
         x # None => IsRow(x),
         x # None /\ x.kind = "hold" /\ x.state = "active" =>
           \A i \in Ids : ~ (/\ t[i] # None /\ t[i].kind = "hold" /\ t[i].state = "active"
                             /\ t[i].pool = x.pool /\ t[i].who = x.who /\ t[i].lane = x.lane)
  PROVE  TableInv([t EXCEPT ![n + 1] = x], n + 1)
<1> DEFINE u == [t EXCEPT ![n + 1] = x]
<1>0. IsTable(u)
  BY DEF TableInv, IsTable
<1>1. u[n + 1] = x /\ \A i \in Ids : i # n + 1 => u[i] = t[i]
  BY DEF TableInv, IsTable
<1> HIDE DEF u
<1>2. \A i \in Ids : u[i] # None => IsRow(u[i])
  BY <1>1 DEF TableInv
<1>3. \A i \in Ids : i > n + 1 => u[i] = None
  <2>1. Ids \subseteq Nat
    BY ConstantFacts
  <2> QED
    BY <1>1, <2>1 DEF TableInv
<1>4. OneActive(u)
  BY <1>1 DEF TableInv, OneActive
<1> QED
  BY <1>0, <1>2, <1>3, <1>4 DEF TableInv, u

-----------------------------------------------------------------------------
(* Newest, least and finite *)

\* The newest row of a set, by time and then by number.
LEMMA NewestIs ==
  ASSUME created \in [Ids -> 0..MaxTime], NEW S \in SUBSET Ids, S # {}
  PROVE  NewestOf(S) \in S /\ \A j \in S \ {NewestOf(S)} : Newer(NewestOf(S), j)
<1> DEFINE C == {created[i] : i \in S}
<1>0. MaxTime \in Nat /\ MaxRows \in Nat /\ Ids = 1..MaxRows
  BY ConstantFacts
<1>1. C \in SUBSET (0..MaxTime) /\ C # {}
  OBVIOUS
<1>2. PICK c \in C : \A d \in C : d <= c
  <2> HIDE DEF C
  <2> QED
    BY <1>0, <1>1, Greatest
<1> DEFINE L == {i \in S : created[i] = c}
<1>3. L \in SUBSET (0..MaxRows) /\ L # {}
  <2>1. PICK i \in S : created[i] = c
    BY <1>2
  <2>2. S \subseteq 0..MaxRows
    BY <1>0
  <2> QED
    BY <2>1, <2>2
<1>4. PICK m \in L : \A k \in L : k <= m
  <2> HIDE DEF L
  <2> QED
    BY <1>0, <1>3, Greatest
<1>5. m \in S /\ \A j \in S \ {m} : Newer(m, j)
  <2> SUFFICES ASSUME NEW j \in S, j # m PROVE Newer(m, j)
    OBVIOUS
  <2>1. created[j] \in Int /\ created[j] <= c /\ created[m] = c /\ c \in Int
    BY <1>1, <1>2
  <2>2. CASE created[j] = c
    <3>1. j <= m /\ j \in Int /\ m \in Int
      BY <1>0, <1>4, <2>2
    <3> QED
      BY <2>1, <2>2, <3>1 DEF Newer
  <2>3. CASE created[j] # c
    BY <2>1, <2>3 DEF Newer
  <2> QED
    BY <2>2, <2>3
<1> HIDE DEF L, C
<1> QED
  BY <1>5, Zenon DEF NewestOf

\* The oldest month of a set.
LEMMA MinimumIs ==
  ASSUME NEW S \in SUBSET Periods, S # {}
  PROVE  MinimumOf(S) \in S
<1> DEFINE n == Period(MaxTime)
           R == {n - x : x \in S}
<1>1. n \in Nat
  BY ConstantFacts DEF Period
<1>2. \A x \in S : x \in Int /\ 0 <= x /\ x <= n
  BY <1>1 DEF Periods
<1> HIDE DEF n
<1>3. R \in SUBSET (0..n) /\ R # {}
  BY <1>1, <1>2
<1>4. PICK r \in R : \A q \in R : q <= r
  <2> HIDE DEF R
  <2> QED
    BY <1>1, <1>3, Greatest
<1>5. PICK x \in S : r = n - x
  OBVIOUS
<1>6. \A y \in S : n - y <= n - x
  BY <1>4, <1>5
<1>7. \A y \in S : x <= y
  BY <1>1, <1>2, <1>6
<1> HIDE DEF R
<1> QED
  BY <1>7, Zenon DEF MinimumOf

\* An earlier time is in no later month.
LEMMA PeriodMonotone ==
  ASSUME NEW a \in Nat, NEW b \in Nat, a <= b
  PROVE  Period(a) \in Nat /\ Period(b) \in Nat /\ Period(a) <= Period(b)
  BY ConstantFacts DEF Period

\* What a line of a transcript holds.
Line == [msg: Nat, ts: Nat, owner: Sessions \cup Aliens]

\* What a finite set is mapped onto is finite.
LEMMA ImageFinite ==
  ASSUME NEW S, IsFiniteSet(S), NEW f, NEW T, \A y \in T : \E x \in S : y = f[x]
  PROVE  IsFiniteSet(T) /\ Cardinality(T) \in Nat
<1> DEFINE R == {x \in S : f[x] \in T}
           g == [x \in R |-> f[x]]
<1>1. IsFiniteSet(R)
  BY FS_Subset
<1>2. g \in Surjection(R, T)
  BY DEF Surjection
<1> HIDE DEF R, g
<1> QED
  BY <1>1, <1>2, FS_Surjection, FS_CardinalityType

\* A scan reads the last lines of the file, from some point on.
LEMMA ScanIs ==
  ASSUME file \in [Sessions -> Seq(Line)], NEW s \in Sessions, NEW after
  PROVE  \E first \in Nat :
           Scanned(s, after) = {file[s][j] : j \in (first + 1)..Len(file[s])}
<1> DEFINE stops == {j \in 1..Len(file[s]) : file[s][j].ts < after - Slack}
           first == IF stops = {} THEN 0 ELSE MaxOf(stops)
<1>1. Len(file[s]) \in Nat
  OBVIOUS
<1>2. stops \in SUBSET (0..Len(file[s]))
  BY <1>1
<1>3. Scanned(s, after) = {file[s][j] : j \in (first + 1)..Len(file[s])}
  BY DEF Scanned
<1> HIDE DEF stops
<1>4. stops # {} => MaxOf(stops) \in stops
  <2> SUFFICES ASSUME stops # {} PROVE MaxOf(stops) \in stops
    OBVIOUS
  <2>1. \E m \in stops : \A k \in stops : k <= m
    BY <1>1, <1>2, Greatest
  <2> QED
    BY <2>1, Zenon DEF MaxOf
<1>5. \A x \in stops : x \in Nat
  BY <1>1, <1>2
<1>6. first \in Nat
  BY <1>4, <1>5
<1> QED
  BY <1>3, <1>6

\* The messages of a window are finitely many.
LEMMA CentsNat ==
  ASSUME file \in [Sessions -> Seq(Line)], NEW s \in Sessions, NEW readable \in BOOLEAN
  PROVE  Cents(LaneWindow(s, readable)) \in Nat
<1>1. CASE ~readable
  BY <1>1, FS_EmptySet DEF LaneWindow, Unavailable, Cents
<1>2. CASE readable
  <2> DEFINE after == LaneBound(s)
  <2>1. Len(file[s]) \in Nat
    OBVIOUS
  <2>2. PICK first \in Nat :
          Scanned(s, after) = {file[s][j] : j \in (first + 1)..Len(file[s])}
    BY ScanIs
  <2> DEFINE I == (first + 1)..Len(file[s])
  <2>3. IsFiniteSet(I)
    BY <2>1, FS_Interval
  <2> DEFINE f == [j \in I |-> file[s][j].msg]
             T == Observed(s, after, CountedIds(s)).msgs
  <2>4. \A y \in T : \E x \in I : y = f[x]
    <3>1. Scanned(s, after) = {file[s][j] : j \in I}
      BY <2>2
    <3>2. T \subseteq {l.msg : l \in Scanned(s, after)}
      BY DEF Observed
    <3> HIDE DEF T
    <3> QED
      BY <3>1, <3>2
  <2> HIDE DEF f, T
  <2>5. Cardinality(T) \in Nat
    BY <2>3, <2>4, ImageFinite
  <2> QED
    BY <1>2, <2>5 DEF T, LaneWindow, Cents
<1> QED
  BY <1>1, <1>2

-----------------------------------------------------------------------------
(* The inductive invariant *)

ChargeKey(s, k) == [tag |-> "charge", s |-> s, agent |-> None, a |-> 0, b |-> k]

SbTyped ==
  /\ now \in 0..MaxTime
  /\ cfg \in Configs
  /\ created \in [Ids -> 0..MaxTime]
  /\ issued \in 0..MaxRows
  /\ prompts \in [Sessions \X Prompts -> Opts(Ids)]
  /\ horizon \in Int
  /\ pruning \in SUBSET Periods
  /\ spent \in [Sessions -> Seq(Nat)]
  /\ file \in [Sessions -> Seq(Line)]
  /\ stoppedBy \in [Ids -> Opts(Prompts)]
  /\ booked \in [Sessions \X ChargeKeys -> Nat]

\* Only a settled row was stopped by a prompt, and it is not settled again.
StoppedIsSettled ==
  \A i \in Ids : stoppedBy[i] # None =>
    i <= issued /\ (rows[i] = None \/ rows[i].state = "settled")

\* The charge k of s is in the table, in the month of its event.
InTable(t, s, k) ==
  \E i \in Ids : /\ t[i] # None /\ t[i].key = ChargeKey(s, k)
                 /\ t[i].pool = Period(EventOf[k])
                 /\ t[i].kind = "charge" /\ t[i].state = "settled"

\* A charge with an event time that was booked still has its row, until
\* retention has passed its month.
BookedIsKnown ==
  \A s \in Sessions, k \in ChargeKeys : EventOf[k] # None =>
    /\ booked[<<s, k>>] <= 1
    /\ booked[<<s, k>>] = 1 => Period(EventOf[k]) <= horizon \/ InTable(rows, s, k)

SbIInv == SbTyped /\ TableInv(rows, issued) /\ StoppedIsSettled /\ BookedIsKnown

\* The four parts of TurnAccounting, of one step.
PromptsKept ==
  \A b \in Sessions \X Prompts : prompts[b] # None => prompts'[b] = prompts[b]
OwnTurnSettled ==
  \A i \in Ids : stoppedBy'[i] # stoppedBy[i] =>
    prompts[<<rows[i].who.session, stoppedBy'[i]>>] \in {None, i}
NewestSettled ==
  \A s \in Sessions : \A i \in LaneHolds(s) :
    /\ rows'[i] # None
    /\ rows[i].state # "settled" /\ rows'[i].state = "settled"
    => \A j \in LaneHolds(s) : ~Newer(j, i)
TurnFits ==
  \A b \in Sessions \X Prompts :
    LET i == prompts'[b] IN
    i # None /\ i # prompts[b] =>
      LET p == rows'[i].pool IN
      Sum(SettledPart(rows', p)) + Sum(ActivePart(rows', p)) - rows'[i].amount + cfg.hold
        <= cfg.cap

StepOK == PromptsKept /\ OwnTurnSettled /\ NewestSettled /\ TurnFits

LEMMA InitOK == Init => SbIInv
<1> SUFFICES ASSUME Init PROVE SbIInv
  OBVIOUS
<1>0. MaxTime \in Nat /\ MaxRows \in Nat
  BY ConstantFacts
<1>1. SbTyped
  BY <1>0 DEF Init, SbTyped, Opts
<1>2. TableInv(rows, issued)
  BY DEF Init, TableInv, IsTable, OneActive
<1>3. StoppedIsSettled /\ BookedIsKnown
  BY DEF Init, StoppedIsSettled, BookedIsKnown
<1> QED
  BY <1>1, <1>2, <1>3 DEF SbIInv

\* A step that leaves the ledger alone.
LEMMA QuietStep ==
  ASSUME SbIInv, UNCHANGED ledger, SbTyped'
  PROVE  SbIInv' /\ StepOK
<1>1. /\ rows' = rows /\ issued' = issued /\ prompts' = prompts /\ stoppedBy' = stoppedBy
      /\ horizon' = horizon /\ booked' = booked
  BY DEF ledger, history
<1>2. SbIInv'
  BY <1>1 DEF SbIInv, StoppedIsSettled, BookedIsKnown
<1>3. StepOK
  BY <1>1 DEF StepOK, PromptsKept, OwnTurnSettled, NewestSettled, TurnFits
<1> QED
  BY <1>2, <1>3

\* A step that keeps what was booked.
LEMMA BookedKept ==
  ASSUME SbIInv, horizon' = horizon, booked' = booked,
         \A i \in Ids : rows[i] # None /\ rows[i].kind = "charge" /\ rows[i].state = "settled"
                          => rows'[i] = rows[i]
  PROVE  BookedIsKnown'
<1>1. \A s \in Sessions, k \in ChargeKeys : InTable(rows, s, k) => InTable(rows', s, k)
  BY DEF InTable
<1> QED
  BY <1>1 DEF SbIInv, BookedIsKnown

\* A step in which rows lapse or are renewed and nothing else happens.
LEMMA AgeStep ==
  ASSUME SbIInv, SbTyped', TableInv(rows', issued),
         issued' = issued, prompts' = prompts, stoppedBy' = stoppedBy, BookedIsKnown',
         \A i \in Ids : rows'[i] # None => rows[i] # None
                          /\ (rows'[i].state = "settled" <=> rows[i].state = "settled")
  PROVE  SbIInv' /\ StepOK
<1>1. StoppedIsSettled'
  BY DEF SbIInv, StoppedIsSettled
<1>2. SbIInv'
  BY <1>1 DEF SbIInv
<1>3. PromptsKept /\ OwnTurnSettled /\ TurnFits
  BY DEF PromptsKept, OwnTurnSettled, TurnFits
<1>4. NewestSettled
  BY DEF NewestSettled, LaneHolds
<1> QED
  BY <1>2, <1>3, <1>4 DEF StepOK

-----------------------------------------------------------------------------
(* The steps of the host, of the clock and of the CLI's list of months *)

LEMMA ClockOK ==
  ASSUME SbIInv, NEW d, ClockStep(d)
  PROVE  SbIInv' /\ StepOK
<1>1. SbTyped'
  BY DEF SbIInv, SbTyped, ClockStep, ledger, host, history
<1> QED
  BY <1>1, QuietStep DEF ClockStep

LEMMA EditOK ==
  ASSUME SbIInv, NEW c \in Configs, EditFile(c)
  PROVE  SbIInv' /\ StepOK
<1>1. SbTyped'
  BY DEF SbIInv, SbTyped, EditFile, ledger, host, history
<1> QED
  BY <1>1, QuietStep DEF EditFile

LEMMA RespondOK ==
  ASSUME SbIInv, NEW s \in Sessions, Respond(s)
  PROVE  SbIInv' /\ StepOK
<1>1. now + 1 \in 0..MaxTime /\ now + 1 \in Nat
  BY ConstantFacts DEF SbIInv, SbTyped, Respond
<1>2. spent' \in [Sessions -> Seq(Nat)]
  BY <1>1 DEF SbIInv, SbTyped, Respond
<1>3. SbTyped'
  BY <1>1, <1>2 DEF SbIInv, SbTyped, Respond, ledger, history
<1> QED
  BY <1>3, QuietStep DEF Respond

LEMMA AppendOK ==
  ASSUME SbIInv, NEW s \in Sessions, NEW l \in Line, AppendLine(s, l)
  PROVE  SbIInv' /\ StepOK
<1>1. file' \in [Sessions -> Seq(Line)]
  BY DEF SbIInv, SbTyped, AppendLine
<1>2. SbTyped'
  BY <1>1 DEF SbIInv, SbTyped, AppendLine, ledger, history
<1> QED
  BY <1>2, QuietStep DEF AppendLine

LEMMA FlushOK ==
  ASSUME SbIInv, NEW s \in Sessions, Flush(s)
  PROVE  SbIInv' /\ StepOK
<1>1. PICK m \in 1..Len(spent[s]) :
        AppendLine(s, [msg |-> m, ts |-> spent[s][m], owner |-> s])
  BY DEF Flush
<1>2. spent[s] \in Seq(Nat)
  BY DEF SbIInv, SbTyped
<1>3. [msg |-> m, ts |-> spent[s][m], owner |-> s] \in Line
  BY <1>2 DEF Line
<1> QED
  BY <1>1, <1>3, AppendOK

LEMMA FlushBlockOK ==
  ASSUME SbIInv, NEW s \in Sessions, FlushBlock(s)
  PROVE  SbIInv' /\ StepOK
<1>1. PICK m \in Written(s) : AppendLine(s, [msg |-> m, ts |-> now, owner |-> s])
  BY DEF FlushBlock
<1>2. m \in Nat
  <2>1. file[s] \in Seq(Line)
    BY DEF SbIInv, SbTyped
  <2>2. PICK j \in 1..Len(file[s]) : m = file[s][j].msg
    BY <1>1 DEF Written
  <2>3. file[s][j] \in Line
    BY <2>1
  <2> QED
    BY <2>2, <2>3 DEF Line
<1>3. [msg |-> m, ts |-> now, owner |-> s] \in Line
  BY <1>2, ConstantFacts DEF Line, SbIInv, SbTyped
<1> QED
  BY <1>1, <1>3, AppendOK

LEMMA FlushAlienOK ==
  ASSUME SbIInv, NEW s \in Sessions, NEW o \in Aliens, FlushAlien(s, o)
  PROVE  SbIInv' /\ StepOK
<1>1. [msg |-> 0, ts |-> now, owner |-> o] \in Line
  BY ConstantFacts DEF Line, SbIInv, SbTyped
<1> QED
  BY <1>1, AppendOK DEF FlushAlien

LEMMA PruneListOK ==
  ASSUME SbIInv, PruneStart \/ PruneSkip \/ PruneCrash
  PROVE  SbIInv' /\ StepOK
<1>1. UNCHANGED <<now, cfg, ledger, host>> /\ pruning' \in SUBSET Periods
  BY DEF PruneStart, PruneSkip, PruneCrash, SbIInv, SbTyped
<1>2. SbTyped'
  BY <1>1 DEF SbIInv, SbTyped, ledger, host, history
<1> QED
  BY <1>1, <1>2, QuietStep

\* Retention: the month's rows go, and the horizon is not behind it.
LEMMA PruneOK ==
  ASSUME SbIInv, PruneOnePool
  PROVE  SbIInv' /\ StepOK
<1> DEFINE p == MinimumOf(pruning)
<1>1. p \in Periods /\ p \in Int
  <2>1. pruning # {} /\ pruning \in SUBSET Periods
    BY DEF PruneOnePool, SbIInv, SbTyped
  <2>2. p \in Periods
    BY <2>1, MinimumIs
  <2>3. Periods \subseteq Int
    BY ConstantFacts DEF Periods, Period
  <2> QED
    BY <2>2, <2>3
<1> HIDE DEF p
<1>2. /\ rows' = [i \in Ids |-> IF rows[i] # None /\ rows[i].pool = p THEN None ELSE rows[i]]
      /\ horizon' = IF p > horizon THEN p ELSE horizon
      /\ pruning' = pruning \ {p}
      /\ UNCHANGED <<now, cfg, created, issued, prompts, host, history>>
  BY DEF PruneOnePool, p
<1>3. IsTable(rows')
  BY <1>2 DEF IsTable
<1>4. \A i \in Ids : rows'[i] = IF rows[i] # None /\ rows[i].pool = p THEN None ELSE rows[i]
  BY <1>2
<1>5. TableInv(rows', issued)
  <2>1. issued \in Nat
    BY ConstantFacts DEF SbIInv, SbTyped
  <2> QED
    BY <1>3, <1>4, <2>1, AgedTable DEF SbIInv
<1>6. SbTyped'
  BY <1>1, <1>2 DEF SbIInv, SbTyped, host, history
<1>7. BookedIsKnown'
  <2> SUFFICES ASSUME NEW s \in Sessions, NEW k \in ChargeKeys, EventOf[k] # None
               PROVE  /\ booked'[<<s, k>>] <= 1
                      /\ booked'[<<s, k>>] = 1 =>
                           Period(EventOf[k]) <= horizon' \/ InTable(rows', s, k)
    BY DEF BookedIsKnown
  <2>1. booked' = booked
    BY <1>2 DEF history
  <2>2. EventOf[k] \in Nat /\ Period(EventOf[k]) \in Int
    BY BudgetAssumption, PeriodMonotone
  <2>3. horizon' \in Int /\ horizon' >= horizon /\ horizon' >= p
    BY <1>1, <1>2 DEF SbIInv, SbTyped
  <2>4. Period(EventOf[k]) <= horizon => Period(EventOf[k]) <= horizon'
    BY <2>2, <2>3 DEF SbIInv, SbTyped
  <2>5. InTable(rows, s, k) => Period(EventOf[k]) <= horizon' \/ InTable(rows', s, k)
    BY <1>4, <2>3 DEF InTable
  <2> QED
    BY <2>1, <2>4, <2>5 DEF SbIInv, BookedIsKnown
<1> QED
  BY <1>2, <1>4, <1>5, <1>6, <1>7, AgeStep DEF history

-----------------------------------------------------------------------------
(* Renewals and admissions *)

LEMMA HeartbeatOK ==
  ASSUME SbIInv, NEW s \in Sessions, Heartbeat(s)
  PROVE  SbIInv' /\ StepOK
<1> DEFINE live(i) == /\ rows[i] # None /\ rows[i].who.session = s
                      /\ rows[i].pool = Period(now) /\ rows[i].state = "active"
                      /\ rows[i].expiresAt > now
<1>0. now \in Nat /\ issued \in Nat /\ now + HoldTTL \in Nat
  BY ConstantFacts DEF SbIInv, SbTyped
<1>1. /\ rows' = [i \in Ids |-> IF live(i) THEN Renewed(rows[i], now + HoldTTL) ELSE rows[i]]
      /\ UNCHANGED <<pruning, now, cfg, pools, created, issued, prompts, horizon, host, history>>
  BY DEF Heartbeat, Renewed
<1>2. IsTable(rows')
  BY <1>1 DEF IsTable
<1>3. \A i \in Ids : rows'[i] = IF live(i) THEN Renewed(rows[i], now + HoldTTL) ELSE rows[i]
  BY <1>1
<1>4. \A i \in Ids : live(i) => /\ rows[i] # None /\ rows[i].state = "active"
                                /\ Ages(rows[i], Renewed(rows[i], now + HoldTTL))
                                /\ Renewed(rows[i], now + HoldTTL).state = "active"
  BY <1>0, RenewedRow DEF SbIInv, TableInv
<1> HIDE DEF live
<1>5. TableInv(rows', issued)
  BY <1>0, <1>2, <1>3, <1>4, AgedTable DEF SbIInv
<1>6. SbTyped'
  BY <1>1 DEF SbIInv, SbTyped, host, history
<1>7. BookedIsKnown'
  BY <1>1, <1>3, <1>4, BookedKept DEF history
<1> QED
  BY <1>1, <1>3, <1>4, <1>5, <1>6, <1>7, AgeStep DEF history

\* What the sweep of an admission leaves.
LEMMA AdmitSweep ==
  ASSUME SbIInv
  PROVE  LET table == Swept(rows, now) IN
         /\ now \in Nat /\ issued \in Nat /\ Period(now) \in Periods
         /\ TableInv(table, issued)
         /\ \A i \in Ids : table[i] # None => rows[i] # None
         /\ \A i \in Ids : rows[i] # None =>
              /\ Ages(rows[i], table[i])
              /\ rows[i].state # "active" => table[i] = rows[i]
              /\ table[i] = rows[i] \/ table[i].state = "expired"
              /\ table[i].state = "active" => table[i].expiresAt > now
<1>1. now \in Nat /\ issued \in Nat /\ MaxTime \in Nat /\ now <= MaxTime
  BY ConstantFacts DEF SbIInv, SbTyped
<1>2. Period(now) \in Periods
  BY <1>1, PeriodMonotone DEF Periods
<1> QED
  BY <1>1, <1>2, SweptAges DEF SbIInv

LEMMA RefusedOK ==
  ASSUME SbIInv, NEW s, NEW a, NEW m, AdmitRefused(s, a, m)
  PROVE  SbIInv' /\ StepOK
<1>1. /\ rows' = Swept(rows, now)
      /\ UNCHANGED <<pruning, now, cfg, created, issued, prompts, horizon, host, history>>
  BY DEF AdmitRefused
<1> DEFINE table == Swept(rows, now)
<1>2. /\ TableInv(table, issued)
      /\ \A i \in Ids : table[i] # None => rows[i] # None
      /\ \A i \in Ids : rows[i] # None =>
              /\ rows[i].state # "active" => table[i] = rows[i]
              /\ table[i] = rows[i] \/ table[i].state = "expired"
  BY AdmitSweep
<1> HIDE DEF table
<1>3. rows' = table
  BY <1>1 DEF table
<1>4. SbTyped'
  BY <1>1 DEF SbIInv, SbTyped, host, history
<1>5. BookedIsKnown'
  BY <1>1, <1>2, <1>3, BookedKept DEF history
<1> QED
  BY <1>1, <1>2, <1>3, <1>4, <1>5, AgeStep DEF history

\* The sums of a table are naturals.
LEMMA PartsNat ==
  ASSUME NEW t, NEW n, TableInv(t, n), NEW p
  PROVE  /\ \A i \in 1..MaxRows : SettledPart(t, p)[i] \in Nat /\ ActivePart(t, p)[i] \in Nat
         /\ Sum(SettledPart(t, p)) = SumOf(SettledPart(t, p), MaxRows)
         /\ Sum(ActivePart(t, p)) = SumOf(ActivePart(t, p), MaxRows)
         /\ Sum(SettledPart(t, p)) \in Nat /\ Sum(ActivePart(t, p)) \in Nat
<1> DEFINE f == SettledPart(t, p)
           g == ActivePart(t, p)
<1>0. MaxRows \in Nat /\ Ids = 1..MaxRows
  BY ConstantFacts
<1>1. \A i \in 1..MaxRows :
        /\ f[i] = IF t[i] # None /\ t[i].pool = p /\ t[i].state = "settled" THEN t[i].settled ELSE 0
        /\ g[i] = IF t[i] # None /\ t[i].pool = p /\ t[i].state = "active" THEN t[i].amount ELSE 0
  BY <1>0 DEF SettledPart, ActivePart
<1> HIDE DEF f, g
<1>2. \A i \in 1..MaxRows : t[i] # None =>
        t[i].amount \in Nat /\ (t[i].state = "settled" => t[i].settled \in Nat)
  BY <1>0 DEF TableInv, IsRow, RowsWith
<1>3. \A i \in 1..MaxRows : f[i] \in Nat /\ g[i] \in Nat
  BY <1>1, <1>2
<1>4. Sum(f) = SumOf(f, MaxRows) /\ Sum(g) = SumOf(g, MaxRows)
  BY DEF Sum, SumOf
<1>5. SumOf(f, MaxRows) \in Nat /\ SumOf(g, MaxRows) \in Nat
  BY <1>0, <1>3, SumNat
<1> QED
  BY <1>3, <1>4, <1>5 DEF f, g

\* A hold that fits what is left, an amount a of it not counted, fits the cap: the
\* saturated sums the code compares with are the exact ones whenever it says so.
LEMMA AdmissionFits ==
  ASSUME cfg \in Configs, NEW t, NEW n, TableInv(t, n), NEW p, NEW a \in 0..I64Max,
         cfg.hold <= RemainingIn(t, p) + a
  PROVE  Sum(SettledPart(t, p)) + Sum(ActivePart(t, p)) - a + cfg.hold <= cfg.cap
<1> DEFINE S == Sum(SettledPart(t, p))
           A == Sum(ActivePart(t, p))
           u == MinOf(S, U64Max)
           v == MinOf(A, U64Max)
<1>1. /\ I64Max \in Nat /\ I64Max > 0 /\ cfg.cap \in Nat /\ cfg.cap <= I64Max
      /\ cfg.hold \in Nat
  BY ConstantFacts
<1>2. S \in Nat /\ A \in Nat
  BY PartsNat
<1>3. RemainingIn(t, p) = Clamp(cfg.cap - u - v - 0)
  BY DEF RemainingIn, Remaining, SaturatingSum
<1> HIDE DEF S, A
<1>4. U64Max = 2 * I64Max + 1 /\ I64Min = -I64Max - 1
  BY DEF U64Max, I64Min
<1>5. u \in Nat /\ v \in Nat /\ (u = S \/ u = 2 * I64Max + 1) /\ (v = A \/ v = 2 * I64Max + 1)
  BY <1>1, <1>2, <1>4 DEF MinOf
<1> HIDE DEF u, v
<1>6. cfg.hold <= Clamp(cfg.cap - u - v - 0) + a
  BY <1>3
<1>7. cfg.hold <= cfg.cap - u - v + a
  BY <1>1, <1>4, <1>5, <1>6 DEF Clamp, MinOf
<1>8. u = S /\ v = A
  BY <1>1, <1>5, <1>7
<1>9. S + A - a + cfg.hold <= cfg.cap
  BY <1>1, <1>2, <1>7, <1>8
<1> QED
  BY <1>9 DEF S, A

LaneOf(agent) == IF agent = None THEN "main" ELSE agent

\* The live hold of a lane is one of its active holds, and none means none.
LEMMA LiveHoldIs ==
  ASSUME created \in [Ids -> 0..MaxTime], NEW t, NEW p, NEW s, NEW agent
  PROVE  LET i == LiveHold(t, p, s, agent) IN
         /\ i # None => /\ i \in Ids /\ t[i] # None /\ t[i].who.session = s
                        /\ t[i].lane = LaneOf(agent) /\ t[i].pool = p /\ t[i].kind = "hold"
                        /\ t[i].state = "active"
         /\ i = None => \A j \in Ids : ~ (/\ t[j] # None /\ t[j].who.session = s
                                          /\ t[j].lane = LaneOf(agent) /\ t[j].pool = p
                                          /\ t[j].kind = "hold" /\ t[j].state = "active"
                                          /\ t[j].expiresAt > now)
<1> DEFINE S == {i \in Ids : /\ IsLaneRow(t[i], s, agent) /\ t[i].pool = p
                             /\ t[i].kind = "hold" /\ t[i].state = "active"
                             /\ t[i].expiresAt > now}
           live == NewestOf(S)
<1>0. live = LiveHold(t, p, s, agent)
  BY DEF LiveHold
<1>1. \A i \in Ids : IsLaneRow(t[i], s, agent) <=>
        (t[i] # None /\ t[i].who.session = s /\ t[i].lane = LaneOf(agent))
  BY DEF IsLaneRow, LaneOf
<1>2. S \in SUBSET Ids
  OBVIOUS
<1>3. None \notin Ids
  BY ConstantFacts
<1>4. S = {} => live = None
  <2> HIDE DEF S
  <2> QED
    BY DEF NewestOf
<1>5. S # {} => live \in S
  <2> HIDE DEF S
  <2> QED
    BY <1>2, NewestIs
<1> HIDE DEF live
<1> QED
  BY <1>0, <1>1, <1>3, <1>4, <1>5

\* Where rows are inserted, lapse or are renewed, no Stop happens.
LEMMA NoStop ==
  ASSUME SbIInv, stoppedBy' = stoppedBy, issued' \in Int, issued <= issued',
         \A i \in Ids : /\ rows[i] # None /\ rows[i].state = "settled" => rows'[i] = rows[i]
                        /\ rows[i] # None /\ rows'[i] # None /\ rows'[i].state = "settled"
                             => rows[i].state = "settled"
                        /\ rows[i] = None => rows'[i] = None \/ i > issued
  PROVE  StoppedIsSettled' /\ OwnTurnSettled /\ NewestSettled
<1>1. OwnTurnSettled
  BY DEF OwnTurnSettled
<1>2. NewestSettled
  BY DEF NewestSettled, LaneHolds, IsLaneRow
<1>3. StoppedIsSettled'
  <2> SUFFICES ASSUME NEW i \in Ids, stoppedBy[i] # None
               PROVE  i <= issued' /\ (rows'[i] = None \/ rows'[i].state = "settled")
    BY DEF StoppedIsSettled
  <2>1. i <= issued /\ (rows[i] = None \/ rows[i].state = "settled")
    BY DEF SbIInv, StoppedIsSettled
  <2>2. issued \in Int /\ i \in Int
    BY ConstantFacts DEF SbIInv, SbTyped
  <2> QED
    BY <2>1, <2>2
<1> QED
  BY <1>1, <1>2, <1>3

\* The step binds no other prompt than m, and m to i.
OnlyBinds(s, agent, m, i) ==
  \A b \in Sessions \X Prompts : prompts'[b] # prompts[b] =>
    agent = None /\ m # None /\ prompts'[b] = i /\ AcceptedBy(s, agent, m) # i

\* Binding a prompt no other hold accepted.
LEMMA BoundFacts ==
  ASSUME SbIInv, NEW s \in Sessions, NEW agent \in Opts(Agents), NEW m \in Opts(Prompts),
         NEW i \in Ids, AcceptedBy(s, agent, m) = None \/ AcceptedBy(s, agent, m) = i,
         prompts' = Bound(s, agent, m, i)
  PROVE  /\ prompts' \in [Sessions \X Prompts -> Opts(Ids)]
         /\ PromptsKept
         /\ OnlyBinds(s, agent, m, i)
<1>1. CASE agent = None /\ m # None
  <2>1. <<s, m>> \in Sessions \X Prompts
    BY <1>1 DEF Opts
  <2>2. prompts' = [prompts EXCEPT ![<<s, m>>] = i] /\ prompts[<<s, m>>] \in {None, i}
    BY <1>1 DEF Bound, AcceptedBy
  <2> QED
    BY <1>1, <2>1, <2>2 DEF SbIInv, SbTyped, Opts, PromptsKept, OnlyBinds, AcceptedBy
<1>2. CASE ~(agent = None /\ m # None)
  BY <1>2 DEF Bound, SbIInv, SbTyped, PromptsKept, OnlyBinds
<1> QED
  BY <1>1, <1>2

LEMMA RenewedOK ==
  ASSUME SbIInv, NEW s \in Sessions, NEW agent \in Opts(Agents), NEW m \in Opts(Prompts),
         AdmitRenewed(s, agent, m)
  PROVE  SbIInv' /\ StepOK
<1> DEFINE p == Period(now)
           table == Swept(rows, now)
           live == LiveHold(table, p, s, agent)
           e == now + HoldTTL
<1>0. e \in Nat /\ cfg \in Configs /\ issued \in Nat /\ created \in [Ids -> 0..MaxTime]
  BY ConstantFacts DEF SbIInv, SbTyped
<1>1. /\ live # None /\ ~IsReplay(s, agent, m, live) /\ RenewalFits(table, p, s, agent, m, live)
      /\ rows' = [table EXCEPT ![live] = Renewed(table[live], e)]
      /\ prompts' = Bound(s, agent, m, live)
      /\ UNCHANGED <<pruning, now, cfg, created, issued, horizon, host, history>>
  BY DEF AdmitRenewed, Renewed
<1>2. /\ TableInv(table, issued)
      /\ \A i \in Ids : table[i] # None => rows[i] # None
      /\ \A i \in Ids : rows[i] # None =>
              /\ Ages(rows[i], table[i])
              /\ rows[i].state # "active" => table[i] = rows[i]
              /\ table[i] = rows[i] \/ table[i].state = "expired"
  BY AdmitSweep
<1>3. /\ live \in Ids /\ table[live] # None /\ table[live].pool = p
      /\ table[live].kind = "hold" /\ table[live].state = "active"
  BY <1>0, <1>1, LiveHoldIs
<1> HIDE DEF table, live, e
<1> DEFINE y == Renewed(table[live], e)
<1>4. /\ Ages(table[live], y) /\ y \in Row /\ y # None /\ y.state = "active"
      /\ y.amount = table[live].amount /\ y.pool = p
  <2>1. IsRow(table[live])
    BY <1>2, <1>3 DEF TableInv
  <2>2. Ages(table[live], y) /\ y \in Row /\ y.state = "active" /\ y.amount = table[live].amount
    BY <1>0, <1>3, <2>1, RenewedRow
  <2> QED
    BY <1>3, <2>2, ConstantFacts DEF Ages
<1> HIDE DEF y
<1>5. /\ rows' = [table EXCEPT ![live] = y]
      /\ rows'[live] = y /\ \A i \in Ids : i # live => rows'[i] = table[i]
  BY <1>1, <1>2, <1>3 DEF y, TableInv, IsTable
<1>6. TableInv(rows', issued)
  <2>1. IsTable(rows')
    BY <1>2, <1>5 DEF TableInv, IsTable
  <2>2. \A i \in Ids : rows'[i] = table[i] \/ (table[i] # None /\ Ages(table[i], rows'[i]))
    BY <1>3, <1>4, <1>5
  <2> QED
    BY <1>0, <1>2, <2>1, <2>2, AgedTable
<1>7. StoppedIsSettled' /\ OwnTurnSettled /\ NewestSettled
  <2>1. rows[live] # None /\ rows[live].state = "active"
    BY <1>2, <1>3 DEF Ages
  <2>2. \A i \in Ids : rows[i] # None /\ rows[i].state = "settled" => rows'[i] = rows[i]
    BY <1>2, <1>5, <2>1
  <2>3. \A i \in Ids : rows[i] # None /\ rows'[i] # None /\ rows'[i].state = "settled"
                         => rows[i].state = "settled"
    BY <1>2, <1>4, <1>5
  <2>4. \A i \in Ids : rows[i] = None => rows'[i] = None
    BY <1>2, <1>5, <2>1
  <2>5. stoppedBy' = stoppedBy /\ issued' \in Int /\ issued <= issued'
    BY <1>0, <1>1 DEF history
  <2> QED
    BY <2>2, <2>3, <2>4, <2>5, NoStop
<1>8. BookedIsKnown'
  <2>1. rows[live].state = "active"
    BY <1>2, <1>3 DEF Ages
  <2>2. horizon' = horizon /\ booked' = booked
    BY <1>1 DEF history
  <2>3. \A i \in Ids : rows[i] # None /\ rows[i].kind = "charge" /\ rows[i].state = "settled"
                          => rows'[i] = rows[i]
    BY <1>2, <1>5, <2>1
  <2> QED
    BY <2>2, <2>3, BookedKept
<1>9. /\ prompts' \in [Sessions \X Prompts -> Opts(Ids)] /\ PromptsKept
      /\ OnlyBinds(s, agent, m, live)
  <2>1. AcceptedBy(s, agent, m) = None \/ AcceptedBy(s, agent, m) = live
    BY <1>1 DEF IsReplay
  <2>2. prompts' = Bound(s, agent, m, live)
    BY <1>1
  <2> QED
    BY <1>3, <2>1, <2>2, BoundFacts
<1>10. TurnFits
  <2> SUFFICES ASSUME NEW b \in Sessions \X Prompts, prompts'[b] # prompts[b]
               PROVE  LET q == rows'[prompts'[b]].pool IN
                      Sum(SettledPart(rows', q)) + Sum(ActivePart(rows', q))
                        - rows'[prompts'[b]].amount + cfg.hold <= cfg.cap
    BY DEF TurnFits
  <2>1. prompts'[b] = live /\ rows'[live].pool = p /\ rows'[live].amount = table[live].amount
    BY <1>4, <1>5, <1>9 DEF OnlyBinds
  <2>2. RemainingIn(table, p) + table[live].amount >= cfg.hold
    BY <1>1, <1>9 DEF RenewalFits, OnlyBinds
  <2>3. SettledPart(rows', p) = SettledPart(table, p) /\ ActivePart(rows', p) = ActivePart(table, p)
    BY <1>3, <1>4, <1>5 DEF SettledPart, ActivePart
  <2>4. table[live].amount \in 0..I64Max
    BY <1>2, <1>3 DEF TableInv, IsRow, Row
  <2>5. RemainingIn(table, p) \in Int
    <3>1. Sum(SettledPart(table, p)) \in Nat /\ Sum(ActivePart(table, p)) \in Nat
      BY <1>2, PartsNat
    <3>2. U64Max \in Nat /\ I64Min \in Int /\ cfg.cap \in Nat /\ I64Max \in Nat
      BY <1>0, ConstantFacts DEF U64Max, I64Min
    <3> QED
      BY <3>1, <3>2 DEF RemainingIn, Remaining, SaturatingSum, MinOf, Clamp
  <2>6. cfg.hold <= RemainingIn(table, p) + table[live].amount
    BY <1>0, <2>2, <2>4, <2>5, ConstantFacts
  <2>7. Sum(SettledPart(table, p)) + Sum(ActivePart(table, p)) - table[live].amount + cfg.hold
          <= cfg.cap
    BY <1>0, <1>2, <2>4, <2>6, AdmissionFits
  <2> QED
    BY <2>1, <2>3, <2>7
<1>11. SbTyped'
  BY <1>1, <1>9 DEF SbIInv, SbTyped, host, history
<1> QED
  BY <1>1, <1>6, <1>7, <1>8, <1>9, <1>10, <1>11 DEF SbIInv, StepOK

\* An active row inserted where there was none adds its amount to the sums.
LEMMA InsertedSums ==
  ASSUME NEW t, NEW n \in Nat, TableInv(t, n), n + 1 \in Ids, NEW x, x # None,
         x.state = "active", TableInv([t EXCEPT ![n + 1] = x], n + 1), NEW p, x.pool = p
  PROVE  LET u == [t EXCEPT ![n + 1] = x] IN
         Sum(SettledPart(u, p)) + Sum(ActivePart(u, p))
           <= Sum(SettledPart(t, p)) + Sum(ActivePart(t, p)) + x.amount
<1> DEFINE u == [t EXCEPT ![n + 1] = x]
           f == SettledPart(t, p)
           g == ActivePart(t, p)
           h == SettledPart(u, p)
           k == ActivePart(u, p)
<1>0. MaxRows \in Nat /\ Ids = 1..MaxRows
  BY ConstantFacts
<1>1. u[n + 1] = x /\ \A i \in Ids : i # n + 1 => u[i] = t[i]
  BY DEF TableInv, IsTable
<1>2. t[n + 1] = None
  BY <1>0 DEF TableInv
<1>3. x.amount \in Nat
  BY <1>1 DEF TableInv, IsRow, RowsWith
<1>4. /\ \A i \in 1..MaxRows : f[i] \in Nat /\ g[i] \in Nat
      /\ Sum(f) = SumOf(f, MaxRows) /\ Sum(g) = SumOf(g, MaxRows)
      /\ Sum(f) \in Nat /\ Sum(g) \in Nat
  BY PartsNat
<1>5. /\ \A i \in 1..MaxRows : h[i] \in Nat /\ k[i] \in Nat
      /\ Sum(h) = SumOf(h, MaxRows) /\ Sum(k) = SumOf(k, MaxRows)
      /\ Sum(h) \in Nat /\ Sum(k) \in Nat
  BY PartsNat
<1> HIDE DEF u
<1>6. \A i \in 1..MaxRows : i # n + 1 => h[i] = f[i] /\ k[i] = g[i]
  BY <1>0, <1>1 DEF SettledPart, ActivePart
<1>7. h[n + 1] = 0 /\ k[n + 1] = x.amount
  BY <1>0, <1>1 DEF SettledPart, ActivePart
<1> HIDE DEF f, g, h, k
<1>8. SumOf(h, MaxRows) <= SumOf(f, MaxRows)
  <2>1. \A i \in 1..MaxRows : h[i] \in Int /\ f[i] \in Int /\ h[i] <= f[i]
    BY <1>4, <1>5, <1>6, <1>7
  <2> QED
    BY <1>0, <2>1, SumMonotone
<1>9. SumOf(k, MaxRows) <= SumOf(g, MaxRows) + x.amount
  <2>1. n + 1 \in 1..MaxRows /\ x.amount \in Int /\ k[n + 1] <= g[n + 1] + x.amount
    BY <1>0, <1>3, <1>4, <1>7
  <2>2. \A i \in 1..MaxRows : g[i] \in Int /\ k[i] \in Int /\ (i # n + 1 => k[i] <= g[i])
    BY <1>4, <1>5, <1>6
  <2> QED
    BY <1>0, <2>1, <2>2, SumGrows
<1>10. Sum(h) + Sum(k) <= Sum(f) + Sum(g) + x.amount
  BY <1>3, <1>4, <1>5, <1>8, <1>9
<1> QED
  BY <1>10 DEF f, g, h, k, u

LEMMA GrantedOK ==
  ASSUME SbIInv, NEW s \in Sessions, NEW agent \in Opts(Agents), NEW m \in Opts(Prompts),
         NEW readFails \in BOOLEAN, AdmitGranted(s, agent, m, readFails)
  PROVE  SbIInv' /\ StepOK
<1> DEFINE p == Period(now)
           table == Swept(rows, now)
           live == LiveHold(table, p, s, agent)
           pkey == PromptKey(s, agent, m)
           key == IF m # None /\ KeyRows(table, p, "local-budget", pkey) = {}
                  THEN pkey ELSE NonceKey(s, agent)
           hold == HoldRow(p, Who(s), key, cfg.hold, now + HoldTTL, LaneOf(agent), "turn_hold")
           x == IF readFails THEN Released(hold, now) ELSE hold
           n == issued + 1
<1>0. /\ now + HoldTTL \in Nat /\ cfg \in Configs /\ issued \in Nat /\ now \in Nat
      /\ created \in [Ids -> 0..MaxTime] /\ cfg.hold \in 0..I64Max
      /\ cfg.hold \in Nat /\ cfg.cap \in Nat
  BY ConstantFacts DEF SbIInv, SbTyped
<1>1. /\ issued < MaxRows /\ ~IsReplay(s, agent, m, live) /\ live = None
      /\ Admits(LocalGate, table, p, EnsuredPool(p)[p], None, now, cfg.hold)
      /\ issued' = n
      /\ rows' = [table EXCEPT ![n] = x]
      /\ created' = [created EXCEPT ![n] = now]
      /\ prompts' = IF readFails THEN prompts ELSE Bound(s, agent, m, n)
      /\ UNCHANGED <<pruning, now, cfg, horizon, host, history>>
  BY DEF AdmitGranted, LaneOf
<1>2. /\ TableInv(table, issued) /\ p \in Periods
      /\ \A i \in Ids : table[i] # None => rows[i] # None
      /\ \A i \in Ids : rows[i] # None =>
              /\ Ages(rows[i], table[i])
              /\ rows[i].state # "active" => table[i] = rows[i]
              /\ table[i] = rows[i] \/ table[i].state = "expired"
              /\ table[i].state = "active" => table[i].expiresAt > now
  BY AdmitSweep
<1>3. n \in Ids /\ n \in Nat /\ issued' \in 0..MaxRows
  BY <1>0, <1>1, ConstantFacts
<1>4. \A j \in Ids : ~ (/\ table[j] # None /\ table[j].who.session = s
                        /\ table[j].lane = LaneOf(agent) /\ table[j].pool = p
                        /\ table[j].kind = "hold" /\ table[j].state = "active"
                        /\ table[j].expiresAt > now)
  BY <1>0, <1>1, LiveHoldIs
<1>5. key \in Key
  <2>1. m # None => pkey \in Key
    BY DEF PromptKey, Key, Opts
  <2>2. NonceKey(s, agent) \in Key
    BY <1>3 DEF NonceKey, Key, Opts
  <2> HIDE DEF pkey
  <2> QED
    BY <2>1, <2>2
<1>6. LaneOf(agent) \in Agents \cup {"main"}
  BY DEF LaneOf, Opts
<1> HIDE DEF key, p
<1>7. /\ IsRow(hold) /\ hold \in Row /\ hold # None
      /\ hold.pool = p /\ hold.who = Who(s) /\ hold.lane = LaneOf(agent) /\ hold.kind = "hold"
      /\ hold.state = "active" /\ hold.amount = cfg.hold
  BY <1>0, <1>2, <1>5, <1>6, NewHoldRow
<1> HIDE DEF hold
<1>8. /\ IsRow(x) /\ x.pool = p /\ x.who = Who(s) /\ x.lane = LaneOf(agent) /\ x.kind = "hold"
      /\ readFails => x.state = "released"
      /\ ~readFails => x = hold
  BY <1>7, ReleasedRow DEF Ages
<1> HIDE DEF x, table, live
<1>9. rows'[n] = x /\ \A i \in Ids : i # n => rows'[i] = table[i]
  BY <1>1, <1>2, <1>3 DEF TableInv, IsTable
<1>10. rows[n] = None
  BY <1>0, <1>3 DEF SbIInv, TableInv
<1>11. TableInv(rows', issued')
  <2>1. \A i \in Ids : ~ (/\ table[i] # None /\ table[i].kind = "hold" /\ table[i].state = "active"
                          /\ table[i].pool = x.pool /\ table[i].who = x.who
                          /\ table[i].lane = x.lane)
    <3>1. Who(s).session = s
      BY DEF Who
    <3> QED
      BY <1>2, <1>4, <1>8, <3>1
  <2>2. TableInv([table EXCEPT ![issued + 1] = x], issued + 1)
    BY <1>0, <1>2, <1>3, <1>8, <2>1, InsertedTable
  <2> QED
    BY <1>1, <2>2
<1>12. StoppedIsSettled' /\ OwnTurnSettled /\ NewestSettled
  <2>1. stoppedBy' = stoppedBy /\ issued' \in Int /\ issued <= issued' /\ n > issued
    BY <1>0, <1>1, <1>3 DEF history
  <2>2. \A i \in Ids : rows[i] # None /\ rows[i].state = "settled" => rows'[i] = rows[i]
    BY <1>2, <1>9, <1>10
  <2>3. \A i \in Ids : rows[i] # None /\ rows'[i] # None /\ rows'[i].state = "settled"
                         => rows[i].state = "settled"
    BY <1>2, <1>9, <1>10
  <2>4. \A i \in Ids : rows[i] = None => rows'[i] = None \/ i > issued
    BY <1>2, <1>9, <2>1
  <2> QED
    BY <2>1, <2>2, <2>3, <2>4, NoStop
<1>13. BookedIsKnown'
  <2>1. horizon' = horizon /\ booked' = booked
    BY <1>1 DEF history
  <2>2. \A i \in Ids : rows[i] # None /\ rows[i].kind = "charge" /\ rows[i].state = "settled"
                          => rows'[i] = rows[i]
    BY <1>2, <1>9, <1>10
  <2> QED
    BY <2>1, <2>2, BookedKept
<1>14. /\ prompts' \in [Sessions \X Prompts -> Opts(Ids)] /\ PromptsKept
       /\ ~readFails => OnlyBinds(s, agent, m, n)
       /\ readFails => prompts' = prompts
  <2>1. CASE readFails
    BY <1>1, <2>1 DEF SbIInv, SbTyped, PromptsKept
  <2>2. CASE ~readFails
    <3>1. AcceptedBy(s, agent, m) = None
      BY <1>1 DEF IsReplay
    <3>2. prompts' = Bound(s, agent, m, n)
      BY <1>1, <2>2
    <3> QED
      BY <1>3, <2>2, <3>1, <3>2, BoundFacts
  <2> QED
    BY <2>1, <2>2
<1>15. TurnFits
  <2> SUFFICES ASSUME NEW b \in Sessions \X Prompts, prompts'[b] # prompts[b]
               PROVE  LET q == rows'[prompts'[b]].pool IN
                      Sum(SettledPart(rows', q)) + Sum(ActivePart(rows', q))
                        - rows'[prompts'[b]].amount + cfg.hold <= cfg.cap
    BY DEF TurnFits
  <2>1. ~readFails /\ prompts'[b] = n /\ x = hold
    BY <1>8, <1>14 DEF OnlyBinds
  <2>2. rows'[n].pool = p /\ rows'[n].amount = cfg.hold
    BY <1>7, <1>9, <2>1
  <2>3. cfg.hold <= RemainingIn(table, p)
    BY <1>1 DEF Admits, LocalGate, RemainingIn, EffectiveCapacity, Overhang
  <2>4. Sum(SettledPart(table, p)) \in Nat /\ Sum(ActivePart(table, p)) \in Nat
    BY <1>2, PartsNat
  <2>5. RemainingIn(table, p) \in Int
    <3>1. U64Max \in Nat /\ I64Min \in Int /\ cfg.cap \in Nat /\ I64Max \in Nat
      BY <1>0, ConstantFacts DEF U64Max, I64Min
    <3> QED
      BY <2>4, <3>1 DEF RemainingIn, Remaining, SaturatingSum, MinOf, Clamp
  <2>6. cfg.hold <= RemainingIn(table, p) + 0 /\ 0 \in 0..I64Max
    BY <1>0, <2>3, <2>5, ConstantFacts
  <2>7. Sum(SettledPart(table, p)) + Sum(ActivePart(table, p)) - 0 + cfg.hold <= cfg.cap
    BY <1>0, <1>2, <2>6, AdmissionFits
  <2>8. Sum(SettledPart(rows', p)) + Sum(ActivePart(rows', p))
          <= Sum(SettledPart(table, p)) + Sum(ActivePart(table, p)) + cfg.hold
    <3>1. rows' = [table EXCEPT ![issued + 1] = hold] /\ issued' = issued + 1
      BY <1>1, <2>1
    <3>2. TableInv([table EXCEPT ![issued + 1] = hold], issued + 1)
      BY <1>11, <3>1
    <3> QED
      BY <1>0, <1>2, <1>3, <1>7, <3>1, <3>2, InsertedSums
  <2>9. Sum(SettledPart(rows', p)) \in Nat /\ Sum(ActivePart(rows', p)) \in Nat
    BY <1>11, PartsNat
  <2>10. Sum(SettledPart(rows', p)) + Sum(ActivePart(rows', p)) - cfg.hold + cfg.hold <= cfg.cap
    BY <1>0, <2>4, <2>7, <2>8, <2>9
  <2> QED
    BY <2>1, <2>2, <2>10
<1>16. SbTyped'
  BY <1>0, <1>1, <1>3, <1>14 DEF SbIInv, SbTyped, host, history
<1> QED
  BY <1>11, <1>12, <1>13, <1>14, <1>15, <1>16 DEF SbIInv, StepOK

-----------------------------------------------------------------------------
(* Settlements *)

\* The pending hold is an unsettled hold of the lane, and none is newer.
LEMMA PendingIs ==
  ASSUME SbIInv, NEW s \in Sessions, PendingHold(s) # None
  PROVE  LET i == PendingHold(s) IN
         /\ i \in LaneHolds(s) /\ rows[i].state # "settled"
         /\ \A j \in LaneHolds(s) : ~Newer(j, i)
<1> DEFINE L == LaneHolds(s)
           i == NewestOf(L)
<1>1. i # None /\ rows[i].state \in {"active", "expired"} /\ PendingHold(s) = i
  BY DEF PendingHold
<1>2. L \in SUBSET Ids /\ created \in [Ids -> 0..MaxTime] /\ Ids \subseteq Int
  BY ConstantFacts DEF LaneHolds, SbIInv, SbTyped
<1> HIDE DEF L
<1>3. L # {}
  BY <1>1 DEF NewestOf
<1>4. i \in L /\ \A j \in L \ {i} : Newer(i, j)
  BY <1>2, <1>3, NewestIs
<1> HIDE DEF i
<1>5. \A j \in L : ~Newer(j, i)
  <2> SUFFICES ASSUME NEW j \in L, Newer(j, i) PROVE FALSE
    OBVIOUS
  <2>1. created[i] \in Int /\ created[j] \in Int /\ i \in Int /\ j \in Int
    BY <1>2, <1>4
  <2>2. j # i => Newer(i, j)
    BY <1>4
  <2> QED
    BY <2>1, <2>2 DEF Newer
<1> QED
  BY <1>1, <1>4, <1>5 DEF L

LEMMA SettleOK ==
  ASSUME SbIInv, NEW s \in Sessions, NEW readable \in BOOLEAN, NEW bookFlat,
         NEW by \in Opts(Prompts), PendingHold(s) # None,
         by # None => prompts[<<s, by>>] \in {None, PendingHold(s)},
         SettleFromWindow(s, PendingHold(s), LaneWindow(s, readable), bookFlat, by)
  PROVE  SbIInv' /\ StepOK
<1> DEFINE i == PendingHold(s)
           window == LaneWindow(s, readable)
           actual == ActualOf(window, rows[i].amount, bookFlat)
           value == IF actual = None THEN rows[i].amount ELSE actual
           usage == IF actual = None THEN "unknown" ELSE "known"
           y == Settled(rows[i], value, usage, now, "main", "turn_hold",
                        MarkOf(window, CountedIds(s)))
<1>1. /\ i \in LaneHolds(s) /\ rows[i].state # "settled"
      /\ \A j \in LaneHolds(s) : ~Newer(j, i)
  BY PendingIs
<1>2. /\ i \in Ids /\ rows[i] # None /\ rows[i].who.session = s /\ rows[i].lane = "main"
      /\ rows[i].kind = "hold" /\ IsRow(rows[i])
  BY <1>1 DEF LaneHolds, IsLaneRow, SbIInv, TableInv
<1>3. /\ rows' = [rows EXCEPT ![i] = y]
      /\ stoppedBy' = [stoppedBy EXCEPT ![i] = by]
      /\ UNCHANGED <<pruning, now, cfg, pools, created, issued, prompts, horizon, host, booked>>
  <2> HIDE DEF i, window
  <2> QED
    BY DEF SettleFromWindow, i, window
<1>4. value \in Nat
  <2>1. Cents(window) \in Nat
    BY CentsNat DEF SbIInv, SbTyped
  <2> HIDE DEF i, window
  <2>2. actual = None \/ actual = Cents(window)
    BY DEF ActualOf
  <2>3. rows[i].amount \in Nat
    BY <1>2 DEF IsRow, RowsWith
  <2> QED
    BY <2>1, <2>2, <2>3
<1> HIDE DEF i, window, value, usage
<1>5. Ages(rows[i], y) /\ y.state = "settled"
  BY <1>2, <1>4, SettledHoldRow
<1> HIDE DEF y
<1>6. rows'[i] = y /\ \A j \in Ids : j # i => rows'[j] = rows[j]
  BY <1>2, <1>3 DEF SbIInv, TableInv, IsTable
<1>7. /\ stoppedBy'[i] = by /\ stoppedBy' \in [Ids -> Opts(Prompts)]
      /\ \A j \in Ids : j # i => stoppedBy'[j] = stoppedBy[j]
  BY <1>2, <1>3 DEF SbIInv, SbTyped
<1>8. i <= issued /\ issued \in Nat
  BY <1>2, ConstantFacts DEF SbIInv, SbTyped, TableInv
<1>9. TableInv(rows', issued')
  <2>1. IsTable(rows')
    BY <1>3 DEF SbIInv, TableInv, IsTable
  <2>2. \A j \in Ids : rows'[j] = rows[j] \/ (rows[j] # None /\ Ages(rows[j], rows'[j]))
    BY <1>2, <1>5, <1>6
  <2>3. TableInv(rows, issued) /\ issued' = issued
    BY <1>3 DEF SbIInv
  <2> QED
    BY <1>8, <2>1, <2>2, <2>3, AgedTable
<1>10. StoppedIsSettled'
  BY <1>2, <1>3, <1>5, <1>6, <1>7, <1>8 DEF SbIInv, StoppedIsSettled
<1>11. BookedIsKnown'
  <2>1. horizon' = horizon /\ booked' = booked
    BY <1>3
  <2>2. \A j \in Ids : rows[j] # None /\ rows[j].kind = "charge" /\ rows[j].state = "settled"
                          => rows'[j] = rows[j]
    BY <1>2, <1>6
  <2> QED
    BY <2>1, <2>2, BookedKept
<1>12. OwnTurnSettled
  <2> SUFFICES ASSUME NEW j \in Ids, stoppedBy'[j] # stoppedBy[j]
               PROVE  prompts[<<rows[j].who.session, stoppedBy'[j]>>] \in {None, j}
    BY DEF OwnTurnSettled
  <2>1. j = i
    BY <1>7
  <2>2. stoppedBy[i] = None
    BY <1>1, <1>2 DEF SbIInv, StoppedIsSettled
  <2>3. by # None /\ stoppedBy'[j] = by
    BY <1>7, <2>1, <2>2
  <2> QED
    BY <1>2, <2>1, <2>3 DEF i
<1>13. NewestSettled
  <2> SUFFICES ASSUME NEW r \in Sessions, NEW j \in LaneHolds(r), rows'[j] # None,
                      rows[j].state # "settled", rows'[j].state = "settled"
               PROVE  \A k \in LaneHolds(r) : ~Newer(k, j)
    BY DEF NewestSettled
  <2>1. j \in Ids /\ rows[j].who.session = r
    BY DEF LaneHolds, IsLaneRow
  <2>2. j = i
    BY <1>6, <2>1
  <2> QED
    BY <1>1, <1>2, <2>1, <2>2
<1>14. PromptsKept /\ TurnFits
  BY <1>3 DEF PromptsKept, TurnFits
<1>15. SbTyped'
  BY <1>3, <1>7 DEF SbIInv, SbTyped, host
<1> QED
  BY <1>9, <1>10, <1>11, <1>12, <1>13, <1>14, <1>15 DEF SbIInv, StepOK

LEMMA StopOK ==
  ASSUME SbIInv, NEW s \in Sessions, NEW m \in Opts(Prompts), NEW r \in BOOLEAN, Stop(s, m, r)
  PROVE  SbIInv' /\ StepOK
<1>1. /\ PendingHold(s) # None
      /\ SettleFromWindow(s, PendingHold(s), LaneWindow(s, r), TRUE, m)
  BY DEF Stop
<1>2. m # None => prompts[<<s, m>>] \in {None, PendingHold(s)}
  BY DEF Stop, StaleStop
<1> QED
  BY <1>1, <1>2, SettleOK

LEMMA EndOpenTurnOK ==
  ASSUME SbIInv, NEW s \in Sessions, NEW r \in BOOLEAN, EndOpenTurn(s, r)
  PROVE  SbIInv' /\ StepOK
<1> DEFINE flatly == rows[PendingHold(s)].state = "active" /\ rows[PendingHold(s)].expiresAt > now
<1>1. /\ PendingHold(s) # None
      /\ SettleFromWindow(s, PendingHold(s), LaneWindow(s, r), flatly, None)
  BY DEF EndOpenTurn
<1>2. None \in Opts(Prompts)
  BY DEF Opts
<1> HIDE DEF flatly
<1> QED
  BY <1>1, <1>2, SettleOK

-----------------------------------------------------------------------------
(* Charges *)

\* The month a charge is booked in is one of the calendar's.
LEMMA ChargePoolIs ==
  ASSUME SbIInv, NEW s \in Sessions, NEW e \in Nat \cup {None}, ChargePool(s, e) # None
  PROVE  ChargePool(s, e) \in Periods
<1>0. now \in Nat /\ Period(now) \in Periods /\ Period(now) \in Nat
  <2>1. now \in Nat /\ Period(now) \in Periods
    BY AdmitSweep
  <2> QED
    BY <2>1, PeriodMonotone
<1>1. CASE e = None
  <2> DEFINE H == {j \in Ids : rows[j] # None /\ rows[j].kind = "hold" /\ rows[j].who.session = s}
             i == NewestOf(H)
  <2>1. ChargePool(s, e) = IF i = None THEN Period(now) ELSE rows[i].pool
    BY <1>1 DEF ChargePool, LatestHoldPool
  <2>2. H \in SUBSET Ids /\ created \in [Ids -> 0..MaxTime]
    BY DEF SbIInv, SbTyped
  <2>3. i # None => i \in H
    <3> HIDE DEF H
    <3>1. H = {} => i = None
      BY DEF NewestOf
    <3>2. H # {} => i \in H
      BY <2>2, NewestIs
    <3> QED
      BY <3>1, <3>2
  <2>4. i # None => rows[i].pool \in Periods
    <3> HIDE DEF i
    <3> QED
      BY <2>3 DEF SbIInv, TableInv, IsRow, RowsWith
  <2> HIDE DEF i
  <2> QED
    BY <1>0, <2>1, <2>4
<1>2. CASE e # None
  <2>1. e \in Nat /\ Period(e) \in Nat
    BY <1>2, PeriodMonotone
  <2>2. CASE Period(e) > Period(now)
    BY <1>0, <1>2, <2>2 DEF ChargePool
  <2>3. CASE ~(Period(e) > Period(now))
    <3>1. ChargePool(s, e) = Period(e)
      BY <1>2, <2>3 DEF ChargePool
    <3>2. Period(e) \in Periods
      BY <1>0, <2>1, <2>3, ConstantFacts DEF Periods, Period
    <3> QED
      BY <3>1, <3>2
  <2> QED
    BY <2>2, <2>3
<1> QED
  BY <1>1, <1>2

\* What a bookable charge leaves in the tables.
LEMMA PostedFacts ==
  ASSUME NEW s, NEW agent, NEW key, NEW cents, NEW e, NEW usage, NEW source, NEW mark,
         Becomes(Posted(Tables, s, agent, key, cents, e, usage, source, mark))
  PROVE  /\ issued' = issued + 1 /\ issued + 1 <= MaxRows
         /\ rows' = [rows EXCEPT ![issued + 1] =
              ChargeRow(ChargePool(s, e), Who(s), key, cents, usage, now,
                        AttributionOf(agent, source), source, mark)]
         /\ created' = [created EXCEPT ![issued + 1] = now]
<1> DEFINE row == ChargeRow(ChargePool(s, e), Who(s), key, cents, usage, now,
                            AttributionOf(agent, source), source, mark)
           p == ChargePool(s, e)
           db == [rows |-> rows, pools |-> pools, created |-> created, issued |-> issued]
           cap == cfg.cap
<1>1. Posted(Tables, s, agent, key, cents, e, usage, source, mark) =
        [db EXCEPT !.issued = issued + 1,
                   !.pools[p] = IF @ = None THEN [unit |-> "UsdCents", cap |-> cap] ELSE @,
                   !.rows[issued + 1] = row, !.created[issued + 1] = now]
  BY DEF Posted, Tables
<1> HIDE DEF row, p
<1>2. LET new == [db EXCEPT !.issued = issued + 1,
                   !.pools[p] = IF @ = None THEN [unit |-> "UsdCents", cap |-> cap] ELSE @,
                   !.rows[issued + 1] = row, !.created[issued + 1] = now]
      IN  /\ new.issued = issued + 1 /\ new.rows = [rows EXCEPT ![issued + 1] = row]
          /\ new.created = [created EXCEPT ![issued + 1] = now]
  OBVIOUS
<1> QED
  BY <1>1, <1>2 DEF Becomes, row, p

\* A charge is a settled row behind the others; what it may disturb besides is
\* what is known of the charges booked.
LEMMA BookOK ==
  ASSUME SbIInv, NEW s \in Sessions, NEW agent, NEW key, NEW cents, NEW e \in Nat \cup {None},
         NEW source, NEW mark, NEW msgs, BookCharge(s, agent, key, cents, e, source, mark, msgs),
         BookedIsKnown', booked' \in [Sessions \X ChargeKeys -> Nat]
  PROVE  SbIInv' /\ StepOK
<1> DEFINE x == ChargeRow(ChargePool(s, e), Who(s), key, cents, "known", now,
                          AttributionOf(agent, source), source, mark)
           n == issued + 1
<1>1. /\ issued < MaxRows /\ Bookable(Tables, s, key, cents, e)
      /\ Becomes(Posted(Tables, s, agent, key, cents, e, "known", source, mark))
      /\ UNCHANGED <<pruning, now, cfg, prompts, horizon, host, flat, stoppedBy>>
  BY DEF BookCharge
<1>2. /\ issued' = n /\ n <= MaxRows /\ rows' = [rows EXCEPT ![n] = x]
      /\ created' = [created EXCEPT ![n] = now]
  BY <1>1, PostedFacts
<1>3. /\ issued \in Nat /\ n \in Nat /\ n \in Ids /\ now \in 0..MaxTime /\ issued' \in 0..MaxRows
  BY <1>1, <1>2, ConstantFacts DEF SbIInv, SbTyped
<1>4. cents \in Nat /\ ChargePool(s, e) \in Periods
  <2>1. ChargePool(s, e) # None /\ cents \in 1..(CeilingFactor * cfg.cap)
    BY <1>1 DEF Bookable
  <2>2. CeilingFactor * cfg.cap \in Int
    BY ConstantFacts DEF SbIInv, SbTyped
  <2>3. \A z \in Int : \A c \in 1..z : c \in Nat
    OBVIOUS
  <2> QED
    BY <2>1, <2>2, <2>3, ChargePoolIs
<1>5. IsRow(x) /\ x.kind = "charge" /\ x.state = "settled"
  BY <1>4, NewChargeRow
<1> HIDE DEF x
<1>6. rows'[n] = x /\ \A i \in Ids : i # n => rows'[i] = rows[i]
  BY <1>2, <1>3 DEF SbIInv, TableInv, IsTable
<1>7. rows[n] = None
  BY <1>3 DEF SbIInv, TableInv
<1>8. TableInv(rows', issued')
  <2>1. TableInv([rows EXCEPT ![issued + 1] = x], issued + 1)
    BY <1>3, <1>5, InsertedTable DEF SbIInv
  <2> QED
    BY <1>2, <2>1
<1>9. StoppedIsSettled' /\ OwnTurnSettled /\ NewestSettled
  <2>1. stoppedBy' = stoppedBy /\ issued' \in Int /\ issued <= issued' /\ n > issued
    BY <1>1, <1>2, <1>3
  <2> QED
    BY <1>6, <1>7, <2>1, NoStop
<1>10. PromptsKept /\ TurnFits
  BY <1>1 DEF PromptsKept, TurnFits
<1>11. SbTyped'
  BY <1>1, <1>2, <1>3 DEF SbIInv, SbTyped, host
<1> QED
  BY <1>8, <1>9, <1>10, <1>11 DEF SbIInv, StepOK

LEMMA EndTailOK ==
  ASSUME SbIInv, NEW s \in Sessions, EndTail(s)
  PROVE  SbIInv' /\ StepOK
<1> DEFINE window == LaneWindow(s, TRUE)
           last == MaxOf(window.last)
           key == [tag |-> "tail", s |-> s, agent |-> None, a |-> LaneBound(s), b |-> last]
           mark == MarkOf(window, CountedIds(s))
<1>1. /\ window.tag = "priced"
      /\ BookCharge(s, None, key, Cents(window), last, "turn_hold", mark, window.msgs)
      /\ booked' = booked
  BY DEF EndTail
<1>2. last \in Nat
  <2> DEFINE looked == {l \in Scanned(s, LaneBound(s)) : l.ts > LaneBound(s) /\ l.msg \notin CountedIds(s)}
             own == {l \in looked : l.owner = s /\ l.ts <= now + Skew}
             T == {l.ts : l \in own}
  <2>1. window.last = T /\ (window.tag = "priced" => own # {})
    BY DEF LaneWindow, Observed
  <2>2. now + Skew \in Nat
    BY BudgetAssumption DEF SbIInv, SbTyped
  <2>3. Scanned(s, LaneBound(s)) \subseteq Line
    <3>1. file \in [Sessions -> Seq(Line)]
      BY DEF SbIInv, SbTyped
    <3>2. PICK first \in Nat :
            Scanned(s, LaneBound(s)) = {file[s][j] : j \in (first + 1)..Len(file[s])}
      BY <3>1, ScanIs
    <3>3. \A j \in (first + 1)..Len(file[s]) : file[s][j] \in Line
      <4>1. file[s] \in Seq(Line)
        BY <3>1
      <4> QED
        BY <4>1
    <3> QED
      BY <3>2, <3>3
  <2>4. T \in SUBSET (0..(now + Skew)) /\ T # {}
    <3>1. own # {} /\ \A l \in own : l \in Line /\ l.ts <= now + Skew
      BY <1>1, <2>1, <2>3
    <3> HIDE DEF own
    <3>2. \A l \in own : l.ts \in 0..(now + Skew)
      BY <2>2, <3>1 DEF Line
    <3> QED
      BY <3>1, <3>2
  <2> HIDE DEF T
  <2>5. \E m \in T : \A k \in T : k <= m
    BY <2>2, <2>4, Greatest
  <2>6. MaxOf(T) \in T
    BY <2>5, Zenon DEF MaxOf
  <2> QED
    <3>1. T \subseteq Nat
      BY <2>2, <2>4
    <3> QED
      BY <2>1, <2>6, <3>1
<1> HIDE DEF window, last, key, mark
<1>3. BookedIsKnown'
  <2>1. horizon' = horizon
    BY <1>1 DEF BookCharge
  <2>2. rows' = [rows EXCEPT ![issued + 1] =
              ChargeRow(ChargePool(s, last), Who(s), key, Cents(window), "known", now,
                        AttributionOf(None, "turn_hold"), "turn_hold", mark)]
    BY <1>1, PostedFacts DEF BookCharge
  <2>3. issued \in Nat /\ Ids \subseteq Int /\ IsTable(rows)
    BY ConstantFacts DEF SbIInv, SbTyped, TableInv
  <2>4. \A i \in Ids : i # issued + 1 => rows'[i] = rows[i]
    BY <2>2, <2>3 DEF IsTable
  <2>5. issued + 1 \in Ids => rows[issued + 1] = None
    BY <2>3 DEF SbIInv, TableInv
  <2> QED
    BY <1>1, <2>1, <2>4, <2>5, BookedKept
<1>4. booked' \in [Sessions \X ChargeKeys -> Nat]
  BY <1>1 DEF SbIInv, SbTyped
<1> QED
  BY <1>1, <1>2, <1>3, <1>4, BookOK

\* A reported charge: with an event time it was not booked before, for its row
\* would be found or its month be behind the horizon.
LEMMA ChargeOK ==
  ASSUME SbIInv, NEW s \in Sessions, NEW agent \in Opts(Agents), NEW k \in ChargeKeys,
         ChargeAgent(s, agent, k)
  PROVE  SbIInv' /\ StepOK
<1> DEFINE key == ChargeKey(s, k)
           e == EventOf[k]
           c == <<s, k>>
           src == "subagent_transcript"
           x == ChargeRow(ChargePool(s, e), Who(s), key, 1, "known", now,
                          AttributionOf(agent, src), src, None)
           n == issued + 1
<1>1. /\ e # None => e <= now
      /\ BookCharge(s, agent, key, 1, e, src, None, {})
      /\ booked' = [booked EXCEPT ![c] = @ + 1]
  BY DEF ChargeAgent, ChargeKey
<1>2. e \in Nat \cup {None}
  BY BudgetAssumption
<1>3. /\ issued < MaxRows /\ ChargePool(s, e) # None /\ ~KnownCharge(Tables, key)
      /\ horizon' = horizon
      /\ issued' = n /\ rows' = [rows EXCEPT ![n] = x]
  <2>1. /\ issued < MaxRows /\ Bookable(Tables, s, key, 1, e) /\ horizon' = horizon
        /\ Becomes(Posted(Tables, s, agent, key, 1, e, "known", src, None))
    BY <1>1 DEF BookCharge
  <2>2. issued' = n /\ rows' = [rows EXCEPT ![n] = x]
    BY <2>1, PostedFacts
  <2> QED
    BY <2>1, <2>2 DEF Bookable
<1>4. booked' \in [Sessions \X ChargeKeys -> Nat]
  BY <1>1 DEF SbIInv, SbTyped
<1>5. issued \in Nat /\ n \in Ids /\ now \in Nat /\ IsTable(rows)
  BY <1>3, ConstantFacts DEF SbIInv, SbTyped, TableInv
<1> HIDE DEF x
<1>6. rows'[n] = x /\ \A i \in Ids : i # n => rows'[i] = rows[i]
  BY <1>3, <1>5 DEF IsTable
<1>7. rows[n] = None
  BY <1>5 DEF SbIInv, TableInv
<1>8. \A r \in Sessions, q \in ChargeKeys : InTable(rows, r, q) => InTable(rows', r, q)
  BY <1>6, <1>7 DEF InTable
<1>9. ASSUME e # None PROVE booked[c] # 1 /\ InTable(rows', s, k)
  <2>1. Period(e) <= Period(now) /\ Period(e) \in Nat /\ Period(now) \in Nat
    BY <1>1, <1>2, <1>5, <1>9, PeriodMonotone
  <2>2. ChargePool(s, e) = Period(e) /\ ~(Period(e) <= horizon)
    BY <1>3, <1>9, <2>1 DEF ChargePool
  <2>3. ~InTable(rows, s, k)
    BY <1>3 DEF InTable, KnownCharge, Tables
  <2>4. booked[c] # 1
    BY <1>9, <2>2, <2>3 DEF SbIInv, BookedIsKnown
  <2>5. Period(e) \in Periods
    BY <1>2, <1>3, <2>2, ChargePoolIs
  <2>6. x.key = key /\ x.pool = Period(e) /\ x.kind = "charge" /\ x.state = "settled"
    BY <2>2 DEF x, ChargeRow
  <2>7. x # None
    <3>1. key \in Key
      BY DEF ChargeKey, Key, Opts
    <3>2. AttributionOf(agent, src) \in Opt(Agents \cup {"main"})
      BY DEF AttributionOf, Opt, Opts
    <3>3. 1 \in 0..I64Max /\ None \notin Row
      BY ConstantFacts
    <3> HIDE DEF key
    <3>4. x \in Row
      BY <1>5, <2>2, <2>5, <3>1, <3>2, <3>3 DEF x, ChargeRow, Row, RowStates, Opt
    <3> QED
      BY <3>3, <3>4
  <2>8. InTable(rows', s, k)
    BY <1>5, <1>6, <2>6, <2>7 DEF InTable
  <2> QED
    BY <2>4, <2>8
<1>10. BookedIsKnown'
  <2> SUFFICES ASSUME NEW r \in Sessions, NEW q \in ChargeKeys, EventOf[q] # None
               PROVE  /\ booked'[<<r, q>>] <= 1
                      /\ booked'[<<r, q>>] = 1 =>
                           Period(EventOf[q]) <= horizon' \/ InTable(rows', r, q)
    BY DEF BookedIsKnown
  <2>1. /\ booked[<<r, q>>] <= 1 /\ booked[<<r, q>>] \in Nat
        /\ booked[<<r, q>>] = 1 => Period(EventOf[q]) <= horizon \/ InTable(rows, r, q)
    BY DEF SbIInv, BookedIsKnown, SbTyped
  <2>2. CASE r = s /\ q = k
    <3>1. booked[c] \in Nat /\ booked[c] <= 1 /\ booked[c] # 1 /\ InTable(rows', s, k)
      BY <1>9, <2>1, <2>2
    <3>2. booked'[c] = booked[c] + 1
      BY <1>1 DEF SbIInv, SbTyped
    <3> QED
      BY <2>2, <3>1, <3>2
  <2>3. CASE ~(r = s /\ q = k)
    <3>1. booked'[<<r, q>>] = booked[<<r, q>>]
      BY <1>1, <2>3 DEF SbIInv, SbTyped
    <3> QED
      BY <1>3, <1>8, <2>1, <3>1
  <2> QED
    BY <2>2, <2>3
<1> QED
  BY <1>1, <1>2, <1>4, <1>10, BookOK

-----------------------------------------------------------------------------
(* The theorems *)

LEMMA StepInv == SbIInv /\ [Next]_vars => SbIInv' /\ (StepOK \/ UNCHANGED vars)
<1> SUFFICES ASSUME SbIInv, [Next]_vars PROVE SbIInv' /\ (StepOK \/ UNCHANGED vars)
  OBVIOUS
<1>0. Readable \subseteq BOOLEAN /\ ReadFails \subseteq BOOLEAN
  BY BudgetAssumption
<1>1. CASE UNCHANGED vars
  <2>1. SbIInv'
    BY <1>1 DEF vars, SbIInv, SbTyped, StoppedIsSettled, BookedIsKnown
  <2> QED
    BY <1>1, <2>1
<1>2. CASE Next
  <2>1. ASSUME NEW d \in Deltas, ClockStep(d) PROVE SbIInv' /\ StepOK
    BY <2>1, ClockOK
  <2>2. ASSUME NEW c \in Configs, EditFile(c) PROVE SbIInv' /\ StepOK
    BY <2>2, EditOK
  <2>3. ASSUME NEW s \in Sessions, Respond(s) \/ Flush(s) \/ FlushBlock(s)
        PROVE  SbIInv' /\ StepOK
    BY <2>3, RespondOK, FlushOK, FlushBlockOK
  <2>4. ASSUME NEW s \in Sessions, NEW o \in Aliens, FlushAlien(s, o) PROVE SbIInv' /\ StepOK
    BY <2>4, FlushAlienOK
  <2>5. ASSUME NEW s \in Sessions, Heartbeat(s) \/ EndTail(s) PROVE SbIInv' /\ StepOK
    BY <2>5, HeartbeatOK, EndTailOK
  <2>6. ASSUME NEW s \in Sessions, NEW a \in Opts(Agents), NEW m \in Opts(Prompts),
               AdmitRefused(s, a, m) \/ AdmitRenewed(s, a, m)
        PROVE  SbIInv' /\ StepOK
    BY <2>6, RefusedOK, RenewedOK
  <2>7. ASSUME NEW s \in Sessions, NEW a \in Opts(Agents), NEW m \in Opts(Prompts),
               NEW f \in ReadFails, AdmitGranted(s, a, m, f)
        PROVE  SbIInv' /\ StepOK
    BY <1>0, <2>7, GrantedOK
  <2>8. ASSUME NEW s \in Sessions, NEW m \in Opts(Prompts), NEW r \in Readable, Stop(s, m, r)
        PROVE  SbIInv' /\ StepOK
    BY <1>0, <2>8, StopOK
  <2>9. ASSUME NEW s \in Sessions, NEW r \in Readable, EndOpenTurn(s, r)
        PROVE  SbIInv' /\ StepOK
    BY <1>0, <2>9, EndOpenTurnOK
  <2>10. ASSUME NEW s \in Sessions, NEW a \in Opts(Agents), NEW k \in ChargeKeys,
                ChargeAgent(s, a, k)
         PROVE  SbIInv' /\ StepOK
    BY <2>10, ChargeOK
  <2>11. ASSUME PruneStart \/ PruneSkip \/ PruneCrash PROVE SbIInv' /\ StepOK
    BY <2>11, PruneListOK
  <2>12. ASSUME PruneOnePool PROVE SbIInv' /\ StepOK
    BY <2>12, PruneOK
  <2> QED
    BY <1>2, <2>1, <2>2, <2>3, <2>4, <2>5, <2>6, <2>7, <2>8, <2>9, <2>10, <2>11, <2>12, Zenon
       DEF Next
<1> QED
  BY <1>1, <1>2

LEMMA SbInductive == Spec => []SbIInv
<1>1. SbIInv /\ [Next]_vars => SbIInv'
  BY StepInv
<1> QED
  BY <1>1, InitOK, PTL DEF Spec

\* Re-prompts, retries with a fresh nonce, failed grants, renewals and late Stops
\* never leave two live holds of a lane in one month, for any number of sessions,
\* subagents and rows and any movement of the clock.
THEOREM OneLiveHold == Spec => []OneLiveHoldPerLane
<1>1. SbIInv => OneLiveHoldPerLane
  BY DEF SbIInv, TableInv, OneActive, OneLiveHoldPerLane
<1> QED
  BY <1>1, SbInductive, PTL

\* A charge that carries its event time is booked once however often it is
\* reported, before and after its month ends and its rows are pruned.
THEOREM ChargesBookOnce == Spec => []ChargeBookedOnce
<1>1. SbIInv => ChargeBookedOnce
  BY DEF SbIInv, BookedIsKnown, ChargeBookedOnce
<1> QED
  BY <1>1, SbInductive, PTL

\* Every turn is accounted for as its own: it fits the cap when it starts, its
\* prompt stays with its hold, a Stop settles that hold and no other, and an
\* abandoned hold is not booked beside the next turn.
THEOREM TurnsAreAccounted == Spec => TurnAccounting
<1>1. SbIInv /\ [Next]_vars => [PromptsKept]_vars /\ [OwnTurnSettled]_vars
                                /\ [NewestSettled]_vars /\ [TurnFits]_vars
  BY StepInv DEF StepOK
<1>2. Spec => /\ [][PromptsKept]_vars /\ [][OwnTurnSettled]_vars
              /\ [][NewestSettled]_vars /\ [][TurnFits]_vars
  BY <1>1, SbInductive, PTL DEF Spec
<1> QED
  BY <1>2, PTL DEF TurnAccounting, PromptStaysBound, StopSettlesOwnTurn, AbandonedHoldNotBooked,
              NewTurnFitsCap, PromptsKept, OwnTurnSettled, NewestSettled, TurnFits
-----------------------------------------------------------------------------
(* Measured exactly once.  A window starts at the newest mark, and the scan  *)
(* for it reads backwards: nothing is lost as long as the file holds, before *)
(* any line of a message, a line of every earlier message, and lines do not  *)
(* go back in time behind a line of the session's own (Filed).  A mark or a  *)
(* flat settlement then vouches for every message up to its time (MarkOK),   *)
(* and whatever was counted is in the ids of a mark (CountedIsMarked), so    *)
(* that no later window counts it again.                                     *)

\* A message some settlement accounted for, measured or flat.
Covered(s, m) == m \in flat[s] \/ \E i \in Ids : <<s, m>> \in counted[i]

\* The typing the windows need, beyond SbTyped.
LaneTyped ==
  /\ \A i \in Ids : rows[i] \in Opt(Row)
  /\ counted \in [Ids -> SUBSET (Sessions \X Msgs)]
  /\ flat \in [Sessions -> SUBSET Msgs]
  /\ \A s \in Sessions : Len(spent[s]) <= MaxMsgs

\* Messages are stamped in their order, and not in the future.
Stamped(s) ==
  \A k \in AllSpent(s) :
    /\ spent[s][k] <= now
    /\ \A m \in AllSpent(s) : k < m => spent[s][k] < spent[s][m]

\* The line a message's first block is written as; the places of the file's lines.
LineOf(s, m) == [msg |-> m, ts |-> spent[s][m], owner |-> s]
Lines(s) == 1..Len(file[s])

\* A line of the session's own comes after the lines of all earlier messages, is
\* stamped before the next message, and no line behind it is older.
OwnLine(s, j) ==
  LET l == file[s][j] IN
  /\ l.msg \in AllSpent(s)
  /\ spent[s][l.msg] <= l.ts
  /\ \A m \in AllSpent(s) : l.msg < m => l.ts < spent[s][m]
  /\ \A m \in 1..l.msg : \E k \in Lines(s) : file[s][k] = LineOf(s, m)
  /\ \A k \in Lines(s) : j < k => l.ts <= file[s][k].ts

\* The transcript so far.
Filed(s) ==
  \A j \in Lines(s) :
    /\ file[s][j].ts <= now
    /\ IF file[s][j].owner = s THEN OwnLine(s, j) ELSE file[s][j].msg = 0

\* A settled row's mark is not ahead of its settlement and has nothing unaccounted
\* for behind it; a hold settled without a mark covers its time flat.
MarkOK(s, i) ==
  LET x == rows[i] IN
  /\ x.settledAt \in Nat /\ x.settledAt <= now
  /\ x.mark # None =>
       /\ x.mark.at \in Nat /\ x.mark.at <= x.settledAt
       /\ \A m \in AllSpent(s) : spent[s][m] <= x.mark.at => Covered(s, m)
       /\ x.mark.ids \subseteq AllSpent(s)
       /\ \A m \in x.mark.ids : Covered(s, m)
  /\ x.mark = None /\ x.kind = "hold" =>
       \A m \in AllSpent(s) : spent[s][m] <= x.settledAt => m \in flat[s]

\* Every settled row of the lane vouches for its window.
Marked(s) ==
  \A i \in Ids : IsLaneRow(rows[i], s, None) /\ rows[i].state = "settled" => MarkOK(s, i)

\* What a row's amount was measured from is in the ids of its mark.
CountedIsMarked ==
  \A i \in Ids : \A c \in counted[i] :
    /\ IsLaneRow(rows[i], c[1], None) /\ rows[i].state = "settled"
    /\ rows[i].mark # None /\ c[2] \in rows[i].mark.ids

\* No message precedes the lane's first hold.
HeldBefore(s) ==
  \A m \in AllSpent(s) : \E i \in LaneHolds(s) : created[i] < spent[s][m]

\* The inductive invariant of a lane's windows.
LaneInv ==
  /\ LaneTyped
  /\ \A i \in Ids : created[i] <= now
  /\ \A s \in Sessions : Stamped(s) /\ Filed(s) /\ Marked(s) /\ HeldBefore(s)
  /\ CountedIsMarked
  /\ MessageCountedOnce

LEMMA LaneInit == Init => LaneInv
<1> SUFFICES ASSUME Init PROVE LaneInv
  OBVIOUS
<1>0. MaxMsgs \in Nat /\ Ids = 1..MaxRows
  BY BudgetAssumption, ConstantFacts
<1>1. LaneTyped
  BY <1>0 DEF Init, LaneTyped, Msgs, Opt
<1>2. \A i \in Ids : created[i] <= now /\ counted[i] = {} /\ rows[i] = None
  BY DEF Init
<1>3. \A s \in Sessions : AllSpent(s) = {} /\ Lines(s) = {}
  BY DEF Init, AllSpent, Lines
<1>4. \A s \in Sessions : Stamped(s) /\ Filed(s) /\ HeldBefore(s)
  BY <1>3 DEF Stamped, Filed, HeldBefore
<1>5. \A s \in Sessions : Marked(s)
  BY <1>2 DEF Marked, IsLaneRow
<1>6. CountedIsMarked /\ MessageCountedOnce
  BY <1>2 DEF CountedIsMarked, MessageCountedOnce
<1> QED
  BY <1>1, <1>2, <1>4, <1>5, <1>6 DEF LaneInv

\* What the typing of the host's variables says of one session.
LEMMA HostTypes ==
  ASSUME SbIInv, NEW s \in Sessions
  PROVE  /\ now \in Nat /\ Len(spent[s]) \in Nat /\ Len(file[s]) \in Nat
         /\ \A m \in AllSpent(s) : m \in Nat /\ spent[s][m] \in Nat
         /\ \A j \in Lines(s) : /\ j \in Nat /\ file[s][j] \in Line
                                /\ file[s][j].ts \in Nat /\ file[s][j].msg \in Nat
<1>1. now \in Nat /\ spent[s] \in Seq(Nat) /\ file[s] \in Seq(Line)
  BY ConstantFacts DEF SbIInv, SbTyped
<1>2. \A l \in Line : l.ts \in Nat /\ l.msg \in Nat
  BY DEF Line
<1> QED
  BY <1>1, <1>2 DEF AllSpent, Lines

\* The step keeps the rows of a lane: none goes, none changes its lane, and none
\* is settled but new charges, which are unmarked.
RowsStay ==
  /\ \A i \in Ids : rows[i] # None =>
       /\ rows'[i] # None /\ rows'[i].kind = rows[i].kind /\ rows'[i].who = rows[i].who
       /\ rows'[i].lane = rows[i].lane /\ created'[i] = created[i]
       /\ rows[i].state = "settled" => rows'[i] = rows[i]
       /\ rows'[i].state = "settled" => rows[i].state = "settled"
  /\ \A i \in Ids : rows[i] = None /\ rows'[i] # None /\ rows'[i].state = "settled" =>
       rows'[i].kind = "charge" /\ rows'[i].mark = None /\ rows'[i].settledAt = now
  /\ \A i \in Ids : created'[i] <= now' /\ rows'[i] \in Opt(Row)

\* A step of the ledger that measures nothing, or of a clock that does not step
\* back.
LEMMA LaneKept ==
  ASSUME SbIInv, LaneInv, now' \in Nat, now <= now', spent' = spent, file' = file,
         flat' = flat, counted' = counted, RowsStay
  PROVE  LaneInv'
<1>0. now \in Nat
  BY ConstantFacts DEF SbIInv, SbTyped
<1>1. LaneTyped' /\ MessageCountedOnce' /\ \A i \in Ids : created'[i] <= now'
  BY DEF LaneInv, LaneTyped, MessageCountedOnce, RowsStay
<1>2. CountedIsMarked'
  <2> SUFFICES ASSUME NEW i \in Ids, NEW c \in counted[i]
               PROVE  /\ IsLaneRow(rows'[i], c[1], None) /\ rows'[i].state = "settled"
                      /\ rows'[i].mark # None /\ c[2] \in rows'[i].mark.ids
    BY DEF CountedIsMarked
  <2>1. /\ IsLaneRow(rows[i], c[1], None) /\ rows[i].state = "settled"
        /\ rows[i].mark # None /\ c[2] \in rows[i].mark.ids
    BY DEF LaneInv, CountedIsMarked
  <2>2. rows'[i] = rows[i]
    BY <2>1 DEF RowsStay, IsLaneRow
  <2> QED
    BY <2>1, <2>2
<1>3. ASSUME NEW s \in Sessions PROVE Stamped(s)' /\ Filed(s)' /\ Marked(s)' /\ HeldBefore(s)'
  <2>0. AllSpent(s)' = AllSpent(s) /\ Lines(s)' = Lines(s)
    BY DEF AllSpent, Lines
  <2>1. Stamped(s) /\ Filed(s) /\ Marked(s) /\ HeldBefore(s)
    BY DEF LaneInv
  <2>2. Stamped(s)'
    BY <1>0, <2>0, <2>1, HostTypes DEF Stamped
  <2>3. Filed(s)'
    <3> SUFFICES ASSUME NEW j \in Lines(s)
                 PROVE  /\ file[s][j].ts <= now'
                        /\ IF file[s][j].owner = s THEN OwnLine(s, j)' ELSE file[s][j].msg = 0
      BY <2>0 DEF Filed
    <3>1. /\ file[s][j].ts <= now /\ file[s][j].ts \in Nat
          /\ IF file[s][j].owner = s THEN OwnLine(s, j) ELSE file[s][j].msg = 0
      BY <2>1, HostTypes DEF Filed
    <3>2. OwnLine(s, j)' = OwnLine(s, j)
      BY <2>0 DEF OwnLine, LineOf
    <3> QED
      BY <1>0, <3>1, <3>2
  <2>4. Marked(s)'
    <3> SUFFICES ASSUME NEW i \in Ids, IsLaneRow(rows'[i], s, None), rows'[i].state = "settled"
                 PROVE  MarkOK(s, i)'
      BY DEF Marked
    <3>1. CASE rows[i] # None
      <4>1. rows'[i] = rows[i]
        BY <3>1 DEF RowsStay
      <4>2. MarkOK(s, i)
        BY <2>1, <4>1 DEF Marked
      <4>3. \A m : Covered(s, m)' = Covered(s, m)
        BY DEF Covered
      <4> QED
        BY <1>0, <2>0, <4>1, <4>2, <4>3 DEF MarkOK
    <3>2. CASE rows[i] = None
      <4>1. rows'[i].kind = "charge" /\ rows'[i].mark = None /\ rows'[i].settledAt = now
        BY <3>2 DEF RowsStay, IsLaneRow
      <4> QED
        BY <1>0, <4>1 DEF MarkOK
    <3> QED
      BY <3>1, <3>2
  <2>5. HeldBefore(s)'
    <3> SUFFICES ASSUME NEW m \in AllSpent(s)
                 PROVE  \E i \in LaneHolds(s)' : created'[i] < spent[s][m]
      BY <2>0 DEF HeldBefore
    <3>1. PICK i \in LaneHolds(s) : created[i] < spent[s][m]
      BY <2>1 DEF HeldBefore
    <3>2. i \in LaneHolds(s)' /\ created'[i] = created[i]
      BY DEF LaneHolds, IsLaneRow, RowsStay
    <3> QED
      BY <3>1, <3>2
  <2> QED
    BY <2>2, <2>3, <2>4, <2>5
<1> QED
  BY <1>1, <1>2, <1>3 DEF LaneInv

LEMMA LaneRespond ==
  ASSUME SbIInv, LaneInv, NEW s \in Sessions, Respond(s)
  PROVE  LaneInv'
<1> DEFINE n == Len(spent[s]) + 1
<1>1. /\ now' = now + 1 /\ Len(spent[s]) < MaxMsgs
      /\ spent' = [spent EXCEPT ![s] = Append(spent[s], now + 1)]
      /\ rows' = rows /\ created' = created /\ counted' = counted /\ flat' = flat /\ file' = file
  BY DEF Respond, ledger, history
<1>2. now \in Nat /\ spent \in [Sessions -> Seq(Nat)] /\ MaxMsgs \in Nat
  BY ConstantFacts, BudgetAssumption DEF SbIInv, SbTyped
<1>3. /\ n \in Nat /\ Len(spent[s]) \in Nat /\ Len(spent'[s]) = n /\ n <= MaxMsgs
      /\ spent'[s][n] = now + 1 /\ \A m \in AllSpent(s) : spent'[s][m] = spent[s][m]
  BY <1>1, <1>2 DEF AllSpent
<1>4. \A r \in Sessions : r # s => spent'[r] = spent[r]
  BY <1>1, <1>2
<1>5. AllSpent(s)' = AllSpent(s) \cup {n} /\ \A m \in AllSpent(s) : m < n
  BY <1>3 DEF AllSpent
<1>6. \A r \in Sessions : r # s => AllSpent(r)' = AllSpent(r)
  BY <1>4 DEF AllSpent
<1>7. ASSUME NEW r \in Sessions
      PROVE  /\ \A m \in AllSpent(r) : m \in AllSpent(r)' /\ spent'[r][m] = spent[r][m]
             /\ \A m \in AllSpent(r)' : m \notin AllSpent(r) => m = n /\ r = s /\ spent'[r][m] = now + 1
  BY <1>3, <1>4, <1>5, <1>6
<1>8. ASSUME NEW r \in Sessions
      PROVE  Lines(r)' = Lines(r) /\ \A m : Covered(r, m)' = Covered(r, m)
  BY <1>1 DEF Lines, Covered
<1> HIDE DEF n
<1>9. LaneTyped' /\ MessageCountedOnce' /\ CountedIsMarked' /\ \A i \in Ids : created'[i] <= now'
  <2>1. LaneTyped'
    BY <1>1, <1>3, <1>4 DEF LaneInv, LaneTyped
  <2>2. MessageCountedOnce' /\ CountedIsMarked'
    BY <1>1 DEF LaneInv, MessageCountedOnce, CountedIsMarked
  <2>3. \A i \in Ids : created[i] \in Int /\ created[i] <= now
    BY ConstantFacts DEF SbIInv, SbTyped, LaneInv
  <2> QED
    BY <1>1, <1>2, <2>1, <2>2, <2>3
<1>10. ASSUME NEW r \in Sessions PROVE Stamped(r)' /\ Filed(r)' /\ Marked(r)' /\ HeldBefore(r)'
  <2>1. Stamped(r) /\ Filed(r) /\ Marked(r) /\ HeldBefore(r)
    BY DEF LaneInv
  <2>2. /\ \A m \in AllSpent(r) : m \in Nat /\ spent[r][m] \in Nat
        /\ \A j \in Lines(r) : file[r][j].ts \in Nat /\ file[r][j].msg \in Nat
    BY HostTypes
  <2>3. Stamped(r)'
    <3> SUFFICES ASSUME NEW k \in AllSpent(r)'
                 PROVE  /\ spent'[r][k] <= now + 1
                        /\ \A m \in AllSpent(r)' : k < m => spent'[r][k] < spent'[r][m]
      BY <1>1 DEF Stamped
    <3>1. CASE k \in AllSpent(r)
      <4>1. spent'[r][k] = spent[r][k] /\ spent[r][k] \in Nat /\ spent[r][k] <= now
        BY <1>7, <2>1, <2>2, <3>1 DEF Stamped
      <4>2. \A m \in AllSpent(r) : k < m => spent[r][k] < spent'[r][m]
        BY <1>7, <2>1, <3>1 DEF Stamped
      <4>3. \A m \in AllSpent(r)' : m \notin AllSpent(r) => spent'[r][m] = now + 1
        BY <1>7
      <4> QED
        BY <1>2, <4>1, <4>2, <4>3
    <3>2. CASE k \notin AllSpent(r)
      <4>1. k = n /\ r = s /\ spent'[r][k] = now + 1
        BY <1>7, <3>2
      <4>2. \A m \in AllSpent(r)' : ~(k < m)
        BY <1>3, <1>5, <4>1, <2>2
      <4> QED
        BY <1>2, <4>1, <4>2
    <3> QED
      BY <3>1, <3>2
  <2>4. Filed(r)'
    <3> SUFFICES ASSUME NEW j \in Lines(r)
                 PROVE  /\ file[r][j].ts <= now + 1
                        /\ IF file[r][j].owner = r THEN OwnLine(r, j)' ELSE file[r][j].msg = 0
      BY <1>1, <1>8 DEF Filed
    <3>1. /\ file[r][j].ts <= now /\ file[r][j].ts \in Nat
          /\ IF file[r][j].owner = r THEN OwnLine(r, j) ELSE file[r][j].msg = 0
      BY <2>1, <2>2 DEF Filed
    <3>2. ASSUME OwnLine(r, j) PROVE OwnLine(r, j)'
      <4> DEFINE l == file[r][j]
      <4>1. /\ l.msg \in AllSpent(r) /\ spent[r][l.msg] <= l.ts
            /\ \A m \in AllSpent(r) : l.msg < m => l.ts < spent[r][m]
            /\ \A m \in 1..l.msg : \E k \in Lines(r) : file[r][k] = LineOf(r, m)
            /\ \A k \in Lines(r) : j < k => l.ts <= file[r][k].ts
        BY <3>2 DEF OwnLine
      <4>2. l.msg \in AllSpent(r)' /\ spent'[r][l.msg] <= l.ts
        BY <1>7, <4>1
      <4>3. \A m \in AllSpent(r)' : l.msg < m => l.ts < spent'[r][m]
        BY <1>2, <1>7, <3>1, <4>1
      <4>4. \A m \in 1..l.msg : m \in AllSpent(r)
        <5>1. Len(spent[r]) \in Nat /\ l.msg \in 1..Len(spent[r])
          BY <1>2, <4>1 DEF AllSpent
        <5> QED
          BY <5>1 DEF AllSpent
      <4>5. \A m \in 1..l.msg : LineOf(r, m)' = LineOf(r, m)
        BY <1>7, <4>4 DEF LineOf
      <4> QED
        BY <1>1, <1>8, <4>1, <4>2, <4>3, <4>5 DEF OwnLine
    <3> QED
      BY <1>2, <3>1, <3>2
  <2>5. Marked(r)'
    <3> SUFFICES ASSUME NEW i \in Ids, IsLaneRow(rows[i], r, None), rows[i].state = "settled"
                 PROVE  MarkOK(r, i)'
      BY <1>1 DEF Marked
    <3>1. MarkOK(r, i)
      BY <2>1 DEF Marked
    <3> DEFINE x == rows[i]
    <3>2. x.settledAt \in Nat /\ x.settledAt <= now
      BY <3>1 DEF MarkOK
    <3>3. x.mark # None =>
            /\ x.mark.at \in Nat /\ x.mark.at <= x.settledAt
            /\ \A m \in AllSpent(r)' : spent'[r][m] <= x.mark.at => Covered(r, m)'
            /\ x.mark.ids \subseteq AllSpent(r)'
            /\ \A m \in x.mark.ids : Covered(r, m)'
      BY <1>2, <1>7, <1>8, <3>1, <3>2 DEF MarkOK
    <3>4. x.mark = None /\ x.kind = "hold" =>
            \A m \in AllSpent(r)' : spent'[r][m] <= x.settledAt => m \in flat[r]
      BY <1>2, <1>7, <3>1, <3>2 DEF MarkOK
    <3>5. rows' = rows /\ flat' = flat /\ now' = now + 1 /\ x.settledAt <= now + 1
      BY <1>1, <1>2, <3>2
    <3> QED
      BY <3>2, <3>3, <3>4, <3>5 DEF MarkOK
  <2>6. HeldBefore(r)'
    <3> SUFFICES ASSUME NEW m \in AllSpent(r)'
                 PROVE  \E i \in LaneHolds(r) : created[i] < spent'[r][m]
      BY <1>1 DEF HeldBefore, LaneHolds
    <3>1. CASE m \in AllSpent(r)
      BY <1>7, <2>1, <3>1 DEF HeldBefore
    <3>2. CASE m \notin AllSpent(r)
      <4>1. r = s /\ spent'[r][m] = now + 1
        BY <1>7, <3>2
      <4>2. PICK i \in Ids : rows[i] # None /\ rows[i].kind = "hold" /\ rows[i].who.session = s
                             /\ rows[i].lane = "main"
        BY DEF Respond, HasHold
      <4>3. i \in LaneHolds(r)
        BY <4>1, <4>2 DEF LaneHolds, IsLaneRow
      <4>4. created[i] <= now /\ created[i] \in Int
        BY ConstantFacts DEF LaneInv, SbIInv, SbTyped
      <4> QED
        BY <1>2, <4>1, <4>3, <4>4
    <3> QED
      BY <3>1, <3>2
  <2> QED
    BY <2>3, <2>4, <2>5, <2>6
<1> QED
  BY <1>9, <1>10 DEF LaneInv

\* A line that comes behind the session's own lines in time.
LEMMA LaneAppend ==
  ASSUME SbIInv, LaneInv, NEW s \in Sessions, NEW l \in Line, AppendLine(s, l), l.ts <= now,
         \A j \in Lines(s) : file[s][j].owner = s => file[s][j].ts <= l.ts,
         IF l.owner = s
         THEN /\ l.msg \in AllSpent(s)
              /\ spent[s][l.msg] <= l.ts
              /\ \A m \in AllSpent(s) : l.msg < m => l.ts < spent[s][m]
              /\ \A m \in 1..l.msg : l = LineOf(s, m) \/ \E k \in Lines(s) : file[s][k] = LineOf(s, m)
         ELSE l.msg = 0
  PROVE  LaneInv'
<1>0. PICK n : n = Len(file[s]) + 1
  OBVIOUS
<1>1. /\ file' = [file EXCEPT ![s] = Append(file[s], l)]
      /\ rows' = rows /\ created' = created /\ counted' = counted /\ flat' = flat
      /\ spent' = spent /\ now' = now
  BY DEF AppendLine, ledger, history
<1>2. now \in Nat /\ file \in [Sessions -> Seq(Line)]
  BY ConstantFacts DEF SbIInv, SbTyped
<1>3. /\ n \in Nat /\ Len(file'[s]) = n /\ file'[s][n] = l
      /\ \A j \in Lines(s) : file'[s][j] = file[s][j]
  BY <1>0, <1>1, <1>2 DEF Lines
<1>4. Lines(s)' = Lines(s) \cup {n} /\ (\A j \in Lines(s) : j < n /\ j \in Nat)
  BY <1>0, <1>2, <1>3 DEF Lines
<1>5. \A r \in Sessions : AllSpent(r)' = AllSpent(r)
  BY <1>1 DEF AllSpent
<1>6. /\ LaneTyped' /\ MessageCountedOnce' /\ CountedIsMarked' /\ \A i \in Ids : created'[i] <= now'
  BY <1>1 DEF LaneInv, LaneTyped, MessageCountedOnce, CountedIsMarked
<1>7. ASSUME NEW r \in Sessions PROVE Stamped(r)' /\ Filed(r)' /\ Marked(r)' /\ HeldBefore(r)'
  <2>1. Stamped(r) /\ Filed(r) /\ Marked(r) /\ HeldBefore(r)
    BY DEF LaneInv
  <2>2. Stamped(r)' /\ HeldBefore(r)'
    BY <1>1, <1>5, <2>1 DEF Stamped, HeldBefore, LaneHolds
  <2>3. Marked(r)'
    <3>1. \A m : Covered(r, m)' = Covered(r, m)
      BY <1>1 DEF Covered
    <3>2. \A i \in Ids : MarkOK(r, i)' = MarkOK(r, i)
      BY <1>1, <1>5, <3>1 DEF MarkOK
    <3> QED
      BY <1>1, <2>1, <3>2 DEF Marked
  <2>4. CASE r # s
    <3>1. file'[r] = file[r]
      BY <1>1, <1>2, <2>4
    <3>2. Lines(r)' = Lines(r)
      BY <3>1 DEF Lines
    <3>3. \A j \in Lines(r) : OwnLine(r, j)' = OwnLine(r, j)
      BY <1>1, <1>5, <3>1, <3>2 DEF OwnLine, LineOf
    <3>4. Filed(r)'
      BY <1>1, <2>1, <3>1, <3>2, <3>3 DEF Filed
    <3> QED
      BY <2>2, <2>3, <3>4
  <2>5. CASE r = s
    <3>1. \A m \in AllSpent(s) : LineOf(s, m)' = LineOf(s, m)
      BY <1>1 DEF LineOf
    <3>2. ASSUME NEW j \in Lines(s), file[s][j].owner = s PROVE OwnLine(s, j)'
      <4> DEFINE x == file[s][j]
      <4>1. /\ x.msg \in AllSpent(s) /\ spent[s][x.msg] <= x.ts
            /\ \A m \in AllSpent(s) : x.msg < m => x.ts < spent[s][m]
            /\ \A m \in 1..x.msg : \E k \in Lines(s) : file[s][k] = LineOf(s, m)
            /\ \A k \in Lines(s) : j < k => x.ts <= file[s][k].ts
        BY <2>1, <2>5, <3>2 DEF Filed, OwnLine
      <4>2. \A m \in 1..x.msg : LineOf(s, m)' = LineOf(s, m)
        BY <1>1 DEF LineOf
      <4>3. \A m \in 1..x.msg : \E k \in Lines(s)' : file'[s][k] = LineOf(s, m)'
        BY <1>3, <1>4, <4>1, <4>2
      <4>4. x.ts <= l.ts
        BY <3>2
      <4>5. \A k \in Lines(s)' : j < k => x.ts <= file'[s][k].ts
        BY <1>3, <1>4, <4>1, <4>4
      <4> QED
        BY <1>1, <1>3, <1>5, <4>1, <4>3, <4>5 DEF OwnLine
    <3>3. ASSUME l.owner = s PROVE OwnLine(s, n)'
      <4>1. \A m \in 1..l.msg : LineOf(s, m)' = LineOf(s, m)
        BY <1>1 DEF LineOf
      <4>2. \A m \in 1..l.msg : \E k \in Lines(s)' : file'[s][k] = LineOf(s, m)'
        BY <1>3, <1>4, <3>3, <4>1
      <4>3. \A k \in Lines(s)' : ~(n < k)
        BY <1>3, <1>4
      <4>4. spent' = spent
        BY <1>1
      <4>5. /\ l.msg \in AllSpent(s)' /\ spent'[s][l.msg] <= l.ts
            /\ \A m \in AllSpent(s)' : l.msg < m => l.ts < spent'[s][m]
        BY <1>5, <3>3, <4>4
      <4> QED
        BY <1>3, <4>2, <4>3, <4>5 DEF OwnLine
    <3>4. Filed(s)'
      <4> SUFFICES ASSUME NEW j \in Lines(s)'
                   PROVE  /\ file'[s][j].ts <= now
                          /\ IF file'[s][j].owner = s THEN OwnLine(s, j)' ELSE file'[s][j].msg = 0
        BY <1>1 DEF Filed
      <4>1. CASE j \in Lines(s)
        <5>1. /\ file[s][j].ts <= now /\ (file[s][j].owner # s => file[s][j].msg = 0)
              /\ file'[s][j] = file[s][j]
          BY <1>3, <2>1, <2>5, <4>1 DEF Filed
        <5> QED
          BY <3>2, <4>1, <5>1
      <4>2. CASE j = n
        BY <1>3, <3>3, <4>2
      <4> QED
        BY <1>4, <4>1, <4>2
    <3> QED
      BY <2>2, <2>3, <2>5, <3>4
  <2> QED
    BY <2>4, <2>5
<1> QED
  BY <1>6, <1>7 DEF LaneInv

\* A message is written exactly if the file has its own first line, and then so
\* have all before it.
LEMMA WrittenIs ==
  ASSUME SbIInv, LaneInv, NEW s \in Sessions, NEW m \in Written(s), m # 0
  PROVE  /\ m \in AllSpent(s)
         /\ \A k \in 1..m : k \in Written(s) /\ \E j \in Lines(s) : file[s][j] = LineOf(s, k)
<1>1. PICK j \in Lines(s) : file[s][j].msg = m
  BY DEF Written, Lines
<1>2. file[s][j].owner = s /\ OwnLine(s, j)
  BY <1>1 DEF LaneInv, Filed
<1>3. m \in AllSpent(s) /\ \A k \in 1..m : \E i \in Lines(s) : file[s][i] = LineOf(s, k)
  BY <1>1, <1>2 DEF OwnLine
<1>4. \A k \in 1..m : k \in Written(s)
  <2> SUFFICES ASSUME NEW k \in 1..m PROVE k \in Written(s)
    OBVIOUS
  <2>1. PICK i \in Lines(s) : file[s][i] = LineOf(s, k)
    BY <1>3
  <2>2. file[s][i].msg = k
    BY <2>1 DEF LineOf
  <2> QED
    BY <2>2 DEF Written, Lines
<1> QED
  BY <1>3, <1>4

LEMMA LaneFlush ==
  ASSUME SbIInv, LaneInv, NEW s \in Sessions, Flush(s)
  PROVE  LaneInv'
<1>1. PICK m \in AllSpent(s) \ Written(s) :
        /\ \A k \in 1..(m - 1) : k \in Written(s)
        /\ AppendLine(s, LineOf(s, m))
  BY DEF Flush, AllSpent, LineOf
<1>2. /\ m \in Nat /\ m >= 1 /\ m <= Len(spent[s]) /\ Len(spent[s]) \in Nat
      /\ spent[s][m] \in Nat /\ now \in Nat
  BY HostTypes DEF AllSpent
<1> DEFINE l == LineOf(s, m)
<1>3. l \in Line /\ l.ts = spent[s][m] /\ l.msg = m /\ l.owner = s
  BY <1>2 DEF LineOf, Line
<1>4. Stamped(s) /\ Filed(s)
  BY DEF LaneInv
<1>5. l.ts <= now /\ \A k \in AllSpent(s) : l.msg < k => l.ts < spent[s][k]
  BY <1>3, <1>4 DEF Stamped
<1>6. ASSUME NEW j \in Lines(s), file[s][j].owner = s PROVE file[s][j].ts <= l.ts
  <2> DEFINE x == file[s][j]
  <2>1. OwnLine(s, j)
    BY <1>4, <1>6 DEF Filed
  <2>2. x.msg \in Written(s) /\ x.msg \in AllSpent(s) /\ x.msg \in Nat /\ x.msg # 0
    BY <2>1, HostTypes DEF OwnLine, Written, Lines, AllSpent
  <2>3. ~(m <= x.msg)
    <3>1. \A k \in 1..x.msg : k \in Written(s)
      BY <2>2, WrittenIs
    <3> QED
      BY <1>1, <1>2, <2>2, <3>1
  <2>4. x.ts < spent[s][m]
    BY <1>2, <2>1, <2>2, <2>3 DEF OwnLine
  <2>5. x.ts \in Nat
    BY HostTypes
  <2> QED
    BY <1>2, <1>3, <2>4, <2>5
<1>7. ASSUME NEW k \in 1..l.msg
      PROVE  l = LineOf(s, k) \/ \E j \in Lines(s) : file[s][j] = LineOf(s, k)
  <2>1. CASE k = m
    BY <2>1
  <2>2. CASE k # m
    <3>1. k \in 1..(m - 1) /\ k # 0 /\ k \in 1..k
      BY <1>2, <1>3, <1>7, <2>2
    <3>2. k \in Written(s)
      BY <1>1, <3>1
    <3> QED
      BY <3>1, <3>2, WrittenIs
  <2> QED
    BY <2>1, <2>2
<1>8. spent[s][l.msg] <= l.ts /\ l.msg \in AllSpent(s)
  BY <1>2, <1>3
<1> HIDE DEF l
<1>9. AppendLine(s, l)
  BY <1>1 DEF l
<1> QED
  BY <1>3, <1>5, <1>6, <1>7, <1>8, <1>9, LaneAppend

LEMMA LaneFlushBlock ==
  ASSUME SbIInv, LaneInv, NEW s \in Sessions, FlushBlock(s)
  PROVE  LaneInv'
<1> DEFINE l(m) == [msg |-> m, ts |-> now, owner |-> s]
<1>1. PICK m \in Written(s) : /\ m # 0 /\ m = Len(spent[s]) /\ AppendLine(s, l(m))
  BY DEF FlushBlock
<1>2. /\ m \in AllSpent(s) /\ m \in Nat /\ spent[s][m] \in Nat /\ now \in Nat
      /\ \A k \in AllSpent(s) : ~(m < k)
  <2>1. m \in AllSpent(s)
    BY <1>1, WrittenIs
  <2> QED
    BY <1>1, <2>1, HostTypes DEF AllSpent
<1>3. l(m) \in Line /\ l(m).ts = now /\ l(m).msg = m /\ l(m).owner = s
  BY <1>2 DEF Line
<1>4. spent[s][m] <= now /\ \A j \in Lines(s) : file[s][j].ts <= now
  BY <1>2 DEF LaneInv, Stamped, Filed
<1>5. \A k \in 1..m : \E j \in Lines(s) : file[s][j] = LineOf(s, k)
  BY <1>1, WrittenIs
<1> HIDE DEF l
<1> QED
  BY <1>1, <1>2, <1>3, <1>4, <1>5, LaneAppend

LEMMA LaneFlushAlien ==
  ASSUME SbIInv, LaneInv, NEW s \in Sessions, NEW o \in Aliens, FlushAlien(s, o)
  PROVE  LaneInv'
<1> DEFINE l == [msg |-> 0, ts |-> now, owner |-> o]
<1>1. now \in Nat /\ o # s
  BY HostTypes, BudgetAssumption
<1>2. l \in Line /\ l.ts = now /\ l.msg = 0 /\ l.owner # s
  BY <1>1 DEF Line
<1>3. \A j \in Lines(s) : file[s][j].ts <= now
  BY DEF LaneInv, Filed
<1>4. AppendLine(s, l)
  BY DEF FlushAlien
<1> HIDE DEF l
<1>5. l.ts <= now
  BY <1>1, <1>2
<1> QED
  BY <1>2, <1>3, <1>4, <1>5, LaneAppend

-----------------------------------------------------------------------------
(* What a window sees *)

LEMMA MaxIs ==
  ASSUME NEW n \in Nat, NEW S \in SUBSET (0..n), S # {}
  PROVE  MaxOf(S) \in S /\ \A x \in S : x <= MaxOf(S)
  BY Greatest, Zenon DEF MaxOf

LEMMA LeastIs ==
  ASSUME NEW n \in Nat, NEW S \in SUBSET (0..n), S # {}
  PROVE  MinimumOf(S) \in S /\ \A x \in S : MinimumOf(S) <= x
<1> DEFINE R == {n - x : x \in S}
<1>1. \A x \in S : x \in Int /\ 0 <= x /\ x <= n
  OBVIOUS
<1>2. R \in SUBSET (0..n) /\ R # {}
  <2>1. PICK x \in S : TRUE
    OBVIOUS
  <2>2. n - x \in R
    OBVIOUS
  <2>3. \A r \in R : r \in 0..n
    BY <1>1
  <2> HIDE DEF R
  <2> QED
    BY <2>2, <2>3
<1>3. PICK r \in R : \A q \in R : q <= r
  <2> HIDE DEF R
  <2> QED
    BY <1>2, Greatest
<1>4. PICK x \in S : r = n - x
  OBVIOUS
<1>5. \A y \in S : n - y <= n - x
  BY <1>3, <1>4
<1>6. \A y \in S : x <= y
  BY <1>1, <1>5
<1> HIDE DEF R
<1> QED
  BY <1>6, Zenon DEF MinimumOf

\* The lane's marks are the marks of its settled rows.
LEMMA MarksAre ==
  ASSUME SbIInv, LaneInv, NEW s \in Sessions
  PROVE  /\ \A w \in LaneMarks(s) : \E i \in Ids :
              /\ IsLaneRow(rows[i], s, None) /\ rows[i].state = "settled" /\ rows[i].mark = w
              /\ w # None /\ MarkOK(s, i) /\ w.at \in 0..now
         /\ \A i \in Ids : /\ IsLaneRow(rows[i], s, None) /\ rows[i].state = "settled"
                           /\ rows[i].mark # None
                           => rows[i].mark \in LaneMarks(s)
<1>0. now \in Nat /\ Slack \in Nat
  BY HostTypes, BudgetAssumption
<1>1. \A i \in Ids : /\ IsLaneRow(rows[i], s, None) /\ rows[i].state = "settled"
                     /\ rows[i].mark # None
        => /\ MarkOK(s, i) /\ rows[i].mark.at \in 0..now
           /\ rows[i].mark.at <= rows[i].settledAt + Slack
  BY <1>0 DEF LaneInv, Marked, MarkOK
<1> QED
  BY <1>1 DEF LaneMarks

\* Nothing uncounted lies behind the point the lane's next window starts from.
LEMMA BoundIs ==
  ASSUME SbIInv, LaneInv, NEW s \in Sessions, LaneHolds(s) # {}
  PROVE  /\ LaneBound(s) \in Nat
         /\ \A m \in AllSpent(s) : spent[s][m] <= LaneBound(s) => Covered(s, m)
<1>0. /\ now \in Nat /\ \A m \in AllSpent(s) : spent[s][m] \in Nat
  BY HostTypes
<1>1. CASE LaneMarks(s) # {}
  <2> DEFINE T == {w.at : w \in LaneMarks(s)}
  <2>1. T \in SUBSET (0..now) /\ T # {}
    BY <1>1, MarksAre
  <2>2. LaneBound(s) = MaxOf(T)
    BY <1>1 DEF LaneBound
  <2>3. MaxOf(T) \in T
    <3> HIDE DEF T
    <3> QED
      BY <1>0, <2>1, MaxIs
  <2>4. PICK w \in LaneMarks(s) : LaneBound(s) = w.at
    BY <2>2, <2>3
  <2>5. PICK i \in Ids : rows[i].mark = w /\ w # None /\ MarkOK(s, i) /\ w.at \in 0..now
    BY <2>4, MarksAre
  <2> QED
    BY <1>0, <2>4, <2>5 DEF MarkOK
<1>2. CASE LaneMarks(s) = {} /\ SettledTimes(s) # {}
  <2>1. ASSUME NEW t \in SettledTimes(s)
        PROVE  t \in 0..now /\ \A m \in AllSpent(s) : spent[s][m] <= t => Covered(s, m)
    <3>1. PICK i \in LaneHolds(s) : rows[i].state = "settled" /\ rows[i].settledAt = t
      BY <2>1 DEF SettledTimes
    <3>2. i \in Ids /\ IsLaneRow(rows[i], s, None) /\ rows[i].kind = "hold"
      BY DEF LaneHolds
    <3>3. MarkOK(s, i) /\ rows[i].mark = None
      BY <1>2, <3>1, <3>2, MarksAre DEF LaneInv, Marked
    <3> QED
      BY <1>0, <3>1, <3>2, <3>3 DEF MarkOK, Covered
  <2>2. SettledTimes(s) \in SUBSET (0..now)
    BY <2>1
  <2>3. LaneBound(s) = MaxOf(SettledTimes(s))
    BY <1>2 DEF LaneBound
  <2>4. LaneBound(s) \in SettledTimes(s)
    BY <1>0, <1>2, <2>2, <2>3, MaxIs
  <2> QED
    BY <1>0, <2>1, <2>4
<1>3. CASE LaneMarks(s) = {} /\ SettledTimes(s) = {}
  <2> DEFINE T == {created[i] : i \in LaneHolds(s)}
  <2>1. LaneBound(s) = MinimumOf(T)
    BY <1>3 DEF LaneBound
  <2>2. T \in SUBSET (0..MaxTime) /\ T # {} /\ MaxTime \in Nat
    BY ConstantFacts DEF SbIInv, SbTyped, LaneHolds
  <2>3. MinimumOf(T) \in T /\ \A x \in T : MinimumOf(T) <= x
    <3> HIDE DEF T
    <3> QED
      BY <2>2, LeastIs
  <2>4. LaneBound(s) \in Nat /\ \A i \in LaneHolds(s) : created[i] \in Nat /\ LaneBound(s) <= created[i]
    BY <2>1, <2>2, <2>3
  <2>5. ASSUME NEW m \in AllSpent(s) PROVE ~(spent[s][m] <= LaneBound(s))
    <3>1. PICK i \in LaneHolds(s) : created[i] < spent[s][m]
      BY DEF LaneInv, HeldBefore
    <3> QED
      BY <1>0, <2>4, <3>1
  <2> QED
    BY <2>4, <2>5
<1> QED
  BY <1>1, <1>2, <1>3

\* The backward scan stops behind no line of the session's own that is after the
\* bound.
LEMMA ScanSees ==
  ASSUME SbIInv, LaneInv, NEW s \in Sessions, NEW after \in Nat, NEW j \in Lines(s),
         file[s][j].owner = s, file[s][j].ts > after
  PROVE  file[s][j] \in Scanned(s, after)
<1> DEFINE stops == {k \in 1..Len(file[s]) : file[s][k].ts < after - Slack}
           first == IF stops = {} THEN 0 ELSE MaxOf(stops)
<1>0. /\ Len(file[s]) \in Nat /\ Slack \in Nat /\ j \in 1..Len(file[s])
      /\ \A k \in Lines(s) : file[s][k].ts \in Nat
  BY HostTypes, BudgetAssumption DEF Lines
<1>1. Scanned(s, after) = {file[s][k] : k \in (first + 1)..Len(file[s])}
  BY DEF Scanned
<1>2. stops \in SUBSET (0..Len(file[s])) /\ \A k \in stops : k \in Lines(s) /\ file[s][k].ts < after - Slack
  BY <1>0 DEF Lines
<1> HIDE DEF stops
<1>3. CASE stops = {}
  BY <1>0, <1>1, <1>3
<1>4. CASE stops # {}
  <2>1. first \in stops
    BY <1>0, <1>2, <1>4, MaxIs
  <2> HIDE DEF first
  <2>2. first \in Nat /\ first \in Lines(s) /\ file[s][first].ts < after /\ file[s][first].ts \in Nat
    <3>1. first \in Lines(s) /\ file[s][first].ts < after - Slack
      BY <1>2, <2>1
    <3>2. file[s][first].ts \in Nat /\ first \in Nat
      BY <3>1, HostTypes
    <3> QED
      BY <1>0, <3>1, <3>2
  <2>3. ~(j <= first)
    <3>1. j < first => file[s][j].ts <= file[s][first].ts
      BY <2>2 DEF LaneInv, Filed, OwnLine
    <3> QED
      BY <1>0, <2>2, <3>1
  <2> QED
    BY <1>0, <1>1, <2>2, <2>3
<1> QED
  BY <1>3, <1>4

\* What a lane's window measures: messages of the session no mark has counted, and
\* every message up to the newest record read that was not accounted for before.
LEMMA WindowIs ==
  ASSUME SbIInv, LaneInv, NEW s \in Sessions
  PROVE  LET w == LaneWindow(s, TRUE) IN
         /\ w.msgs \in SUBSET AllSpent(s)
         /\ w.msgs \cap CountedIds(s) = {}
         /\ w.tag = "priced" => w.msgs # {}
         /\ w.msgs # {} =>
              /\ MaxOf(w.last) \in 0..now
              /\ \A m \in AllSpent(s) :
                   spent[s][m] <= MaxOf(w.last) => Covered(s, m) \/ m \in w.msgs
<1> DEFINE w == LaneWindow(s, TRUE)
           after == LaneBound(s)
           ids == CountedIds(s)
           looked == {l \in Scanned(s, after) : l.ts > after /\ l.msg \notin ids}
           own == {l \in looked : l.owner = s /\ l.ts <= now + Skew}
<1>0. now \in Nat /\ Skew \in Nat /\ \A m \in AllSpent(s) : m \in Nat /\ spent[s][m] \in Nat
  BY HostTypes, BudgetAssumption
<1>1. /\ w.msgs = {l.msg : l \in own} /\ w.last = {l.ts : l \in own}
      /\ w.tag = "priced" => own # {}
  BY DEF LaneWindow, Observed
<1>2. \A l \in Scanned(s, after) : \E j \in Lines(s) : l = file[s][j]
  <2>1. file \in [Sessions -> Seq(Line)]
    BY DEF SbIInv, SbTyped
  <2>2. PICK first \in Nat : Scanned(s, after) = {file[s][j] : j \in (first + 1)..Len(file[s])}
    BY <2>1, ScanIs
  <2>3. \A j \in (first + 1)..Len(file[s]) : j \in Lines(s)
    BY <2>1 DEF Lines
  <2> QED
    BY <2>2, <2>3
<1>3. ASSUME NEW l \in own
      PROVE  /\ l.msg \in AllSpent(s) /\ l.msg \notin ids /\ l.ts \in 0..now
             /\ \A m \in AllSpent(s) : spent[s][m] <= l.ts =>
                  \E j \in Lines(s) : file[s][j] = LineOf(s, m)
  <2>1. PICK j \in Lines(s) : l = file[s][j]
    BY <1>2
  <2>2. OwnLine(s, j) /\ l.ts <= now /\ l.ts \in Nat
    BY <2>1, HostTypes DEF LaneInv, Filed
  <2>3. l.msg \in AllSpent(s) /\ \A m \in AllSpent(s) : l.msg < m => l.ts < spent[s][m]
    BY <2>1, <2>2 DEF OwnLine
  <2>4. ASSUME NEW m \in AllSpent(s), spent[s][m] <= l.ts PROVE m \in 1..l.msg
    <3>1. ~(l.msg < m)
      BY <1>0, <2>2, <2>3, <2>4
    <3> QED
      BY <1>0, <2>3, <3>1 DEF AllSpent
  <2> QED
    BY <1>0, <2>1, <2>2, <2>3, <2>4 DEF OwnLine
<1>4. w.msgs \in SUBSET AllSpent(s) /\ w.msgs \cap ids = {}
  BY <1>1, <1>3
<1>5. ASSUME w.msgs # {}
      PROVE  /\ MaxOf(w.last) \in 0..now
             /\ \A m \in AllSpent(s) :
                  spent[s][m] <= MaxOf(w.last) => Covered(s, m) \/ m \in w.msgs
  <2>1. w.last \in SUBSET (0..now) /\ w.last # {}
    <3> HIDE DEF w, own
    <3> QED
      BY <1>1, <1>3, <1>5
  <2>2. MaxOf(w.last) \in w.last
    BY <1>0, <2>1, MaxIs
  <2>3. PICK l \in own : l.ts = MaxOf(w.last)
    BY <1>1, <2>2
  <2>4. after \in Nat /\ \A m \in AllSpent(s) : spent[s][m] <= after => Covered(s, m)
    <3>1. PICK m \in AllSpent(s) : TRUE
      BY <1>4, <1>5
    <3>2. LaneHolds(s) # {}
      BY <3>1 DEF LaneInv, HeldBefore
    <3> QED
      BY <3>2, BoundIs
  <2>5. ASSUME NEW m \in AllSpent(s), spent[s][m] <= l.ts, ~Covered(s, m) PROVE m \in w.msgs
    <3>1. PICK j \in Lines(s) : file[s][j] = LineOf(s, m)
      BY <1>3, <2>5
    <3> DEFINE x == file[s][j]
    <3>2. x.msg = m /\ x.ts = spent[s][m] /\ x.owner = s
      BY <3>1 DEF LineOf
    <3>3. x.ts > after
      BY <1>0, <2>4, <2>5, <3>2
    <3>4. x \in Scanned(s, after)
      BY <2>4, <3>2, <3>3, ScanSees
    <3>5. m \notin ids
      <4>1. \A v \in LaneMarks(s) : \A k \in v.ids : Covered(s, k)
        BY MarksAre DEF MarkOK
      <4> QED
        BY <2>5, <4>1 DEF CountedIds
    <3>6. x.ts <= now + Skew
      BY <1>0, <3>2 DEF LaneInv, Stamped
    <3>7. x \in own
      BY <3>2, <3>3, <3>4, <3>5, <3>6
    <3> QED
      BY <1>1, <3>2, <3>7
  <2> HIDE DEF w, own
  <2> QED
    BY <2>1, <2>2, <2>3, <2>5
<1>6. w.tag = "priced" => w.msgs # {}
  <2> HIDE DEF w, own
  <2> QED
    BY <1>1
<1> QED
  BY <1>4, <1>5, <1>6

\* The ids the lane's marks hold are messages accounted for.
LEMMA IdsAre ==
  ASSUME SbIInv, LaneInv, NEW s \in Sessions
  PROVE  CountedIds(s) \subseteq AllSpent(s) /\ \A m \in CountedIds(s) : Covered(s, m)
<1>1. \A v \in LaneMarks(s) : v.ids \subseteq AllSpent(s) /\ \A m \in v.ids : Covered(s, m)
  BY MarksAre DEF MarkOK
<1> QED
  BY <1>1 DEF CountedIds

\* The same of a window that may have been unreadable.
LEMMA ReadIs ==
  ASSUME SbIInv, LaneInv, NEW s \in Sessions, NEW w, w = LaneWindow(s, TRUE) \/ w = Unavailable
  PROVE  /\ w.msgs \in SUBSET AllSpent(s)
         /\ w.msgs \cap CountedIds(s) = {}
         /\ w.tag = "priced" => w.msgs # {}
         /\ w.msgs # {} =>
              /\ MaxOf(w.last) \in 0..now
              /\ \A m \in AllSpent(s) :
                   spent[s][m] <= MaxOf(w.last) => Covered(s, m) \/ m \in w.msgs
         /\ Cents(w) \in 0..I64Max
<1>1. CASE w = Unavailable
  BY <1>1, FS_EmptySet, ConstantFacts DEF Unavailable, Cents
<1>2. CASE w = LaneWindow(s, TRUE)
  <2> DEFINE n == Len(spent[s])
  <2>1. n \in Nat /\ n <= MaxMsgs /\ MaxMsgs \in 0..I64Max /\ I64Max \in Nat
    BY HostTypes, BudgetAssumption DEF LaneInv, LaneTyped
  <2>2. w.msgs \in SUBSET (1..n)
    BY <1>2, WindowIs DEF AllSpent
  <2>3. IsFiniteSet(1..n) /\ Cardinality(1..n) = n
    <3>1. (n - 1 + 1 = n /\ 1 <= n) \/ n = 0
      BY <2>1
    <3> HIDE DEF n
    <3> QED
      BY <2>1, <3>1, FS_Interval
  <2>4. IsFiniteSet(w.msgs) /\ Cardinality(w.msgs) <= n
    BY <2>2, <2>3, FS_Subset
  <2>5. Cents(w) \in Nat /\ Cents(w) <= n
    BY <2>4, FS_CardinalityType DEF Cents
  <2>6. Cents(w) \in 0..I64Max
    BY <2>1, <2>5
  <2> QED
    BY <1>2, <2>6, WindowIs
<1> QED
  BY <1>1, <1>2

\* A settlement leaves a mark exactly if it has priced a message.
LEMMA MarkIs ==
  ASSUME SbIInv, LaneInv, NEW s \in Sessions, NEW w, w = LaneWindow(s, TRUE) \/ w = Unavailable
  PROVE  LET v == MarkOf(w, CountedIds(s)) IN
         /\ v \in Opt(Mark)
         /\ v # None => w.msgs # {} /\ v.at = MaxOf(w.last) /\ v.ids = CountedIds(s) \cup w.msgs
         /\ w.tag = "priced" \/ (w.tag = "future" /\ w.msgs # {}) => v # None
<1> DEFINE ids == CountedIds(s)
           v == MarkOf(w, ids)
<1>0. now \in 0..MaxTime /\ MaxTime \in Nat /\ None \notin Mark
  BY ConstantFacts, BudgetRowAssumption DEF SbIInv, SbTyped
<1>1. AllSpent(s) \subseteq Msgs
  <2>1. Len(spent[s]) \in Nat /\ Len(spent[s]) <= MaxMsgs /\ MaxMsgs \in Nat
    BY HostTypes, BudgetAssumption DEF LaneInv, LaneTyped
  <2> QED
    BY <2>1 DEF AllSpent, Msgs
<1>2. /\ w.msgs \in SUBSET AllSpent(s)
      /\ w.tag = "priced" => w.msgs # {}
      /\ w.msgs # {} => MaxOf(w.last) \in 0..now
  BY ReadIs
<1>3. CASE w.tag \in {"priced", "future"} /\ w.msgs # {}
  <2>1. v = [at |-> MaxOf(w.last), ids |-> ids \cup w.msgs]
    BY <1>3 DEF MarkOf
  <2>2. MaxOf(w.last) \in 0..MaxTime
    BY <1>0, <1>2, <1>3
  <2>3. ids \cup w.msgs \in SUBSET Msgs
    <3>1. ids \subseteq AllSpent(s)
      BY IdsAre
    <3> QED
      BY <1>1, <1>2, <3>1
  <2>4. [at |-> MaxOf(w.last), ids |-> ids \cup w.msgs] \in Mark
    BY <2>2, <2>3 DEF Mark
  <2> HIDE DEF v
  <2>5. v \in Mark /\ v.at = MaxOf(w.last) /\ v.ids = ids \cup w.msgs /\ v # None
    BY <1>0, <2>1, <2>4
  <2> QED
    BY <1>3, <2>5 DEF v, Opt
<1>4. CASE ~(w.tag \in {"priced", "future"} /\ w.msgs # {})
  BY <1>2, <1>4 DEF MarkOf, Opt
<1> QED
  BY <1>3, <1>4

\* A settlement of s on row i, from window w: either its messages are measured and
\* marked, or everything the session has spent is covered flat.
LaneSettles(s, i, w) ==
  /\ w = LaneWindow(s, TRUE) \/ w = Unavailable
  /\ rows'[i] \in Row
  /\ IsLaneRow(rows'[i], s, None) /\ rows'[i].state = "settled" /\ rows'[i].settledAt = now
  /\ rows'[i].mark = MarkOf(w, CountedIds(s))
  /\ rows[i] # None => /\ rows[i].state # "settled" /\ rows'[i].kind = rows[i].kind
                       /\ IsLaneRow(rows[i], s, None) /\ created'[i] = created[i]
  /\ \A j \in Ids : j # i => rows'[j] = rows[j] /\ created'[j] = created[j]
  /\ created'[i] <= now
  /\ \/ /\ w.tag = "priced" \/ (w.tag = "future" /\ w.msgs # {})
        /\ counted' = [counted EXCEPT ![i] = {s} \X w.msgs] /\ flat' = flat
     \/ /\ counted' = [counted EXCEPT ![i] = {}]
        /\ flat' = [flat EXCEPT ![s] = @ \cup AllSpent(s)]

LEMMA LaneMeasure ==
  ASSUME SbIInv, LaneInv, NEW s \in Sessions, NEW i \in Ids, NEW w, LaneSettles(s, i, w),
         now' = now, spent' = spent, file' = file
  PROVE  LaneInv'
<1> DEFINE ids == CountedIds(s)
           measured == w.tag = "priced" \/ (w.tag = "future" /\ w.msgs # {})
<1>0. /\ now \in Nat /\ now \in 0..MaxTime /\ MaxMsgs \in Nat /\ Len(spent[s]) \in Nat
      /\ Len(spent[s]) <= MaxMsgs /\ counted \in [Ids -> SUBSET (Sessions \X Msgs)]
      /\ flat \in [Sessions -> SUBSET Msgs]
  <2>1. MaxMsgs \in Nat
    BY BudgetAssumption
  <2> QED
    BY <2>1, HostTypes DEF SbIInv, SbTyped, LaneInv, LaneTyped
<1>1. /\ w.msgs \in SUBSET AllSpent(s) /\ w.msgs \cap ids = {}
      /\ w.tag = "priced" => w.msgs # {}
      /\ w.msgs # {} => /\ MaxOf(w.last) \in 0..now
                        /\ \A m \in AllSpent(s) :
                             spent[s][m] <= MaxOf(w.last) => Covered(s, m) \/ m \in w.msgs
  BY ReadIs DEF LaneSettles
<1>2. AllSpent(s) \subseteq Msgs
  BY <1>0 DEF AllSpent, Msgs
<1>3. ids \subseteq AllSpent(s) /\ \A m \in ids : Covered(s, m)
  BY IdsAre
<1>4. \A j \in Ids : \A m : <<s, m>> \in counted[j] => m \in ids
  <2> SUFFICES ASSUME NEW j \in Ids, NEW m, <<s, m>> \in counted[j] PROVE m \in ids
    OBVIOUS
  <2>1. /\ IsLaneRow(rows[j], s, None) /\ rows[j].state = "settled"
        /\ rows[j].mark # None /\ m \in rows[j].mark.ids
    BY DEF LaneInv, CountedIsMarked
  <2> QED
    BY <2>1, MarksAre DEF CountedIds
<1>5. counted[i] = {}
  <2> SUFFICES ASSUME NEW c \in counted[i] PROVE FALSE
    OBVIOUS
  <2> QED
    BY DEF LaneInv, CountedIsMarked, IsLaneRow, LaneSettles
<1>6. PICK C \in SUBSET ({s} \X AllSpent(s)) :
        /\ counted' = [counted EXCEPT ![i] = C]
        /\ C = {s} \X w.msgs \/ C = {}
  BY <1>1 DEF LaneSettles
<1>7. counted'[i] = C /\ \A j \in Ids : j # i => counted'[j] = counted[j]
  BY <1>0, <1>6
<1>8. \A r \in Sessions : \A m : Covered(r, m) => Covered(r, m)'
  <2>1. \A r \in Sessions : flat[r] \subseteq flat'[r]
    BY <1>0 DEF LaneSettles
  <2> QED
    BY <1>5, <1>7, <2>1 DEF Covered
<1>9. LaneTyped'
  <2>1. C \in SUBSET (Sessions \X Msgs)
    BY <1>2, <1>6
  <2>2. counted' \in [Ids -> SUBSET (Sessions \X Msgs)]
    BY <1>0, <1>6, <2>1
  <2>3. flat' \in [Sessions -> SUBSET Msgs]
    BY <1>0, <1>2 DEF LaneSettles
  <2>4. \A j \in Ids : rows'[j] \in Opt(Row)
    BY DEF LaneInv, LaneTyped, LaneSettles, Opt
  <2> QED
    BY <2>2, <2>3, <2>4 DEF LaneInv, LaneTyped
<1>10. MessageCountedOnce'
  <2>1. \A j \in Ids : j # i => C \cap counted[j] = {}
    BY <1>1, <1>4, <1>6
  <2> QED
    BY <1>7, <2>1 DEF LaneInv, MessageCountedOnce
<1>11. \A j \in Ids : created'[j] <= now'
  BY DEF LaneInv, LaneSettles
<1> DEFINE v == MarkOf(w, ids)
<1>12. /\ v # None => /\ w.msgs # {} /\ v.at = MaxOf(w.last) /\ v.ids = ids \cup w.msgs
       /\ measured => v # None
  BY <1>1, MarkIs DEF LaneSettles
<1>13. /\ IsLaneRow(rows'[i], s, None) /\ rows'[i].state = "settled" /\ rows'[i].settledAt = now
       /\ rows'[i].mark = v /\ \A j \in Ids : j # i => rows'[j] = rows[j] /\ created'[j] = created[j]
  BY DEF LaneSettles
<1> HIDE DEF v
<1>14. C # {} => measured
  BY <1>0, <1>6 DEF LaneSettles
<1>15. CountedIsMarked'
  <2> SUFFICES ASSUME NEW j \in Ids, NEW c \in counted'[j]
               PROVE  /\ IsLaneRow(rows'[j], c[1], None) /\ rows'[j].state = "settled"
                      /\ rows'[j].mark # None /\ c[2] \in rows'[j].mark.ids
    BY DEF CountedIsMarked
  <2>1. CASE j = i
    <3>1. c[1] = s /\ c[2] \in w.msgs /\ measured
      BY <1>6, <1>7, <1>14, <2>1
    <3> QED
      BY <1>12, <1>13, <2>1, <3>1
  <2>2. CASE j # i
    BY <1>7, <1>13, <2>2 DEF LaneInv, CountedIsMarked
  <2> QED
    BY <2>1, <2>2
<1>16. \A m \in AllSpent(s) : m \in w.msgs => Covered(s, m)'
  <2> SUFFICES ASSUME NEW m \in AllSpent(s), m \in w.msgs PROVE Covered(s, m)'
    OBVIOUS
  <2>1. CASE counted' = [counted EXCEPT ![i] = {s} \X w.msgs]
    BY <1>0, <2>1 DEF Covered
  <2>2. CASE flat' = [flat EXCEPT ![s] = @ \cup AllSpent(s)]
    BY <1>0, <2>2 DEF Covered
  <2> QED
    BY <2>1, <2>2 DEF LaneSettles
<1>17. MarkOK(s, i)'
  <2>1. v # None =>
          /\ v.at \in Nat /\ v.at <= now
          /\ \A m \in AllSpent(s) : spent[s][m] <= v.at => Covered(s, m)'
          /\ v.ids \subseteq AllSpent(s)
          /\ \A m \in v.ids : Covered(s, m)'
    BY <1>0, <1>1, <1>3, <1>8, <1>12, <1>16
  <2>2. v = None => \A m \in AllSpent(s) : m \in flat'[s]
    BY <1>0, <1>12 DEF LaneSettles
  <2>3. AllSpent(s)' = AllSpent(s)
    BY DEF AllSpent
  <2> QED
    BY <1>0, <1>13, <2>1, <2>2, <2>3 DEF MarkOK
<1>18. ASSUME NEW r \in Sessions PROVE Stamped(r)' /\ Filed(r)' /\ Marked(r)' /\ HeldBefore(r)'
  <2>0. AllSpent(r)' = AllSpent(r) /\ Lines(r)' = Lines(r)
    BY DEF AllSpent, Lines
  <2>1. Stamped(r) /\ Filed(r) /\ Marked(r) /\ HeldBefore(r)
    BY DEF LaneInv
  <2>2. Stamped(r)'
    BY <2>0, <2>1 DEF Stamped
  <2>3. Filed(r)'
    BY <2>0, <2>1 DEF Filed, OwnLine, LineOf
  <2>4. Marked(r)'
    <3> SUFFICES ASSUME NEW j \in Ids, IsLaneRow(rows'[j], r, None), rows'[j].state = "settled"
                 PROVE  MarkOK(r, j)'
      BY DEF Marked
    <3>1. CASE j = i
      <4>1. r = s
        BY <1>13, <3>1 DEF IsLaneRow
      <4> QED
        BY <1>17, <3>1, <4>1
    <3>2. CASE j # i
      <4>1. rows'[j] = rows[j] /\ MarkOK(r, j)
        BY <1>13, <2>1, <3>2 DEF Marked
      <4>2. flat[r] \subseteq flat'[r]
        BY <1>0 DEF LaneSettles
      <4> QED
        BY <1>8, <2>0, <4>1, <4>2 DEF MarkOK
    <3> QED
      BY <3>1, <3>2
  <2>5. HeldBefore(r)'
    <3> SUFFICES ASSUME NEW m \in AllSpent(r)
                 PROVE  \E j \in LaneHolds(r)' : created'[j] < spent[r][m]
      BY <2>0 DEF HeldBefore
    <3>1. PICK j \in LaneHolds(r) : created[j] < spent[r][m]
      BY <2>1 DEF HeldBefore
    <3>2. j \in Ids /\ IsLaneRow(rows[j], r, None) /\ rows[j].kind = "hold" /\ rows[j] # None
      BY DEF LaneHolds, IsLaneRow
    <3>3. IsLaneRow(rows'[j], r, None) /\ rows'[j].kind = "hold" /\ created'[j] = created[j]
      BY <1>13, <3>2 DEF LaneSettles, IsLaneRow
    <3> QED
      BY <3>1, <3>2, <3>3 DEF LaneHolds
  <2> QED
    BY <2>2, <2>3, <2>4, <2>5
<1> QED
  BY <1>9, <1>10, <1>11, <1>15, <1>18 DEF LaneInv

-----------------------------------------------------------------------------
(* The steps of the ledger *)

\* A row whose outcome changes stays a row.
LEMMA LapsedTyped ==
  ASSUME NEW x \in Row, NEW c \in Nat
  PROVE  Lapsed(x, c) \in Row /\ Released(x, c) \in Row
<1>1. "expired" \in RowStates /\ "released" \in RowStates /\ c \in Opt(Nat)
  BY DEF RowStates, Opt
<1>2. Lapsed(x, c) \in Row
  BY <1>1 DEF Lapsed, Row
<1>3. Released(x, c) \in Row
  BY <1>1 DEF Released, Row
<1> QED
  BY <1>2, <1>3

LEMMA RenewedTyped ==
  ASSUME NEW x \in Row, NEW e \in Nat
  PROVE  Renewed(x, e) \in Row
  BY DEF Renewed, Row

\* The sweep of an admission keeps the rows of the lanes.
LEMMA SweepStays ==
  ASSUME SbIInv, LaneInv
  PROVE  LET u == Swept(rows, now) IN
         /\ \A i \in Ids : u[i] \in Opt(Row)
         /\ \A i \in Ids : rows[i] = None => u[i] = None
         /\ \A i \in Ids : rows[i] # None =>
              /\ u[i] # None /\ Ages(rows[i], u[i])
              /\ rows[i].state = "settled" => u[i] = rows[i]
              /\ u[i].state = "settled" => rows[i].state = "settled"
<1> DEFINE u == Swept(rows, now)
<1>0. now \in Nat /\ issued \in Nat /\ None \notin Row
  BY ConstantFacts DEF SbIInv, SbTyped
<1>1. /\ \A i \in Ids : rows[i] = None => u[i] = None
      /\ \A i \in Ids : rows[i] # None =>
           /\ Ages(rows[i], u[i])
           /\ rows[i].state # "active" => u[i] = rows[i]
           /\ u[i] = rows[i] \/ u[i].state = "expired"
  BY <1>0, SweptAges DEF SbIInv
<1>2. ASSUME NEW i \in Ids, rows[i] # None PROVE u[i] \in Row
  <2>1. rows[i] \in Row /\ IsRow(rows[i])
    BY <1>2 DEF LaneInv, LaneTyped, Opt, SbIInv, TableInv
  <2>2. ~IsGatewayHold(rows[i])
    BY <2>1 DEF IsRow, RowsWith, IsGatewayHold
  <2>3. SweptRow(rows[i], now) = rows[i] \/ SweptRow(rows[i], now) = Lapsed(rows[i], now)
    BY <2>2 DEF SweptRow, Lapsed
  <2>4. u[i] = SweptRow(rows[i], now)
    BY DEF Swept
  <2> QED
    BY <1>0, <2>1, <2>3, <2>4, LapsedTyped
<1> HIDE DEF u
<1>3. \A i \in Ids : u[i] \in Opt(Row)
  BY <1>1, <1>2 DEF Opt
<1>4. \A i \in Ids : rows[i] # None => u[i] # None
  BY <1>0, <1>2
<1> QED
  BY <1>1, <1>3, <1>4 DEF u

LEMMA LaneQuiet ==
  ASSUME SbIInv, LaneInv, UNCHANGED ledger, UNCHANGED host, now' \in Nat, now <= now'
  PROVE  LaneInv'
<1>1. /\ rows' = rows /\ created' = created /\ counted' = counted /\ flat' = flat
      /\ spent' = spent /\ file' = file
  BY DEF ledger, history, host
<1>2. \A i \in Ids : created[i] \in Int /\ created[i] <= now
  BY ConstantFacts DEF SbIInv, SbTyped, LaneInv
<1>3. now \in Int
  BY ConstantFacts DEF SbIInv, SbTyped
<1>4. RowsStay
  BY <1>1, <1>2, <1>3 DEF RowsStay, LaneInv, LaneTyped
<1> QED
  BY <1>1, <1>4, LaneKept

LEMMA LaneHeartbeat ==
  ASSUME SbIInv, LaneInv, NEW s \in Sessions, Heartbeat(s)
  PROVE  LaneInv'
<1> DEFINE live(i) == /\ rows[i] # None /\ rows[i].who.session = s
                      /\ rows[i].pool = Period(now) /\ rows[i].state = "active"
                      /\ rows[i].expiresAt > now
<1>0. now \in Nat /\ now + HoldTTL \in Nat /\ None \notin Row
  BY ConstantFacts DEF SbIInv, SbTyped
<1>1. /\ rows' = [i \in Ids |-> IF live(i) THEN Renewed(rows[i], now + HoldTTL) ELSE rows[i]]
      /\ now' = now /\ created' = created /\ counted' = counted /\ flat' = flat
      /\ spent' = spent /\ file' = file
  BY DEF Heartbeat, Renewed, host, history
<1>2. \A i \in Ids : rows'[i] = IF live(i) THEN Renewed(rows[i], now + HoldTTL) ELSE rows[i]
  BY <1>1
<1>3. ASSUME NEW i \in Ids, live(i)
      PROVE  LET y == Renewed(rows[i], now + HoldTTL) IN
             y \in Row /\ y # None /\ Ages(rows[i], y) /\ y.state = "active"
  <2>1. rows[i] \in Row /\ IsRow(rows[i]) /\ rows[i].state = "active"
    BY <1>3 DEF LaneInv, LaneTyped, Opt, SbIInv, TableInv
  <2> QED
    BY <1>0, <2>1, RenewedRow, RenewedTyped
<1> HIDE DEF live
<1>4. \A i \in Ids : live(i) => rows[i] # None /\ rows[i].state = "active"
  BY DEF live
<1>5. RowsStay
  BY <1>1, <1>2, <1>3, <1>4 DEF RowsStay, Ages, LaneInv, LaneTyped, Opt
<1> QED
  BY <1>0, <1>1, <1>5, LaneKept

LEMMA LaneRefused ==
  ASSUME SbIInv, LaneInv, NEW s, NEW a, NEW m, AdmitRefused(s, a, m)
  PROVE  LaneInv'
<1> DEFINE u == Swept(rows, now)
<1>0. now \in Nat
  BY ConstantFacts DEF SbIInv, SbTyped
<1>1. /\ rows' = u /\ now' = now /\ created' = created /\ counted' = counted /\ flat' = flat
      /\ spent' = spent /\ file' = file
  BY DEF AdmitRefused, host, history
<1>2. /\ \A i \in Ids : u[i] \in Opt(Row)
      /\ \A i \in Ids : rows[i] = None => u[i] = None
      /\ \A i \in Ids : rows[i] # None =>
           /\ u[i] # None /\ Ages(rows[i], u[i])
           /\ rows[i].state = "settled" => u[i] = rows[i]
           /\ u[i].state = "settled" => rows[i].state = "settled"
  BY SweepStays
<1> HIDE DEF u
<1>3. RowsStay
  BY <1>1, <1>2 DEF RowsStay, Ages, LaneInv
<1> QED
  BY <1>0, <1>1, <1>3, LaneKept

LEMMA LaneRenewed ==
  ASSUME SbIInv, LaneInv, NEW s \in Sessions, NEW a, NEW m, AdmitRenewed(s, a, m)
  PROVE  LaneInv'
<1> DEFINE u == Swept(rows, now)
           live == LiveHold(u, Period(now), s, a)
           e == now + HoldTTL
           y == Renewed(u[live], e)
<1>0. /\ now \in Nat /\ e \in Nat /\ None \notin Row /\ issued \in Nat
      /\ created \in [Ids -> 0..MaxTime]
  BY ConstantFacts DEF SbIInv, SbTyped
<1>1. /\ live # None
      /\ rows' = [u EXCEPT ![live] = y]
      /\ now' = now /\ created' = created /\ counted' = counted /\ flat' = flat
      /\ spent' = spent /\ file' = file
  BY DEF AdmitRenewed, Renewed, host, history
<1>2. /\ \A i \in Ids : u[i] \in Opt(Row)
      /\ \A i \in Ids : rows[i] = None => u[i] = None
      /\ \A i \in Ids : rows[i] # None =>
           /\ u[i] # None /\ Ages(rows[i], u[i])
           /\ rows[i].state = "settled" => u[i] = rows[i]
           /\ u[i].state = "settled" => rows[i].state = "settled"
  BY SweepStays
<1>3. /\ live \in Ids /\ u[live] # None /\ u[live].state = "active"
  BY <1>0, <1>1, LiveHoldIs
<1>4. IsTable(u) /\ IsRow(u[live])
  <2>1. TableInv(u, issued)
    BY AdmitSweep
  <2> QED
    BY <1>3, <2>1 DEF TableInv
<1> HIDE DEF u, live, e
<1>5. y \in Row /\ y # None /\ Ages(u[live], y) /\ y.state = "active"
  <2>1. u[live] \in Row
    BY <1>2, <1>3 DEF Opt
  <2> QED
    BY <1>0, <1>3, <1>4, <2>1, RenewedRow, RenewedTyped
<1> HIDE DEF y
<1>6. rows'[live] = y /\ \A i \in Ids : i # live => rows'[i] = u[i]
  BY <1>1, <1>3, <1>4 DEF IsTable
<1>7. rows[live] # None /\ rows[live].state = "active"
  BY <1>2, <1>3 DEF Ages
<1>8. RowsStay
  <2>1. ASSUME NEW i \in Ids, rows[i] # None
        PROVE  /\ rows'[i] # None /\ rows'[i].kind = rows[i].kind /\ rows'[i].who = rows[i].who
               /\ rows'[i].lane = rows[i].lane
               /\ rows[i].state = "settled" => rows'[i] = rows[i]
               /\ rows'[i].state = "settled" => rows[i].state = "settled"
    BY <1>2, <1>5, <1>6, <1>7, <2>1 DEF Ages
  <2>2. \A i \in Ids : rows[i] = None => rows'[i] = None
    BY <1>2, <1>6, <1>7
  <2>3. \A i \in Ids : rows'[i] \in Opt(Row) /\ created'[i] <= now'
    BY <1>1, <1>2, <1>5, <1>6 DEF LaneInv, Opt
  <2> QED
    BY <1>1, <2>1, <2>2, <2>3 DEF RowsStay
<1> QED
  BY <1>0, <1>1, <1>8, LaneKept

LEMMA LaneGranted ==
  ASSUME SbIInv, LaneInv, NEW s \in Sessions, NEW agent \in Opts(Agents), NEW m \in Opts(Prompts),
         NEW readFails \in BOOLEAN, AdmitGranted(s, agent, m, readFails)
  PROVE  LaneInv'
<1> DEFINE p == Period(now)
           u == Swept(rows, now)
           pkey == PromptKey(s, agent, m)
           key == IF m # None /\ KeyRows(u, p, "local-budget", pkey) = {}
                  THEN pkey ELSE NonceKey(s, agent)
           hold == HoldRow(p, Who(s), key, cfg.hold, now + HoldTTL, LaneOf(agent), "turn_hold")
           x == IF readFails THEN Released(hold, now) ELSE hold
           n == issued + 1
<1>0. /\ now \in Nat /\ now + HoldTTL \in Nat /\ None \notin Row /\ issued \in Nat
      /\ created \in [Ids -> 0..MaxTime] /\ cfg.hold \in 0..I64Max
  BY ConstantFacts DEF SbIInv, SbTyped
<1>1. /\ issued < MaxRows
      /\ rows' = [u EXCEPT ![n] = x]
      /\ created' = [created EXCEPT ![n] = now]
      /\ now' = now /\ counted' = counted /\ flat' = flat /\ spent' = spent /\ file' = file
  BY DEF AdmitGranted, LaneOf, host, history
<1>2. /\ \A i \in Ids : u[i] \in Opt(Row)
      /\ \A i \in Ids : rows[i] = None => u[i] = None
      /\ \A i \in Ids : rows[i] # None =>
           /\ u[i] # None /\ Ages(rows[i], u[i])
           /\ rows[i].state = "settled" => u[i] = rows[i]
           /\ u[i].state = "settled" => rows[i].state = "settled"
  BY SweepStays
<1>3. IsTable(u) /\ p \in Periods /\ n \in Ids /\ n \in Nat /\ rows[n] = None
  <2>1. TableInv(u, issued) /\ p \in Periods
    BY AdmitSweep
  <2>2. n \in Ids /\ n \in Nat
    BY <1>0, <1>1, ConstantFacts
  <2> QED
    BY <1>0, <2>1, <2>2 DEF TableInv, SbIInv
<1>4. key \in Key
  <2>1. m # None => pkey \in Key
    BY DEF PromptKey, Key, Opts
  <2>2. NonceKey(s, agent) \in Key
    BY <1>3 DEF NonceKey, Key, Opts
  <2> HIDE DEF pkey
  <2> QED
    BY <2>1, <2>2
<1>5. LaneOf(agent) \in Agents \cup {"main"}
  BY DEF LaneOf, Opts
<1> HIDE DEF key, p
<1>6. hold \in Row /\ IsRow(hold) /\ hold.state = "active"
  BY <1>0, <1>3, <1>4, <1>5, NewHoldRow
<1> HIDE DEF hold
<1>7. x \in Row /\ x # None /\ x.state # "settled"
  BY <1>0, <1>6, LapsedTyped, ReleasedRow
<1> HIDE DEF x, u, n
<1>8. /\ rows'[n] = x /\ \A i \in Ids : i # n => rows'[i] = u[i]
      /\ \A i \in Ids : i # n => created'[i] = created[i]
      /\ created'[n] = now
  BY <1>0, <1>1, <1>3 DEF IsTable
<1>9. RowsStay
  <2>1. ASSUME NEW i \in Ids, rows[i] # None
        PROVE  /\ rows'[i] # None /\ rows'[i].kind = rows[i].kind /\ rows'[i].who = rows[i].who
               /\ rows'[i].lane = rows[i].lane /\ created'[i] = created[i]
               /\ rows[i].state = "settled" => rows'[i] = rows[i]
               /\ rows'[i].state = "settled" => rows[i].state = "settled"
    BY <1>2, <1>3, <1>8, <2>1 DEF Ages
  <2>2. \A i \in Ids : rows[i] = None /\ rows'[i] # None => rows'[i].state # "settled"
    BY <1>2, <1>7, <1>8
  <2>3. \A i \in Ids : rows'[i] \in Opt(Row) /\ created'[i] <= now'
    BY <1>0, <1>1, <1>2, <1>7, <1>8 DEF LaneInv, Opt
  <2> QED
    BY <2>1, <2>2, <2>3 DEF RowsStay
<1> QED
  BY <1>0, <1>1, <1>9, LaneKept

\* A settled hold of the main lane, as a typed row.
LEMMA SettledTyped ==
  ASSUME NEW x \in Row, x.lane = "main", x.source = "turn_hold", NEW v \in 0..I64Max,
         NEW u \in {"known", "unknown"}, NEW c \in Nat, NEW w \in Opt(Mark)
  PROVE  LET y == Settled(x, v, u, c, "main", "turn_hold", w) IN
         /\ y \in Row /\ y.state = "settled" /\ y.settledAt = c /\ y.mark = w
         /\ y.kind = x.kind /\ y.who = x.who /\ y.lane = x.lane
<1> DEFINE y == [x EXCEPT !.state = "settled", !.settled = v, !.usage = u, !.settledAt = c,
                          !.lane = "main", !.source = "turn_hold", !.mark = w]
<1>0. "settled" \in RowStates /\ v \in Opt(0..I64Max) /\ u \in Opt({"known", "unknown"})
      /\ c \in Opt(Nat)
  BY DEF RowStates, Opt
<1>1. Settled(x, v, u, c, "main", "turn_hold", w) = y
  BY DEF Settled
<1>2. y \in Row
  BY <1>0 DEF Row, Opt
<1>3. /\ y.state = "settled" /\ y.settledAt = c /\ y.mark = w
      /\ y.kind = x.kind /\ y.who = x.who /\ y.lane = x.lane
  BY DEF Row
<1> HIDE DEF y
<1> QED
  BY <1>1, <1>2, <1>3

LEMMA LaneSettle ==
  ASSUME SbIInv, LaneInv, NEW s \in Sessions, NEW readable \in BOOLEAN, NEW bookFlat,
         NEW by, PendingHold(s) # None,
         SettleFromWindow(s, PendingHold(s), LaneWindow(s, readable), bookFlat, by)
  PROVE  LaneInv'
<1>1. PICK i : i = PendingHold(s)
  OBVIOUS
<1>2. PICK w : w = LaneWindow(s, readable)
  OBVIOUS
<1> DEFINE actual == ActualOf(w, rows[i].amount, bookFlat)
           value == IF actual = None THEN rows[i].amount ELSE actual
           usage == IF actual = None THEN "unknown" ELSE "known"
           v == MarkOf(w, CountedIds(s))
           y == Settled(rows[i], value, usage, now, "main", "turn_hold", v)
<1>3. /\ i \in Ids /\ IsLaneRow(rows[i], s, None) /\ rows[i].kind = "hold" /\ rows[i] # None
      /\ rows[i].state # "settled" /\ rows[i].lane = "main" /\ rows[i].source = "turn_hold"
      /\ rows[i] \in Row /\ rows[i].amount \in 0..I64Max
  <2>1. i \in LaneHolds(s) /\ rows[i].state # "settled"
    BY <1>1, PendingIs
  <2>2. i \in Ids /\ IsLaneRow(rows[i], s, None) /\ rows[i].kind = "hold"
    BY <2>1 DEF LaneHolds
  <2>3. rows[i] # None /\ rows[i].lane = "main"
    BY <2>2 DEF IsLaneRow
  <2>4. IsRow(rows[i]) /\ rows[i] \in Row
    BY <2>2, <2>3 DEF SbIInv, TableInv, LaneInv, LaneTyped, Opt
  <2> QED
    BY <2>1, <2>2, <2>3, <2>4 DEF IsRow, Row
<1>4. w = LaneWindow(s, TRUE) \/ w = Unavailable
  BY <1>2 DEF LaneWindow
<1>5. /\ Cents(w) \in 0..I64Max /\ v \in Opt(Mark)
      /\ w.tag = "priced" => w.msgs # {}
  BY <1>4, ReadIs, MarkIs
<1>6. actual = None \/ (actual = Cents(w) /\ (w.tag = "priced" \/ (w.tag = "future" /\ w.msgs # {})))
  BY DEF ActualOf
<1>7. /\ rows' = [rows EXCEPT ![i] = y]
      /\ counted' = [counted EXCEPT ![i] = IF actual = None THEN {} ELSE {s} \X w.msgs]
      /\ flat' = [flat EXCEPT ![s] = IF actual = None THEN @ \cup AllSpent(s) ELSE @]
      /\ UNCHANGED <<now, created, host>>
  BY <1>1, <1>2 DEF SettleFromWindow
<1>8. value \in 0..I64Max /\ usage \in {"known", "unknown"} /\ now \in Nat
  BY <1>3, <1>5, <1>6, HostTypes
<1> HIDE DEF v
<1>9. /\ y \in Row /\ y.state = "settled" /\ y.settledAt = now /\ y.mark = v
      /\ y.kind = rows[i].kind /\ y.who = rows[i].who /\ y.lane = rows[i].lane
  <2> HIDE DEF value, usage, actual
  <2> QED
    BY <1>3, <1>5, <1>8, SettledTyped
<1> HIDE DEF y
<1>10. rows'[i] = y /\ \A j \in Ids : j # i => rows'[j] = rows[j]
  BY <1>3, <1>7 DEF SbIInv, TableInv, IsTable
<1>11. y # None
  BY <1>9, ConstantFacts
<1>12. IsLaneRow(y, s, None)
  BY <1>3, <1>9, <1>11 DEF IsLaneRow
<1>13. created[i] <= now /\ created' = created /\ spent' = spent /\ file' = file /\ now' = now
  BY <1>3, <1>7 DEF LaneInv, host
<1>14. flat \in [Sessions -> SUBSET Msgs]
  BY DEF LaneInv, LaneTyped
<1>15. \/ /\ w.tag = "priced" \/ (w.tag = "future" /\ w.msgs # {})
          /\ counted' = [counted EXCEPT ![i] = {s} \X w.msgs] /\ flat' = flat
       \/ /\ counted' = [counted EXCEPT ![i] = {}]
          /\ flat' = [flat EXCEPT ![s] = @ \cup AllSpent(s)]
  <2>1. CASE actual = None
    <3> HIDE DEF actual
    <3> QED
      BY <1>7, <2>1
  <2>2. CASE actual # None
    <3>1. w.tag = "priced" \/ (w.tag = "future" /\ w.msgs # {})
      BY <1>6, <2>2
    <3> HIDE DEF actual
    <3>2. counted' = [counted EXCEPT ![i] = {s} \X w.msgs]
      BY <1>7, <2>2
    <3>3. flat' = [flat EXCEPT ![s] = flat[s]]
      BY <1>7, <2>2
    <3>4. flat' = flat
      BY <1>14, <3>3
    <3> QED
      BY <3>1, <3>2, <3>4
  <2> QED
    BY <2>1, <2>2
<1>16. LaneSettles(s, i, w)
  BY <1>3, <1>4, <1>9, <1>10, <1>12, <1>13, <1>15 DEF LaneSettles, v
<1> QED
  BY <1>3, <1>13, <1>16, LaneMeasure

\* A charge that measures nothing.
LEMMA LaneCharge ==
  ASSUME SbIInv, LaneInv, NEW s \in Sessions, NEW agent \in Opts(Agents), NEW k \in ChargeKeys,
         ChargeAgent(s, agent, k)
  PROVE  LaneInv'
<1> DEFINE key == ChargeKey(s, k)
           e == EventOf[k]
           src == "subagent_transcript"
           x == ChargeRow(ChargePool(s, e), Who(s), key, 1, "known", now,
                          AttributionOf(agent, src), src, None)
           n == issued + 1
<1>1. /\ issued < MaxRows /\ ChargePool(s, e) # None
      /\ counted' = [counted EXCEPT ![n] = {s} \X {}] /\ flat' = flat
      /\ spent' = spent /\ file' = file /\ now' = now
      /\ rows' = [rows EXCEPT ![n] = x] /\ created' = [created EXCEPT ![n] = now]
  <2>1. BookCharge(s, agent, key, 1, e, src, None, {})
    BY DEF ChargeAgent, ChargeKey
  <2>2. /\ issued < MaxRows /\ Bookable(Tables, s, key, 1, e)
        /\ Becomes(Posted(Tables, s, agent, key, 1, e, "known", src, None))
        /\ counted' = [counted EXCEPT ![n] = {s} \X {}]
        /\ UNCHANGED <<now, host, flat>>
    BY <2>1 DEF BookCharge
  <2> QED
    BY <2>2, PostedFacts DEF Bookable, host
<1>2. /\ issued \in Nat /\ n \in Ids /\ now \in Nat /\ IsTable(rows) /\ rows[n] = None
      /\ created \in [Ids -> 0..MaxTime] /\ None \notin Row
  BY <1>1, ConstantFacts DEF SbIInv, SbTyped, TableInv
<1>3. x \in Row /\ x.state = "settled" /\ x.settledAt = now /\ x.mark = None /\ x.kind = "charge"
  <2>1. ChargePool(s, e) \in Periods
    BY <1>1, ChargePoolIs, BudgetAssumption
  <2>2. key \in Key
    BY DEF ChargeKey, Key, Opts
  <2>3. AttributionOf(agent, src) \in Opt(Agents \cup {"main"}) /\ None \in Opt(Mark)
    BY DEF AttributionOf, Opt, Opts
  <2>4. 1 \in 0..I64Max /\ src \in {"turn_hold", "subagent_transcript"}
    BY ConstantFacts
  <2> HIDE DEF key
  <2>5. x \in Row
    BY <1>2, <2>1, <2>2, <2>3, <2>4 DEF ChargeRow, Row, RowStates, Opt
  <2>6. x.state = "settled" /\ x.settledAt = now /\ x.mark = None /\ x.kind = "charge"
    BY DEF ChargeRow
  <2> QED
    BY <2>5, <2>6
<1> HIDE DEF x, n
<1>4. /\ rows'[n] = x /\ created'[n] = now
      /\ \A i \in Ids : i # n => rows'[i] = rows[i] /\ created'[i] = created[i]
  BY <1>1, <1>2 DEF IsTable
<1>5. counted' = counted
  <2>1. counted[n] = {}
    BY <1>2 DEF LaneInv, CountedIsMarked, IsLaneRow
  <2>2. counted \in [Ids -> SUBSET (Sessions \X Msgs)]
    BY DEF LaneInv, LaneTyped
  <2>3. {s} \X {} = {}
    OBVIOUS
  <2> QED
    BY <1>1, <2>1, <2>2, <2>3
<1>6. RowsStay
  BY <1>1, <1>2, <1>3, <1>4 DEF RowsStay, LaneInv, LaneTyped, Opt
<1> QED
  BY <1>1, <1>2, <1>5, <1>6, LaneKept

\* The charge of a settled lane's tail.
LEMMA LaneTail ==
  ASSUME SbIInv, LaneInv, NEW s \in Sessions, EndTail(s)
  PROVE  LaneInv'
<1>1. PICK w : w = LaneWindow(s, TRUE)
  OBVIOUS
<1>2. PICK n : n = issued + 1
  OBVIOUS
<1> DEFINE last == MaxOf(w.last)
           key == [tag |-> "tail", s |-> s, agent |-> None, a |-> LaneBound(s), b |-> last]
           v == MarkOf(w, CountedIds(s))
           x == ChargeRow(ChargePool(s, last), Who(s), key, Cents(w), "known", now, "main",
                          "turn_hold", v)
<1>3. /\ w.tag = "priced" /\ issued < MaxRows /\ ChargePool(s, last) # None
      /\ counted' = [counted EXCEPT ![n] = {s} \X w.msgs] /\ flat' = flat
      /\ spent' = spent /\ file' = file /\ now' = now
      /\ rows' = [rows EXCEPT ![n] = x] /\ created' = [created EXCEPT ![n] = now]
  <2>1. /\ w.tag = "priced"
        /\ BookCharge(s, None, key, Cents(w), last, "turn_hold", v, w.msgs)
    BY <1>1 DEF EndTail
  <2> HIDE DEF last, key, v
  <2>2. /\ issued < MaxRows /\ Bookable(Tables, s, key, Cents(w), last)
        /\ Becomes(Posted(Tables, s, None, key, Cents(w), last, "known", "turn_hold", v))
        /\ counted' = [counted EXCEPT ![n] = {s} \X w.msgs]
        /\ UNCHANGED <<now, host, flat>>
    BY <1>2, <2>1 DEF BookCharge
  <2>3. AttributionOf(None, "turn_hold") = "main"
    BY DEF AttributionOf
  <2> QED
    BY <1>2, <2>1, <2>2, <2>3, PostedFacts DEF Bookable, host
<1>4. /\ issued \in Nat /\ n \in Ids /\ now \in Nat /\ IsTable(rows) /\ rows[n] = None
      /\ created \in [Ids -> 0..MaxTime] /\ None \notin Row
  BY <1>2, <1>3, ConstantFacts DEF SbIInv, SbTyped, TableInv
<1>5. /\ Cents(w) \in 0..I64Max /\ v \in Opt(Mark) /\ w.msgs # {} /\ last \in Nat
      /\ LaneBound(s) \in Nat
  <2>1. /\ Cents(w) \in 0..I64Max /\ v \in Opt(Mark) /\ w.msgs # {}
        /\ w.msgs \in SUBSET AllSpent(s) /\ last \in 0..now
    BY <1>1, <1>3, ReadIs, MarkIs
  <2>2. PICK m \in AllSpent(s) : TRUE
    BY <2>1
  <2>3. LaneHolds(s) # {}
    BY <2>2 DEF LaneInv, HeldBefore
  <2>4. LaneBound(s) \in Nat
    BY <2>3, BoundIs
  <2>5. last \in Nat
    BY <1>4, <2>1
  <2> QED
    BY <2>1, <2>4, <2>5
<1>6. /\ x \in Row /\ x.state = "settled" /\ x.settledAt = now /\ x.mark = v
      /\ x.who = Who(s) /\ x.lane = "main"
  <2>1. ChargePool(s, last) \in Periods
    BY <1>3, <1>5, ChargePoolIs
  <2>2. key \in Key
    BY <1>5 DEF Key, Opts
  <2>3. /\ "main" \in Opt(Agents \cup {"main"})
        /\ "turn_hold" \in {"turn_hold", "subagent_transcript"}
    BY DEF Opt
  <2> HIDE DEF key, v, last
  <2>4. x \in Row
    BY <1>4, <1>5, <2>1, <2>2, <2>3 DEF ChargeRow, Row, RowStates, Opt
  <2>5. /\ x.state = "settled" /\ x.settledAt = now /\ x.mark = v
        /\ x.who = Who(s) /\ x.lane = "main"
    BY DEF ChargeRow
  <2> QED
    BY <2>4, <2>5
<1> HIDE DEF x
<1>7. /\ rows'[n] = x /\ created'[n] = now
      /\ \A i \in Ids : i # n => rows'[i] = rows[i] /\ created'[i] = created[i]
  BY <1>3, <1>4 DEF IsTable
<1>8. IsLaneRow(x, s, None)
  <2>1. Who(s).session = s
    BY DEF Who
  <2>2. x # None
    BY <1>4, <1>6
  <2> QED
    BY <1>6, <2>1, <2>2 DEF IsLaneRow
<1>9. LaneSettles(s, n, w)
  <2> HIDE DEF v
  <2>1. rows'[n].mark = MarkOf(w, CountedIds(s))
    BY <1>6, <1>7 DEF v
  <2>2. /\ w.tag = "priced" /\ counted' = [counted EXCEPT ![n] = {s} \X w.msgs] /\ flat' = flat
        /\ created'[n] <= now
    BY <1>3, <1>4, <1>7
  <2>3. rows'[n] \in Row /\ IsLaneRow(rows'[n], s, None) /\ rows'[n].state = "settled"
        /\ rows'[n].settledAt = now
    BY <1>6, <1>7, <1>8
  <2> QED
    BY <1>1, <1>4, <1>7, <2>1, <2>2, <2>3 DEF LaneSettles
<1> QED
  BY <1>3, <1>4, <1>9, LaneMeasure

-----------------------------------------------------------------------------
(* Measured exactly once *)

\* What the reading of a transcript relies on: the clock does not step back, and no
\* month is pruned (the run budget_prune_recount shows why the second is needed).
Undisturbed == [][now' >= now /\ ~PruneOnePool]_vars

LEMMA LaneStep ==
  ASSUME SbIInv, SbIInv', LaneInv, [Next]_vars, [now' >= now /\ ~PruneOnePool]_vars
  PROVE  LaneInv'
<1>0. Readable \subseteq BOOLEAN /\ ReadFails \subseteq BOOLEAN /\ now \in Nat /\ now' \in Nat
  BY BudgetAssumption, ConstantFacts DEF SbIInv, SbTyped
<1>1. CASE UNCHANGED vars
  <2>1. UNCHANGED ledger /\ UNCHANGED host /\ now' = now
    BY <1>1 DEF vars, ledger, history, host
  <2> QED
    BY <1>0, <2>1, LaneQuiet
<1>2. CASE Next /\ ~UNCHANGED vars
  <2>0. now <= now' /\ ~PruneOnePool
    BY <1>0, <1>2
  <2>1. ASSUME \/ \E d \in Deltas : ClockStep(d)
               \/ \E c \in Configs : EditFile(c)
               \/ PruneStart \/ PruneSkip \/ PruneCrash
        PROVE  LaneInv'
    <3>1. UNCHANGED ledger /\ UNCHANGED host
      BY <2>1 DEF ClockStep, EditFile, PruneStart, PruneSkip, PruneCrash
    <3> QED
      BY <1>0, <2>0, <3>1, LaneQuiet
  <2>2. ASSUME NEW s \in Sessions, Respond(s) \/ Flush(s) \/ FlushBlock(s) PROVE LaneInv'
    BY <2>2, LaneRespond, LaneFlush, LaneFlushBlock
  <2>3. ASSUME NEW s \in Sessions, NEW o \in Aliens, FlushAlien(s, o) PROVE LaneInv'
    BY <2>3, LaneFlushAlien
  <2>4. ASSUME NEW s \in Sessions, Heartbeat(s) \/ EndTail(s) PROVE LaneInv'
    BY <2>4, LaneHeartbeat, LaneTail
  <2>5. ASSUME NEW s \in Sessions, NEW a \in Opts(Agents), NEW m \in Opts(Prompts),
               AdmitRefused(s, a, m) \/ AdmitRenewed(s, a, m)
        PROVE  LaneInv'
    BY <2>5, LaneRefused, LaneRenewed
  <2>6. ASSUME NEW s \in Sessions, NEW a \in Opts(Agents), NEW m \in Opts(Prompts),
               NEW f \in ReadFails, AdmitGranted(s, a, m, f)
        PROVE  LaneInv'
    BY <1>0, <2>6, LaneGranted
  <2>7. ASSUME NEW s \in Sessions, NEW m \in Opts(Prompts), NEW r \in Readable, Stop(s, m, r)
        PROVE  LaneInv'
    BY <1>0, <2>7, LaneSettle DEF Stop
  <2>8. ASSUME NEW s \in Sessions, NEW r \in Readable, EndOpenTurn(s, r) PROVE LaneInv'
    <3> DEFINE flatly == rows[PendingHold(s)].state = "active" /\ rows[PendingHold(s)].expiresAt > now
    <3>1. /\ PendingHold(s) # None
          /\ SettleFromWindow(s, PendingHold(s), LaneWindow(s, r), flatly, None)
      BY <2>8 DEF EndOpenTurn
    <3> HIDE DEF flatly
    <3> QED
      BY <1>0, <3>1, LaneSettle
  <2>9. ASSUME NEW s \in Sessions, NEW a \in Opts(Agents), NEW k \in ChargeKeys,
               ChargeAgent(s, a, k)
        PROVE  LaneInv'
    BY <2>9, LaneCharge
  <2> QED
    BY <1>2, <2>0, <2>1, <2>2, <2>3, <2>4, <2>5, <2>6, <2>7, <2>8, <2>9, Zenon DEF Next
<1> QED
  BY <1>1, <1>2

\* However Stops, SessionEnds and retries are ordered and however late the lines of
\* the transcript come, no message is part of two measured amounts and none falls
\* behind the window that would still count it: for any number of sessions, rows,
\* messages and lines, as long as the clock does not step back and nothing is pruned.
THEOREM MeasuredOnce == Spec /\ Undisturbed => []MessageMeasuredOnce
<1>1. SbIInv /\ LaneInv => MessageMeasuredOnce
  BY BoundIs DEF LaneInv, MessageMeasuredOnce, NoSpendBehindWindow, Covered
<1>2. /\ SbIInv /\ SbIInv' /\ LaneInv /\ [Next]_vars /\ [now' >= now /\ ~PruneOnePool]_vars
      => LaneInv'
  BY LaneStep
<1> QED
  BY <1>1, <1>2, LaneInit, SbInductive, PTL DEF Spec, Undisturbed
-----------------------------------------------------------------------------
(* Spend that is measured late: the tables between two transactions.         *)

TurnKey(s, t) == [tag |-> "turn", s |-> s, agent |-> None, a |-> 0, b |-> t]
TrueUpKey(s, i, c) == [tag |-> "trueup", s |-> s, agent |-> None, a |-> i, b |-> c]

\* A hold of the session that was settled at a measured amount, and that amount.
MeasuredHold(row, s) == IsLaneRow(row, s, None) /\ row.kind = "hold" /\ row.usage = "known"
Own(row, s) == IF MeasuredHold(row, s) THEN row.settled ELSE 0

\* What true-ups added to hold i.
Added(db, s, i) == db.billed[TrueUpFamily(s, i)]

DbTyped(db) ==
  /\ db = [rows |-> db.rows, pools |-> db.pools, created |-> db.created,
           issued |-> db.issued, settling |-> db.settling, billed |-> db.billed]
  /\ db.issued \in Nat
  /\ TableInv(db.rows, db.issued)
  /\ db.created \in [Ids -> 0..MaxTime]
  /\ db.settling \in [Ids -> Nat]
  /\ db.billed \in [Families -> Nat]

IsTurnCharge(row) ==
  \E s \in Sessions, t \in Prompts : row.who.session = s /\ row.key = TurnKey(s, t)
IsTrueUp(row) ==
  \E s \in Sessions, i \in Ids, c \in Nat : row.who.session = s /\ row.key = TrueUpKey(s, i, c)

\* A hold is measured when it is settled, and its key is no charge's; a charge is
\* settled, and in the main lane it is a turn's or a true-up.
RowOK(row) ==
  /\ row \in LateRow
  /\ row.kind = "hold" => /\ row.key.tag \in {"p", "n"}
                          /\ row.usage = "known" => row.state = "settled"
  /\ row.kind = "charge" => /\ row.state = "settled"
                            /\ row.lane = "main" => IsTurnCharge(row) \/ IsTrueUp(row)

RowsOK(db) == \A i \in Ids : db.rows[i] # None => RowOK(db.rows[i])

\* A turn that is charged by itself has no hold and will get none, and has one charge.
TurnsOK(db, stopped) ==
  \A s \in Sessions, t \in Prompts, i \in Ids :
    db.rows[i] # None /\ db.rows[i].key = TurnKey(s, t) =>
      /\ <<s, t>> \in stopped
      /\ prompts[<<s, t>>] = None
      /\ db.rows[i].usage = "known" => db.rows[i].settled <= turn[<<s, t>>].used
      /\ \A j \in Ids : db.rows[j] # None /\ db.rows[j].key = TurnKey(s, t) => j = i

\* A true-up is of a measured hold and brought it up to the amount in its key.
TrueUpsOK(db) ==
  \A s \in Sessions, i \in Ids, c \in Nat, j \in Ids :
    db.rows[j] # None /\ db.rows[j].key = TrueUpKey(s, i, c) =>
      /\ i <= db.issued
      /\ db.rows[i] # None => /\ MeasuredHold(db.rows[i], s)
                              /\ db.rows[i].settled + Added(db, s, i) >= c

\* A hold with its true-ups is no more than its turns used.
HoldsOK(db) ==
  \A s \in Sessions, i \in Ids :
    /\ Own(db.rows[i], s) + Added(db, s, i) <= UsedBy(s, TurnsOf(s, i))
    /\ Added(db, s, i) # 0 => i <= db.issued
                              /\ (db.rows[i] # None => MeasuredHold(db.rows[i], s))

\* A turn's hold is one of its session's main lane.
BoundOK(db) ==
  \A s \in Sessions, t \in Prompts : \A i \in Ids : prompts[<<s, t>>] = i =>
    /\ i <= db.issued
    /\ db.rows[i] # None => IsLaneRow(db.rows[i], s, None) /\ db.rows[i].kind = "hold"

SettlingOK(db) ==
  \A i \in Ids : db.settling[i] > 0 => /\ i <= db.issued
                                       /\ db.rows[i] # None => db.rows[i].kind = "hold"

\* What was ever booked for a family is in the table or in the floor.
Conserved(db) ==
  /\ floor \in [Families -> Nat]
  /\ \A f \in Families : FamilyTotal(db.rows, f) = db.billed[f]

ExactOK(db, T) ==
  \A i \in T : /\ i \in Ids /\ i <= db.issued
               /\ \A s \in Sessions : IsLaneRow(db.rows[i], s, None) =>
                    /\ MeasuredHold(db.rows[i], s)
                    /\ AllComplete(s, i)
                    /\ db.rows[i].settled + Added(db, s, i) = UsedBy(s, TurnsOf(s, i))

\* A pruned row stays pruned.  What true-ups add to a pruned hold, and what was
\* charged for an unadmitted turn, its turns used; a later charge has a later row.
GoneRow(db, stopped, i) ==
  /\ RowOK(gone[i]) /\ IsRow(gone[i]) /\ i <= db.issued /\ db.rows[i] = None
  /\ \A s \in Sessions : MeasuredHold(gone[i], s) =>
       gone[i].settled + Added(db, s, i) <= UsedBy(s, TurnsOf(s, i))
  /\ \A s \in Sessions, t \in Prompts : gone[i].key = TurnKey(s, t) =>
       /\ <<s, t>> \in stopped
       /\ prompts[<<s, t>>] = None
       /\ gone[i].usage = "known" => gone[i].settled <= turn[<<s, t>>].used
       /\ \A j \in Ids : db.rows[j] # None /\ db.rows[j].key = TurnKey(s, t) => i < j

\* The floor is the sum of the pruned charges.
GoneOK(db, stopped) ==
  /\ \A i \in Ids : gone[i] # None => GoneRow(db, stopped, i)
  /\ \A f \in Families : FamilySum(gone, f) = floor[f]

DbInv(db, stopped, T) ==
  /\ DbTyped(db) /\ RowsOK(db) /\ TurnsOK(db, stopped) /\ TrueUpsOK(db) /\ HoldsOK(db)
  /\ BoundOK(db) /\ SettlingOK(db) /\ Conserved(db) /\ ExactOK(db, T) /\ GoneOK(db, stopped)

-----------------------------------------------------------------------------
(* The inductive invariant *)

TurnTyped ==
  /\ turn \in [Turns -> [used: Nat, written: Nat, stopped: BOOLEAN, complete: BOOLEAN]]
  /\ \A x \in Turns : /\ turn[x].written <= turn[x].used
                      /\ turn[x].complete => turn[x].written = turn[x].used

WorkTyped ==
  /\ work \in [Subagents -> [times: Seq(0..MaxTime), written: Nat]]
  /\ \A x \in Subagents : work[x].written <= Len(work[x].times)

\* The other histories of SharedBudget stand still.
NothingStopped ==
  /\ \A i \in Ids : stoppedBy[i] = None
  /\ \A b \in Sessions \X ChargeKeys : booked[b] = 0

StoppedTurns == {x \in Turns : turn[x].stopped}

LateInv ==
  /\ SbIInv /\ NothingStopped /\ TurnTyped /\ WorkTyped
  /\ TranscriptNotOverbooked
  /\ DbInv(LateTables, StoppedTurns, tried)
-----------------------------------------------------------------------------
(* Sums over the charges of a family and over the turns of a session *)

LEMMA SumFunctionIs ==
  ASSUME NEW f
  PROVE  SumFunction(f) = SumOver(f, DOMAIN f)
  BY DEF SumFunction, SumFunctionOnSet, FoldFunctionOnSet, MapThenFoldSet, SumOver, AllSums,
         IsSums, One

\* The table's charges have settled amounts.
ChargesNat(t) == \A i \in Ids : t[i] # None /\ t[i].kind = "charge" => t[i].settled \in Nat

SettledIn(t) == [i \in Ids |-> t[i].settled]

\* A sum of a column over some rows.
LEMMA ColumnSum ==
  ASSUME NEW t, NEW S \in SUBSET Ids, \A i \in S : t[i].settled \in Nat
  PROVE  /\ SumFunction([i \in S |-> t[i].settled]) = SumOver(SettledIn(t), S)
         /\ Ints(SettledIn(t), S) /\ Above0(SettledIn(t), S)
<1>0. IsFiniteSet(S)
  <2>1. IsFiniteSet(Ids)
    BY ConstantFacts, FS_Interval
  <2> QED
    BY <2>1, FS_Subset
<1>1. PICK f, g : f = [i \in S |-> t[i].settled] /\ g = SettledIn(t)
  OBVIOUS
<1>2. \A i \in S : f[i] = t[i].settled /\ g[i] = t[i].settled
  BY <1>1 DEF SettledIn
<1>3. Ints(f, S) /\ Ints(g, S) /\ Above0(g, S)
  BY <1>0, <1>2 DEF Ints, Above0
<1>4. SumFunction(f) = SumOver(f, S)
  <2>1. DOMAIN f = S
    BY <1>1
  <2> QED
    BY <2>1, SumFunctionIs
<1>5. SumOver(f, S) = SumOver(g, S)
  BY <1>2, <1>3, SumSame
<1> QED
  BY <1>1, <1>3, <1>4, <1>5

LEMMA FamilySumIs ==
  ASSUME NEW t, ChargesNat(t), NEW f
  PROVE  /\ FamilySum(t, f) = SumOver(SettledIn(t), ChargesOf(t, f))
         /\ Ints(SettledIn(t), ChargesOf(t, f)) /\ Above0(SettledIn(t), ChargesOf(t, f))
         /\ FamilySum(t, f) \in Nat
<1>1. PICK S : S = ChargesOf(t, f)
  OBVIOUS
<1>2. S \in SUBSET Ids /\ \A i \in S : t[i].settled \in Nat
  BY <1>1 DEF ChargesOf, ChargesNat
<1>3. /\ SumFunction([i \in S |-> t[i].settled]) = SumOver(SettledIn(t), S)
      /\ Ints(SettledIn(t), S) /\ Above0(SettledIn(t), S)
  BY <1>2, ColumnSum
<1>4. SumOver(SettledIn(t), S) \in Nat
  BY <1>3, SumPositive
<1> QED
  BY <1>1, <1>3, <1>4 DEF FamilySum

\* Two tables with the same charges.
SameCharges(t, u) ==
  \A i \in Ids : /\ (t[i] # None /\ t[i].kind = "charge") <=> (u[i] # None /\ u[i].kind = "charge")
                 /\ t[i] # None /\ t[i].kind = "charge" =>
                      t[i].key = u[i].key /\ t[i].settled = u[i].settled

LEMMA FamilySumSame ==
  ASSUME NEW t, NEW u, SameCharges(t, u), NEW f
  PROVE  FamilySum(t, f) = FamilySum(u, f)
<1>1. PICK S : S = ChargesOf(t, f)
  OBVIOUS
<1>2. ChargesOf(u, f) = S
  BY <1>1 DEF ChargesOf, SameCharges
<1>3. \A i \in S : t[i].settled = u[i].settled
  BY <1>1 DEF ChargesOf, SameCharges
<1>4. [i \in S |-> t[i].settled] = [i \in S |-> u[i].settled]
  BY <1>3
<1> QED
  BY <1>1, <1>2, <1>4 DEF FamilySum

\* A new row.
LEMMA FamilySumAdd ==
  ASSUME NEW t, ChargesNat(t), NEW n \in Ids, t[n] = None, NEW x, x # None, x.kind = "charge",
         x.settled \in Nat, NEW u, u[n] = x, \A i \in Ids : i # n => u[i] = t[i], NEW f
  PROVE  FamilySum(u, f) = FamilySum(t, f) + (IF FamilyOf(x.key) = f THEN x.settled ELSE 0)
<1>1. PICK S, R, g, h : S = ChargesOf(t, f) /\ R = ChargesOf(u, f) /\ g = SettledIn(t)
                        /\ h = SettledIn(u)
  OBVIOUS
<1>2. ChargesNat(u)
  BY DEF ChargesNat
<1>3. /\ FamilySum(t, f) = SumOver(g, S) /\ Ints(g, S)
      /\ FamilySum(u, f) = SumOver(h, R) /\ Ints(h, R)
      /\ FamilySum(t, f) \in Nat
  BY <1>1, <1>2, FamilySumIs
<1>4. n \notin S /\ \A i \in S : g[i] = h[i]
  BY <1>1 DEF ChargesOf, SettledIn
<1>5. SumOver(h, S) = SumOver(g, S) /\ Ints(h, S)
  <2>1. Ints(h, S)
    BY <1>3, <1>4 DEF Ints
  <2> QED
    BY <1>3, <1>4, <2>1, SumSame
<1>6. CASE FamilyOf(x.key) = f
  <2>1. R = S \cup {n}
    BY <1>1, <1>6 DEF ChargesOf
  <2>2. h[n] = x.settled
    BY <1>1 DEF SettledIn
  <2>3. SumOver(h, S \cup {n}) = h[n] + SumOver(h, S)
    BY <1>4, <1>5, <2>2, SumAdd
  <2> QED
    BY <1>3, <1>5, <1>6, <2>1, <2>2, <2>3
<1>7. CASE FamilyOf(x.key) # f
  <2>1. R = S
    BY <1>1, <1>7 DEF ChargesOf
  <2> QED
    BY <1>3, <1>5, <1>7, <2>1
<1> QED
  BY <1>6, <1>7

\* Each row of t is in u or in m.
SplitRows(t, u, m) ==
  \A i \in Ids : (u[i] = t[i] /\ m[i] = None) \/ (u[i] = None /\ m[i] = t[i])

LEMMA FamilySumSplit ==
  ASSUME NEW t, ChargesNat(t), NEW u, NEW m, NEW f, SplitRows(t, u, m)
  PROVE  /\ FamilySum(t, f) = FamilySum(u, f) + FamilySum(m, f)
         /\ FamilySum(u, f) \in Nat /\ FamilySum(m, f) \in Nat
<1>1. PICK S, R, M, g, h, k : /\ S = ChargesOf(t, f) /\ R = ChargesOf(u, f) /\ M = ChargesOf(m, f)
                              /\ g = SettledIn(t) /\ h = SettledIn(u) /\ k = SettledIn(m)
  OBVIOUS
<1>2. ChargesNat(u) /\ ChargesNat(m)
  BY DEF ChargesNat, SplitRows
<1>3. /\ FamilySum(t, f) = SumOver(g, S) /\ Ints(g, S)
      /\ FamilySum(u, f) = SumOver(h, R) /\ Ints(h, R) /\ FamilySum(u, f) \in Nat
      /\ FamilySum(m, f) = SumOver(k, M) /\ Ints(k, M) /\ FamilySum(m, f) \in Nat
  BY <1>1, <1>2, FamilySumIs
<1>4. S = R \cup M /\ R \cap M = {} /\ (\A i \in R : h[i] = g[i]) /\ (\A i \in M : k[i] = g[i])
  BY <1>1 DEF ChargesOf, SettledIn, SplitRows
<1>5. SumOver(h, R) = SumOver(g, R) /\ SumOver(k, M) = SumOver(g, M)
  BY <1>3, <1>4, SumSame
<1>6. Ints(g, R) /\ Ints(g, M)
  BY <1>3, <1>4 DEF Ints
<1> QED
  BY <1>3, <1>4, <1>5, <1>6, SumUnion

UsedIn(s) == [t \in Prompts |-> turn[<<s, t>>].used]
WrittenIn(s) == [t \in Prompts |-> turn[<<s, t>>].written]

\* A column over the turns.
LEMMA TurnSum ==
  ASSUME NEW S \in SUBSET Prompts, NEW f, NEW g, f = [t \in S |-> g[t]], \A t \in S : g[t] \in Nat
  PROVE  /\ SumFunction(f) = SumOver(g, S) /\ Ints(g, S) /\ Above0(g, S)
         /\ SumOver(g, S) \in Nat
<1>0. IsFiniteSet(S)
  BY LateSpendAssumption, FS_Subset
<1>1. Ints(f, S) /\ Ints(g, S) /\ Above0(g, S) /\ DOMAIN f = S /\ \A t \in S : f[t] = g[t]
  BY <1>0 DEF Ints, Above0
<1>2. SumFunction(f) = SumOver(f, S)
  BY <1>1, SumFunctionIs
<1>3. SumOver(f, S) = SumOver(g, S)
  BY <1>1, SumSame
<1> QED
  BY <1>1, <1>2, <1>3, SumPositive

LEMMA UsedIs ==
  ASSUME TurnTyped, NEW s \in Sessions, NEW S \in SUBSET Prompts
  PROVE  /\ UsedBy(s, S) = SumOver(UsedIn(s), S) /\ Ints(UsedIn(s), S)
         /\ Above0(UsedIn(s), S) /\ UsedBy(s, S) \in Nat
<1>1. PICK f, g : f = [t \in S |-> turn[<<s, t>>].used] /\ g = UsedIn(s)
  OBVIOUS
<1>2. \A t \in S : g[t] = turn[<<s, t>>].used /\ g[t] \in Nat
  BY <1>1 DEF UsedIn, TurnTyped, Turns
<1>3. f = [t \in S |-> g[t]]
  BY <1>1, <1>2
<1> QED
  BY <1>1, <1>2, <1>3, TurnSum DEF UsedBy

LEMMA CostIs ==
  ASSUME TurnTyped, NEW s \in Sessions, NEW S \in SUBSET Prompts
  PROVE  /\ Cost(s, S) = SumOver(WrittenIn(s), S) /\ Ints(WrittenIn(s), S)
         /\ Cost(s, S) \in Nat
<1>1. PICK f, g : f = [t \in S |-> turn[<<s, t>>].written] /\ g = WrittenIn(s)
  OBVIOUS
<1>2. \A t \in S : g[t] = turn[<<s, t>>].written /\ g[t] \in Nat
  BY <1>1 DEF WrittenIn, TurnTyped, Turns
<1>3. f = [t \in S |-> g[t]]
  BY <1>1, <1>2
<1> QED
  BY <1>1, <1>2, <1>3, TurnSum DEF Cost

\* What was written of some turns was used by them.
LEMMA CostBelow ==
  ASSUME TurnTyped, NEW s \in Sessions, NEW R \in SUBSET Prompts, NEW S \in SUBSET R
  PROVE  Cost(s, S) <= UsedBy(s, R) /\ Cost(s, S) \in Nat /\ UsedBy(s, R) \in Nat
<1>1. PICK f, g : f = WrittenIn(s) /\ g = UsedIn(s)
  OBVIOUS
<1>2. \A t \in R : f[t] <= g[t]
  BY <1>1 DEF WrittenIn, UsedIn, TurnTyped, Turns
<1>3. /\ Cost(s, S) = SumOver(f, S) /\ Ints(f, S) /\ Cost(s, S) \in Nat
      /\ UsedBy(s, R) = SumOver(g, R) /\ Ints(g, R) /\ Above0(g, R) /\ UsedBy(s, R) \in Nat
  BY <1>1, UsedIs, CostIs
<1>4. S \subseteq R /\ Below(f, g, S) /\ Above0(g, R \ S)
  BY <1>2, <1>3 DEF Below, Above0
<1>5. SumOver(f, S) <= SumOver(g, R)
  BY <1>3, <1>4, SumSubset
<1> QED
  BY <1>3, <1>5

\* Complete turns have written all.
LEMMA CostComplete ==
  ASSUME TurnTyped, NEW s \in Sessions, NEW S \in SUBSET Prompts,
         \A t \in S : turn[<<s, t>>].complete
  PROVE  Cost(s, S) = UsedBy(s, S)
<1>1. PICK f, g : f = WrittenIn(s) /\ g = UsedIn(s)
  OBVIOUS
<1>2. \A t \in S : f[t] = g[t]
  BY <1>1 DEF WrittenIn, UsedIn, TurnTyped, Turns
<1>3. /\ Cost(s, S) = SumOver(f, S) /\ Ints(f, S)
      /\ UsedBy(s, S) = SumOver(g, S)
  BY <1>1, UsedIs, CostIs
<1> QED
  BY <1>2, <1>3, SumSame

\* Use only grows.
LEMMA UsedGrows ==
  ASSUME TurnTyped, TurnTyped', NEW s \in Sessions, NEW R \in SUBSET Prompts, NEW S \in SUBSET R,
         \A t \in S : turn[<<s, t>>].used <= turn'[<<s, t>>].used
  PROVE  UsedBy(s, S) <= UsedBy(s, R)'
<1>1. PICK f, g : f = UsedIn(s) /\ g = UsedIn(s)'
  OBVIOUS
<1>2. \A t \in S : f[t] <= g[t]
  BY <1>1 DEF UsedIn
<1>3. UsedBy(s, S) = SumOver(f, S) /\ Ints(f, S)
  BY <1>1, UsedIs
<1>4. UsedBy(s, R)' = SumOver(g, R) /\ Ints(g, R) /\ Above0(g, R)
  <2>1. \A t \in R : g[t] = turn'[<<s, t>>].used /\ g[t] \in Nat
    BY <1>1 DEF UsedIn, TurnTyped, Turns
  <2>2. PICK h : h = [t \in R |-> turn'[<<s, t>>].used]
    OBVIOUS
  <2>3. h = [t \in R |-> g[t]]
    BY <2>1, <2>2
  <2>4. SumFunction(h) = SumOver(g, R) /\ Ints(g, R) /\ Above0(g, R)
    BY <2>1, <2>3, TurnSum
  <2> QED
    BY <2>2, <2>4 DEF UsedBy
<1>5. S \subseteq R /\ Below(f, g, S) /\ Above0(g, R \ S)
  BY <1>2, <1>4 DEF Below, Above0
<1> QED
  BY <1>3, <1>4, <1>5, SumSubset

LEMMA UsedSame ==
  ASSUME NEW s \in Sessions, NEW S \in SUBSET Prompts,
         \A t \in S : turn[<<s, t>>].used = turn'[<<s, t>>].used
  PROVE  UsedBy(s, S) = UsedBy(s, S)'
<1>1. [t \in S |-> turn[<<s, t>>].used] = [t \in S |-> turn'[<<s, t>>].used]
  OBVIOUS
<1> QED
  BY <1>1 DEF UsedBy

-----------------------------------------------------------------------------
(* What a change of the tables keeps *)

LEMMA TurnsOfIn ==
  ASSUME NEW s, NEW i
  PROVE  TurnsOf(s, i) \in SUBSET Prompts
  BY DEF TurnsOf

\* The columns that lapsing and renewing leave alone.
Keeps(x, y) ==
  /\ y.key = x.key /\ y.who = x.who /\ y.lane = x.lane /\ y.kind = x.kind
  /\ y.usage = x.usage /\ y.settled = x.settled
  /\ y.state = "settled" <=> x.state = "settled"
  /\ y \in LateRow

LEMMA KeepsFacts ==
  ASSUME NEW x, x # None, NEW y, y # None, Keeps(x, y)
  PROVE  /\ RowOK(x) => RowOK(y)
         /\ \A s : (IsLaneRow(y, s, None) <=> IsLaneRow(x, s, None))
         /\ \A s : (MeasuredHold(y, s) <=> MeasuredHold(x, s))
         /\ \A s : Own(y, s) = Own(x, s)
<1>1. IsTurnCharge(x) => IsTurnCharge(y)
  BY DEF IsTurnCharge, Keeps
<1>2. IsTrueUp(x) => IsTrueUp(y)
  BY DEF IsTrueUp, Keeps
<1>3. RowOK(x) => RowOK(y)
  BY <1>1, <1>2 DEF RowOK, Keeps
<1>4. \A s : (IsLaneRow(y, s, None) <=> IsLaneRow(x, s, None))
  BY DEF IsLaneRow, Keeps
<1>5. \A s : (MeasuredHold(y, s) <=> MeasuredHold(x, s))
  BY <1>4 DEF MeasuredHold, Keeps
<1>6. \A s : Own(y, s) = Own(x, s)
  BY <1>5 DEF Own, Keeps
<1> QED
  BY <1>3, <1>4, <1>5, <1>6

\* A step that adds no row in place of a pruned one and nothing to a pruned hold.
LEMMA GoneStays ==
  ASSUME NEW db, NEW stopped, NEW T, DbInv(db, stopped, T), NEW new,
         db.issued <= new.issued, new.issued \in Nat,
         \A i \in Ids : i <= db.issued /\ db.rows[i] = None => new.rows[i] = None,
         \A s \in Sessions, i \in Ids :
           i <= db.issued /\ db.rows[i] = None => Added(new, s, i) = Added(db, s, i),
         \A j \in Ids : \/ new.rows[j] = None \/ j > db.issued
                        \/ db.rows[j] # None /\ db.rows[j].key = new.rows[j].key
  PROVE  GoneOK(new, stopped)
<1>0. GoneOK(db, stopped) /\ db.issued \in Nat /\ Ids \subseteq Nat
  BY ConstantFacts DEF DbInv, DbTyped
<1> SUFFICES ASSUME NEW i \in Ids, gone[i] # None PROVE GoneRow(new, stopped, i)
  BY <1>0 DEF GoneOK
<1>1. GoneRow(db, stopped, i)
  BY <1>0 DEF GoneOK
<1>2. /\ RowOK(gone[i]) /\ IsRow(gone[i]) /\ i <= db.issued /\ db.rows[i] = None
      /\ i <= new.issued /\ new.rows[i] = None
  BY <1>0, <1>1 DEF GoneRow
<1>3. \A s \in Sessions : MeasuredHold(gone[i], s) =>
        gone[i].settled + Added(new, s, i) <= UsedBy(s, TurnsOf(s, i))
  BY <1>1, <1>2 DEF GoneRow
<1>4. ASSUME NEW s \in Sessions, NEW t \in Prompts, gone[i].key = TurnKey(s, t)
      PROVE  /\ <<s, t>> \in stopped
             /\ prompts[<<s, t>>] = None
             /\ gone[i].usage = "known" => gone[i].settled <= turn[<<s, t>>].used
             /\ \A j \in Ids : new.rows[j] # None /\ new.rows[j].key = TurnKey(s, t) => i < j
  <2>1. /\ <<s, t>> \in stopped
        /\ prompts[<<s, t>>] = None
        /\ gone[i].usage = "known" => gone[i].settled <= turn[<<s, t>>].used
        /\ \A j \in Ids : db.rows[j] # None /\ db.rows[j].key = TurnKey(s, t) => i < j
    BY <1>1, <1>4 DEF GoneRow
  <2>2. ASSUME NEW j \in Ids, new.rows[j] # None, new.rows[j].key = TurnKey(s, t) PROVE i < j
    <3>1. CASE j > db.issued
      BY <1>0, <1>2, <3>1
    <3>2. CASE db.rows[j] # None /\ db.rows[j].key = new.rows[j].key
      BY <2>1, <2>2, <3>2
    <3> QED
      BY <2>2, <3>1, <3>2
  <2> QED
    BY <2>1, <2>2
<1> QED
  BY <1>2, <1>3, <1>4 DEF GoneRow

LEMMA RowsKept ==
  ASSUME NEW db, NEW stopped, NEW T, DbInv(db, stopped, T), NEW new, DbTyped(new),
         new.issued = db.issued, new.settling = db.settling, new.billed = db.billed,
         \A i \in Ids : \/ new.rows[i] = db.rows[i]
                        \/ db.rows[i] # None /\ new.rows[i] # None /\ Keeps(db.rows[i], new.rows[i])
  PROVE  DbInv(new, stopped, T)
<1>1. \A i \in Ids : db.rows[i] = None <=> new.rows[i] = None
  OBVIOUS
<1>2. \A i \in Ids : new.rows[i] # None =>
        /\ RowOK(db.rows[i]) => RowOK(new.rows[i])
        /\ \A s : (IsLaneRow(new.rows[i], s, None) <=> IsLaneRow(db.rows[i], s, None))
        /\ \A s : (MeasuredHold(new.rows[i], s) <=> MeasuredHold(db.rows[i], s))
        /\ \A s : Own(new.rows[i], s) = Own(db.rows[i], s)
  BY <1>1, KeepsFacts
<1>3. \A i \in Ids : new.rows[i] # None =>
        /\ new.rows[i].key = db.rows[i].key /\ new.rows[i].kind = db.rows[i].kind
        /\ new.rows[i].usage = db.rows[i].usage /\ new.rows[i].settled = db.rows[i].settled
  BY DEF Keeps
<1>4. \A s, i : Added(new, s, i) = Added(db, s, i)
  BY DEF Added
<1>5. \A i \in Ids, s \in Sessions : Own(new.rows[i], s) = Own(db.rows[i], s)
  <2>1. \A i \in Ids : new.rows[i] = None => new.rows[i] = db.rows[i]
    BY <1>1
  <2> QED
    BY <1>2, <2>1
<1>6. RowsOK(new)
  BY <1>1, <1>2 DEF DbInv, RowsOK
<1>7. TurnsOK(new, stopped)
  BY <1>1, <1>3 DEF DbInv, TurnsOK
<1>8. TrueUpsOK(new)
  BY <1>1, <1>2, <1>3, <1>4 DEF DbInv, TrueUpsOK
<1>9. HoldsOK(new)
  BY <1>1, <1>2, <1>4, <1>5 DEF DbInv, HoldsOK
<1>10. BoundOK(new)
  BY <1>1, <1>2, <1>3 DEF DbInv, BoundOK
<1>11. SettlingOK(new)
  BY <1>1, <1>3 DEF DbInv, SettlingOK
<1>12. Conserved(new)
  <2>1. SameCharges(new.rows, db.rows)
    BY <1>1, <1>3 DEF SameCharges
  <2>2. \A f : FamilySum(new.rows, f) = FamilySum(db.rows, f)
    BY <2>1, FamilySumSame
  <2> QED
    BY <2>2 DEF DbInv, Conserved, FamilyTotal
<1>13. ExactOK(new, T)
  <2>1. \A i \in Ids, s \in Sessions : IsLaneRow(new.rows[i], s, None) =>
          IsLaneRow(db.rows[i], s, None) /\ new.rows[i] # None
    BY <1>2 DEF IsLaneRow
  <2> QED
    BY <1>2, <1>3, <1>4, <2>1 DEF DbInv, ExactOK
<1>14. GoneOK(new, stopped)
  <2>1. new.issued \in Nat /\ db.issued <= new.issued
    BY DEF DbTyped
  <2> QED
    BY <1>1, <1>3, <1>4, <2>1, GoneStays
<1> QED
  BY <1>6, <1>7, <1>8, <1>9, <1>10, <1>11, <1>12, <1>13, <1>14 DEF DbInv

\* The settlement of an open hold: measured, it is no more than its turns used.
Settles(x, y, most) ==
  /\ y.key = x.key /\ y.who = x.who /\ y.lane = x.lane /\ y.kind = x.kind
  /\ y.state = "settled" /\ y.settled \in Nat /\ y \in LateRow
  /\ y.usage = "known" => y.settled <= most

LEMMA RowsSettled ==
  ASSUME NEW db, NEW stopped, NEW T, DbInv(db, stopped, T), TurnTyped, NEW new, DbTyped(new),
         NEW s \in Sessions, NEW S \in SUBSET Ids,
         new.issued = db.issued, new.billed = db.billed,
         \A i \in Ids \ S : new.rows[i] = db.rows[i] /\ new.settling[i] = db.settling[i],
         \A i \in S : /\ IsLaneRow(db.rows[i], s, None) /\ db.rows[i].kind = "hold"
                      /\ db.rows[i].state \in {"active", "expired"}
                      /\ new.rows[i] # None
                      /\ Settles(db.rows[i], new.rows[i], UsedBy(s, TurnsOf(s, i)))
  PROVE  DbInv(new, stopped, T)
<1>0. \A i \in S : db.rows[i] # None
  BY DEF IsLaneRow
<1>1. \A i \in Ids : db.rows[i] = None <=> new.rows[i] = None
  BY <1>0
<1>2. ASSUME NEW i \in S
      PROVE  /\ new.rows[i].key = db.rows[i].key /\ new.rows[i].kind = "hold"
             /\ RowOK(new.rows[i])
             /\ \A r : (IsLaneRow(new.rows[i], r, None) <=> IsLaneRow(db.rows[i], r, None))
             /\ \A r : ~MeasuredHold(db.rows[i], r)
             /\ \A r : r # s => ~IsLaneRow(db.rows[i], r, None)
             /\ \A r : r # s => ~MeasuredHold(new.rows[i], r)
  <2>1. RowOK(db.rows[i])
    BY <1>0 DEF DbInv, RowsOK
  <2>2. new.rows[i].key = db.rows[i].key /\ new.rows[i].kind = "hold" /\ new.rows[i].state = "settled"
    BY DEF Settles
  <2>3. RowOK(new.rows[i])
    BY <2>1, <2>2 DEF RowOK, Settles
  <2>4. \A r : (IsLaneRow(new.rows[i], r, None) <=> IsLaneRow(db.rows[i], r, None))
    BY <1>0, <1>1 DEF IsLaneRow, Settles
  <2>5. \A r : ~MeasuredHold(db.rows[i], r)
    BY <2>1 DEF RowOK, MeasuredHold
  <2>6. \A r : r # s => ~IsLaneRow(db.rows[i], r, None)
    BY DEF IsLaneRow
  <2>7. \A r : r # s => ~MeasuredHold(new.rows[i], r)
    BY <2>4, <2>6 DEF MeasuredHold
  <2> QED
    BY <2>2, <2>3, <2>4, <2>5, <2>6, <2>7
<1>3. \A i \in Ids : new.rows[i].key = db.rows[i].key /\ new.rows[i].kind = db.rows[i].kind
  BY <1>2
<1>4. \A r, i : Added(new, r, i) = Added(db, r, i)
  BY DEF Added
<1>5. \A r \in Sessions, i \in S : Added(db, r, i) = 0
  BY <1>0, <1>2 DEF DbInv, HoldsOK
<1>6. RowsOK(new)
  BY <1>1, <1>2 DEF DbInv, RowsOK
<1>7. TurnsOK(new, stopped)
  <2>1. \A i \in S : \A r \in Sessions, t \in Prompts : new.rows[i].key # TurnKey(r, t)
    <3> SUFFICES ASSUME NEW i \in S, NEW r \in Sessions, NEW t \in Prompts
                 PROVE  new.rows[i].key # TurnKey(r, t)
      OBVIOUS
    <3>1. new.rows[i].key.tag \in {"p", "n"} /\ TurnKey(r, t).tag = "turn"
      BY <1>2 DEF RowOK, TurnKey
    <3> QED
      BY <3>1
  <2> QED
    BY <1>1, <1>3, <2>1 DEF DbInv, TurnsOK
<1>8. TrueUpsOK(new)
  <2> SUFFICES ASSUME NEW r \in Sessions, NEW i \in Ids, NEW c \in Nat, NEW j \in Ids,
                      new.rows[j] # None, new.rows[j].key = TrueUpKey(r, i, c)
               PROVE  /\ i <= new.issued
                      /\ new.rows[i] # None => /\ MeasuredHold(new.rows[i], r)
                              /\ new.rows[i].settled + Added(new, r, i) >= c
    BY DEF TrueUpsOK
  <2>1. /\ i <= db.issued
        /\ db.rows[i] # None => /\ MeasuredHold(db.rows[i], r)
                              /\ db.rows[i].settled + Added(db, r, i) >= c
    BY <1>1, <1>3 DEF DbInv, TrueUpsOK
  <2>2. i \notin S
    BY <1>0, <1>2, <2>1
  <2> QED
    BY <1>4, <2>1, <2>2
<1>9. HoldsOK(new)
  <2> SUFFICES ASSUME NEW r \in Sessions, NEW i \in Ids
               PROVE  /\ Own(new.rows[i], r) + Added(new, r, i) <= UsedBy(r, TurnsOf(r, i))
                      /\ Added(new, r, i) # 0 => i <= new.issued
                              /\ (new.rows[i] # None => MeasuredHold(new.rows[i], r))
    BY DEF HoldsOK
  <2>1. CASE i \notin S
    BY <1>4, <2>1 DEF DbInv, HoldsOK
  <2>2. CASE i \in S
    <3>1. Added(new, r, i) = 0
      BY <1>4, <1>5, <2>2
    <3>2. UsedBy(r, TurnsOf(r, i)) \in Nat
      BY TurnsOfIn, UsedIs
    <3>3. Own(new.rows[i], r) <= UsedBy(r, TurnsOf(r, i)) /\ Own(new.rows[i], r) \in Nat
      <4>1. CASE r = s
        BY <2>2, <3>2, <4>1 DEF Own, Settles, MeasuredHold
      <4>2. CASE r # s
        BY <1>2, <2>2, <3>2, <4>2 DEF Own
      <4> QED
        BY <4>1, <4>2
    <3> QED
      BY <3>1, <3>2, <3>3
  <2> QED
    BY <2>1, <2>2
<1>10. BoundOK(new)
  <2>1. \A i \in Ids : \A r : (IsLaneRow(new.rows[i], r, None) <=> IsLaneRow(db.rows[i], r, None))
    BY <1>2
  <2> QED
    BY <1>1, <1>3, <2>1 DEF DbInv, BoundOK
<1>11. SettlingOK(new)
  <2>1. \A i \in S : i <= db.issued
    <3>1. Ids \subseteq Nat /\ db.issued \in Nat
      BY ConstantFacts DEF DbInv, DbTyped
    <3> QED
      BY <1>0, <3>1 DEF DbInv, DbTyped, TableInv
  <2> QED
    BY <1>1, <1>2, <1>3, <2>1 DEF DbInv, SettlingOK
<1>12. Conserved(new)
  <2>1. SameCharges(new.rows, db.rows)
    BY <1>1, <1>2 DEF SameCharges
  <2>2. \A f : FamilySum(new.rows, f) = FamilySum(db.rows, f)
    BY <2>1, FamilySumSame
  <2> QED
    BY <2>2 DEF DbInv, Conserved, FamilyTotal
<1>13. ExactOK(new, T)
  <2>1. \A i \in T : i \in S => \A r \in Sessions : ~IsLaneRow(db.rows[i], r, None)
    BY <1>2 DEF DbInv, ExactOK
  <2>2. \A i \in T : i \notin S
    BY <2>1
  <2> QED
    BY <1>4, <2>2 DEF DbInv, ExactOK
<1>14. GoneOK(new, stopped)
  <2>1. new.issued \in Nat /\ db.issued <= new.issued
    BY DEF DbTyped
  <2>2. \A i \in Ids : db.rows[i] # None => db.rows[i].key = new.rows[i].key
    BY <1>2
  <2>3. \A r \in Sessions, i \in Ids : Added(new, r, i) = Added(db, r, i)
    BY DEF Added
  <2> QED
    BY <1>1, <2>1, <2>2, <2>3, GoneStays
<1> QED
  BY <1>6, <1>7, <1>8, <1>9, <1>10, <1>11, <1>12, <1>13, <1>14 DEF DbInv

\* A charge x behind the other rows.
Inserts(db, new, x) ==
  /\ new.issued = db.issued + 1
  /\ new.rows[db.issued + 1] = x
  /\ \A i \in Ids : i # db.issued + 1 => new.rows[i] = db.rows[i]
  /\ new.settling = db.settling
  /\ \A f \in Families :
       new.billed[f] = IF f = FamilyOf(x.key) THEN db.billed[f] + x.settled ELSE db.billed[f]

IsCharge(x) == x # None /\ x.kind = "charge" /\ x.settled \in Nat /\ RowOK(x)

LEMMA ChargeInserted ==
  ASSUME NEW db, NEW stopped, NEW T, DbInv(db, stopped, T), NEW new, DbTyped(new),
         NEW x, IsCharge(x), Inserts(db, new, x), db.issued + 1 \in Ids
  PROVE  /\ db.rows[db.issued + 1] = None
         /\ RowsOK(new) /\ BoundOK(new) /\ SettlingOK(new) /\ Conserved(new)
<1> DEFINE n == db.issued + 1
<1>0. db.issued \in Nat /\ Ids \subseteq Nat /\ n \in Nat
  BY ConstantFacts DEF DbInv, DbTyped
<1>1. db.rows[n] = None
  BY <1>0 DEF DbInv, DbTyped, TableInv
<1>2. new.rows[n] = x /\ (\A i \in Ids : i # n => new.rows[i] = db.rows[i]) /\ new.issued = n
  BY DEF Inserts
<1> HIDE DEF n
<1>n. n = db.issued + 1 /\ n \in Ids /\ \A i \in Ids : i <= db.issued => i # n /\ i <= n
  BY <1>0 DEF n
<1>3. RowsOK(new)
  BY <1>1, <1>2 DEF DbInv, RowsOK, IsCharge
<1>4. BoundOK(new)
  <2> SUFFICES ASSUME NEW s \in Sessions, NEW t \in Prompts, NEW i \in Ids, prompts[<<s, t>>] = i
               PROVE  /\ i <= new.issued
                      /\ new.rows[i] # None =>
                           IsLaneRow(new.rows[i], s, None) /\ new.rows[i].kind = "hold"
    BY DEF BoundOK
  <2>1. /\ i <= db.issued
        /\ db.rows[i] # None => IsLaneRow(db.rows[i], s, None) /\ db.rows[i].kind = "hold"
    BY DEF DbInv, BoundOK
  <2> QED
    BY <1>2, <1>n, <2>1
<1>5. SettlingOK(new)
  <2> SUFFICES ASSUME NEW i \in Ids, new.settling[i] > 0
               PROVE  i <= new.issued /\ (new.rows[i] # None => new.rows[i].kind = "hold")
    BY DEF SettlingOK
  <2>1. i <= db.issued /\ (db.rows[i] # None => db.rows[i].kind = "hold")
    BY DEF DbInv, SettlingOK, Inserts
  <2> QED
    BY <1>2, <1>n, <2>1
<1>6. Conserved(new)
  <2> SUFFICES ASSUME NEW f \in Families PROVE FamilyTotal(new.rows, f) = new.billed[f]
    BY DEF Conserved, DbInv
  <2>1. ChargesNat(db.rows)
    BY DEF DbInv, RowsOK, RowOK, DbTyped, TableInv, IsRow, ChargesNat
  <2>2. FamilySum(new.rows, f)
          = FamilySum(db.rows, f) + (IF FamilyOf(x.key) = f THEN x.settled ELSE 0)
    BY <1>1, <1>2, <1>n, <2>1, FamilySumAdd DEF IsCharge
  <2>3. FamilySum(db.rows, f) + floor[f] = db.billed[f]
    BY DEF DbInv, Conserved, FamilyTotal
  <2>4. FamilySum(db.rows, f) \in Nat /\ db.billed[f] \in Nat /\ x.settled \in Nat
    BY <2>1, FamilySumIs DEF DbInv, DbTyped, IsCharge
  <2>5. FamilySum(new.rows, f) + floor[f] = new.billed[f]
    <3>1. PICK a, b, c, d : /\ a = FamilySum(db.rows, f) /\ b = floor[f] /\ c = db.billed[f]
                            /\ d = x.settled
      OBVIOUS
    <3>2. b \in Nat
      BY <3>1 DEF DbInv, Conserved
    <3>3. new.billed[f] = IF f = FamilyOf(x.key) THEN c + d ELSE c
      BY <3>1 DEF Inserts
    <3> QED
      BY <2>2, <2>3, <2>4, <3>1, <3>2, <3>3
  <2> QED
    BY <2>5 DEF FamilyTotal
<1> QED
  BY <1>1, <1>3, <1>4, <1>5, <1>6 DEF n

\* Families and keys.
LEMMA KeyFacts ==
  /\ \A s \in Sessions, i \in Ids : TrueUpFamily(s, i) \in Families
  /\ \A s, t, i, j : TrueUpFamily(s, i) = TrueUpFamily(t, j) => s = t /\ i = j
  /\ \A s, i, c : FamilyOf(TrueUpKey(s, i, c)) = TrueUpFamily(s, i)
  /\ \A s, i, c : [TrueUpFamily(s, i) EXCEPT !.b = c] = TrueUpKey(s, i, c)
  /\ \A s, t, i, j, c, d : TrueUpKey(s, i, c) = TrueUpKey(t, j, d) => s = t /\ i = j /\ c = d
  /\ \A s, t, u, v : TurnKey(s, u) = TurnKey(t, v) => s = t /\ u = v
  /\ \A s, t, i, j, c : TrueUpKey(s, i, c) # TurnKey(t, j)
  /\ \A s, t, i, j : FamilyOf(TurnKey(s, t)) # TrueUpFamily(i, j)
  /\ \A s, t, r, a : FamilyOf(TurnKey(s, t)) # TranscriptFamily(r, a)
  /\ \A s, i, r, a : TrueUpFamily(s, i) # TranscriptFamily(r, a)
  /\ \A x \in Subagents : TranscriptFamily(x[1], x[2]) \in Families
<1>1. \A s \in Sessions, i \in Ids : TrueUpFamily(s, i) \in Families
  BY DEF Families
<1>2. \A s, t, i, j : TrueUpFamily(s, i) = TrueUpFamily(t, j) => s = t /\ i = j
  BY DEF TrueUpFamily
<1>3. /\ \A s, i, c : FamilyOf(TrueUpKey(s, i, c)) = TrueUpFamily(s, i)
      /\ \A s, i, c : [TrueUpFamily(s, i) EXCEPT !.b = c] = TrueUpKey(s, i, c)
  BY DEF TrueUpFamily, TrueUpKey, FamilyOf
<1>4. /\ \A s, t, i, j, c, d : TrueUpKey(s, i, c) = TrueUpKey(t, j, d) => s = t /\ i = j /\ c = d
      /\ \A s, t, u, v : TurnKey(s, u) = TurnKey(t, v) => s = t /\ u = v
  BY DEF TrueUpKey, TurnKey
<1>5. \A s, t, i, j, c : TrueUpKey(s, i, c) # TurnKey(t, j)
  BY DEF TrueUpKey, TurnKey
<1>6. /\ \A s, t, i, j : FamilyOf(TurnKey(s, t)) # TrueUpFamily(i, j)
      /\ \A s, t, r, a : FamilyOf(TurnKey(s, t)) # TranscriptFamily(r, a)
      /\ \A s, i, r, a : TrueUpFamily(s, i) # TranscriptFamily(r, a)
  BY DEF TrueUpFamily, TranscriptFamily, TurnKey, FamilyOf
<1>7. \A x \in Subagents : TranscriptFamily(x[1], x[2]) \in Families
  BY DEF Families
<1> QED
  BY <1>1, <1>2, <1>3, <1>4, <1>5, <1>6, <1>7

\* A charge that is not a true-up leaves the holds as they are.
LEMMA OtherCharge ==
  ASSUME NEW db, NEW stopped, NEW T, DbInv(db, stopped, T), TurnTyped, NEW new, DbTyped(new),
         NEW x, IsCharge(x), Inserts(db, new, x), db.issued + 1 \in Ids,
         \A s \in Sessions, i \in Ids : FamilyOf(x.key) # TrueUpFamily(s, i),
         TurnsOK(new, stopped)
  PROVE  DbInv(new, stopped, T)
<1> DEFINE n == db.issued + 1
<1>0. db.issued \in Nat /\ Ids \subseteq Nat /\ n \in Nat
  BY ConstantFacts DEF DbInv, DbTyped
<1>1. /\ db.rows[n] = None /\ RowsOK(new) /\ BoundOK(new) /\ SettlingOK(new) /\ Conserved(new)
  BY ChargeInserted
<1>2. new.rows[n] = x /\ (\A i \in Ids : i # n => new.rows[i] = db.rows[i]) /\ new.issued = n
  BY DEF Inserts
<1> HIDE DEF n
<1>n. n = db.issued + 1 /\ n \in Ids /\ \A i \in Ids : i <= db.issued => i # n /\ i <= n
  BY <1>0 DEF n
<1>3. \A s \in Sessions, i \in Ids : Added(new, s, i) = Added(db, s, i)
  BY KeyFacts DEF Added, Inserts
<1>4. \A s : ~MeasuredHold(x, s) /\ Own(x, s) = 0
  BY DEF MeasuredHold, Own, IsCharge
<1>5. \A s, i, c : s \in Sessions /\ i \in Ids => x.key # TrueUpKey(s, i, c)
  BY KeyFacts
<1>6. TrueUpsOK(new)
  <2> SUFFICES ASSUME NEW s \in Sessions, NEW i \in Ids, NEW c \in Nat, NEW j \in Ids,
                      new.rows[j] # None, new.rows[j].key = TrueUpKey(s, i, c)
               PROVE  /\ i <= new.issued
                      /\ new.rows[i] # None => /\ MeasuredHold(new.rows[i], s)
                              /\ new.rows[i].settled + Added(new, s, i) >= c
    BY DEF TrueUpsOK
  <2>1. j # n
    BY <1>2, <1>5
  <2>2. /\ i <= db.issued
        /\ db.rows[i] # None => /\ MeasuredHold(db.rows[i], s)
                              /\ db.rows[i].settled + Added(db, s, i) >= c
    BY <1>2, <2>1 DEF DbInv, TrueUpsOK
  <2> QED
    BY <1>2, <1>3, <1>n, <2>2
<1>7. HoldsOK(new)
  <2> SUFFICES ASSUME NEW s \in Sessions, NEW i \in Ids
               PROVE  /\ Own(new.rows[i], s) + Added(new, s, i) <= UsedBy(s, TurnsOf(s, i))
                      /\ Added(new, s, i) # 0 => i <= new.issued
                              /\ (new.rows[i] # None => MeasuredHold(new.rows[i], s))
    BY DEF HoldsOK
  <2>1. /\ Own(db.rows[i], s) + Added(db, s, i) <= UsedBy(s, TurnsOf(s, i))
        /\ Added(db, s, i) # 0 => i <= db.issued
                              /\ (db.rows[i] # None => MeasuredHold(db.rows[i], s))
    BY DEF DbInv, HoldsOK
  <2>2. CASE i # n
    BY <1>2, <1>3, <1>n, <2>1, <2>2
  <2>3. CASE i = n
    <3>1. Own(db.rows[i], s) = 0
      BY <1>1, <2>3 DEF Own, MeasuredHold, IsLaneRow
    <3> QED
      BY <1>2, <1>3, <1>4, <1>n, <2>1, <2>3, <3>1
  <2> QED
    BY <2>2, <2>3
<1>8. ExactOK(new, T)
  <2> SUFFICES ASSUME NEW i \in T
               PROVE  /\ i \in Ids /\ i <= new.issued
                      /\ \A s \in Sessions : IsLaneRow(new.rows[i], s, None) =>
                           /\ MeasuredHold(new.rows[i], s)
                           /\ AllComplete(s, i)
                           /\ new.rows[i].settled + Added(new, s, i) = UsedBy(s, TurnsOf(s, i))
    BY DEF ExactOK
  <2>1. i \in Ids /\ i <= db.issued
    BY DEF DbInv, ExactOK
  <2> QED
    BY <1>2, <1>3, <1>n, <2>1 DEF DbInv, ExactOK
<1>9. GoneOK(new, stopped)
  <2>1. \A i \in Ids : i <= db.issued => i # n
    BY <1>n
  <2>2. n > db.issued /\ db.issued <= new.issued /\ new.issued \in Nat
    BY <1>0, <1>2, <1>n
  <2>3. \A j \in Ids : \/ new.rows[j] = None \/ j > db.issued
                       \/ db.rows[j] # None /\ db.rows[j].key = new.rows[j].key
    BY <1>2, <2>2
  <2> QED
    BY <1>2, <1>3, <2>1, <2>2, <2>3, GoneStays
<1> QED
  BY <1>1, <1>6, <1>7, <1>8, <1>9 DEF DbInv

LEMMA MoreStopped ==
  ASSUME NEW db, NEW stopped, NEW T, DbInv(db, stopped, T), NEW others, stopped \subseteq others
  PROVE  DbInv(db, others, T)
<1>1. TurnsOK(db, others)
  BY DEF DbInv, TurnsOK
<1>2. GoneOK(db, others)
  BY DEF DbInv, GoneOK, GoneRow
<1> QED
  BY <1>1, <1>2 DEF DbInv

\* A turn charged by itself.
LEMMA TurnCharge ==
  ASSUME NEW db, NEW stopped, NEW T, DbInv(db, stopped, T), TurnTyped, NEW new, DbTyped(new),
         NEW x, IsCharge(x), Inserts(db, new, x), db.issued + 1 \in Ids,
         NEW s \in Sessions, NEW t \in Prompts, x.key = TurnKey(s, t), <<s, t>> \in stopped,
         prompts[<<s, t>>] = None, x.usage = "known" => x.settled <= turn[<<s, t>>].used,
         \A i \in Ids : db.rows[i] # None => db.rows[i].key # x.key
  PROVE  DbInv(new, stopped, T)
<1> DEFINE n == db.issued + 1
<1>1. \A r \in Sessions, i \in Ids : FamilyOf(x.key) # TrueUpFamily(r, i)
  BY KeyFacts
<1>2. new.rows[n] = x /\ (\A i \in Ids : i # n => new.rows[i] = db.rows[i])
  BY DEF Inserts
<1> HIDE DEF n
<1>3. TurnsOK(new, stopped)
  <2> SUFFICES ASSUME NEW r \in Sessions, NEW u \in Prompts, NEW i \in Ids,
                      new.rows[i] # None, new.rows[i].key = TurnKey(r, u)
               PROVE  /\ <<r, u>> \in stopped
                      /\ prompts[<<r, u>>] = None
                      /\ new.rows[i].usage = "known" => new.rows[i].settled <= turn[<<r, u>>].used
                      /\ \A j \in Ids : new.rows[j] # None /\ new.rows[j].key = TurnKey(r, u) => j = i
    BY DEF TurnsOK
  <2>1. CASE i = n
    <3>1. r = s /\ u = t
      BY <1>2, <2>1, KeyFacts
    <3>2. \A j \in Ids : new.rows[j] # None /\ new.rows[j].key = TurnKey(r, u) => j = i
      BY <1>2, <2>1, <3>1
    <3> QED
      BY <1>2, <2>1, <3>1, <3>2
  <2>2. CASE i # n
    <3>1. db.rows[i] # None /\ db.rows[i].key = TurnKey(r, u) /\ new.rows[i] = db.rows[i]
      BY <1>2, <2>2
    <3>2. /\ <<r, u>> \in stopped
          /\ prompts[<<r, u>>] = None
          /\ db.rows[i].usage = "known" => db.rows[i].settled <= turn[<<r, u>>].used
          /\ \A j \in Ids : db.rows[j] # None /\ db.rows[j].key = TurnKey(r, u) => j = i
      BY <3>1 DEF DbInv, TurnsOK
    <3>3. TurnKey(r, u) # x.key
      BY <3>1
    <3>4. \A j \in Ids : new.rows[j] # None /\ new.rows[j].key = TurnKey(r, u) => j = i
      BY <1>2, <3>2, <3>3
    <3> QED
      BY <3>1, <3>2, <3>4
  <2> QED
    BY <2>1, <2>2
<1> QED
  BY <1>1, <1>3, OtherCharge

\* A true-up.
LEMMA TrueUpCharge ==
  ASSUME NEW db, NEW stopped, NEW T, DbInv(db, stopped, T), TurnTyped, NEW new, DbTyped(new),
         NEW x, IsCharge(x), Inserts(db, new, x), db.issued + 1 \in Ids,
         NEW s \in Sessions, NEW i \in Ids, NEW c \in Nat, x.key = TrueUpKey(s, i, c),
         MeasuredHold(db.rows[i], s), x.settled = c - (db.rows[i].settled + Added(db, s, i)),
         x.settled > 0, c <= UsedBy(s, TurnsOf(s, i))
  PROVE  DbInv(new, stopped, T)
<1> DEFINE n == db.issued + 1
<1>a. db.issued \in Nat
  BY DEF DbInv, DbTyped
<1>b. Ids \subseteq Nat
  BY ConstantFacts
<1>0. db.issued \in Nat /\ Ids \subseteq Nat /\ n \in Nat
  BY <1>a, <1>b
<1>1. /\ db.rows[n] = None /\ RowsOK(new) /\ BoundOK(new) /\ SettlingOK(new) /\ Conserved(new)
  BY ChargeInserted
<1>2. new.rows[n] = x /\ (\A k \in Ids : k # n => new.rows[k] = db.rows[k]) /\ new.issued = n
  BY DEF Inserts
<1> HIDE DEF n
<1>n. n = db.issued + 1 /\ n \in Ids /\ \A k \in Ids : k <= db.issued => k # n /\ k <= n
  BY <1>0 DEF n
<1>3. /\ \A r \in Sessions, k \in Ids : <<r, k>> # <<s, i>> => Added(new, r, k) = Added(db, r, k)
      /\ Added(new, s, i) = Added(db, s, i) + x.settled
  BY KeyFacts DEF Added, Inserts
<1>4. \A r : ~MeasuredHold(x, r) /\ Own(x, r) = 0
  BY DEF MeasuredHold, Own, IsCharge
<1>5. db.rows[i] # None /\ i # n /\ new.rows[i] = db.rows[i] /\ i <= db.issued
  <2>1. db.rows[i] # None
    BY DEF MeasuredHold, IsLaneRow
  <2>2. i # n
    BY <1>1, <2>1
  <2>3. i <= db.issued
    BY <1>0, <2>1 DEF DbInv, DbTyped, TableInv
  <2> QED
    BY <1>2, <2>1, <2>2, <2>3
<1>6. /\ db.rows[i].settled \in Nat /\ Added(db, s, i) \in Nat /\ x.settled \in Nat
      /\ Own(db.rows[i], s) = db.rows[i].settled /\ UsedBy(s, TurnsOf(s, i)) \in Nat
  <2>1. db.rows[i].settled \in Nat
    BY <1>5 DEF DbInv, DbTyped, TableInv, IsRow, RowsOK, RowOK, MeasuredHold
  <2>2. Added(db, s, i) \in Nat
    BY KeyFacts DEF DbInv, DbTyped, Added
  <2>3. UsedBy(s, TurnsOf(s, i)) \in Nat
    BY TurnsOfIn, UsedIs
  <2> QED
    BY <2>1, <2>2, <2>3 DEF Own, IsCharge
<1>7. new.rows[i].settled + Added(new, s, i) = c
  BY <1>3, <1>5, <1>6
<1>8. TurnsOK(new, stopped)
  <2>1. \A r, u : x.key # TurnKey(r, u)
    BY KeyFacts
  <2> QED
    BY <1>2, <2>1 DEF DbInv, TurnsOK
<1>9. TrueUpsOK(new)
  <2> SUFFICES ASSUME NEW r \in Sessions, NEW k \in Ids, NEW d \in Nat, NEW j \in Ids,
                      new.rows[j] # None, new.rows[j].key = TrueUpKey(r, k, d)
               PROVE  /\ k <= new.issued
                      /\ new.rows[k] # None => /\ MeasuredHold(new.rows[k], r)
                              /\ new.rows[k].settled + Added(new, r, k) >= d
    BY DEF TrueUpsOK
  <2>1. CASE j = n
    <3>1. r = s /\ k = i /\ d = c
      BY <1>2, <2>1, KeyFacts
    <3> QED
      BY <1>2, <1>5, <1>7, <1>n, <3>1
  <2>2. CASE j # n
    <3>1. /\ k <= db.issued
          /\ db.rows[k] # None => /\ MeasuredHold(db.rows[k], r)
                                /\ db.rows[k].settled + Added(db, r, k) >= d
      BY <1>2, <2>2 DEF DbInv, TrueUpsOK
    <3>2. k # n /\ k <= n /\ new.rows[k] = db.rows[k]
      BY <1>2, <1>n, <3>1
    <3>3. CASE <<r, k>> = <<s, i>>
      <4>1. r = s /\ k = i
        BY <3>3
      <4>2. c >= d
        BY <1>5, <1>6, <3>1, <4>1
      <4> QED
        BY <1>2, <1>5, <1>7, <3>1, <3>2, <4>1, <4>2
    <3>4. CASE <<r, k>> # <<s, i>>
      BY <1>2, <1>3, <3>1, <3>2, <3>4
    <3> QED
      BY <3>3, <3>4
  <2> QED
    BY <2>1, <2>2
<1>10. HoldsOK(new)
  <2> SUFFICES ASSUME NEW r \in Sessions, NEW k \in Ids
               PROVE  /\ Own(new.rows[k], r) + Added(new, r, k) <= UsedBy(r, TurnsOf(r, k))
                      /\ Added(new, r, k) # 0 => k <= new.issued
                              /\ (new.rows[k] # None => MeasuredHold(new.rows[k], r))
    BY DEF HoldsOK
  <2>1. /\ Own(db.rows[k], r) + Added(db, r, k) <= UsedBy(r, TurnsOf(r, k))
        /\ Added(db, r, k) # 0 => k <= db.issued
                              /\ (db.rows[k] # None => MeasuredHold(db.rows[k], r))
    BY DEF DbInv, HoldsOK
  <2>2. CASE <<r, k>> = <<s, i>>
    <3>1. r = s /\ k = i
      BY <2>2
    <3>2. Own(new.rows[i], s) + Added(new, s, i) = c
      BY <1>5, <1>6, <1>7
    <3> QED
      BY <1>2, <1>5, <1>n, <3>1, <3>2
  <2>3. CASE <<r, k>> # <<s, i>> /\ k # n
    BY <1>2, <1>3, <1>n, <2>1, <2>3
  <2>4. CASE <<r, k>> # <<s, i>> /\ k = n
    <3>1. Own(db.rows[k], r) = 0
      BY <1>1, <2>4 DEF Own, MeasuredHold, IsLaneRow
    <3> QED
      BY <1>2, <1>3, <1>4, <1>n, <2>1, <2>4, <3>1
  <2> QED
    BY <2>2, <2>3, <2>4
<1>11. ExactOK(new, T)
  <2> SUFFICES ASSUME NEW k \in T
               PROVE  /\ k \in Ids /\ k <= new.issued
                      /\ \A r \in Sessions : IsLaneRow(new.rows[k], r, None) =>
                           /\ MeasuredHold(new.rows[k], r)
                           /\ AllComplete(r, k)
                           /\ new.rows[k].settled + Added(new, r, k) = UsedBy(r, TurnsOf(r, k))
    BY DEF ExactOK
  <2>1. k \in Ids /\ k <= db.issued /\ k # n /\ k <= n /\ new.rows[k] = db.rows[k]
    BY <1>2, <1>n DEF DbInv, ExactOK
  <2>2. k # i
    <3>1. k = i => db.rows[i].settled + Added(db, s, i) = UsedBy(s, TurnsOf(s, i))
      BY DEF DbInv, ExactOK, MeasuredHold
    <3> QED
      BY <1>6, <3>1
  <2>3. \A r \in Sessions : Added(new, r, k) = Added(db, r, k)
    BY <1>3, <2>1, <2>2
  <2> QED
    BY <1>2, <2>1, <2>3 DEF DbInv, ExactOK
<1>12. GoneOK(new, stopped)
  <2>1. \A k \in Ids : k <= db.issued => k # n
    BY <1>n
  <2>2. n > db.issued /\ db.issued <= new.issued /\ new.issued \in Nat
    BY <1>0, <1>2, <1>n
  <2>3. \A j \in Ids : \/ new.rows[j] = None \/ j > db.issued
                       \/ db.rows[j] # None /\ db.rows[j].key = new.rows[j].key
    BY <1>2, <2>2
  <2>4. ASSUME NEW r \in Sessions, NEW k \in Ids, db.rows[k] = None
        PROVE  Added(new, r, k) = Added(db, r, k)
    <3>1. <<r, k>> # <<s, i>>
      BY <1>5, <2>4
    <3> QED
      BY <1>3, <3>1
  <2> QED
    BY <1>2, <2>1, <2>2, <2>3, <2>4, GoneStays
<1> QED
  BY <1>1, <1>8, <1>9, <1>10, <1>11, <1>12 DEF DbInv

\* A hold whose measurement is final.
LEMMA TriedAdd ==
  ASSUME NEW db, NEW stopped, NEW T, DbInv(db, stopped, T), NEW s \in Sessions, NEW i \in Ids,
         i <= db.issued, MeasuredHold(db.rows[i], s), AllComplete(s, i),
         db.rows[i].settled + Added(db, s, i) = UsedBy(s, TurnsOf(s, i))
  PROVE  DbInv(db, stopped, T \cup {i})
<1>1. \A r : IsLaneRow(db.rows[i], r, None) => r = s
  BY DEF MeasuredHold, IsLaneRow
<1>2. ExactOK(db, T \cup {i})
  BY <1>1 DEF DbInv, ExactOK
<1> QED
  BY <1>2 DEF DbInv

-----------------------------------------------------------------------------
(* Rows and charges as they are made *)

LEMMA LateTyped ==
  /\ "settled" \in RowStates /\ "expired" \in RowStates /\ "active" \in RowStates
  /\ \A S : None \in Opt(S) /\ \A x \in S : x \in Opt(S)
  BY DEF RowStates, Opt

\* A row that lapses, is renewed or is settled stays a row.
LEMMA LapsedLate ==
  ASSUME NEW x \in LateRow, x.state # "settled", NEW c \in Nat
  PROVE  Keeps(x, Lapsed(x, c))
<1>1. PICK y : y = Lapsed(x, c)
  OBVIOUS
<1>2. y \in LateRow
  BY <1>1, LateTyped DEF Lapsed, LateRow
<1>3. /\ y.key = x.key /\ y.who = x.who /\ y.lane = x.lane /\ y.kind = x.kind
      /\ y.usage = x.usage /\ y.settled = x.settled /\ y.state = "expired"
  BY <1>1 DEF Lapsed, LateRow
<1> QED
  BY <1>1, <1>2, <1>3 DEF Keeps

LEMMA RenewedLate ==
  ASSUME NEW x \in LateRow, NEW e \in Nat
  PROVE  Keeps(x, Renewed(x, e))
<1>1. PICK y : y = Renewed(x, e)
  OBVIOUS
<1>2. y \in LateRow
  BY <1>1 DEF Renewed, LateRow
<1>3. /\ y.key = x.key /\ y.who = x.who /\ y.lane = x.lane /\ y.kind = x.kind
      /\ y.usage = x.usage /\ y.settled = x.settled /\ y.state = x.state
  BY <1>1 DEF Renewed, LateRow
<1> QED
  BY <1>1, <1>2, <1>3 DEF Keeps

LEMMA SettledLate ==
  ASSUME NEW x \in LateRow, x.lane = "main", x.source = "turn_hold", NEW v \in Nat,
         NEW u \in {"known", "unknown"}, NEW c \in Nat
  PROVE  LET y == Settled(x, v, u, c, "main", "turn_hold", None) IN
         /\ y \in LateRow /\ y.state = "settled" /\ y.settled = v /\ y.usage = u
         /\ y.key = x.key /\ y.who = x.who /\ y.lane = x.lane /\ y.kind = x.kind
<1> DEFINE y == [x EXCEPT !.state = "settled", !.settled = v, !.usage = u, !.settledAt = c,
                          !.lane = "main", !.source = "turn_hold", !.mark = None]
<1>0. v \in Opt(Nat) /\ u \in Opt({"known", "unknown"}) /\ c \in Opt(Nat) /\ None \in Opt(Mark)
  BY LateTyped
<1>1. Settled(x, v, u, c, "main", "turn_hold", None) = y
  <2>1. (IF x.lane # None THEN x.lane ELSE "main") = "main"
    OBVIOUS
  <2>2. (IF x.source # None THEN x.source ELSE "turn_hold") = "turn_hold"
    OBVIOUS
  <2> QED
    BY <2>1, <2>2 DEF Settled
<1>2. y \in LateRow
  BY <1>0, LateTyped DEF LateRow
<1>3. /\ y.state = "settled" /\ y.settled = v /\ y.usage = u
      /\ y.key = x.key /\ y.who = x.who /\ y.lane = x.lane /\ y.kind = x.kind
  BY DEF LateRow
<1> HIDE DEF y
<1> QED
  BY <1>1, <1>2, <1>3

LEMMA ChargeLate ==
  ASSUME NEW p \in Periods, NEW s \in Sessions, NEW k \in Key, NEW a \in Nat,
         NEW u \in {"known", "unknown"}, NEW c \in Nat, NEW l \in Agents \cup {"main"},
         NEW src \in {"turn_hold", "subagent_transcript"}
  PROVE  LET y == ChargeRow(p, Who(s), k, a, u, c, l, src, None) IN
         /\ y \in LateRow /\ y # None /\ y.kind = "charge" /\ y.state = "settled"
         /\ y.settled = a /\ y.usage = u /\ y.key = k /\ y.who.session = s /\ y.lane = l
<1>0. /\ a \in Opt(Nat) /\ u \in Opt({"known", "unknown"}) /\ c \in Opt(Nat)
      /\ None \in Opt(Mark) /\ None \in Opt(Nat) /\ l \in Opt(Agents \cup {"main"})
      /\ src \in Opt({"turn_hold", "subagent_transcript"})
  BY LateTyped
<1>1. PICK y : y = ChargeRow(p, Who(s), k, a, u, c, l, src, None)
  OBVIOUS
<1>2. y \in LateRow
  BY <1>0, <1>1, LateTyped DEF ChargeRow, LateRow
<1>3. /\ y.kind = "charge" /\ y.state = "settled" /\ y.settled = a /\ y.usage = u /\ y.key = k
      /\ y.who.session = s /\ y.lane = l
  BY <1>1 DEF ChargeRow, Who
<1> QED
  BY <1>1, <1>2, <1>3, LateRowAssumption

\* The tables of a daemon whose clock stands at now.
Posting(db, p, x, i) ==
  [db EXCEPT !.issued = i,
             !.pools[p] = IF @ = None THEN [unit |-> "UsdCents", cap |-> cfg.cap] ELSE @,
             !.rows[i] = x, !.created[i] = now]

LEMMA PostingFacts ==
  ASSUME NEW db, DbTyped(db), NEW p, NEW x, NEW i
  PROVE  LET new == Posting(db, p, x, i) IN
         /\ new = [rows |-> new.rows, pools |-> new.pools, created |-> new.created,
                   issued |-> new.issued, settling |-> new.settling, billed |-> new.billed]
         /\ new.rows = [db.rows EXCEPT ![i] = x] /\ new.created = [db.created EXCEPT ![i] = now]
         /\ new.issued = i /\ new.settling = db.settling /\ new.billed = db.billed
<1>1. PICK a, b, c, d, e, f :
        /\ a = db.rows /\ b = db.pools /\ c = db.created /\ d = db.issued /\ e = db.settling
        /\ f = db.billed
  OBVIOUS
<1>2. db = [rows |-> a, pools |-> b, created |-> c, issued |-> d, settling |-> e, billed |-> f]
  BY <1>1 DEF DbTyped
<1>3. PICK cap, w : cap = cfg.cap /\ w = now
  OBVIOUS
<1>4. PICK y, z, q : /\ y = [a EXCEPT ![i] = x] /\ z = [c EXCEPT ![i] = w]
                     /\ q = [b EXCEPT ![p] = IF @ = None THEN [unit |-> "UsdCents", cap |-> cap] ELSE @]
  OBVIOUS
<1>5. Posting(db, p, x, i) =
        [db EXCEPT !.issued = i,
             !.pools[p] = IF @ = None THEN [unit |-> "UsdCents", cap |-> cap] ELSE @,
             !.rows[i] = x, !.created[i] = w]
  BY <1>3 DEF Posting
<1>6. db.pools = b /\ db.rows = a /\ db.created = c
  BY <1>1
<1>7. Posting(db, p, x, i) = [db EXCEPT !.issued = i, !.pools = q, !.rows = y, !.created = z]
  BY <1>4, <1>5, <1>6
<1>8. Posting(db, p, x, i) =
        [rows |-> y, pools |-> q, created |-> z, issued |-> i, settling |-> e, billed |-> f]
  BY <1>2, <1>7
<1> QED
  BY <1>1, <1>3, <1>4, <1>8

\* A charge that is bookable is a row of its lane behind the others.
LEMMA ChargedIs ==
  ASSUME SbIInv, NEW db, DbTyped(db), db.issued + 1 \in Ids, NEW s \in Sessions,
         NEW agent \in Opts(Agents), NEW key \in Key, NEW cents, NEW e \in Nat \cup {None},
         NEW usage \in {"known", "unknown"}, NEW source \in {"turn_hold", "subagent_transcript"},
         AttributionOf(agent, source) \in Agents \cup {"main"}, Bookable(db, s, key, cents, e)
  PROVE  LET new == Charged(db, s, agent, key, cents, e, usage, source) IN
         /\ DbTyped(new)
         /\ \A i \in Ids : i # db.issued + 1 => new.created[i] = db.created[i]
         /\ \E x : /\ Inserts(db, new, x)
                   /\ x \in LateRow /\ x # None /\ x.kind = "charge" /\ x.state = "settled"
                   /\ x.settled = cents /\ cents \in Nat /\ x.usage = usage /\ x.key = key
                   /\ x.who.session = s /\ x.lane = AttributionOf(agent, source)
<1> DEFINE p == ChargePool(s, e)
           l == AttributionOf(agent, source)
           n == db.issued + 1
           x == ChargeRow(p, Who(s), key, cents, usage, now, l, source, None)
           fam == FamilyOf(key)
           new == Charged(db, s, agent, key, cents, e, usage, source)
<1>1. cents \in Nat /\ cents > 0 /\ p \in Periods
  <2>1. p # None /\ cents \in 1..(CeilingFactor * cfg.cap)
    BY DEF Bookable
  <2>2. CeilingFactor * cfg.cap \in Int
    BY ConstantFacts DEF SbIInv, SbTyped
  <2>3. \A z \in Int : \A c \in 1..z : c \in Nat /\ c > 0
    OBVIOUS
  <2> QED
    BY <2>1, <2>2, <2>3, ChargePoolIs
<1>2. now \in Nat /\ now \in 0..MaxTime
  BY ConstantFacts DEF SbIInv, SbTyped
<1>3. l \in Agents \cup {"main"}
  OBVIOUS
<1> HIDE DEF p, l
<1>4. /\ x \in LateRow /\ x # None /\ x.kind = "charge" /\ x.state = "settled"
      /\ x.settled = cents /\ x.usage = usage /\ x.key = key /\ x.who.session = s /\ x.lane = l
  BY <1>1, <1>2, <1>3, ChargeLate
<1>5. IsRow(x)
  BY <1>1, NewChargeRow
<1>6. new = [Posting(db, p, x, n) EXCEPT
               !.billed = [g \in Families |-> IF g = fam THEN @[g] + cents ELSE @[g]]]
  BY DEF Charged, Posted, Posting, p, l
<1> HIDE DEF x, new, fam
<1>7. PICK mid : mid = Posting(db, p, x, n)
  OBVIOUS
<1>8. /\ mid = [rows |-> mid.rows, pools |-> mid.pools, created |-> mid.created,
                   issued |-> mid.issued, settling |-> mid.settling, billed |-> mid.billed]
      /\ mid.rows = [db.rows EXCEPT ![n] = x] /\ mid.created = [db.created EXCEPT ![n] = now]
      /\ mid.issued = n /\ mid.settling = db.settling /\ mid.billed = db.billed
  <2> HIDE DEF n
  <2> QED
    BY <1>7, PostingFacts
<1>9. PICK b : b = [g \in Families |-> IF g = fam THEN db.billed[g] + cents ELSE db.billed[g]]
  OBVIOUS
<1>10. new = [mid EXCEPT !.billed = b]
  BY <1>6, <1>7, <1>8, <1>9
<1>11. /\ new = [rows |-> new.rows, pools |-> new.pools, created |-> new.created,
                 issued |-> new.issued, settling |-> new.settling, billed |-> new.billed]
       /\ new.rows = mid.rows /\ new.created = mid.created /\ new.issued = n
       /\ new.settling = db.settling /\ new.billed = b
  BY <1>8, <1>10
<1>12. db.issued \in Nat /\ n \in Ids /\ n \in Nat
  BY DEF DbTyped
<1> HIDE DEF n
<1>n. n = db.issued + 1
  BY DEF n
<1>13. TableInv(new.rows, n)
  <2>1. TableInv([db.rows EXCEPT ![db.issued + 1] = x], db.issued + 1)
    BY <1>4, <1>5, <1>12, <1>n, InsertedTable DEF DbTyped
  <2> QED
    BY <1>8, <1>11, <1>n, <2>1
<1>14. b \in [Families -> Nat]
  <2>1. \A g \in Families : db.billed[g] \in Nat
    BY DEF DbTyped
  <2> QED
    BY <1>1, <1>9, <2>1
<1>15. new.created \in [Ids -> 0..MaxTime]
  BY <1>2, <1>8, <1>11, <1>12 DEF DbTyped
<1>16. DbTyped(new)
  BY <1>11, <1>12, <1>13, <1>14, <1>15 DEF DbTyped
<1>17. Inserts(db, new, x)
  <2>1. new.rows[n] = x /\ \A i \in Ids : i # n => new.rows[i] = db.rows[i]
    BY <1>8, <1>11, <1>12 DEF DbTyped, TableInv, IsTable
  <2>2. \A f \in Families : new.billed[f] = IF f = FamilyOf(x.key) THEN db.billed[f] + x.settled
                                            ELSE db.billed[f]
    BY <1>4, <1>9, <1>11 DEF fam
  <2> QED
    BY <1>11, <1>n, <2>1, <2>2 DEF Inserts
<1>18. \A i \in Ids : i # db.issued + 1 => new.created[i] = db.created[i]
  BY <1>8, <1>11, <1>n DEF DbTyped
<1> QED
  BY <1>1, <1>4, <1>16, <1>17, <1>18 DEF new, l

-----------------------------------------------------------------------------
(* Settling the holds of a session *)

\* A hold is settled at no more, measured, than its turns used.
LEMMA SettledHoldIs ==
  ASSUME SbIInv, TurnTyped, NEW s \in Sessions, NEW S \in SUBSET Prompts, NEW readable,
         NEW x \in LateRow, IsRow(x), x.kind = "hold", x.lane = "main"
  PROVE  LET y == SettledHold(x, s, S, readable) IN
         Ages(x, y) /\ y # None /\ Settles(x, y, UsedBy(s, S))
<1> DEFINE known == {t \in S : readable /\ turn[<<s, t>>].written > 0}
           cost == Cost(s, known)
           cents == IF known = S \/ cost > x.amount THEN cost ELSE None
           measured == cents # None /\ Plausible(cents)
           v == IF measured THEN cents ELSE x.amount
           u == IF measured THEN "known" ELSE "unknown"
<1>1. SettledHold(x, s, S, readable) = Settled(x, v, u, now, "main", "turn_hold", None)
  BY DEF SettledHold, measure_codex_turns
<1>2. cost <= UsedBy(s, S) /\ cost \in Nat /\ UsedBy(s, S) \in Nat
  <2>1. known \in SUBSET S
    OBVIOUS
  <2> HIDE DEF known
  <2> QED
    BY <2>1, CostBelow
<1>3. cents = None \/ cents = cost
  OBVIOUS
<1>4. x.amount \in Nat /\ x.source = "turn_hold" /\ now \in Nat
  BY ConstantFacts DEF IsRow, RowsWith, SbIInv, SbTyped
<1> HIDE DEF cost, cents
<1>5. v \in Nat /\ u \in {"known", "unknown"} /\ (u = "known" => v <= UsedBy(s, S))
  BY <1>2, <1>3, <1>4
<1> HIDE DEF v, u
<1>6. PICK y : y = Settled(x, v, u, now, "main", "turn_hold", None)
  OBVIOUS
<1>7. Ages(x, y)
  BY <1>5, <1>6, SettledHoldRow
<1>8. /\ y \in LateRow /\ y.state = "settled" /\ y.settled = v /\ y.usage = u
      /\ y.key = x.key /\ y.who = x.who /\ y.lane = x.lane /\ y.kind = x.kind
  BY <1>4, <1>5, <1>6, SettledLate
<1>9. Settles(x, y, UsedBy(s, S)) /\ y # None
  BY <1>5, <1>8, LateRowAssumption DEF Settles
<1> QED
  BY <1>1, <1>6, <1>7, <1>9

\* What is settled stays as it is, no more than k rows are new, and no subagent is
\* charged.
Follows(db, new, k) ==
  /\ new.issued <= db.issued + k
  /\ \A i \in Ids : db.rows[i] # None /\ db.rows[i].state = "settled" =>
       new.rows[i] = db.rows[i] /\ new.created[i] = db.created[i]
  /\ \A x \in Subagents : new.billed[TranscriptFamily(x[1], x[2])]
                            = db.billed[TranscriptFamily(x[1], x[2])]

LEMMA SettledSoFarIs ==
  ASSUME NEW db
  PROVE  SettledSoFar(db) \in Nat
<1>1. IsFiniteSet(Ids)
  BY ConstantFacts, FS_Interval
<1>2. PICK S : S = {i \in Ids : db.settling[i] > 0}
  OBVIOUS
<1>3. IsFiniteSet(S)
  BY <1>1, <1>2, FS_Subset
<1> QED
  BY <1>2, <1>3, FS_CardinalityType DEF SettledSoFar

\* The holds S of a session are settled by their turns.
Resettled(db, new, s, S, readable) ==
  /\ new = [rows |-> new.rows, pools |-> new.pools, created |-> new.created,
            issued |-> new.issued, settling |-> new.settling, billed |-> new.billed]
  /\ IsTable(new.rows)
  /\ new.issued = db.issued /\ new.billed = db.billed /\ new.created = db.created
  /\ new.settling \in [Ids -> Nat]
  /\ \A i \in Ids \ S : new.rows[i] = db.rows[i] /\ new.settling[i] = db.settling[i]
  /\ \A i \in S : /\ IsLaneRow(db.rows[i], s, None) /\ db.rows[i].kind = "hold"
                  /\ db.rows[i].state \in {"active", "expired"}
                  /\ new.rows[i] = SettledHold(db.rows[i], s, TurnsOf(s, i), readable)

LEMMA ResettledOK ==
  ASSUME SbIInv, TurnTyped, NEW db, NEW stopped, NEW T, DbInv(db, stopped, T), NEW new,
         NEW s \in Sessions, NEW S \in SUBSET Ids, NEW readable,
         Resettled(db, new, s, S, readable)
  PROVE  DbInv(new, stopped, T) /\ Follows(db, new, 0)
<1>1. ASSUME NEW i \in S
      PROVE  /\ db.rows[i] # None /\ new.rows[i] # None
             /\ db.rows[i].state # "settled"
             /\ Ages(db.rows[i], new.rows[i])
             /\ Settles(db.rows[i], new.rows[i], UsedBy(s, TurnsOf(s, i)))
  <2>1. /\ db.rows[i] # None /\ db.rows[i].lane = "main" /\ db.rows[i].kind = "hold"
        /\ db.rows[i].state \in {"active", "expired"}
        /\ new.rows[i] = SettledHold(db.rows[i], s, TurnsOf(s, i), readable)
    BY DEF Resettled, IsLaneRow
  <2>2. IsRow(db.rows[i]) /\ db.rows[i] \in LateRow
    BY <2>1 DEF DbInv, DbTyped, TableInv, RowsOK, RowOK
  <2> QED
    BY <2>1, <2>2, TurnsOfIn, SettledHoldIs
<1>2. db.issued \in Nat /\ TableInv(db.rows, db.issued)
  BY DEF DbInv, DbTyped
<1>3. TableInv(new.rows, db.issued)
  <2>1. \A i \in Ids : new.rows[i] = db.rows[i]
                         \/ (db.rows[i] # None /\ Ages(db.rows[i], new.rows[i]))
    BY <1>1 DEF Resettled
  <2>2. IsTable(new.rows)
    BY DEF Resettled
  <2> QED
    BY <1>2, <2>1, <2>2, AgedTable
<1>4. DbTyped(new)
  BY <1>3 DEF DbInv, DbTyped, Resettled
<1>5. DbInv(new, stopped, T)
  <2>1. /\ new.issued = db.issued /\ new.billed = db.billed
        /\ \A i \in Ids \ S : new.rows[i] = db.rows[i] /\ new.settling[i] = db.settling[i]
        /\ \A i \in S : /\ IsLaneRow(db.rows[i], s, None) /\ db.rows[i].kind = "hold"
                        /\ db.rows[i].state \in {"active", "expired"}
    BY DEF Resettled
  <2> QED
    BY <1>1, <1>4, <2>1, RowsSettled
<1>6. Follows(db, new, 0)
  BY <1>1, <1>2 DEF Follows, Resettled
<1> QED
  BY <1>5, <1>6

\* A record of tables whose rows and settlement order are replaced.
Replaced(db, r, g) == [db EXCEPT !.rows = r, !.settling = g]

LEMMA RecordFacts ==
  ASSUME NEW db, DbTyped(db), NEW r, NEW g
  PROVE  LET new == Replaced(db, r, g) IN
         /\ new = [rows |-> new.rows, pools |-> new.pools, created |-> new.created,
                   issued |-> new.issued, settling |-> new.settling, billed |-> new.billed]
         /\ new.rows = r /\ new.settling = g /\ new.issued = db.issued /\ new.billed = db.billed
         /\ new.created = db.created
<1>1. PICK a, b, c, d, e, f :
        /\ a = db.rows /\ b = db.pools /\ c = db.created /\ d = db.issued /\ e = db.settling
        /\ f = db.billed
  OBVIOUS
<1>2. db = [rows |-> a, pools |-> b, created |-> c, issued |-> d, settling |-> e, billed |-> f]
  BY <1>1 DEF DbTyped
<1>3. PICK new : new = [db EXCEPT !.rows = r, !.settling = g]
  OBVIOUS
<1>4. new = [rows |-> r, pools |-> b, created |-> c, issued |-> d, settling |-> g, billed |-> f]
  BY <1>2, <1>3
<1> QED
  BY <1>1, <1>3, <1>4 DEF Replaced

LEMMA HoldSettled ==
  ASSUME SbIInv, TurnTyped, NEW db, NEW stopped, NEW T, DbInv(db, stopped, T), NEW readable,
         NEW s \in Sessions, NEW t \in Prompts, prompts[<<s, t>>] # None
  PROVE  LET new == settle_codex_hold(db, s, t, prompts[<<s, t>>], readable) IN
         DbInv(new, stopped, T) /\ Follows(db, new, 0)
<1>1. PICK i, new : /\ i = prompts[<<s, t>>]
                    /\ new = settle_codex_hold(db, s, t, i, readable)
  OBVIOUS
<1>2. i \in Ids
  BY <1>1 DEF SbIInv, SbTyped, Opts
<1>3. CASE db.rows[i] = None \/ db.rows[i].state \notin {"active", "expired"}
  <2>1. new = db
    BY <1>1, <1>3 DEF settle_codex_hold
  <2>2. db.issued \in Nat
    BY DEF DbInv, DbTyped
  <2> QED
    BY <1>1, <2>1, <2>2 DEF Follows
<1>4. CASE ~(db.rows[i] = None \/ db.rows[i].state \notin {"active", "expired"})
  <2>1. IsLaneRow(db.rows[i], s, None) /\ db.rows[i].kind = "hold"
    BY <1>1, <1>2, <1>4 DEF DbInv, BoundOK
  <2>2. TurnsOf(s, i) \cup {t} = TurnsOf(s, i)
    BY <1>1 DEF TurnsOf
  <2>3. PICK y, n : y = SettledHold(db.rows[i], s, TurnsOf(s, i), readable)
                    /\ n = SettledSoFar(db) + 1
    OBVIOUS
  <2>4. PICK r, g : r = [db.rows EXCEPT ![i] = y] /\ g = [db.settling EXCEPT ![i] = n]
    OBVIOUS
  <2>5. new = Replaced(db, r, g)
    <3>1. new = [db EXCEPT !.rows[i] = SettledHold(@, s, TurnsOf(s, i) \cup {t}, readable),
                           !.settling[i] = SettledSoFar(db) + 1]
      BY <1>1, <1>4 DEF settle_codex_hold
    <3>2. new = [db EXCEPT !.rows[i] = y, !.settling[i] = n]
      BY <2>2, <2>3, <3>1
    <3> QED
      BY <2>4, <3>2 DEF Replaced
  <2>6. DbTyped(db) /\ n \in Nat
    BY <2>3, SettledSoFarIs DEF DbInv
  <2>7. /\ new = [rows |-> new.rows, pools |-> new.pools, created |-> new.created,
                  issued |-> new.issued, settling |-> new.settling, billed |-> new.billed]
        /\ new.rows = r /\ new.settling = g /\ new.issued = db.issued /\ new.billed = db.billed
        /\ new.created = db.created
    BY <2>5, <2>6, RecordFacts
  <2>8. /\ IsTable(r) /\ r[i] = y /\ \A j \in Ids : j # i => r[j] = db.rows[j]
        /\ g \in [Ids -> Nat] /\ \A j \in Ids : j # i => g[j] = db.settling[j]
    BY <1>2, <2>4, <2>6 DEF DbTyped, TableInv, IsTable
  <2>9. Resettled(db, new, s, {i}, readable)
    BY <1>4, <2>1, <2>3, <2>7, <2>8 DEF Resettled
  <2> QED
    BY <1>1, <1>2, <2>9, ResettledOK
<1> QED
  BY <1>3, <1>4

LEMMA RecoveredOK ==
  ASSUME SbIInv, TurnTyped, NEW db, NEW stopped, NEW T, DbInv(db, stopped, T), NEW readable,
         NEW s \in Sessions
  PROVE  LET new == Recovered(db, s, readable) IN
         DbInv(new, stopped, T) /\ Follows(db, new, 0)
<1>1. PICK S : S = Orphans(db, s)
  OBVIOUS
<1>2. /\ S \in SUBSET Ids
      /\ \A i \in S : /\ IsLaneRow(db.rows[i], s, None) /\ db.rows[i].kind = "hold"
                      /\ db.rows[i].state \in {"active", "expired"}
  BY <1>1 DEF Orphans
<1>3. PICK a, b : a = db.rows /\ b = db.settling
  OBVIOUS
<1>4. PICK r, g, n :
        /\ r = [i \in Ids |-> IF i \in S THEN SettledHold(a[i], s, TurnsOf(s, i), readable)
                              ELSE a[i]]
        /\ n = SettledSoFar(db)
        /\ g = [i \in Ids |-> IF i \in S THEN n + Cardinality({j \in S : j <= i}) ELSE b[i]]
  OBVIOUS
<1>5. PICK new : new = Recovered(db, s, readable)
  OBVIOUS
<1>6. new = Replaced(db, r, g)
  BY <1>1, <1>3, <1>4, <1>5 DEF Recovered, Replaced
<1>7. DbTyped(db) /\ n \in Nat
  BY <1>4, SettledSoFarIs DEF DbInv
<1>8. /\ new = [rows |-> new.rows, pools |-> new.pools, created |-> new.created,
                issued |-> new.issued, settling |-> new.settling, billed |-> new.billed]
      /\ new.rows = r /\ new.settling = g /\ new.issued = db.issued /\ new.billed = db.billed
      /\ new.created = db.created
  BY <1>6, <1>7, RecordFacts
<1>9. \A i : Cardinality({j \in S : j <= i}) \in Nat
  <2> SUFFICES ASSUME NEW i PROVE Cardinality({j \in S : j <= i}) \in Nat
    OBVIOUS
  <2>1. IsFiniteSet(Ids)
    BY ConstantFacts, FS_Interval
  <2>2. PICK R : R = {j \in S : j <= i}
    OBVIOUS
  <2>3. IsFiniteSet(R)
    BY <1>2, <2>1, <2>2, FS_Subset
  <2> QED
    BY <2>2, <2>3, FS_CardinalityType
<1>10. g \in [Ids -> Nat]
  <2>1. \A i \in Ids : b[i] \in Nat
    BY <1>3, <1>7 DEF DbTyped
  <2> DEFINE before(i) == Cardinality({j \in S : j <= i})
  <2>2. \A i : before(i) \in Nat
    BY <1>9
  <2>3. g = [i \in Ids |-> IF i \in S THEN n + before(i) ELSE b[i]]
    BY <1>4
  <2> HIDE DEF before
  <2>4. \A i \in Ids : n + before(i) \in Nat
    BY <1>7, <2>2
  <2> QED
    BY <2>1, <2>3, <2>4
<1>11. IsTable(r)
  BY <1>4 DEF IsTable
<1>12. /\ \A i \in Ids \ S : r[i] = a[i] /\ g[i] = b[i]
       /\ \A i \in S : r[i] = SettledHold(a[i], s, TurnsOf(s, i), readable)
  BY <1>2, <1>4
<1>13. Resettled(db, new, s, S, readable)
  BY <1>2, <1>3, <1>8, <1>10, <1>11, <1>12 DEF Resettled
<1> QED
  BY <1>2, <1>5, <1>13, ResettledOK

-----------------------------------------------------------------------------
(* A turn charged by itself, and a true-up *)

LEMMA KeysTyped ==
  ASSUME NEW s \in Sessions
  PROVE  /\ \A t \in Prompts : TurnKey(s, t) \in Key
         /\ \A i \in Ids, c \in Nat : TrueUpKey(s, i, c) \in Key
<1>1. Ids \subseteq Nat
  BY ConstantFacts
<1> QED
  BY <1>1 DEF TurnKey, TrueUpKey, Key, Opts

\* A charge of the main lane.
LEMMA MainCharge ==
  ASSUME SbIInv, NEW db, NEW stopped, NEW T, DbInv(db, stopped, T), db.issued + 1 \in Ids,
         NEW s \in Sessions, NEW key \in Key, NEW cents, NEW e \in Nat \cup {None},
         NEW usage \in {"known", "unknown"}, Bookable(db, s, key, cents, e),
         \/ \E t \in Prompts : key = TurnKey(s, t)
         \/ \E i \in Ids, c \in Nat : key = TrueUpKey(s, i, c)
  PROVE  LET new == Charged(db, s, None, key, cents, e, usage, "turn_hold") IN
         /\ DbTyped(new) /\ Follows(db, new, 1)
         /\ \E x : /\ Inserts(db, new, x) /\ IsCharge(x)
                   /\ x.settled = cents /\ x.usage = usage /\ x.key = key
<1>1. AttributionOf(None, "turn_hold") = "main"
      /\ "main" \in Agents \cup {"main"} /\ "turn_hold" \in {"turn_hold", "subagent_transcript"}
  BY DEF AttributionOf
<1>2. PICK new : new = Charged(db, s, None, key, cents, e, usage, "turn_hold")
  OBVIOUS
<1>3. DbTyped(db) /\ None \in Opts(Agents)
  BY DEF DbInv, Opts
<1>4. /\ DbTyped(new)
      /\ \A i \in Ids : i # db.issued + 1 => new.created[i] = db.created[i]
      /\ \E x : /\ Inserts(db, new, x)
                /\ x \in LateRow /\ x # None /\ x.kind = "charge" /\ x.state = "settled"
                /\ x.settled = cents /\ cents \in Nat /\ x.usage = usage /\ x.key = key
                /\ x.who.session = s /\ x.lane = "main"
  BY <1>1, <1>2, <1>3, ChargedIs
<1>5. PICK x : /\ Inserts(db, new, x)
               /\ x \in LateRow /\ x # None /\ x.kind = "charge" /\ x.state = "settled"
               /\ x.settled = cents /\ cents \in Nat /\ x.usage = usage /\ x.key = key
               /\ x.who.session = s /\ x.lane = "main"
  BY <1>4
<1>6. IsTurnCharge(x) \/ IsTrueUp(x)
  BY <1>5 DEF IsTurnCharge, IsTrueUp
<1>7. IsCharge(x)
  BY <1>5, <1>6 DEF IsCharge, RowOK
<1>8. db.rows[db.issued + 1] = None
  BY <1>3 DEF DbTyped, TableInv
<1>9. Follows(db, new, 1)
  <2>1. new.issued = db.issued + 1 /\ db.issued \in Nat
    BY <1>3, <1>5 DEF Inserts, DbTyped
  <2>2. \A f \in Families : f # FamilyOf(x.key) => new.billed[f] = db.billed[f]
    BY <1>5 DEF Inserts
  <2>3. \A y \in Subagents : TranscriptFamily(y[1], y[2]) # FamilyOf(x.key)
    BY <1>5, KeyFacts
  <2>4. \A y \in Subagents : TranscriptFamily(y[1], y[2]) \in Families
    BY KeyFacts
  <2>5. \A y \in Subagents : new.billed[TranscriptFamily(y[1], y[2])]
                             = db.billed[TranscriptFamily(y[1], y[2])]
    BY <2>2, <2>3, <2>4
  <2> QED
    BY <1>4, <1>5, <1>8, <2>1, <2>5 DEF Follows, Inserts
<1> QED
  BY <1>2, <1>4, <1>5, <1>7, <1>9

LEMMA UnadmittedOK ==
  ASSUME SbIInv, TurnTyped, NEW db, NEW stopped, NEW T, DbInv(db, stopped, T),
         db.issued + 1 \in Ids, NEW readable, NEW s \in Sessions, NEW t \in Prompts,
         prompts[<<s, t>>] = None, <<s, t>> \in stopped
  PROVE  LET new == charge_unadmitted_codex_turn(db, s, t, readable) IN
         DbInv(new, stopped, T) /\ Follows(db, new, 1)
<1> DEFINE known == {u \in {t} : readable /\ turn[<<s, u>>].written > 0}
           cost == Cost(s, known)
           cents == IF known = {t} \/ cost > cfg.hold THEN cost ELSE None
           v == IF cents = None THEN cfg.hold ELSE cents
           use == IF cents = None THEN "unknown" ELSE "known"
           new == charge_unadmitted_codex_turn(db, s, t, readable)
<1>1. new = Charged(db, s, None, TurnKey(s, t), v, now, use, "turn_hold")
  BY DEF charge_unadmitted_codex_turn, measure_codex_turns, TurnKey
<1>2. cost <= turn[<<s, t>>].used
  <2>1. known \in SUBSET {t} /\ {t} \in SUBSET Prompts
    OBVIOUS
  <2>2. cost <= UsedBy(s, {t})
    <3> HIDE DEF known
    <3> QED
      BY <2>1, CostBelow
  <2>3. UsedBy(s, {t}) = SumOver(UsedIn(s), {t})
    BY <2>1, UsedIs
  <2>4. UsedIn(s)[t] = turn[<<s, t>>].used /\ turn[<<s, t>>].used \in Int
    BY DEF UsedIn, TurnTyped, Turns
  <2> HIDE DEF cost
  <2> QED
    BY <2>2, <2>3, <2>4, SumOne
<1>3. use = "known" => v = cost
  OBVIOUS
<1>4. use \in {"known", "unknown"} /\ now \in Nat \cup {None}
  BY ConstantFacts DEF SbIInv, SbTyped
<1>5. db.issued \in Nat
  BY DEF DbInv, DbTyped
<1> HIDE DEF cost, v, use, new
<1>6. CASE ~Bookable(db, s, TurnKey(s, t), v, now)
  <2>1. new = db
    BY <1>1, <1>6 DEF Charged
  <2> QED
    BY <1>5, <2>1 DEF Follows, new
<1>7. CASE Bookable(db, s, TurnKey(s, t), v, now)
  <2>1. TurnKey(s, t) \in Key
    BY KeysTyped
  <2>2. /\ DbTyped(new) /\ Follows(db, new, 1)
        /\ \E x : /\ Inserts(db, new, x) /\ IsCharge(x)
                  /\ x.settled = v /\ x.usage = use /\ x.key = TurnKey(s, t)
    BY <1>1, <1>4, <1>7, <2>1, MainCharge
  <2>3. PICK x : /\ Inserts(db, new, x) /\ IsCharge(x)
                 /\ x.settled = v /\ x.usage = use /\ x.key = TurnKey(s, t)
    BY <2>2
  <2>4. \A i \in Ids : db.rows[i] # None => db.rows[i].key # x.key
    BY <1>7, <2>3 DEF Bookable, KnownCharge
  <2>5. x.usage = "known" => x.settled <= turn[<<s, t>>].used
    BY <1>2, <1>3, <2>3
  <2>6. DbInv(new, stopped, T)
    BY <2>2, <2>3, <2>4, <2>5, TurnCharge
  <2> QED
    BY <2>2, <2>6 DEF new
<1> QED
  BY <1>6, <1>7

\* The hold a Stop may true up was measured before.
LEMMA CandidateIs ==
  ASSUME NEW stopped, NEW T, DbInv(LateTables, stopped, T), NEW s \in Sessions,
         trueup_candidate(s) # None
  PROVE  LET i == trueup_candidate(s) IN
         /\ i \in Ids /\ MeasuredHold(rows[i], s) /\ rows[i].state = "settled" /\ rows[i] # None
<1>1. PICK S : S = {i \in Ids : /\ settling[i] > 0
                                /\ IsLaneRow(rows[i], s, None) /\ rows[i].usage = "known"}
  OBVIOUS
<1>2. S # {} /\ trueup_candidate(s) = CHOOSE i \in S : settling[i] = MaxOf({settling[j] : j \in S})
  BY <1>1 DEF trueup_candidate
<1>3. settling \in [Ids -> Nat] /\ SettlingOK(LateTables) /\ RowsOK(LateTables)
  BY DEF DbInv, DbTyped, LateTables
<1>4. IsFiniteSet(S)
  <2>1. IsFiniteSet(Ids)
    BY ConstantFacts, FS_Interval
  <2>2. S \subseteq Ids
    BY <1>1
  <2> QED
    BY <2>1, <2>2, FS_Subset
<1>5. \A j \in S : j \in Ids /\ settling[j] \in Nat
  BY <1>1, <1>3
<1>6. \E i \in S : \A j \in S : settling[j] <= settling[i]
  <2> DEFINE R == {x \in S \X S : settling[x[1]] <= settling[x[2]]}
  <2>0. \A x, y \in S : <<x, y>> \in R <=> settling[x] <= settling[y]
    OBVIOUS
  <2> HIDE DEF R
  <2>1. \A x, y \in S : x # y => <<x, y>> \in R \/ <<y, x>> \in R
    BY <1>5, <2>0
  <2>2. \A x, y, z \in S : <<x, y>> \in R /\ <<y, z>> \in R => <<x, z>> \in R
    BY <1>5, <2>0
  <2>3. PICK x \in S : \A y \in S \ {x} : <<y, x>> \in R
    BY <1>2, <1>4, <2>1, <2>2, FiniteLast
  <2>4. \A y \in S : settling[y] <= settling[x]
    <3> SUFFICES ASSUME NEW y \in S PROVE settling[y] <= settling[x]
      OBVIOUS
    <3>1. CASE y = x
      BY <1>5, <3>1
    <3>2. CASE y # x
      BY <2>0, <2>3, <3>2
    <3> QED
      BY <3>1, <3>2
  <2> QED
    BY <2>4
<1>7. PICK m \in S : \A j \in S : settling[j] <= settling[m]
  BY <1>6
<1>8. PICK V : V = {settling[j] : j \in S}
  OBVIOUS
<1>9. settling[m] \in V /\ \A y \in V : y <= settling[m]
  BY <1>7, <1>8
<1>10. MaxOf(V) \in V
  BY <1>9, Zenon DEF MaxOf
<1>11. \E i \in S : settling[i] = MaxOf(V)
  BY <1>8, <1>10
<1>12. PICK i : i = trueup_candidate(s)
  OBVIOUS
<1>13. i \in S
  BY <1>2, <1>8, <1>11, <1>12, Zenon
<1>14. i \in Ids /\ settling[i] > 0 /\ IsLaneRow(rows[i], s, None) /\ rows[i].usage = "known"
  BY <1>1, <1>13
<1>15. rows[i] # None
  BY <1>14 DEF IsLaneRow
<1>16. rows[i].kind = "hold" /\ RowOK(rows[i])
  BY <1>3, <1>14, <1>15 DEF SettlingOK, RowsOK, LateTables
<1> QED
  BY <1>12, <1>14, <1>15, <1>16 DEF MeasuredHold, RowOK

LEMMA TrueUpOK ==
  ASSUME SbIInv, TurnTyped, NEW db, NEW stopped, NEW T, DbInv(db, stopped, T),
         db.issued + 1 \in Ids, NEW readable, NEW s \in Sessions, NEW i \in Ids,
         MeasuredHold(db.rows[i], s)
  PROVE  LET new == trueup_codex_hold(db, s, i, readable) IN
         /\ DbInv(new, stopped, T) /\ Follows(db, new, 1)
         /\ (/\ Remeasured(db, s, i, readable)
             /\ Missed(db, s, i) <= CeilingFactor * cfg.cap
             /\ ChargePool(s, db.created[i]) # None) => DbInv(new, stopped, T \cup {i})
<1> DEFINE new == trueup_codex_hold(db, s, i, readable)
           U == TurnsOf(s, i)
           c == Cost(s, U)
           e == db.created[i]
           v == Missed(db, s, i)
           base == db.rows[i].settled + Added(db, s, i)
<1>0. db.issued \in Nat /\ U \in SUBSET Prompts /\ e \in Nat \cup {None}
  BY TurnsOfIn, ConstantFacts DEF DbInv, DbTyped
<1>1. db.rows[i] # None /\ i <= db.issued
  <2>1. db.rows[i] # None
    BY DEF MeasuredHold, IsLaneRow
  <2>2. Ids \subseteq Nat
    BY ConstantFacts
  <2> QED
    BY <1>0, <2>1, <2>2 DEF DbInv, DbTyped, TableInv
<1>2. db.rows[i].settled \in Nat /\ Added(db, s, i) \in Nat /\ db.rows[i].state = "settled"
  <2>1. db.rows[i].settled \in Nat /\ db.rows[i].state = "settled"
    BY <1>1 DEF DbInv, DbTyped, TableInv, IsRow, RowsOK, RowOK, MeasuredHold
  <2>2. Added(db, s, i) \in Nat
    BY KeyFacts DEF DbInv, DbTyped, Added
  <2> QED
    BY <2>1, <2>2
<1>3. Baseline(db, s, i) = base
  <2>1. FamilyTotal(db.rows, TrueUpFamily(s, i)) = Added(db, s, i)
    BY KeyFacts DEF DbInv, Conserved, Added
  <2> QED
    BY <2>1 DEF Baseline
<1>4. base <= UsedBy(s, U) /\ c \in Nat /\ c <= UsedBy(s, U) /\ UsedBy(s, U) \in Nat
  <2>1. Own(db.rows[i], s) + Added(db, s, i) <= UsedBy(s, U)
    BY DEF DbInv, HoldsOK
  <2>2. Own(db.rows[i], s) = db.rows[i].settled
    BY DEF Own
  <2>3. U \in SUBSET U
    OBVIOUS
  <2>4. c \in Nat /\ c <= UsedBy(s, U) /\ UsedBy(s, U) \in Nat
    <3> HIDE DEF U
    <3> QED
      BY <1>0, <2>3, CostBelow
  <2> QED
    BY <2>1, <2>2, <2>4
<1>5. v = Monus(c, base)
  BY <1>3 DEF Missed
<1>6. new = IF ~Remeasured(db, s, i, readable) THEN db
            ELSE Charged(db, s, None, TrueUpKey(s, i, c), v, e, "known", "turn_hold")
  BY KeyFacts DEF trueup_codex_hold
<1>7. CASE ~Remeasured(db, s, i, readable)
  BY <1>0, <1>6, <1>7 DEF Follows
<1>8. CASE Remeasured(db, s, i, readable)
  <2>1. AllComplete(s, i)
    BY <1>8 DEF Remeasured
  <2>2. c = UsedBy(s, U)
    <3>1. \A t \in U : turn[<<s, t>>].complete
      BY <2>1 DEF AllComplete
    <3> HIDE DEF U
    <3> QED
      BY <1>0, <3>1, CostComplete
  <2>3. v = c - base /\ base \in Nat /\ v \in Nat
    BY <1>2, <1>4, <1>5, <2>2 DEF Monus
  <2>4. TrueUpKey(s, i, c) \in Key
    BY <1>4, KeysTyped
  <2> HIDE DEF new, c, e, v
  <2>5. CASE Bookable(db, s, TrueUpKey(s, i, c), v, e)
    <3>1. /\ DbTyped(new) /\ Follows(db, new, 1)
          /\ \E x : /\ Inserts(db, new, x) /\ IsCharge(x)
                    /\ x.settled = v /\ x.usage = "known" /\ x.key = TrueUpKey(s, i, c)
      BY <1>0, <1>4, <1>6, <1>8, <2>4, <2>5, MainCharge
    <3>2. PICK x : /\ Inserts(db, new, x) /\ IsCharge(x)
                   /\ x.settled = v /\ x.usage = "known" /\ x.key = TrueUpKey(s, i, c)
      BY <3>1
    <3>3. v > 0
      <4>1. v \in 1..(CeilingFactor * cfg.cap) /\ CeilingFactor * cfg.cap \in Int
        BY <2>5, ConstantFacts DEF Bookable, SbIInv, SbTyped
      <4> QED
        BY <4>1
    <3>4. DbInv(new, stopped, T)
      <4>1. /\ x.settled = c - (db.rows[i].settled + Added(db, s, i)) /\ x.settled > 0
            /\ c <= UsedBy(s, TurnsOf(s, i))
        BY <1>4, <2>3, <3>2, <3>3
      <4> QED
        BY <1>4, <3>1, <3>2, <4>1, TrueUpCharge
    <3>5. /\ MeasuredHold(new.rows[i], s) /\ i <= new.issued
          /\ new.rows[i].settled + Added(new, s, i) = UsedBy(s, U)
      <4>1. new.rows[i] = db.rows[i] /\ new.issued = db.issued + 1
        BY <1>1, <1>2, <3>1, <3>2 DEF Follows, Inserts
      <4>2. Added(new, s, i) = Added(db, s, i) + v
        BY <3>2, KeyFacts DEF Added, Inserts
      <4>3. i \in Nat
        BY ConstantFacts
      <4>4. i <= new.issued
        BY <1>0, <1>1, <4>1, <4>3
      <4>5. PICK a, b, d, w : a = db.rows[i].settled /\ b = Added(db, s, i) /\ d = c /\ w = v
        OBVIOUS
      <4>6. w = d - (a + b) /\ a \in Nat /\ b \in Nat /\ d \in Nat
        BY <1>2, <1>4, <2>3, <4>5
      <4>7. a + (b + w) = d
        BY <4>6
      <4> QED
        BY <2>2, <4>1, <4>2, <4>4, <4>5, <4>7
    <3>6. DbInv(new, stopped, T \cup {i})
      BY <2>1, <3>4, <3>5, TriedAdd
    <3> QED
      BY <3>1, <3>4, <3>6 DEF new
  <2>6. CASE ~Bookable(db, s, TrueUpKey(s, i, c), v, e)
    <3>1. new = db
      BY <1>6, <1>8, <2>6 DEF Charged
    <3>2. ASSUME v <= CeilingFactor * cfg.cap, ChargePool(s, e) # None
          PROVE  DbInv(new, stopped, T \cup {i})
      <4>1. KnownCharge(db, TrueUpKey(s, i, c)) => base >= c
        BY <1>1, <1>4 DEF KnownCharge, DbInv, TrueUpsOK
      <4>2. v > 0 => v \in 1..(CeilingFactor * cfg.cap)
        <5>1. CeilingFactor * cfg.cap \in Int
          BY ConstantFacts DEF SbIInv, SbTyped
        <5> QED
          BY <2>3, <3>2, <5>1
      <4>3. v = 0
        BY <1>4, <2>3, <2>6, <3>2, <4>1, <4>2 DEF Bookable
      <4>4. base = UsedBy(s, U)
        BY <1>4, <2>2, <2>3, <4>3
      <4> QED
        BY <1>1, <2>1, <3>1, <4>4, TriedAdd
    <3>3. Follows(db, new, 1)
      BY <1>0, <3>1 DEF Follows
    <3> QED
      BY <3>1, <3>2, <3>3 DEF new, v, e
  <2> QED
    BY <2>5, <2>6
<1> QED
  BY <1>7, <1>8

-----------------------------------------------------------------------------
(* The same tables, after the host or a prompt moved on *)

LEMMA UsedSameTurns ==
  ASSUME NEW s \in Sessions, NEW i, TurnsOf(s, i)' = TurnsOf(s, i),
         \A t \in TurnsOf(s, i) : turn'[<<s, t>>].used = turn[<<s, t>>].used
  PROVE  UsedBy(s, TurnsOf(s, i))' = UsedBy(s, TurnsOf(s, i))
<1>1. PICK S : S = TurnsOf(s, i) /\ S \in SUBSET Prompts
  BY TurnsOfIn
<1>2. UsedBy(s, S)' = UsedBy(s, S)
  BY <1>1, UsedSame
<1>3. TurnsOf(s, i)' = S
  BY <1>1
<1> QED
  BY <1>1, <1>2, <1>3

LEMMA UsedMoreTurns ==
  ASSUME TurnTyped, TurnTyped', NEW s \in Sessions, NEW i, TurnsOf(s, i) \subseteq TurnsOf(s, i)',
         \A t \in TurnsOf(s, i) : turn[<<s, t>>].used <= turn'[<<s, t>>].used
  PROVE  /\ UsedBy(s, TurnsOf(s, i)) <= UsedBy(s, TurnsOf(s, i))'
         /\ UsedBy(s, TurnsOf(s, i)) \in Nat /\ UsedBy(s, TurnsOf(s, i))' \in Nat
<1>1. PICK S : S = TurnsOf(s, i) /\ S \in SUBSET Prompts
  BY TurnsOfIn
<1>2. PICK R : R = TurnsOf(s, i)' /\ R \in SUBSET Prompts
  BY DEF TurnsOf
<1>3. UsedBy(s, S) <= UsedBy(s, R)'
  BY <1>1, <1>2, UsedGrows
<1>4. UsedBy(s, S) \in Nat
  BY <1>1, UsedIs
<1>5. UsedBy(s, R)' \in Nat
  <2>1. PICK h, g : h = [t \in R |-> turn'[<<s, t>>].used] /\ g = [t \in Prompts |-> turn'[<<s, t>>].used]
    OBVIOUS
  <2>2. \A t \in R : g[t] = turn'[<<s, t>>].used /\ g[t] \in Nat
    BY <1>2, <2>1 DEF TurnTyped, Turns
  <2>3. h = [t \in R |-> g[t]]
    BY <2>1, <2>2
  <2>4. SumFunction(h) = SumOver(g, R) /\ SumOver(g, R) \in Nat
    BY <1>2, <2>2, <2>3, TurnSum
  <2> QED
    BY <2>1, <2>4 DEF UsedBy
<1> QED
  BY <1>1, <1>2, <1>3, <1>4, <1>5

\* The host uses more, but not of a turn that is complete.
TurnsGrow ==
  \A x \in Turns : /\ turn[x].used <= turn'[x].used
                   /\ turn[x].complete => turn'[x].complete /\ turn'[x].used = turn[x].used

\* What the invariant says of the tables, the floor apart.
DbRest(db, stopped, T) ==
  /\ DbTyped(db) /\ RowsOK(db) /\ TurnsOK(db, stopped) /\ TrueUpsOK(db) /\ HoldsOK(db)
  /\ BoundOK(db) /\ SettlingOK(db) /\ ExactOK(db, T)

LEMMA RestMoves ==
  ASSUME TurnTyped, TurnTyped', NEW db, NEW stopped, NEW T, DbRest(db, stopped, T),
         prompts' = prompts, TurnsGrow
  PROVE  DbRest(db, stopped, T)'
<1>1. \A s, i : TurnsOf(s, i)' = TurnsOf(s, i)
  BY DEF TurnsOf
<1>2. \A s \in Sessions, t \in Prompts :
        /\ turn[<<s, t>>].used <= turn'[<<s, t>>].used
        /\ turn[<<s, t>>].complete => /\ turn'[<<s, t>>].complete
                                      /\ turn'[<<s, t>>].used = turn[<<s, t>>].used
  BY DEF TurnsGrow, Turns
<1>3. ASSUME NEW s \in Sessions, NEW i
      PROVE  /\ UsedBy(s, TurnsOf(s, i)) <= UsedBy(s, TurnsOf(s, i))'
             /\ UsedBy(s, TurnsOf(s, i)) \in Nat /\ UsedBy(s, TurnsOf(s, i))' \in Nat
  BY <1>1, <1>2, TurnsOfIn, UsedMoreTurns
<1>4. DbTyped(db)' /\ RowsOK(db)' /\ TrueUpsOK(db)' /\ BoundOK(db)' /\ SettlingOK(db)'
  <2>1. DbTyped(db)' /\ RowsOK(db)' /\ SettlingOK(db)' /\ TrueUpsOK(db)'
    BY DEF DbRest
  <2>2. BoundOK(db)'
    BY DEF DbRest, BoundOK
  <2> QED
    BY <2>1, <2>2
<1>5. TurnsOK(db, stopped)'
  <2> SUFFICES ASSUME NEW s \in Sessions, NEW t \in Prompts, NEW i \in Ids,
                      db.rows[i] # None, db.rows[i].key = TurnKey(s, t)
               PROVE  /\ <<s, t>> \in stopped
                      /\ prompts'[<<s, t>>] = None
                      /\ db.rows[i].usage = "known" => db.rows[i].settled <= turn'[<<s, t>>].used
                      /\ \A j \in Ids : db.rows[j] # None /\ db.rows[j].key = TurnKey(s, t) => j = i
    BY DEF TurnsOK
  <2>1. /\ <<s, t>> \in stopped
        /\ prompts[<<s, t>>] = None
        /\ db.rows[i].usage = "known" => db.rows[i].settled <= turn[<<s, t>>].used
        /\ \A j \in Ids : db.rows[j] # None /\ db.rows[j].key = TurnKey(s, t) => j = i
    BY DEF DbRest, TurnsOK
  <2>2. turn[<<s, t>>].used \in Nat /\ turn'[<<s, t>>].used \in Nat
    BY DEF TurnTyped, Turns
  <2>3. db.rows[i].usage = "known" => db.rows[i].settled \in Nat
    <3>1. IsRow(db.rows[i]) /\ RowOK(db.rows[i])
      BY DEF DbRest, DbTyped, TableInv, RowsOK
    <3>2. db.rows[i].kind \in {"hold", "charge"}
      BY <3>1 DEF RowOK, LateRow
    <3> QED
      BY <3>1, <3>2 DEF IsRow, RowOK
  <2> QED
    BY <1>2, <2>1, <2>2, <2>3
<1>6. HoldsOK(db)'
  <2> SUFFICES ASSUME NEW s \in Sessions, NEW i \in Ids
               PROVE  Own(db.rows[i], s) + Added(db, s, i) <= UsedBy(s, TurnsOf(s, i))'
    BY DEF DbRest, HoldsOK
  <2>1. Own(db.rows[i], s) + Added(db, s, i) <= UsedBy(s, TurnsOf(s, i))
    BY DEF DbRest, HoldsOK
  <2>2. Own(db.rows[i], s) \in Nat /\ Added(db, s, i) \in Nat
    <3>1. Added(db, s, i) \in Nat
      BY KeyFacts DEF DbRest, DbTyped, Added
    <3>2. Own(db.rows[i], s) \in Nat
      BY DEF DbRest, DbTyped, TableInv, IsRow, RowsOK, RowOK, Own, MeasuredHold, IsLaneRow
    <3> QED
      BY <3>1, <3>2
  <2> QED
    BY <1>3, <2>1, <2>2
<1>7. ExactOK(db, T)'
  <2> SUFFICES ASSUME NEW i \in T, NEW s \in Sessions, IsLaneRow(db.rows[i], s, None)
               PROVE  AllComplete(s, i)' /\ db.rows[i].settled + Added(db, s, i)
                                            = UsedBy(s, TurnsOf(s, i))'
    BY DEF DbRest, ExactOK
  <2>1. AllComplete(s, i) /\ db.rows[i].settled + Added(db, s, i) = UsedBy(s, TurnsOf(s, i))
    BY DEF DbRest, ExactOK
  <2>2. \A t \in TurnsOf(s, i) : turn'[<<s, t>>].complete /\ turn'[<<s, t>>].used = turn[<<s, t>>].used
    BY <1>2, <2>1, TurnsOfIn DEF AllComplete
  <2>3. AllComplete(s, i)'
    BY <1>1, <2>1, <2>2 DEF AllComplete
  <2>4. UsedBy(s, TurnsOf(s, i))' = UsedBy(s, TurnsOf(s, i))
    BY <1>1, <2>2, UsedSameTurns
  <2> QED
    BY <2>1, <2>3, <2>4
<1> QED
  BY <1>4, <1>5, <1>6, <1>7 DEF DbRest

\* What was pruned, while the hosts' turns go on and a prompt is bound to a row.
LEMMA GoneMoves ==
  ASSUME TurnTyped, TurnTyped', NEW db, NEW stopped, GoneOK(db, stopped), DbTyped(db),
         floor' = floor, gone' = gone,
         \A s \in Sessions, i \in Ids : TurnsOf(s, i) \subseteq TurnsOf(s, i)',
         \A s \in Sessions, t \in Prompts : turn[<<s, t>>].used <= turn'[<<s, t>>].used,
         \A s \in Sessions, t \in Prompts :
           <<s, t>> \in stopped /\ prompts[<<s, t>>] = None => prompts'[<<s, t>>] = None
  PROVE  GoneOK(db, stopped)'
<1> SUFFICES ASSUME NEW i \in Ids, gone[i] # None PROVE GoneRow(db, stopped, i)'
  BY DEF GoneOK
<1>1. GoneRow(db, stopped, i)
  BY DEF GoneOK
<1>2. RowOK(gone[i]) /\ IsRow(gone[i]) /\ i <= db.issued /\ db.rows[i] = None
  BY <1>1 DEF GoneRow
<1>k. gone[i].usage = "known" => gone[i].settled \in Nat
  <2>1. gone[i].kind \in {"hold", "charge"}
    BY <1>2 DEF RowOK, LateRow
  <2> QED
    BY <1>2, <2>1 DEF IsRow, RowOK
<1>3. ASSUME NEW s \in Sessions, MeasuredHold(gone[i], s)
      PROVE  gone[i].settled + Added(db, s, i) <= UsedBy(s, TurnsOf(s, i))'
  <2>1. gone[i].settled + Added(db, s, i) <= UsedBy(s, TurnsOf(s, i))
    BY <1>1, <1>3 DEF GoneRow
  <2>2. gone[i].settled \in Nat
    BY <1>k, <1>3 DEF MeasuredHold
  <2>3. Added(db, s, i) \in Nat
    BY KeyFacts DEF DbTyped, Added
  <2>4. \A u \in TurnsOf(s, i) : turn[<<s, u>>].used <= turn'[<<s, u>>].used
    BY TurnsOfIn
  <2>5. /\ UsedBy(s, TurnsOf(s, i)) <= UsedBy(s, TurnsOf(s, i))'
        /\ UsedBy(s, TurnsOf(s, i)) \in Nat /\ UsedBy(s, TurnsOf(s, i))' \in Nat
    BY <2>4, UsedMoreTurns
  <2> QED
    BY <2>1, <2>2, <2>3, <2>5
<1>4. ASSUME NEW s \in Sessions, NEW t \in Prompts, gone[i].key = TurnKey(s, t)
      PROVE  /\ <<s, t>> \in stopped
             /\ prompts'[<<s, t>>] = None
             /\ gone[i].usage = "known" => gone[i].settled <= turn'[<<s, t>>].used
             /\ \A j \in Ids : db.rows[j] # None /\ db.rows[j].key = TurnKey(s, t) => i < j
  <2>1. /\ <<s, t>> \in stopped
        /\ prompts[<<s, t>>] = None
        /\ gone[i].usage = "known" => gone[i].settled <= turn[<<s, t>>].used
        /\ \A j \in Ids : db.rows[j] # None /\ db.rows[j].key = TurnKey(s, t) => i < j
    BY <1>1, <1>4 DEF GoneRow
  <2>2. turn[<<s, t>>].used \in Nat /\ turn'[<<s, t>>].used \in Nat
    BY DEF TurnTyped, Turns
  <2>3. gone[i].usage = "known" => gone[i].settled <= turn'[<<s, t>>].used
    BY <1>k, <2>1, <2>2
  <2> QED
    BY <2>1, <2>3
<1> QED
  BY <1>2, <1>3, <1>4 DEF GoneRow

LEMMA HostMoves ==
  ASSUME TurnTyped, TurnTyped', NEW db, NEW stopped, NEW T, DbInv(db, stopped, T),
         prompts' = prompts, floor' = floor, gone' = gone, TurnsGrow
  PROVE  DbInv(db, stopped, T)'
<1>1. DbRest(db, stopped, T)
  BY DEF DbInv, DbRest
<1>2. DbRest(db, stopped, T)'
  BY <1>1, RestMoves
<1>3. Conserved(db)'
  BY DEF DbInv, Conserved, FamilyTotal
<1>4. GoneOK(db, stopped)'
  <2>1. \A s, i : TurnsOf(s, i)' = TurnsOf(s, i)
    BY DEF TurnsOf
  <2>2. \A s \in Sessions, t \in Prompts : turn[<<s, t>>].used <= turn'[<<s, t>>].used
    BY DEF TurnsGrow, Turns
  <2> QED
    BY <2>1, <2>2, GoneMoves DEF DbInv
<1> QED
  BY <1>2, <1>3, <1>4 DEF DbInv, DbRest

\* A turn that was not stopped is accepted by an active hold.
Accepts(s, t, i) ==
  \A b \in Sessions \X Prompts :
    \/ prompts'[b] = prompts[b]
    \/ b = <<s, t>> /\ prompts[b] = None /\ prompts'[b] = i

LEMMA PromptAccepted ==
  ASSUME TurnTyped, NEW db, NEW stopped, NEW T, DbInv(db, stopped, T),
         turn' = turn, floor' = floor, gone' = gone, NEW s \in Sessions, NEW t \in Prompts, NEW i \in Ids,
         Accepts(s, t, i), <<s, t>> \notin stopped, i <= db.issued,
         IsLaneRow(db.rows[i], s, None), db.rows[i].kind = "hold", db.rows[i].state = "active"
  PROVE  DbInv(db, stopped, T)'
<1>0. TurnTyped'
  BY DEF TurnTyped
<1>1. /\ \A r \in Sessions, k \in Ids : TurnsOf(r, k) \subseteq TurnsOf(r, k)'
      /\ \A r \in Sessions, k \in Ids : k # i => TurnsOf(r, k)' = TurnsOf(r, k)
  <2>1. \A r \in Sessions, u \in Prompts :
          \/ prompts'[<<r, u>>] = prompts[<<r, u>>]
          \/ <<r, u>> = <<s, t>> /\ prompts[<<r, u>>] = None /\ prompts'[<<r, u>>] = i
    BY DEF Accepts
  <2>2. None \notin Ids
    BY ConstantFacts
  <2> QED
    BY <2>1, <2>2 DEF TurnsOf
<1>2. DbTyped(db)' /\ RowsOK(db)' /\ TrueUpsOK(db)' /\ SettlingOK(db)' /\ Conserved(db)'
  <2>1. DbTyped(db)' /\ RowsOK(db)' /\ SettlingOK(db)' /\ TrueUpsOK(db)'
    BY DEF DbInv
  <2>2. Conserved(db)'
    BY DEF DbInv, Conserved, FamilyTotal
  <2> QED
    BY <2>1, <2>2
<1>3. \A r \in Sessions, u \in Prompts : <<r, u>> # <<s, t>> => prompts'[<<r, u>>] = prompts[<<r, u>>]
  BY DEF Accepts
<1>4. prompts'[<<s, t>>] = prompts[<<s, t>>] \/ prompts'[<<s, t>>] = i
  BY DEF Accepts
<1>5. BoundOK(db)'
  <2> SUFFICES ASSUME NEW r \in Sessions, NEW u \in Prompts, NEW k \in Ids, prompts'[<<r, u>>] = k
               PROVE  /\ k <= db.issued
                      /\ db.rows[k] # None => IsLaneRow(db.rows[k], r, None) /\ db.rows[k].kind = "hold"
    BY DEF BoundOK
  <2>1. CASE prompts[<<r, u>>] = k
    BY <2>1 DEF DbInv, BoundOK
  <2>2. CASE prompts[<<r, u>>] # k
    <3>1. r = s /\ u = t /\ k = i
      BY <1>3, <1>4, <2>2
    <3> QED
      BY <3>1
  <2> QED
    BY <2>1, <2>2
<1>6. TurnsOK(db, stopped)'
  <2> SUFFICES ASSUME NEW r \in Sessions, NEW u \in Prompts, NEW k \in Ids,
                      db.rows[k] # None, db.rows[k].key = TurnKey(r, u)
               PROVE  /\ <<r, u>> \in stopped
                      /\ prompts'[<<r, u>>] = None
                      /\ db.rows[k].usage = "known" => db.rows[k].settled <= turn'[<<r, u>>].used
                      /\ \A j \in Ids : db.rows[j] # None /\ db.rows[j].key = TurnKey(r, u) => j = k
    BY DEF TurnsOK
  <2>1. /\ <<r, u>> \in stopped
        /\ prompts[<<r, u>>] = None
        /\ db.rows[k].usage = "known" => db.rows[k].settled <= turn[<<r, u>>].used
        /\ \A j \in Ids : db.rows[j] # None /\ db.rows[j].key = TurnKey(r, u) => j = k
    BY DEF DbInv, TurnsOK
  <2> QED
    BY <1>3, <2>1
<1>7. HoldsOK(db)'
  <2> SUFFICES ASSUME NEW r \in Sessions, NEW k \in Ids
               PROVE  Own(db.rows[k], r) + Added(db, r, k) <= UsedBy(r, TurnsOf(r, k))'
    BY DEF DbInv, HoldsOK
  <2>1. Own(db.rows[k], r) + Added(db, r, k) <= UsedBy(r, TurnsOf(r, k))
    BY DEF DbInv, HoldsOK
  <2>2. Own(db.rows[k], r) \in Nat /\ Added(db, r, k) \in Nat
    <3>1. Added(db, r, k) \in Nat
      BY KeyFacts DEF DbInv, DbTyped, Added
    <3>2. Own(db.rows[k], r) \in Nat
      BY DEF DbInv, DbTyped, TableInv, IsRow, RowsOK, RowOK, Own, MeasuredHold, IsLaneRow
    <3> QED
      BY <3>1, <3>2
  <2>3. \A u \in TurnsOf(r, k) : turn[<<r, u>>].used <= turn'[<<r, u>>].used
    BY TurnsOfIn DEF TurnTyped, Turns
  <2>4. /\ UsedBy(r, TurnsOf(r, k)) <= UsedBy(r, TurnsOf(r, k))'
        /\ UsedBy(r, TurnsOf(r, k)) \in Nat /\ UsedBy(r, TurnsOf(r, k))' \in Nat
    BY <1>0, <1>1, <2>3, UsedMoreTurns
  <2> QED
    BY <2>1, <2>2, <2>4
<1>8. ExactOK(db, T)'
  <2> SUFFICES ASSUME NEW k \in T, NEW r \in Sessions, IsLaneRow(db.rows[k], r, None)
               PROVE  AllComplete(r, k)' /\ db.rows[k].settled + Added(db, r, k)
                                            = UsedBy(r, TurnsOf(r, k))'
    BY DEF DbInv, ExactOK
  <2>1. /\ k \in Ids /\ MeasuredHold(db.rows[k], r)
        /\ AllComplete(r, k) /\ db.rows[k].settled + Added(db, r, k) = UsedBy(r, TurnsOf(r, k))
    BY DEF DbInv, ExactOK
  <2>2. k # i
    BY <2>1 DEF DbInv, RowsOK, RowOK, MeasuredHold, IsLaneRow
  <2>3. TurnsOf(r, k)' = TurnsOf(r, k)
    BY <1>1, <2>1, <2>2
  <2>4. AllComplete(r, k)'
    BY <2>1, <2>3 DEF AllComplete
  <2>5. UsedBy(r, TurnsOf(r, k))' = UsedBy(r, TurnsOf(r, k))
    BY <2>3, UsedSameTurns
  <2> QED
    BY <2>1, <2>4, <2>5
<1>9. GoneOK(db, stopped)'
  <2>1. \A r \in Sessions, u \in Prompts : turn[<<r, u>>].used <= turn'[<<r, u>>].used
    BY DEF TurnTyped, Turns
  <2>2. \A r \in Sessions, u \in Prompts :
          <<r, u>> \in stopped /\ prompts[<<r, u>>] = None => prompts'[<<r, u>>] = None
    BY <1>3
  <2> QED
    BY <1>0, <1>1, <2>1, <2>2, GoneMoves DEF DbInv
<1> QED
  BY <1>2, <1>5, <1>6, <1>7, <1>8, <1>9 DEF DbInv

-----------------------------------------------------------------------------
(* Admissions *)

\* A new hold behind the other rows.
LEMMA HoldInserted ==
  ASSUME NEW db, NEW stopped, NEW T, DbInv(db, stopped, T), TurnTyped, NEW new, DbTyped(new),
         NEW x, x # None, x.kind = "hold", RowOK(x), x.usage = None, db.issued + 1 \in Ids,
         new.issued = db.issued + 1, new.rows[db.issued + 1] = x,
         \A i \in Ids : i # db.issued + 1 => new.rows[i] = db.rows[i],
         new.settling = db.settling, new.billed = db.billed
  PROVE  DbInv(new, stopped, T)
<1> DEFINE n == db.issued + 1
<1>0. db.issued \in Nat /\ Ids \subseteq Nat /\ n \in Nat
  BY ConstantFacts DEF DbInv, DbTyped
<1>1. db.rows[n] = None
  BY <1>0 DEF DbInv, DbTyped, TableInv
<1>2. new.rows[n] = x /\ (\A i \in Ids : i # n => new.rows[i] = db.rows[i]) /\ new.issued = n
  OBVIOUS
<1> HIDE DEF n
<1>n. n = db.issued + 1 /\ n \in Ids /\ \A i \in Ids : i <= db.issued => i # n /\ i <= n
  BY <1>0 DEF n
<1>3. \A s, i : Added(new, s, i) = Added(db, s, i)
  BY DEF Added
<1>4. \A s : ~MeasuredHold(x, s) /\ Own(x, s) = 0
  BY LateSpendAssumption DEF MeasuredHold, Own
<1>5. /\ \A s, i, c : x.key # TrueUpKey(s, i, c)
      /\ \A s, t : x.key # TurnKey(s, t)
  <2>1. x.key.tag \in {"p", "n"}
    BY DEF RowOK
  <2>2. \A s, i, c : TrueUpKey(s, i, c).tag = "trueup"
    BY DEF TrueUpKey
  <2>3. \A s, t : TurnKey(s, t).tag = "turn"
    BY DEF TurnKey
  <2> QED
    BY <2>1, <2>2, <2>3
<1>6. RowsOK(new)
  BY <1>1, <1>2 DEF DbInv, RowsOK
<1>7. TurnsOK(new, stopped)
  BY <1>2, <1>5 DEF DbInv, TurnsOK
<1>8. TrueUpsOK(new)
  <2> SUFFICES ASSUME NEW s \in Sessions, NEW i \in Ids, NEW c \in Nat, NEW j \in Ids,
                      new.rows[j] # None, new.rows[j].key = TrueUpKey(s, i, c)
               PROVE  /\ i <= new.issued
                      /\ new.rows[i] # None => /\ MeasuredHold(new.rows[i], s)
                              /\ new.rows[i].settled + Added(new, s, i) >= c
    BY DEF TrueUpsOK
  <2>1. j # n
    BY <1>2, <1>5
  <2>2. /\ i <= db.issued
        /\ db.rows[i] # None => /\ MeasuredHold(db.rows[i], s)
                              /\ db.rows[i].settled + Added(db, s, i) >= c
    BY <1>2, <2>1 DEF DbInv, TrueUpsOK
  <2> QED
    BY <1>2, <1>3, <1>n, <2>2
<1>9. HoldsOK(new)
  <2> SUFFICES ASSUME NEW s \in Sessions, NEW i \in Ids
               PROVE  /\ Own(new.rows[i], s) + Added(new, s, i) <= UsedBy(s, TurnsOf(s, i))
                      /\ Added(new, s, i) # 0 => i <= new.issued
                              /\ (new.rows[i] # None => MeasuredHold(new.rows[i], s))
    BY DEF HoldsOK
  <2>1. /\ Own(db.rows[i], s) + Added(db, s, i) <= UsedBy(s, TurnsOf(s, i))
        /\ Added(db, s, i) # 0 => i <= db.issued
                              /\ (db.rows[i] # None => MeasuredHold(db.rows[i], s))
    BY DEF DbInv, HoldsOK
  <2>2. CASE i # n
    BY <1>2, <1>3, <1>n, <2>1, <2>2
  <2>3. CASE i = n
    <3>1. Own(db.rows[i], s) = 0
      BY <1>1, <2>3 DEF Own, MeasuredHold, IsLaneRow
    <3> QED
      BY <1>2, <1>3, <1>4, <1>n, <2>1, <2>3, <3>1
  <2> QED
    BY <2>2, <2>3
<1>10. BoundOK(new)
  <2> SUFFICES ASSUME NEW s \in Sessions, NEW t \in Prompts, NEW i \in Ids, prompts[<<s, t>>] = i
               PROVE  /\ i <= new.issued
                      /\ new.rows[i] # None =>
                           IsLaneRow(new.rows[i], s, None) /\ new.rows[i].kind = "hold"
    BY DEF BoundOK
  <2>1. /\ i <= db.issued
        /\ db.rows[i] # None => IsLaneRow(db.rows[i], s, None) /\ db.rows[i].kind = "hold"
    BY DEF DbInv, BoundOK
  <2> QED
    BY <1>2, <1>n, <2>1
<1>11. SettlingOK(new)
  <2> SUFFICES ASSUME NEW i \in Ids, new.settling[i] > 0
               PROVE  i <= new.issued /\ (new.rows[i] # None => new.rows[i].kind = "hold")
    BY DEF SettlingOK
  <2>1. i <= db.issued /\ (db.rows[i] # None => db.rows[i].kind = "hold")
    BY DEF DbInv, SettlingOK
  <2> QED
    BY <1>2, <1>n, <2>1
<1>12. Conserved(new)
  <2>1. SameCharges(new.rows, db.rows)
    BY <1>1, <1>2 DEF SameCharges
  <2>2. \A f : FamilySum(new.rows, f) = FamilySum(db.rows, f)
    BY <2>1, FamilySumSame
  <2> QED
    BY <2>2 DEF DbInv, Conserved, FamilyTotal
<1>13. ExactOK(new, T)
  <2> SUFFICES ASSUME NEW i \in T
               PROVE  /\ i \in Ids /\ i <= new.issued
                      /\ \A s \in Sessions : IsLaneRow(new.rows[i], s, None) =>
                           /\ MeasuredHold(new.rows[i], s)
                           /\ AllComplete(s, i)
                           /\ new.rows[i].settled + Added(new, s, i) = UsedBy(s, TurnsOf(s, i))
    BY DEF ExactOK
  <2>1. i \in Ids /\ i <= db.issued
    BY DEF DbInv, ExactOK
  <2> QED
    BY <1>2, <1>3, <1>n, <2>1 DEF DbInv, ExactOK
<1>14. GoneOK(new, stopped)
  <2>1. \A i \in Ids : i <= db.issued => i # n
    BY <1>n
  <2>2. n > db.issued /\ db.issued <= new.issued /\ new.issued \in Nat
    BY <1>0, <1>2, <1>n
  <2>3. \A j \in Ids : \/ new.rows[j] = None \/ j > db.issued
                       \/ db.rows[j] # None /\ db.rows[j].key = new.rows[j].key
    BY <1>2, <2>2
  <2> QED
    BY <1>2, <1>3, <2>1, <2>2, <2>3, GoneStays
<1> QED
  BY <1>6, <1>7, <1>8, <1>9, <1>10, <1>11, <1>12, <1>13, <1>14 DEF DbInv

\* The tables as a record.
TablesOf(r, p, c, n, g, b) ==
  [rows |-> r, pools |-> p, created |-> c, issued |-> n, settling |-> g, billed |-> b]

LEMMA TablesAre ==
  /\ LateTables = TablesOf(rows, pools, created, issued, settling, billed)
  /\ \A r, p, c, n, g, b :
       LET d == TablesOf(r, p, c, n, g, b) IN
       /\ d.rows = r /\ d.pools = p /\ d.created = c /\ d.issued = n /\ d.settling = g
       /\ d.billed = b
       /\ d = [rows |-> d.rows, pools |-> d.pools, created |-> d.created, issued |-> d.issued,
               settling |-> d.settling, billed |-> d.billed]
  BY DEF LateTables, TablesOf

\* What the invariant says of the state.
LEMMA LateFacts ==
  ASSUME LateInv
  PROVE  /\ SbIInv /\ TurnTyped /\ settling \in [Ids -> Nat] /\ billed \in [Families -> Nat]
         /\ created \in [Ids -> 0..MaxTime] /\ issued \in Nat /\ TableInv(rows, issued)
         /\ \A i \in Ids : rows[i] # None => RowOK(rows[i]) /\ IsRow(rows[i]) /\ rows[i] \in LateRow
         /\ floor \in [Families -> Nat]
<1>1. PICK d : d = LateTables /\ DbInv(d, StoppedTurns, tried)
  BY DEF LateInv
<1>2. /\ d.settling = settling /\ d.billed = billed /\ d.created = created /\ d.issued = issued
      /\ d.rows = rows
  BY <1>1 DEF LateTables
<1>3. DbTyped(d) /\ RowsOK(d) /\ Conserved(d)
  BY <1>1 DEF DbInv
<1>4. /\ settling \in [Ids -> Nat] /\ billed \in [Families -> Nat]
      /\ created \in [Ids -> 0..MaxTime] /\ issued \in Nat /\ TableInv(rows, issued)
  BY <1>2, <1>3 DEF DbTyped
<1>5. \A i \in Ids : rows[i] # None => RowOK(rows[i])
  BY <1>2, <1>3 DEF RowsOK
<1>6. \A i \in Ids : rows[i] # None => IsRow(rows[i])
  BY <1>4 DEF TableInv
<1> QED
  BY <1>3, <1>4, <1>5, <1>6 DEF LateInv, Conserved, RowOK

\* What the sweep does to a row.
LEMMA SweptKeeps ==
  ASSUME LateInv
  PROVE  LET u == Swept(rows, now) IN
         /\ TableInv(u, issued)
         /\ \A i \in Ids : u[i] = rows[i] \/ (rows[i] # None /\ u[i] # None /\ Keeps(rows[i], u[i]))
         /\ \A i \in Ids : u[i] # None /\ u[i].state = "active" => u[i] = rows[i]
<1>0. SbIInv /\ now \in Nat
  BY ConstantFacts DEF LateInv, SbIInv, SbTyped
<1> DEFINE u == Swept(rows, now)
<1>1. /\ TableInv(u, issued)
      /\ \A i \in Ids : u[i] # None => rows[i] # None
      /\ \A i \in Ids : rows[i] # None => u[i] = rows[i] \/ u[i].state = "expired"
  BY <1>0, AdmitSweep
<1>2. \A i \in Ids : u[i] = SweptRow(rows[i], now)
  BY DEF Swept
<1> HIDE DEF u
<1>3. ASSUME NEW i \in Ids
      PROVE  u[i] = rows[i] \/ (rows[i] # None /\ u[i] # None /\ Keeps(rows[i], u[i]))
  <2>1. CASE rows[i] = None \/ rows[i].state # "active" \/ rows[i].expiresAt > now
    BY <1>2, <2>1 DEF SweptRow
  <2>2. CASE ~(rows[i] = None \/ rows[i].state # "active" \/ rows[i].expiresAt > now)
    <3>1. IsRow(rows[i]) /\ rows[i] \in LateRow
      BY <2>2, LateFacts
    <3>2. ~IsGatewayHold(rows[i])
      BY <3>1 DEF IsRow, RowsWith, IsGatewayHold
    <3>3. u[i] = Lapsed(rows[i], now)
      BY <1>2, <2>2, <3>2 DEF SweptRow, Lapsed
    <3>4. Keeps(rows[i], u[i])
      BY <1>0, <2>2, <3>1, <3>3, LapsedLate
    <3>5. u[i] # None
      BY <3>4, LateRowAssumption DEF Keeps
    <3> QED
      BY <2>2, <3>4, <3>5
  <2> QED
    BY <2>1, <2>2
<1> QED
  BY <1>1, <1>3 DEF u

\* A step whose tables satisfy the invariant and that bills no subagent.
LEMMA LateKept ==
  ASSUME LateInv, SbIInv', stoppedBy' = stoppedBy, booked' = booked, UNCHANGED lateHost,
         billed' = billed, tried' = tried, NEW d, d = LateTables', NEW st, st = StoppedTurns,
         NEW T, T = tried, DbInv(d, st, T)'
  PROVE  LateInv'
<1>1. turn' = turn /\ work' = work
  BY DEF lateHost
<1>2. StoppedTurns' = st
  BY <1>1 DEF StoppedTurns
<1>3. DbInv(LateTables, StoppedTurns, tried)'
  BY <1>2
<1>4. TurnTyped' /\ WorkTyped'
  BY <1>1 DEF LateInv, TurnTyped, WorkTyped
<1>5. TranscriptNotOverbooked'
  BY <1>1 DEF LateInv, TranscriptNotOverbooked
<1>6. NothingStopped'
  BY DEF LateInv, NothingStopped
<1> QED
  BY <1>3, <1>4, <1>5, <1>6 DEF LateInv

\* What all admissions leave alone.
AdmitFrame == UNCHANGED <<lateHost, floor, settling, seen, lateHistory>>

LEMMA LateRefused ==
  ASSUME LateInv, NEW s \in Sessions, NEW t \in Prompts, AdmitRefused(s, None, t), AdmitFrame
  PROVE  LateInv'
<1>1. /\ rows' = Swept(rows, now) /\ created' = created /\ issued' = issued
      /\ prompts' = prompts /\ stoppedBy' = stoppedBy /\ booked' = booked
  BY DEF AdmitRefused, history
<1>2. /\ UNCHANGED lateHost /\ turn' = turn /\ floor' = floor /\ gone' = gone /\ settling' = settling
      /\ billed' = billed /\ tried' = tried
  BY DEF AdmitFrame, lateHost, lateHistory
<1>3. SbIInv'
  BY RefusedOK DEF LateInv
<1>4. PICK db, st, T : db = LateTables /\ st = StoppedTurns /\ T = tried
  OBVIOUS
<1>5. PICK d : d = LateTables'
  OBVIOUS
<1>6. DbInv(db, st, T)
  BY <1>4 DEF LateInv
<1>7. /\ db.rows = rows /\ db.issued = issued /\ db.settling = settling /\ db.billed = billed
      /\ db.created = created
  BY <1>4 DEF LateTables
<1>8. /\ d = [rows |-> d.rows, pools |-> d.pools, created |-> d.created, issued |-> d.issued,
              settling |-> d.settling, billed |-> d.billed]
      /\ d.rows = rows' /\ d.issued = issued /\ d.settling = settling /\ d.billed = billed
      /\ d.created = created
  BY <1>1, <1>2, <1>5 DEF LateTables
<1>9. /\ TableInv(rows', issued)
      /\ \A i \in Ids : rows'[i] = rows[i]
                          \/ (rows[i] # None /\ rows'[i] # None /\ Keeps(rows[i], rows'[i]))
  BY <1>1, SweptKeeps
<1>10. DbTyped(d)
  BY <1>6, <1>7, <1>8, <1>9 DEF DbInv, DbTyped
<1>11. DbInv(d, st, T)
  BY <1>6, <1>7, <1>8, <1>9, <1>10, RowsKept
<1>12. TurnTyped /\ TurnTyped' /\ TurnsGrow
  BY <1>2 DEF LateInv, TurnTyped, TurnsGrow
<1>13. DbInv(d, st, T)'
  BY <1>1, <1>2, <1>11, <1>12, HostMoves
<1> QED
  BY <1>1, <1>2, <1>3, <1>4, <1>5, <1>13, LateKept

LEMMA LateRenewed ==
  ASSUME LateInv, NEW s \in Sessions, NEW t \in Prompts, AdmitRenewed(s, None, t), AdmitFrame,
         ~turn[<<s, t>>].stopped
  PROVE  LateInv'
<1> DEFINE table == Swept(rows, now)
           live == LiveHold(table, Period(now), s, None)
           e == now + HoldTTL
<1>0. SbIInv /\ created \in [Ids -> 0..MaxTime] /\ e \in Nat /\ t # None /\ t \in Opts(Prompts)
      /\ None \in Opts(Agents)
  BY ConstantFacts DEF LateInv, SbIInv, SbTyped, Opts
<1>1. /\ live # None /\ ~IsReplay(s, None, t, live)
      /\ rows' = [table EXCEPT ![live] = Renewed(table[live], e)] /\ created' = created
      /\ issued' = issued /\ prompts' = Bound(s, None, t, live)
      /\ stoppedBy' = stoppedBy /\ booked' = booked
  BY DEF AdmitRenewed, Renewed, history
<1>2. /\ UNCHANGED lateHost /\ turn' = turn /\ floor' = floor /\ gone' = gone /\ settling' = settling
      /\ billed' = billed /\ tried' = tried
  BY DEF AdmitFrame, lateHost, lateHistory
<1>3. SbIInv'
  BY <1>0, RenewedOK
<1>4. /\ live \in Ids /\ table[live] # None /\ table[live].who.session = s
      /\ table[live].lane = "main" /\ table[live].kind = "hold" /\ table[live].state = "active"
  BY <1>0, <1>1, LiveHoldIs DEF LaneOf
<1>5. /\ TableInv(table, issued)
      /\ \A i \in Ids : table[i] = rows[i]
                          \/ (rows[i] # None /\ table[i] # None /\ Keeps(rows[i], table[i]))
      /\ table[live] = rows[live]
  BY <1>4, SweptKeeps
<1> HIDE DEF table, live, e
<1>6. PICK y : y = Renewed(table[live], e)
  OBVIOUS
<1>7. /\ Keeps(rows[live], y) /\ y # None /\ y.state = "active"
  <2>1. rows[live] \in LateRow /\ IsRow(table[live])
    BY <1>4, <1>5, LateFacts
  <2>2. Keeps(rows[live], y)
    BY <1>0, <1>5, <1>6, <2>1, RenewedLate
  <2>3. y.state = "active"
    BY <1>0, <1>4, <1>6, <2>1, RenewedRow
  <2> QED
    BY <2>2, <2>3, LateRowAssumption DEF Keeps
<1>8. rows'[live] = y /\ \A i \in Ids : i # live => rows'[i] = table[i]
  BY <1>1, <1>4, <1>5, <1>6 DEF TableInv, IsTable
<1>9. \A i \in Ids : rows'[i] = rows[i]
                       \/ (rows[i] # None /\ rows'[i] # None /\ Keeps(rows[i], rows'[i]))
  BY <1>4, <1>5, <1>7, <1>8
<1>10. PICK db, st, T : db = LateTables /\ st = StoppedTurns /\ T = tried
  OBVIOUS
<1>11. PICK d : d = LateTables'
  OBVIOUS
<1>12. DbInv(db, st, T)
  BY <1>10 DEF LateInv
<1>13. /\ db.rows = rows /\ db.issued = issued /\ db.settling = settling /\ db.billed = billed
      /\ db.created = created
  BY <1>10 DEF LateTables
<1>14. /\ d = [rows |-> d.rows, pools |-> d.pools, created |-> d.created, issued |-> d.issued,
              settling |-> d.settling, billed |-> d.billed]
      /\ d.rows = rows' /\ d.issued = issued /\ d.settling = settling /\ d.billed = billed
      /\ d.created = created
  BY <1>1, <1>2, <1>11 DEF LateTables
<1>15. TableInv(rows', issued)
  BY <1>1, <1>3 DEF SbIInv
<1>16. DbTyped(d)
  BY <1>12, <1>13, <1>14, <1>15 DEF DbInv, DbTyped
<1>17. DbInv(d, st, T)
  BY <1>9, <1>12, <1>13, <1>14, <1>16, RowsKept
<1>18. Accepts(s, t, live)
  <2>1. prompts' = [prompts EXCEPT ![<<s, t>>] = live] /\ prompts[<<s, t>>] \in {None, live}
    BY <1>0, <1>1 DEF Bound, IsReplay, AcceptedBy
  <2>2. prompts \in [Sessions \X Prompts -> Opts(Ids)]
    BY <1>0 DEF SbIInv, SbTyped
  <2> QED
    BY <2>1, <2>2 DEF Accepts
<1>19. <<s, t>> \notin st
  BY <1>10 DEF StoppedTurns
<1>20. /\ IsLaneRow(d.rows[live], s, None) /\ d.rows[live].kind = "hold"
       /\ d.rows[live].state = "active" /\ live <= d.issued
  <2>1. y.who = rows[live].who /\ y.lane = rows[live].lane /\ y.kind = rows[live].kind
    BY <1>7 DEF Keeps
  <2>2. IsLaneRow(y, s, None) /\ y.kind = "hold"
    BY <1>4, <1>5, <1>7, <2>1 DEF IsLaneRow
  <2>3. live <= issued
    <3>1. Ids \subseteq Nat /\ issued \in Nat /\ TableInv(rows, issued) /\ rows[live] # None
      BY <1>4, <1>5, ConstantFacts, LateFacts
    <3> QED
      BY <1>4, <3>1 DEF TableInv
  <2> QED
    BY <1>7, <1>8, <1>14, <2>2, <2>3
<1>21. TurnTyped
  BY DEF LateInv
<1>22. DbInv(d, st, T)'
  BY <1>2, <1>4, <1>17, <1>18, <1>19, <1>20, <1>21, PromptAccepted
<1> QED
  BY <1>1, <1>2, <1>3, <1>10, <1>11, <1>22, LateKept

LEMMA LateGranted ==
  ASSUME LateInv, NEW s \in Sessions, NEW t \in Prompts, AdmitGranted(s, None, t, FALSE), AdmitFrame,
         ~turn[<<s, t>>].stopped
  PROVE  LateInv'
<1> DEFINE p == Period(now)
           table == Swept(rows, now)
           live == LiveHold(table, p, s, None)
           pkey == PromptKey(s, None, t)
           key == IF t # None /\ KeyRows(table, p, "local-budget", pkey) = {}
                  THEN pkey ELSE NonceKey(s, None)
           x == HoldRow(p, Who(s), key, cfg.hold, now + HoldTTL, "main", "turn_hold")
           n == issued + 1
<1>0. /\ SbIInv /\ created \in [Ids -> 0..MaxTime] /\ now + HoldTTL \in Nat /\ t # None
      /\ t \in Opts(Prompts) /\ None \in Opts(Agents) /\ issued \in Nat /\ p \in Periods
      /\ now \in 0..MaxTime /\ cfg.hold \in 0..I64Max
  <2>1. SbIInv
    BY DEF LateInv
  <2>2. p \in Periods
    BY <2>1, AdmitSweep
  <2> QED
    BY <2>1, <2>2, ConstantFacts DEF SbIInv, SbTyped, Opts
<1>1. /\ issued < MaxRows /\ ~IsReplay(s, None, t, live) /\ live = None /\ issued' = n
      /\ rows' = [table EXCEPT ![n] = x] /\ created' = [created EXCEPT ![n] = now]
      /\ prompts' = Bound(s, None, t, n)
      /\ stoppedBy' = stoppedBy /\ booked' = booked
  BY DEF AdmitGranted, history
<1>2. /\ UNCHANGED lateHost /\ turn' = turn /\ floor' = floor /\ gone' = gone /\ settling' = settling
      /\ billed' = billed /\ tried' = tried
  BY DEF AdmitFrame, lateHost, lateHistory
<1>3. SbIInv'
  BY <1>0, GrantedOK
<1>4. key \in Key /\ key.tag \in {"p", "n"}
  <2>1. pkey \in Key /\ pkey.tag = "p"
    BY DEF PromptKey, Key, Opts
  <2>2. NonceKey(s, None) \in Key /\ NonceKey(s, None).tag = "n"
    BY <1>0 DEF NonceKey, Key, Opts
  <2> HIDE DEF pkey
  <2> QED
    BY <2>1, <2>2
<1> HIDE DEF key, p
<1>5. /\ IsRow(x) /\ x \in Row /\ x # None /\ x.who = Who(s) /\ x.lane = "main" /\ x.kind = "hold"
      /\ x.state = "active"
  BY <1>0, <1>4, NewHoldRow
<1>6. x.usage = None /\ x.key = key /\ x \in LateRow
  <2>1. x.usage = None /\ x.key = key
    BY DEF HoldRow
  <2>2. None \in Opt(Mark) /\ None \in Opt(Nat) /\ None \in Opt({"known", "unknown"})
        /\ "main" \in Opt(Agents \cup {"main"})
        /\ "turn_hold" \in Opt({"turn_hold", "subagent_transcript"})
    BY LateTyped
  <2>3. cfg.hold \in Nat
    BY <1>0
  <2>4. x \in LateRow
    BY <1>0, <1>4, <2>2, <2>3, LateTyped DEF HoldRow, LateRow
  <2> QED
    BY <2>1, <2>4
<1>7. RowOK(x)
  BY <1>4, <1>5, <1>6, LateSpendAssumption DEF RowOK
<1>8. /\ TableInv(table, issued)
      /\ \A i \in Ids : table[i] = rows[i]
                          \/ (rows[i] # None /\ table[i] # None /\ Keeps(rows[i], table[i]))
  BY SweptKeeps
<1>9. n \in Ids
  BY <1>0, <1>1, ConstantFacts
<1> HIDE DEF x, table, live
<1>10. rows'[n] = x /\ \A i \in Ids : i # n => rows'[i] = table[i]
  BY <1>1, <1>8, <1>9 DEF TableInv, IsTable
<1>11. PICK db, st, T : db = LateTables /\ st = StoppedTurns /\ T = tried
  OBVIOUS
<1>12. PICK d : d = LateTables'
  OBVIOUS
<1>13. PICK m : m = TablesOf(table, pools, created, issued, settling, billed)
  OBVIOUS
<1>14. DbInv(db, st, T)
  BY <1>11 DEF LateInv
<1>15. /\ db.rows = rows /\ db.issued = issued /\ db.settling = settling /\ db.billed = billed
       /\ db.created = created
  BY <1>11 DEF LateTables
<1>16. /\ m = [rows |-> m.rows, pools |-> m.pools, created |-> m.created, issued |-> m.issued,
               settling |-> m.settling, billed |-> m.billed]
       /\ m.rows = table /\ m.issued = issued /\ m.settling = settling /\ m.billed = billed
       /\ m.created = created
  BY <1>13, TablesAre
<1>17. DbTyped(m)
  BY <1>8, <1>14, <1>15, <1>16 DEF DbInv, DbTyped
<1>18. DbInv(m, st, T)
  BY <1>8, <1>14, <1>15, <1>16, <1>17, RowsKept
<1>19. /\ d = [rows |-> d.rows, pools |-> d.pools, created |-> d.created, issued |-> d.issued,
               settling |-> d.settling, billed |-> d.billed]
       /\ d.rows = rows' /\ d.issued = issued' /\ d.settling = settling /\ d.billed = billed
       /\ d.created = created'
  BY <1>2, <1>12 DEF LateTables
<1>20. DbTyped(d)
  <2>1. TableInv(rows', issued') /\ issued' \in Nat /\ created' \in [Ids -> 0..MaxTime]
    BY <1>0, <1>1, <1>3 DEF SbIInv, SbTyped
  <2> QED
    BY <1>16, <1>17, <1>19, <2>1 DEF DbTyped
<1>21. TurnTyped
  BY DEF LateInv
<1>22. DbInv(d, st, T)
  <2>1. m.issued + 1 = n
    BY <1>16
  <2>2. /\ m.issued + 1 \in Ids /\ d.issued = m.issued + 1 /\ d.rows[m.issued + 1] = x
        /\ \A i \in Ids : i # m.issued + 1 => d.rows[i] = m.rows[i]
        /\ d.settling = m.settling /\ d.billed = m.billed
    BY <1>1, <1>9, <1>10, <1>16, <1>19, <2>1
  <2> HIDE DEF n
  <2> QED
    BY <1>5, <1>6, <1>7, <1>18, <1>20, <1>21, <2>2, HoldInserted
<1>23. Accepts(s, t, n)
  <2>1. prompts' = [prompts EXCEPT ![<<s, t>>] = n] /\ prompts[<<s, t>>] = None
    BY <1>0, <1>1 DEF Bound, IsReplay, AcceptedBy
  <2>2. prompts \in [Sessions \X Prompts -> Opts(Ids)]
    BY <1>0 DEF SbIInv, SbTyped
  <2> QED
    BY <2>1, <2>2 DEF Accepts
<1>24. <<s, t>> \notin st
  BY <1>11 DEF StoppedTurns
<1>25. /\ IsLaneRow(d.rows[n], s, None) /\ d.rows[n].kind = "hold" /\ d.rows[n].state = "active"
       /\ n <= d.issued
  <2>1. IsLaneRow(x, s, None)
    BY <1>5 DEF IsLaneRow, Who
  <2> QED
    BY <1>0, <1>1, <1>5, <1>10, <1>19, <2>1
<1>26. DbInv(d, st, T)'
  BY <1>2, <1>9, <1>21, <1>22, <1>23, <1>24, <1>25, PromptAccepted
<1> QED
  BY <1>1, <1>2, <1>3, <1>11, <1>12, <1>26, LateKept

-----------------------------------------------------------------------------
(* The Stop of a Codex turn *)

LEMMA TablesMove ==
  ASSUME LateInv, NEW d, DbTyped(d), LateBecomes(d)
  PROVE  /\ SbIInv' /\ NothingStopped' /\ LateTables' = d
         /\ prompts' = prompts /\ stoppedBy' = stoppedBy /\ booked' = booked
<1>1. /\ rows' = d.rows /\ pools' = d.pools /\ created' = d.created /\ issued' = d.issued
      /\ settling' = d.settling /\ billed' = d.billed /\ d.issued <= MaxRows
      /\ now' = now /\ cfg' = cfg /\ pruning' = pruning /\ prompts' = prompts
      /\ horizon' = horizon /\ spent' = spent /\ file' = file /\ stoppedBy' = stoppedBy
      /\ booked' = booked
  BY DEF LateBecomes, Becomes, host, history
<1>2. LateTables' = d
  <2>1. LateTables' = [rows |-> d.rows, pools |-> d.pools, created |-> d.created,
                       issued |-> d.issued, settling |-> d.settling, billed |-> d.billed]
    BY <1>1 DEF LateTables
  <2> QED
    BY <2>1 DEF DbTyped
<1>3. SbTyped'
  <2>1. issued' \in 0..MaxRows
    BY <1>1, ConstantFacts DEF DbTyped
  <2> QED
    BY <1>1, <2>1 DEF DbTyped, LateInv, SbIInv, SbTyped
<1>4. NothingStopped'
  BY <1>1 DEF LateInv, NothingStopped
<1>5. StoppedIsSettled'
  BY <1>4 DEF NothingStopped, StoppedIsSettled
<1>6. BookedIsKnown'
  BY <1>4 DEF NothingStopped, BookedIsKnown
<1>7. TableInv(rows', issued')
  BY <1>1 DEF DbTyped
<1> QED
  BY <1>1, <1>2, <1>3, <1>4, <1>5, <1>6, <1>7 DEF SbIInv

\* A step whose tables satisfy the invariant while the hosts' turns go on.
LEMMA LateMoves ==
  ASSUME LateInv, SbIInv', NothingStopped', TurnTyped', WorkTyped', TranscriptNotOverbooked',
         prompts' = prompts, floor' = floor, gone' = gone, TurnsGrow, NEW d, d = LateTables', NEW st,
         st = StoppedTurns', NEW T, T = tried', DbInv(d, st, T)
  PROVE  LateInv'
<1>1. TurnTyped
  BY DEF LateInv
<1>2. DbInv(d, st, T)'
  BY <1>1, HostMoves
<1>3. DbInv(LateTables, StoppedTurns, tried)'
  BY <1>2
<1> QED
  BY <1>3 DEF LateInv

\* The first step of a Stop: its own hold, or a charge of its own.
LEMMA PrimaryOK ==
  ASSUME SbIInv, TurnTyped, NEW db, NEW stopped, NEW T, DbInv(db, stopped, T),
         db.issued + 1 \in Ids, NEW readable, NEW s \in Sessions, NEW t \in Prompts,
         <<s, t>> \in stopped
  PROVE  LET new == StopOutcome(db, s, t, readable) IN
         DbInv(new, stopped, T) /\ Follows(db, new, 1)
<1>0. db.issued \in Nat
  BY DEF DbInv, DbTyped
<1>1. CASE prompts[<<s, t>>] # None
  <2>1. PICK new : new = StopOutcome(db, s, t, readable)
    OBVIOUS
  <2>2. new = settle_codex_hold(db, s, t, prompts[<<s, t>>], readable)
    BY <1>1, <2>1 DEF StopOutcome
  <2>3. DbInv(new, stopped, T) /\ Follows(db, new, 0)
    BY <1>1, <2>2, HoldSettled
  <2>4. new.issued \in Nat
    BY <2>3 DEF DbInv, DbTyped
  <2>5. Follows(db, new, 1)
    BY <1>0, <2>3, <2>4 DEF Follows
  <2> QED
    BY <2>1, <2>3, <2>5
<1>2. CASE prompts[<<s, t>>] = None
  BY <1>2, UnadmittedOK DEF StopOutcome
<1> QED
  BY <1>1, <1>2

\* Two steps in a row.
LEMMA FollowsOn ==
  ASSUME NEW a, NEW b, NEW c, NEW j \in Nat, NEW k \in Nat, Follows(a, b, j), Follows(b, c, k),
         DbTyped(a), DbTyped(b), DbTyped(c)
  PROVE  Follows(a, c, j + k)
<1>1. a.issued \in Nat /\ b.issued \in Nat /\ c.issued \in Nat
  BY DEF DbTyped
<1>2. c.issued <= a.issued + (j + k)
  BY <1>1 DEF Follows
<1> QED
  BY <1>2 DEF Follows

\* The tables after the three steps of a Stop, whichever of them failed, and the
\* hold that is then known to be exact.
LEMMA StopSteps ==
  ASSUME SbIInv, TurnTyped, NEW stopped, NEW T, DbInv(LateTables, stopped, T),
         NEW readable, NEW s \in Sessions, NEW t \in Prompts, <<s, t>> \in stopped,
         issued + 2 <= MaxRows, NEW fails, NEW target, target = trueup_candidate(s),
         NEW first, first = IF "primary" \in fails THEN LateTables
                            ELSE StopOutcome(LateTables, s, t, readable),
         NEW second, second = IF "recover" \in fails THEN first
                              ELSE Recovered(first, s, readable),
         NEW third, third = IF "trueup" \in fails \/ target = None THEN second
                            ELSE trueup_codex_hold(second, s, target, readable)
  PROVE  /\ DbInv(third, stopped, T) /\ Follows(LateTables, third, 2)
         /\ (/\ target # None /\ "trueup" \notin fails
             /\ Remeasured(second, s, target, readable)
             /\ Missed(second, s, target) <= CeilingFactor * cfg.cap
             /\ ChargePool(s, created[target]) # None) => DbInv(third, stopped, T \cup {target})
<1>1. PICK db : db = LateTables
  OBVIOUS
<1>2. /\ DbInv(db, stopped, T) /\ db.rows = rows /\ db.created = created /\ db.issued = issued
      /\ db.issued \in Nat /\ MaxRows \in Nat /\ Ids = 1..MaxRows
  BY <1>1, ConstantFacts DEF LateTables, DbInv, DbTyped, Ids
<1>3. DbInv(first, stopped, T) /\ Follows(db, first, 1)
  <2>1. db.issued + 1 \in Ids
    BY <1>2
  <2>2. CASE "primary" \in fails
    BY <1>1, <1>2, <2>2 DEF Follows
  <2>3. CASE "primary" \notin fails
    BY <1>1, <1>2, <2>1, <2>3, PrimaryOK
  <2> QED
    BY <2>2, <2>3
<1>4. DbInv(second, stopped, T) /\ Follows(first, second, 0)
  <2>1. first.issued \in Nat
    BY <1>3 DEF DbInv, DbTyped
  <2>2. CASE "recover" \in fails
    BY <1>3, <2>1, <2>2 DEF Follows
  <2>3. CASE "recover" \notin fails
    BY <1>3, <2>3, RecoveredOK
  <2> QED
    BY <2>2, <2>3
<1>5. DbTyped(db) /\ DbTyped(first) /\ DbTyped(second)
  BY <1>2, <1>3, <1>4 DEF DbInv
<1>6. Follows(db, second, 1)
  <2>1. Follows(db, second, 1 + 0)
    BY <1>3, <1>4, <1>5, FollowsOn
  <2> QED
    BY <2>1
<1>7. CASE "trueup" \in fails \/ target = None
  <2>1. third = second
    BY <1>7
  <2>2. Follows(db, third, 2)
    <3>1. third.issued \in Nat
      BY <1>5, <2>1 DEF DbTyped
    <3> QED
      BY <1>2, <1>6, <2>1, <3>1 DEF Follows
  <2> QED
    BY <1>1, <1>4, <1>7, <2>1, <2>2
<1>8. CASE "trueup" \notin fails /\ target # None
  <2>1. /\ target \in Ids /\ MeasuredHold(rows[target], s) /\ rows[target].state = "settled"
        /\ rows[target] # None
    BY <1>8, CandidateIs
  <2>2. second.rows[target] = rows[target] /\ second.created[target] = created[target]
    BY <1>2, <1>6, <2>1 DEF Follows
  <2>3. MeasuredHold(second.rows[target], s)
    BY <2>1, <2>2
  <2>4. second.issued + 1 \in Ids
    BY <1>2, <1>5, <1>6 DEF Follows, DbTyped
  <2>5. third = trueup_codex_hold(second, s, target, readable)
    BY <1>8
  <2>6. /\ DbInv(third, stopped, T) /\ Follows(second, third, 1)
        /\ (/\ Remeasured(second, s, target, readable)
            /\ Missed(second, s, target) <= CeilingFactor * cfg.cap
            /\ ChargePool(s, second.created[target]) # None) => DbInv(third, stopped, T \cup {target})
    BY <1>4, <2>1, <2>3, <2>4, <2>5, TrueUpOK
  <2>7. Follows(db, third, 2)
    <3>1. DbTyped(third)
      BY <2>6 DEF DbInv
    <3>2. Follows(db, third, 1 + 1)
      BY <1>5, <1>6, <2>6, <3>1, FollowsOn
    <3> QED
      BY <3>2
  <2> QED
    BY <1>1, <2>2, <2>6, <2>7
<1> QED
  BY <1>7, <1>8

LEMMA LateStop ==
  ASSUME LateInv, NEW s \in Sessions, NEW t \in Prompts, NEW readable, NEW fails,
         SettleCodexTurn(s, t, readable, fails)
  PROVE  LateInv'
<1> DEFINE x == <<s, t>>
<1>1. PICK target, first, second, third :
        /\ target = trueup_candidate(s)
        /\ first = IF "primary" \in fails THEN LateTables
                   ELSE StopOutcome(LateTables, s, t, readable)
        /\ second = IF "recover" \in fails THEN first ELSE Recovered(first, s, readable)
        /\ third = IF "trueup" \in fails \/ target = None THEN second
                   ELSE trueup_codex_hold(second, s, target, readable)
  OBVIOUS
<1>2. /\ issued + 2 <= MaxRows
      /\ turn' = [turn EXCEPT ![x].stopped = TRUE]
      /\ LateBecomes(third)
      /\ tried' = IF /\ target # None /\ "trueup" \notin fails
                     /\ Remeasured(second, s, target, readable)
                     /\ Missed(second, s, target) <= CeilingFactor * cfg.cap
                     /\ ChargePool(s, created[target]) # None
                  THEN tried \cup {target} ELSE tried
      /\ work' = work /\ floor' = floor /\ gone' = gone
  BY <1>1 DEF SettleCodexTurn
<1>3. SbIInv /\ TurnTyped /\ DbInv(LateTables, StoppedTurns, tried)
  BY DEF LateInv
<1>4. x \in Turns /\ turn[x] \in [used: Nat, written: Nat, stopped: BOOLEAN, complete: BOOLEAN]
  BY <1>3 DEF Turns, TurnTyped
<1>5. /\ turn' \in [Turns -> [used: Nat, written: Nat, stopped: BOOLEAN, complete: BOOLEAN]]
      /\ \A y \in Turns : /\ turn'[y].used = turn[y].used /\ turn'[y].written = turn[y].written
                          /\ turn'[y].complete = turn[y].complete
                          /\ turn'[y].stopped = (IF y = x THEN TRUE ELSE turn[y].stopped)
  <2>1. PICK z : z = [turn[x] EXCEPT !.stopped = TRUE]
    OBVIOUS
  <2>2. /\ z \in [used: Nat, written: Nat, stopped: BOOLEAN, complete: BOOLEAN]
        /\ z.used = turn[x].used /\ z.written = turn[x].written
        /\ z.complete = turn[x].complete /\ z.stopped = TRUE
    BY <1>4, <2>1
  <2>3. turn' = [turn EXCEPT ![x] = z]
    BY <1>2, <2>1
  <2>4. \A y \in Turns : turn'[y] = IF y = x THEN z ELSE turn[y]
    BY <1>3, <1>4, <2>3 DEF TurnTyped
  <2> HIDE DEF x
  <2>5. turn' \in [Turns -> [used: Nat, written: Nat, stopped: BOOLEAN, complete: BOOLEAN]]
    BY <1>3, <1>4, <2>2, <2>3 DEF TurnTyped
  <2> QED
    BY <2>2, <2>4, <2>5
<1>6. PICK st : st = StoppedTurns'
  OBVIOUS
<1>7. StoppedTurns \subseteq st /\ x \in st
  BY <1>4, <1>5, <1>6 DEF StoppedTurns
<1>8. DbInv(LateTables, st, tried)
  BY <1>3, <1>7, MoreStopped
<1>9. /\ DbInv(third, st, tried) /\ Follows(LateTables, third, 2)
      /\ (/\ target # None /\ "trueup" \notin fails
          /\ Remeasured(second, s, target, readable)
          /\ Missed(second, s, target) <= CeilingFactor * cfg.cap
          /\ ChargePool(s, created[target]) # None) => DbInv(third, st, tried \cup {target})
  BY <1>1, <1>2, <1>3, <1>7, <1>8, StopSteps
<1>10. DbInv(third, st, tried')
  BY <1>2, <1>9
<1>11. /\ SbIInv' /\ NothingStopped' /\ LateTables' = third /\ prompts' = prompts
  <2>1. DbTyped(third)
    BY <1>10 DEF DbInv
  <2> QED
    BY <1>2, <2>1, TablesMove
<1>12. TurnTyped' /\ TurnsGrow
  <2>1. \A y \in Turns : turn[y].used \in Nat /\ turn[y].written <= turn[y].used
                         /\ (turn[y].complete => turn[y].written = turn[y].used)
    BY <1>3 DEF TurnTyped
  <2>2. TurnTyped'
    BY <1>5, <2>1 DEF TurnTyped
  <2>3. TurnsGrow
    <3>0. \A y \in Turns : turn'[y].used = turn[y].used
      BY <1>5, Zenon
    <3>1. \A y \in Turns : turn[y].used <= turn[y].used
      BY <2>1
    <3>2. \A y \in Turns : turn[y].complete => turn'[y].complete
      BY <1>5, Zenon
    <3> HIDE DEF x
    <3> QED
      BY <3>0, <3>1, <3>2 DEF TurnsGrow
  <2> QED
    BY <2>2, <2>3
<1>13. WorkTyped'
  BY <1>2 DEF LateInv, WorkTyped
<1>14. TranscriptNotOverbooked'
  <2>1. billed' = third.billed /\ LateTables.billed = billed
    BY <1>2 DEF LateBecomes, LateTables
  <2>2. \A y \in Subagents : billed'[TranscriptFamily(y[1], y[2])] = billed[TranscriptFamily(y[1], y[2])]
    BY <1>9, <2>1 DEF Follows
  <2> QED
    BY <1>2, <2>2 DEF LateInv, TranscriptNotOverbooked
<1>15. PICK d, T : d = LateTables' /\ T = tried'
  OBVIOUS
<1>16. DbInv(d, st, T)
  BY <1>10, <1>11, <1>15
<1> QED
  BY <1>2, <1>6, <1>11, <1>12, <1>13, <1>14, <1>15, <1>16, LateMoves

-----------------------------------------------------------------------------
(* The hosts, the clock and the CLI's list of months *)

\* A step that leaves the ledger alone.
LEMMA LateQuiet ==
  ASSUME LateInv, SbIInv', UNCHANGED ledger, settling' = settling, billed' = billed,
         tried' = tried, floor' = floor, gone' = gone, TurnTyped', WorkTyped', TurnsGrow,
         \A x \in Turns : turn'[x].stopped = turn[x].stopped,
         \A x \in Subagents : Len(work[x].times) <= Len(work'[x].times)
  PROVE  LateInv'
<1>1. /\ prompts' = prompts /\ stoppedBy' = stoppedBy /\ booked' = booked
      /\ LateTables' = LateTables
  BY DEF ledger, history, LateTables
<1>2. NothingStopped'
  BY <1>1 DEF LateInv, NothingStopped
<1>3. StoppedTurns' = StoppedTurns
  BY DEF StoppedTurns
<1>4. TranscriptNotOverbooked'
  <2> SUFFICES ASSUME NEW x \in Subagents, NEW c, c = billed[TranscriptFamily(x[1], x[2])]
               PROVE  c <= Len(work'[x].times) \/ \E k \in Configs : c <= k.hold
    BY DEF TranscriptNotOverbooked
  <2>1. c <= Len(work[x].times) \/ \E k \in Configs : c <= k.hold
    BY DEF LateInv, TranscriptNotOverbooked
  <2>2. c \in Nat
    BY LateFacts, KeyFacts
  <2>3. work[x] \in [times: Seq(0..MaxTime), written: Nat]
        /\ work'[x] \in [times: Seq(0..MaxTime), written: Nat]
    BY DEF LateInv, WorkTyped
  <2>4. PICK u, v : u = work[x].times /\ v = work'[x].times
    OBVIOUS
  <2>5. Len(u) \in Nat /\ Len(v) \in Nat /\ Len(u) <= Len(v)
    BY <2>3, <2>4
  <2> QED
    BY <2>1, <2>2, <2>4, <2>5
<1>5. PICK d, st, T : d = LateTables' /\ st = StoppedTurns' /\ T = tried'
  OBVIOUS
<1>6. DbInv(d, st, T)
  BY <1>1, <1>3, <1>5 DEF LateInv
<1> QED
  BY <1>1, <1>2, <1>4, <1>5, <1>6, LateMoves

\* Nothing the budget itself keeps changes.
LEMMA SbStands ==
  ASSUME SbIInv, UNCHANGED vars
  PROVE  SbIInv' /\ UNCHANGED ledger
<1>1. UNCHANGED ledger /\ UNCHANGED <<now, cfg, pruning, spent, file>>
  BY DEF vars, ledger, history
<1>2. SbTyped'
  BY <1>1 DEF SbIInv, SbTyped, ledger, history
<1> QED
  BY <1>1, <1>2, QuietStep

TurnOf == [used: Nat, written: Nat, stopped: BOOLEAN, complete: BOOLEAN]

\* One turn moves on.
LEMMA TurnMoves ==
  ASSUME LateInv, NEW x \in Turns, NEW z \in TurnOf, turn' = [turn EXCEPT ![x] = z],
         turn[x].used <= z.used, z.written <= z.used, z.complete => z.written = z.used,
         z.stopped = turn[x].stopped,
         turn[x].complete => z.complete /\ z.used = turn[x].used
  PROVE  TurnTyped' /\ TurnsGrow /\ \A y \in Turns : turn'[y].stopped = turn[y].stopped
<1>1. TurnTyped
  BY DEF LateInv
<1>2. turn' \in [Turns -> TurnOf] /\ \A y \in Turns : turn'[y] = IF y = x THEN z ELSE turn[y]
  BY <1>1 DEF TurnTyped, TurnOf
<1>3. \A y \in Turns : turn[y].used \in Nat /\ turn[y].written <= turn[y].used
                         /\ (turn[y].complete => turn[y].written = turn[y].used)
  BY <1>1 DEF TurnTyped
<1>4. TurnTyped'
  BY <1>2, <1>3 DEF TurnTyped, TurnOf
<1>5. TurnsGrow
  BY <1>2, <1>3 DEF TurnsGrow
<1>6. \A y \in Turns : turn'[y].stopped = turn[y].stopped
  BY <1>2
<1> QED
  BY <1>4, <1>5, <1>6

LEMMA LateTurn ==
  ASSUME LateInv, NEW x \in Turns, TurnResponds(x) \/ RecordWritten(x) \/ TurnCompletes(x)
  PROVE  LateInv'
<1>1. UNCHANGED vars /\ work' = work /\ floor' = floor /\ gone' = gone /\ settling' = settling
      /\ billed' = billed /\ tried' = tried
  BY DEF TurnResponds, RecordWritten, TurnCompletes, lateHistory
<1>2. SbIInv' /\ UNCHANGED ledger
  BY <1>1, SbStands DEF LateInv
<1>3. WorkTyped'
  BY <1>1 DEF LateInv, WorkTyped
<1>4. /\ turn[x] \in TurnOf /\ turn[x].written <= turn[x].used
      /\ turn[x].complete => turn[x].written = turn[x].used
  BY DEF LateInv, TurnTyped, TurnOf
<1>5. \E z \in TurnOf :
        /\ turn' = [turn EXCEPT ![x] = z] /\ turn[x].used <= z.used /\ z.written <= z.used
        /\ z.complete => z.written = z.used
        /\ z.stopped = turn[x].stopped
        /\ turn[x].complete => z.complete /\ z.used = turn[x].used
  <2>0. PICK y : y = turn[x]
    OBVIOUS
  <2>y. /\ y \in TurnOf /\ y.written <= y.used /\ (y.complete => y.written = y.used)
        /\ y.used \in Nat /\ y.written \in Nat /\ y.complete \in BOOLEAN
    BY <1>4, <2>0 DEF TurnOf
  <2>1. CASE TurnResponds(x)
    <3>1. PICK z : z = [y EXCEPT !.used = y.used + 1]
      OBVIOUS
    <3>2. turn' = [turn EXCEPT ![x] = z] /\ ~y.complete
      BY <2>0, <2>1, <3>1 DEF TurnResponds
    <3>3. /\ z \in TurnOf /\ z.used = y.used + 1 /\ z.written = y.written
          /\ z.stopped = y.stopped /\ z.complete = y.complete
      BY <2>y, <3>1 DEF TurnOf
    <3>4. y.used <= z.used /\ z.written <= z.used
      BY <2>y, <3>3
    <3> QED
      BY <2>0, <3>2, <3>3, <3>4
  <2>2. CASE RecordWritten(x)
    <3>1. PICK z : z = [y EXCEPT !.written = y.written + 1]
      OBVIOUS
    <3>2. turn' = [turn EXCEPT ![x] = z] /\ y.written < y.used
      BY <2>0, <2>2, <3>1 DEF RecordWritten
    <3>3. /\ z \in TurnOf /\ z.used = y.used /\ z.written = y.written + 1
          /\ z.stopped = y.stopped /\ z.complete = y.complete
      BY <2>y, <3>1 DEF TurnOf
    <3>4. y.used <= z.used /\ z.written <= z.used /\ ~y.complete
      BY <2>y, <3>2, <3>3
    <3> QED
      BY <2>0, <3>2, <3>3, <3>4
  <2>3. CASE TurnCompletes(x)
    <3>1. PICK z : z = [y EXCEPT !.written = y.used, !.complete = TRUE]
      OBVIOUS
    <3>2. turn' = [turn EXCEPT ![x] = z] /\ ~y.complete
      BY <2>0, <2>3, <3>1 DEF TurnCompletes
    <3>3. /\ z \in TurnOf /\ z.used = y.used /\ z.written = y.used
          /\ z.stopped = y.stopped
      BY <2>y, <3>1 DEF TurnOf
    <3>4. y.used <= z.used /\ z.written <= z.used
      BY <2>y, <3>3
    <3> QED
      BY <2>0, <3>2, <3>3, <3>4
  <2> QED
    BY <2>1, <2>2, <2>3
<1>6. TurnTyped' /\ TurnsGrow /\ \A y \in Turns : turn'[y].stopped = turn[y].stopped
  BY <1>5, TurnMoves
<1>7. \A y \in Subagents : Len(work[y].times) <= Len(work'[y].times)
  <2> SUFFICES ASSUME NEW y \in Subagents PROVE Len(work[y].times) <= Len(work[y].times)
    BY <1>1
  <2>1. work[y].times \in Seq(0..MaxTime)
    BY DEF LateInv, WorkTyped
  <2>2. Len(work[y].times) \in Nat
    BY <2>1
  <2> QED
    BY <2>2
<1> QED
  BY <1>1, <1>2, <1>3, <1>6, <1>7, LateQuiet

\* Nothing a host does to a turn.
LEMMA TurnsStand ==
  ASSUME LateInv, turn' = turn
  PROVE  TurnTyped' /\ TurnsGrow
<1>1. \A y \in Turns : turn[y].used \in Nat
  BY DEF LateInv, TurnTyped
<1> QED
  BY <1>1 DEF LateInv, TurnTyped, TurnsGrow

LEMMA LateSubagent ==
  ASSUME LateInv, NEW x \in Subagents, SubagentResponds(x) \/ SubagentWrites(x)
  PROVE  LateInv'
<1>1. UNCHANGED vars /\ turn' = turn /\ floor' = floor /\ gone' = gone /\ settling' = settling
      /\ billed' = billed /\ tried' = tried
  BY DEF SubagentResponds, SubagentWrites, lateHistory
<1>2. SbIInv' /\ UNCHANGED ledger
  BY <1>1, SbStands DEF LateInv
<1> DEFINE W == [times: Seq(0..MaxTime), written: Nat]
<1>3. work \in [Subagents -> W] /\ \A y \in Subagents : work[y].written <= Len(work[y].times)
  BY DEF LateInv, WorkTyped
<1>4. now \in 0..MaxTime
  BY DEF LateInv, SbIInv, SbTyped
<1>5. \E z \in W : /\ work' = [work EXCEPT ![x] = z] /\ z.written <= Len(z.times)
                   /\ Len(work[x].times) <= Len(z.times)
  <2>0. PICK y, u, n : y = work[x] /\ u = y.times /\ n = y.written
    OBVIOUS
  <2>y. y \in W /\ u \in Seq(0..MaxTime) /\ n \in Nat /\ n <= Len(u) /\ Len(u) \in Nat
    BY <1>3, <2>0
  <2>1. CASE SubagentResponds(x)
    <3>1. PICK v, z : v = Append(u, now) /\ z = [y EXCEPT !.times = v]
      OBVIOUS
    <3>2. work' = [work EXCEPT ![x] = z]
      BY <2>0, <2>1, <3>1 DEF SubagentResponds
    <3>3. v \in Seq(0..MaxTime) /\ Len(v) = Len(u) + 1
      BY <1>4, <2>y, <3>1
    <3>4. z \in W /\ z.times = v /\ z.written = n
      BY <2>0, <2>y, <3>1, <3>3
    <3>5. n <= Len(v) /\ Len(u) <= Len(v)
      BY <2>y, <3>3
    <3> QED
      BY <2>0, <3>2, <3>4, <3>5
  <2>2. CASE SubagentWrites(x)
    <3>1. PICK z : z = [y EXCEPT !.written = n + 1]
      OBVIOUS
    <3>2. work' = [work EXCEPT ![x] = z] /\ n < Len(u)
      BY <2>0, <2>2, <3>1 DEF SubagentWrites
    <3>3. z \in W /\ z.times = u /\ z.written = n + 1
      BY <2>0, <2>y, <3>1
    <3>4. n + 1 <= Len(u) /\ Len(u) <= Len(u)
      BY <2>y, <3>2
    <3> QED
      BY <2>0, <3>2, <3>3, <3>4
  <2> QED
    BY <2>1, <2>2
<1>6. PICK z \in W : /\ work' = [work EXCEPT ![x] = z] /\ z.written <= Len(z.times)
                     /\ Len(work[x].times) <= Len(z.times)
  BY <1>5
<1> HIDE DEF W
<1>7. work' \in [Subagents -> W] /\ \A y \in Subagents : work'[y] = IF y = x THEN z ELSE work[y]
  BY <1>3, <1>6
<1>8. WorkTyped'
  BY <1>3, <1>6, <1>7 DEF WorkTyped, W
<1>9. \A y \in Subagents : Len(work[y].times) <= Len(work'[y].times)
  <2> SUFFICES ASSUME NEW y \in Subagents PROVE Len(work[y].times) <= Len(work'[y].times)
    OBVIOUS
  <2>1. work[y].times \in Seq(0..MaxTime)
    BY <1>3 DEF W
  <2>2. Len(work[y].times) \in Nat
    BY <2>1
  <2> QED
    BY <1>6, <1>7, <2>2
<1>10. TurnTyped' /\ TurnsGrow
  BY <1>1, TurnsStand
<1> QED
  BY <1>1, <1>2, <1>8, <1>9, <1>10, LateQuiet

\* The clock, the CLI's list of months and a restart of the daemon.
LEMMA LateOther ==
  ASSUME LateInv,
         \/ DaemonRestarts
         \/ /\ (\E d \in Deltas : ClockStep(d)) \/ PruneStart \/ PruneSkip \/ PruneCrash
            /\ UNCHANGED <<lateHost, floor, settling, seen, lateHistory>>
  PROVE  LateInv'
<1>1. /\ turn' = turn /\ work' = work /\ floor' = floor /\ gone' = gone /\ settling' = settling
      /\ billed' = billed /\ tried' = tried
  BY DEF DaemonRestarts, lateHost, lateHistory
<1>2. SbIInv' /\ UNCHANGED ledger
  <2>1. CASE DaemonRestarts
    BY <2>1, SbStands DEF DaemonRestarts, LateInv
  <2>2. CASE \E d \in Deltas : ClockStep(d)
    BY <2>2, ClockOK DEF ClockStep, LateInv
  <2>3. CASE PruneStart \/ PruneSkip \/ PruneCrash
    BY <2>3, PruneListOK DEF PruneStart, PruneSkip, PruneCrash, LateInv
  <2> QED
    BY <2>1, <2>2, <2>3
<1>3. WorkTyped'
  BY <1>1 DEF LateInv, WorkTyped
<1>4. TurnTyped' /\ TurnsGrow
  BY <1>1, TurnsStand
<1>5. \A y \in Subagents : Len(work[y].times) <= Len(work'[y].times)
  <2> SUFFICES ASSUME NEW y \in Subagents PROVE Len(work[y].times) <= Len(work[y].times)
    BY <1>1
  <2>1. work[y].times \in Seq(0..MaxTime)
    BY DEF LateInv, WorkTyped
  <2>2. Len(work[y].times) \in Nat
    BY <2>1
  <2> QED
    BY <2>2
<1> QED
  BY <1>1, <1>2, <1>3, <1>4, <1>5, LateQuiet

-----------------------------------------------------------------------------
(* A subagent's transcript *)

LEMMA TranscriptKeys ==
  ASSUME NEW x \in Subagents, NEW m \in Nat \cup {None}
  PROVE  LET f == TranscriptFamily(x[1], x[2])
             k == [f EXCEPT !.b = m] IN
         /\ x[1] \in Sessions /\ x[2] \in Agents /\ k \in Key /\ FamilyOf(k) = f
         /\ \A s, t : k # TurnKey(s, t)
         /\ \A y \in Subagents : TranscriptFamily(y[1], y[2]) = f => y = x
<1>1. x[1] \in Sessions /\ x[2] \in Agents /\ x = <<x[1], x[2]>>
  BY DEF Subagents
<1>2. PICK k : k = [TranscriptFamily(x[1], x[2]) EXCEPT !.b = m]
  OBVIOUS
<1>3. k = [tag |-> "transcript", s |-> x[1], agent |-> x[2], a |-> 0, b |-> m]
  BY <1>2 DEF TranscriptFamily
<1>4. k \in Key
  BY <1>1, <1>3 DEF Key, Opts
<1>5. FamilyOf(k) = TranscriptFamily(x[1], x[2])
  BY <1>3 DEF FamilyOf, TranscriptFamily
<1>6. \A s, t : k # TurnKey(s, t)
  <2> SUFFICES ASSUME NEW s, NEW t PROVE k # TurnKey(s, t)
    OBVIOUS
  <2>1. TurnKey(s, t).tag = "turn" /\ k.tag = "transcript"
    BY <1>3 DEF TurnKey
  <2> QED
    BY <2>1
<1>7. ASSUME NEW y \in Subagents, TranscriptFamily(y[1], y[2]) = TranscriptFamily(x[1], x[2])
      PROVE  y = x
  <2>1. \A s, a : TranscriptFamily(s, a).s = s /\ TranscriptFamily(s, a).agent = a
    BY DEF TranscriptFamily
  <2>2. y[1] = x[1] /\ y[2] = x[2]
    BY <1>7, <2>1
  <2>3. y = <<y[1], y[2]>>
    BY DEF Subagents
  <2> QED
    BY <1>1, <2>2, <2>3
<1> QED
  BY <1>1, <1>2, <1>4, <1>5, <1>6, <1>7

\* What is charged for a transcript: up to the figure read, or the flat amount
\* when nothing was ever charged.
LEMMA TranscriptChargeIs ==
  ASSUME LateInv, NEW x \in Subagents, NEW read, CanRead(x, read), NEW c,
         c = TranscriptCharge(x, read)
  PROVE  LET f == TranscriptFamily(x[1], x[2]) IN
         /\ \E m \in Nat \cup {None} : c.key = [f EXCEPT !.b = m]
         /\ c.event \in Nat \cup {None} /\ c.usage \in {"known", "unknown"}
         /\ billed[f] \in Nat /\ c.cents \in Nat
         /\ c.cents > 0 => \/ billed[f] + c.cents <= Len(work[x].times)
                           \/ billed[f] + c.cents = cfg.hold
<1> DEFINE f == TranscriptFamily(x[1], x[2])
           w == work[x].written
           measured == IF read = "priced" THEN w ELSE None
           cents == IF measured # None THEN Monus(measured, Already(f))
                    ELSE IF Already(f) = 0 THEN cfg.hold ELSE 0
           ev == IF measured = None THEN None ELSE work[x].times[measured]
           use == IF measured = None THEN "unknown" ELSE "known"
<1>1. c = [key |-> [f EXCEPT !.b = measured], cents |-> cents, event |-> ev, usage |-> use]
  BY DEF TranscriptCharge
<1>2. /\ work[x].times \in Seq(0..MaxTime) /\ w \in Nat /\ w <= Len(work[x].times)
      /\ (read = "priced" => w > 0) /\ None \notin Nat
  BY BudgetAssumption DEF LateInv, WorkTyped, CanRead
<1>3. Already(f) = billed[f] /\ billed[f] \in Nat
  <2>1. f \in Families
    BY KeyFacts
  <2>2. Conserved(LateTables) /\ LateTables.rows = rows /\ LateTables.billed = billed
    BY DEF LateInv, DbInv, LateTables
  <2>3. FamilyTotal(rows, f) = billed[f]
    BY <2>1, <2>2 DEF Conserved
  <2>4. billed[f] \in Nat
    BY <2>1, LateFacts
  <2> QED
    BY <2>3, <2>4 DEF Already
<1>4. cfg.hold \in Nat
  BY ConstantFacts, BudgetAssumption DEF LateInv, SbIInv, SbTyped
<1>5. c.key = [f EXCEPT !.b = measured] /\ c.cents = cents /\ c.event = ev /\ c.usage = use
  BY <1>1
<1>6. measured \in Nat \cup {None} /\ use \in {"known", "unknown"}
  BY <1>2
<1>7. ev \in Nat \cup {None}
  <2>1. CASE measured = None
    BY <2>1
  <2>2. CASE measured # None
    <3>1. w \in 1..Len(work[x].times) /\ measured = w
      BY <1>2, <2>2
    <3>0. PICK u, n : u = work[x].times /\ n = w
      OBVIOUS
    <3>2. u[n] \in 0..MaxTime /\ u[n] = work[x].times[w]
      <4>1. u \in Seq(0..MaxTime) /\ n \in 1..Len(u)
        BY <1>2, <3>0, <3>1
      <4>2. \A Q, q : q \in Seq(Q) => \A j \in 1..Len(q) : q[j] \in Q
        OBVIOUS
      <4>3. u[n] \in 0..MaxTime
        BY <4>1, <4>2, Zenon
      <4> QED
        BY <3>0, <4>3
    <3>3. work[x].times[w] \in Nat
      BY <3>2, ConstantFacts
    <3> QED
      BY <2>2, <3>1, <3>3
  <2> QED
    BY <2>1, <2>2
<1>8. PICK b, h, n : b = billed[f] /\ h = cfg.hold /\ n = Len(work[x].times)
  OBVIOUS
<1>9. b \in Nat /\ h \in Nat /\ n \in Nat /\ w <= n
  BY <1>2, <1>3, <1>4, <1>8
<1>10. cents = IF measured # None THEN Monus(measured, b) ELSE IF b = 0 THEN h ELSE 0
  BY <1>3, <1>8
<1> HIDE DEF cents, f, ev
<1>11. cents \in Nat /\ (cents > 0 => b + cents <= n \/ b + cents = h)
  <2>1. CASE measured = None
    BY <1>9, <1>10, <2>1
  <2>2. CASE measured # None
    <3>1. measured = w /\ w \in Nat
      BY <1>2, <2>2
    <3>2. cents = Monus(w, b)
      BY <1>10, <2>2, <3>1
    <3> HIDE DEF w
    <3> QED
      BY <1>9, <3>1, <3>2 DEF Monus
  <2> QED
    BY <2>1, <2>2
<1> QED
  BY <1>3, <1>5, <1>6, <1>7, <1>8, <1>11 DEF f

LEMMA TranscriptBooked ==
  ASSUME LateInv, NEW x \in Subagents, NEW read, CanRead(x, read), issued < MaxRows, NEW c,
         c = TranscriptCharge(x, read), NEW db, db = LateTables, NEW new,
         new = Charged(db, x[1], x[2], c.key, c.cents, c.event, c.usage, "subagent_transcript")
  PROVE  /\ DbInv(new, StoppedTurns, tried)
         /\ \A y \in Subagents :
              LET v == new.billed[TranscriptFamily(y[1], y[2])] IN
              v <= Len(work[y].times) \/ \E k \in Configs : v <= k.hold
<1> DEFINE f == TranscriptFamily(x[1], x[2])
<1>0. /\ SbIInv /\ TurnTyped /\ DbInv(db, StoppedTurns, tried) /\ DbTyped(db)
      /\ db.billed = billed /\ db.issued = issued /\ cfg \in Configs
  BY DEF LateInv, DbInv, LateTables, SbIInv, SbTyped
<1>1. \A y \in Subagents :
        LET v == billed[TranscriptFamily(y[1], y[2])] IN
        v <= Len(work[y].times) \/ \E k \in Configs : v <= k.hold
  BY DEF LateInv, TranscriptNotOverbooked
<1>2. PICK m \in Nat \cup {None} : c.key = [f EXCEPT !.b = m]
  BY TranscriptChargeIs
<1>3. /\ c.event \in Nat \cup {None} /\ c.usage \in {"known", "unknown"}
      /\ billed[f] \in Nat /\ c.cents \in Nat
      /\ c.cents > 0 => \/ billed[f] + c.cents <= Len(work[x].times)
                        \/ billed[f] + c.cents = cfg.hold
  BY TranscriptChargeIs
<1>4. /\ x[1] \in Sessions /\ x[2] \in Agents /\ c.key \in Key /\ FamilyOf(c.key) = f
      /\ \A s, t : c.key # TurnKey(s, t)
      /\ \A y \in Subagents : TranscriptFamily(y[1], y[2]) = f => y = x
  BY <1>2, TranscriptKeys
<1>5. CASE ~Bookable(db, x[1], c.key, c.cents, c.event)
  <2>1. new = db
    BY <1>5 DEF Charged
  <2> QED
    BY <1>0, <1>1, <2>1
<1>6. CASE Bookable(db, x[1], c.key, c.cents, c.event)
  <2>1. /\ x[2] \in Opts(Agents) /\ AttributionOf(x[2], "subagent_transcript") = x[2]
        /\ x[2] # "main" /\ "subagent_transcript" \in {"turn_hold", "subagent_transcript"}
        /\ x[2] \in Agents \cup {"main"}
    <3>1. x[2] # None
      BY <1>4, BudgetAssumption
    <3> QED
      BY <1>4, <3>1, LateSpendAssumption DEF Opts, AttributionOf
  <2>2. db.issued + 1 \in Ids /\ issued \in Nat
    BY <1>0, ConstantFacts DEF DbTyped
  <2>3. PICK s, a, k, v, e, u : /\ s = x[1] /\ a = x[2] /\ k = c.key /\ v = c.cents
                                /\ e = c.event /\ u = c.usage
    OBVIOUS
  <2>4. new = Charged(db, s, a, k, v, e, u, "subagent_transcript")
    BY <2>3
  <2>5. /\ DbTyped(new)
        /\ \E r : /\ Inserts(db, new, r)
                  /\ r \in LateRow /\ r # None /\ r.kind = "charge" /\ r.state = "settled"
                  /\ r.settled = v /\ v \in Nat /\ r.usage = u /\ r.key = k
                  /\ r.who.session = s /\ r.lane = a
    <3>1. /\ s \in Sessions /\ a \in Opts(Agents) /\ k \in Key /\ e \in Nat \cup {None}
          /\ u \in {"known", "unknown"} /\ AttributionOf(a, "subagent_transcript") = a
          /\ a \in Agents \cup {"main"} /\ Bookable(db, s, k, v, e)
      BY <1>3, <1>4, <1>6, <2>1, <2>3
    <3> QED
      BY <1>0, <2>1, <2>2, <2>4, <3>1, ChargedIs
  <2>6. PICK r : /\ Inserts(db, new, r)
                 /\ r \in LateRow /\ r # None /\ r.kind = "charge" /\ r.state = "settled"
                 /\ r.settled = v /\ v \in Nat /\ r.usage = u /\ r.key = k
                 /\ r.who.session = s /\ r.lane = a
    BY <2>5
  <2>7. IsCharge(r)
    BY <2>1, <2>3, <2>6 DEF IsCharge, RowOK
  <2>8. \A s1 \in Sessions, i \in Ids : FamilyOf(r.key) # TrueUpFamily(s1, i)
    BY <1>4, <2>3, <2>6, KeyFacts
  <2>9. TurnsOK(new, StoppedTurns)
    <3>1. \A i \in Ids, s1 \in Sessions, t \in Prompts :
            new.rows[i] # None /\ new.rows[i].key = TurnKey(s1, t) => new.rows[i] = db.rows[i]
      BY <1>4, <2>3, <2>6 DEF Inserts
    <3>2. TurnsOK(db, StoppedTurns)
      BY <1>0 DEF DbInv
    <3> QED
      BY <3>1, <3>2 DEF TurnsOK
  <2>10. DbInv(new, StoppedTurns, tried)
    BY <1>0, <2>2, <2>5, <2>6, <2>7, <2>8, <2>9, OtherCharge
  <2>11. ASSUME NEW y \in Subagents, NEW b, b = new.billed[TranscriptFamily(y[1], y[2])]
         PROVE  b <= Len(work[y].times) \/ \E q \in Configs : b <= q.hold
    <3>1. TranscriptFamily(y[1], y[2]) \in Families
      BY KeyFacts
    <3>2. CASE y # x
      <4>1. TranscriptFamily(y[1], y[2]) # f
        BY <1>4, <3>2
      <4>2. b = billed[TranscriptFamily(y[1], y[2])]
        BY <1>0, <1>4, <2>3, <2>6, <2>11, <3>1, <4>1 DEF Inserts
      <4> QED
        BY <1>1, <4>2
    <3>3. CASE y = x
      <4>1. b = billed[f] + c.cents
        BY <1>0, <1>4, <2>3, <2>6, <2>11, <3>1, <3>3 DEF Inserts
      <4>2. c.cents > 0
        <5>1. c.cents \in 1..(CeilingFactor * cfg.cap) /\ CeilingFactor * cfg.cap \in Int
          BY <1>0, <1>6, ConstantFacts DEF Bookable, SbIInv, SbTyped
        <5> QED
          BY <5>1
      <4>3. b <= Len(work[x].times) \/ b = cfg.hold
        BY <1>3, <4>1, <4>2
      <4>4. b \in Nat
        BY <1>3, <4>1
      <4>5. b = cfg.hold => b <= cfg.hold
        BY <4>4
      <4> QED
        BY <1>0, <3>3, <4>3, <4>5
    <3> QED
      BY <3>2, <3>3
  <2> QED
    BY <2>10, <2>11
<1> QED
  BY <1>5, <1>6

\* The tables of a booked transcript are the next ones.
LEMMA LateTranscript ==
  ASSUME LateInv, UNCHANGED <<lateHost, floor, tried, gone>>, NEW new, LateBecomes(new),
         DbInv(new, StoppedTurns, tried),
         \A y \in Subagents :
              LET v == new.billed[TranscriptFamily(y[1], y[2])] IN
              v <= Len(work[y].times) \/ \E k \in Configs : v <= k.hold
  PROVE  LateInv'
<1>1. turn' = turn /\ work' = work /\ floor' = floor /\ gone' = gone /\ tried' = tried
  BY DEF lateHost
<1>2. SbIInv' /\ NothingStopped' /\ LateTables' = new /\ prompts' = prompts
  BY TablesMove DEF DbInv
<1>3. TurnTyped' /\ TurnsGrow
  BY <1>1, TurnsStand
<1>4. WorkTyped'
  BY <1>1 DEF LateInv, WorkTyped
<1>5. TranscriptNotOverbooked'
  <2>1. billed' = new.billed
    BY DEF LateBecomes
  <2> QED
    BY <1>1, <2>1 DEF TranscriptNotOverbooked
<1>6. StoppedTurns' = StoppedTurns
  BY <1>1 DEF StoppedTurns
<1>7. PICK d, st, T : d = LateTables' /\ st = StoppedTurns' /\ T = tried'
  OBVIOUS
<1>8. DbInv(d, st, T)
  BY <1>1, <1>2, <1>6, <1>7
<1> QED
  BY <1>1, <1>2, <1>3, <1>4, <1>5, <1>7, <1>8, LateMoves

LEMMA LateCharge ==
  ASSUME LateInv, NEW x \in Subagents, NEW read,
         ChargeAgentTranscript(x, read) \/ SweepTranscript(x, read)
  PROVE  LateInv'
<1>0. UNCHANGED <<lateHost, floor, tried, gone>> /\ issued < MaxRows /\ CanRead(x, read)
  BY DEF ChargeAgentTranscript, SweepTranscript
<1>1. PICK c, db, new : /\ c = TranscriptCharge(x, read) /\ db = LateTables
        /\ new = Charged(db, x[1], x[2], c.key, c.cents, c.event, c.usage, "subagent_transcript")
  OBVIOUS
<1>2. LateBecomes(new) \/ LateBecomes(db)
  BY <1>1 DEF ChargeAgentTranscript, SweepTranscript, BookTranscript
<1>3. CASE LateBecomes(new)
  <2>1. /\ DbInv(new, StoppedTurns, tried)
        /\ \A y \in Subagents :
              LET v == new.billed[TranscriptFamily(y[1], y[2])] IN
              v <= Len(work[y].times) \/ \E k \in Configs : v <= k.hold
    BY <1>0, <1>1, TranscriptBooked
  <2> QED
    BY <1>0, <1>3, <2>1, LateTranscript
<1>4. CASE LateBecomes(db)
  <2>1. DbInv(db, StoppedTurns, tried) /\ db.billed = billed
    BY <1>1 DEF LateInv, LateTables
  <2>2. \A y \in Subagents :
          LET v == db.billed[TranscriptFamily(y[1], y[2])] IN
          v <= Len(work[y].times) \/ \E k \in Configs : v <= k.hold
    BY <2>1 DEF LateInv, TranscriptNotOverbooked
  <2> QED
    BY <1>0, <1>4, <2>1, <2>2, LateTranscript
<1> QED
  BY <1>2, <1>3, <1>4

-----------------------------------------------------------------------------
(* Retention *)

\* Rows that are gone break nothing but the sums.
LEMMA RowsGone ==
  ASSUME NEW db, NEW stopped, NEW T, DbInv(db, stopped, T), TurnTyped, NEW new, DbTyped(new),
         new.issued = db.issued, new.settling = db.settling, new.billed = db.billed,
         \A i \in Ids : new.rows[i] \in {None, db.rows[i]}
  PROVE  DbRest(new, stopped, T)
<1>1. \A s, i : Added(new, s, i) = Added(db, s, i)
  BY DEF Added
<1>2. RowsOK(new)
  BY DEF DbInv, RowsOK
<1>3. TurnsOK(new, stopped)
  BY DEF DbInv, TurnsOK
<1>4. TrueUpsOK(new)
  BY <1>1 DEF DbInv, TrueUpsOK
<1>5. HoldsOK(new)
  <2> SUFFICES ASSUME NEW s \in Sessions, NEW i \in Ids
               PROVE  /\ Own(new.rows[i], s) + Added(new, s, i) <= UsedBy(s, TurnsOf(s, i))
                      /\ Added(new, s, i) # 0 => i <= new.issued
                              /\ (new.rows[i] # None => MeasuredHold(new.rows[i], s))
    BY DEF HoldsOK
  <2>1. /\ Own(db.rows[i], s) + Added(db, s, i) <= UsedBy(s, TurnsOf(s, i))
        /\ Added(db, s, i) # 0 => i <= db.issued
                              /\ (db.rows[i] # None => MeasuredHold(db.rows[i], s))
    BY DEF DbInv, HoldsOK
  <2>2. CASE new.rows[i] = db.rows[i]
    BY <1>1, <2>1, <2>2
  <2>3. CASE new.rows[i] = None
    <3>1. Own(new.rows[i], s) = 0
      BY <2>3 DEF Own, MeasuredHold, IsLaneRow
    <3>2. Own(db.rows[i], s) \in Nat /\ Added(db, s, i) \in Nat
      <4>1. Added(db, s, i) \in Nat
        BY KeyFacts DEF DbInv, DbTyped, Added
      <4>2. Own(db.rows[i], s) \in Nat
        BY DEF DbInv, DbTyped, TableInv, IsRow, RowsOK, RowOK, Own, MeasuredHold, IsLaneRow
      <4> QED
        BY <4>1, <4>2
    <3>3. UsedBy(s, TurnsOf(s, i)) \in Nat
      BY TurnsOfIn, UsedIs
    <3> QED
      BY <1>1, <2>1, <2>3, <3>1, <3>2, <3>3
  <2> QED
    BY <2>2, <2>3
<1>6. BoundOK(new)
  BY DEF DbInv, BoundOK
<1>7. SettlingOK(new)
  BY DEF DbInv, SettlingOK
<1>8. ExactOK(new, T)
  <2> SUFFICES ASSUME NEW i \in T
               PROVE  /\ i \in Ids /\ i <= new.issued
                      /\ \A s \in Sessions : IsLaneRow(new.rows[i], s, None) =>
                           /\ MeasuredHold(new.rows[i], s)
                           /\ AllComplete(s, i)
                           /\ new.rows[i].settled + Added(new, s, i) = UsedBy(s, TurnsOf(s, i))
    BY DEF ExactOK
  <2>1. i \in Ids /\ i <= db.issued
    BY DEF DbInv, ExactOK
  <2>2. CASE new.rows[i] = None
    BY <2>1, <2>2 DEF IsLaneRow
  <2>3. CASE new.rows[i] = db.rows[i]
    BY <1>1, <2>1, <2>3 DEF DbInv, ExactOK
  <2> QED
    BY <2>1, <2>2, <2>3
<1> QED
  BY <1>2, <1>3, <1>4, <1>5, <1>6, <1>7, <1>8 DEF DbRest

LEMMA LatePrune ==
  ASSUME LateInv, PruneWithFloor
  PROVE  LateInv'
<1>1. PICK p, db, st, T, d : /\ p = MinimumOf(pruning) /\ db = LateTables /\ st = StoppedTurns
                             /\ T = tried /\ d = LateTables'
  OBVIOUS
<1>2. /\ rows' = [i \in Ids |-> IF rows[i] # None /\ rows[i].pool = p THEN None ELSE rows[i]]
      /\ created' = created /\ issued' = issued /\ prompts' = prompts /\ stoppedBy' = stoppedBy
      /\ booked' = booked
  BY <1>1 DEF PruneWithFloor, PruneOnePool, history
<1>3. /\ UNCHANGED lateHost /\ turn' = turn /\ settling' = settling /\ billed' = billed
      /\ tried' = tried
  BY DEF PruneWithFloor, lateHost, lateHistory
<1>4. SbIInv'
  BY PruneOK DEF LateInv, PruneWithFloor
<1>5. PICK m : m = [i \in Ids |-> IF rows[i] # None /\ rows[i].pool = p THEN rows[i] ELSE None]
  OBVIOUS
<1>6. /\ floor' = [f \in Families |-> floor[f] + FamilySum(m, f)]
      /\ gone' = [i \in Ids |-> IF m[i] # None THEN m[i] ELSE gone[i]]
  BY <1>1, <1>5 DEF PruneWithFloor
<1>7. DbInv(db, st, T) /\ TurnTyped
  BY <1>1 DEF LateInv
<1>8. /\ db.rows = rows /\ db.issued = issued /\ db.settling = settling /\ db.billed = billed
      /\ db.created = created
  BY <1>1 DEF LateTables
<1>9. /\ d = [rows |-> d.rows, pools |-> d.pools, created |-> d.created, issued |-> d.issued,
              settling |-> d.settling, billed |-> d.billed]
      /\ d.rows = rows' /\ d.issued = issued /\ d.settling = settling /\ d.billed = billed
      /\ d.created = created
  BY <1>1, <1>2, <1>3 DEF LateTables
<1>10. \A i \in Ids : /\ rows'[i] = IF rows[i] # None /\ rows[i].pool = p THEN None ELSE rows[i]
                      /\ m[i] = IF rows[i] # None /\ rows[i].pool = p THEN rows[i] ELSE None
  BY <1>2, <1>5
<1>11. DbTyped(d)
  <2>1. TableInv(rows', issued)
    BY <1>2, <1>4 DEF SbIInv
  <2> QED
    BY <1>7, <1>8, <1>9, <2>1 DEF DbInv, DbTyped
<1>12. DbRest(d, st, T)
  <2>1. \A i \in Ids : d.rows[i] \in {None, db.rows[i]}
    BY <1>8, <1>9, <1>10
  <2> QED
    BY <1>7, <1>8, <1>9, <1>11, <2>1, RowsGone
<1>13. DbRest(d, st, T)'
  BY <1>2, <1>3, <1>7, <1>12, TurnsStand, RestMoves
<1>14. Conserved(d)'
  <2>1. ChargesNat(rows)
    BY LateFacts DEF ChargesNat, RowOK, IsRow
  <2>2. ASSUME NEW f \in Families
        PROVE  /\ floor'[f] \in Nat /\ FamilySum(rows', f) + floor'[f] = billed[f]
    <3>1. PICK a, b, c, e : /\ a = FamilySum(rows, f) /\ b = FamilySum(rows', f)
                            /\ c = FamilySum(m, f) /\ e = floor[f]
      OBVIOUS
    <3>2. a = b + c /\ b \in Nat /\ c \in Nat
      <4>1. PICK r, u : r = rows /\ u = rows'
        OBVIOUS
      <4>2. SplitRows(r, u, m)
        BY <1>10, <4>1 DEF SplitRows
      <4>3. ChargesNat(r)
        BY <2>1, <4>1
      <4>4. FamilySum(r, f) = FamilySum(u, f) + FamilySum(m, f)
            /\ FamilySum(u, f) \in Nat /\ FamilySum(m, f) \in Nat
        BY <4>2, <4>3, FamilySumSplit
      <4> QED
        BY <3>1, <4>1, <4>4
    <3>3. e \in Nat
      BY <3>1, LateFacts
    <3>4. a + e = billed[f]
      BY <1>7, <1>8, <3>1 DEF DbInv, Conserved, FamilyTotal
    <3>5. floor'[f] = e + c
      BY <1>6, <3>1
    <3>6. b + (e + c) = a + e /\ e + c \in Nat
      BY <3>2, <3>3
    <3> QED
      BY <3>1, <3>4, <3>5, <3>6
  <2>3. floor' \in [Families -> Nat]
    BY <1>6, <2>2
  <2>4. \A f \in Families : FamilyTotal(d.rows, f)' = d.billed[f]
    <3> SUFFICES ASSUME NEW f \in Families
                 PROVE  FamilySum(d.rows, f) + floor'[f] = d.billed[f]
      BY DEF FamilyTotal
    <3> QED
      BY <1>9, <2>2
  <2> QED
    BY <2>3, <2>4 DEF Conserved
<1>16. GoneOK(db, st)
  BY <1>7 DEF DbInv
<1>17. \A i \in Ids : m[i] # None => /\ m[i] = rows[i] /\ rows[i] # None /\ rows'[i] = None
                                     /\ gone'[i] = rows[i] /\ gone[i] = None
  <2>1. \A i \in Ids : m[i] # None => m[i] = rows[i] /\ rows[i] # None /\ rows'[i] = None
    BY <1>10
  <2>2. \A i \in Ids : rows[i] # None => gone[i] = None
    BY <1>8, <1>16 DEF GoneOK, GoneRow
  <2> QED
    BY <1>6, <2>1, <2>2
<1>18. \A i \in Ids : m[i] = None => gone'[i] = gone[i]
  BY <1>6
<1>19. \A s, i : TurnsOf(s, i)' = TurnsOf(s, i) /\ UsedBy(s, TurnsOf(s, i))' = UsedBy(s, TurnsOf(s, i))
  BY <1>2, <1>3 DEF TurnsOf, UsedBy
<1>20. \A s, i : Added(d, s, i) = billed[TrueUpFamily(s, i)] /\ Added(db, s, i) = billed[TrueUpFamily(s, i)]
  BY <1>8, <1>9 DEF Added
<1>21. ASSUME NEW i \in Ids, gone'[i] # None
       PROVE  GoneRow(d, st, i)'
  <2>1. CASE m[i] # None
    <3>1. gone'[i] = rows[i] /\ rows[i] # None /\ rows'[i] = None /\ rows[i] = db.rows[i]
      BY <1>8, <1>17, <2>1
    <3>2. RowOK(rows[i]) /\ IsRow(rows[i]) /\ i <= issued
      <4>1. Ids \subseteq Nat
        BY ConstantFacts
      <4> QED
        BY <3>1, <4>1, LateFacts DEF TableInv
    <3>3. ASSUME NEW s \in Sessions, MeasuredHold(rows[i], s)
          PROVE  rows[i].settled + Added(d, s, i) <= UsedBy(s, TurnsOf(s, i))'
      <4>1. Own(db.rows[i], s) + Added(db, s, i) <= UsedBy(s, TurnsOf(s, i))
        BY <1>7 DEF DbInv, HoldsOK
      <4>2. Own(db.rows[i], s) = rows[i].settled
        BY <3>1, <3>3 DEF Own
      <4> QED
        BY <1>19, <1>20, <4>1, <4>2
    <3>4. ASSUME NEW s \in Sessions, NEW t \in Prompts, rows[i].key = TurnKey(s, t)
          PROVE  /\ <<s, t>> \in st
                 /\ prompts'[<<s, t>>] = None
                 /\ rows[i].usage = "known" => rows[i].settled <= turn'[<<s, t>>].used
                 /\ \A j \in Ids : d.rows[j] # None /\ d.rows[j].key = TurnKey(s, t) => i < j
      <4>1. /\ <<s, t>> \in st
            /\ prompts[<<s, t>>] = None
            /\ rows[i].usage = "known" => rows[i].settled <= turn[<<s, t>>].used
            /\ \A j \in Ids : rows[j] # None /\ rows[j].key = TurnKey(s, t) => j = i
        BY <1>7, <3>1, <3>4, <1>8 DEF DbInv, TurnsOK
      <4>2. \A j \in Ids : rows'[j] # None => rows[j] = rows'[j]
        BY <1>10
      <4>3. \A j \in Ids : ~(rows'[j] # None /\ rows'[j].key = TurnKey(s, t))
        BY <3>1, <4>1, <4>2
      <4> QED
        BY <1>2, <1>3, <1>9, <4>1, <4>3
    <3> QED
      BY <1>9, <3>1, <3>2, <3>3, <3>4 DEF GoneRow
  <2>2. CASE m[i] = None
    <3>1. gone'[i] = gone[i] /\ GoneRow(db, st, i)
      BY <1>16, <1>18, <1>21, <2>2 DEF GoneOK
    <3>2. RowOK(gone[i]) /\ IsRow(gone[i]) /\ i <= issued /\ rows[i] = None /\ rows'[i] = None
      BY <1>8, <1>10, <3>1 DEF GoneRow
    <3>3. \A s \in Sessions : MeasuredHold(gone[i], s) =>
            gone[i].settled + Added(d, s, i) <= UsedBy(s, TurnsOf(s, i))'
      BY <1>19, <1>20, <3>1 DEF GoneRow
    <3>4. ASSUME NEW s \in Sessions, NEW t \in Prompts, gone[i].key = TurnKey(s, t)
          PROVE  /\ <<s, t>> \in st
                 /\ prompts'[<<s, t>>] = None
                 /\ gone[i].usage = "known" => gone[i].settled <= turn'[<<s, t>>].used
                 /\ \A j \in Ids : d.rows[j] # None /\ d.rows[j].key = TurnKey(s, t) => i < j
      <4>1. /\ <<s, t>> \in st
            /\ prompts[<<s, t>>] = None
            /\ gone[i].usage = "known" => gone[i].settled <= turn[<<s, t>>].used
            /\ \A j \in Ids : rows[j] # None /\ rows[j].key = TurnKey(s, t) => i < j
        BY <1>8, <3>1, <3>4 DEF GoneRow
      <4>2. \A j \in Ids : rows'[j] # None => rows[j] = rows'[j]
        BY <1>10
      <4> QED
        BY <1>2, <1>3, <1>9, <4>1, <4>2
    <3> QED
      BY <1>9, <3>1, <3>2, <3>3, <3>4 DEF GoneRow
  <2> QED
    BY <2>1, <2>2
<1>22. ASSUME NEW f \in Families PROVE FamilySum(gone', f) = floor'[f]
  <2>1. PICK g, h : g = gone' /\ h = gone
    OBVIOUS
  <2>2. SplitRows(g, h, m)
    BY <1>17, <1>18, <2>1 DEF SplitRows
  <2>3. ChargesNat(g)
    <3> SUFFICES ASSUME NEW i \in Ids, g[i] # None, g[i].kind = "charge" PROVE g[i].settled \in Nat
      BY DEF ChargesNat
    <3>1. RowOK(g[i]) /\ IsRow(g[i])
      BY <1>21, <2>1 DEF GoneRow
    <3> QED
      BY <3>1 DEF RowOK, IsRow
  <2>4. FamilySum(g, f) = FamilySum(h, f) + FamilySum(m, f)
        /\ FamilySum(h, f) \in Nat /\ FamilySum(m, f) \in Nat
    BY <2>2, <2>3, FamilySumSplit
  <2>5. FamilySum(h, f) = floor[f]
    BY <1>16, <2>1 DEF GoneOK
  <2>6. floor'[f] = floor[f] + FamilySum(m, f)
    BY <1>6
  <2> QED
    BY <2>1, <2>4, <2>5, <2>6
<1>23. GoneOK(d, st)'
  <2>1. \A f \in Families : FamilySum(gone, f)' = floor'[f]
    BY <1>22 DEF FamilySum, ChargesOf
  <2> QED
    BY <1>21, <2>1 DEF GoneOK
<1>15. DbInv(d, st, T)'
  BY <1>13, <1>14, <1>23 DEF DbInv, DbRest
<1> QED
  BY <1>1, <1>2, <1>3, <1>4, <1>15, LateKept

-----------------------------------------------------------------------------
(* The invariant *)

LEMMA LateStart == LsInit => LateInv
<1> SUFFICES ASSUME LsInit PROVE LateInv
  OBVIOUS
<1>1. SbIInv
  BY InitOK DEF LsInit
<1>2. /\ \A i \in Ids : rows[i] = None /\ stoppedBy[i] = None /\ settling[i] = 0
      /\ \A b \in Sessions \X ChargeKeys : booked[b] = 0
      /\ \A b \in Sessions \X Prompts : prompts[b] = None
      /\ tried = {} /\ issued = 0
      /\ created \in [Ids -> 0..MaxTime]
  BY <1>1 DEF LsInit, Init, SbIInv, SbTyped
<1>3. /\ turn = [x \in Turns |-> [used |-> 0, written |-> 0, stopped |-> FALSE, complete |-> FALSE]]
      /\ work = [x \in Subagents |-> [times |-> <<>>, written |-> 0]]
      /\ floor = [f \in Families |-> 0] /\ billed = [f \in Families |-> 0]
      /\ settling = [i \in Ids |-> 0] /\ gone = [i \in Ids |-> None]
  BY DEF LsInit
<1>4. TurnTyped
  BY <1>3 DEF TurnTyped
<1>5. WorkTyped
  BY <1>3 DEF WorkTyped
<1>6. TranscriptNotOverbooked
  <2> SUFFICES ASSUME NEW x \in Subagents
               PROVE  billed[TranscriptFamily(x[1], x[2])] <= Len(work[x].times)
    BY DEF TranscriptNotOverbooked
  <2>1. billed[TranscriptFamily(x[1], x[2])] = 0
    BY <1>3, KeyFacts
  <2>2. work[x].times = <<>> /\ Len(<<>>) = 0
    BY <1>3
  <2> QED
    BY <2>1, <2>2
<1>7. PICK db, st, T : db = LateTables /\ st = StoppedTurns /\ T = tried
  OBVIOUS
<1>8. /\ db.rows = rows /\ db.issued = issued /\ db.settling = settling /\ db.billed = billed
      /\ db.created = created
      /\ db = [rows |-> db.rows, pools |-> db.pools, created |-> db.created, issued |-> db.issued,
               settling |-> db.settling, billed |-> db.billed]
  BY <1>7 DEF LateTables
<1>9. \A i \in Ids : db.rows[i] = None /\ ~(db.settling[i] > 0)
  BY <1>2, <1>8
<1>10. DbTyped(db)
  <2>1. TableInv(db.rows, db.issued) /\ db.issued \in Nat
    BY <1>1, <1>2, <1>8 DEF SbIInv
  <2> QED
    BY <1>2, <1>3, <1>8, <2>1 DEF DbTyped
<1>11. RowsOK(db) /\ TurnsOK(db, st) /\ TrueUpsOK(db) /\ SettlingOK(db)
  BY <1>9 DEF RowsOK, TurnsOK, TrueUpsOK, SettlingOK
<1>12. HoldsOK(db)
  <2> SUFFICES ASSUME NEW s \in Sessions, NEW i \in Ids
               PROVE  Own(db.rows[i], s) + Added(db, s, i) <= UsedBy(s, TurnsOf(s, i))
                      /\ Added(db, s, i) = 0
    BY DEF HoldsOK
  <2>1. Added(db, s, i) = 0
    BY <1>3, <1>8, KeyFacts DEF Added
  <2>2. Own(db.rows[i], s) = 0
    BY <1>9 DEF Own, MeasuredHold, IsLaneRow
  <2>3. UsedBy(s, TurnsOf(s, i)) \in Nat
    BY <1>4, TurnsOfIn, UsedIs
  <2> QED
    BY <2>1, <2>2, <2>3
<1>13. BoundOK(db)
  <2> SUFFICES ASSUME NEW s \in Sessions, NEW t \in Prompts PROVE \A i \in Ids : prompts[<<s, t>>] # i
    BY DEF BoundOK
  <2>1. prompts[<<s, t>>] = None /\ None \notin Ids
    BY <1>2, BudgetAssumption, ConstantFacts
  <2> QED
    BY <2>1
<1>14. Conserved(db)
  <2>1. ASSUME NEW f \in Families PROVE FamilyTotal(db.rows, f) = db.billed[f]
    <3>1. ChargesOf(db.rows, f) = {}
      BY <1>9 DEF ChargesOf
    <3>2. FamilySum(db.rows, f) = 0
      <4>1. ChargesNat(db.rows)
        BY <1>9 DEF ChargesNat
      <4>2. PICK g : g = SettledIn(db.rows)
        OBVIOUS
      <4>3. FamilySum(db.rows, f) = SumOver(g, {}) /\ Ints(g, {})
        BY <3>1, <4>1, <4>2, FamilySumIs
      <4> QED
        BY <4>3, FS_EmptySet, SumIs
    <3>3. floor[f] = 0 /\ db.billed[f] = 0
      BY <1>3, <1>8
    <3> QED
      BY <3>2, <3>3 DEF FamilyTotal
  <2>2. floor \in [Families -> Nat]
    BY <1>3
  <2> QED
    BY <2>1, <2>2 DEF Conserved
<1>15. ExactOK(db, T)
  BY <1>2, <1>7 DEF ExactOK
<1>17. GoneOK(db, st)
  <2>1. \A i \in Ids : gone[i] = None
    BY <1>3
  <2>2. ASSUME NEW f \in Families PROVE FamilySum(gone, f) = floor[f]
    <3>1. ChargesOf(gone, f) = {}
      BY <2>1 DEF ChargesOf
    <3>2. FamilySum(gone, f) = 0
      <4>1. ChargesNat(gone)
        BY <2>1 DEF ChargesNat
      <4>2. PICK g : g = SettledIn(gone)
        OBVIOUS
      <4>3. FamilySum(gone, f) = SumOver(g, {}) /\ Ints(g, {})
        BY <3>1, <4>1, <4>2, FamilySumIs
      <4> QED
        BY <4>3, FS_EmptySet, SumIs
    <3>3. floor[f] = 0
      BY <1>3
    <3> QED
      BY <3>2, <3>3
  <2> QED
    BY <2>1, <2>2 DEF GoneOK
<1>16. DbInv(db, st, T)
  BY <1>10, <1>11, <1>12, <1>13, <1>14, <1>15, <1>17 DEF DbInv
<1> QED
  BY <1>1, <1>2, <1>4, <1>5, <1>6, <1>7, <1>16 DEF LateInv, NothingStopped

LEMMA LateAdmit ==
  ASSUME LateInv, NEW s \in Sessions, NEW t \in Prompts, CodexAdmit(s, t)
  PROVE  LateInv'
<1>1. /\ ~turn[<<s, t>>].stopped /\ AdmitFrame
      /\ AdmitRefused(s, None, t) \/ AdmitRenewed(s, None, t) \/ AdmitGranted(s, None, t, FALSE)
  BY DEF CodexAdmit, AdmitFrame
<1> QED
  BY <1>1, LateRefused, LateRenewed, LateGranted

LEMMA LateStands == LateInv /\ UNCHANGED lsVars => LateInv'
<1> SUFFICES ASSUME LateInv, UNCHANGED lsVars PROVE LateInv'
  OBVIOUS
<1>1. UNCHANGED vars /\ UNCHANGED lateHost /\ floor' = floor /\ gone' = gone /\ settling' = settling
      /\ billed' = billed /\ tried' = tried
  BY DEF lsVars, lateHistory
<1>2. SbIInv' /\ UNCHANGED ledger
  BY <1>1, SbStands DEF LateInv
<1>3. turn' = turn /\ work' = work
  BY <1>1 DEF lateHost
<1>4. TurnTyped' /\ TurnsGrow
  BY <1>3, TurnsStand
<1>5. WorkTyped'
  BY <1>3 DEF LateInv, WorkTyped
<1>6. \A y \in Subagents : Len(work[y].times) <= Len(work'[y].times)
  <2> SUFFICES ASSUME NEW y \in Subagents PROVE Len(work[y].times) <= Len(work[y].times)
    BY <1>3
  <2>1. work[y].times \in Seq(0..MaxTime)
    BY DEF LateInv, WorkTyped
  <2>2. Len(work[y].times) \in Nat
    BY <2>1
  <2> QED
    BY <2>2
<1> QED
  BY <1>1, <1>2, <1>3, <1>4, <1>5, <1>6, LateQuiet

LEMMA LateStep == LateInv /\ [LsNext]_lsVars => LateInv'
<1> SUFFICES ASSUME LateInv, [LsNext]_lsVars PROVE LateInv'
  OBVIOUS
<1>1. CASE \E x \in Turns : TurnResponds(x) \/ RecordWritten(x) \/ TurnCompletes(x)
  BY <1>1, LateTurn
<1>2. CASE \E x \in Subagents : SubagentResponds(x) \/ SubagentWrites(x)
  BY <1>2, LateSubagent
<1>3. CASE \E s \in Sessions, t \in Prompts : CodexAdmit(s, t)
  BY <1>3, LateAdmit
<1>4. CASE \E s \in Sessions, t \in Prompts, r \in Readable, fails \in SUBSET Faults :
             SettleCodexTurn(s, t, r, fails)
  BY <1>4, LateStop
<1>5. CASE \E x \in Subagents, read \in {"priced", "nothing", "problem"} :
             ChargeAgentTranscript(x, read) \/ SweepTranscript(x, read)
  BY <1>5, LateCharge
<1>6. CASE PruneWithFloor
  BY <1>6, LatePrune
<1>7. CASE \/ DaemonRestarts
           \/ /\ (\E d \in Deltas : ClockStep(d)) \/ PruneStart \/ PruneSkip \/ PruneCrash
              /\ UNCHANGED <<lateHost, floor, settling, seen, lateHistory>>
  BY <1>7, LateOther
<1>8. CASE UNCHANGED lsVars
  BY <1>8, LateStands
<1> QED
  BY <1>1, <1>2, <1>3, <1>4, <1>5, <1>6, <1>7, <1>8 DEF LsNext

LEMMA LateInductive == LsSpec => []LateInv
<1>1. LsInit => LateInv
  BY LateStart
<1>2. LateInv /\ [LsNext]_lsVars => LateInv'
  BY LateStep
<1> QED
  BY <1>1, <1>2, PTL DEF LsSpec

-----------------------------------------------------------------------------
(* The theorems about late spend *)

\* The rows ever booked: each is still in the table or was pruned.
LEMMA EverFacts ==
  ASSUME LateInv
  PROVE  /\ \A i \in Ids : Ever[i] # None => RowOK(Ever[i]) /\ IsRow(Ever[i])
         /\ \A i \in Ids : rows[i] # None => Ever[i] = rows[i] /\ gone[i] = None
         /\ \A i \in Ids : rows[i] = None => Ever[i] = gone[i]
         /\ \A i \in Ids : gone[i] # None => GoneRow(LateTables, StoppedTurns, i) /\ rows[i] = None
         /\ \A f \in Families : FamilySum(gone, f) = floor[f]
<1>1. PICK db, st : db = LateTables /\ st = StoppedTurns /\ GoneOK(db, st) /\ db.rows = rows
  BY DEF LateInv, DbInv, LateTables
<1>2. \A i \in Ids : gone[i] # None => /\ GoneRow(db, st, i) /\ rows[i] = None
                                       /\ RowOK(gone[i]) /\ IsRow(gone[i])
  BY <1>1 DEF GoneOK, GoneRow
<1>3. \A i \in Ids : Ever[i] = IF rows[i] # None THEN rows[i] ELSE gone[i]
  BY DEF Ever
<1>4. \A f \in Families : FamilySum(gone, f) = floor[f]
  BY <1>1 DEF GoneOK
<1>5. \A i \in Ids : Ever[i] # None => RowOK(Ever[i]) /\ IsRow(Ever[i])
  BY <1>2, <1>3, LateFacts
<1> QED
  BY <1>1, <1>2, <1>3, <1>4, <1>5

\* A measured row of a session's main lane is a hold, a true-up or a turn's charge.
LEMMA MeasuredRowIs ==
  ASSUME LateInv, NEW s \in Sessions, NEW i \in MeasuredRows(s)
  PROVE  /\ i \in Ids /\ Ever[i] # None /\ Ever[i].settled \in Nat
         /\ \/ Ever[i].kind = "hold" /\ MeasuredHold(Ever[i], s)
            \/ /\ Ever[i].kind = "charge"
               /\ \E j \in Ids, c \in Nat : Ever[i].key = TrueUpKey(s, j, c)
            \/ /\ Ever[i].kind = "charge"
               /\ \E t \in Prompts : Ever[i].key = TurnKey(s, t)
<1>1. /\ i \in Ids /\ Ever[i] # None /\ Ever[i].who.session = s /\ Ever[i].lane = "main"
      /\ Ever[i].usage = "known" /\ IsLaneRow(Ever[i], s, None)
  BY DEF MeasuredRows, IsLaneRow
<1>2. RowOK(Ever[i]) /\ IsRow(Ever[i]) /\ Ever[i].kind \in {"hold", "charge"}
  BY <1>1, EverFacts DEF RowOK, LateRow
<1>3. Ever[i].state = "settled"
  BY <1>1, <1>2 DEF RowOK
<1>4. Ever[i].settled \in Nat
  BY <1>2, <1>3 DEF IsRow
<1>5. CASE Ever[i].kind = "hold"
  BY <1>1, <1>4, <1>5 DEF MeasuredHold
<1>6. CASE Ever[i].kind = "charge"
  <2>1. IsTurnCharge(Ever[i]) \/ IsTrueUp(Ever[i])
    BY <1>1, <1>2, <1>6 DEF RowOK
  <2> QED
    BY <1>1, <1>4, <1>6, <2>1 DEF IsTurnCharge, IsTrueUp
<1> QED
  BY <1>2, <1>5, <1>6

\* A hold with all its true-ups, or any of these rows, is no more than its turns used.
LEMMA HoldGroup ==
  ASSUME LateInv, NEW s \in Sessions, NEW j \in Ids, NEW G \in SUBSET Ids,
         \A i \in G : \/ i = j /\ MeasuredHold(Ever[j], s)
                      \/ i \in ChargesOf(Ever, TrueUpFamily(s, j))
  PROVE  SumOver(SettledIn(Ever), G) <= UsedBy(s, TurnsOf(s, j))
<1>1. PICK f, H, C, D : /\ f = SettledIn(Ever) /\ H = {i \in {j} : MeasuredHold(Ever[j], s)}
                        /\ C = ChargesOf(Ever, TrueUpFamily(s, j)) /\ D = H \cup C
  OBVIOUS
<1>2. ChargesNat(Ever)
  BY EverFacts DEF ChargesNat, RowOK, IsRow
<1>3. /\ FamilySum(Ever, TrueUpFamily(s, j)) = SumOver(f, C) /\ Ints(f, C) /\ Above0(f, C)
      /\ SumOver(f, C) \in Nat
  BY <1>1, <1>2, FamilySumIs
<1>4. SumOver(f, H) = Own(Ever[j], s) /\ Ints(f, H) /\ Above0(f, H) /\ Own(Ever[j], s) \in Nat
  <2>1. CASE MeasuredHold(Ever[j], s)
    <3>1. H = {j}
      BY <1>1, <2>1
    <3>2. Ever[j].settled \in Nat
      <4>1. j \in MeasuredRows(s)
        BY <2>1 DEF MeasuredRows, MeasuredHold
      <4> QED
        BY <4>1, MeasuredRowIs
    <3>3. f[j] = Ever[j].settled
      BY <1>1 DEF SettledIn
    <3>n. PICK v : v = f[j] /\ v \in Nat
      BY <3>2, <3>3
    <3>4. SumOver(f, {j}) = f[j]
      BY <3>n, SumOne
    <3>5. Ints(f, {j}) /\ Above0(f, {j})
      <4>1. IsFiniteSet({j})
        BY FS_Singleton
      <4> QED
        BY <3>n, <4>1 DEF Ints, Above0
    <3> QED
      BY <2>1, <3>1, <3>2, <3>3, <3>4, <3>5 DEF Own
  <2>2. CASE ~MeasuredHold(Ever[j], s)
    <3>1. H = {}
      BY <1>1, <2>2
    <3>2. Ints(f, {}) /\ Above0(f, {})
      BY FS_EmptySet DEF Ints, Above0
    <3>3. SumOver(f, {}) = 0
      BY <3>2, SumIs
    <3> QED
      BY <2>2, <3>1, <3>2, <3>3 DEF Own
  <2> QED
    BY <2>1, <2>2
<1>5. H \cap C = {}
  BY <1>1 DEF MeasuredHold, ChargesOf
<1>6. SumOver(f, D) = SumOver(f, H) + SumOver(f, C) /\ Ints(f, D)
  BY <1>1, <1>3, <1>4, <1>5, SumUnion
<1>7. SumOver(f, G) <= SumOver(f, D) /\ SumOver(f, G) \in Int
  <2>1. G \subseteq D
    BY <1>1
  <2>2. Above0(f, D \ G)
    BY <1>1, <1>3, <1>4 DEF Above0
  <2>3. Ints(f, G)
    BY <1>6, <2>1, FS_Subset DEF Ints
  <2>4. Below(f, f, G)
    BY <2>3 DEF Below, Ints
  <2> QED
    BY <1>6, <2>1, <2>2, <2>3, <2>4, SumSubset, SumIs
<1>8. Own(Ever[j], s) + FamilySum(Ever, TrueUpFamily(s, j)) <= UsedBy(s, TurnsOf(s, j))
  <2>1. PICK db : db = LateTables /\ db.rows = rows /\ DbInv(db, StoppedTurns, tried)
    BY DEF LateInv, LateTables
  <2>2. TrueUpFamily(s, j) \in Families
    BY KeyFacts
  <2>3. FamilySum(Ever, TrueUpFamily(s, j)) = Added(db, s, j)
    <3>1. PICK e, g, u : e = Ever /\ g = gone /\ u = rows
      OBVIOUS
    <3>2. SplitRows(e, u, g)
      BY <3>1, EverFacts DEF SplitRows
    <3>3. FamilySum(e, TrueUpFamily(s, j)) = FamilySum(u, TrueUpFamily(s, j)) + FamilySum(g, TrueUpFamily(s, j))
      BY <1>2, <3>1, <3>2, FamilySumSplit
    <3>4. FamilySum(g, TrueUpFamily(s, j)) = floor[TrueUpFamily(s, j)]
      BY <2>2, <3>1, EverFacts
    <3>5. FamilySum(u, TrueUpFamily(s, j)) + floor[TrueUpFamily(s, j)] = Added(db, s, j)
      BY <2>1, <2>2, <3>1 DEF DbInv, Conserved, FamilyTotal, Added
    <3> QED
      BY <3>1, <3>3, <3>4, <3>5
  <2>4. Own(rows[j], s) + Added(db, s, j) <= UsedBy(s, TurnsOf(s, j))
    BY <2>1 DEF DbInv, HoldsOK
  <2>5. CASE rows[j] # None
    BY <2>3, <2>4, <2>5, EverFacts
  <2>6. CASE rows[j] = None /\ MeasuredHold(gone[j], s)
    <3>1. Ever[j] = gone[j] /\ gone[j] # None
      BY <2>6, EverFacts DEF MeasuredHold, IsLaneRow
    <3>2. gone[j].settled + Added(db, s, j) <= UsedBy(s, TurnsOf(s, j))
      BY <2>1, <2>6, <3>1, EverFacts DEF GoneRow
    <3> QED
      BY <2>3, <2>6, <3>1, <3>2 DEF Own
  <2>7. CASE rows[j] = None /\ ~MeasuredHold(gone[j], s)
    <3>1. Ever[j] = gone[j]
      BY <2>7, EverFacts
    <3>2. Own(Ever[j], s) = 0 /\ Own(rows[j], s) = 0
      BY <2>7, <3>1 DEF Own, MeasuredHold, IsLaneRow
    <3> QED
      BY <2>3, <2>4, <3>2
  <2> QED
    BY <2>5, <2>6, <2>7
<1>9. UsedBy(s, TurnsOf(s, j)) \in Nat
  BY TurnsOfIn, UsedIs DEF LateInv
<1>10. SumOver(f, D) = Own(Ever[j], s) + FamilySum(Ever, TrueUpFamily(s, j)) /\ SumOver(f, D) \in Int
  BY <1>3, <1>4, <1>6
<1> QED
  BY <1>1, <1>7, <1>8, <1>9, <1>10

\* The measured rows fall into groups, each with turns of its own: a hold and its
\* true-ups stand for the hold's turns, a turn's charge for that turn.
LEMMA SessionNotOverbooked ==
  ASSUME LateInv, NEW s \in Sessions
  PROVE  SumFunction([i \in {j \in MeasuredRows(s) : ~ChargedAgain(j)} |-> Ever[i].settled])
           <= UsedBy(s, Prompts)
<1> DEFINE S == {j \in MeasuredRows(s) : ~ChargedAgain(j)}
           T == ({0} \X Ids) \cup ({1} \X Prompts)
           o == [i \in S |-> IF Ever[i].kind = "hold" THEN <<0, i>>
                             ELSE IF Ever[i].key.tag = "trueup" THEN <<0, Ever[i].key.a>>
                             ELSE <<1, Ever[i].key.b>>]
           q == [t \in Prompts |-> IF prompts[<<s, t>>] # None THEN <<0, prompts[<<s, t>>]>>
                                   ELSE <<1, t>>]
           f == SettledIn(Ever)
           g == UsedIn(s)
<1>1. S \in SUBSET Ids /\ \A i \in S : Ever[i].settled \in Nat
  BY MeasuredRowIs DEF MeasuredRows
<1>2. /\ SumFunction([i \in S |-> Ever[i].settled]) = SumOver(f, S)
      /\ Ints(f, S) /\ Above0(f, S)
  <2>1. PICK r, R : r = Ever /\ R = S
    OBVIOUS
  <2>2. /\ SumFunction([i \in R |-> r[i].settled]) = SumOver(SettledIn(r), R)
        /\ Ints(SettledIn(r), R) /\ Above0(SettledIn(r), R)
    BY <1>1, <2>1, ColumnSum
  <2> QED
    BY <2>1, <2>2
<1>3. UsedBy(s, Prompts) = SumOver(g, Prompts) /\ Ints(g, Prompts) /\ Above0(g, Prompts)
  BY UsedIs DEF LateInv
<1>4. IsFiniteSet(T)
  <2>0. IsFiniteSet({0}) /\ IsFiniteSet({1})
    BY FS_Singleton
  <2>1. IsFiniteSet(Ids) /\ IsFiniteSet(Prompts)
    BY ConstantFacts, FS_Interval, LateSpendAssumption
  <2>2. IsFiniteSet({0} \X Ids) /\ IsFiniteSet({1} \X Prompts)
    BY <2>0, <2>1, FS_Product
  <2> QED
    BY <2>2, FS_Union
<1>5. \A i \in S :
        \/ MeasuredHold(Ever[i], s) /\ o[i] = <<0, i>>
        \/ \E j \in Ids, c \in Nat : /\ Ever[i].kind = "charge" /\ Ever[i].key = TrueUpKey(s, j, c)
                                     /\ o[i] = <<0, j>>
        \/ \E t \in Prompts : /\ Ever[i].kind = "charge" /\ Ever[i].key = TurnKey(s, t)
                              /\ o[i] = <<1, t>>
  <2> SUFFICES ASSUME NEW i \in S
               PROVE  \/ MeasuredHold(Ever[i], s) /\ o[i] = <<0, i>>
                      \/ \E j \in Ids, c \in Nat :
                           /\ Ever[i].kind = "charge" /\ Ever[i].key = TrueUpKey(s, j, c)
                           /\ o[i] = <<0, j>>
                      \/ \E t \in Prompts : /\ Ever[i].kind = "charge" /\ Ever[i].key = TurnKey(s, t)
                                            /\ o[i] = <<1, t>>
    OBVIOUS
  <2>1. CASE Ever[i].kind = "hold" /\ MeasuredHold(Ever[i], s)
    BY <2>1
  <2>2. ASSUME Ever[i].kind = "charge", NEW j \in Ids, NEW c \in Nat, Ever[i].key = TrueUpKey(s, j, c)
        PROVE  o[i] = <<0, j>>
    <3>1. Ever[i].key.tag = "trueup" /\ Ever[i].key.a = j
      BY <2>2 DEF TrueUpKey
    <3> QED
      BY <2>2, <3>1
  <2>3. ASSUME Ever[i].kind = "charge", NEW t \in Prompts, Ever[i].key = TurnKey(s, t)
        PROVE  o[i] = <<1, t>>
    <3>1. Ever[i].key.tag = "turn" /\ Ever[i].key.b = t
      BY <2>3 DEF TurnKey
    <3> QED
      BY <2>3, <3>1
  <2> HIDE DEF o
  <2> QED
    BY <2>1, <2>2, <2>3, MeasuredRowIs
<1>6. prompts \in [Sessions \X Prompts -> Opts(Ids)]
  BY DEF LateInv, SbIInv, SbTyped
<1>7. \A t \in Prompts : q[t] \in T
  <2> SUFFICES ASSUME NEW t \in Prompts PROVE q[t] \in T
    OBVIOUS
  <2>1. prompts[<<s, t>>] \in Ids \/ prompts[<<s, t>>] = None
    BY <1>6 DEF Opts
  <2> QED
    BY <2>1
<1>8. \A j \in Ids : Group(q, Prompts, <<0, j>>) = TurnsOf(s, j)
  <2> SUFFICES ASSUME NEW j \in Ids, NEW t \in Prompts
               PROVE  q[t] = <<0, j>> <=> prompts[<<s, t>>] = j
    BY DEF Group, TurnsOf
  <2>1. j # None
    BY BudgetAssumption, ConstantFacts
  <2>2. CASE prompts[<<s, t>>] # None
    BY <2>2
  <2>3. CASE prompts[<<s, t>>] = None
    BY <2>1, <2>3
  <2> QED
    BY <2>2, <2>3
<1>9. \A t \in Prompts : prompts[<<s, t>>] = None => Group(q, Prompts, <<1, t>>) = {t}
  BY DEF Group
<1> HIDE DEF o, q, S, f, g
<1>10. \A i \in S : o[i] \in T
  <2>1. /\ \A j \in Ids : <<0, j>> \in T
        /\ \A t \in Prompts : <<1, t>> \in T
    OBVIOUS
  <2> HIDE DEF T
  <2> QED
    BY <1>1, <1>5, <2>1
<1>11. ASSUME NEW j \in Ids
       PROVE  SumOver(f, Group(o, S, <<0, j>>)) <= SumOver(g, Group(q, Prompts, <<0, j>>))
  <2>1. PICK G : G = Group(o, S, <<0, j>>)
    OBVIOUS
  <2>2. \A i \in G : i \in S /\ i \in Ids /\ o[i] = <<0, j>>
    BY <1>1, <2>1 DEF Group
  <2>3. ASSUME NEW i \in G
        PROVE  \/ i = j /\ MeasuredHold(Ever[j], s)
               \/ i \in ChargesOf(Ever, TrueUpFamily(s, j))
    <3>1. CASE MeasuredHold(Ever[i], s) /\ o[i] = <<0, i>>
      BY <2>2, <3>1
    <3>2. ASSUME NEW k \in Ids, NEW c \in Nat, Ever[i].kind = "charge",
                 Ever[i].key = TrueUpKey(s, k, c), o[i] = <<0, k>>
          PROVE  i \in ChargesOf(Ever, TrueUpFamily(s, j))
      <4>1. k = j
        BY <2>2, <3>2
      <4>2. FamilyOf(Ever[i].key) = TrueUpFamily(s, j)
        BY <3>2, <4>1, KeyFacts
      <4>3. Ever[i] # None
        BY <2>2, MeasuredRowIs DEF S
      <4> QED
        BY <2>2, <3>2, <4>2, <4>3 DEF ChargesOf
    <3>3. \A t : o[i] # <<1, t>>
      BY <2>2
    <3> QED
      BY <1>5, <2>2, <3>1, <3>2, <3>3
  <2>4. SumOver(f, G) <= UsedBy(s, TurnsOf(s, j))
    BY <2>2, <2>3, HoldGroup DEF f
  <2>5. UsedBy(s, TurnsOf(s, j)) = SumOver(g, TurnsOf(s, j))
    BY TurnsOfIn, UsedIs DEF LateInv, g
  <2> QED
    BY <1>8, <2>1, <2>4, <2>5
<1>12. ASSUME NEW t \in Prompts
       PROVE  SumOver(f, Group(o, S, <<1, t>>)) <= SumOver(g, Group(q, Prompts, <<1, t>>))
  <2>1. PICK G, R : G = Group(o, S, <<1, t>>) /\ R = Group(q, Prompts, <<1, t>>)
    OBVIOUS
  <2>2. ASSUME NEW i \in G
        PROVE  i \in Ids /\ i \in S /\ Ever[i] # None /\ Ever[i].key = TurnKey(s, t)
    <3>1. i \in S /\ i \in Ids /\ o[i] = <<1, t>>
      BY <1>1, <2>1 DEF Group
    <3>2. Ever[i] # None
      BY <3>1, MeasuredRowIs DEF S
    <3>3. \A j : o[i] # <<0, j>>
      BY <3>1
    <3>4. PICK u \in Prompts : Ever[i].key = TurnKey(s, u) /\ o[i] = <<1, u>>
      BY <1>5, <3>1, <3>3
    <3>5. u = t
      BY <3>1, <3>4
    <3> QED
      BY <3>1, <3>2, <3>4, <3>5
  <2>3. CASE G = {}
    <3>1. SumOver(f, G) = 0
      <4>1. Ints(f, {})
        BY FS_EmptySet DEF Ints
      <4> QED
        BY <2>3, <4>1, SumIs
    <3>2. R \subseteq Prompts
      BY <2>1 DEF Group
    <3>3. Ints(g, R) /\ Above0(g, R)
      BY <1>3, <3>2, FS_Subset DEF Ints, Above0
    <3>4. SumOver(g, R) \in Nat
      BY <3>3, SumPositive
    <3> QED
      BY <2>1, <3>1, <3>4
  <2>4. CASE G # {}
    <3>1. PICK i : i \in G
      BY <2>4
    <3>2. i \in Ids /\ Ever[i] # None /\ Ever[i].key = TurnKey(s, t) /\ Ever[i].usage = "known"
          /\ Ever[i].settled \in Nat
      BY <2>2, <3>1, MeasuredRowIs DEF S, MeasuredRows
    <3>d. PICK db, st : /\ db = LateTables /\ st = StoppedTurns /\ db.rows = rows
                        /\ DbInv(db, st, tried)
      BY DEF LateInv, LateTables
    <3>3. /\ prompts[<<s, t>>] = None
          /\ Ever[i].settled <= turn[<<s, t>>].used
      <4>1. CASE rows[i] # None
        BY <3>2, <3>d, <4>1, EverFacts DEF DbInv, TurnsOK
      <4>2. CASE rows[i] = None
        <5>1. Ever[i] = gone[i] /\ gone[i] # None
          BY <3>2, <4>2, EverFacts
        <5>2. GoneRow(db, st, i)
          BY <3>2, <3>d, <5>1, EverFacts
        <5> QED
          BY <3>2, <5>1, <5>2 DEF GoneRow
      <4> QED
        BY <4>1, <4>2
    <3>a. Ids \subseteq Nat
      BY ConstantFacts
    <3>o. ASSUME NEW k \in G, NEW l \in G PROVE ~(k < l)
      <4> SUFFICES ASSUME k < l PROVE FALSE
        OBVIOUS
      <4>1. /\ k \in Ids /\ Ever[k] # None /\ Ever[k].key = TurnKey(s, t)
            /\ l \in Ids /\ Ever[l] # None /\ Ever[l].key = TurnKey(s, t)
            /\ ~ChargedAgain(k)
        BY <2>2 DEF S
      <4>2. CASE gone[k] # None
        <5>1. Ever[k] = gone[k] /\ gone[k].key = TurnKey(s, t) /\ gone[k].key.tag = "turn"
          BY <4>1, <4>2, EverFacts DEF TurnKey
        <5> QED
          BY <4>1, <4>2, <5>1 DEF ChargedAgain
      <4>3. CASE rows[k] # None /\ rows[l] # None
        <5>1. rows[k].key = TurnKey(s, t) /\ rows[l].key = TurnKey(s, t)
          BY <4>1, <4>3, EverFacts
        <5>2. k = l
          BY <3>d, <4>1, <4>3, <5>1 DEF DbInv, TurnsOK
        <5> QED
          BY <3>a, <4>1, <5>2
      <4>4. CASE rows[k] # None /\ gone[l] # None
        <5>1. rows[k].key = TurnKey(s, t) /\ gone[l].key = TurnKey(s, t)
          BY <4>1, <4>4, EverFacts
        <5>2. GoneRow(db, st, l)
          BY <3>d, <4>1, <4>4, EverFacts
        <5>3. l < k
          BY <3>d, <4>1, <4>4, <5>1, <5>2 DEF GoneRow
        <5> QED
          BY <3>a, <4>1, <5>3
      <4> QED
        BY <4>1, <4>2, <4>3, <4>4, EverFacts
    <3>4. G = {i}
      <4>1. \A k \in G : k = i
        <5> SUFFICES ASSUME NEW k \in G PROVE k = i
          OBVIOUS
        <5>1. ~(k < i) /\ ~(i < k)
          BY <3>1, <3>o
        <5>2. k \in Nat /\ i \in Nat
          BY <2>2, <3>1, <3>a
        <5> QED
          BY <5>1, <5>2
      <4> QED
        BY <3>1, <4>1
    <3>5. R = {t}
      BY <1>9, <2>1, <3>3
    <3>6. f[i] = Ever[i].settled /\ g[t] = turn[<<s, t>>].used
      BY <3>2 DEF f, g, SettledIn, UsedIn
    <3>u. turn[<<s, t>>].used \in Nat
      BY DEF LateInv, TurnTyped, Turns
    <3>7. PICK v, w : v = f[i] /\ w = g[t] /\ v \in Nat /\ w \in Nat /\ v <= w
      BY <3>2, <3>3, <3>6, <3>u
    <3>8. SumOver(f, {i}) = v /\ SumOver(g, {t}) = w
      <4>1. v \in Int /\ w \in Int
        BY <3>7
      <4> QED
        BY <3>7, <4>1, SumOne
    <3> QED
      BY <2>1, <3>4, <3>5, <3>7, <3>8
  <2> QED
    BY <2>3, <2>4
<1>13. \A y \in T : SumOver(f, Group(o, S, y)) <= SumOver(g, Group(q, Prompts, y))
  BY <1>11, <1>12
<1>14. SumOver(f, S) <= SumOver(g, Prompts)
  <2> HIDE DEF T
  <2> QED
    BY <1>2, <1>3, <1>4, <1>7, <1>10, <1>13, GroupsCompare
<1> QED
  BY <1>2, <1>3, <1>14 DEF S

\* A hold that a Stop measured again, in full, stands for what its turns used
\* (trueup_codex_hold), whatever Stops repeat, fail in part or are lost, turns join
\* a hold, and months are pruned in between.
THEOREM TrueUpExact == LsSpec => []TrueUpIsExact
<1>1. LateInv => TrueUpIsExact
  <2> SUFFICES ASSUME LateInv, NEW s \in Sessions, NEW i \in tried, IsLaneRow(rows[i], s, None)
               PROVE  BookedFor(s, i) = UsedBy(s, TurnsOf(s, i))
    BY DEF TrueUpIsExact
  <2>1. PICK db : db = LateTables /\ db.rows = rows /\ DbInv(db, StoppedTurns, tried)
    BY DEF LateInv, LateTables
  <2>2. i \in Ids /\ rows[i].settled + Added(db, s, i) = UsedBy(s, TurnsOf(s, i))
    BY <2>1 DEF DbInv, ExactOK
  <2>3. FamilyTotal(rows, TrueUpFamily(s, i)) = Added(db, s, i)
    BY <2>1, <2>2, KeyFacts DEF DbInv, Conserved, Added
  <2> QED
    BY <2>2, <2>3 DEF BookedFor
<1> QED
  BY <1>1, LateInductive, PTL

\* Spend that is read from a file the host is still writing is booked once: all the
\* measured rows ever booked for a Codex session (settle_codex_turn), the pruned ones
\* among them, sum to no more than its turns used, but for an unadmitted turn charged
\* again after its month was pruned; and a subagent (charge_agent_transcript) is
\* billed no more than it used, or once the flat amount.
THEOREM LateSpendBookedOnce == LsSpec => []LateSpendNotOverbooked
<1>1. LateInv => LateSpendNotOverbooked
  BY SessionNotOverbooked DEF LateSpendNotOverbooked, CodexNotOverbooked, LateInv
<1> QED
  BY <1>1, LateInductive, PTL
=============================================================================
