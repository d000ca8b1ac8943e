---------------------------- MODULE Reservation ----------------------------
(***************************************************************************)
(* The per-task reservation ledger (crates/ledger/src/reservation.rs and   *)
(* domain/src/reservation.rs): a task's budget with its protected          *)
(* Completion Reserve, and the reservations held against it.  Each         *)
(* operation is one BEGIN IMMEDIATE transaction and one action; the        *)
(* daemon's handlers and the gateway's request threads call them in any    *)
(* order.  Refused calls and replays of a key change nothing.              *)
(*                                                                         *)
(* Amounts are whole units of the task's resource kind.  The account       *)
(* tree and renewals, which have no production caller, are AccountTree's.  *)
(***************************************************************************)
EXTENDS Sums

CONSTANTS
  Tasks,        \* task ids
  Plans,        \* plan ids
  Keys,         \* idempotency keys
  Policies,     \* [limit, ceiling]: hard ceiling; turn ceiling of a turn-scoped budget
  Amounts,      \* amounts callers reserve and settle at
  Reserves,     \* completion reserves estimates ask for
  TTLs,
  None,
  MaxRows,      \* bound: reservation rows ever inserted
  MaxTime       \* bound: the clock

Opt(S) == S \cup {None}
Ids == 1..MaxRows
Classes == {"required", "optional"}
MinOf(a, b) == IF a <= b THEN a ELSE b
MaxOf(a, b) == IF a >= b THEN a ELSE b

ASSUME ReservationAssumption ==
  /\ Policies \subseteq [limit: Nat, ceiling: Opt(Nat)]
  /\ Amounts \subseteq Nat /\ Reserves \subseteq Nat /\ TTLs \subseteq Nat
  /\ MaxRows \in Nat /\ MaxTime \in Nat
  /\ None \notin Nat \cup Plans \cup Keys \cup Tasks

Budget == [limit: Nat, ceiling: Opt(Nat), reserve: Nat]
Row ==
  [task: Tasks, plan: Opt(Plans), key: Keys, amount: Nat, drawn: Nat,
   state: {"active", "settled", "released", "expired"},
   settled: Opt(Nat), expiresAt: Nat,
   late: BOOLEAN]   \* settled_after_expiry

ASSUME RowAssumption == None \notin Row \cup Budget

VARIABLES
  now,
  budgets,      \* task_budgets
  rows,         \* reservations
  issued,       \* rows ever inserted
  floor         \* history: each task's reserve as initialised and adjusted

vars == <<now, budgets, rows, issued, floor>>

Init ==
  /\ now = 0
  /\ budgets = [t \in Tasks |-> None]
  /\ rows = [i \in Ids |-> None]
  /\ issued = 0
  /\ floor = [t \in Tasks |-> 0]

-----------------------------------------------------------------------------
Sum(f) == SumOf(f, MaxRows)

Of(t, state) == {i \in Ids : rows[i] # None /\ rows[i].task = t /\ rows[i].state = state}
SettledSum(t) == Sum([i \in Ids |-> IF i \in Of(t, "settled") THEN rows[i].settled ELSE 0])
ActiveSum(t) == Sum([i \in Ids |-> IF i \in Of(t, "active") THEN rows[i].amount ELSE 0])

\* gate_headroom: a turn-scoped budget does not count settled spend.
GateHeadroom(t) ==
  IF budgets[t].ceiling # None THEN budgets[t].ceiling - ActiveSum(t)
  ELSE budgets[t].limit - SettledSum(t) - ActiveSum(t)

Tick ==
  /\ now < MaxTime
  /\ now' = now + 1
  /\ UNCHANGED <<budgets, rows, issued, floor>>

\* completion_reserve_for clamps what the estimate asks for to the hard ceiling.
ReserveFor(estimate, policy) == MinOf(estimate, policy.limit)

\* ON CONFLICT DO NOTHING: a task's first budget stays.
InitializeTaskBudget(t, policy, estimate) ==
  /\ budgets[t] = None
  /\ budgets' = [budgets EXCEPT ![t] =
       [limit |-> policy.limit, ceiling |-> policy.ceiling, reserve |-> ReserveFor(estimate, policy)]]
  /\ floor' = [floor EXCEPT ![t] = ReserveFor(estimate, policy)]
  /\ UNCHANGED <<now, rows, issued>>

\* Required work may go below the reserve; what it takes from it is its draw.
DrawOf(t, class, amount) ==
  LET optional == GateHeadroom(t) - budgets[t].reserve IN
  IF class = "required" THEN MaxOf(amount - optional, 0) ELSE 0

Admits(t, class, amount) ==
  amount <= IF class = "required" THEN GateHeadroom(t) ELSE GateHeadroom(t) - budgets[t].reserve

Reserve(t, plan, class, amount, key, ttl) ==
  /\ \A i \in Ids : rows[i] # None /\ rows[i].task = t => rows[i].key # key
  /\ budgets[t] # None
  /\ Admits(t, class, amount)
  /\ issued < MaxRows
  /\ issued' = issued + 1
  /\ budgets' = [budgets EXCEPT ![t].reserve = @ - DrawOf(t, class, amount)]
  /\ rows' = [rows EXCEPT ![issued + 1] =
       [task |-> t, plan |-> plan, key |-> key, amount |-> amount,
        drawn |-> DrawOf(t, class, amount), state |-> "active", settled |-> None,
        expiresAt |-> now + ttl, late |-> FALSE]]
  /\ UNCHANGED <<now, floor>>

\* What a settlement gives back to the reserve: the unspent part of the draw.
RestoreOnSettle(row, value) ==
  IF row.state = "expired" THEN 0 ELSE MinOf(MaxOf(row.amount - value, 0), row.drawn)

\* actual = None settles at the reserved amount.
Settle(i, actual) ==
  LET value == IF actual = None THEN rows[i].amount ELSE actual IN
  /\ rows[i] # None
  /\ rows[i].state \in {"active", "expired"}
  /\ budgets' = [budgets EXCEPT ![rows[i].task].reserve = @ + RestoreOnSettle(rows[i], value)]
  /\ rows' = [rows EXCEPT ![i] =
       [@ EXCEPT !.state = "settled", !.settled = value, !.late = (rows[i].state = "expired")]]
  /\ UNCHANGED <<now, issued, floor>>

\* The rows S of all tasks leave the active state and give their draws back.
Ended(S, state) ==
  /\ rows' = [i \in Ids |-> IF i \in S THEN [rows[i] EXCEPT !.state = state] ELSE rows[i]]
  /\ budgets' = [t \in Tasks |->
       IF budgets[t] = None THEN None
       ELSE [budgets[t] EXCEPT !.reserve =
               @ + Sum([i \in Ids |-> IF i \in S /\ rows[i].task = t THEN rows[i].drawn ELSE 0])]]
  /\ UNCHANGED <<now, issued, floor>>

Release(i) ==
  /\ rows[i] # None
  /\ rows[i].state = "active"
  /\ Ended({i}, "released")

\* A replan supersedes a plan: its unspent envelope is refunded.
ReleaseActiveForPlan(t, plan) ==
  Ended({i \in Of(t, "active") : rows[i].plan = plan}, "released")

Stale == {i \in Ids : rows[i] # None /\ rows[i].state = "active" /\ rows[i].expiresAt <= now}

ExpireStaleReservations == Ended(Stale, "expired")

\* Lowering is always allowed, raising only into uncommitted headroom.
Adjustable(t, target) ==
  target > budgets[t].reserve =>
    target - budgets[t].reserve <= GateHeadroom(t) - budgets[t].reserve

AdjustCompletionReserve(t, estimate) ==
  /\ budgets[t] # None
  /\ Adjustable(t, estimate)
  /\ budgets' = [budgets EXCEPT ![t].reserve = estimate]
  /\ floor' = [floor EXCEPT ![t] = @ + estimate - budgets[t].reserve]
  /\ UNCHANGED <<now, rows, issued>>

Next ==
  \/ Tick
  \/ \E t \in Tasks :
       \/ \E policy \in Policies, e \in Reserves : InitializeTaskBudget(t, policy, e)
       \/ \E plan \in Opt(Plans), c \in Classes, a \in Amounts, k \in Keys, ttl \in TTLs :
            Reserve(t, plan, c, a, k, ttl)
       \/ \E plan \in Plans : ReleaseActiveForPlan(t, plan)
       \/ \E e \in Reserves : AdjustCompletionReserve(t, e)
  \/ \E i \in Ids : Release(i) \/ \E a \in Opt(Amounts) : Settle(i, a)
  \/ ExpireStaleReservations

Spec == Init /\ [][Next]_vars
-----------------------------------------------------------------------------
\* Every table is well typed; in particular no sequence of draws, restores and
\* adjustments makes a completion reserve negative, which the schema's CHECK
\* (completion_reserve >= 0) would turn into a failed transaction.
TypeOK ==
  /\ now \in Nat
  /\ budgets \in [Tasks -> Opt(Budget)]
  /\ rows \in [Ids -> Opt(Row)]
  /\ \A i \in Ids : rows[i] # None =>
       budgets[rows[i].task] # None /\ (rows[i].state = "settled" => rows[i].settled # None)
  /\ issued \in 0..MaxRows
  /\ floor \in [Tasks -> Int]

\* Reservation::outstanding_draw, from the row's state alone.
OutstandingDraw(row) ==
  CASE row.state = "active"  -> row.drawn
    [] row.state = "settled" -> MaxOf(row.drawn - MaxOf(row.amount - row.settled, 0), 0)
    [] OTHER                 -> 0

\* What is really outstanding: nothing once the expiry has restored the draw.
TrueDraw(row) == IF row.late THEN 0 ELSE OutstandingDraw(row)

TaskSum(t, Part(_)) ==
  Sum([i \in Ids |-> IF rows[i] # None /\ rows[i].task = t THEN Part(rows[i]) ELSE 0])

\* The reserve never leaks: whatever mix of settlements, releases, replans,
\* expiries and late settlements ended the reservations that drew on it, the
\* reserve and the draws still outstanding add up to what it was set to.
ReserveConserved ==
  \A t \in Tasks : budgets[t] # None =>
    budgets[t].reserve + TaskSum(t, TrueDraw) = floor[t]

\* The capacity a reservation was granted and still occupies.
HeldOf(row) ==
  CASE row.state = "active"               -> row.amount
    [] row.state = "settled" /\ ~row.late -> MinOf(row.settled, row.amount)
    [] OTHER                              -> 0
=============================================================================
