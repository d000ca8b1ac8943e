---------------------------- MODULE AccountTree ----------------------------
(***************************************************************************)
(* The resource-account tree over the task ledger                          *)
(* (crates/ledger/src/resource_account.rs) and the renewals of a task's    *)
(* budget (renewal.rs).                                                    *)
(*                                                                         *)
(* A task's account has the task's budget.  A session or agent account has *)
(* what a funding lease, a row of the same reservations table, carves out  *)
(* of its parent.  Each call is one transaction and one action.  No        *)
(* production code makes subleases or renewals at this commit; the ledger  *)
(* honours both wherever it reads.                                         *)
(*                                                                         *)
(* budgets[t].limit is the effective limit, hard_limit plus renewals.      *)
(* What a renewal asks of the contract's revision, of attested outcomes    *)
(* and of the upstream quota are inputs: the action is one they allow.     *)
(***************************************************************************)
EXTENDS Reservation, FiniteSets

CONSTANTS
  Children,          \* session and agent accounts, by their natural keys
  ParentOf,          \* the account each is provisioned under
  Payers,            \* the accounts callers fund each from
  RenewalAmounts, MaxRenewals, LifetimeCeiling    \* RenewalBound

Accounts == Tasks \cup Children

\* capacity None: no grant; funding: the lease that grants it.
Account ==
  [task: Tasks, capacity: Opt(Nat), funding: Opt(Ids), state: {"open", "expired"}]
Lease == [account: Accounts, grants: Opt(Children)]

ASSUME TreeAssumption ==
  /\ ParentOf \in [Children -> Accounts] /\ Payers \in [Children -> SUBSET Accounts]
  /\ Tasks \cap Children = {} /\ None \notin Children \cup Account
  /\ RenewalAmounts \subseteq Nat /\ MaxRenewals \in Nat /\ LifetimeCeiling \in Nat

VARIABLES
  accounts,    \* resource_accounts below the task level
  lease,       \* account_id and grants_account_id of each reservation
  hard,        \* task_budgets.hard_limit
  renewals,    \* task_budget_renewals
  under        \* history: the lease that funded the payer when a lease was granted

atVars == <<vars, accounts, lease, hard, renewals, under>>

AtInit ==
  /\ Init
  /\ accounts = [c \in Children |-> None]
  /\ lease = [i \in Ids |-> None]
  /\ hard = [t \in Tasks |-> 0]
  /\ renewals = {}
  /\ under = [i \in Ids |-> None]
-----------------------------------------------------------------------------
\* resource_accounts.task_id.
TaskOf(a) == IF a \in Tasks THEN a ELSE accounts[a].task

Exists(a) == IF a \in Tasks THEN budgets[a] # None ELSE accounts[a] # None

Against(a, state) ==
  {i \in Ids : rows[i] # None /\ lease[i].account = a /\ rows[i].state = state}
ActiveAgainst(a) == Sum([i \in Ids |-> IF i \in Against(a, "active") THEN rows[i].amount ELSE 0])
SettledAgainst(a) == Sum([i \in Ids |-> IF i \in Against(a, "settled") THEN rows[i].settled ELSE 0])

\* Mutant: a child account is joined with its task's limit.
CapacityOfTask(a) == hard[TaskOf(a)]

\* v_account_capacity: a task's own numbers, a child's grant; None: no grant.
Capacity(a) == IF a \in Tasks THEN hard[a] ELSE accounts[a].capacity
Protected(a) == IF a \in Tasks THEN budgets[a].reserve ELSE 0

\* An account without a grant is not limited.
Affords(a, amount) ==
  Capacity(a) # None =>
    amount <= Capacity(a) - ActiveAgainst(a) - SettledAgainst(a) - Protected(a)

\* Mutant: a lease may outlive the one that funds its account.
WithinFundingNever(a, at) == TRUE

\* A lease does not outlive the one that funds its account.
WithinFunding(a, at) ==
  a \in Children /\ accounts[a].funding # None => at <= rows[accounts[a].funding].expiresAt

EnsureChildAccount(c) ==
  /\ Exists(ParentOf[c])
  /\ accounts[c] = None
  /\ accounts' = [accounts EXCEPT ![c] =
       [task |-> TaskOf(ParentOf[c]), capacity |-> None, funding |-> None, state |-> "open"]]
  /\ UNCHANGED <<vars, lease, hard, renewals, under>>

\* grant_sublease: one more lease on the payer, which is from now on the child's
\* capacity, whatever funded the child before and whatever it has handed out.  The
\* caller names both accounts; neither has to be the other's parent, and a payer
\* that nothing funds is not limited.
GrantSublease(a, c, amount, key, ttl) ==
  /\ Exists(a) /\ accounts[c] # None
  /\ \A i \in Ids : rows[i] # None /\ lease[i].account = a => rows[i].key # key
  /\ a \in Children => accounts[a].state = "open"
  /\ WithinFunding(a, now + ttl)
  /\ Affords(a, amount)
  /\ issued < MaxRows
  /\ issued' = issued + 1
  /\ rows' = [rows EXCEPT ![issued + 1] =
       [task |-> TaskOf(a), plan |-> None, key |-> key, amount |-> amount, drawn |-> 0,
        state |-> "active", settled |-> None, expiresAt |-> now + ttl, late |-> FALSE]]
  /\ lease' = [lease EXCEPT ![issued + 1] = [account |-> a, grants |-> c]]
  /\ accounts' = [accounts EXCEPT ![c].capacity = amount, ![c].funding = issued + 1]
  /\ under' = [under EXCEPT ![issued + 1] = IF a \in Children THEN accounts[a].funding ELSE None]
  /\ UNCHANGED <<now, budgets, floor, hard, renewals>>

\* grant_renewal, once per key and within its bounds.
GrantRenewal(t, key, amount) ==
  /\ budgets[t] # None
  /\ \A r \in renewals : r.task = t => r.key # key
  /\ Cardinality({r \in renewals : r.task = t}) < MaxRenewals
  /\ amount <= hard[t]
  /\ budgets[t].limit + amount <= LifetimeCeiling
  /\ renewals' = renewals \cup {[task |-> t, key |-> key, amount |-> amount]}
  /\ budgets' = [budgets EXCEPT ![t].limit = @ + amount]
  /\ UNCHANGED <<now, rows, issued, floor, accounts, lease, hard, under>>
-----------------------------------------------------------------------------
\* The task ledger's own operations, on rows that now carry an account.

AtInitializeTaskBudget(t, policy, estimate) ==
  /\ InitializeTaskBudget(t, policy, estimate)
  /\ hard' = [hard EXCEPT ![t] = policy.limit]
  /\ UNCHANGED <<accounts, lease, renewals, under>>

AtReserve(t, plan, class, amount, key, ttl) ==
  /\ Reserve(t, plan, class, amount, key, ttl)
  /\ lease' = [lease EXCEPT ![issued + 1] = [account |-> t, grants |-> None]]
  /\ UNCHANGED <<accounts, hard, renewals, under>>

\* The daemon settles and releases its own holds by id; the holder of a funding
\* lease may do the same.
Ends(i) ==
  /\ rows[i] # None
  /\ Release(i) \/ \E a \in Opt(Amounts) : Settle(i, a)
  /\ UNCHANGED <<accounts, lease, hard, renewals, under>>

\* expire_stale_reservations closes the accounts whose funding lapses.
AtExpire ==
  /\ ExpireStaleReservations
  /\ accounts' = [c \in Children |->
       IF accounts[c] # None /\ \E i \in Stale : lease[i].grants = c
       THEN [accounts[c] EXCEPT !.state = "expired"] ELSE accounts[c]]
  /\ UNCHANGED <<lease, hard, renewals, under>>

AtAdjust(t, estimate) ==
  AdjustCompletionReserve(t, estimate) /\ UNCHANGED <<accounts, lease, hard, renewals, under>>

\* A funding lease has no plan, so a replan leaves it alone.
AtReleaseForPlan(t, plan) ==
  ReleaseActiveForPlan(t, plan) /\ UNCHANGED <<accounts, lease, hard, renewals, under>>

AtTick == Tick /\ UNCHANGED <<accounts, lease, hard, renewals, under>>

AtNext ==
  \/ AtTick \/ AtExpire
  \/ \E t \in Tasks :
       \/ \E policy \in Policies, e \in Reserves : AtInitializeTaskBudget(t, policy, e)
       \/ \E plan \in Opt(Plans), c \in Classes, a \in Amounts, k \in Keys, ttl \in TTLs :
            AtReserve(t, plan, c, a, k, ttl)
       \/ \E plan \in Plans : AtReleaseForPlan(t, plan)
       \/ \E e \in Reserves : AtAdjust(t, e)
       \/ \E k \in Keys, a \in RenewalAmounts : GrantRenewal(t, k, a)
  \/ \E c \in Children :
       \/ EnsureChildAccount(c)
       \/ \E a \in Payers[c], amount \in Amounts, k \in Keys, ttl \in TTLs :
            GrantSublease(a, c, amount, k, ttl)
  \/ \E i \in Ids : Ends(i)

AtSpec == AtInit /\ [][AtNext]_atVars
-----------------------------------------------------------------------------
\* Expiry has reached a lease, and nothing its holder reports later undoes it.
Lapsed(row) == row.state = "expired" \/ row.late

\* A lease and what was granted under it lapse together: the pass that expires a
\* funding lease leaves none of the leases active that its account handed out while
\* it funded the account, level by level, although the pass only compares each
\* lease's own expiry with the clock.
LapseTogether ==
  \A i \in Ids : rows[i] # None /\ under[i] # None /\ Lapsed(rows[under[i]]) =>
    rows[i].state # "active"

\* What ADR-0008 says of the account: once its funding lease expired, no lease against
\* it is left.
CascadeReachesAll ==
  \A c \in Children : accounts[c] # None /\ accounts[c].state = "expired" =>
    Against(c, "active") = {}

\* Nothing is handed out twice below a task: what the leases granted under a funding
\* lease hold together is no more than it carved out of the payer, their settlements
\* and whatever was leased from the account under another funding notwithstanding.
FundingCovers ==
  \A f \in Ids : rows[f] # None =>
    Sum([i \in Ids |-> IF rows[i] # None /\ under[i] = f THEN HeldOf(rows[i]) ELSE 0])
    <= rows[f].amount

\* What account t has granted and not got back, beside the reserve, fits the limit.
\* Overruns and late settlements are spend nobody granted, the "overrun slack".
GrantsFit(t) ==
  budgets[t] # None /\ budgets[t].ceiling = None =>
    budgets[t].reserve
      + Sum([i \in Ids |-> IF rows[i] # None /\ lease[i].account = t THEN HeldOf(rows[i]) ELSE 0])
    <= budgets[t].limit

\* All of a task's leases are taken from the task's own account.
Direct(t) == \A i \in Ids : rows[i] # None /\ rows[i].task = t => lease[i].account = t

\* No reservation of the task drew more from the reserve than it reserved.
NoOverdraw(t) == \A i \in Ids : rows[i] # None /\ rows[i].task = t => rows[i].drawn <= rows[i].amount

\* The reserve is backed by real capacity: reservations, which are checked on the
\* task's rows, and subleases, which are checked on the account's, never commit
\* together more than the task's limit leaves beside the reserve, overruns,
\* renewals and adjustments in between.  Where the two counts differ, because an
\* account below hands out leases too, required work that finds less headroom than
\* reserve draws more than it reserves, and what it gives back may be granted already.
TaskAccountBacked == \A t \in Tasks : Direct(t) \/ NoOverdraw(t) => GrantsFit(t)

\* The reservations of a turn-scoped task never hold more than one turn's ceiling
\* together, however many settled, were replanned or lapsed before.
TurnWithinCeiling ==
  \A t \in Tasks : budgets[t] # None /\ budgets[t].ceiling # None =>
    Sum([i \in Ids |-> IF i \in Against(t, "active") /\ lease[i].grants = None
                       THEN rows[i].amount ELSE 0]) <= budgets[t].ceiling

\* Every admission is backed at every level: what was granted under a funding lease
\* by that lease, what the task commits by its limit beside the reserve, the reserve
\* by what it was set to, and a turn by its ceiling.
AdmissionsBacked ==
  FundingCovers /\ TaskAccountBacked /\ ReserveConserved /\ TurnWithinCeiling
=============================================================================
