---------------------------- MODULE TaskRuntime ----------------------------
(***************************************************************************)
(* The life of a task in the daemon (crates/daemon/src/server.rs): the     *)
(* preflight of a prompt, the tool calls that may replan it, and the       *)
(* finalize of a stop.                                                     *)
(*                                                                         *)
(* The daemon serves one request at a time, but each ledger call is a      *)
(* transaction of its own: a handler that fails (`?`) or dies between two  *)
(* of them leaves what it has written so far.  So a handler is a record h  *)
(* that says what is left to do, and every ledger call is an action.       *)
(*                                                                         *)
(* A lane is bound to its task for ever, so a task stands for its lane.    *)
(* Estimates, criteria, tool statistics, webhook answers and measured      *)
(* tokens are inputs.  Not modelled here: events (Delivery.tla), the       *)
(* monthly budget (SharedBudget.tla), the holds of gateway requests        *)
(* (Gateway.tla, and in any order Reservation.tla), the outcomes attested  *)
(* for a receipt, shadow decisions, which nothing reads back, and the task *)
(* summary the daemon keeps in memory.                                     *)
(***************************************************************************)
EXTENDS Reservation, Policy, FiniteSets

CONSTANTS
  Configs,       \* daemon configurations: a policy and [turnScoped, gateway]
  Estimates,     \* p80 an estimate may report; None: cold start
  Criteria,      \* numbers of required criteria
  Durations,     \* projected seconds
  Deadlines,     \* seconds to a business deadline, or NoBound
  Tools,
  Typical,       \* typical tool-call counts; 0: no history
  LoopStreak,    \* DEFAULT_LOOP_STREAK_THRESHOLD
  CallFallback,  \* ABSOLUTE_TOOL_CALL_COUNT_FALLBACK
  MaxReplans, Cooldown,     \* ReplanHysteresisConfig
  MaxPlans,      \* bound: plans ever made
  MaxCalls,      \* bound: tool calls of a task
  MaxFaults      \* bound: handlers that fail, and restarts

Config ==
  [resource: Bound, time: Bound, turn: {NoBound} \cup [cold: Nat, ceiling: Nat],
   minConfidence: 0..2, turnScoped: BOOLEAN, gateway: BOOLEAN]

ASSUME TaskAssumption ==
  /\ Configs \subseteq Config /\ \A c \in Configs : ValidPolicy(c)
  /\ Plans = 1..MaxPlans /\ Keys = Plans
  /\ Estimates \subseteq Opt(Nat) /\ Criteria \subseteq Nat
  /\ Durations \subseteq Nat /\ Deadlines \subseteq Bounds
  /\ LoopStreak \in Nat /\ CallFallback \in Nat /\ MaxReplans \in Nat /\ Cooldown \in Nat
  /\ MaxPlans \in Nat /\ MaxCalls \in Nat /\ MaxFaults \in Nat

VARIABLES
  config,     \* DaemonConfig: read at start
  h,          \* the request being served
  plans,      \* plans
  inflight,   \* session_preflights: the lane's in_flight plan
  calls,      \* tool_call_counts
  replans,    \* replan_state
  receipts,   \* receipts, by plan
  faults

ledger == <<now, budgets, rows, issued, floor>>
sessions == <<plans, inflight, calls, replans, receipts>>
tkVars == <<ledger, sessions, config, h, faults>>

Plan == [task: Tasks, revision: Nat, admission: Admissions \cup {None}, replaces: Opt(Plans), born: Nat]
Receipt == [at: Nat, since: Nat, read: Nat]

TkInit ==
  /\ Init
  /\ config \in Configs
  /\ h = None
  /\ plans = [p \in Plans |-> None]
  /\ inflight = [t \in Tasks |-> None]
  /\ calls = [t \in Tasks |-> [count |-> 0, tool |-> None, streak |-> 0]]
  /\ replans = [t \in Tasks |-> [count |-> 0, last |-> None, calls |-> 0]]
  /\ receipts = [p \in Plans |-> None]
  /\ faults = 0
-----------------------------------------------------------------------------
Made == {p \in Plans : plans[p] # None}
NextPlan == Cardinality(Made) + 1
PlansOf(t) == {p \in Made : plans[p].task = t}
LatestRevision(t) ==
  LET R == {plans[p].revision : p \in PlansOf(t)} \cup {0} IN CHOOSE r \in R : \A q \in R : q <= r

\* An estimate's p80, or what the policy asks for a turn without one.
Requested(p80) == IF p80 = None THEN turn_fallback_request(config) ELSE p80

\* A handler is at step s, or it has answered.
At(s) == h # None /\ h.step = s
Goto(s) == h' = [h EXCEPT !.step = s]
Answer == h' = None

\* The new plan row and the handler that will put it in flight.
StartPlan(t, op, revision, admission, replaces, p80, criteria) ==
  /\ NextPlan <= MaxPlans
  /\ plans' = [plans EXCEPT ![NextPlan] =
       [task |-> t, revision |-> revision, admission |-> admission, replaces |-> replaces, born |-> now]]
  /\ h' = [op |-> op, step |-> "supersede", task |-> t, plan |-> NextPlan, prev |-> inflight[t],
           requested |-> Requested(p80),
           reserve |-> completion_reserve_for(config, Requested(p80), criteria)]

\* handle_preflight: sweep the stale reservations, draft the next contract
\* revision, make a plan.
Preflight(t, p80, criteria) ==
  /\ h = None
  /\ StartPlan(t, "preflight", LatestRevision(t) + 1, None, None, p80, criteria)
  /\ ExpireStaleReservations
  /\ UNCHANGED <<inflight, calls, replans, receipts, config, faults>>
-----------------------------------------------------------------------------
\* tool_call_count_is_material
Material(t, typical) ==
  LET since == MaxOf(calls'[t].count - replans[t].calls, 0)
  IN  since > IF typical > 0 THEN 2 * typical ELSE CallFallback

possible_tool_loop(t) == calls'[t].streak >= LoopStreak

\* evaluate_hysteresis = Allow
hysteresis_allows(t) ==
  /\ replans[t].count < MaxReplans
  /\ replans[t].last # None => now - replans[t].last >= Cooldown

CountCall(t, tool) ==
  /\ calls[t].count < MaxCalls
  /\ calls' = [calls EXCEPT ![t] =
       [count |-> @.count + 1, tool |-> tool, streak |-> IF @.tool = tool THEN @.streak + 1 ELSE 1]]

Replans(t, typical) ==
  /\ inflight[t] # None
  /\ possible_tool_loop(t) \/ Material(t, typical)
  /\ hysteresis_allows(t)

\* Mutant: the new plan does not inherit what became of the old one.
carried_nothing(p) == None

\* The verdict on the superseded plan is carried to the one that replaces it.
carried_admission(p) == plans[p].admission

\* handle_tool_invoked: count the call and, after a material event, replan.
ToolInvoked(t, tool, typical, p80, criteria) ==
  /\ h = None
  /\ CountCall(t, tool)
  /\ \/ /\ ~Replans(t, typical)
        /\ UNCHANGED <<h, plans>>
     \/ /\ Replans(t, typical)
        /\ StartPlan(t, "replan", plans[inflight[t]].revision, carried_admission(inflight[t]),
                     inflight[t], p80, criteria)
  /\ UNCHANGED <<ledger, inflight, replans, receipts, config, faults>>
-----------------------------------------------------------------------------
\* The steps a preflight and a replan share.

SupersedeInFlight ==
  /\ At("supersede")
  /\ inflight' = [inflight EXCEPT ![h.task] = None]
  /\ Goto("record")
  /\ UNCHANGED <<ledger, plans, calls, replans, receipts, config, faults>>

RecordPreflight ==
  /\ At("record")
  /\ inflight' = [inflight EXCEPT ![h.task] = h.plan]
  /\ Goto("release")
  /\ UNCHANGED <<ledger, plans, calls, replans, receipts, config, faults>>

\* Mutant: a new prompt leaves the reservation of the plan it supersedes.
ReleaseOnReplanOnly ==
  /\ At("release")
  /\ IF h.op = "replan" THEN ReleaseActiveForPlan(h.task, h.prev) ELSE UNCHANGED ledger
  /\ Goto("budget")
  /\ UNCHANGED <<sessions, config, faults>>

\* The outgoing plan's envelope is refunded.
ReleasePrevious ==
  /\ At("release")
  /\ IF h.prev # None THEN ReleaseActiveForPlan(h.task, h.prev) ELSE UNCHANGED ledger
  /\ Goto("budget")
  /\ UNCHANGED <<sessions, config, faults>>

\* A turn-scoped budget keeps the ceiling of the turn it was created with.
BudgetPolicy ==
  [limit   |-> config.resource.hard,
   ceiling |-> IF config.turnScoped /\ config.turn # NoBound THEN config.turn.ceiling ELSE None]

AfterBudget == IF h.op = "preflight" THEN "admit" ELSE "reserve"

\* A first preflight creates the budget; later ones and replans adjust its
\* reserve, when there is room for it.  A replan makes no budget: one whose
\* preflight died before this step reserves nothing.
SetBudget ==
  /\ At("budget")
  /\ \/ /\ h.op = "preflight"
        /\ InitializeTaskBudget(h.task, BudgetPolicy, h.reserve)
        /\ Goto("admit")
     \/ /\ AdjustCompletionReserve(h.task, h.reserve)
        /\ Goto(AfterBudget)
     \/ /\ budgets[h.task] # None
        /\ ~Adjustable(h.task, h.reserve)
        /\ Goto(AfterBudget)
        /\ UNCHANGED ledger
     \/ /\ h.op = "replan" /\ budgets[h.task] = None
        /\ Goto("count")
        /\ UNCHANGED ledger
  /\ UNCHANGED <<sessions, config, faults>>

\* Mutant: what is only reserved is not counted as committed.
CommittedSettled(t) == SettledSum(t)

Committed(t) == SettledSum(t) + ActiveSum(t)

\* The policy in force, the turn's own ceiling, then the webhook.
Decision(secs, confidence, remaining, verdict) ==
  LET lifetime == budgets[h.task].ceiling = None
      policy   == apply_business_context(config, remaining)
      decided  == evaluate_with(policy, Committed(h.task) + h.requested, secs, confidence, lifetime)
      turned   == with_turn_outcome(decided, evaluate_turn(policy, h.requested))
  IN  apply_external_approval(turned, verdict)

\* evaluate, then set_plan_admission.  With a gateway its requests reserve
\* for themselves.
Admit(secs, confidence, remaining, verdict) ==
  LET admission == Decision(secs, confidence, remaining, verdict) IN
  /\ At("admit")
  /\ plans' = [plans EXCEPT ![h.plan].admission = admission]
  /\ IF admission = "admit" /\ ~config.gateway THEN Goto("reserve") ELSE Answer
  /\ UNCHANGED <<ledger, inflight, calls, replans, receipts, config, faults>>

\* The reserve's share of the request is already set aside.
Envelope == MaxOf(h.requested - h.reserve, 0)

\* A plan that was denied or is waiting for approval commits nothing.
Authorized == plans[h.plan].admission \notin {"deny", "approval"} /\ ~config.gateway

ReserveEnvelope ==
  /\ At("reserve")
  /\ \/ /\ Authorized
        /\ \E ttl \in TTLs : Reserve(h.task, h.plan, "required", Envelope, h.plan, ttl)
     \/ /\ ~Authorized \/ ~Admits(h.task, "required", Envelope)
        /\ UNCHANGED ledger
  /\ IF h.op = "preflight" THEN Answer ELSE Goto("count")
  /\ UNCHANGED <<sessions, config, faults>>

\* insert_replan_event, record_replan_for_task
CountReplan ==
  /\ At("count")
  /\ replans' = [replans EXCEPT ![h.task] =
       [count |-> @.count + 1, last |-> plans[h.plan].born, calls |-> calls[h.task].count]]
  /\ Goto("streak")
  /\ UNCHANGED <<ledger, plans, inflight, calls, receipts, config, faults>>

\* reset_tool_streak
ResetStreak ==
  /\ At("streak")
  /\ calls' = [calls EXCEPT ![h.task].streak = 0]
  /\ Answer
  /\ UNCHANGED <<ledger, plans, inflight, replans, receipts, config, faults>>
-----------------------------------------------------------------------------
Root(p) ==
  LET root[n \in 0..MaxPlans] ==
        IF n = 0 THEN p
        ELSE IF plans[root[n - 1]].replaces = None THEN root[n - 1] ELSE plans[root[n - 1]].replaces
  IN  root[MaxPlans]

ReceiptsOf(t) == {p \in PlansOf(t) : receipts[p] # None}

\* Mutant: the window starts with the turn.
window_from_turn(t, plan) == plans[Root(plan)].born

\* From the task's latest receipt, or from the first plan of the lineage.
usage_window_start(t, plan) ==
  LET ends == {receipts[p].at : p \in ReceiptsOf(t)} IN
  IF ends = {} THEN plans[Root(plan)].born ELSE CHOOSE e \in ends : \A f \in ends : f <= e

\* A plan that has its receipt is not finalized again.
Finalize(t) ==
  /\ h = None
  /\ inflight[t] # None
  /\ receipts[inflight[t]] = None
  /\ h' = [op |-> "finalize", step |-> "observe", task |-> t, plan |-> inflight[t],
           at |-> now, since |-> usage_window_start(t, inflight[t])]
  /\ UNCHANGED <<ledger, sessions, config, faults>>

\* Read the transcript: it has every record the host stamped from since to now.
Observe ==
  /\ At("observe")
  /\ h' = [op |-> "finalize", step |-> "settle", task |-> h.task, plan |-> h.plan,
           at |-> h.at, since |-> h.since, read |-> now]
  /\ UNCHANGED <<ledger, sessions, config, faults>>

\* Mutant: a turn without a measurement leaves its reservation.
SettleMeasuredOnly ==
  LET held == {i \in Of(h.task, "active") : rows[i].plan = h.plan} IN
  /\ At("settle")
  /\ UNCHANGED ledger \/ \E i \in held, a \in Amounts : Settle(i, a)
  /\ Goto("receipt")
  /\ UNCHANGED <<sessions, config, faults>>

\* At the measured tokens, or at the reserved amount when nothing was measured
\* or the reservation is not in tokens.
SettleEnvelope ==
  LET held == {i \in Of(h.task, "active") : rows[i].plan = h.plan} IN
  /\ At("settle")
  /\ IF held = {} THEN UNCHANGED ledger ELSE \E i \in held, a \in Opt(Amounts) : Settle(i, a)
  /\ Goto("receipt")
  /\ UNCHANGED <<sessions, config, faults>>

InsertReceipt ==
  /\ At("receipt")
  /\ receipts' = [receipts EXCEPT ![h.plan] =
       [at |-> h.at, since |-> h.since, read |-> h.read]]
  /\ Answer
  /\ UNCHANGED <<ledger, plans, inflight, calls, replans, config, faults>>
-----------------------------------------------------------------------------
TkTick == Tick /\ UNCHANGED <<sessions, config, h, faults>>

\* A ledger call fails: the handler returns its error.
HandlerFails ==
  /\ h # None
  /\ faults < MaxFaults
  /\ faults' = faults + 1
  /\ Answer
  /\ UNCHANGED <<ledger, sessions, config>>

\* The daemon dies and is started with another configuration; serve sweeps first.
Restart ==
  /\ faults < MaxFaults
  /\ faults' = faults + 1
  /\ config' \in Configs \ {config}
  /\ h' = None
  /\ ExpireStaleReservations
  /\ UNCHANGED sessions

Requests ==
  \E t \in Tasks :
    \/ \E p80 \in Estimates, n \in Criteria : Preflight(t, p80, n)
    \/ \E tool \in Tools, typical \in Typical, p80 \in Estimates, n \in Criteria :
         ToolInvoked(t, tool, typical, p80, n)
    \/ Finalize(t)

Steps ==
  \/ SupersedeInFlight \/ RecordPreflight \/ ReleasePrevious \/ SetBudget
  \/ \E secs \in Durations, c \in 0..2, d \in Deadlines, v \in {"approve", "reject", "abstain"} :
       Admit(secs, c, d, v)
  \/ ReserveEnvelope \/ CountReplan \/ ResetStreak
  \/ Observe \/ SettleEnvelope \/ InsertReceipt

TkNext ==
  Requests \/ Steps \/ HandlerFails \/ Restart \/ TkTick

TkSpec == TkInit /\ [][TkNext]_tkVars
-----------------------------------------------------------------------------
\* A handler that makes a plan, and a finalize before and after it read the
\* transcript.
PlanSteps == {"supersede", "record", "release", "budget", "admit", "reserve", "count", "streak"}
Planning ==
  [op: {"preflight", "replan"}, step: PlanSteps, task: Tasks, plan: Plans, prev: Opt(Plans),
   requested: Nat, reserve: Nat]
Reading == [op: {"finalize"}, step: {"observe"}, task: Tasks, plan: Plans, at: Nat, since: Nat]
Writing ==
  [op: {"finalize"}, step: {"settle", "receipt"}, task: Tasks, plan: Plans,
   at: Nat, since: Nat, read: Nat]

ASSUME NullAssumption == None \notin Plan \cup Receipt \cup Planning \cup Reading \cup Writing

\* Every table is well typed.  In particular a plan in flight has a row, and a
\* receipt's window does not end before it starts: a preflight or a finalize
\* that died half-way left neither a dangling plan id nor a window over nothing.
TkTypeOK ==
  /\ config \in Configs
  /\ h \in Opt(Planning \cup Reading \cup Writing)
  /\ plans \in [Plans -> Opt(Plan)]
  /\ inflight \in [Tasks -> Opt(Plans)]
  /\ \A t \in Tasks : inflight[t] # None => inflight[t] \in PlansOf(t)
  /\ receipts \in [Plans -> Opt(Receipt)]
  /\ \A p \in Plans : receipts[p] # None =>
       p \in Made /\ receipts[p].since <= receipts[p].at /\ receipts[p].at <= receipts[p].read
  /\ calls \in [Tasks -> [count: 0..MaxCalls, tool: Opt(Tools), streak: Nat]]
  /\ \A t \in Tasks : calls[t].streak <= calls[t].count
  /\ replans \in [Tasks -> [count: Nat, last: Opt(Nat), calls: Nat]]
  /\ faults \in 0..MaxFaults

\* The live envelopes of a task's plans.
Envelopes(t) == Of(t, "active")

\* Whatever chain of replans follows a denied plan, or one still waiting for
\* approval, none of them commits capacity: each plan of the chain is a new row,
\* and the verdict on the prompt is carried along.
RefusedNeverHolds ==
  \A i \in Ids : rows[i] # None => plans[Root(rows[i].plan)].admission \notin {"deny", "approval"}

\* An envelope outlives its plan only where a handler died between superseding
\* the plan and refunding it: between requests, a task holds no more envelopes
\* of plans that are not in flight than handlers have failed.
OrphansBoundedByFaults ==
  h = None => \A t \in Tasks :
    Cardinality({i \in Envelopes(t) : rows[i].plan # inflight[t]}) <= faults

\* A finished turn holds nothing: whatever was measured, and wherever an earlier
\* attempt to finalize it died, a plan with a receipt has no active envelope.
FinishedHoldsNothing ==
  \A t \in Tasks : \A i \in Envelopes(t) : receipts[rows[i].plan] = None

\* The automatic replans of a task are bounded although each is counted only in
\* its last transactions: one that dies before that is repeated, once per fault.
AutoReplansBounded ==
  \A t \in Tasks :
    Cardinality({p \in PlansOf(t) : plans[p].replaces # None}) <= MaxReplans + faults

\* Receipts leave no gap: the window of every receipt after a task's first
\* starts no later than the moment an earlier one was recorded, so whatever the
\* host wrote between two turns falls into some window.
NoUsageDropped ==
  \A t \in Tasks : \A p \in ReceiptsOf(t) :
    \/ \A q \in ReceiptsOf(t) : receipts[p].at <= receipts[q].at
    \/ \E q \in ReceiptsOf(t) \ {p} : receipts[q].at <= receipts[p].at /\ receipts[p].since <= receipts[q].at

\* An admission the policy grants, the ledger honours: an admitted prompt of a
\* lifetime-bounded task gets its envelope, although the budget is read in one
\* transaction and reserved in another.  (Not so for a budget made under a
\* smaller policy, which a restart may have replaced.)
AdmittedIsReserved ==
  [][h # None /\ h.op = "preflight" /\ h.step = "reserve" /\ faults' = faults /\ h' = None
       /\ budgets[h.task].ceiling = None /\ config.resource.hard <= budgets[h.task].limit
     => \E i \in Ids : rows'[i] # None /\ rows'[i].plan = h.plan]_tkVars

\* What a handler that dies costs is bounded: at most one stranded envelope and one
\* automatic replan more than the limit.
BoundedByFaults == OrphansBoundedByFaults /\ AutoReplansBounded
-----------------------------------------------------------------------------
\* What the steps preserve, for the proofs.

\* Plans are numbered in the order they are made; one that replaces another
\* came after it, is of the same task and has the verdict it had.
PlansInv ==
  /\ \E n \in 0..MaxPlans : Made = 1..n
  /\ \A p \in Made :
       /\ plans[p].born <= now /\ plans[p].revision <= p
       /\ plans[p].replaces # None =>
            /\ plans[p].replaces \in PlansOf(plans[p].task)
            /\ plans[p].replaces < p
            /\ plans[plans[p].replaces].admission = plans[p].admission

\* A plan has at most one envelope, and none if it was refused.
RowsInv ==
  /\ \A i \in Ids : rows[i] # None =>
       /\ rows[i].plan \in PlansOf(rows[i].task) /\ rows[i].key = rows[i].plan
       /\ plans[rows[i].plan].admission \notin {"deny", "approval"}
  /\ \A i, j \in Ids : rows[i] # None /\ rows[j] # None /\ rows[i].plan = rows[j].plan => i = j

\* A receipt is not stamped in the future.
ReceiptsInv == \A p \in Plans : receipts[p] # None => receipts[p].at <= now

Makes == h # None /\ h.op \in {"preflight", "replan"}
Reads == h # None /\ h.op = "finalize"
Unreserved == {"supersede", "record", "release", "budget", "admit", "reserve"}
Unreleased == {"supersede", "record", "release"}

\* The plan being made is the latest one, and unknown to the ledger until it
\* is reserved for; it is put in flight in two steps.
MakesInv ==
  Makes =>
    /\ h.plan \in PlansOf(h.task) /\ receipts[h.plan] = None
    /\ \A p \in Made : p <= h.plan
    /\ h.op = "preflight" => plans[h.plan].replaces = None /\ h.step \in Unreserved
    /\ h.op = "replan" => h.step # "admit"
    /\ h.step \in Unreserved => \A i \in Ids : rows[i] # None => rows[i].plan # h.plan
    /\ h.step = "supersede" => inflight[h.task] = h.prev
    /\ h.step = "record" => inflight[h.task] = None
    /\ h.step \notin {"supersede", "record"} => inflight[h.task] = h.plan

\* The plan being finalized has no receipt; its window starts where the task's
\* latest receipt ended.
ReadsInv ==
  Reads =>
    /\ h.plan \in PlansOf(h.task) /\ receipts[h.plan] = None
    /\ h.since <= h.at /\ h.at <= now
    /\ h.step # "observe" => h.at <= h.read
    /\ \A q \in ReceiptsOf(h.task) : receipts[q].at <= h.at
    /\ ReceiptsOf(h.task) # {} => \E q \in ReceiptsOf(h.task) : h.since = receipts[q].at
    /\ h.step = "receipt" => \A i \in Of(h.task, "active") : rows[i].plan # h.plan

\* Envelopes of plans that are neither in flight nor about to be refunded.
Stranded(t) ==
  {i \in Envelopes(t) :
     /\ rows[i].plan # inflight[t]
     /\ Makes /\ h.task = t /\ h.step \in Unreleased => rows[i].plan # h.prev}

StrandedInv == \A t \in Tasks : Cardinality(Stranded(t)) <= faults

\* Automatic replans of a task, and the one that is not counted yet.
Automatic(t) == {p \in PlansOf(t) : plans[p].replaces # None}
Uncounted(t) == IF Makes /\ h.op = "replan" /\ h.task = t /\ h.step # "streak" THEN 1 ELSE 0

ReplansInv ==
  \A t \in Tasks :
    /\ Cardinality(Automatic(t)) <= replans[t].count + faults + Uncounted(t)
    /\ replans[t].count + Uncounted(t) <= MaxReplans

\* A prompt about to reserve was admitted with what the ledger still says.
DecisionInv ==
  Makes /\ h.op = "preflight" =>
    /\ h.step \in {"admit", "reserve"} => budgets[h.task] # None
    /\ h.step = "reserve" =>
         /\ Authorized
         /\ budgets[h.task].ceiling = None => Committed(h.task) + h.requested <= config.resource.hard

TkIInv ==
  /\ TypeOK /\ TkTypeOK
  /\ PlansInv /\ RowsInv /\ ReceiptsInv /\ MakesInv /\ ReadsInv /\ StrandedInv /\ ReplansInv
  /\ DecisionInv /\ FinishedHoldsNothing /\ NoUsageDropped
=============================================================================
