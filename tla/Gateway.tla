------------------------------ MODULE Gateway ------------------------------
(***************************************************************************)
(* The enforcement gateway's request lifecycle (crates/gateway/src/        *)
(* proxy.rs) over the two ledgers it spends against: the task's            *)
(* reservations (module Reservation, used as it stands) and the shared     *)
(* monthly pool (rows of SharedPoolTable) through                          *)
(* daemon/src/gateway_authority.rs and daemon/src/shared_budget.rs.        *)
(*                                                                         *)
(* Every request is a task of its own: each ledger call, each answer of    *)
(* the provider and each end of a stream is a step, and other requests,    *)
(* the daemon's own connection, the operator's editor and the clock step   *)
(* between them.  A client may go away at any await, dropping the handler  *)
(* where it stands; the process may die at any point and start again.      *)
(* A request's number is its uuid.  Both ledgers reserve the same worst    *)
(* case: the units differ in the code, the control does not.  One month.   *)
(***************************************************************************)
EXTENDS Reservation, FiniteSets

CONSTANTS
  Task,           \* the task the session is bound to
  Budget0,        \* its budget as preflight admitted it
  Worst,          \* worst-case reservation of a request
  Costs,          \* what the provider may bill for one
  Cap,            \* the month's cap
  TTL,            \* reservation_ttl_secs
  GovernorHeld,   \* the gateway holds the upstream credential
  Files,          \* states the shared-budget file goes through
  Permits,        \* max_concurrent_requests
  Cooldown,       \* CREDENTIAL_REFRESH_COOLDOWN
  Lossy,          \* whether an answer of the provider can be lost on the way
  LedgerFails,    \* whether a ledger call can fail
  I64Max,         \* i64::MAX, the width of the pool's amounts
  MaxBoots        \* bound: daemon starts

ASSUME GatewayAssumption ==
  /\ Task \in Tasks /\ Budget0 \in Budget /\ Keys = Ids /\ TTLs = {TTL}
  /\ Worst \in Nat \ {0} /\ Costs \subseteq 1..Worst
  /\ I64Max \in Nat \ {0} /\ Cap \in 0..(2 * I64Max + 1)
  /\ Files \subseteq {"absent", "invalid", "hooks", "gateway"}
  /\ GovernorHeld \in BOOLEAN /\ Lossy \subseteq BOOLEAN /\ LedgerFails \subseteq BOOLEAN
  /\ Permits \in Nat \ {0} /\ Cooldown \in Nat /\ MaxBoots \in Nat \ {0}

Requests == Ids
Local == [principal |-> "local-budget", session |-> Task]
Keyed == [boot: 1..MaxBoots, request: Requests]     \* gw:<boot_id>:<request_id>

Pool == INSTANCE SharedPoolTable WITH
  Pools <- {"month"}, Executors <- {Local}, Keys <- Keyed, Lanes <- {"none"},
  Sources <- {"gateway"}, Units <- {"UsdCents"}, Marks <- {}

VARIABLES
  file,        \* shared-budget.json
  boot,        \* the running daemon process, 0 before the first start
  up,          \* it is alive
  enforcedSeen,\* gateway_enforced_seen of this process
  holds,       \* the requests' rows of shared_pool_reservations
  pc,          \* where each request's handler or pump stands
  enforced,    \* requests mode() answered Enforce for
  held,        \* requests whose handler knows a shared hold
  permits,     \* requests with a semaphore permit
  resolvedAt,  \* when the store's upstream credential was last resolved
  retried,     \* requests sent a second time
  reply,       \* the provider's side: not sent, sent, answered
  bill,        \* what the provider bills for the request
  tapped       \* the usage its pump saw by the end of the response; history once it is booked

task == <<now, budgets, rows, issued, floor>>
process == <<boot, up, enforcedSeen>>
wire == <<retried, reply, bill>>
request == <<pc, enforced, held, permits, tapped>>
gwVars == <<task, file, process, holds, resolvedAt, wire, request>>

Handler == {"mode", "authorize", "shared", "send", "upstream", "refresh", "releaseTask", "releaseShared"}
Pump == {"stream", "settleShared", "settleTask"}

GwInit ==
  /\ now = 0 /\ issued = 0
  /\ budgets = [t \in Tasks |-> IF t = Task THEN Budget0 ELSE None]
  /\ rows = [i \in Ids |-> None]
  /\ floor = [t \in Tasks |-> IF t = Task THEN Budget0.reserve ELSE 0]
  /\ file \in Files
  /\ boot = 0 /\ up = FALSE /\ enforcedSeen = FALSE
  /\ holds = [r \in Requests |-> None]
  /\ pc = [r \in Requests |-> "idle"]
  /\ enforced = {} /\ held = {} /\ permits = {} /\ retried = {}
  /\ resolvedAt = 0
  /\ reply = [r \in Requests |-> "none"]
  /\ bill = [r \in Requests |-> 0]
  /\ tapped = [r \in Requests |-> None]

-----------------------------------------------------------------------------
(* The daemon process and its surroundings.                                  *)

\* Mutant: the start sweep frees what a dead process held.
OrphanedFreed(row) ==
  IF row # None /\ row.state = "active" /\ row.key.boot # boot + 1
  THEN Pool!Released(row, now) ELSE row

\* settle_orphaned_gateway_holds: another process's live hold is booked.
Orphaned(row) ==
  IF row # None /\ row.state = "active" /\ row.key.boot # boot + 1
  THEN Pool!Booked(row, now) ELSE row

\* Reconcile the task reservations, book the previous process's holds, then
\* serve under a new boot id, with a credential resolved now.
Start ==
  /\ ~up
  /\ boot < MaxBoots
  /\ boot' = boot + 1
  /\ up' = TRUE
  /\ enforcedSeen' = (file = "gateway")
  /\ ExpireStaleReservations \/ (TRUE \in LedgerFails /\ UNCHANGED task)
  /\ \E failed \in LedgerFails :
       holds' = IF failed THEN holds ELSE [r \in Requests |-> Orphaned(holds[r])]
  /\ resolvedAt' = now
  /\ UNCHANGED <<file, wire, request>>

\* Every handler and pump dies with the process, and what it kept in memory.
Crash ==
  /\ up
  /\ up' = FALSE
  /\ pc' = [r \in Requests |-> IF pc[r] \in Handler \cup Pump THEN "over" ELSE pc[r]]
  /\ permits' = {} /\ enforced' = {} /\ held' = {} /\ retried' = {}
  /\ enforcedSeen' = FALSE
  /\ tapped' = [r \in Requests |-> IF pc[r] \in Pump THEN None ELSE tapped[r]]
  /\ UNCHANGED <<task, file, boot, holds, resolvedAt, reply, bill>>

GwTick == Tick /\ UNCHANGED <<file, process, holds, resolvedAt, wire, request>>

EditFile(f) == file' = f /\ f # file /\ UNCHANGED <<task, process, holds, resolvedAt, wire, request>>

\* A preflight reconciles stale reservations; a replan refunds its plan's.
Reconcile ==
  /\ up
  /\ ExpireStaleReservations \/ \E plan \in Plans : ReleaseActiveForPlan(Task, plan)
  /\ UNCHANGED <<file, process, holds, resolvedAt, wire, request>>

Swept == [r \in Requests |-> Pool!SweptRow(holds[r], now)]

\* A hook's admission or another pool's reserve sweeps every pool.
Sweep ==
  /\ up
  /\ holds' = Swept
  /\ UNCHANGED <<task, file, process, resolvedAt, wire, request>>

-----------------------------------------------------------------------------
(* The handler.  Refusals before the permit (host, local token, route, body  *)
(* size) leave no state; neither does forwarding count_tokens.               *)

At(r, label) == up /\ pc[r] = label
Goto(r, label) == pc' = [pc EXCEPT ![r] = label] /\ permits' = permits

\* The handler returns or is dropped: its permit goes back.
Leave(r, label) == pc' = [pc EXCEPT ![r] = label] /\ permits' = permits \ {r}

Arrive(r) ==
  /\ At(r, "idle")
  /\ \A q \in Requests : q < r => pc[q] # "idle"   \* numbers are given out in order
  /\ \/ /\ Cardinality(permits) < Permits
        /\ permits' = permits \cup {r}
        /\ pc' = [pc EXCEPT ![r] = "mode"]
     \/ Cardinality(permits) >= Permits /\ Leave(r, "over")
  /\ UNCHANGED <<task, file, process, holds, resolvedAt, wire, enforced, held, tapped>>

\* LedgerSharedAuthority::mode.
SharedMode ==
  CASE file = "gateway" -> IF GovernorHeld THEN "enforce" ELSE "unavailable"
    [] file = "invalid" /\ (GovernorHeld \/ enforcedSeen) -> "unavailable"
    [] OTHER -> "not_consulted"

AskMode(r) ==
  /\ At(r, "mode")
  /\ enforcedSeen' = (enforcedSeen \/ file = "gateway")
  /\ enforced' = IF SharedMode = "enforce" THEN enforced \cup {r} ELSE enforced
  /\ IF SharedMode = "unavailable" THEN Leave(r, "over") ELSE Goto(r, "authorize")
  /\ UNCHANGED <<task, file, boot, up, holds, resolvedAt, wire, held, tapped>>

\* The policy admitted with the task, over its lifetime spend whatever its scope.
PolicyAdmits ==
  SettledSum(Task) + ActiveSum(Task) + budgets[Task].reserve + Worst <= budgets[Task].limit

\* Mutant: the reservation carries the task's current plan.
RequestPlanCurrent == CHOOSE plan \in Plans : TRUE

\* plan_id: None, so that no replan can refund a request in flight.
RequestPlan == None

Authorize(r) ==
  /\ At(r, "authorize")
  /\ \/ /\ PolicyAdmits
        /\ Reserve(Task, RequestPlan, "optional", Worst, r, TTL)
        /\ Goto(r, IF r \in enforced THEN "shared" ELSE "send")
     \/ /\ ~PolicyAdmits \/ ~Admits(Task, "optional", Worst) \/ TRUE \in LedgerFails
        /\ Leave(r, "over")
        /\ UNCHANGED task
  /\ UNCHANGED <<file, process, holds, resolvedAt, wire, enforced, held, tapped>>

RowOf(r) == CHOOSE i \in Ids : rows[i] # None /\ rows[i].key = r

\* Sum(active) + Sum(settled) + Worst against the configured cap.
CapAdmits ==
  Pool!Admits([source |-> "local", cap |-> Cap, sessionCap |-> None], Swept, "month",
              [unit |-> "UsdCents", cap |-> Cap], None, now, Worst)

NewHold(r) ==
  Pool!HoldRow("month", Local, [boot |-> boot, request |-> r], Worst, now + TTL, "none", "gateway")

\* gateway_reserve: sweep, then reserve.
SharedGranted(r) ==
  /\ file = "gateway"
  /\ CapAdmits
  /\ holds' = [Swept EXCEPT ![r] = NewHold(r)]
  /\ held' = held \cup {r}
  /\ Goto(r, "send")

\* Mutant: the file was switched off meanwhile, so the request goes uncapped.
StandsDownAlways == TRUE

\* The file no longer asks for enforcement: stand down only if it never did.
StandsDown == ~enforcedSeen

\* A refusal; the sweep stands.  A ledger error can come before the hold is
\* written or, reading back what remains, after it.
SharedRefused(r) ==
  /\ \/ file = "invalid" /\ holds' = holds
     \/ file = "gateway" /\ ~CapAdmits /\ holds' = Swept
     \/ TRUE \in LedgerFails /\ holds' = holds
     \/ TRUE \in LedgerFails /\ file = "gateway" /\ CapAdmits
          /\ holds' = [Swept EXCEPT ![r] = NewHold(r)]
  /\ Goto(r, "releaseTask")
  /\ held' = held

SharedOff(r) ==
  /\ file \in {"absent", "hooks"}
  /\ Goto(r, IF StandsDown THEN "send" ELSE "releaseTask")
  /\ UNCHANGED <<holds, held>>

SharedReserve(r) ==
  /\ At(r, "shared")
  /\ SharedGranted(r) \/ SharedRefused(r) \/ SharedOff(r)
  /\ UNCHANGED <<task, file, process, resolvedAt, wire, enforced, tapped>>

-----------------------------------------------------------------------------
(* Forwarding.                                                               *)

Send(r) ==
  /\ At(r, "send")
  /\ reply' = [reply EXCEPT ![r] = "sent"]
  /\ Goto(r, "upstream")
  /\ UNCHANGED <<task, file, process, holds, resolvedAt, retried, bill, enforced, held, tapped>>

\* The provider answers in its own time, whether or not anybody still waits.
Serve(r, cost) ==
  /\ reply[r] = "sent"
  /\ reply' = [reply EXCEPT ![r] = "ok"]
  /\ bill' = [bill EXCEPT ![r] = cost]
  /\ UNCHANGED <<task, file, process, holds, resolvedAt, retried, request>>

Reject(r, status) ==
  /\ reply[r] = "sent"
  /\ reply' = [reply EXCEPT ![r] = status]
  /\ UNCHANGED <<task, file, process, holds, resolvedAt, retried, bill, request>>

\* client.request fails: nothing was sent, or what came back was lost.
Fail(r) ==
  /\ At(r, "upstream")
  /\ reply[r] = "sent" \/ TRUE \in Lossy
  /\ reply' = [reply EXCEPT ![r] = "none"]
  /\ Goto(r, "releaseTask")
  /\ UNCHANGED <<task, file, process, holds, resolvedAt, retried, bill, enforced, held, tapped>>

\* A 2xx head hands the request to a pump and returns, permit included.
Receive(r) ==
  /\ At(r, "upstream")
  /\ \/ reply[r] = "ok" /\ Leave(r, "stream")
     \/ reply[r] = "unauthorized" /\ GovernorHeld /\ r \notin retried /\ Goto(r, "refresh")
     \/ reply[r] = "unauthorized" /\ (~GovernorHeld \/ r \in retried) /\ Goto(r, "releaseTask")
     \/ reply[r] = "error" /\ Goto(r, "releaseTask")
  /\ UNCHANGED <<task, file, process, holds, resolvedAt, wire, enforced, held, tapped>>

CooledDown == now - resolvedAt >= Cooldown

\* refresh_if_cooled_down, then exactly one more try; or relay the 401.
Refresh(r) ==
  /\ At(r, "refresh")
  /\ \/ /\ CooledDown
        /\ resolvedAt' = now
        /\ retried' = retried \cup {r}
        /\ Goto(r, "send")
     \/ /\ Goto(r, "releaseTask")     \* cooling down, or the command failed
        /\ UNCHANGED <<resolvedAt, retried>>
  /\ UNCHANGED <<task, file, process, holds, reply, bill, enforced, held, tapped>>

\* release_all: the task reservation, then the shared hold if there is one.
ReleaseTask(r) ==
  /\ At(r, "releaseTask")
  /\ \/ Release(RowOf(r))
     \/ (rows[RowOf(r)].state # "active" \/ TRUE \in LedgerFails) /\ UNCHANGED task
  /\ IF r \in held THEN Goto(r, "releaseShared") ELSE Leave(r, "over")
  /\ UNCHANGED <<file, process, holds, resolvedAt, wire, enforced, held, tapped>>

ReleaseShared(r) ==
  /\ At(r, "releaseShared")
  /\ \E failed \in LedgerFails :
       holds' = IF failed \/ holds[r].state # "active" THEN holds
                ELSE [holds EXCEPT ![r] = Pool!Released(@, now)]
  /\ Leave(r, "over")
  /\ UNCHANGED <<task, file, process, resolvedAt, wire, enforced, held, tapped>>

\* The client goes away at an await: the handler is dropped where it stands.
Cancel(r) ==
  /\ up
  /\ pc[r] \in Handler
  /\ Leave(r, "over")
  /\ enforced' = enforced \ {r} /\ held' = held \ {r} /\ retried' = retried \ {r}
  /\ UNCHANGED <<task, file, process, holds, resolvedAt, reply, bill, tapped>>

-----------------------------------------------------------------------------
(* The pump.  The response ends whole, or cut after message_start with part  *)
(* of the usage seen, or with nothing readable.                              *)

Taps(r) ==
  [end: {"clean"}, seen: {bill[r]}] \cup [end: {"cut"}, seen: 0..bill[r]]
    \cup [end: {"blank"}, seen: {0}]

EndStream(r) ==
  /\ At(r, "stream")
  /\ \E tap \in Taps(r) : tapped' = [tapped EXCEPT ![r] = tap]
  /\ Goto(r, IF r \in held THEN "settleShared" ELSE "settleTask")
  /\ UNCHANGED <<task, file, process, holds, resolvedAt, wire, enforced, held>>

\* A spawned renewal may still run after the stream ended.
Renew(r) ==
  /\ up
  /\ pc[r] \in Pump /\ r \in held
  /\ holds[r].state = "active" /\ holds[r].expiresAt > now
  /\ holds' = [holds EXCEPT ![r].expiresAt = now + TTL]
  /\ UNCHANGED <<task, file, process, resolvedAt, wire, request>>

\* Mutant: a cut response books what was seen of it.
SharedAmountsSeen(r) ==
  IF tapped[r].end = "blank" \/ file \notin {"hooks", "gateway"} THEN {Worst} ELSE {tapped[r].seen}

\* settle_amount_for: a cut response books all the output it could still have
\* produced; nothing readable, or nothing to price with, books the reservation.
SharedAmounts(r) ==
  CASE file \in {"hooks", "gateway"} /\ tapped[r].end = "clean" -> {tapped[r].seen}
    [] file \in {"hooks", "gateway"} /\ tapped[r].end = "cut"   -> bill[r]..Worst
    [] OTHER                                                    -> {Worst}

SettleShared(r) ==
  /\ At(r, "settleShared")
  /\ \/ /\ holds[r].state \in {"active", "expired"}
        /\ \E amount \in SharedAmounts(r) :
             holds' = [holds EXCEPT ![r] =
               Pool!Settled(@, amount, IF tapped[r].end = "clean" THEN "known" ELSE "unknown",
                            now, None, None, None)]
     \/ (holds[r].state \in {"settled", "released"} \/ TRUE \in LedgerFails) /\ holds' = holds
  /\ Goto(r, "settleTask")
  /\ UNCHANGED <<task, file, process, resolvedAt, wire, enforced, held, tapped>>

\* The task books the last usage observed, the reserved amount if none was.
SettleTask(r) ==
  /\ At(r, "settleTask")
  /\ \/ /\ Settle(RowOf(r), IF tapped[r].end = "blank" THEN None ELSE tapped[r].seen)
        /\ tapped' = tapped
     \/ /\ rows[RowOf(r)].state \in {"settled", "released"} \/ TRUE \in LedgerFails
        /\ UNCHANGED task
        /\ tapped' = [tapped EXCEPT ![r] = None]
  /\ Goto(r, "over")
  /\ UNCHANGED <<file, process, holds, resolvedAt, wire, enforced, held>>

-----------------------------------------------------------------------------
GwNext ==
  \/ Start \/ Crash \/ GwTick \/ Reconcile \/ Sweep
  \/ \E f \in Files : EditFile(f)
  \/ \E r \in Requests :
       \/ Arrive(r) \/ AskMode(r) \/ Authorize(r) \/ SharedReserve(r)
       \/ Send(r) \/ Fail(r) \/ Receive(r) \/ Refresh(r)
       \/ ReleaseTask(r) \/ ReleaseShared(r) \/ Cancel(r)
       \/ EndStream(r) \/ Renew(r) \/ SettleShared(r) \/ SettleTask(r)
       \/ \E cost \in Costs : Serve(r, cost)
       \/ \E status \in {"unauthorized", "error"} : Reject(r, status)

GwSpec == GwInit /\ [][GwNext]_gwVars
-----------------------------------------------------------------------------
\* Every variable is well typed, and exactly the handlers in flight have a permit.
GwTypeOK ==
  /\ TypeOK
  /\ file \in Files
  /\ boot \in 0..MaxBoots /\ up \in BOOLEAN /\ enforcedSeen \in BOOLEAN
  /\ holds \in [Requests -> Opt(Pool!Row)]
  /\ pc \in [Requests -> {"idle", "over"} \cup Handler \cup Pump]
  /\ enforced \subseteq Requests /\ held \subseteq Requests /\ retried \subseteq Requests
  /\ permits = {r \in Requests : pc[r] \in Handler}
  /\ resolvedAt \in Nat
  /\ reply \in [Requests -> {"none", "sent", "ok", "unauthorized", "error"}]
  /\ bill \in [Requests -> Nat]
  /\ tapped \in [Requests -> Opt([end: {"clean", "cut", "blank"}, seen: Nat])]

\* The hard cap: what the provider bills for requests that hold shared capacity
\* stays within the month's cap, through dropped handlers, late answers, lapsed
\* leases, failed settlements, a dead process and the next one's sweep.
SpendWithinCap ==
  Sum([r \in Requests |-> IF holds[r] # None THEN bill[r] ELSE 0]) <= Cap

\* Work the provider billed never leaves the shared pool: its hold is live or
\* booked for at least the bill.
BilledStaysCounted ==
  \A r \in Requests : bill[r] > 0 /\ holds[r] # None =>
    \/ holds[r].state = "active"
    \/ holds[r].state = "settled" /\ holds[r].settled >= bill[r]

\* A request that was told the cap applies goes to the provider only under a
\* hold, however the file is edited between the two readings of it.
EnforcedGoesUnderHold ==
  \A r \in enforced : pc[r] \in {"send", "upstream", "refresh"} \cup Pump => holds[r] # None

Books(row, tap, cost) ==
  /\ row.state = "settled"
  /\ tap.end = "clean" => row.settled = cost
  /\ tap.end = "blank" => row.settled >= cost

\* A request the provider served is booked on the task's ledger: a response read to its
\* end for exactly its bill, an unreadable one for no less, a replan, a restart and the
\* lapse of the reservation while the response streamed notwithstanding.  Only a handler
\* or pump that dies, or whose settlement fails, leaves the reservation to lapse; no
\* path releases it.
ServedIsBooked ==
  \A r \in Requests : reply[r] = "ok" =>
    /\ rows[RowOf(r)].state # "released"
    /\ pc[r] = "over" /\ tapped[r] # None => Books(rows[RowOf(r)], tapped[r], bill[r])

-----------------------------------------------------------------------------
(* The invariant the proofs use: what the properties above need of the       *)
(* handler's position, the provider's answer and the rows, to be inductive.  *)

\* Not waiting for an answer: nothing sent, or the answer was a refusal.
Unsent == {"idle", "mode", "authorize", "shared", "send", "refresh", "releaseTask", "releaseShared"}
Reserved == {"shared", "send", "upstream", "refresh", "releaseTask", "releaseShared"} \cup Pump
Labels == {"idle", "over"} \cup Handler \cup Pump
HasRow(r) == \E i \in Ids : rows[i] # None /\ rows[i].key = r

\* Every task row the gateway writes: no plan, nothing drawn from the reserve.
TaskRow ==
  [task: {Task}, plan: {None}, key: Requests, amount: {Worst}, drawn: {0},
   state: {"active", "settled", "released", "expired"}, settled: Opt(Nat),
   expiresAt: Nat, late: BOOLEAN]

\* Every hold: booked when it lapses, so never expired.
Hold ==
  [pool: {"month"}, who: {Local}, key: [boot: Nat, request: Requests], amount: {Worst},
   state: {"active", "settled", "released"}, settled: Opt(Nat),
   usage: Opt({"known", "unknown"}), kind: {"hold"}, lane: {"none"}, source: {"gateway"},
   expiresAt: Nat, settledAt: Opt(Nat), releasedAt: Opt(Nat), mark: {None}]

ASSUME NullAssumption == None \notin TaskRow \cup Hold

TypesInv ==
  /\ now \in Nat /\ boot \in Nat /\ issued \in Nat
  /\ rows \in [Ids -> Opt(TaskRow)]
  /\ holds \in [Requests -> Opt(Hold)]
  /\ pc \in [Requests -> Labels] /\ enforced \subseteq Requests
  /\ reply \in [Requests -> {"none", "sent", "ok", "unauthorized", "error"}]
  /\ bill \in [Requests -> 0..Worst]
  /\ tapped \in [Requests -> Opt([end: {"clean", "cut", "blank"}, seen: Nat])]

\* One row a request, written before anything is sent, released only when the
\* provider did not serve.
LedgerInv ==
  /\ \A i \in Ids : rows[i] # None => i <= issued
  /\ \A i, j \in Ids : rows[i] # None /\ rows[j] # None /\ rows[i].key = rows[j].key => i = j
  /\ \A i \in Ids : rows[i] # None /\ rows[i].state = "released" =>
       pc[rows[i].key] \in {"releaseShared", "over"} /\ reply[rows[i].key] \notin {"sent", "ok"}
  /\ \A r \in Requests : pc[r] \in Reserved \/ reply[r] # "none" => HasRow(r)

RequestInv ==
  \A r \in Requests :
    /\ pc[r] \in Unsent => reply[r] \notin {"sent", "ok"}
    /\ pc[r] \in Pump => reply[r] = "ok"
    /\ pc[r] \in {"settleShared", "settleTask"} => tapped[r] \in Taps(r)
    /\ r \in held => holds[r] # None
    /\ pc[r] \in {"releaseShared", "settleShared"} => r \in held

\* A hold is given back only unserved, and booked for its whole amount unless
\* the answer is known.
HoldsInv ==
  \A r \in Requests : holds[r] # None =>
    /\ holds[r].state = "released" => pc[r] = "over" /\ reply[r] \notin {"sent", "ok"}
    /\ holds[r].state = "settled" =>
         /\ holds[r].settled \in Nat
         /\ \/ holds[r].settled = Worst
            \/ /\ pc[r] \in {"settleTask", "over"} /\ reply[r] = "ok"
               /\ holds[r].settled >= bill[r]

EnforcedInv ==
  /\ enforced # {} => enforcedSeen
  /\ ~up => enforced = {}
  /\ EnforcedGoesUnderHold

\* What a hold takes of the cap.
Claim(hold) ==
  IF hold = None THEN 0
  ELSE IF hold.state = "active" THEN Worst
  ELSE IF hold.state = "settled" THEN hold.settled ELSE 0

ClaimsWithinCap == Sum([r \in Requests |-> Claim(holds[r])]) <= Cap

\* What was billed is known to have been served, unless answers are lost.
BillInv == \A r \in Requests : bill[r] > 0 => reply[r] = "ok"

\* What a pump saw is kept only when its settlement booked it.
BookedInv ==
  \A r \in Requests : tapped[r] # None =>
    /\ pc[r] \in {"settleShared", "settleTask", "over"}
    /\ reply[r] = "ok" /\ tapped[r] \in Taps(r)
    /\ pc[r] = "over" =>
         \A i \in Ids : rows[i] # None /\ rows[i].key = r => Books(rows[i], tapped[r], bill[r])

GwIInv == TypesInv /\ LedgerInv /\ RequestInv /\ HoldsInv /\ EnforcedInv
=============================================================================
