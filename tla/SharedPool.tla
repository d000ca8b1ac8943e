----------------------------- MODULE SharedPool -----------------------------
(***************************************************************************)
(* The shared quota pool of the ledger (crates/ledger/src/shared_pool.rs): *)
(* LedgerStore's operations on pools, holds, charges, prompt bindings and  *)
(* provider snapshots.  Each operation is one BEGIN IMMEDIATE transaction  *)
(* (ledger/src/transaction.rs), so each is one action; any process that    *)
(* has the ledger open (daemon, gateway authority, CLI) may call any of    *)
(* them at any time, on any reservation id.  A call that is refused or     *)
(* fails changes no table and is a stuttering step.                        *)
(***************************************************************************)
EXTENDS SharedPoolTable

CONSTANTS
  Amounts,      \* amounts callers ask for, settle at and charge
  Usages,       \* whether a settlement says its amount was measured
  Caps,         \* capacities pools are created with
  TTLs,         \* hold lifetimes, already clamped to MAX_TTL_SECS
  Gates,        \* admission gates callers use
  Prompts,      \* host prompt ids
  Readings,     \* [age, life, used, limit]: provider readings delivered
  Boots,        \* gateway boot ids
  BootOf,       \* the gw:<boot>: prefix of each key, None for other keys
  MaxTime       \* bound: the clock

Gate ==
  [source: {"stored", "provider"}, cap: {None}, sessionCap: Opt(0..U64Max)]
    \cup [source: {"local"}, cap: 0..U64Max, sessionCap: Opt(0..U64Max)]
\* A negative age is a reading stamped ahead of the ledger's clock.
Reading == [age: Int, life: Opt(Nat), used: Opt(Nat), limit: Opt(Nat)]

ASSUME InputAssumption ==
  /\ Amounts \subseteq Nat
  /\ Usages \subseteq {"known", "unknown"}
  /\ Caps \subseteq Nat
  /\ TTLs \subseteq Nat
  /\ Gates \subseteq Gate
  /\ Readings \subseteq Reading
  /\ MaxTime \in Nat
  /\ None \notin Prompts /\ None \notin Boots
  /\ BootOf \in [Keys -> Opt(Boots)]

VARIABLES
  now,          \* the caller's clock
  pools,        \* quota_pools
  rows,         \* shared_pool_reservations
  issued,       \* how many rows were ever inserted
  snaps,        \* shared_pool_provider_snapshots
  prompts       \* shared_hold_prompts: (executor, prompt) -> hold

vars == <<now, pools, rows, issued, snaps, prompts>>

Init ==
  /\ now = 0
  /\ pools = [p \in Pools |-> None]
  /\ rows = [i \in Ids |-> None]
  /\ issued = 0
  /\ snaps = [p \in Pools |-> None]
  /\ prompts = [b \in Executors \X Prompts |-> None]

-----------------------------------------------------------------------------
Tick ==
  /\ now < MaxTime
  /\ now' = now + 1
  /\ UNCHANGED <<pools, rows, issued, snaps, prompts>>

\* Mutant: a bare cast wraps a capacity the column cannot hold.
EnsurePoolWraps(p, unit, cap) ==
  /\ pools[p] = None
  /\ pools' = [pools EXCEPT ![p] =
       [unit |-> unit, cap |-> IF cap > I64Max THEN cap - U64Max - 1 ELSE cap]]
  /\ UNCHANGED <<now, rows, issued, snaps, prompts>>

\* ON CONFLICT DO NOTHING: the first capacity and unit stay for ever.
EnsurePool(p, unit, cap) ==
  /\ cap <= I64Max
  /\ pools[p] = None
  /\ pools' = [pools EXCEPT ![p] = [unit |-> unit, cap |-> cap]]
  /\ UNCHANGED <<now, rows, issued, snaps, prompts>>

Insert(row) ==
  /\ issued < MaxRows
  /\ issued' = issued + 1
  /\ rows' = [rows EXCEPT ![issued + 1] = row]

\* record_hold_prompt_tx: a re-sent prompt is pointed to the newest hold.
PromptBound(who, prompt, i) ==
  IF prompt = None THEN prompts ELSE [prompts EXCEPT ![<<who, prompt>>] = i]

Grantable(p, who, key, amount, unit, gate) ==
  /\ KeyRows(rows, p, who.principal, key) = {}
  /\ pools[p] # None
  /\ unit = pools[p].unit
  /\ GateUsable(gate, snaps[p], now)
  /\ SessionCapAdmits(gate, rows, p, who, amount)
  /\ Admits(gate, rows, p, pools[p], snaps[p], now, amount)
  /\ amount <= I64Max

Reserve(p, who, key, amount, unit, ttl, lane, source, gate, prompt) ==
  /\ Grantable(p, who, key, amount, unit, gate)
  /\ Insert(HoldRow(p, who, key, amount, now + ttl, lane, source))
  /\ prompts' = PromptBound(who, prompt, issued + 1)
  /\ UNCHANGED <<now, pools, snaps>>

\* AlreadyGranted: the retry binds its prompt only to a live hold of its own session.
RetryReserve(p, who, key, prompt) ==
  \E i \in KeyRows(rows, p, who.principal, key) :
    /\ rows[i].kind = "hold"
    /\ rows[i].state = "active"
    /\ rows[i].who = who
    /\ prompts' = PromptBound(who, prompt, i)
    /\ UNCHANGED <<now, pools, rows, issued, snaps>>

Charge(p, who, key, amount, unit, usage, lane, source, mark) ==
  /\ amount <= I64Max
  /\ KeyRows(rows, p, who.principal, key) = {}
  /\ pools[p] # None
  /\ unit = pools[p].unit
  /\ Insert(ChargeRow(p, who, key, amount, usage, now, lane, source, mark))
  /\ UNCHANGED <<now, pools, snaps, prompts>>

\* An identical replay adopts a watermark the first charge did not have.
ReplayCharge(p, who, key, amount, usage, lane, source, mark) ==
  \E i \in KeyRows(rows, p, who.principal, key) :
    /\ rows[i].kind = "charge"
    /\ rows[i].state = "settled"
    /\ rows[i].settled = amount
    /\ rows[i].usage = usage
    /\ rows[i].who.session = who.session
    /\ rows[i].lane = lane
    /\ rows[i].source = source
    /\ mark # None
    /\ rows[i].mark = None
    /\ rows' = [rows EXCEPT ![i].mark = mark]
    /\ UNCHANGED <<now, pools, issued, snaps, prompts>>

\* actual = None settles at the reserved amount.  A late settlement of an
\* expired hold is recorded too, and leaves releasedAt as the sweep set it.
Settle(i, actual, usage, lane, source, mark) ==
  LET value == IF actual = None THEN rows[i].amount ELSE actual IN
  /\ rows[i] # None
  /\ rows[i].state \in {"active", "expired"}
  /\ value <= I64Max
  /\ actual = None => usage = "unknown"
  /\ rows' = [rows EXCEPT ![i] = Settled(@, value, usage, now, lane, source, mark)]
  /\ UNCHANGED <<now, pools, issued, snaps, prompts>>

Release(i) ==
  /\ rows[i] # None
  /\ rows[i].state = "active"
  /\ rows' = [rows EXCEPT ![i] = Released(@, now)]
  /\ UNCHANGED <<now, pools, issued, snaps, prompts>>

\* An admission that failed after its fresh grant: release and unbind atomically.
ReleaseAndForget(i) ==
  /\ rows[i] # None
  /\ rows[i].state = "active"
  /\ rows' = [rows EXCEPT ![i] = Released(@, now)]
  /\ prompts' = [b \in DOMAIN prompts |-> IF prompts[b] = i THEN None ELSE prompts[b]]
  /\ UNCHANGED <<now, pools, issued, snaps>>

Renew(i, who, ttl, prompt) ==
  /\ rows[i] # None
  /\ rows[i].who = who
  /\ rows[i].state = "active"
  /\ rows[i].expiresAt > now
  /\ rows' = [rows EXCEPT ![i].expiresAt = now + ttl]
  /\ prompts' = PromptBound(who, prompt, i)
  /\ UNCHANGED <<now, pools, issued, snaps>>

ExpireStale ==
  /\ rows' = Swept(rows, now)
  /\ UNCHANGED <<now, pools, issued, snaps, prompts>>

\* Gateway start-up: every active gateway hold of another boot is booked.
IsOrphan(row, boot) ==
  row # None /\ row.state = "active" /\ IsGatewayHold(row) /\ BootOf[row.key] # boot

SettleOrphans(boot) ==
  /\ rows' = [i \in Ids |-> IF IsOrphan(rows[i], boot) THEN Booked(rows[i], now) ELSE rows[i]]
  /\ UNCHANGED <<now, pools, issued, snaps, prompts>>

\* A reading observed at `at`; strictly older than the stored one is ignored,
\* a tie overwrites.  Only a disclosed reading has a limit and a unit to match.
IngestSnapshot(p, at, validUntil, used, limit, unit) ==
  /\ at <= now
  /\ used # None => used <= I64Max /\ (limit # None => limit <= I64Max)
  /\ pools[p] # None
  /\ used # None => unit = pools[p].unit
  /\ snaps[p] # None => at >= snaps[p].observedAt
  /\ snaps' = [snaps EXCEPT ![p] =
       [observedAt |-> at, validUntil |-> validUntil, used |-> used,
        limit |-> IF used = None THEN None ELSE limit]]
  /\ UNCHANGED <<now, pools, rows, issued, prompts>>

\* The readings a provider poll can deliver, possibly late.
DeliverReading(p, r, unit) ==
  /\ r.age <= now
  /\ IngestSnapshot(p, now - r.age,
                    IF r.life = None THEN None ELSE now - r.age + r.life,
                    r.used, r.limit, unit)

Next ==
  \/ Tick
  \/ \E p \in Pools, u \in Units, c \in Caps : EnsurePool(p, u, c)
  \/ \E p \in Pools, who \in Executors, k \in Keys, a \in Amounts, u \in Units, t \in TTLs,
        l \in Opt(Lanes), s \in Opt(Sources), g \in Gates, m \in Opt(Prompts) :
        Reserve(p, who, k, a, u, t, l, s, g, m)
  \/ \E p \in Pools, who \in Executors, k \in Keys, m \in Prompts : RetryReserve(p, who, k, m)
  \/ \E p \in Pools, who \in Executors, k \in Keys, a \in Amounts, u \in Units,
        usage \in Usages, l \in Opt(Lanes), s \in Opt(Sources), w \in Opt(Marks) :
        Charge(p, who, k, a, u, usage, l, s, w)
  \/ \E p \in Pools, who \in Executors, k \in Keys, a \in Amounts,
        usage \in Usages, l \in Opt(Lanes), s \in Opt(Sources), w \in Marks :
        ReplayCharge(p, who, k, a, usage, l, s, w)
  \/ \E i \in Ids, a \in Opt(Amounts), usage \in Usages,
        l \in Opt(Lanes), s \in Opt(Sources), w \in Opt(Marks) : Settle(i, a, usage, l, s, w)
  \/ \E i \in Ids : Release(i)
  \/ \E i \in Ids : ReleaseAndForget(i)
  \/ \E i \in Ids, who \in Executors, t \in TTLs, m \in Opt(Prompts) : Renew(i, who, t, m)
  \/ ExpireStale
  \/ \E b \in Boots : SettleOrphans(b)
  \/ \E p \in Pools, r \in Readings, u \in Units : DeliverReading(p, r, u)

Spec == Init /\ [][Next]_vars
-----------------------------------------------------------------------------
(* Type invariant *)

\* Every table holds well-typed rows; a row exists exactly for the ids issued.
TypeOK ==
  /\ now \in Nat
  /\ pools \in [Pools -> Opt(Pool)]
  /\ rows \in [Ids -> Opt(Row)]
  /\ issued \in 0..MaxRows
  /\ snaps \in [Pools -> Opt(Snapshot)]
  /\ prompts \in [Executors \X Prompts -> Opt(Ids)]

-----------------------------------------------------------------------------
(* Safety *)

\* The capacity a granted hold still occupies.  Spend beyond what was granted
\* (a charge, an overrun, a settlement that came after the sweep freed the
\* hold) is recorded but was never admitted, so it does not count here.
HeldOf(row) ==
  IF row.kind # "hold" THEN 0
  ELSE IF row.state = "active" THEN row.amount
  ELSE IF row.state = "settled" /\ row.releasedAt = None THEN MinOf(row.settled, row.amount)
  ELSE 0

HeldPart(table, p) ==
  [i \in Ids |-> IF table[i] # None /\ table[i].pool = p THEN HeldOf(table[i]) ELSE 0]
SessionHeldPart(table, p, who) ==
  [i \in Ids |-> IF table[i] # None /\ table[i].pool = p /\ table[i].who = who
                 THEN HeldOf(table[i]) ELSE 0]

\* AC1 of the module docs, no combined oversubscription: whatever the order of
\* reserves, settlements, sweeps and charges of all sessions, the admitted part
\* of all holds of a pool stays within a capacity some gate decided against,
\* and, when every caller passes a cooperative session cap, the holds of a
\* session within the largest of them.
HeldWithinCapacity ==
  /\ \A p \in Pools : pools[p] # None =>
       \E c \in {pools[p].cap} \cup {g.cap : g \in {h \in Gates : h.source = "local"}} :
         Sum(HeldPart(rows, p)) <= c
  /\ (\A g \in Gates : g.sessionCap # None) =>
       \A p \in Pools, who \in Executors :
         Sum(SessionHeldPart(rows, p, who)) > 0 =>
           \E g \in Gates : Sum(SessionHeldPart(rows, p, who)) <= g.sessionCap

\* Retries and replays, before or after the hold is final, never insert a
\* second row for one (pool, principal, key).
KeyNamesOneRow ==
  \A i, j \in Ids :
    /\ rows[i] # None /\ rows[j] # None
    /\ rows[i].pool = rows[j].pool
    /\ rows[i].who.principal = rows[j].who.principal
    /\ rows[i].key = rows[j].key
    => i = j

\* Sums that no longer fit an integer column make admission refuse, never
\* admit more than exact arithmetic would.
SaturationFailsClosed ==
  \A p \in Pools, g \in Gates, a \in Amounts \ {0} :
    /\ pools[p] # None
    /\ GateUsable(g, snaps[p], now)
    /\ Admits(g, rows, p, pools[p], snaps[p], now, a)
    => Sum(SettledPart(rows, p)) + Sum(ActivePart(rows, p)) + a
         <= EffectiveCapacity(g, pools[p], snaps[p])

-----------------------------------------------------------------------------
(* What a step may never do *)

StateSuccessors(state) ==
  {state} \cup IF state = "active" THEN {"settled", "released", "expired"}
              ELSE IF state = "expired" THEN {"settled"} ELSE {}

RowEvolves(old, new, time) ==
  /\ new # None
  /\ \A f \in {"pool", "who", "key", "amount", "kind"} : new[f] = old[f]
  /\ new.state \in StateSuccessors(old.state)
  /\ IsGatewayHold(old) => new.state # "expired"
  /\ old.lane # None => new.lane = old.lane
  /\ old.source # None => new.source = old.source
  /\ old.state = "settled" =>
       /\ new.settled = old.settled
       /\ new.usage = old.usage
       /\ new.settledAt = old.settledAt
       /\ old.mark # None => new.mark = old.mark
  /\ new.expiresAt # old.expiresAt => old.state = "active" /\ old.expiresAt > time

\* Spend is evidence: no call rewrites a recorded settlement, re-attributes a
\* hold, revives a final or lapsed one, or moves it to another owner; the only
\* way out of a swept hold is the late settlement that records its real cost.
\* A gateway request may still be streaming when its hold lapses: no sweep hands
\* its capacity back unaccounted (HORO-2275).
RowHistory ==
  [][\A i \in Ids : rows[i] # None => RowEvolves(rows[i], rows'[i], now)]_vars

\* AC1 of the module docs, as a whole: what is held fits, and whatever a gate
\* would admit next fits as well.
NoOversubscription == HeldWithinCapacity /\ SaturationFailsClosed
=============================================================================
