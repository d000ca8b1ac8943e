-------------------------- MODULE SharedPoolTable --------------------------
(***************************************************************************)
(* The quota-pool tables of the ledger as values: rows of                  *)
(* shared_pool_reservations, quota_pools, the provider snapshots, and the  *)
(* arithmetic every admission decision is made with (crates/ledger/src/    *)
(* shared_pool.rs, crates/domain/src/shared_pool.rs).  No state: the       *)
(* specifications that keep these tables in variables use these operators. *)
(*                                                                         *)
(* A reservation id is a uuid in the code; here it is the position at      *)
(* which the row was inserted, 1..MaxRows.  Timestamps are naturals        *)
(* (the code compares parsed OffsetDateTime values, never RFC3339 text).   *)
(***************************************************************************)
EXTENDS Sums

CONSTANTS
  Pools,        \* pool ids
  Executors,    \* [principal, session] records: who reserves and charges
  Keys,         \* idempotency keys
  Lanes,        \* resolved (executor_kind, agent_id) attributions
  Sources,      \* charge_source values; "gateway" is the one the code tests
  Units,        \* quota units a pool may be denominated in
  Marks,        \* transcript watermarks a settlement may carry
  None,         \* SQL NULL / Option::None
  I64Max,       \* i64::MAX, scaled down in the models
  MaxRows       \* bound: rows ever inserted

ASSUME WidthAssumption == I64Max \in Nat \ {0}
ASSUME RowBoundAssumption == MaxRows \in Nat
ASSUME NoneAssumption ==
  /\ None \notin Nat
  /\ None \notin Executors /\ None \notin Keys /\ None \notin Lanes
  /\ None \notin Sources /\ None \notin Units /\ None \notin Marks
  /\ None \notin {"known", "unknown"}

U64Max == 2 * I64Max + 1
I64Min == -I64Max - 1

Ids == 1..MaxRows
RowStates == {"active", "settled", "released", "expired"}
Opt(S) == S \cup {None}

Row ==
  [pool: Pools, who: Executors, key: Keys, amount: 0..I64Max,
   state: RowStates, settled: Opt(0..I64Max), usage: Opt({"known", "unknown"}),
   kind: {"hold", "charge"}, lane: Opt(Lanes), source: Opt(Sources),
   expiresAt: Nat, settledAt: Opt(Nat), releasedAt: Opt(Nat), mark: Opt(Marks)]

ASSUME NoRowAssumption == None \notin Row

Pool == [unit: Units, cap: 0..I64Max]

\* used = None is GaugeReading::Undisclosed.
Snapshot ==
  [observedAt: Nat, validUntil: Opt(Nat), used: Opt(0..I64Max), limit: Opt(0..I64Max)]

MinOf(a, b) == IF a <= b THEN a ELSE b
Monus(a, b) == IF a >= b THEN a - b ELSE 0

-----------------------------------------------------------------------------
(* Sums over the table *)

Sum(f) == SumOf(f, MaxRows)

\* What one row adds to the settled and to the active total of pool p.
SettledPart(rows, p) ==
  [i \in Ids |-> IF rows[i] # None /\ rows[i].pool = p /\ rows[i].state = "settled"
                 THEN rows[i].settled ELSE 0]
ActivePart(rows, p) ==
  [i \in Ids |-> IF rows[i] # None /\ rows[i].pool = p /\ rows[i].state = "active"
                 THEN rows[i].amount ELSE 0]

\* saturating_amount_sum: the exact SUM when it fits, else a u64-saturating one.
SaturatingSum(f) == MinOf(Sum(f), U64Max)

\* Settled rows the snapshot observed at t could already include.
SettledBefore(rows, p, t) ==
  SaturatingSum([i \in Ids |->
    IF rows[i] # None /\ rows[i].pool = p /\ rows[i].state = "settled" /\ rows[i].settledAt <= t
    THEN rows[i].settled ELSE 0])

\* Capacity the provider reports used beyond what the ledger had settled.
ExternalOverhang(rows, p, snap, now) ==
  IF \/ snap = None
     \/ snap.validUntil # None /\ snap.validUntil <= now
     \/ snap.used = None
  THEN 0
  ELSE Monus(snap.used, SettledBefore(rows, p, snap.observedAt))

-----------------------------------------------------------------------------
(* Admission: a gate is [source, cap, sessionCap]; "stored" is an ungated    *)
(* reserve_shared, "local" CapacitySource::LocalConfigured, "provider"       *)
(* CapacitySource::ProviderSnapshot.                                         *)

SnapshotUsable(snap, now) ==
  /\ snap # None
  /\ snap.used # None
  /\ snap.validUntil # None
  /\ snap.validUntil > now
  /\ snap.limit # None

GateUsable(gate, snap, now) == gate.source = "provider" => SnapshotUsable(snap, now)

EffectiveCapacity(gate, pool, snap) ==
  IF gate.source = "stored" THEN pool.cap
  ELSE IF gate.source = "local" THEN gate.cap ELSE MinOf(pool.cap, snap.limit)

Overhang(gate, rows, p, snap, now) ==
  IF gate.source = "local" THEN 0 ELSE ExternalOverhang(rows, p, snap, now)

Clamp(x) == IF x < I64Min THEN I64Min ELSE MinOf(x, I64Max)

\* PoolAdmission::remaining, never clamped at zero.
Remaining(cap, settled, active, overhang) == Clamp(cap - settled - active - overhang)

\* Mutant: holds in flight are not subtracted.
AdmitsIgnoringActive(gate, rows, p, pool, snap, now, amount) ==
  amount <= Remaining(EffectiveCapacity(gate, pool, snap),
                      SaturatingSum(SettledPart(rows, p)), 0,
                      Overhang(gate, rows, p, snap, now))

Admits(gate, rows, p, pool, snap, now, amount) ==
  amount <= Remaining(EffectiveCapacity(gate, pool, snap),
                      SaturatingSum(SettledPart(rows, p)),
                      SaturatingSum(ActivePart(rows, p)),
                      Overhang(gate, rows, p, snap, now))

\* session_committed_tx: two plain SUMs; either overflowing i64 is an error.
SessionSum(f, rows, who) == Sum([i \in Ids |-> IF rows[i] # None /\ rows[i].who = who THEN f[i] ELSE 0])

SessionCapAdmits(gate, rows, p, who, amount) ==
  gate.sessionCap # None =>
    LET active  == SessionSum(ActivePart(rows, p), rows, who)
        settled == SessionSum(SettledPart(rows, p), rows, who)
    IN  /\ active <= I64Max
        /\ settled <= I64Max
        /\ MinOf(active + settled + amount, U64Max) <= gate.sessionCap

-----------------------------------------------------------------------------
(* Rows *)

\* Mutant: a key is forgotten once its row is final.
KeyRowsActiveOnly(rows, p, principal, key) ==
  {i \in Ids : /\ rows[i] # None
               /\ rows[i].pool = p
               /\ rows[i].who.principal = principal
               /\ rows[i].key = key
               /\ rows[i].state = "active"}

\* The row an idempotency key names: scoped to pool and principal.
KeyRows(rows, p, principal, key) ==
  {i \in Ids : /\ rows[i] # None
               /\ rows[i].pool = p
               /\ rows[i].who.principal = principal
               /\ rows[i].key = key}

IsGatewayHold(row) == row.source = "gateway" /\ row.kind = "hold"

HoldRow(p, who, key, amount, expiresAt, lane, source) ==
  [pool |-> p, who |-> who, key |-> key, amount |-> amount, state |-> "active",
   settled |-> None, usage |-> None, kind |-> "hold", lane |-> lane, source |-> source,
   expiresAt |-> expiresAt, settledAt |-> None, releasedAt |-> None, mark |-> None]

ChargeRow(p, who, key, amount, usage, now, lane, source, mark) ==
  [pool |-> p, who |-> who, key |-> key, amount |-> amount, state |-> "settled",
   settled |-> amount, usage |-> usage, kind |-> "charge", lane |-> lane, source |-> source,
   expiresAt |-> now, settledAt |-> now, releasedAt |-> None, mark |-> mark]

\* A settlement keeps the lane and source a hold was granted with.
Settled(row, value, usage, now, lane, source, mark) ==
  [row EXCEPT !.state = "settled", !.settled = value, !.usage = usage, !.settledAt = now,
              !.lane = IF row.lane # None THEN row.lane ELSE lane,
              !.source = IF row.source # None THEN row.source ELSE source,
              !.mark = mark]

\* Booked at the reserved amount with the usage unknown.
Booked(row, now) ==
  [row EXCEPT !.state = "settled", !.settled = row.amount, !.usage = "unknown",
              !.settledAt = now]

Released(row, now) == [row EXCEPT !.state = "released", !.releasedAt = now]

\* Mutant: the sweep frees every lapsed hold alike.
SweptRowFreesAll(row, now) ==
  IF row = None \/ row.state # "active" \/ row.expiresAt > now THEN row
  ELSE [row EXCEPT !.state = "expired", !.releasedAt = now]

\* expire_stale_shared_pool_reservations on one row.
SweptRow(row, now) ==
  IF row = None \/ row.state # "active" \/ row.expiresAt > now THEN row
  ELSE IF IsGatewayHold(row) THEN Booked(row, now)
       ELSE [row EXCEPT !.state = "expired", !.releasedAt = now]

Swept(rows, now) == [i \in Ids |-> SweptRow(rows[i], now)]
=============================================================================
