-------------------------- MODULE SharedPool_proofs --------------------------
(***************************************************************************)
(* What the shared pool promises, for every value of the constants.        *)
(*                                                                         *)
(* NoOversubscription is not inductive: that a settlement frees no more    *)
(* than was held needs to know that a swept hold notes when it was freed   *)
(* and a settled one its amount (RowFine); that an insertion adds only its *)
(* own amount, that nothing was stored there before (InOrder); that a pool *)
(* is created empty, that every row names a pool.  A reservation adds what *)
(* it was admitted for, and the exact sums behind the saturated ones it    *)
(* was compared with bound what is held.                                   *)
(***************************************************************************)
EXTENDS SharedPool, Sums_proofs

\* The row constructors and transformers build well-typed rows.
LEMMA HoldRowType ==
  ASSUME NEW p \in Pools, NEW who \in Executors, NEW k \in Keys, NEW a \in 0..I64Max,
         NEW e \in Nat, NEW l \in Opt(Lanes), NEW s \in Opt(Sources)
  PROVE  HoldRow(p, who, k, a, e, l, s) \in Row
  BY DEF HoldRow, Row, RowStates, Opt

LEMMA ChargeRowType ==
  ASSUME NEW p \in Pools, NEW who \in Executors, NEW k \in Keys, NEW a \in 0..I64Max,
         NEW u \in {"known", "unknown"}, NEW t \in Nat,
         NEW l \in Opt(Lanes), NEW s \in Opt(Sources), NEW w \in Opt(Marks)
  PROVE  ChargeRow(p, who, k, a, u, t, l, s, w) \in Row
  BY DEF ChargeRow, Row, RowStates, Opt

LEMMA SettledType ==
  ASSUME NEW r \in Row, NEW a \in 0..I64Max, NEW u \in {"known", "unknown"}, NEW t \in Nat,
         NEW l \in Opt(Lanes), NEW s \in Opt(Sources), NEW w \in Opt(Marks)
  PROVE  Settled(r, a, u, t, l, s, w) \in Row
<1> DEFINE lane == IF r.lane # None THEN r.lane ELSE l
           source == IF r.source # None THEN r.source ELSE s
<1>1. lane \in Opt(Lanes) /\ source \in Opt(Sources)
  BY DEF Row
<1> HIDE DEF lane, source
<1>2. [r EXCEPT !.state = "settled", !.settled = a, !.usage = u, !.settledAt = t,
                !.lane = lane, !.source = source, !.mark = w] \in Row
  BY <1>1 DEF Row, RowStates, Opt
<1> QED
  BY <1>2 DEF Settled, lane, source

LEMMA BookedType ==
  ASSUME NEW r \in Row, NEW t \in Nat
  PROVE  Booked(r, t) \in Row
  BY DEF Booked, Row, RowStates, Opt

LEMMA ReleasedType ==
  ASSUME NEW r \in Row, NEW t \in Nat
  PROVE  Released(r, t) \in Row
  BY DEF Released, Row, RowStates, Opt

LEMMA SweptRowType ==
  ASSUME NEW r \in Opt(Row), NEW t \in Nat
  PROVE  SweptRow(r, t) \in Opt(Row)
<1>1. CASE r = None
  BY <1>1 DEF SweptRow, Opt
<1>2. CASE r \in Row
  <2>1. [r EXCEPT !.state = "expired", !.releasedAt = t] \in Row
    BY <1>2 DEF Row, RowStates, Opt
  <2> QED
    BY <1>2, <2>1, BookedType DEF SweptRow, Opt
<1> QED
  BY <1>1, <1>2 DEF Opt

-----------------------------------------------------------------------------
LEMMA TypeOKInit == Init => TypeOK
  BY RowBoundAssumption DEF Init, TypeOK, Opt

LEMMA TypeOKInsert ==
  ASSUME TypeOK, NEW r \in Row, Insert(r)
  PROVE  rows' \in [Ids -> Opt(Row)] /\ issued' \in 0..MaxRows
<1>1. issued + 1 \in Ids /\ issued' \in 0..MaxRows
  BY RowBoundAssumption DEF TypeOK, Insert, Ids
<1>2. rows' = [rows EXCEPT ![issued + 1] = r]
  BY DEF Insert
<1> QED
  BY <1>1, <1>2 DEF TypeOK, Opt

LEMMA TypeOKPrompt ==
  ASSUME TypeOK, NEW who \in Executors, NEW m \in Opt(Prompts), NEW i \in Ids,
         prompts' = PromptBound(who, m, i)
  PROVE  prompts' \in [Executors \X Prompts -> Opt(Ids)]
  BY DEF TypeOK, PromptBound, Opt

LEMMA TypeOKUpdate ==
  ASSUME TypeOK, NEW i \in Ids, NEW r \in Row, rows' = [rows EXCEPT ![i] = r]
  PROVE  rows' \in [Ids -> Opt(Row)]
  BY DEF TypeOK, Opt

LEMMA TypeOKNext == TypeOK /\ [Next]_vars => TypeOK'
<1> SUFFICES ASSUME TypeOK, [Next]_vars PROVE TypeOK'
  OBVIOUS
<1>a. /\ Amounts \subseteq Nat /\ Caps \subseteq Nat /\ TTLs \subseteq Nat
      /\ Usages \subseteq {"known", "unknown"} /\ Readings \subseteq Reading
  BY InputAssumption
<1>b. I64Max \in Nat /\ MaxRows \in Nat
  BY WidthAssumption, RowBoundAssumption
<1>c. None \notin Nat
  BY NoneAssumption
<1> USE <1>a, <1>b
<1>1. CASE Tick
  BY <1>1 DEF TypeOK, Tick
<1>2. ASSUME NEW p \in Pools, NEW u \in Units, NEW c \in Caps, EnsurePool(p, u, c)
      PROVE  TypeOK'
  <2>1. [unit |-> u, cap |-> c] \in Pool
    BY <1>2 DEF EnsurePool, Pool
  <2> QED
    BY <1>2, <2>1 DEF TypeOK, EnsurePool, Opt
<1>3. ASSUME NEW p \in Pools, NEW who \in Executors, NEW k \in Keys, NEW a \in Amounts,
             NEW u \in Units, NEW t \in TTLs, NEW l \in Opt(Lanes), NEW s \in Opt(Sources),
             NEW g \in Gates, NEW m \in Opt(Prompts),
             Reserve(p, who, k, a, u, t, l, s, g, m)
      PROVE  TypeOK'
  <2>0. a <= I64Max
    BY <1>3 DEF Reserve, Grantable
  <2>1. a \in 0..I64Max /\ now + t \in Nat
    BY <2>0 DEF TypeOK
  <2>2. HoldRow(p, who, k, a, now + t, l, s) \in Row
    BY <2>1, HoldRowType
  <2>3. issued + 1 \in Ids
    BY <1>3 DEF Reserve, Insert, TypeOK, Ids
  <2>4. prompts' \in [Executors \X Prompts -> Opt(Ids)]
    BY <1>3, <2>3, TypeOKPrompt DEF Reserve
  <2> QED
    BY <1>3, <2>2, <2>4, TypeOKInsert DEF Reserve, TypeOK
<1>4. ASSUME NEW p \in Pools, NEW who \in Executors, NEW k \in Keys, NEW m \in Prompts,
             RetryReserve(p, who, k, m)
      PROVE  TypeOK'
  <2>1. PICK i \in Ids : prompts' = PromptBound(who, m, i)
    BY <1>4 DEF RetryReserve, KeyRows
  <2>2. prompts' \in [Executors \X Prompts -> Opt(Ids)]
    BY <2>1, TypeOKPrompt DEF Opt
  <2> QED
    BY <1>4, <2>2 DEF RetryReserve, TypeOK
<1>5. ASSUME NEW p \in Pools, NEW who \in Executors, NEW k \in Keys, NEW a \in Amounts,
             NEW u \in Units, NEW usage \in Usages, NEW l \in Opt(Lanes),
             NEW s \in Opt(Sources), NEW w \in Opt(Marks),
             Charge(p, who, k, a, u, usage, l, s, w)
      PROVE  TypeOK'
  <2>1. a \in 0..I64Max /\ now \in Nat /\ usage \in {"known", "unknown"}
    BY <1>5 DEF Charge, TypeOK
  <2>2. ChargeRow(p, who, k, a, usage, now, l, s, w) \in Row
    BY <2>1, ChargeRowType
  <2> QED
    BY <1>5, <2>2, TypeOKInsert DEF Charge, TypeOK
<1>6. ASSUME NEW p \in Pools, NEW who \in Executors, NEW k \in Keys, NEW a \in Amounts,
             NEW usage \in Usages, NEW l \in Opt(Lanes), NEW s \in Opt(Sources),
             NEW w \in Marks, ReplayCharge(p, who, k, a, usage, l, s, w)
      PROVE  TypeOK'
  <2>1. PICK i \in Ids : rows[i] # None /\ rows' = [rows EXCEPT ![i].mark = w]
    BY <1>6 DEF ReplayCharge, KeyRows
  <2>2. [rows[i] EXCEPT !.mark = w] \in Row
    BY <2>1 DEF TypeOK, Row, Opt
  <2> QED
    BY <1>6, <2>1, <2>2, TypeOKUpdate DEF ReplayCharge, TypeOK
<1>7. ASSUME NEW i \in Ids, NEW a \in Opt(Amounts), NEW usage \in Usages,
             NEW l \in Opt(Lanes), NEW s \in Opt(Sources), NEW w \in Opt(Marks),
             Settle(i, a, usage, l, s, w)
      PROVE  TypeOK'
  <2> DEFINE value == IF a = None THEN rows[i].amount ELSE a
  <2>1. rows[i] \in Row
    BY <1>7 DEF Settle, TypeOK, Opt
  <2>2. value \in 0..I64Max /\ usage \in {"known", "unknown"} /\ now \in Nat
    BY <1>7, <1>c, <2>1 DEF Settle, TypeOK, Row, Opt
  <2>3. Settled(rows[i], value, usage, now, l, s, w) \in Row
    BY <2>1, <2>2, SettledType
  <2> QED
    BY <1>7, <2>3, TypeOKUpdate DEF Settle, TypeOK
<1>8. ASSUME NEW i \in Ids, Release(i) \/ ReleaseAndForget(i)
      PROVE  TypeOK'
  <2>1. rows[i] \in Row /\ now \in Nat
    BY <1>8 DEF Release, ReleaseAndForget, TypeOK, Opt
  <2>2. Released(rows[i], now) \in Row
    BY <2>1, ReleasedType
  <2>3. rows' \in [Ids -> Opt(Row)]
    BY <1>8, <2>2, TypeOKUpdate DEF Release, ReleaseAndForget
  <2>4. prompts' \in [Executors \X Prompts -> Opt(Ids)]
    BY <1>8 DEF Release, ReleaseAndForget, TypeOK, Opt
  <2> QED
    BY <1>8, <2>3, <2>4 DEF Release, ReleaseAndForget, TypeOK
<1>9. ASSUME NEW i \in Ids, NEW who \in Executors, NEW t \in TTLs, NEW m \in Opt(Prompts),
             Renew(i, who, t, m)
      PROVE  TypeOK'
  <2>1. rows[i] \in Row /\ now + t \in Nat
    BY <1>9 DEF Renew, TypeOK, Opt
  <2>2. [rows[i] EXCEPT !.expiresAt = now + t] \in Row
    BY <2>1 DEF Row
  <2>3. rows' \in [Ids -> Opt(Row)]
    BY <1>9, <2>2, TypeOKUpdate DEF Renew
  <2>4. prompts' \in [Executors \X Prompts -> Opt(Ids)]
    BY <1>9, TypeOKPrompt DEF Renew
  <2> QED
    BY <1>9, <2>3, <2>4 DEF Renew, TypeOK
<1>10. CASE ExpireStale
  <2>1. \A i \in Ids : SweptRow(rows[i], now) \in Opt(Row)
    BY SweptRowType DEF TypeOK
  <2> QED
    BY <1>10, <2>1 DEF ExpireStale, Swept, TypeOK
<1>11. ASSUME NEW b \in Boots, SettleOrphans(b)
       PROVE  TypeOK'
  <2>1. \A i \in Ids :
          (IF IsOrphan(rows[i], b) THEN Booked(rows[i], now) ELSE rows[i]) \in Opt(Row)
    BY BookedType DEF TypeOK, Opt, IsOrphan
  <2> QED
    BY <1>11, <2>1 DEF SettleOrphans, TypeOK
<1>12. ASSUME NEW p \in Pools, NEW r \in Readings, NEW u \in Units, DeliverReading(p, r, u)
       PROVE  TypeOK'
  <2> DEFINE at == now - r.age
             until == IF r.life = None THEN None ELSE now - r.age + r.life
             lim == IF r.used = None THEN None ELSE r.limit
  <2>1. r.age \in Int /\ r.life \in Opt(Nat) /\ r.used \in Opt(Nat) /\ r.limit \in Opt(Nat)
    BY DEF Reading
  <2>2. at \in Nat /\ until \in Opt(Nat)
    BY <1>12, <2>1 DEF DeliverReading, TypeOK, Opt
  <2>3. r.used \in Opt(0..I64Max) /\ lim \in Opt(0..I64Max)
    BY <1>12, <2>1 DEF DeliverReading, IngestSnapshot, Opt
  <2>4. [observedAt |-> at, validUntil |-> until, used |-> r.used, limit |-> lim] \in Snapshot
    BY <2>2, <2>3 DEF Snapshot
  <2> QED
    BY <1>12, <2>4 DEF DeliverReading, IngestSnapshot, TypeOK, Opt
<1>13. CASE UNCHANGED vars
  BY <1>13 DEF vars, TypeOK
<1> QED
  BY <1>1, <1>2, <1>3, <1>4, <1>5, <1>6, <1>7, <1>8, <1>9, <1>10, <1>11, <1>12, <1>13 DEF Next

\* The tables of the shared pool stay well typed: no operation stores an amount
\* the integer column cannot hold, an id that was never issued, or a half-built row.
THEOREM TypeCorrect == Spec => []TypeOK
  BY TypeOKInit, TypeOKNext, PTL DEF Spec
-----------------------------------------------------------------------------
(* Keys and the history of a row.                                          *)

\* A sweep leaves no gateway hold expired, and notes when it freed a hold; a
\* settlement has its amount.
RowFine(r) ==
  /\ IsGatewayHold(r) => r.state # "expired"
  /\ r.state = "expired" => r.releasedAt # None
  /\ r.state = "settled" => r.settled # None

\* Rows are inserted in order, nothing is stored beyond the last one.
InOrder == \A i \in Ids : i > issued => rows[i] = None

RowsFine == \A i \in Ids : rows[i] # None => RowFine(rows[i]) /\ pools[rows[i].pool] # None

PoolInv == TypeOK /\ InOrder /\ RowsFine /\ KeyNamesOneRow /\ HeldWithinCapacity

\* What a step may make of the row old.
Evolves(old, new) ==
  new \in Row /\ RowEvolves(old, new, now) /\ RowFine(new) /\ HeldOf(new) <= HeldOf(old)

\* The fields no step changes.
Kept(old, new) ==
  /\ new.pool = old.pool /\ new.who = old.who /\ new.key = old.key
  /\ new.amount = old.amount /\ new.kind = old.kind

LEMMA KeptFields ==
  ASSUME NEW old, NEW new, Kept(old, new)
  PROVE  \A f \in {"pool", "who", "key", "amount", "kind"} : new[f] = old[f]
BY DEF Kept

LEMMA EvolvesKeeps ==
  ASSUME NEW old, NEW new, RowEvolves(old, new, now)
  PROVE  Kept(old, new)
<1>1. \A f \in {"pool", "who", "key", "amount", "kind"} : new[f] = old[f]
  BY DEF RowEvolves
<1> QED
  BY <1>1 DEF Kept

\* What a row holds is a number, and no more than it was granted.
LEMMA HeldNat ==
  ASSUME NEW r \in Row, RowFine(r)
  PROVE  HeldOf(r) \in Nat /\ HeldOf(r) <= r.amount
<1>1. r.amount \in Nat /\ (r.state = "settled" => r.settled \in Nat)
  BY WidthAssumption DEF Row, Opt, RowFine
<1> QED
  BY <1>1 DEF HeldOf, MinOf

\* A row that is left alone evolves.
LEMMA SameEvolves ==
  ASSUME NEW r \in Row, RowFine(r)
  PROVE  Evolves(r, r)
<1>1. Kept(r, r) /\ r # None
  BY NoRowAssumption DEF Kept
<1>2. RowEvolves(r, r, now)
  BY <1>1, KeptFields DEF RowEvolves, StateSuccessors, RowFine
<1> QED
  BY <1>2, HeldNat DEF Evolves

LEMMA SettledEvolves ==
  ASSUME NEW r \in Row, r.state \in {"active", "expired"}, NEW a \in 0..I64Max,
         NEW u \in {"known", "unknown"}, now \in Nat,
         NEW l \in Opt(Lanes), NEW s \in Opt(Sources), NEW w \in Opt(Marks), RowFine(r)
  PROVE  Evolves(r, Settled(r, a, u, now, l, s, w))
<1> DEFINE lane == IF r.lane # None THEN r.lane ELSE l
           source == IF r.source # None THEN r.source ELSE s
           n == [r EXCEPT !.state = "settled", !.settled = a, !.usage = u, !.settledAt = now,
                          !.lane = lane, !.source = source, !.mark = w]
<1>1. (r.lane # None => lane = r.lane) /\ (r.source # None => source = r.source)
  OBVIOUS
<1>2. n = Settled(r, a, u, now, l, s, w)
  BY DEF Settled
<1>3. n \in Row
  BY <1>2, SettledType
<1> HIDE DEF lane, source
<1>4. /\ Kept(r, n) /\ n.state = "settled" /\ n.lane = lane /\ n.source = source
      /\ n.expiresAt = r.expiresAt /\ n.settled = a /\ n.releasedAt = r.releasedAt
  BY DEF Row, Kept
<1> HIDE DEF n
<1>5. n # None /\ a # None
  BY <1>3, NoRowAssumption, NoneAssumption
<1>6. RowEvolves(r, n, now) /\ RowFine(n)
  BY <1>1, <1>3, <1>4, <1>5, KeptFields DEF RowEvolves, StateSuccessors, RowFine
<1>7. HeldOf(n) <= HeldOf(r)
  <2>1. r.amount \in Nat /\ n.amount = r.amount /\ n.kind = r.kind
    BY <1>4, WidthAssumption DEF Row, Kept
  <2> QED
    BY <1>4, <2>1 DEF HeldOf, MinOf, RowFine
<1> QED
  BY <1>2, <1>3, <1>6, <1>7 DEF Evolves

LEMMA BookedEvolves ==
  ASSUME NEW r \in Row, r.state = "active", now \in Nat
  PROVE  Evolves(r, Booked(r, now))
<1> DEFINE n == Booked(r, now)
<1>1. n \in Row /\ n # None
  BY BookedType, NoRowAssumption
<1>2. /\ Kept(r, n) /\ n.state = "settled" /\ n.lane = r.lane /\ n.source = r.source
      /\ n.expiresAt = r.expiresAt /\ n.settled = r.amount
  BY DEF Row, Kept, Booked
<1>3. r.amount \in Nat /\ r.amount # None
  BY WidthAssumption, NoneAssumption DEF Row
<1> HIDE DEF n
<1>4. RowEvolves(r, n, now) /\ RowFine(n)
  BY <1>1, <1>2, <1>3, KeptFields DEF RowEvolves, StateSuccessors, RowFine
<1>5. HeldOf(n) <= HeldOf(r)
  BY <1>2, <1>3 DEF HeldOf, MinOf, Kept
<1>6. Evolves(r, n)
  BY <1>1, <1>4, <1>5 DEF Evolves
<1> QED
  BY <1>6 DEF n

LEMMA ReleasedEvolves ==
  ASSUME NEW r \in Row, r.state = "active", now \in Nat
  PROVE  Evolves(r, Released(r, now))
<1> DEFINE n == Released(r, now)
<1>1. n \in Row /\ n # None
  BY ReleasedType, NoRowAssumption
<1>2. /\ Kept(r, n) /\ n.state = "released" /\ n.lane = r.lane /\ n.source = r.source
      /\ n.expiresAt = r.expiresAt
  BY DEF Row, Kept, Released
<1>3. r.amount \in Nat
  BY WidthAssumption DEF Row
<1> HIDE DEF n
<1>4. RowEvolves(r, n, now) /\ RowFine(n)
  BY <1>1, <1>2, KeptFields DEF RowEvolves, StateSuccessors, RowFine
<1>5. HeldOf(n) <= HeldOf(r)
  BY <1>2, <1>3 DEF HeldOf, Kept
<1>6. Evolves(r, n)
  BY <1>1, <1>4, <1>5 DEF Evolves
<1> QED
  BY <1>6 DEF n

LEMMA SweptEvolves ==
  ASSUME NEW r \in Row, RowFine(r), now \in Nat
  PROVE  Evolves(r, SweptRow(r, now))
<1> DEFINE n == [r EXCEPT !.state = "expired", !.releasedAt = now]
<1>1. CASE r.state # "active" \/ r.expiresAt > now
  BY <1>1, SameEvolves DEF SweptRow
<1>2. CASE r.state = "active" /\ ~(r.expiresAt > now) /\ IsGatewayHold(r)
  <2>1. SweptRow(r, now) = Booked(r, now)
    BY <1>2, NoRowAssumption DEF SweptRow
  <2> QED
    BY <1>2, <2>1, BookedEvolves
<1>3. CASE r.state = "active" /\ ~(r.expiresAt > now) /\ ~IsGatewayHold(r)
  <2>1. SweptRow(r, now) = n
    BY <1>3, NoRowAssumption DEF SweptRow
  <2>2. n \in Row
    BY DEF Row, RowStates, Opt
  <2>3. /\ Kept(r, n) /\ n.state = "expired" /\ n.lane = r.lane /\ n.source = r.source
        /\ n.expiresAt = r.expiresAt /\ n.releasedAt = now /\ r.amount \in Nat /\ now # None
    BY WidthAssumption, NoneAssumption DEF Row, Kept
  <2> HIDE DEF n
  <2>4. n # None /\ ~IsGatewayHold(n)
    BY <1>3, <2>2, <2>3, NoRowAssumption DEF IsGatewayHold, Kept
  <2>5. RowEvolves(r, n, now) /\ RowFine(n)
    BY <1>3, <2>3, <2>4, KeptFields DEF RowEvolves, StateSuccessors, RowFine
  <2>6. HeldOf(n) <= HeldOf(r)
    BY <1>3, <2>3 DEF HeldOf, Kept
  <2> QED
    BY <2>1, <2>2, <2>5, <2>6 DEF Evolves
<1> QED
  BY <1>1, <1>2, <1>3

\* A charge that is replayed takes the watermark it did not have.
LEMMA MarkEvolves ==
  ASSUME NEW r \in Row, r.state = "settled", r.mark = None, NEW w \in Marks, RowFine(r)
  PROVE  Evolves(r, [r EXCEPT !.mark = w])
<1> DEFINE n == [r EXCEPT !.mark = w]
<1>1. n \in Row
  BY DEF Row, Opt
<1>2. /\ Kept(r, n) /\ n.state = r.state /\ n.lane = r.lane /\ n.source = r.source
      /\ n.expiresAt = r.expiresAt /\ n.settled = r.settled /\ n.usage = r.usage
      /\ n.settledAt = r.settledAt /\ n.releasedAt = r.releasedAt
  BY DEF Row, Kept
<1> HIDE DEF n
<1>3. n # None
  BY <1>1, NoRowAssumption
<1>4. RowEvolves(r, n, now) /\ RowFine(n)
  BY <1>2, <1>3, KeptFields DEF RowEvolves, StateSuccessors, RowFine, IsGatewayHold, Kept
<1>5. HeldOf(n) = HeldOf(r)
  BY <1>2 DEF HeldOf, Kept
<1>6. Evolves(r, n)
  BY <1>1, <1>4, <1>5, HeldNat DEF Evolves
<1> QED
  BY <1>6 DEF n

LEMMA RenewEvolves ==
  ASSUME NEW r \in Row, r.state = "active", r.expiresAt > now, NEW e \in Nat, RowFine(r)
  PROVE  Evolves(r, [r EXCEPT !.expiresAt = e])
<1> DEFINE n == [r EXCEPT !.expiresAt = e]
<1>1. n \in Row
  BY DEF Row
<1>2. /\ Kept(r, n) /\ n.state = r.state /\ n.lane = r.lane /\ n.source = r.source
  BY DEF Row, Kept
<1> HIDE DEF n
<1>3. n # None
  BY <1>1, NoRowAssumption
<1>4. RowEvolves(r, n, now) /\ RowFine(n)
  BY <1>2, <1>3, KeptFields DEF RowEvolves, StateSuccessors, RowFine, IsGatewayHold, Kept
<1>5. HeldOf(n) = HeldOf(r)
  BY <1>2 DEF HeldOf, Kept
<1>6. Evolves(r, n)
  BY <1>1, <1>4, <1>5, HeldNat DEF Evolves
<1> QED
  BY <1>6 DEF n

-----------------------------------------------------------------------------
(* Capacity.                                                               *)

\* The capacities a gate may have decided against.
Choices(p) == {pools[p].cap} \cup {g.cap : g \in {h \in Gates : h.source = "local"}}

\* What is summed are numbers; what rows hold is part of what is committed.
LEMMA Parts ==
  ASSUME PoolInv, NEW p
  PROVE  \A i \in Ids :
           /\ HeldPart(rows, p)[i] \in Nat
           /\ SettledPart(rows, p)[i] \in Nat
           /\ ActivePart(rows, p)[i] \in Nat
           /\ HeldPart(rows, p)[i] <= SettledPart(rows, p)[i] + ActivePart(rows, p)[i]
<1> SUFFICES ASSUME NEW i \in Ids
             PROVE  /\ HeldPart(rows, p)[i] \in Nat
                    /\ SettledPart(rows, p)[i] \in Nat
                    /\ ActivePart(rows, p)[i] \in Nat
                    /\ HeldPart(rows, p)[i] <= SettledPart(rows, p)[i] + ActivePart(rows, p)[i]
  OBVIOUS
<1> DEFINE r == rows[i]
<1>1. /\ HeldPart(rows, p)[i] = IF r # None /\ r.pool = p THEN HeldOf(r) ELSE 0
      /\ SettledPart(rows, p)[i] = IF r # None /\ r.pool = p /\ r.state = "settled" THEN r.settled ELSE 0
      /\ ActivePart(rows, p)[i] = IF r # None /\ r.pool = p /\ r.state = "active" THEN r.amount ELSE 0
  BY DEF HeldPart, SettledPart, ActivePart
<1>2. r # None => r \in Row /\ RowFine(r)
  BY DEF PoolInv, TypeOK, Opt, RowsFine
<1> HIDE DEF r
<1>3. CASE r = None
  BY <1>1, <1>3
<1>4. CASE r # None
  <2>1. /\ r.amount \in Nat /\ (r.state = "settled" => r.settled \in Nat)
        /\ HeldOf(r) \in Nat
    BY <1>2, <1>4, HeldNat, WidthAssumption DEF Row, RowFine, Opt
  <2>2. HeldOf(r) <= (IF r.state = "settled" THEN r.settled ELSE 0)
                       + (IF r.state = "active" THEN r.amount ELSE 0)
    BY <2>1 DEF HeldOf, MinOf
  <2> QED
    BY <1>1, <1>4, <2>1, <2>2
<1> QED
  BY <1>3, <1>4

\* Pool-wide sums; a session's are no larger.
LEMMA PoolSums ==
  ASSUME PoolInv, NEW p
  PROVE  /\ Sum(SettledPart(rows, p)) \in Nat /\ Sum(ActivePart(rows, p)) \in Nat
         /\ Sum(HeldPart(rows, p)) \in Nat
         /\ Sum(HeldPart(rows, p)) <= Sum(SettledPart(rows, p)) + Sum(ActivePart(rows, p))
<1> DEFINE H == HeldPart(rows, p)
           S == SettledPart(rows, p)
           A == ActivePart(rows, p)
           B == [i \in 1..MaxRows |-> S[i] + A[i]]
<1>0. MaxRows \in Nat /\ Ids = 1..MaxRows
  BY RowBoundAssumption DEF Ids
<1>1. \A i \in 1..MaxRows : H[i] \in Nat /\ S[i] \in Nat /\ A[i] \in Nat /\ H[i] <= S[i] + A[i]
  BY <1>0, Parts
<1>2. \A i \in 1..MaxRows : B[i] = S[i] + A[i]
  OBVIOUS
<1> HIDE DEF H, S, A, B
<1>3. SumOf(S, MaxRows) \in Nat /\ SumOf(A, MaxRows) \in Nat /\ SumOf(H, MaxRows) \in Nat
  BY <1>0, <1>1, SumNat
<1>4. SumOf(B, MaxRows) = SumOf(S, MaxRows) + SumOf(A, MaxRows)
  <2>1. \A i \in 1..MaxRows : S[i] \in Int /\ A[i] \in Int /\ B[i] = S[i] + A[i]
    BY <1>1, <1>2
  <2> QED
    BY <1>0, <2>1, SumPlus
<1>5. SumOf(H, MaxRows) <= SumOf(B, MaxRows)
  BY <1>0, <1>1, <1>2, SumMonotone
<1>6. SumOf(H, MaxRows) <= SumOf(S, MaxRows) + SumOf(A, MaxRows)
  BY <1>4, <1>5
<1> QED
  BY <1>3, <1>6 DEF Sum, H, S, A

LEMMA SessionSums ==
  ASSUME PoolInv, NEW p, NEW who
  PROVE  LET held == Sum(SessionHeldPart(rows, p, who))
             settled == SessionSum(SettledPart(rows, p), rows, who)
             active == SessionSum(ActivePart(rows, p), rows, who)
         IN  /\ held \in Nat /\ settled \in Nat /\ active \in Nat
             /\ held <= settled + active
             /\ settled <= Sum(SettledPart(rows, p)) /\ active <= Sum(ActivePart(rows, p))
<1> DEFINE mine(i) == rows[i] # None /\ rows[i].who = who
           H == SessionHeldPart(rows, p, who)
           W == HeldPart(rows, p)
           SP == SettledPart(rows, p)
           AP == ActivePart(rows, p)
           S == [i \in Ids |-> IF rows[i] # None /\ rows[i].who = who THEN SP[i] ELSE 0]
           A == [i \in Ids |-> IF rows[i] # None /\ rows[i].who = who THEN AP[i] ELSE 0]
           B == [i \in 1..MaxRows |-> S[i] + A[i]]
<1>0. MaxRows \in Nat /\ Ids = 1..MaxRows
  BY RowBoundAssumption DEF Ids
<1>1. \A i \in 1..MaxRows : W[i] \in Nat /\ SP[i] \in Nat /\ AP[i] \in Nat /\ W[i] <= SP[i] + AP[i]
  BY <1>0, Parts
<1>2. \A i \in 1..MaxRows : /\ S[i] = IF mine(i) THEN SP[i] ELSE 0
                            /\ A[i] = IF mine(i) THEN AP[i] ELSE 0
                            /\ B[i] = S[i] + A[i]
  BY <1>0
<1>3. \A i \in 1..MaxRows : H[i] = IF mine(i) THEN W[i] ELSE 0
  BY <1>0 DEF SessionHeldPart, HeldPart
<1>4. /\ SessionSum(SP, rows, who) = SumOf(S, MaxRows) /\ SessionSum(AP, rows, who) = SumOf(A, MaxRows)
      /\ Sum(SP) = SumOf(SP, MaxRows) /\ Sum(AP) = SumOf(AP, MaxRows) /\ Sum(H) = SumOf(H, MaxRows)
  BY DEF SessionSum, Sum
<1> HIDE DEF H, W, SP, AP, S, A, B, mine
<1>5. \A i \in 1..MaxRows : /\ H[i] \in Nat /\ S[i] \in Nat /\ A[i] \in Nat
                            /\ H[i] <= B[i] /\ S[i] <= SP[i] /\ A[i] <= AP[i]
  BY <1>1, <1>2, <1>3
<1>6. SumOf(S, MaxRows) \in Nat /\ SumOf(A, MaxRows) \in Nat /\ SumOf(H, MaxRows) \in Nat
  BY <1>0, <1>5, SumNat
<1>7. SumOf(B, MaxRows) = SumOf(S, MaxRows) + SumOf(A, MaxRows)
  <2>1. \A i \in 1..MaxRows : S[i] \in Int /\ A[i] \in Int /\ B[i] = S[i] + A[i]
    BY <1>2, <1>5
  <2> QED
    BY <1>0, <2>1, SumPlus
<1>8. SumOf(H, MaxRows) <= SumOf(B, MaxRows)
  <2>1. \A i \in 1..MaxRows : H[i] \in Int /\ B[i] \in Int /\ H[i] <= B[i]
    BY <1>2, <1>5
  <2> QED
    BY <1>0, <2>1, SumMonotone
<1>9. SumOf(S, MaxRows) <= SumOf(SP, MaxRows) /\ SumOf(A, MaxRows) <= SumOf(AP, MaxRows)
  <2>1. \A i \in 1..MaxRows : S[i] \in Int /\ SP[i] \in Int /\ S[i] <= SP[i]
    BY <1>1, <1>5
  <2>2. \A i \in 1..MaxRows : A[i] \in Int /\ AP[i] \in Int /\ A[i] <= AP[i]
    BY <1>1, <1>5
  <2> QED
    BY <1>0, <2>1, <2>2, SumMonotone
<1>10. /\ SessionSum(SP, rows, who) \in Nat /\ SessionSum(AP, rows, who) \in Nat /\ Sum(H) \in Nat
       /\ Sum(H) <= SessionSum(SP, rows, who) + SessionSum(AP, rows, who)
       /\ SessionSum(SP, rows, who) <= Sum(SP) /\ SessionSum(AP, rows, who) <= Sum(AP)
  BY <1>4, <1>6, <1>7, <1>8, <1>9
<1> QED
  BY <1>10 DEF H, SP, AP

\* The provider's overhang is never negative.
LEMMA OverhangNat ==
  ASSUME PoolInv, NEW p \in Pools, NEW g
  PROVE  Overhang(g, rows, p, snaps[p], now) \in Nat
<1> DEFINE snap == snaps[p]
           F == [i \in Ids |->
             IF rows[i] # None /\ rows[i].pool = p /\ rows[i].state = "settled"
                  /\ rows[i].settledAt <= snap.observedAt
             THEN rows[i].settled ELSE 0]
<1>1. \A i \in Ids : F[i] = 0 \/ F[i] = SettledPart(rows, p)[i]
  BY DEF SettledPart
<1>2. \A i \in 1..MaxRows : F[i] \in Nat
  BY <1>1, Parts DEF Ids
<1>3. SettledBefore(rows, p, snap.observedAt) = MinOf(SumOf(F, MaxRows), U64Max)
  BY DEF SettledBefore, SaturatingSum, Sum
<1> HIDE DEF F
<1>4. SumOf(F, MaxRows) \in Nat
  BY <1>2, SumNat, RowBoundAssumption
<1>5. U64Max \in Nat
  BY WidthAssumption DEF U64Max
<1>6. SettledBefore(rows, p, snap.observedAt) \in Nat
  BY <1>3, <1>4, <1>5 DEF MinOf
<1>7. snap # None => snap.used = None \/ snap.used \in Nat
  BY WidthAssumption DEF PoolInv, TypeOK, Opt, Snapshot
<1>8. ExternalOverhang(rows, p, snap, now) \in Nat
  BY <1>6, <1>7 DEF ExternalOverhang, Monus
<1> QED
  BY <1>8 DEF Overhang

LEMMA CapacityBounds ==
  ASSUME PoolInv, NEW p \in Pools, pools[p] # None, NEW g \in Gates, GateUsable(g, snaps[p], now)
  PROVE  LET C == EffectiveCapacity(g, pools[p], snaps[p])
         IN  C \in Nat /\ C <= U64Max /\ \E c \in Choices(p) : c \in Nat /\ C <= c
<1>1. pools[p].cap \in 0..I64Max
  BY DEF PoolInv, TypeOK, Opt, Pool
<1>2. g \in Gate
  BY InputAssumption
<1>3. g.source \in {"stored", "provider", "local"} /\ (g.source = "local" => g.cap \in 0..U64Max)
  BY <1>2 DEF Gate
<1>4. I64Max \in Nat /\ U64Max \in Nat /\ I64Max <= U64Max
  BY WidthAssumption DEF U64Max
<1>5. g.source = "provider" => snaps[p].limit \in 0..I64Max
  BY DEF GateUsable, SnapshotUsable, PoolInv, TypeOK, Opt, Snapshot
<1>6. CASE g.source = "local"
  <2>1. g.cap \in Choices(p)
    BY <1>6 DEF Choices
  <2> QED
    BY <1>3, <1>4, <1>6, <2>1 DEF EffectiveCapacity
<1>7. CASE g.source # "local"
  <2>1. pools[p].cap \in Choices(p)
    BY DEF Choices
  <2>2. EffectiveCapacity(g, pools[p], snaps[p]) \in 0..pools[p].cap
    BY <1>1, <1>3, <1>4, <1>5, <1>7 DEF EffectiveCapacity, MinOf
  <2> QED
    BY <1>1, <1>4, <2>1, <2>2
<1> QED
  BY <1>6, <1>7

\* Saturation and clamping only ever make admission stricter: an amount admitted
\* fits the exact sums.
LEMMA AdmitsExactly ==
  ASSUME PoolInv, NEW p \in Pools, pools[p] # None, NEW g \in Gates, NEW a \in Nat, a # 0,
         GateUsable(g, snaps[p], now), Admits(g, rows, p, pools[p], snaps[p], now, a)
  PROVE  Sum(SettledPart(rows, p)) + Sum(ActivePart(rows, p)) + a
           <= EffectiveCapacity(g, pools[p], snaps[p])
<1> DEFINE C == EffectiveCapacity(g, pools[p], snaps[p])
           S == Sum(SettledPart(rows, p))
           A == Sum(ActivePart(rows, p))
           o == Overhang(g, rows, p, snaps[p], now)
<1>1. S \in Nat /\ A \in Nat
  BY PoolSums
<1>2. o \in Nat
  BY OverhangNat
<1>3. C \in Nat /\ C <= U64Max
  BY CapacityBounds
<1>4. a <= Clamp(C - MinOf(S, U64Max) - MinOf(A, U64Max) - o)
  BY DEF Admits, Remaining, SaturatingSum
<1>5. I64Max \in Nat /\ U64Max \in Nat /\ I64Min \in Int /\ I64Min < 0
  BY WidthAssumption DEF U64Max, I64Min
<1> HIDE DEF C, S, A, o
<1> DEFINE s == MinOf(S, U64Max)
           b == MinOf(A, U64Max)
<1>6. s \in Nat /\ b \in Nat /\ (s = S \/ s = U64Max) /\ (b = A \/ b = U64Max)
  BY <1>1, <1>5 DEF MinOf
<1>7. a <= Clamp(C - s - b - o)
  BY <1>4
<1> HIDE DEF s, b
<1>8. a <= C - s - b - o
  BY <1>2, <1>3, <1>5, <1>6, <1>7 DEF Clamp, MinOf
<1>9. s = S /\ b = A
  BY <1>2, <1>3, <1>5, <1>6, <1>8
<1>10. S + A + a <= C
  BY <1>1, <1>2, <1>3, <1>8, <1>9
<1> QED
  BY <1>10 DEF C, S, A

LEMMA FailsClosed == PoolInv => SaturationFailsClosed
<1> SUFFICES ASSUME PoolInv, NEW p \in Pools, NEW g \in Gates, NEW a \in Amounts \ {0},
                    pools[p] # None, GateUsable(g, snaps[p], now),
                    Admits(g, rows, p, pools[p], snaps[p], now, a)
             PROVE  Sum(SettledPart(rows, p)) + Sum(ActivePart(rows, p)) + a
                      <= EffectiveCapacity(g, pools[p], snaps[p])
  BY DEF SaturationFailsClosed
<1>1. a \in Nat /\ a # 0
  BY InputAssumption
<1> QED
  BY <1>1, AdmitsExactly

LEMMA HeldParts ==
  ASSUME NEW t, \A i \in Ids : t[i] # None => t[i] \in Row /\ RowFine(t[i]), NEW p, NEW who
  PROVE  \A i \in Ids : HeldPart(t, p)[i] \in Nat /\ SessionHeldPart(t, p, who)[i] \in Nat
<1>1. \A i \in Ids : t[i] # None => HeldOf(t[i]) \in Nat
  BY HeldNat
<1> QED
  BY <1>1 DEF HeldPart, SessionHeldPart

\* The summands of g are no larger than those of f, the k-th by at most d.
Grows(f, g, k, d) == \A i \in Ids : g[i] <= f[i] + IF i = k THEN d ELSE 0

LEMMA TableSums ==
  ASSUME NEW f, NEW g, \A i \in Ids : f[i] \in Nat /\ g[i] \in Nat, NEW k, NEW d \in Nat,
         Grows(f, g, k, d)
  PROVE  Sum(f) \in Nat /\ Sum(g) \in Nat /\ Sum(g) <= Sum(f) + d
<1>0. MaxRows \in Nat /\ Ids = 1..MaxRows
  BY RowBoundAssumption DEF Ids
<1>1. SumOf(f, MaxRows) \in Nat /\ SumOf(g, MaxRows) \in Nat
  BY <1>0, SumNat
<1>2. SumOf(g, MaxRows) <= SumOf(f, MaxRows) + d
  <2>1. CASE k \in Ids
    <3>1. k \in 1..MaxRows /\ d \in Int /\ g[k] <= f[k] + d
      BY <1>0, <2>1 DEF Grows
    <3>2. \A i \in 1..MaxRows : f[i] \in Int /\ g[i] \in Int /\ (i # k => g[i] <= f[i])
      BY <1>0 DEF Grows
    <3> QED
      BY <1>0, <3>1, <3>2, SumGrows
  <2>2. CASE k \notin Ids
    <3>1. \A i \in 1..MaxRows : g[i] \in Int /\ f[i] \in Int /\ g[i] <= f[i]
      BY <1>0, <2>2 DEF Grows
    <3>2. SumOf(g, MaxRows) <= SumOf(f, MaxRows)
      BY <1>0, <3>1, SumMonotone
    <3> QED
      BY <1>1, <3>2
  <2> QED
    BY <2>1, <2>2
<1> QED
  BY <1>1, <1>2 DEF Sum

LEMMA ChoiceNat ==
  ASSUME PoolInv, NEW p \in Pools, pools[p] # None, NEW c \in Choices(p)
  PROVE  c \in Nat
<1>1. pools[p].cap \in Nat /\ U64Max \in Nat
  BY WidthAssumption DEF PoolInv, TypeOK, Opt, Pool, U64Max
<1>2. \A g \in Gates : g.source = "local" => g.cap \in 0..U64Max
  BY InputAssumption DEF Gate
<1> QED
  BY <1>1, <1>2 DEF Choices

LEMMA SessionCapNat ==
  ASSUME NEW g \in Gates, g.sessionCap # None
  PROVE  g.sessionCap \in Nat
BY InputAssumption, WidthAssumption DEF Gate, Opt, U64Max

\* In the table t no row holds more than in rows, except that the row k may hold d
\* more of the pool q, for the executor x.
PoolGrows(t, k, q, d) ==
  \A p \in Pools, e \in Nat : e = (IF p = q THEN d ELSE 0) =>
    Grows(HeldPart(rows, p), HeldPart(t, p), k, e)
SessionGrows(t, k, q, x, d) ==
  \A p \in Pools, who \in Executors, e \in Nat : e = (IF p = q /\ who = x THEN d ELSE 0) =>
    Grows(SessionHeldPart(rows, p, who), SessionHeldPart(t, p, who), k, e)

\* A pool and a session have d left, beyond what is committed.
HasLeft(q, x, d) ==
  d # 0 =>
    /\ \E c \in Choices(q) : Sum(SettledPart(rows, q)) + Sum(ActivePart(rows, q)) + d <= c
    /\ (\A g \in Gates : g.sessionCap # None) =>
         \E g \in Gates : SessionSum(SettledPart(rows, q), rows, x)
                            + SessionSum(ActivePart(rows, q), rows, x) + d <= g.sessionCap

LEMMA CapacityStep ==
  ASSUME PoolInv, pools' = pools, NEW k, NEW d \in Nat, NEW q, NEW x,
         \A i \in Ids : rows'[i] # None => rows'[i] \in Row /\ RowFine(rows'[i]),
         PoolGrows(rows', k, q, d), SessionGrows(rows', k, q, x, d), HasLeft(q, x, d)
  PROVE  HeldWithinCapacity'
<1>1. \A i \in Ids : rows[i] # None => rows[i] \in Row /\ RowFine(rows[i])
  BY DEF PoolInv, TypeOK, Opt, RowsFine
<1>2. ASSUME NEW p \in Pools, pools[p] # None
      PROVE  \E c \in Choices(p) : Sum(HeldPart(rows', p)) <= c
  <2> DEFINE F == HeldPart(rows, p)
             G == HeldPart(rows', p)
             e == IF p = q THEN d ELSE 0
  <2>1. \A i \in Ids : F[i] \in Nat /\ G[i] \in Nat
    BY <1>1, HeldParts
  <2>2. Grows(F, G, k, e) /\ e \in Nat
    BY DEF PoolGrows
  <2>3. PICK c \in Choices(p) : Sum(F) <= c
    BY <1>2 DEF PoolInv, HeldWithinCapacity, Choices
  <2>4. c \in Nat
    BY <1>2, ChoiceNat
  <2> HIDE DEF F, G
  <2>5. Sum(F) \in Nat /\ Sum(G) \in Nat /\ Sum(G) <= Sum(F) + e
    BY <2>1, <2>2, TableSums
  <2>6. CASE e = 0
    BY <2>3, <2>4, <2>5, <2>6 DEF G
  <2>7. CASE e # 0
    <3>1. p = q /\ e = d /\ d # 0
      BY <2>7
    <3>2. PICK b \in Choices(p) : Sum(SettledPart(rows, p)) + Sum(ActivePart(rows, p)) + d <= b
      BY <3>1 DEF HasLeft
    <3>3. b \in Nat
      BY <1>2, ChoiceNat
    <3>4. /\ Sum(SettledPart(rows, p)) \in Nat /\ Sum(ActivePart(rows, p)) \in Nat
          /\ Sum(F) <= Sum(SettledPart(rows, p)) + Sum(ActivePart(rows, p))
      BY PoolSums DEF F
    <3>5. Sum(G) <= b
      BY <2>5, <3>1, <3>2, <3>3, <3>4
    <3> QED
      BY <3>5 DEF G
  <2> QED
    BY <2>6, <2>7
<1>3. ASSUME \A g \in Gates : g.sessionCap # None, NEW p \in Pools, NEW who \in Executors,
             Sum(SessionHeldPart(rows', p, who)) > 0
      PROVE  \E g \in Gates : Sum(SessionHeldPart(rows', p, who)) <= g.sessionCap
  <2> DEFINE F == SessionHeldPart(rows, p, who)
             G == SessionHeldPart(rows', p, who)
             e == IF p = q /\ who = x THEN d ELSE 0
  <2>1. \A i \in Ids : F[i] \in Nat /\ G[i] \in Nat
    BY <1>1, HeldParts
  <2>2. Grows(F, G, k, e) /\ e \in Nat
    BY DEF SessionGrows
  <2>3. Sum(F) > 0 => \E g \in Gates : Sum(F) <= g.sessionCap
    BY <1>3 DEF PoolInv, HeldWithinCapacity
  <2>4. Sum(G) > 0
    BY <1>3
  <2> HIDE DEF F, G
  <2>5. Sum(F) \in Nat /\ Sum(G) \in Nat /\ Sum(G) <= Sum(F) + e
    BY <2>1, <2>2, TableSums
  <2>6. CASE e = 0
    <3>1. PICK g \in Gates : Sum(F) <= g.sessionCap
      BY <2>3, <2>4, <2>5, <2>6
    <3>2. g.sessionCap \in Nat
      BY <1>3, SessionCapNat
    <3>3. Sum(G) <= g.sessionCap
      BY <2>5, <2>6, <3>1, <3>2
    <3> QED
      BY <3>3 DEF G
  <2>7. CASE e # 0
    <3> DEFINE s == SessionSum(SettledPart(rows, p), rows, who)
               a == SessionSum(ActivePart(rows, p), rows, who)
    <3>1. p = q /\ who = x /\ e = d /\ d # 0
      BY <2>7
    <3>2. PICK g \in Gates : s + a + d <= g.sessionCap
      BY <1>3, <3>1 DEF HasLeft
    <3>3. g.sessionCap \in Nat
      BY <1>3, SessionCapNat
    <3>4. s \in Nat /\ a \in Nat /\ Sum(F) <= s + a
      BY SessionSums DEF F
    <3> HIDE DEF s, a
    <3>5. Sum(G) <= g.sessionCap
      BY <2>5, <3>1, <3>2, <3>3, <3>4
    <3> QED
      BY <3>5 DEF G
  <2> QED
    BY <2>6, <2>7
<1> QED
  BY <1>2, <1>3 DEF HeldWithinCapacity, Choices
-----------------------------------------------------------------------------
\* Steps that insert nothing: every row evolves or is still missing.
LEMMA RowsEvolve ==
  ASSUME PoolInv, TypeOK', UNCHANGED <<issued, pools>>,
         \A i \in Ids : IF rows[i] = None THEN rows'[i] = None ELSE Evolves(rows[i], rows'[i])
  PROVE  PoolInv' /\ \A i \in Ids : rows[i] # None => RowEvolves(rows[i], rows'[i], now)
<1>1. \A i \in Ids : rows[i] # None =>
        /\ Kept(rows[i], rows'[i]) /\ RowFine(rows'[i]) /\ rows'[i] \in Row
        /\ HeldOf(rows'[i]) <= HeldOf(rows[i])
  BY EvolvesKeeps DEF Evolves
<1>2. InOrder'
  BY DEF PoolInv, InOrder
<1>3. RowsFine'
  BY <1>1 DEF PoolInv, RowsFine, Kept
<1>4. KeyNamesOneRow'
  BY <1>1 DEF PoolInv, KeyNamesOneRow, Kept
<1>5. HeldWithinCapacity'
  <2>1. \A i \in Ids : rows'[i] # None => rows'[i] \in Row /\ RowFine(rows'[i])
    BY <1>1
  <2>2. \A i \in Ids : rows[i] # None => HeldOf(rows[i]) \in Nat
    BY HeldNat DEF PoolInv, TypeOK, Opt, RowsFine
  <2>3. \A i \in Ids : rows'[i] # None => HeldOf(rows'[i]) \in Nat
    BY <2>1, HeldNat
  <2>4. PoolGrows(rows', 0, 0, 0)
    BY <1>1, <2>2, <2>3 DEF HeldPart, Kept, Grows, PoolGrows
  <2>5. SessionGrows(rows', 0, 0, 0, 0)
    BY <1>1, <2>2, <2>3 DEF SessionHeldPart, Kept, Grows, SessionGrows
  <2>6. HasLeft(0, 0, 0)
    BY DEF HasLeft
  <2> QED
    BY <2>1, <2>4, <2>5, <2>6, CapacityStep
<1> QED
  BY <1>2, <1>3, <1>4, <1>5 DEF PoolInv, Evolves

\* One row evolves.
LEMMA RowEvolvesAlone ==
  ASSUME PoolInv, TypeOK', UNCHANGED <<issued, pools>>, NEW i \in Ids, rows[i] # None,
         NEW n, rows' = [rows EXCEPT ![i] = n], Evolves(rows[i], n)
  PROVE  PoolInv' /\ \A j \in Ids : rows[j] # None => RowEvolves(rows[j], rows'[j], now)
<1>1. rows'[i] = n /\ \A j \in Ids : j # i => rows'[j] = rows[j]
  BY DEF PoolInv, TypeOK
<1>2. \A j \in Ids : rows[j] # None => rows[j] \in Row /\ RowFine(rows[j])
  BY DEF PoolInv, TypeOK, Opt, RowsFine
<1>3. \A j \in Ids : IF rows[j] = None THEN rows'[j] = None ELSE Evolves(rows[j], rows'[j])
  BY <1>1, <1>2, SameEvolves
<1> QED
  BY <1>3, RowsEvolve

LEMMA NoRowEvolves ==
  ASSUME PoolInv, TypeOK', UNCHANGED <<rows, issued, pools>>
  PROVE  PoolInv' /\ \A j \in Ids : rows[j] # None => RowEvolves(rows[j], rows'[j], now)
<1>1. \A j \in Ids : rows[j] # None => rows[j] \in Row /\ RowFine(rows[j])
  BY DEF PoolInv, TypeOK, Opt, RowsFine
<1>2. \A j \in Ids : IF rows[j] = None THEN rows'[j] = None ELSE Evolves(rows[j], rows'[j])
  BY <1>1, SameEvolves
<1> QED
  BY <1>2, RowsEvolve

\* A pool that is created has no rows yet.
LEMMA PoolCreated ==
  ASSUME PoolInv, TypeOK', NEW p \in Pools, NEW u \in Units, NEW c \in Caps, EnsurePool(p, u, c)
  PROVE  PoolInv' /\ \A j \in Ids : rows[j] # None => RowEvolves(rows[j], rows'[j], now)
<1> DEFINE new == [unit |-> u, cap |-> c]
<1>1. UNCHANGED <<rows, issued>> /\ pools[p] = None /\ pools' = [pools EXCEPT ![p] = new]
  BY DEF EnsurePool
<1>2. new.cap = c /\ c \in Nat
  BY InputAssumption
<1> HIDE DEF new
<1>3. \A q \in Pools : pools'[q] = IF q = p THEN new ELSE pools[q]
  BY <1>1 DEF PoolInv, TypeOK
<1>4. \A j \in Ids : rows[j] # None =>
        rows[j] \in Row /\ RowFine(rows[j]) /\ rows[j].pool # p /\ rows[j].pool \in Pools
  BY <1>1 DEF PoolInv, TypeOK, Opt, RowsFine, Row
<1>5. RowsFine'
  BY <1>1, <1>3, <1>4 DEF PoolInv, RowsFine
<1>6. \A j \in Ids : rows[j] # None => RowEvolves(rows[j], rows'[j], now)
  BY <1>1, <1>4, SameEvolves DEF Evolves
<1>7. InOrder' /\ KeyNamesOneRow'
  BY <1>1 DEF PoolInv, InOrder, KeyNamesOneRow
<1>8. Sum(HeldPart(rows, p)) = 0
  <2> DEFINE F == HeldPart(rows, p)
  <2>1. \A j \in 1..MaxRows : F[j] = 0
    BY <1>4 DEF HeldPart, Ids
  <2> HIDE DEF F
  <2>2. SumOf(F, MaxRows) = 0
    BY <2>1, SumZero, RowBoundAssumption
  <2> QED
    BY <2>2 DEF Sum, F
<1>9. HeldWithinCapacity'
  <2>1. ASSUME NEW q \in Pools, pools'[q] # None
        PROVE  \E b \in {pools'[q].cap} \cup {g.cap : g \in {h \in Gates : h.source = "local"}} :
                 Sum(HeldPart(rows', q)) <= b
    <3>1. CASE q = p
      BY <1>1, <1>2, <1>3, <1>8, <3>1
    <3>2. CASE q # p
      BY <1>1, <1>3, <2>1, <3>2 DEF PoolInv, HeldWithinCapacity
    <3> QED
      BY <3>1, <3>2
  <2> QED
    BY <1>1, <2>1 DEF PoolInv, HeldWithinCapacity
<1> QED
  BY <1>5, <1>6, <1>7, <1>9 DEF PoolInv

\* An insertion under a key that names no row yet.
LEMMA RowInserted ==
  ASSUME PoolInv, TypeOK', NEW n \in Row, RowFine(n), Insert(n), pools' = pools, pools[n.pool] # None,
         KeyRows(rows, n.pool, n.who.principal, n.key) = {},
         HasLeft(n.pool, n.who, HeldOf(n))
  PROVE  PoolInv' /\ \A j \in Ids : rows[j] # None => RowEvolves(rows[j], rows'[j], now)
<1> DEFINE new == issued + 1
<1>1. new \in Ids /\ rows[new] = None /\ issued' = new
  BY RowBoundAssumption DEF PoolInv, TypeOK, InOrder, Insert, Ids
<1>2. rows'[new] = n /\ \A j \in Ids : j # new => rows'[j] = rows[j]
  BY <1>1 DEF PoolInv, TypeOK, Insert
<1>3. \A j \in Ids : j > new => j > issued /\ j # new
  BY DEF Ids, PoolInv, TypeOK
<1> HIDE DEF new
<1>4. \A j \in Ids : rows[j] # None => rows[j] \in Row /\ RowFine(rows[j])
  BY DEF PoolInv, TypeOK, Opt, RowsFine
<1>5. \A j \in Ids : rows[j] # None => RowEvolves(rows[j], rows'[j], now)
  BY <1>1, <1>2, <1>4, SameEvolves DEF Evolves
<1>6. InOrder'
  BY <1>1, <1>2, <1>3 DEF PoolInv, InOrder
<1>7. RowsFine'
  BY <1>1, <1>2 DEF PoolInv, RowsFine
<1>8. KeyNamesOneRow'
  <2>1. \A j \in Ids : rows[j] # None =>
          ~(rows[j].pool = n.pool /\ rows[j].who.principal = n.who.principal /\ rows[j].key = n.key)
    BY DEF KeyRows
  <2> QED
    BY <1>1, <1>2, <2>1 DEF PoolInv, KeyNamesOneRow
<1>9. HeldWithinCapacity'
  <2> DEFINE d == HeldOf(n)
  <2>1. \A i \in Ids : rows'[i] # None => rows'[i] \in Row /\ RowFine(rows'[i])
    BY <1>1, <1>2, <1>4
  <2>2. d \in Nat /\ n # None
    BY HeldNat, NoRowAssumption
  <2>3. \A i \in Ids : rows[i] # None => HeldOf(rows[i]) \in Nat
    BY <1>4, HeldNat
  <2>4. HasLeft(n.pool, n.who, d)
    OBVIOUS
  <2> HIDE DEF d
  <2>5. PoolGrows(rows', new, n.pool, d)
    BY <1>1, <1>2, <2>2, <2>3 DEF HeldPart, Grows, d, PoolGrows
  <2>6. SessionGrows(rows', new, n.pool, n.who, d)
    BY <1>1, <1>2, <2>2, <2>3 DEF SessionHeldPart, Grows, d, SessionGrows
  <2> QED
    BY <2>1, <2>2, <2>4, <2>5, <2>6, CapacityStep
<1> QED
  BY <1>5, <1>6, <1>7, <1>8, <1>9 DEF PoolInv

\* A hold is granted only where that is left.
LEMMA GrantFits ==
  ASSUME PoolInv, NEW p \in Pools, NEW who, NEW k, NEW a \in Nat, NEW u, NEW g \in Gates,
         Grantable(p, who, k, a, u, g)
  PROVE  HasLeft(p, who, a)
<1> SUFFICES ASSUME a # 0 PROVE HasLeft(p, who, a)
  BY DEF HasLeft
<1> DEFINE S == Sum(SettledPart(rows, p))
           A == Sum(ActivePart(rows, p))
           ss == SessionSum(SettledPart(rows, p), rows, who)
           sa == SessionSum(ActivePart(rows, p), rows, who)
           C == EffectiveCapacity(g, pools[p], snaps[p])
<1>1. /\ pools[p] # None /\ GateUsable(g, snaps[p], now)
      /\ Admits(g, rows, p, pools[p], snaps[p], now, a) /\ SessionCapAdmits(g, rows, p, who, a)
  BY DEF Grantable
<1>2. S + A + a <= C
  BY <1>1, AdmitsExactly
<1>3. C \in Nat /\ C <= U64Max
  BY <1>1, CapacityBounds
<1>4. PICK c \in Choices(p) : c \in Nat /\ C <= c
  BY <1>1, CapacityBounds
<1>5. S \in Nat /\ A \in Nat
  BY PoolSums
<1>6. ss \in Nat /\ sa \in Nat /\ ss <= S /\ sa <= A
  BY SessionSums
<1>7. g.sessionCap # None => MinOf(sa + ss + a, U64Max) <= g.sessionCap
  BY <1>1 DEF SessionCapAdmits
<1>8. U64Max \in Nat
  BY WidthAssumption DEF U64Max
<1> HIDE DEF S, A, ss, sa, C
<1>9. S + A + a <= c
  BY <1>2, <1>3, <1>4, <1>5
<1>10. g.sessionCap # None => ss + sa + a <= g.sessionCap
  <2>1. ss + sa + a <= U64Max /\ sa + ss + a = ss + sa + a
    BY <1>2, <1>3, <1>5, <1>6, <1>8
  <2>2. MinOf(sa + ss + a, U64Max) = ss + sa + a
    BY <1>6, <1>8, <2>1 DEF MinOf
  <2> QED
    BY <1>7, <2>2
<1> QED
  BY <1>4, <1>9, <1>10 DEF HasLeft, S, A, ss, sa

LEMMA PoolStep ==
  ASSUME PoolInv, [Next]_vars
  PROVE  PoolInv' /\ \A j \in Ids : rows[j] # None => RowEvolves(rows[j], rows'[j], now)
<1> DEFINE Goal == PoolInv' /\ \A j \in Ids : rows[j] # None => RowEvolves(rows[j], rows'[j], now)
<1> SUFFICES Goal
  OBVIOUS
<1>a. TypeOK /\ TypeOK' /\ now \in Nat
  BY TypeOKNext DEF PoolInv, TypeOK
<1>b. /\ Amounts \subseteq Nat /\ TTLs \subseteq Nat /\ Usages \subseteq {"known", "unknown"}
      /\ I64Max \in Nat /\ None \notin Nat
  BY InputAssumption, WidthAssumption, NoneAssumption
<1>c. \A i \in Ids : rows[i] # None => rows[i] \in Row /\ RowFine(rows[i])
  BY DEF PoolInv, TypeOK, Opt, RowsFine
<1>d. UNCHANGED <<rows, issued, pools>> => Goal
  BY <1>a, NoRowEvolves
<1>1. CASE Tick \/ UNCHANGED vars
  BY <1>1, <1>d DEF Tick, vars
<1>2. ASSUME NEW p \in Pools, NEW u \in Units, NEW c \in Caps, EnsurePool(p, u, c)
      PROVE  Goal
  BY <1>2, <1>a, PoolCreated
<1>3. ASSUME NEW p \in Pools, NEW who \in Executors, NEW k \in Keys, NEW a \in Amounts,
             NEW u \in Units, NEW t \in TTLs, NEW l \in Opt(Lanes), NEW s \in Opt(Sources),
             NEW g \in Gates, NEW m \in Opt(Prompts),
             Reserve(p, who, k, a, u, t, l, s, g, m)
      PROVE  Goal
  <2> DEFINE n == HoldRow(p, who, k, a, now + t, l, s)
  <2>0. a <= I64Max
    BY <1>3 DEF Reserve, Grantable
  <2>1. a \in 0..I64Max /\ now + t \in Nat
    BY <1>a, <1>b, <2>0
  <2>2. n \in Row
    BY <2>1, HoldRowType
  <2>3. n.pool = p /\ n.who = who /\ n.key = k /\ RowFine(n) /\ HeldOf(n) = a
    BY DEF HoldRow, RowFine, HeldOf
  <2>4. /\ Insert(n) /\ KeyRows(rows, p, who.principal, k) = {} /\ pools[p] # None
        /\ pools' = pools /\ Grantable(p, who, k, a, u, g)
    BY <1>3 DEF Reserve, Grantable
  <2> HIDE DEF n
  <2>5. HasLeft(p, who, a)
    BY <2>1, <2>4, GrantFits
  <2> QED
    BY <1>a, <2>2, <2>3, <2>4, <2>5, RowInserted
<1>4. ASSUME NEW p \in Pools, NEW who \in Executors, NEW k \in Keys, NEW m \in Prompts,
             RetryReserve(p, who, k, m)
      PROVE  Goal
  BY <1>4, <1>d DEF RetryReserve
<1>5. ASSUME NEW p \in Pools, NEW who \in Executors, NEW k \in Keys, NEW a \in Amounts,
             NEW u \in Units, NEW usage \in Usages, NEW l \in Opt(Lanes),
             NEW s \in Opt(Sources), NEW w \in Opt(Marks),
             Charge(p, who, k, a, u, usage, l, s, w)
      PROVE  Goal
  <2> DEFINE n == ChargeRow(p, who, k, a, usage, now, l, s, w)
  <2>1. a \in 0..I64Max /\ usage \in {"known", "unknown"}
    BY <1>5, <1>b DEF Charge
  <2>2. n \in Row
    BY <1>a, <2>1, ChargeRowType
  <2>3. n.pool = p /\ n.who = who /\ n.key = k /\ RowFine(n) /\ HeldOf(n) = 0
    BY <2>1, NoneAssumption DEF ChargeRow, RowFine, HeldOf, IsGatewayHold
  <2>4. /\ Insert(n) /\ KeyRows(rows, p, who.principal, k) = {} /\ pools[p] # None
        /\ pools' = pools
    BY <1>5 DEF Charge
  <2> HIDE DEF n
  <2> QED
    BY <1>a, <2>2, <2>3, <2>4, RowInserted DEF HasLeft
<1>6. ASSUME NEW p \in Pools, NEW who \in Executors, NEW k \in Keys, NEW a \in Amounts,
             NEW usage \in Usages, NEW l \in Opt(Lanes), NEW s \in Opt(Sources),
             NEW w \in Marks, ReplayCharge(p, who, k, a, usage, l, s, w)
      PROVE  Goal
  <2>1. PICK i \in Ids : /\ rows[i] # None /\ rows[i].state = "settled" /\ rows[i].mark = None
                         /\ rows' = [rows EXCEPT ![i].mark = w] /\ UNCHANGED <<issued, pools>>
    BY <1>6 DEF ReplayCharge, KeyRows
  <2> DEFINE n == [rows[i] EXCEPT !.mark = w]
  <2>2. Evolves(rows[i], n)
    BY <1>c, <2>1, MarkEvolves
  <2>3. rows' = [rows EXCEPT ![i] = n]
    BY <2>1
  <2> HIDE DEF n
  <2> QED
    BY <1>a, <2>1, <2>2, <2>3, RowEvolvesAlone
<1>7. ASSUME NEW i \in Ids, NEW a \in Opt(Amounts), NEW usage \in Usages,
             NEW l \in Opt(Lanes), NEW s \in Opt(Sources), NEW w \in Opt(Marks),
             Settle(i, a, usage, l, s, w)
      PROVE  Goal
  <2> DEFINE value == IF a = None THEN rows[i].amount ELSE a
             n == Settled(rows[i], value, usage, now, l, s, w)
  <2>1. rows[i] # None /\ rows[i] \in Row /\ rows[i].state \in {"active", "expired"}
    BY <1>7, <1>c DEF Settle
  <2>2. value <= I64Max /\ usage \in {"known", "unknown"}
    BY <1>7, <1>b DEF Settle
  <2>3. rows[i].amount \in Nat
    BY <1>b, <2>1 DEF Row
  <2>4. value \in 0..I64Max
    BY <1>b, <2>2, <2>3 DEF Opt
  <2>5. Evolves(rows[i], n)
    BY <1>a, <1>c, <2>1, <2>2, <2>4, SettledEvolves
  <2>6. rows' = [rows EXCEPT ![i] = n] /\ UNCHANGED <<issued, pools>>
    BY <1>7 DEF Settle
  <2> HIDE DEF n
  <2> QED
    BY <1>a, <2>1, <2>5, <2>6, RowEvolvesAlone
<1>8. ASSUME NEW i \in Ids, Release(i) \/ ReleaseAndForget(i)
      PROVE  Goal
  <2>1. rows[i] # None /\ rows[i] \in Row /\ rows[i].state = "active"
    BY <1>8, <1>c DEF Release, ReleaseAndForget
  <2>2. Evolves(rows[i], Released(rows[i], now))
    BY <1>a, <2>1, ReleasedEvolves
  <2>3. rows' = [rows EXCEPT ![i] = Released(rows[i], now)] /\ UNCHANGED <<issued, pools>>
    BY <1>8 DEF Release, ReleaseAndForget
  <2> QED
    BY <1>a, <2>1, <2>2, <2>3, RowEvolvesAlone
<1>9. ASSUME NEW i \in Ids, NEW who \in Executors, NEW t \in TTLs, NEW m \in Opt(Prompts),
             Renew(i, who, t, m)
      PROVE  Goal
  <2> DEFINE n == [rows[i] EXCEPT !.expiresAt = now + t]
  <2>1. /\ rows[i] # None /\ rows[i] \in Row /\ rows[i].state = "active"
        /\ rows[i].expiresAt > now /\ now + t \in Nat
    BY <1>9, <1>a, <1>b, <1>c DEF Renew
  <2>2. Evolves(rows[i], n)
    BY <1>c, <2>1, RenewEvolves
  <2>3. rows' = [rows EXCEPT ![i] = n] /\ UNCHANGED <<issued, pools>>
    BY <1>9 DEF Renew
  <2> HIDE DEF n
  <2> QED
    BY <1>a, <2>1, <2>2, <2>3, RowEvolvesAlone
<1>10. CASE ExpireStale
  <2>1. UNCHANGED <<issued, pools>> /\ \A i \in Ids : rows'[i] = SweptRow(rows[i], now)
    BY <1>10 DEF ExpireStale, Swept
  <2>2. \A i \in Ids : IF rows[i] = None THEN rows'[i] = None ELSE Evolves(rows[i], rows'[i])
    <3>1. \A i \in Ids : rows[i] = None => rows'[i] = None
      BY <2>1 DEF SweptRow
    <3>2. \A i \in Ids : rows[i] # None => Evolves(rows[i], rows'[i])
      BY <1>a, <1>c, <2>1, SweptEvolves
    <3> QED
      BY <3>1, <3>2
  <2> QED
    BY <1>a, <2>1, <2>2, RowsEvolve
<1>11. ASSUME NEW b \in Boots, SettleOrphans(b)
       PROVE  Goal
  <2>1. /\ UNCHANGED <<issued, pools>>
        /\ \A i \in Ids : rows'[i] = IF IsOrphan(rows[i], b) THEN Booked(rows[i], now) ELSE rows[i]
    BY <1>11 DEF SettleOrphans
  <2>2. \A i \in Ids : IsOrphan(rows[i], b) => rows[i] # None /\ rows[i].state = "active"
    BY DEF IsOrphan
  <2>3. \A i \in Ids : IF rows[i] = None THEN rows'[i] = None ELSE Evolves(rows[i], rows'[i])
    BY <1>a, <1>c, <2>1, <2>2, BookedEvolves, SameEvolves
  <2> QED
    BY <1>a, <2>1, <2>3, RowsEvolve
<1>12. ASSUME NEW p \in Pools, NEW r \in Readings, NEW u \in Units, DeliverReading(p, r, u)
       PROVE  Goal
  BY <1>12, <1>d DEF DeliverReading, IngestSnapshot
<1> HIDE DEF Goal
<1> QED
  BY <1>1, <1>2, <1>3, <1>4, <1>5, <1>6, <1>7, <1>8, <1>9, <1>10, <1>11, <1>12 DEF Next

LEMMA PoolInit == Init => PoolInv
<1> SUFFICES ASSUME Init PROVE PoolInv
  OBVIOUS
<1>1. \A i \in Ids : rows[i] = None
  BY DEF Init
<1>2. \A p \in Pools : pools[p] = None
  BY DEF Init
<1>3. ASSUME NEW p, NEW who PROVE Sum(SessionHeldPart(rows, p, who)) = 0
  <2> DEFINE F == SessionHeldPart(rows, p, who)
  <2>1. \A i \in 1..MaxRows : F[i] = 0
    BY <1>1 DEF SessionHeldPart, Ids
  <2> HIDE DEF F
  <2>2. SumOf(F, MaxRows) = 0
    BY <2>1, SumZero, RowBoundAssumption
  <2> QED
    BY <2>2 DEF Sum, F
<1>4. HeldWithinCapacity
  BY <1>2, <1>3 DEF HeldWithinCapacity
<1> QED
  BY <1>1, <1>4, TypeOKInit DEF PoolInv, InOrder, RowsFine, KeyNamesOneRow

LEMMA PoolInvariant == Spec => []PoolInv
<1>1. PoolInv /\ [Next]_vars => PoolInv'
  BY PoolStep
<1> QED
  BY PoolInit, <1>1, PTL DEF Spec

\* No combined oversubscription, for any number of sessions, keys, gates, readings and
\* capacities, and for every width of the integer column: what the holds of a pool
\* still occupy fits a capacity some gate decided against, a session's fit the
\* cooperative cap, and what a gate would admit next fits the exact sums although
\* the code saturates and clamps them.
THEOREM PoolIsNotOversubscribed == Spec => []NoOversubscription
<1>1. PoolInv => NoOversubscription
  BY FailsClosed DEF PoolInv, NoOversubscription
<1> QED
  BY PoolInvariant, <1>1, PTL

\* Idempotency for every interleaving of callers: a retry, a replay or a second
\* principal's request never gives one (pool, principal, key) two rows.
THEOREM KeysAreIdempotent == Spec => []KeyNamesOneRow
<1>1. PoolInv => KeyNamesOneRow
  BY DEF PoolInv
<1> QED
  BY PoolInvariant, <1>1, PTL

\* Settled spend, the owner and the attribution of a row are written once, whatever
\* operation any caller makes next; a final row stays final, and no sweep ever
\* expires the hold of a gateway request.
THEOREM HistoryIsKept == Spec => RowHistory
<1>1. PoolInv /\ [Next]_vars =>
        [\A i \in Ids : rows[i] # None => RowEvolves(rows[i], rows'[i], now)]_vars
  BY PoolStep
<1> QED
  BY PoolInvariant, <1>1, PTL DEF Spec, RowHistory
=============================================================================
