-------------------------- MODULE TaskRuntime_proofs --------------------------
(***************************************************************************)
(* What the handlers of a task promise, for any number of tasks, plans,    *)
(* rows and faults, every policy that validates and every estimate.        *)
(*                                                                         *)
(* First the policy: what an admission decision guarantees.  Then the      *)
(* ledger's operations, then one lemma for each step of a handler.  Last   *)
(* the account tree over the same ledger.                                  *)
(***************************************************************************)
EXTENDS TaskRuntime, ExecutionOwner, AccountTree, Sums_proofs, FiniteSetTheorems, TLAPS

\* The configurations whose policy passes validate.
Validated == {c \in Config : ValidPolicy(c)}

\* The decision on a prompt, as the preflight handler composes it: the policy
\* narrowed to the deadline, the turn's ceiling, then the webhook's answer.
Decide(p, remaining, projected, requested, secs, confidence, lifetime, verdict) ==
  LET policy  == apply_business_context(p, remaining)
      decided == evaluate_with(policy, projected, secs, confidence, lifetime)
      turned  == with_turn_outcome(decided, evaluate_turn(policy, requested))
  IN  apply_external_approval(turned, verdict)

\* Narrowing a valid time bound to a positive number of seconds gives a valid
\* bound with a hard ceiling, within those seconds and within the old ceiling.
LEMMA NarrowedIsValid ==
  ASSUME NEW b, ValidBound(b), NEW r \in Nat \ {0}
  PROVE  /\ ValidBound(NarrowedTime(b, r))
         /\ NarrowedTime(b, r).hard \in Nat
         /\ NarrowedTime(b, r).hard <= r
         /\ b.hard # NoBound => NarrowedTime(b, r).hard <= b.hard
<1> DEFINE n == NarrowedTime(b, r)
<1>1. /\ b.target \in Nat /\ b.mode \in {"hard", "elastic", "approval"}
      /\ b.elastic \in Bounds /\ b.hard \in Bounds
  BY DEF ValidBound, Bound
<1>2. /\ n.mode = b.mode
      /\ n.target = Lesser(b.target, r)
      /\ n.hard = IF b.hard = NoBound THEN r ELSE Lesser(b.hard, r)
      /\ b.elastic = NoBound => n.elastic = NoBound
      /\ b.elastic # NoBound =>
           n.elastic = IF b.elastic < n.target THEN n.target ELSE Lesser(b.elastic, n.hard)
  BY DEF NarrowedTime
<1>3. n.target \in Nat /\ n.target <= b.target /\ n.target <= r
  BY <1>1, <1>2 DEF Lesser
<1>4. /\ n.hard \in Nat /\ n.hard <= r
      /\ b.hard # NoBound => n.hard <= b.hard
  BY <1>1, <1>2, PolicyAssumption DEF Lesser, Bounds
<1>5. n.target <= n.hard
  BY <1>1, <1>2, PolicyAssumption DEF Lesser, Bounds, ValidBound
<1>6. b.elastic # NoBound =>
        n.elastic \in Nat /\ n.target <= n.elastic /\ n.elastic <= n.hard
  BY <1>1, <1>2, <1>3, <1>4, <1>5, PolicyAssumption DEF Lesser, Bounds
<1>7. n \in Bound
  <2>1. n.elastic \in Bounds /\ n.hard \in Bounds
    BY <1>2, <1>4, <1>6 DEF Bounds
  <2>2. n = [mode |-> n.mode, target |-> n.target, elastic |-> n.elastic, hard |-> n.hard]
    BY DEF NarrowedTime
  <2> QED
    BY <1>1, <1>2, <1>3, <2>1, <2>2 DEF Bound
<1>8. ValidBound(n)
  BY <1>2, <1>4, <1>5, <1>6, <1>7, PolicyAssumption DEF ValidBound
<1> QED
  BY <1>4, <1>8

\* What a valid bound lets through without asking is a number within its ceiling.
LEMMA PreAuthorizedWithinHard ==
  ASSUME NEW b, ValidBound(b)
  PROVE  /\ PreAuthorized(b) \in Nat
         /\ b.hard # NoBound => PreAuthorized(b) <= b.hard
<1>1. /\ b.target \in Nat /\ b.mode \in {"hard", "elastic", "approval"}
      /\ b.elastic \in Bounds /\ b.hard \in Bounds
  BY DEF ValidBound, Bound
<1>2. CASE b.mode = "hard"
  BY <1>1, <1>2, PolicyAssumption DEF ValidBound, PreAuthorized, Bounds
<1>3. CASE b.mode = "elastic"
  BY <1>1, <1>3, PolicyAssumption DEF ValidBound, PreAuthorized, Bounds
<1>4. CASE b.mode = "approval"
  BY <1>1, <1>4, PolicyAssumption DEF ValidBound, PreAuthorized, Bounds
<1> QED
  BY <1>1, <1>2, <1>3, <1>4

\* Narrowing never lets more through unasked.
LEMMA NarrowedPreAuthorizesLess ==
  ASSUME NEW b, ValidBound(b), NEW r \in Nat \ {0}
  PROVE  PreAuthorized(NarrowedTime(b, r)) <= PreAuthorized(b)
<1> DEFINE n == NarrowedTime(b, r)
<1>1. /\ b.target \in Nat /\ b.mode \in {"hard", "elastic", "approval"}
      /\ b.elastic \in Bounds /\ b.hard \in Bounds
  BY DEF ValidBound, Bound
<1>2. /\ n.mode = b.mode
      /\ n.target = Lesser(b.target, r)
      /\ n.hard = IF b.hard = NoBound THEN r ELSE Lesser(b.hard, r)
      /\ b.elastic # NoBound =>
           n.elastic = IF b.elastic < n.target THEN n.target ELSE Lesser(b.elastic, n.hard)
  BY DEF NarrowedTime
<1>3. CASE b.mode = "hard"
  <2>1. b.hard \in Nat
    BY <1>1, <1>3 DEF ValidBound, Bounds
  <2>2. PreAuthorized(n) = n.hard /\ PreAuthorized(b) = b.hard
    BY <1>2, <1>3 DEF PreAuthorized
  <2> QED
    BY <1>2, <2>1, <2>2, PolicyAssumption DEF Lesser
<1>4. CASE b.mode = "elastic"
  <2>1. b.elastic \in Nat /\ b.elastic # NoBound /\ b.target <= b.elastic
    BY <1>1, <1>4, PolicyAssumption DEF ValidBound, Bounds
  <2>2. n.target \in Nat /\ n.target <= b.target /\ n.hard \in Nat
    BY <1>1, <1>2, PolicyAssumption DEF Lesser, Bounds
  <2>3. n.elastic \in Nat /\ n.elastic <= b.elastic
    BY <1>1, <1>2, <2>1, <2>2 DEF Lesser
  <2>4. PreAuthorized(b) = b.elastic
    BY <1>4, <2>1 DEF PreAuthorized
  <2>5. PreAuthorized(n) = IF n.target <= n.elastic THEN n.elastic ELSE n.target
    BY <1>2, <1>4 DEF PreAuthorized
  <2> QED
    BY <1>1, <2>1, <2>2, <2>3, <2>4, <2>5
<1>5. CASE b.mode = "approval"
  <2>1. PreAuthorized(n) = n.target /\ PreAuthorized(b) = b.target
    BY <1>2, <1>5 DEF PreAuthorized
  <2> QED
    BY <1>1, <1>2, <2>1 DEF Lesser
<1> QED
  BY <1>1, <1>3, <1>4, <1>5
-----------------------------------------------------------------------------
\* The parts of a policy that a business deadline leaves alone, and the one it
\* narrows.
LEMMA ContextParts ==
  ASSUME NEW p \in Validated, NEW r \in Bounds
  PROVE  LET q == apply_business_context(p, r) IN
         /\ q.resource = p.resource /\ q.turn = p.turn /\ q.minConfidence = p.minConfidence
         /\ q.time = IF r = NoBound \/ r = 0 THEN p.time ELSE NarrowedTime(p.time, r)
BY DEF apply_business_context, Validated, Config

\* A policy narrowed to a business deadline still validates: the elastic ceiling
\* is clamped between the new target and the new hard ceiling, which are always
\* in order (apply_business_context calls clamp, which panics when they are not).
THEOREM NarrowingKeepsPolicyValid ==
  ASSUME NEW p \in Validated, NEW r \in Bounds
  PROVE  ValidPolicy(apply_business_context(p, r))
<1> DEFINE q == apply_business_context(p, r)
<1>1. ValidPolicy(p) /\ ValidBound(p.time)
  BY DEF Validated, ValidPolicy
<1>2. ValidBound(q.time)
  <2>1. CASE r = NoBound \/ r = 0
    BY <1>1, <2>1, ContextParts
  <2>2. CASE ~(r = NoBound \/ r = 0)
    <3>1. r \in Nat \ {0}
      BY <2>2 DEF Bounds
    <3>2. ValidBound(NarrowedTime(p.time, r))
      BY <1>1, <3>1, NarrowedIsValid
    <3> QED
      BY <2>2, <3>2, ContextParts
  <2> QED
    BY <2>1, <2>2
<1> HIDE DEF q
<1>3. q.resource = p.resource /\ q.turn = p.turn /\ q.minConfidence = p.minConfidence
  BY ContextParts DEF q
<1>4. ValidPolicy(q)
  BY <1>1, <1>2, <1>3 DEF ValidPolicy
<1> QED
  BY <1>4 DEF q
-----------------------------------------------------------------------------
\* evaluate_time admits at most what is let through unasked, and denies only
\* past a hard ceiling.
LEMMA TimeOutcome ==
  ASSUME NEW b, ValidBound(b), NEW secs \in Nat
  PROVE  /\ evaluate_time(b, secs) \in Admissions
         /\ evaluate_time(b, secs) = "admit" <=> secs <= PreAuthorized(b)
         /\ evaluate_time(b, secs) = "deny" <=> b.hard # NoBound /\ secs > b.hard
<1>1. b.hard \in Bounds
  BY DEF ValidBound, Bound
<1>2. /\ PreAuthorized(b) \in Nat
      /\ b.hard # NoBound => PreAuthorized(b) <= b.hard
  BY PreAuthorizedWithinHard
<1>3. b.hard # NoBound => b.hard \in Nat
  BY <1>1 DEF Bounds
<1> QED
  BY <1>2, <1>3 DEF evaluate_time, Admissions

\* evaluate_resource denies exactly past the hard ceiling.
LEMMA ResourceOutcome ==
  ASSUME NEW b, ValidBound(b), b.hard # NoBound, NEW projected \in Nat
  PROVE  /\ evaluate_resource(b, projected) \in Admissions
         /\ evaluate_resource(b, projected) = "deny" <=> projected > b.hard
<1>1. b.hard \in Nat
  BY DEF ValidBound, Bound, Bounds
<1>2. PreAuthorized(b) \in Nat /\ PreAuthorized(b) <= b.hard
  BY PreAuthorizedWithinHard
<1> QED
  BY <1>1, <1>2 DEF evaluate_resource, Admissions

\* A bound that is admitted after narrowing was admitted before it, and one that
\* was denied stays denied.
LEMMA NarrowedTimeOutcome ==
  ASSUME NEW b, ValidBound(b), NEW r \in Nat \ {0}, NEW secs \in Nat
  PROVE  /\ evaluate_time(NarrowedTime(b, r), secs) = "admit" => evaluate_time(b, secs) = "admit"
         /\ evaluate_time(b, secs) = "deny" => evaluate_time(NarrowedTime(b, r), secs) = "deny"
<1> DEFINE n == NarrowedTime(b, r)
<1>1. /\ ValidBound(n) /\ n.hard \in Nat
      /\ b.hard # NoBound => n.hard <= b.hard
  BY NarrowedIsValid
<1>2. PreAuthorized(n) <= PreAuthorized(b)
  BY NarrowedPreAuthorizesLess
<1>3. PreAuthorized(n) \in Nat /\ PreAuthorized(b) \in Nat
  BY <1>1, PreAuthorizedWithinHard
<1>4. b.hard # NoBound => b.hard \in Nat
  BY DEF ValidBound, Bound, Bounds
<1>5. /\ evaluate_time(n, secs) = "admit" <=> secs <= PreAuthorized(n)
      /\ evaluate_time(n, secs) = "deny" <=> n.hard # NoBound /\ secs > n.hard
  BY <1>1, TimeOutcome
<1>6. /\ evaluate_time(b, secs) = "admit" <=> secs <= PreAuthorized(b)
      /\ evaluate_time(b, secs) = "deny" <=> b.hard # NoBound /\ secs > b.hard
  BY TimeOutcome
<1> HIDE DEF n
<1>7. /\ evaluate_time(n, secs) = "admit" => evaluate_time(b, secs) = "admit"
      /\ evaluate_time(b, secs) = "deny" => evaluate_time(n, secs) = "deny"
  BY <1>1, <1>2, <1>3, <1>4, <1>5, <1>6, PolicyAssumption
<1> QED
  BY <1>7 DEF n

\* A business deadline only tightens a policy: whatever it admits under the
\* deadline it admits without it, and what it denies it denies with any deadline.
THEOREM DeadlineOnlyTightens ==
  ASSUME NEW p \in Validated, NEW r \in Bounds, NEW projected \in Nat, NEW secs \in Nat,
         NEW confidence \in 0..2, NEW lifetime \in BOOLEAN
  PROVE  LET narrowed == evaluate_with(apply_business_context(p, r), projected, secs, confidence, lifetime)
             base     == evaluate_with(p, projected, secs, confidence, lifetime)
         IN  /\ narrowed = "admit" => base = "admit"
             /\ base = "deny" => narrowed = "deny"
<1> DEFINE q == apply_business_context(p, r)
           res == IF lifetime THEN evaluate_resource(p.resource, projected) ELSE "admit"
           tq  == evaluate_time(q.time, secs)
           tp  == evaluate_time(p.time, secs)
<1>1. /\ ValidBound(p.time) /\ ValidBound(p.resource) /\ p.resource.hard # NoBound
  BY DEF Validated, ValidPolicy
<1>2. /\ q.resource = p.resource /\ q.minConfidence = p.minConfidence
      /\ q.time = IF r = NoBound \/ r = 0 THEN p.time ELSE NarrowedTime(p.time, r)
  BY ContextParts
<1>3. (tq = "admit" => tp = "admit") /\ (tp = "deny" => tq = "deny")
  <2>1. CASE r = NoBound \/ r = 0
    BY <1>2, <2>1
  <2>2. CASE ~(r = NoBound \/ r = 0)
    <3>1. r \in Nat \ {0}
      BY <2>2 DEF Bounds
    <3> QED
      BY <1>1, <1>2, <2>2, <3>1, NarrowedTimeOutcome
  <2> QED
    BY <2>1, <2>2
<1>4. tp \in Admissions /\ tq \in Admissions /\ res \in Admissions
  <2>1. ValidBound(q.time)
    BY NarrowingKeepsPolicyValid DEF ValidPolicy
  <2> QED
    BY <1>1, <2>1, TimeOutcome, ResourceOutcome DEF Admissions
<1>5. evaluate_with(p, projected, secs, confidence, lifetime) =
        IF "deny" \in {res, tp} \/ confidence < p.minConfidence THEN "deny"
        ELSE IF "approval" \in {res, tp} THEN "approval" ELSE "admit"
  BY DEF evaluate_with
<1>6. evaluate_with(q, projected, secs, confidence, lifetime) =
        IF "deny" \in {res, tq} \/ confidence < p.minConfidence THEN "deny"
        ELSE IF "approval" \in {res, tq} THEN "approval" ELSE "admit"
  BY <1>2 DEF evaluate_with
<1> HIDE DEF res, tp, tq, q
<1>7. /\ evaluate_with(q, projected, secs, confidence, lifetime) = "admit"
           => evaluate_with(p, projected, secs, confidence, lifetime) = "admit"
      /\ evaluate_with(p, projected, secs, confidence, lifetime) = "deny"
           => evaluate_with(q, projected, secs, confidence, lifetime) = "deny"
  BY <1>3, <1>4, <1>5, <1>6 DEF Admissions
<1> QED
  BY <1>7 DEF q

\* Nothing admits a prompt past a hard ceiling: not an elastic bound, not an
\* approval given by the webhook, not a turn within its own ceiling.  A prompt
\* that is finally admitted fits the hard resource ceiling (of a lifetime
\* budget), the turn's ceiling, the hard time ceiling and any business deadline
\* that has not passed, and was estimated with the confidence required.
THEOREM AdmitWithinEveryCeiling ==
  ASSUME NEW p \in Validated, NEW r \in Bounds, NEW projected \in Nat, NEW requested \in Nat,
         NEW secs \in Nat, NEW confidence \in 0..2, NEW lifetime \in BOOLEAN,
         NEW verdict \in {"approve", "reject", "abstain"},
         Decide(p, r, projected, requested, secs, confidence, lifetime, verdict) = "admit"
  PROVE  /\ lifetime => projected <= p.resource.hard
         /\ p.turn # NoBound => requested <= p.turn.ceiling
         /\ p.time.hard # NoBound => secs <= p.time.hard
         /\ r # NoBound /\ r # 0 => secs <= r
         /\ confidence >= p.minConfidence
<1> DEFINE q == apply_business_context(p, r)
           decided == evaluate_with(q, projected, secs, confidence, lifetime)
           turn == evaluate_turn(q, requested)
           turned == with_turn_outcome(decided, turn)
<1>1. /\ ValidBound(p.resource) /\ p.resource.hard # NoBound /\ ValidBound(p.time)
      /\ ValidTurn(p.turn) /\ p.minConfidence \in 0..2
  BY DEF Validated, ValidPolicy
<1>2. /\ q.resource = p.resource /\ q.turn = p.turn /\ q.minConfidence = p.minConfidence
      /\ q.time = IF r = NoBound \/ r = 0 THEN p.time ELSE NarrowedTime(p.time, r)
  BY ContextParts
<1>3. apply_external_approval(turned, verdict) = "admit"
  BY DEF Decide
<1>4. turned # "deny"
  BY <1>3 DEF apply_external_approval
<1>5. turn # "deny" /\ decided # "deny"
  BY <1>4 DEF with_turn_outcome
<1>6. p.turn # NoBound => requested <= p.turn.ceiling
  <2>1. p.turn # NoBound => p.turn.ceiling \in Nat
    BY <1>1 DEF ValidTurn
  <2> QED
    BY <1>2, <1>5, <2>1 DEF evaluate_turn
<1>7. /\ lifetime => evaluate_resource(p.resource, projected) # "deny"
      /\ evaluate_time(q.time, secs) # "deny"
      /\ ~(confidence < p.minConfidence)
  BY <1>2, <1>5 DEF evaluate_with
<1>8. lifetime => projected <= p.resource.hard
  <2>1. p.resource.hard \in Nat
    BY <1>1 DEF ValidBound, Bound, Bounds
  <2> QED
    BY <1>1, <1>7, <2>1, ResourceOutcome
<1>9. confidence >= p.minConfidence
  BY <1>1, <1>7
<1>10. /\ p.time.hard # NoBound => secs <= p.time.hard
       /\ r # NoBound /\ r # 0 => secs <= r
  <2>0. p.time.hard # NoBound => p.time.hard \in Nat
    BY <1>1 DEF ValidBound, Bound, Bounds
  <2>1. CASE r = NoBound \/ r = 0
    <3>1. evaluate_time(p.time, secs) # "deny"
      BY <1>2, <1>7, <2>1
    <3> QED
      BY <1>1, <2>0, <2>1, <3>1, TimeOutcome
  <2>2. CASE ~(r = NoBound \/ r = 0)
    <3>1. r \in Nat \ {0}
      BY <2>2 DEF Bounds
    <3> DEFINE n == NarrowedTime(p.time, r)
    <3>2. /\ ValidBound(n) /\ n.hard \in Nat /\ n.hard <= r
          /\ p.time.hard # NoBound => n.hard <= p.time.hard
      BY <1>1, <3>1, NarrowedIsValid
    <3>3. evaluate_time(n, secs) # "deny"
      BY <1>2, <1>7, <2>2
    <3>4. secs <= n.hard
      BY <3>2, <3>3, TimeOutcome, PolicyAssumption
    <3> HIDE DEF n
    <3> QED
      BY <2>0, <3>1, <3>2, <3>4
  <2> QED
    BY <2>1, <2>2
<1> QED
  BY <1>6, <1>8, <1>9, <1>10

\* The completion reserve never exceeds the request it is set aside from, nor
\* the policy's hard ceiling: so a first preflight always finds room for it.
THEOREM ReserveFitsRequest ==
  ASSUME NEW p \in Validated, NEW basis \in Nat, NEW criteria \in Nat
  PROVE  /\ completion_reserve_for(p, basis, criteria) \in Nat
         /\ completion_reserve_for(p, basis, criteria) <= basis
         /\ completion_reserve_for(p, basis, criteria) <= p.resource.hard
<1> DEFINE percent == ReservePercent(criteria)
           product == basis * percent
<1>1. p.resource.hard \in Nat
  BY DEF Validated, ValidPolicy, ValidBound, Bound, Bounds
<1>2. percent \in Nat /\ percent <= 50
  BY DEF ReservePercent, Lesser
<1>3. product \in Nat /\ product <= 50 * basis
  BY <1>2
<1>4. Scaled(basis, percent) = (2 * product + 100) \div 200
  BY <1>2 DEF Scaled
<1>5. Scaled(basis, percent) \in Nat /\ Scaled(basis, percent) <= basis
  BY <1>3, <1>4
<1> QED
  BY <1>1, <1>5 DEF completion_reserve_for, Lesser
-----------------------------------------------------------------------------
(* The ledger: its operations keep its types, and but for a reservation they *)
(* make no row and activate none.                                            *)

Kept ==
  \A i \in Ids : rows'[i] # None =>
    /\ rows[i] # None
    /\ rows'[i].task = rows[i].task /\ rows'[i].plan = rows[i].plan /\ rows'[i].key = rows[i].key
    /\ rows'[i].state = "active" => rows[i].state = "active"

\* A sum over all rows of a natural each.
LEMMA TableSum ==
  ASSUME NEW f, \A i \in Ids : f[i] \in Nat
  PROVE  Sum(f) \in Nat
BY SumNat, ReservationAssumption DEF Sum, Ids

\* What a task has spent and what it holds are naturals.
LEMMA SumsAreNat ==
  ASSUME TypeOK, NEW t \in Tasks
  PROVE  SettledSum(t) \in Nat /\ ActiveSum(t) \in Nat
<1> DEFINE f == [i \in Ids |-> IF i \in Of(t, "settled") THEN rows[i].settled ELSE 0]
           g == [i \in Ids |-> IF i \in Of(t, "active") THEN rows[i].amount ELSE 0]
<1>1. \A i \in Ids : f[i] \in Nat
  BY DEF TypeOK, Row, Of, Opt
<1>2. \A i \in Ids : g[i] \in Nat
  BY DEF TypeOK, Row, Of, Opt
<1> HIDE DEF f, g
<1>3. Sum(f) \in Nat /\ Sum(g) \in Nat
  BY <1>1, <1>2, TableSum
<1> QED
  BY <1>3 DEF f, g, SettledSum, ActiveSum

\* The reservation of a completion reserve's share leaves it non-negative.
LEMMA DrawFits ==
  ASSUME TypeOK, NEW t \in Tasks, budgets[t] # None, NEW class \in Classes, NEW amount \in Nat,
         Admits(t, class, amount)
  PROVE  /\ DrawOf(t, class, amount) \in Nat
         /\ DrawOf(t, class, amount) <= budgets[t].reserve
<1>1. budgets[t] \in Budget
  BY DEF TypeOK, Opt
<1>2. GateHeadroom(t) \in Int
  <2>1. SettledSum(t) \in Nat /\ ActiveSum(t) \in Nat
    BY SumsAreNat
  <2>2. /\ budgets[t].limit \in Nat
        /\ budgets[t].ceiling # None => budgets[t].ceiling \in Nat
    BY <1>1 DEF Budget, Opt
  <2> QED
    BY <2>1, <2>2 DEF GateHeadroom
<1>3. budgets[t].reserve \in Nat
  BY <1>1 DEF Budget
<1> QED
  BY <1>2, <1>3 DEF DrawOf, Admits, MaxOf, Classes

LEMMA TickLedger ==
  ASSUME TypeOK, Tick
  PROVE  TypeOK' /\ Kept /\ now' \in Nat /\ now <= now'
BY DEF TypeOK, Tick, Kept

LEMMA SameLedger ==
  ASSUME TypeOK, UNCHANGED ledger
  PROVE  TypeOK' /\ Kept
BY DEF TypeOK, ledger, Kept

LEMMA EndedLedger ==
  ASSUME TypeOK, NEW S \in SUBSET Ids, \A i \in S : rows[i] # None,
         NEW s \in {"released", "expired"}, Ended(S, s)
  PROVE  /\ TypeOK' /\ Kept
         /\ \A i \in S : rows'[i].state = s
<1>1. \A i \in S : rows[i] \in Row
  BY DEF TypeOK, Opt
<1>2. /\ rows' = [i \in Ids |-> IF i \in S THEN [rows[i] EXCEPT !.state = s] ELSE rows[i]]
      /\ now' = now /\ issued' = issued /\ floor' = floor
  BY DEF Ended
<1>3. \A i \in S : /\ [rows[i] EXCEPT !.state = s] \in Row
                    /\ [rows[i] EXCEPT !.state = s].state = s
                    /\ [rows[i] EXCEPT !.state = s].task = rows[i].task
                    /\ [rows[i] EXCEPT !.state = s].plan = rows[i].plan
                    /\ [rows[i] EXCEPT !.state = s].key = rows[i].key
                    /\ [rows[i] EXCEPT !.state = s].settled = rows[i].settled
  BY <1>1 DEF Row
<1>4. \A i \in S : rows'[i] \in Row /\ rows'[i].state = s /\ rows'[i].task = rows[i].task
        /\ rows'[i].plan = rows[i].plan /\ rows'[i].key = rows[i].key
  BY <1>2, <1>3
<1>5. \A i \in Ids \ S : rows'[i] = rows[i]
  BY <1>2
<1>6. rows' \in [Ids -> Opt(Row)]
  <2>1. \A i \in Ids : rows'[i] \in Opt(Row)
    BY <1>4, <1>5 DEF TypeOK, Opt
  <2> QED
    BY <1>2, <2>1
<1>7. Kept
  BY <1>4, <1>5 DEF Kept
<1>8. /\ budgets' \in [Tasks -> Opt(Budget)]
      /\ \A t \in Tasks : budgets[t] # None => budgets'[t] # None
  <2> DEFINE given(t) == Sum([i \in Ids |-> IF i \in S /\ rows[i].task = t THEN rows[i].drawn ELSE 0])
  <2>1. \A t \in Tasks : given(t) \in Nat
    <3> TAKE t \in Tasks
    <3> DEFINE f == [i \in Ids |-> IF i \in S /\ rows[i].task = t THEN rows[i].drawn ELSE 0]
    <3>1. \A i \in Ids : f[i] \in Nat
      BY <1>1 DEF Row
    <3> HIDE DEF f
    <3>2. Sum(f) \in Nat
      BY <3>1, TableSum
    <3> QED
      BY <3>2 DEF f
  <2>2. budgets' = [t \in Tasks |-> IF budgets[t] = None THEN None
                      ELSE [budgets[t] EXCEPT !.reserve = @ + given(t)]]
    BY DEF Ended
  <2> HIDE DEF given
  <2>3. \A t \in Tasks : budgets[t] # None => [budgets[t] EXCEPT !.reserve = @ + given(t)] \in Budget
    BY <2>1 DEF TypeOK, Opt, Budget
  <2> QED
    BY <2>2, <2>3, RowAssumption DEF Opt
<1>9. \A i \in Ids : rows'[i] # None =>
        budgets'[rows'[i].task] # None /\ (rows'[i].state = "settled" => rows'[i].settled # None)
  <2> TAKE i \in Ids
  <2>1. CASE i \in S
    <3>1. rows'[i].state # "settled" /\ rows'[i].task = rows[i].task /\ rows[i].task \in Tasks
      BY <1>1, <1>4, <2>1 DEF Row
    <3>2. budgets[rows[i].task] # None
      BY <2>1 DEF TypeOK
    <3> QED
      BY <1>8, <3>1, <3>2
  <2>2. CASE i \notin S
    <3>1. rows'[i] = rows[i]
      BY <1>5, <2>2
    <3>2. rows[i] # None => rows[i].task \in Tasks
      BY DEF TypeOK, Opt, Row
    <3> QED
      BY <1>8, <3>1, <3>2 DEF TypeOK
  <2> QED
    BY <2>1, <2>2
<1>10. TypeOK'
  BY <1>2, <1>6, <1>8, <1>9 DEF TypeOK
<1> QED
  BY <1>4, <1>7, <1>10

LEMMA SettleLedger ==
  ASSUME TypeOK, NEW i \in Ids, NEW a \in Opt(Amounts), Settle(i, a)
  PROVE  /\ TypeOK' /\ Kept
         /\ rows'[i].state = "settled"
<1> DEFINE value == IF a = None THEN rows[i].amount ELSE a
           row == [rows[i] EXCEPT !.state = "settled", !.settled = value,
                                  !.late = (rows[i].state = "expired")]
           t == rows[i].task
<1>1. rows[i] \in Row
  BY DEF TypeOK, Opt, Settle
<1>2. value \in Nat /\ t \in Tasks /\ budgets[t] \in Budget
  <2>1. rows[i] # None /\ rows[i].amount \in Nat /\ t \in Tasks
    BY <1>1 DEF Settle, Row
  <2>2. value \in Nat
    BY <2>1, ReservationAssumption DEF Opt
  <2>3. budgets[t] # None /\ budgets[t] \in Opt(Budget)
    BY <2>1 DEF TypeOK
  <2> QED
    BY <2>1, <2>2, <2>3 DEF Opt
<1>3. /\ rows' = [rows EXCEPT ![i] = row]
      /\ budgets' = [budgets EXCEPT ![t].reserve = @ + RestoreOnSettle(rows[i], value)]
      /\ now' = now /\ issued' = issued /\ floor' = floor
  BY DEF Settle
<1>4. /\ row \in Row /\ row.state = "settled" /\ row.settled = value /\ row.task = t
      /\ row.plan = rows[i].plan /\ row.key = rows[i].key
  BY <1>1, <1>2 DEF Row, Opt
<1>5. RestoreOnSettle(rows[i], value) \in Nat
  BY <1>1, <1>2 DEF RestoreOnSettle, MinOf, MaxOf, Row
<1> HIDE DEF row, value, t
<1>6. /\ rows'[i] = row /\ \A j \in Ids : j # i => rows'[j] = rows[j]
      /\ rows' \in [Ids -> Opt(Row)]
  BY <1>3, <1>4 DEF TypeOK, Opt
<1>7. /\ budgets' \in [Tasks -> Opt(Budget)]
      /\ \A u \in Tasks : budgets[u] # None => budgets'[u] # None
  <2>1. [budgets[t] EXCEPT !.reserve = @ + RestoreOnSettle(rows[i], value)] \in Budget
    BY <1>2, <1>5 DEF Budget
  <2> QED
    BY <1>2, <1>3, <2>1, RowAssumption DEF TypeOK, Opt
<1>8. \A j \in Ids : rows'[j] # None =>
        budgets'[rows'[j].task] # None /\ (rows'[j].state = "settled" => rows'[j].settled # None)
  <2> TAKE j \in Ids
  <2>1. CASE j = i
    BY <1>1, <1>2, <1>4, <1>6, <1>7, <2>1, RowAssumption, ReservationAssumption
  <2>2. CASE j # i
    <3>1. rows'[j] = rows[j] /\ (rows[j] # None => rows[j].task \in Tasks)
      BY <1>6, <2>2 DEF TypeOK, Opt, Row
    <3> QED
      BY <1>7, <3>1 DEF TypeOK
  <2> QED
    BY <2>1, <2>2
<1>9. TypeOK'
  BY <1>3, <1>6, <1>7, <1>8 DEF TypeOK
<1>10. Kept
  BY <1>1, <1>4, <1>6, RowAssumption DEF Kept, t
<1> QED
  BY <1>4, <1>6, <1>9, <1>10

\* A reservation adds one row, of the plan it is for.
LEMMA ReserveLedger ==
  ASSUME TypeOK, NEW t \in Tasks, NEW plan \in Opt(Plans), NEW class \in Classes, NEW amount \in Nat,
         NEW key \in Keys, NEW ttl \in TTLs, Reserve(t, plan, class, amount, key, ttl)
  PROVE  /\ TypeOK' /\ issued + 1 \in Ids
         /\ rows'[issued + 1] # None
         /\ rows'[issued + 1].task = t /\ rows'[issued + 1].plan = plan /\ rows'[issued + 1].key = key
         /\ rows'[issued + 1].state = "active"
         /\ \A i \in Ids : i # issued + 1 => rows'[i] = rows[i]
<1> DEFINE row == [task |-> t, plan |-> plan, key |-> key, amount |-> amount,
                   drawn |-> DrawOf(t, class, amount), state |-> "active", settled |-> None,
                   expiresAt |-> now + ttl, late |-> FALSE]
<1>1. /\ budgets[t] # None /\ Admits(t, class, amount) /\ issued < MaxRows /\ issued' = issued + 1
      /\ budgets' = [budgets EXCEPT ![t].reserve = @ - DrawOf(t, class, amount)]
      /\ rows' = [rows EXCEPT ![issued + 1] = row]
      /\ now' = now /\ floor' = floor
  BY DEF Reserve
<1>2. /\ DrawOf(t, class, amount) \in Nat
      /\ DrawOf(t, class, amount) <= budgets[t].reserve
  BY <1>1, DrawFits
<1>3. issued + 1 \in Ids
  BY <1>1, ReservationAssumption DEF Ids, TypeOK
<1>4. /\ row \in Row /\ row.state = "active" /\ row.task = t /\ row.plan = plan /\ row.key = key
  <2>1. now + ttl \in Nat
    BY ReservationAssumption DEF TypeOK
  <2> QED
    BY <1>2, <2>1 DEF Row, Opt
<1> HIDE DEF row
<1>5. /\ rows'[issued + 1] = row /\ \A i \in Ids : i # issued + 1 => rows'[i] = rows[i]
      /\ rows' \in [Ids -> Opt(Row)]
  BY <1>1, <1>3, <1>4 DEF TypeOK, Opt
<1>6. /\ budgets' \in [Tasks -> Opt(Budget)]
      /\ \A u \in Tasks : budgets[u] # None => budgets'[u] # None
  <2>1. budgets[t] \in Budget
    BY <1>1 DEF TypeOK, Opt
  <2>2. [budgets[t] EXCEPT !.reserve = @ - DrawOf(t, class, amount)] \in Budget
    BY <1>2, <2>1 DEF Budget
  <2> QED
    BY <1>1, <2>2, RowAssumption DEF TypeOK, Opt
<1>7. \A j \in Ids : rows'[j] # None =>
        budgets'[rows'[j].task] # None /\ (rows'[j].state = "settled" => rows'[j].settled # None)
  <2> TAKE j \in Ids
  <2>1. CASE j = issued + 1
    BY <1>1, <1>4, <1>5, <1>6, <2>1
  <2>2. CASE j # issued + 1
    <3>1. rows'[j] = rows[j] /\ (rows[j] # None => rows[j].task \in Tasks)
      BY <1>5, <2>2 DEF TypeOK, Opt, Row
    <3> QED
      BY <1>6, <3>1 DEF TypeOK
  <2> QED
    BY <2>1, <2>2
<1>8. issued' \in 0..MaxRows
  BY <1>1, <1>3 DEF Ids
<1>9. TypeOK'
  BY <1>1, <1>5, <1>6, <1>7, <1>8 DEF TypeOK
<1> QED
  BY <1>3, <1>4, <1>5, <1>9, RowAssumption

LEMMA InitializeLedger ==
  ASSUME TypeOK, NEW t \in Tasks, NEW policy \in [limit: Nat, ceiling: Opt(Nat)], NEW e \in Nat,
         InitializeTaskBudget(t, policy, e)
  PROVE  TypeOK' /\ Kept /\ budgets'[t] # None
<1> DEFINE budget == [limit |-> policy.limit, ceiling |-> policy.ceiling, reserve |-> ReserveFor(e, policy)]
<1>1. /\ budgets' = [budgets EXCEPT ![t] = budget]
      /\ floor' = [floor EXCEPT ![t] = ReserveFor(e, policy)]
      /\ now' = now /\ rows' = rows /\ issued' = issued
  BY DEF InitializeTaskBudget
<1>2. ReserveFor(e, policy) \in Nat /\ budget \in Budget
  BY DEF ReserveFor, MinOf, Budget
<1> HIDE DEF budget
<1>3. /\ budgets' \in [Tasks -> Opt(Budget)] /\ budgets'[t] # None
      /\ \A u \in Tasks : budgets[u] # None => budgets'[u] # None
  BY <1>1, <1>2, RowAssumption DEF TypeOK, Opt
<1>4. \A j \in Ids : rows[j] # None => rows[j].task \in Tasks
  BY DEF TypeOK, Opt, Row
<1>5. TypeOK'
  BY <1>1, <1>2, <1>3, <1>4 DEF TypeOK
<1> QED
  BY <1>1, <1>3, <1>5 DEF Kept

LEMMA AdjustLedger ==
  ASSUME TypeOK, NEW t \in Tasks, NEW e \in Nat, AdjustCompletionReserve(t, e)
  PROVE  TypeOK' /\ Kept /\ budgets'[t] # None
<1>1. /\ budgets[t] # None
      /\ budgets' = [budgets EXCEPT ![t].reserve = e]
      /\ floor' = [floor EXCEPT ![t] = @ + e - budgets[t].reserve]
      /\ now' = now /\ rows' = rows /\ issued' = issued
  BY DEF AdjustCompletionReserve
<1>2. budgets[t] \in Budget
  BY <1>1 DEF TypeOK, Opt
<1>3. [budgets[t] EXCEPT !.reserve = e] \in Budget /\ budgets[t].reserve \in Nat
  BY <1>2 DEF Budget
<1>4. /\ budgets' \in [Tasks -> Opt(Budget)] /\ budgets'[t] # None
      /\ \A u \in Tasks : budgets[u] # None => budgets'[u] # None
  BY <1>1, <1>3, RowAssumption DEF TypeOK, Opt
<1>5. floor' \in [Tasks -> Int]
  <2>1. floor[t] + e - budgets[t].reserve \in Int
    BY <1>3 DEF TypeOK
  <2> QED
    BY <1>1, <2>1 DEF TypeOK
<1>6. \A j \in Ids : rows[j] # None => rows[j].task \in Tasks
  BY DEF TypeOK, Opt, Row
<1>7. TypeOK'
  BY <1>1, <1>4, <1>5, <1>6 DEF TypeOK
<1> QED
  BY <1>1, <1>4, <1>7 DEF Kept
-----------------------------------------------------------------------------
(* The handlers: what a step leaves alone. *)

\* The kinds of handler, told apart by their step.
LEMMA HandlerKinds ==
  ASSUME TkTypeOK
  PROVE  /\ Makes <=> h \in Planning
         /\ Reads <=> h \in Reading \cup Writing
         /\ \A s \in PlanSteps : At(s) => h \in Planning
         /\ At("observe") => h \in Reading
         /\ At("settle") \/ At("receipt") => h \in Writing
BY NullAssumption DEF TkTypeOK, Opt, Planning, Reading, Writing, PlanSteps, Makes, Reads, At

LEMMA GotoStep ==
  ASSUME h \in Planning, NEW s \in PlanSteps, Goto(s)
  PROVE  /\ h' \in Planning /\ h' # None /\ h'.step = s
         /\ h'.op = h.op /\ h'.task = h.task /\ h'.plan = h.plan /\ h'.prev = h.prev
         /\ h'.requested = h.requested /\ h'.reserve = h.reserve
BY NullAssumption DEF Goto, Planning

LEMMA GotoReceipt ==
  ASSUME h \in Writing, Goto("receipt")
  PROVE  /\ h' \in Writing /\ h' # None /\ h'.step = "receipt"
         /\ h'.op = h.op /\ h'.task = h.task /\ h'.plan = h.plan
         /\ h'.at = h.at /\ h'.since = h.since /\ h'.read = h.read
BY NullAssumption DEF Goto, Writing

\* A row of the ledger and the plan it is for.
LEMMA RowFacts ==
  ASSUME TypeOK, TkTypeOK, RowsInv, NEW i \in Ids, rows[i] # None
  PROVE  /\ rows[i].task \in Tasks /\ rows[i].plan \in Plans /\ rows[i].plan # None
         /\ plans[rows[i].plan] # None /\ plans[rows[i].plan].task = rows[i].task
BY ReservationAssumption DEF TypeOK, RowsInv, PlansOf, Made, Opt, Row

\* Steps that write no plan and no receipt and reserve nothing.
LEMMA Quiet ==
  ASSUME TypeOK, TkTypeOK, PlansInv, RowsInv, ReceiptsInv, FinishedHoldsNothing, NoUsageDropped,
         TypeOK', Kept, now <= now', plans' = plans, receipts' = receipts
  PROVE  PlansInv' /\ RowsInv' /\ ReceiptsInv' /\ FinishedHoldsNothing' /\ NoUsageDropped'
<1>1. now \in Nat /\ now' \in Nat
  BY DEF TypeOK
<1>2. PlansInv'
  <2>1. \A p \in Made : plans[p].born \in Nat
    BY DEF TkTypeOK, Made, Opt, Plan
  <2> QED
    BY <1>1, <2>1 DEF PlansInv, Made, PlansOf
<1>3. RowsInv'
  BY DEF RowsInv, Kept, PlansOf, Made
<1>4. ReceiptsInv'
  <2>1. \A p \in Plans : receipts[p] # None => receipts[p].at \in Nat
    BY DEF TkTypeOK, Opt, Receipt
  <2> QED
    BY <1>1, <2>1 DEF ReceiptsInv
<1>5. FinishedHoldsNothing'
  <2>1. \A t \in Tasks : Envelopes(t)' \subseteq Envelopes(t)
    BY DEF Envelopes, Of, Kept
  <2>2. \A t \in Tasks : \A i \in Envelopes(t)' : rows'[i].plan = rows[i].plan
    BY DEF Envelopes, Of, Kept
  <2> QED
    BY <2>1, <2>2 DEF FinishedHoldsNothing
<1>6. NoUsageDropped'
  <2>1. \A t \in Tasks : ReceiptsOf(t)' = ReceiptsOf(t)
    BY DEF ReceiptsOf, PlansOf, Made
  <2> QED
    BY <2>1 DEF NoUsageDropped
<1> QED
  BY <1>2, <1>3, <1>4, <1>5, <1>6

\* The active rows of a task are finitely many.
LEMMA EnvelopesFinite ==
  ASSUME NEW S, S \subseteq Ids
  PROVE  IsFiniteSet(S) /\ Cardinality(S) \in Nat
<1>1. IsFiniteSet(Ids)
  BY FS_Interval, ReservationAssumption DEF Ids
<1> QED
  BY <1>1, FS_Subset, FS_CardinalityType

\* No task gets a stranded envelope.
LEMMA StrandedFrame ==
  ASSUME StrandedInv, TkTypeOK, faults' = faults, \A t \in Tasks : Stranded(t)' \subseteq Stranded(t)
  PROVE  StrandedInv'
<1> SUFFICES ASSUME NEW t \in Tasks PROVE Cardinality(Stranded(t)') <= faults
  BY DEF StrandedInv
<1>1. Stranded(t) \subseteq Ids
  BY DEF Stranded, Envelopes, Of
<1>2. Stranded(t)' \subseteq Stranded(t)
  OBVIOUS
<1> DEFINE A == Stranded(t)
           B == Stranded(t)'
<1>3. Cardinality(A) <= faults
  BY DEF StrandedInv
<1> HIDE DEF A, B
<1>4. IsFiniteSet(A) /\ Cardinality(A) \in Nat /\ Cardinality(B) \in Nat /\ Cardinality(B) <= Cardinality(A)
  BY <1>1, <1>2, EnvelopesFinite, FS_Subset DEF A, B
<1>5. faults \in Nat
  BY TaskAssumption DEF TkTypeOK
<1> QED
  BY <1>3, <1>4, <1>5 DEF B

\* The same rows or fewer, the same plan in flight, and a handler that is past
\* its refund or where it was.
LEMMA StrandedStays ==
  ASSUME TypeOK, TkTypeOK, StrandedInv, Kept, faults' = faults, inflight' = inflight,
         Makes /\ h.step \in Unreleased =>
            Makes' /\ h'.task = h.task /\ h'.prev = h.prev /\ h'.step \in Unreleased
  PROVE  StrandedInv'
<1>1. \A t \in Tasks : Stranded(t)' \subseteq Stranded(t)
  BY DEF Stranded, Envelopes, Of, Kept
<1> QED
  BY <1>1, StrandedFrame

\* The number of automatic replans stays.
LEMMA ReplansFrame ==
  ASSUME ReplansInv, plans' = plans, replans' = replans, faults' = faults,
         \A t \in Tasks : Uncounted(t)' = Uncounted(t)
  PROVE  ReplansInv'
<1>1. \A t \in Tasks : Automatic(t)' = Automatic(t)
  BY DEF Automatic, PlansOf, Made
<1> QED
  BY <1>1 DEF ReplansInv

LEMMA TickStep ==
  ASSUME TkIInv, TkTick
  PROVE  TkIInv'
<1> USE DEF TkIInv
<1>1. TypeOK' /\ Kept /\ now \in Nat /\ now' \in Nat /\ now <= now'
  BY TickLedger DEF TkTick, TypeOK
<1>2. UNCHANGED <<budgets, rows, issued, floor, plans, inflight, calls, replans, receipts, config, h, faults>>
  BY DEF TkTick, Tick, sessions
<1>3. PlansInv' /\ RowsInv' /\ ReceiptsInv' /\ FinishedHoldsNothing' /\ NoUsageDropped'
  BY <1>1, <1>2, Quiet
<1>4. TkTypeOK'
  BY <1>2 DEF TkTypeOK, PlansOf, Made
<1>5. MakesInv'
  BY <1>2 DEF MakesInv, Makes, PlansOf, Made
<1>6. ReadsInv'
  <2>1. Reads => h.at \in Nat
    BY HandlerKinds DEF Reading, Writing
  <2> QED
    BY <1>1, <1>2, <2>1 DEF ReadsInv, Reads, PlansOf, Made, ReceiptsOf, Of
<1>7. StrandedInv'
  BY <1>1, <1>2, StrandedStays DEF Makes
<1>8. ReplansInv'
  BY <1>2, ReplansFrame DEF Uncounted, Makes
<1>9. DecisionInv'
  BY <1>2 DEF DecisionInv, Makes, Authorized, Committed, SettledSum, ActiveSum, Of
<1> QED
  BY <1>1, <1>3, <1>4, <1>5, <1>6, <1>7, <1>8, <1>9

\* Steps that make no plan, put none in flight and write no receipt: what is
\* left to show is about the handler.
LEMMA LedgerStep ==
  ASSUME TkIInv, TypeOK', Kept, now' = now,
         UNCHANGED <<plans, inflight, receipts, calls, replans, config, faults>>,
         h' \in Opt(Planning \cup Reading \cup Writing),
         Makes /\ h.step \in Unreleased =>
            Makes' /\ h'.task = h.task /\ h'.prev = h.prev /\ h'.step \in Unreleased,
         \A t \in Tasks : Uncounted(t)' = Uncounted(t),
         MakesInv', ReadsInv', DecisionInv'
  PROVE  TkIInv'
<1>1. now <= now'
  BY DEF TkIInv, TypeOK
<1>2. PlansInv' /\ RowsInv' /\ ReceiptsInv' /\ FinishedHoldsNothing' /\ NoUsageDropped'
  BY <1>1, Quiet DEF TkIInv
<1>3. TkTypeOK'
  BY DEF TkIInv, TkTypeOK, PlansOf, Made
<1>4. StrandedInv'
  BY StrandedStays DEF TkIInv
<1>5. ReplansInv'
  BY ReplansFrame DEF TkIInv
<1> QED
  BY <1>2, <1>3, <1>4, <1>5 DEF TkIInv

LEMMA ObserveStep ==
  ASSUME TkIInv, Observe
  PROVE  TkIInv'
<1>1. TypeOK /\ TkTypeOK /\ ReadsInv
  BY DEF TkIInv
<1>2. h \in Reading
  BY <1>1, HandlerKinds DEF Observe
<1>3. UNCHANGED <<now, budgets, rows, issued, floor, plans, inflight, calls, replans, receipts, config, faults>>
  BY DEF Observe, ledger, sessions
<1>4. TypeOK' /\ Kept
  BY <1>1, SameLedger DEF Observe
<1>5. h' = [op |-> "finalize", step |-> "settle", task |-> h.task, plan |-> h.plan,
            at |-> h.at, since |-> h.since, read |-> now]
  BY DEF Observe
<1>6. /\ h' \in Writing /\ h' # None /\ h'.op = "finalize" /\ h'.step = "settle"
      /\ h'.task = h.task /\ h'.plan = h.plan /\ h'.at = h.at /\ h'.since = h.since /\ h'.read = now
  BY <1>1, <1>2, <1>5, NullAssumption DEF Reading, Writing, TypeOK
<1>7. Reads /\ ~Makes /\ ~Makes' /\ Reads'
  BY <1>2, <1>6, NullAssumption DEF Reads, Makes, Reading
<1>8. ReadsInv'
  BY <1>1, <1>3, <1>6, <1>7 DEF ReadsInv, PlansOf, Made, ReceiptsOf
<1>9. MakesInv' /\ DecisionInv'
  BY <1>6, <1>7 DEF MakesInv, DecisionInv
<1>10. \A t \in Tasks : Uncounted(t)' = Uncounted(t)
  BY <1>7 DEF Uncounted
<1> QED
  BY <1>3, <1>4, <1>6, <1>7, <1>8, <1>9, <1>10, LedgerStep DEF Opt

LEMMA SettleStep ==
  ASSUME TkIInv, SettleEnvelope
  PROVE  TkIInv'
<1>1. TypeOK /\ TkTypeOK /\ ReadsInv /\ RowsInv
  BY DEF TkIInv
<1> DEFINE held == {i \in Of(h.task, "active") : rows[i].plan = h.plan}
<1>2. h \in Writing
  BY <1>1, HandlerKinds DEF SettleEnvelope
<1>3. UNCHANGED <<plans, inflight, calls, replans, receipts, config, faults>>
  BY DEF SettleEnvelope, sessions
<1>4. /\ h' \in Writing /\ h' # None /\ h'.op = "finalize" /\ h'.step = "receipt"
      /\ h'.task = h.task /\ h'.plan = h.plan /\ h'.at = h.at /\ h'.since = h.since /\ h'.read = h.read
  BY <1>2, GotoReceipt DEF SettleEnvelope, Writing
<1>5. Reads /\ ~Makes /\ ~Makes' /\ Reads'
  BY <1>2, <1>4, NullAssumption DEF Reads, Makes, Writing
<1>6. /\ TypeOK' /\ Kept /\ now' = now
      /\ \A i \in Ids : rows'[i] # None /\ rows'[i].state = "active" /\ rows'[i].task = h.task => rows'[i].plan # h.plan
  <2>1. CASE held = {}
    <3>1. UNCHANGED ledger
      BY <2>1 DEF SettleEnvelope
    <3>2. TypeOK' /\ Kept
      BY <1>1, <3>1, SameLedger
    <3> QED
      BY <2>1, <3>1, <3>2 DEF ledger, Of
  <2>2. CASE held # {}
    <3>1. PICK i \in held, a \in Opt(Amounts) : Settle(i, a)
      BY <2>2 DEF SettleEnvelope
    <3>2. i \in Ids /\ rows[i] # None /\ rows[i].plan = h.plan
      BY DEF Of
    <3>3. TypeOK' /\ Kept /\ rows'[i].state = "settled"
      BY <1>1, <3>1, <3>2, SettleLedger
    <3>4. \A j \in Ids : rows[j] # None /\ rows[j].plan = h.plan => j = i
      BY <1>1, <3>2 DEF RowsInv
    <3>5. now' = now
      BY <3>1 DEF Settle
    <3> QED
      BY <3>3, <3>4, <3>5 DEF Kept
  <2> QED
    BY <2>1, <2>2
<1>7. ReadsInv'
  <2>1. /\ h.plan \in PlansOf(h.task)' /\ receipts'[h.plan] = None
        /\ h.since <= h.at /\ h.at <= now' /\ h.at <= h.read
        /\ ReceiptsOf(h.task)' = ReceiptsOf(h.task)
    BY <1>1, <1>2, <1>3, <1>4, <1>5, <1>6 DEF ReadsInv, PlansOf, Made, ReceiptsOf, Writing
  <2>2. /\ \A q \in ReceiptsOf(h.task) : receipts'[q].at <= h.at
        /\ ReceiptsOf(h.task) # {} => \E q \in ReceiptsOf(h.task) : h.since = receipts'[q].at
    BY <1>1, <1>3, <1>5 DEF ReadsInv
  <2>3. \A i \in Of(h.task, "active")' : rows'[i].plan # h.plan
    BY <1>4, <1>6 DEF Of
  <2> QED
    BY <1>4, <2>1, <2>2, <2>3 DEF ReadsInv, PlansOf, Made, ReceiptsOf, Of
<1>8. MakesInv' /\ DecisionInv'
  BY <1>4, <1>5 DEF MakesInv, DecisionInv
<1>9. \A t \in Tasks : Uncounted(t)' = Uncounted(t)
  BY <1>5 DEF Uncounted
<1> QED
  BY <1>3, <1>4, <1>5, <1>6, <1>7, <1>8, <1>9, LedgerStep DEF Opt

LEMMA ReceiptStep ==
  ASSUME TkIInv, InsertReceipt
  PROVE  TkIInv'
<1>1. /\ TypeOK /\ TkTypeOK /\ PlansInv /\ RowsInv /\ ReceiptsInv /\ ReadsInv /\ ReplansInv /\ StrandedInv
      /\ FinishedHoldsNothing /\ NoUsageDropped
  BY DEF TkIInv
<1> DEFINE p == h.plan
           receipt == [at |-> h.at, since |-> h.since, read |-> h.read]
<1>2. h \in Writing /\ Reads /\ ~Makes /\ h.step = "receipt"
  BY <1>1, HandlerKinds, NullAssumption DEF InsertReceipt, Reads, Makes, Writing, At
<1>3. /\ UNCHANGED <<now, budgets, rows, issued, floor, plans, inflight, calls, replans, config, faults>>
      /\ h' = None /\ receipts' = [receipts EXCEPT ![p] = receipt]
  BY DEF InsertReceipt, ledger, Answer
<1>4. /\ p \in PlansOf(h.task) /\ receipts[p] = None /\ h.since <= h.at /\ h.at <= now /\ h.at <= h.read
      /\ \A q \in ReceiptsOf(h.task) : receipts[q].at <= h.at
      /\ ReceiptsOf(h.task) # {} => \E q \in ReceiptsOf(h.task) : h.since = receipts[q].at
      /\ \A i \in Of(h.task, "active") : rows[i].plan # p
  BY <1>1, <1>2 DEF ReadsInv
<1>5. /\ receipt \in Receipt /\ receipt # None
      /\ receipt.at = h.at /\ receipt.since = h.since /\ receipt.read = h.read
      /\ h.task \in Tasks /\ p \in Plans /\ h.at \in Nat
  BY <1>2, NullAssumption DEF Writing, Receipt
<1> HIDE DEF p, receipt
<1>6. /\ receipts' \in [Plans -> Opt(Receipt)] /\ receipts'[p] = receipt
      /\ \A q \in Plans : q # p => receipts'[q] = receipts[q]
  BY <1>1, <1>3, <1>5 DEF TkTypeOK, Opt
<1>7. TypeOK' /\ Kept
  BY <1>1, SameLedger DEF InsertReceipt
<1>8. TkTypeOK'
  <2>1. p \in Made
    BY <1>4 DEF PlansOf
  <2>2. \A q \in Plans : receipts'[q] # None =>
          q \in Made /\ receipts'[q].since <= receipts'[q].at /\ receipts'[q].at <= receipts'[q].read
    BY <1>1, <1>4, <1>5, <1>6, <2>1 DEF TkTypeOK
  <2> QED
    BY <1>1, <1>3, <1>6, <2>2 DEF TkTypeOK, PlansOf, Made, Opt
<1>9. PlansInv' /\ RowsInv' /\ ReceiptsInv'
  <2>1. PlansInv' /\ RowsInv'
    BY <1>1, <1>3 DEF PlansInv, RowsInv, PlansOf, Made
  <2>2. ReceiptsInv'
    BY <1>1, <1>3, <1>4, <1>5, <1>6 DEF ReceiptsInv
  <2> QED
    BY <2>1, <2>2
<1>10. MakesInv' /\ ReadsInv' /\ DecisionInv'
  BY <1>3 DEF MakesInv, ReadsInv, DecisionInv, Makes, Reads
<1>11. StrandedInv'
  BY <1>1, <1>2, <1>3, <1>7, StrandedStays
<1>12. ReplansInv'
  <2>1. \A t \in Tasks : Uncounted(t)' = Uncounted(t)
    BY <1>2, <1>3 DEF Uncounted, Makes
  <2> QED
    BY <1>1, <1>3, <2>1, ReplansFrame
<1>13. FinishedHoldsNothing'
  <2> SUFFICES ASSUME NEW t \in Tasks, NEW i \in Of(t, "active") PROVE receipts'[rows[i].plan] = None
    BY <1>3 DEF FinishedHoldsNothing, Envelopes, Of
  <2>1. i \in Ids /\ rows[i] # None /\ rows[i].task = t
    BY DEF Of
  <2>2. rows[i].plan \in Plans /\ plans[rows[i].plan].task = t
    BY <1>1, <2>1, RowFacts
  <2>3. rows[i].plan # p
    <3>1. ASSUME rows[i].plan = p PROVE FALSE
      <4>1. t = h.task
        BY <1>4, <2>2, <3>1 DEF PlansOf
      <4> QED
        BY <1>4, <3>1, <4>1
    <3> QED
      BY <3>1
  <2>4. receipts[rows[i].plan] = None
    BY <1>1 DEF FinishedHoldsNothing, Envelopes
  <2> QED
    BY <1>6, <2>2, <2>3, <2>4
<1>14. NoUsageDropped'
  <2> PICK u \in Tasks : u = h.task
    BY <1>5
  <2>1. \A t \in Tasks : t # u => ReceiptsOf(t)' = ReceiptsOf(t) /\ p \notin ReceiptsOf(t)
    BY <1>3, <1>4, <1>6 DEF ReceiptsOf, PlansOf, Made
  <2>2. /\ ReceiptsOf(u)' = ReceiptsOf(u) \cup {p} /\ p \notin ReceiptsOf(u)
        /\ \A t \in Tasks : ReceiptsOf(t) \subseteq Plans
    BY <1>3, <1>4, <1>5, <1>6 DEF ReceiptsOf, PlansOf, Made
  <2>3. \A q \in Plans : receipts[q] # None => receipts[q].at \in Nat
    BY <1>1 DEF TkTypeOK, Opt, Receipt
  <2>4. ASSUME NEW t \in Tasks, t # u, NEW q \in ReceiptsOf(t)
        PROVE  \/ \A r \in ReceiptsOf(t) : receipts'[q].at <= receipts'[r].at
               \/ \E r \in ReceiptsOf(t) \ {q} :
                    receipts'[r].at <= receipts'[q].at /\ receipts'[q].since <= receipts'[r].at
    <3>1. \A r \in ReceiptsOf(t) : receipts'[r] = receipts[r]
      BY <1>6, <2>1, <2>2, <2>4
    <3> QED
      BY <1>1, <2>4, <3>1 DEF NoUsageDropped
  <2> DEFINE R == ReceiptsOf(u)
  <2>5. \A r \in R : receipts'[r] = receipts[r] /\ receipts[r].at \in Nat /\ receipts[r].at <= h.at
    BY <1>4, <1>5, <1>6, <2>2, <2>3 DEF ReceiptsOf
  <2>6. ASSUME NEW q \in R
        PROVE  \/ \A r \in R \cup {p} : receipts'[q].at <= receipts'[r].at
               \/ \E r \in (R \cup {p}) \ {q} :
                    receipts'[r].at <= receipts'[q].at /\ receipts'[q].since <= receipts'[r].at
    <3>1. \/ \A r \in R : receipts[q].at <= receipts[r].at
          \/ \E r \in R \ {q} : receipts[r].at <= receipts[q].at /\ receipts[q].since <= receipts[r].at
      BY <1>1, <1>5, <2>6 DEF NoUsageDropped
    <3> HIDE DEF R
    <3> QED
      BY <1>5, <1>6, <2>5, <2>6, <3>1
  <2>7. \/ \A r \in R \cup {p} : receipts'[p].at <= receipts'[r].at
        \/ \E r \in (R \cup {p}) \ {p} :
             receipts'[r].at <= receipts'[p].at /\ receipts'[p].since <= receipts'[r].at
    <3>1. R # {} => \E r \in R : h.since = receipts[r].at
      BY <1>4
    <3>2. p \notin R
      BY <2>2
    <3> HIDE DEF R
    <3> QED
      BY <1>5, <1>6, <2>5, <3>1, <3>2
  <2> QED
    BY <2>1, <2>2, <2>4, <2>6, <2>7 DEF NoUsageDropped
<1> QED
  BY <1>7, <1>8, <1>9, <1>10, <1>11, <1>12, <1>13, <1>14 DEF TkIInv

\* A handler that ends with a fault strands at most the envelope it was about to
\* refund, and leaves at most one replan uncounted.
LEMMA FaultStep ==
  ASSUME TkIInv, TypeOK', Kept, now' = now, faults' = faults + 1, faults < MaxFaults, h' = None,
         config' \in Configs, UNCHANGED sessions
  PROVE  TkIInv'
<1>1. /\ TypeOK /\ TkTypeOK /\ PlansInv /\ RowsInv /\ ReceiptsInv /\ StrandedInv /\ ReplansInv
      /\ FinishedHoldsNothing /\ NoUsageDropped
  BY DEF TkIInv
<1>2. UNCHANGED <<plans, inflight, calls, replans, receipts>>
  BY DEF sessions
<1>3. faults \in Nat /\ faults' \in 0..MaxFaults /\ now <= now'
  BY <1>1, TaskAssumption DEF TkTypeOK, TypeOK
<1>4. PlansInv' /\ RowsInv' /\ ReceiptsInv' /\ FinishedHoldsNothing' /\ NoUsageDropped'
  BY <1>1, <1>2, <1>3, Quiet
<1>5. TkTypeOK'
  BY <1>1, <1>2, <1>3 DEF TkTypeOK, PlansOf, Made, Opt
<1>6. MakesInv' /\ ReadsInv' /\ DecisionInv'
  BY DEF MakesInv, ReadsInv, DecisionInv, Makes, Reads
<1>7. StrandedInv'
  <2> SUFFICES ASSUME NEW t \in Tasks PROVE Cardinality(Stranded(t)') <= faults + 1
    BY DEF StrandedInv
  <2> DEFINE A == Stranded(t)
             B == Stranded(t)'
  <2>1. A \subseteq Ids /\ B \subseteq Ids
    BY DEF Stranded, Envelopes, Of
  <2>2. \A i, j \in B \ A : i = j
    <3>1. \A i \in B \ A : i \in Ids /\ rows[i] # None /\ rows[i].plan = h.prev
      BY <1>2 DEF Stranded, Envelopes, Of, Kept
    <3> QED
      BY <1>1, <3>1 DEF RowsInv
  <2>3. Cardinality(A) <= faults
    BY <1>1 DEF StrandedInv
  <2> HIDE DEF A, B
  <2>4. IsFiniteSet(A) /\ IsFiniteSet(B) /\ Cardinality(A) \in Nat /\ Cardinality(B) \in Nat
    BY <2>1, EnvelopesFinite
  <2>5. \E x : B \subseteq A \cup {x}
    <3>1. CASE B \subseteq A
      BY <3>1
    <3>2. CASE ~(B \subseteq A)
      BY <2>2, <3>2
    <3> QED
      BY <3>1, <3>2
  <2>6. PICK x : B \subseteq A \cup {x}
    BY <2>5
  <2>7. /\ IsFiniteSet(A \cup {x})
        /\ Cardinality(A \cup {x}) = IF x \in A THEN Cardinality(A) ELSE Cardinality(A) + 1
    BY <2>4, FS_AddElement
  <2>8. Cardinality(B) <= Cardinality(A \cup {x})
    BY <2>6, <2>7, FS_Subset
  <2>9. Cardinality(B) <= faults + 1
    BY <1>3, <2>3, <2>4, <2>7, <2>8
  <2> QED
    BY <2>9 DEF B
<1>8. ReplansInv'
  <2> SUFFICES ASSUME NEW t \in Tasks
               PROVE  /\ Cardinality(Automatic(t)') <= replans'[t].count + faults' + Uncounted(t)'
                      /\ replans'[t].count + Uncounted(t)' <= MaxReplans
    BY DEF ReplansInv
  <2>1. Uncounted(t) \in {0, 1} /\ Uncounted(t)' = 0
    BY DEF Uncounted, Makes
  <2>2. Automatic(t)' = Automatic(t)
    BY <1>2 DEF Automatic, PlansOf, Made
  <2>3. replans[t].count \in Nat
    BY <1>1 DEF TkTypeOK
  <2>4. Cardinality(Automatic(t)) \in Nat
    <3>1. Automatic(t) \subseteq 1..MaxPlans /\ MaxPlans \in Int
      BY TaskAssumption DEF Automatic, PlansOf, Made
    <3>2. IsFiniteSet(1..MaxPlans)
      BY <3>1, FS_Interval
    <3>3. IsFiniteSet(Automatic(t))
      BY <3>1, <3>2, FS_Subset
    <3> QED
      BY <3>3, FS_CardinalityType
  <2>5. /\ Cardinality(Automatic(t)) <= replans[t].count + faults + Uncounted(t)
        /\ replans[t].count + Uncounted(t) <= MaxReplans
    BY <1>1 DEF ReplansInv
  <2>6. /\ Cardinality(Automatic(t)) <= replans[t].count + (faults + 1) + 0
        /\ replans[t].count + 0 <= MaxReplans
    <3>1. \A n, c, f \in Nat, x \in {0, 1}, m \in Nat :
            n <= c + f + x /\ c + x <= m => n <= c + (f + 1) + 0 /\ c + 0 <= m
      OBVIOUS
    <3>2. MaxReplans \in Nat /\ Uncounted(t) \in {0, 1}
      BY <2>1, TaskAssumption
    <3> QED
      BY <1>3, <2>3, <2>4, <2>5, <3>1, <3>2
  <2> QED
    BY <1>2, <2>1, <2>2, <2>6
<1> QED
  BY <1>4, <1>5, <1>6, <1>7, <1>8 DEF TkIInv

LEMMA FailsStep ==
  ASSUME TkIInv, HandlerFails
  PROVE  TkIInv'
<1>1. TypeOK' /\ Kept
  BY SameLedger DEF TkIInv, HandlerFails
<1>2. config' \in Configs /\ now' = now
  BY DEF TkIInv, TkTypeOK, HandlerFails, ledger
<1> QED
  BY <1>1, <1>2, FaultStep DEF HandlerFails, Answer

\* The sweep of the reservations whose lease has run out.
LEMMA SweepLedger ==
  ASSUME TypeOK, ExpireStaleReservations
  PROVE  TypeOK' /\ Kept /\ now' = now
<1>1. Stale \in SUBSET Ids /\ \A i \in Stale : rows[i] # None
  BY DEF Stale
<1>2. Ended(Stale, "expired")
  BY DEF ExpireStaleReservations
<1>3. now' = now
  BY <1>2 DEF Ended
<1> QED
  BY <1>1, <1>2, <1>3, EndedLedger

LEMMA RestartStep ==
  ASSUME TkIInv, Restart
  PROVE  TkIInv'
<1>1. TypeOK' /\ Kept /\ now' = now
  BY SweepLedger DEF TkIInv, Restart
<1>2. config' \in Configs
  BY DEF Restart
<1> QED
  BY <1>1, <1>2, FaultStep DEF Restart

LEMMA SupersedeStep ==
  ASSUME TkIInv, SupersedeInFlight
  PROVE  TkIInv'
<1>1. /\ TypeOK /\ TkTypeOK /\ PlansInv /\ RowsInv /\ ReceiptsInv /\ StrandedInv /\ ReplansInv /\ MakesInv
      /\ FinishedHoldsNothing /\ NoUsageDropped
  BY DEF TkIInv
<1>2. h \in Planning /\ Makes /\ ~Reads /\ h.step = "supersede"
  BY <1>1, HandlerKinds DEF SupersedeInFlight, PlanSteps, At, Makes, Reads
<1>3. /\ UNCHANGED <<now, budgets, rows, issued, floor, plans, calls, replans, receipts, config, faults>>
      /\ inflight' = [inflight EXCEPT ![h.task] = None]
  BY DEF SupersedeInFlight, ledger
<1>4. /\ h' \in Planning /\ h' # None /\ h'.step = "record"
      /\ h'.op = h.op /\ h'.task = h.task /\ h'.plan = h.plan /\ h'.prev = h.prev
  BY <1>2, GotoStep DEF SupersedeInFlight, PlanSteps
<1>5. h.task \in Tasks /\ Makes' /\ ~Reads'
  BY <1>2, <1>4 DEF Planning, Makes, Reads
<1>6. TypeOK' /\ Kept /\ now <= now'
  BY <1>1, <1>3, SameLedger DEF SupersedeInFlight, TypeOK
<1>7. PlansInv' /\ RowsInv' /\ ReceiptsInv' /\ FinishedHoldsNothing' /\ NoUsageDropped'
  BY <1>1, <1>3, <1>6, Quiet
<1>8. TkTypeOK'
  <2>1. \A t \in Tasks : inflight'[t] # None => inflight'[t] = inflight[t]
    BY <1>1, <1>3, <1>5 DEF TkTypeOK
  <2>2. inflight' \in [Tasks -> Opt(Plans)]
    BY <1>1, <1>3, <1>5 DEF TkTypeOK, Opt
  <2> QED
    BY <1>1, <1>3, <1>4, <2>1, <2>2 DEF TkTypeOK, PlansOf, Made, Opt
<1>9. MakesInv'
  <2>1. inflight'[h.task] = None
    BY <1>1, <1>3, <1>5 DEF TkTypeOK
  <2> QED
    BY <1>1, <1>2, <1>3, <1>4, <1>5, <2>1 DEF MakesInv, PlansOf, Made, Unreserved
<1>10. ReadsInv' /\ DecisionInv'
  BY <1>4, <1>5 DEF ReadsInv, DecisionInv
<1>11. StrandedInv'
  <2>1. \A t \in Tasks : t # h.task => inflight'[t] = inflight[t]
    BY <1>1, <1>3, <1>5 DEF TkTypeOK
  <2>2. inflight[h.task] = h.prev
    BY <1>1, <1>2 DEF MakesInv
  <2>3. \A t \in Tasks : Stranded(t)' \subseteq Stranded(t)
    BY <1>2, <1>3, <1>4, <1>5, <2>1, <2>2 DEF Stranded, Envelopes, Of, Unreleased
  <2> QED
    BY <1>1, <1>3, <2>3, StrandedFrame
<1>12. ReplansInv'
  <2>1. \A t \in Tasks : Uncounted(t)' = Uncounted(t)
    BY <1>2, <1>4, <1>5 DEF Uncounted
  <2> QED
    BY <1>1, <1>3, <2>1, ReplansFrame
<1> QED
  BY <1>6, <1>7, <1>8, <1>9, <1>10, <1>11, <1>12 DEF TkIInv

LEMMA RecordStep ==
  ASSUME TkIInv, RecordPreflight
  PROVE  TkIInv'
<1>1. /\ TypeOK /\ TkTypeOK /\ PlansInv /\ RowsInv /\ ReceiptsInv /\ StrandedInv /\ ReplansInv /\ MakesInv
      /\ FinishedHoldsNothing /\ NoUsageDropped
  BY DEF TkIInv
<1>2. h \in Planning /\ Makes /\ ~Reads /\ h.step = "record"
  BY <1>1, HandlerKinds DEF RecordPreflight, PlanSteps, At, Makes, Reads
<1>3. /\ UNCHANGED <<now, budgets, rows, issued, floor, plans, calls, replans, receipts, config, faults>>
      /\ inflight' = [inflight EXCEPT ![h.task] = h.plan]
  BY DEF RecordPreflight, ledger
<1>4. /\ h' \in Planning /\ h' # None /\ h'.step = "release"
      /\ h'.op = h.op /\ h'.task = h.task /\ h'.plan = h.plan /\ h'.prev = h.prev
  BY <1>2, GotoStep DEF RecordPreflight, PlanSteps
<1>5. h.task \in Tasks /\ h.plan \in Plans /\ Makes' /\ ~Reads'
  BY <1>2, <1>4 DEF Planning, Makes, Reads
<1>6. TypeOK' /\ Kept /\ now <= now'
  BY <1>1, <1>3, SameLedger DEF RecordPreflight, TypeOK
<1>7. PlansInv' /\ RowsInv' /\ ReceiptsInv' /\ FinishedHoldsNothing' /\ NoUsageDropped'
  BY <1>1, <1>3, <1>6, Quiet
<1>8. /\ inflight' \in [Tasks -> Opt(Plans)] /\ inflight'[h.task] = h.plan
      /\ \A t \in Tasks : t # h.task => inflight'[t] = inflight[t]
  BY <1>1, <1>3, <1>5 DEF TkTypeOK, Opt
<1>9. TkTypeOK'
  <2>1. \A t \in Tasks : inflight'[t] # None => inflight'[t] \in PlansOf(t)
    BY <1>1, <1>2, <1>8 DEF TkTypeOK, MakesInv
  <2> QED
    BY <1>1, <1>3, <1>4, <1>8, <2>1 DEF TkTypeOK, PlansOf, Made, Opt
<1>10. MakesInv'
  BY <1>1, <1>2, <1>3, <1>4, <1>5, <1>8 DEF MakesInv, PlansOf, Made, Unreserved
<1>11. ReadsInv' /\ DecisionInv'
  BY <1>4, <1>5 DEF ReadsInv, DecisionInv
<1>12. StrandedInv'
  <2>1. \A i \in Ids : rows[i] # None => rows[i].plan # None
    BY <1>1, RowFacts
  <2>2. inflight[h.task] = None
    BY <1>1, <1>2 DEF MakesInv
  <2>3. \A t \in Tasks : Stranded(t)' \subseteq Stranded(t)
    BY <1>2, <1>3, <1>4, <1>5, <1>8, <2>1, <2>2 DEF Stranded, Envelopes, Of, Unreleased
  <2> QED
    BY <1>1, <1>3, <2>3, StrandedFrame
<1>13. ReplansInv'
  <2>1. \A t \in Tasks : Uncounted(t)' = Uncounted(t)
    BY <1>2, <1>4, <1>5 DEF Uncounted
  <2> QED
    BY <1>1, <1>3, <2>1, ReplansFrame
<1> QED
  BY <1>6, <1>7, <1>9, <1>10, <1>11, <1>12, <1>13 DEF TkIInv

LEMMA ReleaseStep ==
  ASSUME TkIInv, ReleasePrevious
  PROVE  TkIInv'
<1>1. /\ TypeOK /\ TkTypeOK /\ PlansInv /\ RowsInv /\ ReceiptsInv /\ StrandedInv /\ ReplansInv /\ MakesInv
      /\ FinishedHoldsNothing /\ NoUsageDropped
  BY DEF TkIInv
<1>2. h \in Planning /\ Makes /\ ~Reads /\ h.step = "release"
  BY <1>1, HandlerKinds DEF ReleasePrevious, PlanSteps, At, Makes, Reads
<1>3. UNCHANGED <<plans, inflight, calls, replans, receipts, config, faults>>
  BY DEF ReleasePrevious, sessions
<1>4. /\ h' \in Planning /\ h' # None /\ h'.step = "budget"
      /\ h'.op = h.op /\ h'.task = h.task /\ h'.plan = h.plan /\ h'.prev = h.prev
  BY <1>2, GotoStep DEF ReleasePrevious, PlanSteps
<1>5. h.task \in Tasks /\ Makes' /\ ~Reads'
  BY <1>2, <1>4 DEF Planning, Makes, Reads
<1>6. /\ TypeOK' /\ Kept /\ now' = now
      /\ \A i \in Ids : rows'[i] # None /\ rows'[i].state = "active" /\ rows'[i].task = h.task => rows'[i].plan # h.prev
  <2>1. CASE h.prev = None
    <3>1. UNCHANGED ledger
      BY <2>1 DEF ReleasePrevious
    <3>2. TypeOK' /\ Kept
      BY <1>1, <3>1, SameLedger
    <3>3. \A i \in Ids : rows[i] # None => rows[i].plan # None
      BY <1>1, RowFacts
    <3> QED
      BY <2>1, <3>1, <3>2, <3>3 DEF ledger
  <2>2. CASE h.prev # None
    <3> DEFINE S == {i \in Of(h.task, "active") : rows[i].plan = h.prev}
    <3>1. Ended(S, "released")
      BY <2>2 DEF ReleasePrevious, ReleaseActiveForPlan
    <3>2. S \in SUBSET Ids /\ \A i \in S : rows[i] # None
      BY DEF Of
    <3>3. \A i \in Ids : rows[i] # None /\ rows[i].state = "active" /\ rows[i].task = h.task /\ rows[i].plan = h.prev => i \in S
      BY DEF Of
    <3> HIDE DEF S
    <3>4. TypeOK' /\ Kept /\ \A i \in S : rows'[i].state = "released"
      BY <1>1, <3>1, <3>2, EndedLedger
    <3>5. now' = now
      BY <3>1 DEF Ended
    <3> QED
      BY <3>3, <3>4, <3>5 DEF Kept
  <2> QED
    BY <2>1, <2>2
<1>7. PlansInv' /\ RowsInv' /\ ReceiptsInv' /\ FinishedHoldsNothing' /\ NoUsageDropped'
  BY <1>1, <1>3, <1>6, Quiet DEF TypeOK
<1>8. TkTypeOK'
  BY <1>1, <1>3, <1>4 DEF TkTypeOK, PlansOf, Made, Opt
<1>9. MakesInv'
  <2>1. \A i \in Ids : rows'[i] # None => rows'[i].plan # h.plan
    BY <1>1, <1>2, <1>6 DEF MakesInv, Unreserved, Kept
  <2> QED
    BY <1>1, <1>2, <1>3, <1>4, <1>5, <2>1 DEF MakesInv, PlansOf, Made, Unreserved
<1>10. ReadsInv' /\ DecisionInv'
  BY <1>4, <1>5 DEF ReadsInv, DecisionInv
<1>11. StrandedInv'
  <2>1. \A t \in Tasks : Stranded(t)' \subseteq Stranded(t)
    BY <1>2, <1>3, <1>6 DEF Stranded, Envelopes, Of, Kept
  <2> QED
    BY <1>1, <1>3, <2>1, StrandedFrame
<1>12. ReplansInv'
  <2>1. \A t \in Tasks : Uncounted(t)' = Uncounted(t)
    BY <1>2, <1>4, <1>5 DEF Uncounted
  <2> QED
    BY <1>1, <1>3, <2>1, ReplansFrame
<1> QED
  BY <1>6, <1>7, <1>8, <1>9, <1>10, <1>11, <1>12 DEF TkIInv

\* A handler that goes on to a step after its plan is in flight.
LEMMA MakesStays ==
  ASSUME MakesInv, Makes, Makes', Kept, UNCHANGED <<plans, inflight, receipts>>,
         h'.op = h.op, h'.task = h.task, h'.plan = h.plan,
         h.step \notin {"supersede", "record"}, h'.step \notin {"supersede", "record"},
         h'.step \in Unreserved => h.step \in Unreserved,
         h.op = "preflight" => h'.step \in Unreserved,
         h.op = "replan" => h'.step # "admit"
  PROVE  MakesInv'
<1>1. \A i \in Ids : rows'[i] # None => rows[i] # None /\ rows'[i].plan = rows[i].plan
  BY DEF Kept
<1> QED
  BY <1>1 DEF MakesInv, PlansOf, Made

\* The numbers of a validated configuration.
LEMMA ConfigFacts ==
  ASSUME TkTypeOK
  PROVE  /\ config \in Validated /\ config.resource.hard \in Nat
         /\ config.turn # NoBound => config.turn.ceiling \in Nat
         /\ turn_fallback_request(config) \in Nat
<1>1. config \in Config /\ ValidPolicy(config)
  BY TaskAssumption DEF TkTypeOK
<1>2. config.resource.hard \in Nat /\ config.resource.target \in Nat
  BY <1>1 DEF ValidPolicy, ValidBound, Bound, Bounds
<1>3. config.turn # NoBound => config.turn.ceiling \in Nat /\ config.turn.cold \in Nat
  BY <1>1 DEF ValidPolicy, ValidTurn
<1> QED
  BY <1>1, <1>2, <1>3 DEF Validated, turn_fallback_request

LEMMA BudgetStep ==
  ASSUME TkIInv, SetBudget
  PROVE  TkIInv'
<1>1. TypeOK /\ TkTypeOK /\ MakesInv
  BY DEF TkIInv
<1>2. h \in Planning /\ Makes /\ ~Reads /\ h.step = "budget"
  BY <1>1, HandlerKinds DEF SetBudget, PlanSteps, At, Makes, Reads
<1>3. UNCHANGED <<plans, inflight, calls, replans, receipts, config, faults>>
  BY DEF SetBudget, sessions
<1>4. h.task \in Tasks /\ h.reserve \in Nat /\ h.op \in {"preflight", "replan"}
  BY <1>2 DEF Planning
<1>5. BudgetPolicy \in [limit: Nat, ceiling: Opt(Nat)]
  BY <1>1, ConfigFacts DEF BudgetPolicy, Opt
<1>6. /\ TypeOK' /\ Kept /\ now' = now
      /\ \E s \in {"admit", "reserve", "count"} :
           /\ Goto(s)
           /\ h.op = "preflight" => s = "admit" /\ budgets'[h.task] # None
           /\ h.op = "replan" => s # "admit"
  <2>1. CASE h.op = "preflight" /\ InitializeTaskBudget(h.task, BudgetPolicy, h.reserve) /\ Goto("admit")
    <3>1. TypeOK' /\ Kept /\ budgets'[h.task] # None
      BY <1>1, <1>4, <1>5, <2>1, InitializeLedger
    <3>2. now' = now
      BY <2>1 DEF InitializeTaskBudget
    <3> QED
      BY <2>1, <3>1, <3>2
  <2>2. CASE AdjustCompletionReserve(h.task, h.reserve) /\ Goto(AfterBudget)
    <3>1. TypeOK' /\ Kept /\ budgets'[h.task] # None
      BY <1>1, <1>4, <2>2, AdjustLedger
    <3>2. now' = now
      BY <2>2 DEF AdjustCompletionReserve
    <3> QED
      BY <1>4, <2>2, <3>1, <3>2 DEF AfterBudget
  <2>3. CASE budgets[h.task] # None /\ Goto(AfterBudget) /\ UNCHANGED ledger
    <3>1. TypeOK' /\ Kept
      BY <1>1, <2>3, SameLedger
    <3> QED
      BY <1>4, <2>3, <3>1 DEF AfterBudget, ledger
  <2>4. CASE h.op = "replan" /\ Goto("count") /\ UNCHANGED ledger
    <3>1. TypeOK' /\ Kept
      BY <1>1, <2>4, SameLedger
    <3> QED
      BY <2>4, <3>1 DEF ledger
  <2> QED
    BY <2>1, <2>2, <2>3, <2>4 DEF SetBudget
<1>7. PICK s \in {"admit", "reserve", "count"} :
        /\ Goto(s)
        /\ h.op = "preflight" => s = "admit" /\ budgets'[h.task] # None
        /\ h.op = "replan" => s # "admit"
  BY <1>6
<1>8. /\ h' \in Planning /\ h' # None /\ h'.step = s
      /\ h'.op = h.op /\ h'.task = h.task /\ h'.plan = h.plan /\ h'.prev = h.prev
  BY <1>2, <1>7, GotoStep DEF PlanSteps
<1>9. Makes' /\ ~Reads'
  BY <1>4, <1>8 DEF Makes, Reads
<1>10. MakesInv'
  BY <1>1, <1>2, <1>3, <1>6, <1>7, <1>8, <1>9, MakesStays DEF Unreserved
<1>11. ReadsInv' /\ DecisionInv'
  BY <1>7, <1>8, <1>9 DEF ReadsInv, DecisionInv
<1>12. \A t \in Tasks : Uncounted(t)' = Uncounted(t)
  BY <1>2, <1>8, <1>9 DEF Uncounted
<1> QED
  BY <1>2, <1>3, <1>6, <1>8, <1>10, <1>11, <1>12, LedgerStep DEF Opt, Unreleased

\* A decision is one of the three.
LEMMA DecisionTyped ==
  ASSUME NEW secs, NEW c, NEW d, NEW v \in {"approve", "reject", "abstain"}
  PROVE  Decision(secs, c, d, v) \in Admissions
<1> DEFINE policy  == apply_business_context(config, d)
           decided == evaluate_with(policy, Committed(h.task) + h.requested, secs, c,
                                    budgets[h.task].ceiling = None)
           turned  == with_turn_outcome(decided, evaluate_turn(policy, h.requested))
<1>1. decided \in Admissions
  BY DEF evaluate_with, Admissions
<1> HIDE DEF decided
<1>2. turned \in Admissions
  BY <1>1 DEF with_turn_outcome, Admissions
<1> HIDE DEF turned
<1>3. apply_external_approval(turned, v) \in Admissions
  BY <1>2 DEF apply_external_approval, Admissions
<1> QED
  BY <1>3 DEF Decision, turned, decided

LEMMA AdmitStep ==
  ASSUME TkIInv, NEW secs \in Durations, NEW c \in 0..2, NEW d \in Deadlines,
         NEW v \in {"approve", "reject", "abstain"}, Admit(secs, c, d, v)
  PROVE  TkIInv'
<1>1. /\ TypeOK /\ TkTypeOK /\ PlansInv /\ RowsInv /\ ReceiptsInv /\ StrandedInv /\ ReplansInv /\ MakesInv
      /\ DecisionInv /\ FinishedHoldsNothing /\ NoUsageDropped
  BY DEF TkIInv
<1> DEFINE admission == Decision(secs, c, d, v)
<1>2. h \in Planning /\ Makes /\ ~Reads /\ h.step = "admit"
  BY <1>1, HandlerKinds DEF Admit, PlanSteps, At, Makes, Reads
<1>3. h.op = "preflight" /\ h.task \in Tasks /\ h.plan \in Plans /\ h.requested \in Nat
  BY <1>1, <1>2 DEF MakesInv, Planning
<1>4. /\ UNCHANGED <<now, budgets, rows, issued, floor, inflight, calls, replans, receipts, config, faults>>
      /\ plans' = [plans EXCEPT ![h.plan].admission = admission]
      /\ IF admission = "admit" /\ ~config.gateway THEN Goto("reserve") ELSE h' = None
  BY DEF Admit, ledger, Answer
<1>5. admission \in Admissions
  BY DecisionTyped
<1>6. /\ h' \in Opt(Planning)
      /\ h' # None =>
           /\ admission = "admit" /\ ~config.gateway
           /\ h' \in Planning /\ h'.step = "reserve" /\ h'.op = "preflight" /\ h'.task = h.task
           /\ h'.plan = h.plan /\ h'.prev = h.prev /\ h'.requested = h.requested
  BY <1>2, <1>3, <1>4, GotoStep DEF Opt, PlanSteps
<1> HIDE DEF admission
<1>7. plans[h.plan] # None /\ plans[h.plan] \in Plan /\ plans[h.plan].replaces = None /\ plans[h.plan].task = h.task
  BY <1>1, <1>2, <1>3 DEF MakesInv, PlansOf, Made, TkTypeOK, Opt
<1>8. /\ plans' \in [Plans -> Opt(Plan)] /\ plans'[h.plan] # None
      /\ plans'[h.plan].admission = admission
      /\ plans'[h.plan].task = h.task /\ plans'[h.plan].replaces = None
      /\ plans'[h.plan].born = plans[h.plan].born /\ plans'[h.plan].revision = plans[h.plan].revision
      /\ \A p \in Plans : p # h.plan => plans'[p] = plans[p]
  <2> DEFINE plan == [plans[h.plan] EXCEPT !.admission = admission]
  <2>1. /\ plan \in Plan /\ plan.admission = admission /\ plan.task = h.task /\ plan.replaces = None
        /\ plan.born = plans[h.plan].born /\ plan.revision = plans[h.plan].revision
    BY <1>5, <1>7 DEF Plan
  <2>2. plans' = [plans EXCEPT ![h.plan] = plan]
    BY <1>4
  <2> HIDE DEF plan
  <2>3. plan # None
    BY <2>1, NullAssumption
  <2> QED
    BY <1>1, <1>3, <2>1, <2>2, <2>3 DEF TkTypeOK, Opt
<1>9. /\ Made' = Made
      /\ \A p \in Plans : p \in Made => plans'[p].task = plans[p].task /\ plans'[p].replaces = plans[p].replaces
      /\ \A t \in Tasks : PlansOf(t)' = PlansOf(t)
  BY <1>3, <1>7, <1>8 DEF Made, PlansOf
<1>10. TypeOK' /\ Kept
  BY <1>1, SameLedger DEF Admit
<1>11. TkTypeOK'
  BY <1>1, <1>4, <1>6, <1>8, <1>9 DEF TkTypeOK, Opt
<1>12. PlansInv'
  <2>1. \E n \in 0..MaxPlans : Made' = 1..n
    BY <1>1, <1>9 DEF PlansInv
  <2>2. ASSUME NEW p \in Made
        PROVE  /\ plans'[p].born <= now /\ plans'[p].revision <= p
               /\ plans'[p].replaces # None =>
                    /\ plans'[p].replaces \in PlansOf(plans[p].task)
                    /\ plans'[p].replaces < p
                    /\ plans'[plans'[p].replaces].admission = plans'[p].admission
    <3>1. p \in Plans /\ (plans[p].replaces # None => plans[p].replaces \in Plans)
      BY <1>1 DEF Made, TkTypeOK, Opt, Plan
    <3>2. CASE p = h.plan
      BY <1>1, <1>8, <2>2, <3>2 DEF PlansInv
    <3>3. CASE p # h.plan
      <4>1. plans'[p] = plans[p]
        BY <1>8, <3>1, <3>3
      <4>2. p <= h.plan /\ p \in Nat /\ h.plan \in Nat
        BY <1>1, <1>2, <1>3, <3>1, TaskAssumption DEF MakesInv
      <4>3. plans[p].replaces # None => plans[p].replaces < p /\ plans[p].replaces \in Nat
        BY <1>1, <3>1, TaskAssumption DEF PlansInv
      <4>4. plans[p].replaces # None => plans[p].replaces # h.plan
        BY <4>2, <4>3
      <4>5. plans[p].replaces # None => plans'[plans[p].replaces] = plans[plans[p].replaces]
        BY <1>8, <3>1, <4>4
      <4> QED
        BY <1>1, <4>1, <4>5 DEF PlansInv
    <3> QED
      BY <3>2, <3>3
  <2>3. \A p \in Made : plans'[p].task = plans[p].task /\ plans[p].task \in Tasks
    BY <1>1, <1>9 DEF TkTypeOK, Made, Opt, Plan
  <2> QED
    BY <1>4, <1>9, <2>1, <2>2, <2>3 DEF PlansInv
<1>13. RowsInv'
  <2>1. \A i \in Ids : rows[i] # None => rows[i].plan # h.plan /\ rows[i].plan \in Plans /\ rows[i].task \in Tasks
    BY <1>1, <1>2, RowFacts DEF MakesInv, Unreserved
  <2> QED
    BY <1>1, <1>4, <1>8, <1>9, <2>1 DEF RowsInv
<1>14. ReceiptsInv' /\ FinishedHoldsNothing' /\ NoUsageDropped'
  <2>1. \A t \in Tasks : ReceiptsOf(t)' = ReceiptsOf(t)
    BY <1>4, <1>9 DEF ReceiptsOf
  <2>2. ReceiptsInv' /\ FinishedHoldsNothing'
    BY <1>1, <1>4 DEF ReceiptsInv, FinishedHoldsNothing, Envelopes, Of
  <2>3. NoUsageDropped'
    BY <1>1, <1>4, <2>1 DEF NoUsageDropped
  <2> QED
    BY <2>2, <2>3
<1>15. Makes' <=> h' # None
  BY <1>6 DEF Makes
<1>16. MakesInv'
  <2> SUFFICES ASSUME h' # None PROVE MakesInv'
    BY <1>15 DEF MakesInv
  <2>1. h.plan \in PlansOf(h.task)
    BY <1>1, <1>2 DEF MakesInv
  <2> QED
    BY <1>1, <1>2, <1>3, <1>4, <1>6, <1>8, <1>9, <2>1 DEF MakesInv, Unreserved
<1>17. ReadsInv'
  BY <1>6 DEF ReadsInv, Reads
<1>18. StrandedInv'
  BY <1>1, <1>2, <1>4, <1>10, StrandedStays DEF Unreleased
<1>19. ReplansInv'
  <2>1. \A t \in Tasks : Uncounted(t)' = Uncounted(t)
    BY <1>3, <1>6 DEF Uncounted, Makes
  <2>2. \A t \in Tasks : Automatic(t)' = Automatic(t)
    BY <1>9 DEF Automatic, PlansOf, Made
  <2> QED
    BY <1>1, <1>4, <2>1, <2>2 DEF ReplansInv
<1>20. DecisionInv'
  <2> SUFFICES ASSUME h' # None PROVE DecisionInv'
    BY <1>15 DEF DecisionInv
  <2>1. budgets[h.task] # None
    BY <1>1, <1>2, <1>3 DEF DecisionInv
  <2>2. Authorized'
    BY <1>4, <1>6, <1>8 DEF Authorized
  <2>3. Committed(h.task)' = Committed(h.task)
    BY <1>4, <1>6 DEF Committed, SettledSum, ActiveSum, Of
  <2>4. budgets[h.task].ceiling = None => Committed(h.task) + h.requested <= config.resource.hard
    <3> DEFINE lifetime == budgets[h.task].ceiling = None
    <3>1. Committed(h.task) + h.requested \in Nat
      BY <1>1, <1>3, SumsAreNat DEF Committed
    <3>2. Decide(config, d, Committed(h.task) + h.requested, h.requested, secs, c, lifetime, v) = "admit"
      BY <1>6 DEF admission, Decision, Decide
    <3>3. config \in Validated /\ d \in Bounds /\ secs \in Nat /\ lifetime \in BOOLEAN
      BY <1>1, ConfigFacts, TaskAssumption
    <3> HIDE DEF lifetime
    <3>4. lifetime => Committed(h.task) + h.requested <= config.resource.hard
      BY <1>3, <3>1, <3>2, <3>3, AdmitWithinEveryCeiling
    <3> QED
      BY <3>4 DEF lifetime
  <2> QED
    BY <1>4, <1>6, <2>1, <2>2, <2>3, <2>4 DEF DecisionInv
<1> QED
  BY <1>10, <1>11, <1>12, <1>13, <1>14, <1>16, <1>17, <1>18, <1>19, <1>20 DEF TkIInv

LEMMA ReserveStep ==
  ASSUME TkIInv, ReserveEnvelope
  PROVE  TkIInv'
<1>1. /\ TypeOK /\ TkTypeOK /\ PlansInv /\ RowsInv /\ ReceiptsInv /\ StrandedInv /\ ReplansInv /\ MakesInv
      /\ FinishedHoldsNothing /\ NoUsageDropped
  BY DEF TkIInv
<1>2. h \in Planning /\ Makes /\ ~Reads /\ h.step = "reserve"
  BY <1>1, HandlerKinds DEF ReserveEnvelope, PlanSteps, At, Makes, Reads
<1>3. /\ h.task \in Tasks /\ h.plan \in Plans /\ h.op \in {"preflight", "replan"}
      /\ Envelope \in Nat
  BY <1>2 DEF Planning, Envelope, MaxOf
<1>4. /\ UNCHANGED <<plans, inflight, calls, replans, receipts, config, faults>>
      /\ IF h.op = "preflight" THEN h' = None ELSE Goto("count")
  BY DEF ReserveEnvelope, sessions, Answer
<1>5. /\ h' \in Opt(Planning)
      /\ h.op = "preflight" => h' = None
      /\ h.op = "replan" => h' # None
      /\ h' # None =>
           /\ h' \in Planning /\ h'.step = "count" /\ h'.op = "replan" /\ h'.op = h.op /\ h'.task = h.task
           /\ h'.plan = h.plan
  BY <1>2, <1>3, <1>4, GotoStep DEF Opt, PlanSteps
<1>6. Makes' <=> h' # None
  BY <1>5 DEF Makes
<1>7. ReadsInv' /\ DecisionInv'
  BY <1>5 DEF ReadsInv, Reads, DecisionInv, Makes
<1>8. \A t \in Tasks : Uncounted(t)' = Uncounted(t)
  BY <1>2, <1>3, <1>5, <1>6 DEF Uncounted
<1>9. /\ h.plan \in PlansOf(h.task) /\ receipts[h.plan] = None
      /\ \A i \in Ids : rows[i] # None => rows[i].plan # h.plan
      /\ inflight[h.task] = h.plan
  BY <1>1, <1>2 DEF MakesInv, Unreserved
<1>10. CASE UNCHANGED ledger
  <2>1. TypeOK' /\ Kept /\ now' = now
    BY <1>1, <1>10, SameLedger DEF ledger
  <2>2. MakesInv'
    <3>1. CASE h' = None
      BY <1>6, <3>1 DEF MakesInv
    <3>2. CASE h' # None
      BY <1>1, <1>2, <1>4, <1>5, <1>6, <2>1, <3>2, MakesStays DEF Unreserved
    <3> QED
      BY <3>1, <3>2
  <2> QED
    BY <1>2, <1>4, <1>5, <1>7, <1>8, <2>1, <2>2, LedgerStep DEF Opt, Unreleased
<1>11. CASE Authorized /\ \E ttl \in TTLs : Reserve(h.task, h.plan, "required", Envelope, h.plan, ttl)
  <2>1. PICK ttl \in TTLs : Reserve(h.task, h.plan, "required", Envelope, h.plan, ttl)
    BY <1>11
  <2>2. now' = now
    BY <2>1 DEF Reserve
  <2>3. /\ TypeOK' /\ issued + 1 \in Ids /\ rows'[issued + 1] # None
        /\ rows'[issued + 1].task = h.task /\ rows'[issued + 1].plan = h.plan
        /\ rows'[issued + 1].key = h.plan /\ rows'[issued + 1].state = "active"
        /\ \A i \in Ids : i # issued + 1 => rows'[i] = rows[i]
    BY <1>1, <1>3, <2>1, ReserveLedger, TaskAssumption DEF Classes, Opt
  <2> PICK n \in Ids : n = issued + 1
    BY <2>3
  <2>4. TkTypeOK' /\ PlansInv' /\ ReceiptsInv'
    <3>1. TkTypeOK'
      BY <1>1, <1>4, <1>5 DEF TkTypeOK, PlansOf, Made, Opt
    <3>2. PlansInv' /\ ReceiptsInv'
      BY <1>1, <1>4, <2>2 DEF PlansInv, ReceiptsInv, PlansOf, Made
    <3> QED
      BY <3>1, <3>2
  <2>5. NoUsageDropped'
    <3>1. \A t \in Tasks : ReceiptsOf(t)' = ReceiptsOf(t)
      BY <1>4 DEF ReceiptsOf, PlansOf, Made
    <3> QED
      BY <1>1, <1>4, <3>1 DEF NoUsageDropped
  <2>6. RowsInv'
    <3>1. plans[h.plan].admission \notin {"deny", "approval"}
      BY <1>11 DEF Authorized
    <3>2. \A t \in Tasks : PlansOf(t)' = PlansOf(t)
      BY <1>4 DEF PlansOf, Made
    <3>3. \A i \in Ids : rows'[i] # None =>
            /\ rows'[i].plan \in PlansOf(rows'[i].task) /\ rows'[i].key = rows'[i].plan
            /\ plans[rows'[i].plan].admission \notin {"deny", "approval"}
      BY <1>1, <1>9, <2>3, <3>1 DEF RowsInv
    <3>4. \A i, j \in Ids : rows'[i] # None /\ rows'[j] # None /\ rows'[i].plan = rows'[j].plan => i = j
      BY <1>1, <1>9, <2>3 DEF RowsInv
    <3> QED
      BY <1>4, <3>3, <3>4 DEF RowsInv, PlansOf, Made
  <2>7. FinishedHoldsNothing'
    BY <1>1, <1>4, <1>9, <2>3 DEF FinishedHoldsNothing, Envelopes, Of
  <2>8. MakesInv'
    <3>1. CASE h' = None
      BY <1>6, <3>1 DEF MakesInv
    <3>2. CASE h' # None
      BY <1>1, <1>2, <1>4, <1>5, <1>6, <3>2 DEF MakesInv, Unreserved, PlansOf, Made
    <3> QED
      BY <3>1, <3>2
  <2>9. StrandedInv'
    <3>1. \A t \in Tasks : Stranded(t)' \subseteq Stranded(t)
      BY <1>2, <1>4, <1>9, <2>3 DEF Stranded, Envelopes, Of, Unreleased
    <3> QED
      BY <1>1, <1>4, <3>1, StrandedFrame
  <2>10. ReplansInv'
    BY <1>1, <1>4, <1>8, ReplansFrame
  <2> QED
    BY <1>7, <2>3, <2>4, <2>5, <2>6, <2>7, <2>8, <2>9, <2>10 DEF TkIInv
<1> QED
  BY <1>10, <1>11 DEF ReserveEnvelope

LEMMA CountStep ==
  ASSUME TkIInv, CountReplan
  PROVE  TkIInv'
<1>1. /\ TypeOK /\ TkTypeOK /\ PlansInv /\ RowsInv /\ ReceiptsInv /\ StrandedInv /\ ReplansInv /\ MakesInv
      /\ FinishedHoldsNothing /\ NoUsageDropped
  BY DEF TkIInv
<1>2. h \in Planning /\ Makes /\ ~Reads /\ h.step = "count"
  BY <1>1, HandlerKinds DEF CountReplan, PlanSteps, At, Makes, Reads
<1>3. h.op = "replan" /\ h.task \in Tasks /\ h.plan \in Plans
  BY <1>1, <1>2 DEF MakesInv, Unreserved, Planning
<1> DEFINE counted == [count |-> replans[h.task].count + 1, last |-> plans[h.plan].born,
                       calls |-> calls[h.task].count]
<1>4. /\ UNCHANGED <<now, budgets, rows, issued, floor, plans, inflight, calls, receipts, config, faults>>
      /\ replans' = [replans EXCEPT ![h.task] = counted]
  BY DEF CountReplan, ledger
<1>5. /\ h' \in Planning /\ h' # None /\ h'.step = "streak"
      /\ h'.op = h.op /\ h'.task = h.task /\ h'.plan = h.plan /\ h'.prev = h.prev
  BY <1>2, GotoStep DEF CountReplan, PlanSteps
<1>6. Makes' /\ ~Reads'
  BY <1>3, <1>5 DEF Makes, Reads
<1>7. TypeOK' /\ Kept /\ now <= now'
  BY <1>1, <1>4, SameLedger DEF CountReplan, TypeOK
<1>8. PlansInv' /\ RowsInv' /\ ReceiptsInv' /\ FinishedHoldsNothing' /\ NoUsageDropped'
  BY <1>1, <1>4, <1>7, Quiet
<1>9. /\ counted \in [count: Nat, last: Opt(Nat), calls: Nat]
      /\ counted.count = replans[h.task].count + 1
  <2>1. plans[h.plan].born \in Nat
    BY <1>1, <1>2, <1>3 DEF MakesInv, PlansOf, Made, TkTypeOK, Opt, Plan
  <2>2. replans[h.task].count \in Nat /\ calls[h.task].count \in Nat
    BY <1>1, <1>3 DEF TkTypeOK
  <2> QED
    BY <2>1, <2>2 DEF Opt
<1> HIDE DEF counted
<1>10. /\ replans' \in [Tasks -> [count: Nat, last: Opt(Nat), calls: Nat]]
       /\ replans'[h.task] = counted /\ \A t \in Tasks : t # h.task => replans'[t] = replans[t]
  BY <1>1, <1>3, <1>4, <1>9 DEF TkTypeOK
<1>11. TkTypeOK'
  BY <1>1, <1>4, <1>5, <1>10 DEF TkTypeOK, PlansOf, Made, Opt
<1>12. MakesInv'
  BY <1>1, <1>2, <1>3, <1>4, <1>5, <1>6, <1>7, MakesStays DEF Unreserved
<1>13. ReadsInv' /\ DecisionInv'
  BY <1>3, <1>5, <1>6 DEF ReadsInv, DecisionInv
<1>14. StrandedInv'
  BY <1>1, <1>2, <1>4, <1>7, StrandedStays DEF Unreleased
<1>15. ReplansInv'
  <2>1. \A t \in Tasks : Automatic(t)' = Automatic(t)
    BY <1>4 DEF Automatic, PlansOf, Made
  <2>2. ASSUME NEW t \in Tasks, t # h.task
        PROVE  Uncounted(t)' = Uncounted(t) /\ replans'[t].count = replans[t].count
    BY <1>5, <1>10, <2>2 DEF Uncounted
  <2>3. ASSUME NEW t \in Tasks, t = h.task
        PROVE  Uncounted(t) = 1 /\ Uncounted(t)' = 0 /\ replans'[t].count = replans[t].count + 1
    BY <1>2, <1>3, <1>5, <1>9, <1>10, <2>3 DEF Uncounted
  <2>4. \A t \in Tasks : replans[t].count \in Nat
    BY <1>1 DEF TkTypeOK
  <2>5. faults \in Nat
    BY <1>1, TaskAssumption DEF TkTypeOK
  <2>6. ASSUME NEW t \in Tasks
        PROVE  replans'[t].count + faults + Uncounted(t)' = replans[t].count + faults + Uncounted(t)
               /\ replans'[t].count + Uncounted(t)' = replans[t].count + Uncounted(t)
    BY <2>2, <2>3, <2>4, <2>5
  <2> QED
    BY <1>1, <1>4, <2>1, <2>6 DEF ReplansInv
<1> QED
  BY <1>7, <1>8, <1>11, <1>12, <1>13, <1>14, <1>15 DEF TkIInv

LEMMA StreakStep ==
  ASSUME TkIInv, ResetStreak
  PROVE  TkIInv'
<1>1. /\ TypeOK /\ TkTypeOK /\ PlansInv /\ RowsInv /\ ReceiptsInv /\ StrandedInv /\ ReplansInv /\ MakesInv
      /\ FinishedHoldsNothing /\ NoUsageDropped
  BY DEF TkIInv
<1>2. h \in Planning /\ Makes /\ h.step = "streak" /\ h.task \in Tasks
  BY <1>1, HandlerKinds DEF ResetStreak, PlanSteps, At, Planning
<1>3. /\ UNCHANGED <<now, budgets, rows, issued, floor, plans, inflight, replans, receipts, config, faults>>
      /\ h' = None /\ calls' = [calls EXCEPT ![h.task].streak = 0]
  BY DEF ResetStreak, ledger, Answer
<1>4. TypeOK' /\ Kept /\ now <= now'
  BY <1>1, <1>3, SameLedger DEF ResetStreak, TypeOK
<1>5. PlansInv' /\ RowsInv' /\ ReceiptsInv' /\ FinishedHoldsNothing' /\ NoUsageDropped'
  BY <1>1, <1>3, <1>4, Quiet
<1>6. TkTypeOK'
  <2> DEFINE C == [count: 0..MaxCalls, tool: Opt(Tools), streak: Nat]
             call == [calls[h.task] EXCEPT !.streak = 0]
  <2>1. call \in C /\ call.streak = 0 /\ call.count = calls[h.task].count /\ call.count \in Nat
    <3>1. calls[h.task] \in C
      BY <1>1, <1>2 DEF TkTypeOK
    <3> QED
      BY <3>1
  <2>2. calls' = [calls EXCEPT ![h.task] = call]
    BY <1>3
  <2> HIDE DEF call
  <2>3. calls' \in [Tasks -> C] /\ \A t \in Tasks : calls'[t].streak <= calls'[t].count
    BY <1>1, <1>2, <2>1, <2>2 DEF TkTypeOK
  <2> QED
    BY <1>1, <1>3, <2>3 DEF TkTypeOK, PlansOf, Made, Opt
<1>7. MakesInv' /\ ReadsInv' /\ DecisionInv'
  BY <1>3 DEF MakesInv, ReadsInv, DecisionInv, Makes, Reads
<1>8. StrandedInv'
  BY <1>1, <1>2, <1>3, <1>4, StrandedStays DEF Unreleased
<1>9. ReplansInv'
  <2>1. \A t \in Tasks : Uncounted(t)' = Uncounted(t)
    BY <1>2, <1>3 DEF Uncounted, Makes
  <2> QED
    BY <1>1, <1>3, <2>1, ReplansFrame
<1> QED
  BY <1>4, <1>5, <1>6, <1>7, <1>8, <1>9 DEF TkIInv
-----------------------------------------------------------------------------
(* A finalize: the lineage of its plan and the window of its receipt. *)

\* The chain of plans that a plan replaces.
IsChain(f, p, N) ==
  f = [n \in 0..N |-> IF n = 0 THEN p
                      ELSE IF plans[f[n - 1]].replaces = None THEN f[n - 1] ELSE plans[f[n - 1]].replaces]

LEMMA ChainExtends ==
  ASSUME NEW p, NEW N \in Nat, NEW f, IsChain(f, p, N)
  PROVE  \E g : IsChain(g, p, N + 1)
<1> DEFINE before(x) == IF plans[x].replaces = None THEN x ELSE plans[x].replaces
           g == [n \in 0..(N + 1) |-> IF n = N + 1 THEN before(f[N]) ELSE f[n]]
<1>0. \A n \in 0..N : f[n] = IF n = 0 THEN p ELSE before(f[n - 1])
  BY DEF IsChain
<1> HIDE DEF before
<1>1. \A n \in 0..(N + 1) : g[n] = IF n = 0 THEN p ELSE before(g[n - 1])
  <2> TAKE n \in 0..(N + 1)
  <2>1. CASE n = N + 1
    BY <2>1
  <2>2. CASE n # N + 1 /\ n # 0
    <3>1. n \in 0..N /\ n - 1 \in 0..(N + 1) /\ n - 1 # N + 1
      BY <2>2
    <3>2. g[n] = f[n] /\ g[n - 1] = f[n - 1]
      BY <2>2, <3>1
    <3> QED
      BY <1>0, <2>2, <3>1, <3>2
  <2>3. CASE n = 0
    BY <1>0, <2>3
  <2> QED
    BY <2>1, <2>2, <2>3
<1>2. g = [n \in 0..(N + 1) |-> g[n]]
  OBVIOUS
<1> HIDE DEF g
<1>3. g = [n \in 0..(N + 1) |-> IF n = 0 THEN p ELSE before(g[n - 1])]
  BY <1>1, <1>2
<1>4. IsChain(g, p, N + 1)
  BY <1>3 DEF IsChain, before
<1> QED
  BY <1>4

LEMMA ChainExists ==
  ASSUME NEW p, NEW N \in Nat
  PROVE  \E f : IsChain(f, p, N)
<1> DEFINE T == {n \in Nat : \E f : IsChain(f, p, n)}
<1>1. 0 \in T
  <2>1. IsChain([n \in 0..0 |-> p], p, 0)
    BY DEF IsChain
  <2> QED
    BY <2>1
<1>2. \A n \in Nat : n \in T => n + 1 \in T
  BY ChainExtends
<1> HIDE DEF T
<1>3. Nat \subseteq T
  BY <1>1, <1>2, SetInduction
<1> QED
  BY <1>3 DEF T

\* However long the chain, its first plan has the task and the verdict of the
\* last one, and was made no later.
LEMMA RootInherits ==
  ASSUME TkTypeOK, PlansInv, NEW p \in Made
  PROVE  Root(p) \in Made /\ plans[Root(p)].admission = plans[p].admission
<1> DEFINE f == CHOOSE g : IsChain(g, p, MaxPlans)
           T == {n \in Nat : n <= MaxPlans => f[n] \in Made /\ plans[f[n]].admission = plans[p].admission}
<1>1. MaxPlans \in Nat
  BY TaskAssumption
<1>2. IsChain(f, p, MaxPlans)
  BY <1>1, ChainExists, Zenon
<1>3. Root(p) = f[MaxPlans]
  BY DEF Root, IsChain
<1> HIDE DEF f
<1>4. /\ f[0] = p
      /\ \A n \in 1..MaxPlans :
           f[n] = IF plans[f[n - 1]].replaces = None THEN f[n - 1] ELSE plans[f[n - 1]].replaces
  BY <1>1, <1>2 DEF IsChain
<1>5. 0 \in T
  BY <1>4
<1>6. \A n \in Nat : n \in T => n + 1 \in T
  <2> SUFFICES ASSUME NEW n \in Nat, n \in T, n + 1 <= MaxPlans
               PROVE  f[n + 1] \in Made /\ plans[f[n + 1]].admission = plans[p].admission
    OBVIOUS
  <2>1. n <= MaxPlans /\ n + 1 \in 1..MaxPlans /\ (n + 1) - 1 = n
    BY <1>1
  <2>2. f[n] \in Made /\ plans[f[n]].admission = plans[p].admission
    BY <2>1
  <2>3. f[n + 1] = IF plans[f[n]].replaces = None THEN f[n] ELSE plans[f[n]].replaces
    BY <1>4, <2>1
  <2>4. plans[f[n]].replaces # None =>
          plans[f[n]].replaces \in Made /\ plans[plans[f[n]].replaces].admission = plans[f[n]].admission
    BY <2>2 DEF PlansInv, PlansOf
  <2> QED
    BY <2>2, <2>3, <2>4
<1> HIDE DEF T
<1>7. MaxPlans \in T
  BY <1>1, <1>5, <1>6, SetInduction
<1> QED
  BY <1>1, <1>3, <1>7 DEF T

\* The window of a receipt starts in the past, and where the latest receipt of
\* the task ended.
LEMMA WindowStart ==
  ASSUME TypeOK, TkTypeOK, PlansInv, ReceiptsInv, NEW t \in Tasks, NEW p \in Made
  PROVE  /\ usage_window_start(t, p) \in Nat /\ usage_window_start(t, p) <= now
         /\ ReceiptsOf(t) # {} => \E q \in ReceiptsOf(t) : usage_window_start(t, p) = receipts[q].at
<1> DEFINE ends == {receipts[q].at : q \in ReceiptsOf(t)}
<1>1. ends \in SUBSET (0..now) /\ now \in Nat
  BY DEF TkTypeOK, ReceiptsInv, TypeOK, ReceiptsOf, PlansOf, Made, Opt, Receipt
<1>2. usage_window_start(t, p) = IF ends = {} THEN plans[Root(p)].born
                                 ELSE CHOOSE e \in ends : \A f \in ends : f <= e
  BY DEF usage_window_start
<1>3. CASE ends = {}
  <2>1. plans[Root(p)].born \in Nat /\ plans[Root(p)].born <= now
    <3>1. Root(p) \in Made
      BY RootInherits
    <3> QED
      BY <3>1 DEF PlansInv, TkTypeOK, Made, Opt, Plan
  <2> QED
    BY <1>2, <1>3, <2>1
<1>4. CASE ends # {}
  <2> HIDE DEF ends
  <2>1. \E e \in ends : \A f \in ends : f <= e
    BY <1>1, <1>4, Greatest
  <2>2. usage_window_start(t, p) \in ends
    BY <1>2, <1>4, <2>1
  <2> QED
    BY <1>1, <2>2 DEF ends
<1> QED
  BY <1>3, <1>4

LEMMA FinalizeStep ==
  ASSUME TkIInv, NEW t \in Tasks, Finalize(t)
  PROVE  TkIInv'
<1>1. TypeOK /\ TkTypeOK /\ PlansInv /\ ReceiptsInv
  BY DEF TkIInv
<1> DEFINE since == usage_window_start(t, inflight[t])
<1>2. /\ UNCHANGED <<now, budgets, rows, issued, floor, plans, inflight, calls, replans, receipts, config, faults>>
      /\ h = None /\ inflight[t] # None /\ receipts[inflight[t]] = None
      /\ h' = [op |-> "finalize", step |-> "observe", task |-> t, plan |-> inflight[t],
               at |-> now, since |-> since]
  BY DEF Finalize, ledger, sessions
<1>3. inflight[t] \in PlansOf(t) /\ inflight[t] \in Made /\ inflight[t] \in Plans
  BY <1>1, <1>2 DEF TkTypeOK, PlansOf, Made
<1>4. /\ since \in Nat /\ since <= now /\ now \in Nat
      /\ ReceiptsOf(t) # {} => \E q \in ReceiptsOf(t) : since = receipts[q].at
  BY <1>1, <1>3, WindowStart DEF TypeOK
<1> HIDE DEF since
<1>5. /\ h' \in Reading /\ h' # None /\ h'.op = "finalize" /\ h'.step = "observe"
      /\ h'.task = t /\ h'.plan = inflight[t] /\ h'.at = now /\ h'.since = since
  BY <1>2, <1>3, <1>4, NullAssumption DEF Reading
<1>6. TypeOK' /\ Kept
  BY <1>1, SameLedger DEF Finalize
<1>7. ~Makes /\ ~Makes' /\ Reads'
  BY <1>2, <1>5 DEF Makes, Reads
<1>8. ReadsInv'
  <2>1. PlansOf(t)' = PlansOf(t) /\ ReceiptsOf(t)' = ReceiptsOf(t)
    BY <1>2 DEF PlansOf, Made, ReceiptsOf
  <2>2. \A q \in ReceiptsOf(t) : receipts[q].at <= now
    BY <1>1 DEF ReceiptsInv, ReceiptsOf, PlansOf, Made
  <2> QED
    BY <1>2, <1>3, <1>4, <1>5, <2>1, <2>2 DEF ReadsInv, PlansOf, Made, ReceiptsOf
<1>9. MakesInv' /\ DecisionInv'
  BY <1>7 DEF MakesInv, DecisionInv
<1>10. \A u \in Tasks : Uncounted(u)' = Uncounted(u)
  BY <1>7 DEF Uncounted
<1> QED
  BY <1>2, <1>5, <1>6, <1>7, <1>8, <1>9, <1>10, LedgerStep DEF Opt
-----------------------------------------------------------------------------
(* A prompt and a tool call: a plan is made. *)

\* The number of the next plan is not taken.
LEMMA FreshPlan ==
  ASSUME PlansInv
  PROVE  NextPlan \in Nat \ {0} /\ Made = 1..(NextPlan - 1)
<1>1. PICK n \in 0..MaxPlans : Made = 1..n
  BY DEF PlansInv
<1>2. Cardinality(Made) = n
  BY <1>1, FS_Interval
<1> QED
  BY <1>1, <1>2 DEF NextPlan

CallRecord == [count: 0..MaxCalls, tool: Opt(Tools), streak: Nat]

LEMMA StartStep ==
  ASSUME TkIInv, h = None, TypeOK', Kept, now' = now,
         UNCHANGED <<inflight, replans, receipts, config, faults>>,
         calls' \in [Tasks -> CallRecord], \A t \in Tasks : calls'[t].streak <= calls'[t].count,
         NEW t \in Tasks, NEW op \in {"preflight", "replan"}, NEW revision \in Nat,
         NEW admission \in Admissions \cup {None}, NEW replaces \in Opt(Plans),
         NEW p80 \in Estimates, NEW criteria \in Criteria,
         StartPlan(t, op, revision, admission, replaces, p80, criteria),
         revision <= NextPlan,
         replaces # None => replaces \in PlansOf(t) /\ plans[replaces].admission = admission,
         op = "preflight" => replaces = None,
         op = "replan" => replaces # None /\ replans[t].count < MaxReplans
  PROVE  TkIInv'
<1>1. /\ TypeOK /\ TkTypeOK /\ PlansInv /\ RowsInv /\ ReceiptsInv /\ StrandedInv /\ ReplansInv
      /\ FinishedHoldsNothing /\ NoUsageDropped
  BY DEF TkIInv
<1>2. NextPlan \in Nat \ {0} /\ Made = 1..(NextPlan - 1) /\ NextPlan <= MaxPlans
  BY <1>1, FreshPlan DEF StartPlan
<1>3. PICK N \in Plans : N = NextPlan
  BY <1>2, TaskAssumption
<1>4. /\ N \in Nat \ {0} /\ Made = 1..(N - 1) /\ N \notin Made /\ Made \subseteq Plans
      /\ \A p \in Made : p \in Nat /\ p < N
  BY <1>2, <1>3 DEF Made
<1> DEFINE plan == [task |-> t, revision |-> revision, admission |-> admission, replaces |-> replaces,
                    born |-> now]
           asks == Requested(p80)
           share == completion_reserve_for(config, Requested(p80), criteria)
<1>5. /\ plan \in Plan /\ plan # None /\ plan.task = t /\ plan.revision = revision
      /\ plan.admission = admission /\ plan.replaces = replaces /\ plan.born = now
  BY <1>1, NullAssumption DEF Plan, TypeOK
<1>6. asks \in Nat /\ share \in Nat
  <2>1. asks \in Nat
    BY <1>1, ConfigFacts, TaskAssumption DEF Requested, Opt
  <2>2. criteria \in Nat /\ config \in Validated
    BY <1>1, ConfigFacts, TaskAssumption
  <2> HIDE DEF asks
  <2>3. completion_reserve_for(config, asks, criteria) \in Nat
    BY <2>1, <2>2, ReserveFitsRequest
  <2> QED
    BY <2>1, <2>3 DEF asks
<1>7. /\ plans' = [plans EXCEPT ![N] = plan]
      /\ h' = [op |-> op, step |-> "supersede", task |-> t, plan |-> N, prev |-> inflight[t],
               requested |-> asks, reserve |-> share]
  BY <1>3 DEF StartPlan
<1> HIDE DEF plan, asks, share
<1>8. /\ h' \in Planning /\ h' # None /\ h'.op = op /\ h'.step = "supersede" /\ h'.task = t
      /\ h'.plan = N /\ h'.prev = inflight[t]
  <2>1. inflight[t] \in Opt(Plans)
    BY <1>1 DEF TkTypeOK
  <2> QED
    BY <1>6, <1>7, <2>1, NullAssumption DEF Planning, PlanSteps
<1>9. Makes' /\ ~Reads' /\ ~Makes
  BY <1>8 DEF Makes, Reads
<1>10. /\ plans' \in [Plans -> Opt(Plan)] /\ plans'[N] = plan
       /\ \A p \in Plans : p # N => plans'[p] = plans[p]
  BY <1>1, <1>5, <1>7 DEF TkTypeOK, Opt
<1>11. /\ Made' = Made \cup {N}
       /\ \A p \in Made : plans'[p] = plans[p] /\ p # N /\ p \in Plans
       /\ PlansOf(t)' = PlansOf(t) \cup {N}
       /\ \A u \in Tasks : u # t => PlansOf(u)' = PlansOf(u)
  <2>1. Made' = Made \cup {N}
    BY <1>5, <1>10 DEF Made
  <2>2. \A p \in Made : plans'[p] = plans[p] /\ p # N /\ p \in Plans
    BY <1>4, <1>10
  <2> QED
    BY <1>5, <1>10, <2>1, <2>2 DEF PlansOf
<1>12. receipts[N] = None /\ \A u \in Tasks : ReceiptsOf(u)' = ReceiptsOf(u)
  <2>1. receipts[N] = None
    BY <1>1, <1>4 DEF TkTypeOK
  <2> QED
    BY <1>11, <2>1 DEF ReceiptsOf
<1>13. TkTypeOK'
  <2>1. \A u \in Tasks : inflight'[u] # None => inflight'[u] \in PlansOf(u)'
    BY <1>1, <1>11 DEF TkTypeOK
  <2>2. \A p \in Plans : receipts'[p] # None =>
          p \in Made' /\ receipts'[p].since <= receipts'[p].at /\ receipts'[p].at <= receipts'[p].read
    BY <1>1, <1>11 DEF TkTypeOK
  <2> QED
    BY <1>1, <1>8, <1>10, <2>1, <2>2 DEF TkTypeOK, Opt, CallRecord
<1>14. PlansInv'
  <2>1. Made' = 1..N /\ N \in 0..MaxPlans
    BY <1>2, <1>3, <1>4, <1>11, TaskAssumption
  <2>2. ASSUME NEW p \in Made
        PROVE  /\ plans'[p].born <= now' /\ plans'[p].revision <= p
               /\ plans'[p].replaces # None =>
                    /\ plans'[p].replaces \in Made' /\ plans'[plans'[p].replaces].task = plans'[p].task
                    /\ plans'[p].replaces < p
                    /\ plans'[plans'[p].replaces].admission = plans'[p].admission
    <3>1. plans'[p] = plans[p] /\ plans[p].task \in Tasks
      BY <1>1, <1>11 DEF TkTypeOK, Made, Opt, Plan
    <3>2. /\ plans[p].born <= now /\ plans[p].revision <= p
          /\ plans[p].replaces # None =>
               /\ plans[p].replaces \in PlansOf(plans[p].task) /\ plans[p].replaces < p
               /\ plans[plans[p].replaces].admission = plans[p].admission
      BY <1>1 DEF PlansInv
    <3>3. \A u \in Tasks : PlansOf(u) \subseteq Made
      BY DEF PlansOf
    <3>4. plans[p].replaces # None =>
            plans'[plans[p].replaces] = plans[plans[p].replaces] /\ plans[p].replaces \in Made
      BY <1>11, <3>1, <3>2, <3>3
    <3>5. plans[p].replaces # None => plans'[plans[p].replaces].task = plans[p].task
      BY <3>2, <3>4 DEF PlansOf
    <3> QED
      BY <1>11, <3>1, <3>2, <3>4, <3>5
  <2>3. /\ plans'[N].born <= now' /\ plans'[N].revision <= N
        /\ plans'[N].replaces # None =>
             /\ plans'[N].replaces \in Made' /\ plans'[plans'[N].replaces].task = plans'[N].task
             /\ plans'[N].replaces < N
             /\ plans'[plans'[N].replaces].admission = plans'[N].admission
    <3>1. replaces # None => replaces \in Made /\ plans[replaces].task = t
      BY DEF PlansOf
    <3>2. replaces # None => plans'[replaces] = plans[replaces] /\ replaces < N
      BY <1>4, <1>11, <3>1
    <3>3. now <= now'
      BY <1>1 DEF TypeOK
    <3> QED
      BY <1>3, <1>5, <1>10, <1>11, <3>1, <3>2, <3>3
  <2>4. \A p \in Made' : p \in Made \/ p = N
    BY <1>11
  <2> QED
    BY <2>1, <2>2, <2>3, <2>4 DEF PlansInv, PlansOf
<1>15. \A i \in Ids : rows[i] # None => rows[i].plan \in Made /\ rows[i].task \in Tasks
  BY <1>1, RowFacts DEF Made
<1>16. \A i \in Ids : rows'[i] # None => rows[i] # None /\ rows'[i].plan = rows[i].plan
                        /\ rows'[i].task = rows[i].task /\ rows'[i].key = rows[i].key
  BY DEF Kept
<1>17. RowsInv'
  <2>1. \A i \in Ids : rows'[i] # None =>
          /\ rows'[i].plan \in Made' /\ plans'[rows'[i].plan].task = rows'[i].task /\ rows'[i].key = rows'[i].plan
          /\ plans'[rows'[i].plan].admission \notin {"deny", "approval"}
    <3> SUFFICES ASSUME NEW i \in Ids, rows'[i] # None
                 PROVE  /\ rows'[i].plan \in Made' /\ plans'[rows'[i].plan].task = rows'[i].task /\ rows'[i].key = rows'[i].plan
                        /\ plans'[rows'[i].plan].admission \notin {"deny", "approval"}
      OBVIOUS
    <3>1. /\ rows[i].plan \in PlansOf(rows[i].task) /\ rows[i].key = rows[i].plan
          /\ plans[rows[i].plan].admission \notin {"deny", "approval"}
      BY <1>1, <1>16 DEF RowsInv
    <3>2. plans'[rows[i].plan] = plans[rows[i].plan] /\ rows[i].plan \in Made'
      BY <1>11, <1>15, <1>16
    <3> QED
      BY <1>16, <3>1, <3>2 DEF PlansOf
  <2>2. \A i, j \in Ids : rows'[i] # None /\ rows'[j] # None /\ rows'[i].plan = rows'[j].plan => i = j
    BY <1>1, <1>16 DEF RowsInv
  <2> QED
    BY <2>1, <2>2 DEF RowsInv, PlansOf
<1>18. ReceiptsInv' /\ NoUsageDropped' /\ FinishedHoldsNothing'
  <2>1. ReceiptsInv' /\ NoUsageDropped'
    BY <1>1, <1>12 DEF ReceiptsInv, NoUsageDropped
  <2>2. FinishedHoldsNothing'
    BY <1>1, <1>16 DEF FinishedHoldsNothing, Envelopes, Of, Kept
  <2> QED
    BY <2>1, <2>2
<1>19. MakesInv'
  <2>1. \A p \in Made' : p <= N
    BY <1>4, <1>11
  <2>2. \A i \in Ids : rows'[i] # None => rows'[i].plan # N
    BY <1>4, <1>15, <1>16
  <2>3. N \in Made' /\ plans'[N].task = t /\ receipts'[N] = None
    BY <1>5, <1>10, <1>11, <1>12
  <2>4. op = "preflight" => plans'[N].replaces = None
    BY <1>5, <1>10
  <2> QED
    BY <1>8, <2>1, <2>2, <2>3, <2>4 DEF MakesInv, Unreserved, PlansOf
<1>20. ReadsInv' /\ DecisionInv'
  BY <1>8, <1>9 DEF ReadsInv, DecisionInv
<1>21. StrandedInv'
  BY <1>1, <1>9, StrandedStays
<1>22. ReplansInv'
  <2> SUFFICES ASSUME NEW u \in Tasks
               PROVE  /\ Cardinality(Automatic(u)') <= replans[u].count + faults + Uncounted(u)'
                      /\ replans[u].count + Uncounted(u)' <= MaxReplans
    BY DEF ReplansInv
  <2>1. /\ Cardinality(Automatic(u)) <= replans[u].count + faults + Uncounted(u)
        /\ replans[u].count + Uncounted(u) <= MaxReplans
        /\ Uncounted(u) = 0
    BY <1>1, <1>9 DEF ReplansInv, Uncounted
  <2>2. replans[u].count \in Nat /\ faults \in Nat /\ MaxReplans \in Nat
    BY <1>1, TaskAssumption DEF TkTypeOK
  <2>3. CASE op = "replan" /\ u = t
    <3>1. Uncounted(u)' = 1
      BY <1>8, <1>9, <2>3 DEF Uncounted
    <3>2. Automatic(u)' = Automatic(u) \cup {N}
      BY <1>5, <1>10, <1>11, <2>3 DEF Automatic, PlansOf
    <3>3. IsFiniteSet(Automatic(u)) /\ Cardinality(Automatic(u)) \in Nat
      <4>1. Automatic(u) \subseteq Made /\ IsFiniteSet(Made)
        BY <1>4, FS_Interval DEF Automatic, PlansOf
      <4> QED
        BY <4>1, FS_Subset, FS_CardinalityType
    <3>4. Cardinality(Automatic(u) \cup {N}) <= Cardinality(Automatic(u)) + 1
      <4>1. Cardinality(Automatic(u) \cup {N}) =
              IF N \in Automatic(u) THEN Cardinality(Automatic(u)) ELSE Cardinality(Automatic(u)) + 1
        BY <3>3, FS_AddElement
      <4> QED
        BY <3>3, <4>1
    <3>5. IsFiniteSet(Automatic(u) \cup {N}) /\ Cardinality(Automatic(u) \cup {N}) \in Nat
      BY <3>3, FS_AddElement, FS_CardinalityType
    <3>6. Cardinality(Automatic(u) \cup {N}) <= replans[u].count + faults + 1
      BY <2>1, <2>2, <3>3, <3>4, <3>5
    <3>7. replans[u].count + 1 <= MaxReplans
      BY <2>2, <2>3
    <3> QED
      BY <3>1, <3>2, <3>6, <3>7
  <2>4. CASE ~(op = "replan" /\ u = t)
    <3>1. Uncounted(u)' = 0
      BY <1>8, <1>9, <2>4 DEF Uncounted
    <3>2. Automatic(u)' = Automatic(u)
      <4>1. u = t => plans'[N].replaces = None
        BY <1>5, <1>10, <2>4
      <4>2. \A p \in PlansOf(u) : plans'[p] = plans[p]
        BY <1>11 DEF PlansOf
      <4>3. PlansOf(u)' = IF u = t THEN PlansOf(u) \cup {N} ELSE PlansOf(u)
        BY <1>11
      <4> QED
        BY <4>1, <4>2, <4>3 DEF Automatic
    <3> QED
      BY <2>1, <3>1, <3>2
  <2> QED
    BY <2>3, <2>4
<1> QED
  BY <1>13, <1>14, <1>17, <1>18, <1>19, <1>20, <1>21, <1>22 DEF TkIInv

LEMMA PreflightStep ==
  ASSUME TkIInv, NEW t \in Tasks, NEW p80 \in Estimates, NEW criteria \in Criteria,
         Preflight(t, p80, criteria)
  PROVE  TkIInv'
<1>1. TypeOK /\ TkTypeOK /\ PlansInv
  BY DEF TkIInv
<1>2. /\ h = None /\ UNCHANGED <<inflight, calls, replans, receipts, config, faults>>
      /\ StartPlan(t, "preflight", LatestRevision(t) + 1, None, None, p80, criteria)
  BY DEF Preflight
<1>3. TypeOK' /\ Kept /\ now' = now
  BY <1>1, SweepLedger DEF Preflight
<1> DEFINE R == {plans[p].revision : p \in PlansOf(t)} \cup {0}
<1>4. NextPlan \in Nat \ {0} /\ Made = 1..(NextPlan - 1)
  BY <1>1, FreshPlan
<1>5. R \in SUBSET (0..(NextPlan - 1)) /\ R # {}
  <2>1. \A p \in Made : plans[p].revision \in Nat /\ plans[p].revision <= p
    BY <1>1 DEF PlansInv, TkTypeOK, Made, Opt, Plan
  <2>2. PlansOf(t) \subseteq Made
    BY DEF PlansOf
  <2> QED
    BY <1>4, <2>1, <2>2
<1>6. LatestRevision(t) = CHOOSE r \in R : \A q \in R : q <= r
  BY DEF LatestRevision
<1> HIDE DEF R
<1>7. \E r \in R : \A q \in R : q <= r
  <2>1. NextPlan - 1 \in Nat
    BY <1>4
  <2> QED
    BY <1>5, <2>1, Greatest
<1>8. LatestRevision(t) \in 0..(NextPlan - 1)
  BY <1>5, <1>6, <1>7
<1>9. PICK revision \in Nat : revision = LatestRevision(t) + 1
  BY <1>8
<1>10. revision <= NextPlan
  BY <1>4, <1>8, <1>9
<1>11. StartPlan(t, "preflight", revision, None, None, p80, criteria)
  BY <1>2, <1>9
<1>12. calls' \in [Tasks -> CallRecord] /\ \A u \in Tasks : calls'[u].streak <= calls'[u].count
  BY <1>1, <1>2 DEF TkTypeOK, CallRecord
<1> QED
  BY <1>2, <1>3, <1>10, <1>11, <1>12, StartStep DEF Opt

LEMMA CallCounted ==
  ASSUME TkTypeOK, NEW t \in Tasks, NEW tool \in Tools, CountCall(t, tool)
  PROVE  calls' \in [Tasks -> CallRecord] /\ \A u \in Tasks : calls'[u].streak <= calls'[u].count
<1> DEFINE call == [count |-> calls[t].count + 1, tool |-> tool,
                    streak |-> IF calls[t].tool = tool THEN calls[t].streak + 1 ELSE 1]
<1>1. calls \in [Tasks -> CallRecord] /\ \A u \in Tasks : calls[u].streak <= calls[u].count
  BY DEF TkTypeOK, CallRecord
<1>2. calls[t].count \in 0..MaxCalls /\ calls[t].streak \in Nat /\ calls[t].streak <= calls[t].count
  BY <1>1 DEF CallRecord
<1>3. calls' = [calls EXCEPT ![t] = call] /\ calls[t].count < MaxCalls
  BY DEF CountCall
<1>4. call \in CallRecord /\ call.streak <= call.count
  <2>1. calls[t].count + 1 \in 0..MaxCalls
    BY <1>2, <1>3, TaskAssumption
  <2> QED
    BY <1>2, <2>1 DEF CallRecord, Opt
<1> HIDE DEF call
<1> QED
  BY <1>1, <1>3, <1>4

LEMMA ToolStep ==
  ASSUME TkIInv, NEW t \in Tasks, NEW tool \in Tools, NEW typical \in Typical,
         NEW p80 \in Estimates, NEW criteria \in Criteria,
         ToolInvoked(t, tool, typical, p80, criteria)
  PROVE  TkIInv'
<1>1. TypeOK /\ TkTypeOK /\ PlansInv
  BY DEF TkIInv
<1>2. h = None /\ UNCHANGED <<inflight, replans, receipts, config, faults>> /\ UNCHANGED ledger
  BY DEF ToolInvoked
<1>3. TypeOK' /\ Kept /\ now' = now
  BY <1>1, <1>2, SameLedger DEF ledger
<1>4. calls' \in [Tasks -> CallRecord] /\ \A u \in Tasks : calls'[u].streak <= calls'[u].count
  BY <1>1, CallCounted DEF ToolInvoked
<1>5. CASE UNCHANGED <<h, plans>>
  <2>1. now <= now'
    BY <1>1, <1>3 DEF TypeOK
  <2>2. PlansInv' /\ RowsInv' /\ ReceiptsInv' /\ FinishedHoldsNothing' /\ NoUsageDropped'
    BY <1>2, <1>3, <1>5, <2>1, Quiet DEF TkIInv
  <2>3. TkTypeOK'
    BY <1>1, <1>2, <1>4, <1>5 DEF TkTypeOK, PlansOf, Made, CallRecord
  <2>4. MakesInv' /\ ReadsInv' /\ DecisionInv'
    BY <1>2, <1>5 DEF MakesInv, ReadsInv, DecisionInv, Makes, Reads
  <2>5. StrandedInv'
    BY <1>2, <1>3, <1>5, StrandedStays DEF TkIInv, Makes
  <2>6. ReplansInv'
    BY <1>2, <1>5, ReplansFrame DEF TkIInv, Uncounted, Makes
  <2> QED
    BY <1>3, <2>2, <2>3, <2>4, <2>5, <2>6 DEF TkIInv
<1>6. CASE /\ Replans(t, typical)
           /\ StartPlan(t, "replan", plans[inflight[t]].revision, carried_admission(inflight[t]),
                        inflight[t], p80, criteria)
  <2>1. inflight[t] # None /\ replans[t].count < MaxReplans
    BY <1>6 DEF Replans, hysteresis_allows
  <2>2. PICK old \in Plans : old = inflight[t]
    BY <1>1, <2>1 DEF TkTypeOK, Opt
  <2>3. old \in PlansOf(t) /\ old \in Made /\ plans[old] \in Plan /\ old # None
    BY <1>1, <2>1, <2>2 DEF TkTypeOK, PlansOf, Made, Opt
  <2>4. PICK revision \in Nat : revision = plans[old].revision
    BY <2>3 DEF Plan
  <2>5. PICK admission \in Admissions \cup {None} : admission = plans[old].admission
    BY <2>3 DEF Plan
  <2>6. StartPlan(t, "replan", revision, admission, old, p80, criteria)
    BY <1>6, <2>2, <2>4, <2>5 DEF carried_admission
  <2>7. revision <= NextPlan
    <3>1. revision <= old
      BY <1>1, <2>3, <2>4 DEF PlansInv
    <3>2. NextPlan \in Nat \ {0} /\ old \in 1..(NextPlan - 1)
      BY <1>1, <2>3, FreshPlan
    <3> QED
      BY <3>1, <3>2
  <2> QED
    BY <1>2, <1>3, <1>4, <2>1, <2>3, <2>5, <2>6, <2>7, StartStep DEF Opt
<1> QED
  BY <1>5, <1>6 DEF ToolInvoked
-----------------------------------------------------------------------------
(* The theorems. *)

LEMMA TkInitInv ==
  ASSUME TkInit
  PROVE  TkIInv
<1> USE DEF TkInit, Init
<1>1. TypeOK
  BY ReservationAssumption DEF TypeOK, Opt
<1>2. Made = {} /\ \A t \in Tasks : PlansOf(t) = {} /\ ReceiptsOf(t) = {} /\ Automatic(t) = {}
  BY DEF Made, PlansOf, ReceiptsOf, Automatic
<1>3. \A t \in Tasks : Stranded(t) = {} /\ Envelopes(t) = {} /\ Uncounted(t) = 0
  BY DEF Stranded, Envelopes, Of, Uncounted, Makes
<1>4. TkTypeOK
  <2>1. 0 \in 0..MaxCalls /\ 0 \in 0..MaxFaults
    BY TaskAssumption
  <2> QED
    BY <2>1 DEF TkTypeOK, Opt
<1>5. PlansInv
  <2>1. 1..0 = {} /\ 0 \in 0..MaxPlans
    BY TaskAssumption
  <2> QED
    BY <1>2, <2>1 DEF PlansInv
<1>6. RowsInv /\ ReceiptsInv /\ MakesInv /\ ReadsInv /\ DecisionInv
  BY DEF RowsInv, ReceiptsInv, MakesInv, ReadsInv, DecisionInv, Makes, Reads
<1>7. StrandedInv
  <2>1. Cardinality({}) = 0
    BY FS_EmptySet
  <2>2. \A t \in Tasks : Cardinality(Stranded(t)) = 0
    BY <1>3, <2>1
  <2>3. faults = 0
    OBVIOUS
  <2> QED
    BY <2>2, <2>3 DEF StrandedInv
<1>8. ReplansInv
  <2>0. Cardinality({}) = 0
    BY FS_EmptySet
  <2>1. \A t \in Tasks : replans[t].count = 0
    OBVIOUS
  <2>2. \A t \in Tasks : Cardinality(Automatic(t)) = 0 /\ Uncounted(t) = 0
    BY <1>2, <1>3, <2>0
  <2>3. faults = 0 /\ MaxReplans \in Nat
    BY TaskAssumption
  <2> HIDE DEF TkInit
  <2> QED
    BY <2>1, <2>2, <2>3 DEF ReplansInv
<1>9. FinishedHoldsNothing /\ NoUsageDropped
  BY <1>2, <1>3 DEF FinishedHoldsNothing, NoUsageDropped
<1> QED
  BY <1>1, <1>4, <1>5, <1>6, <1>7, <1>8, <1>9 DEF TkIInv

LEMMA TkNextInv ==
  ASSUME TkIInv, [TkNext]_tkVars
  PROVE  TkIInv'
<1>1. CASE UNCHANGED tkVars
  <2>1. UNCHANGED <<now, budgets, rows, issued, floor, plans, inflight, calls, replans, receipts, config, h, faults>>
    BY <1>1 DEF tkVars, ledger, sessions
  <2>2. TypeOK' /\ Kept
    BY <2>1, SameLedger DEF TkIInv, ledger
  <2>3. MakesInv' /\ ReadsInv'
    BY <2>1 DEF TkIInv, MakesInv, ReadsInv, Makes, Reads, PlansOf, Made, ReceiptsOf, Of
  <2>4. DecisionInv'
    BY <2>1 DEF TkIInv, DecisionInv, Makes, Authorized, Committed, SettledSum, ActiveSum, Of
  <2>5. \A t \in Tasks : Uncounted(t)' = Uncounted(t)
    BY <2>1 DEF Uncounted, Makes
  <2>6. h' \in Opt(Planning \cup Reading \cup Writing) /\ (Makes <=> Makes')
    BY <2>1 DEF TkIInv, TkTypeOK, Makes
  <2> QED
    BY <2>1, <2>2, <2>3, <2>4, <2>5, <2>6, LedgerStep
<1>2. CASE Requests
  <2>1. PICK t \in Tasks :
          \/ \E p80 \in Estimates, n \in Criteria : Preflight(t, p80, n)
          \/ \E tool \in Tools, typical \in Typical, p80 \in Estimates, n \in Criteria :
               ToolInvoked(t, tool, typical, p80, n)
          \/ Finalize(t)
    BY <1>2 DEF Requests
  <2> QED
    BY <2>1, PreflightStep, ToolStep, FinalizeStep
<1>3. CASE Steps
  BY <1>3, SupersedeStep, RecordStep, ReleaseStep, BudgetStep, AdmitStep, ReserveStep, CountStep,
     StreakStep, ObserveStep, SettleStep, ReceiptStep DEF Steps
<1>4. CASE HandlerFails \/ Restart \/ TkTick
  BY <1>4, FailsStep, RestartStep, TickStep
<1> QED
  BY <1>1, <1>2, <1>3, <1>4 DEF TkNext

LEMMA TkInductive == TkSpec => []TkIInv
<1>1. TkInit => TkIInv
  BY TkInitInv
<1>2. TkIInv /\ [TkNext]_tkVars => TkIInv'
  BY TkNextInv
<1> QED
  BY <1>1, <1>2, PTL DEF TkSpec

\* Every table of the daemon and of its ledger stays well typed, whichever
\* transactions a handler got to: no draw makes a completion reserve negative, a
\* plan in flight has a row, and no receipt's window ends before it starts.
THEOREM TaskTypesHold == TkSpec => [](TypeOK /\ TkTypeOK)
<1>1. TkIInv => TypeOK /\ TkTypeOK
  BY DEF TkIInv
<1> QED
  BY <1>1, TkInductive, PTL

\* A plan that has its receipt holds no active envelope, wherever attempts to
\* finalize it died before.
THEOREM FinishedTurnHoldsNothing == TkSpec => []FinishedHoldsNothing
<1>1. TkIInv => FinishedHoldsNothing
  BY DEF TkIInv
<1> QED
  BY <1>1, TkInductive, PTL

\* Whatever chain of replans follows a plan that was denied or waits for
\* approval, no plan of the chain ever gets an envelope.
THEOREM RefusedHoldsNothing == TkSpec => []RefusedNeverHolds
<1>1. TkIInv => RefusedNeverHolds
  <2> SUFFICES ASSUME TkIInv, NEW i \in Ids, rows[i] # None
               PROVE  plans[Root(rows[i].plan)].admission \notin {"deny", "approval"}
    BY DEF RefusedNeverHolds
  <2>1. rows[i].plan \in Made
    BY RowFacts DEF TkIInv, Made
  <2>2. plans[Root(rows[i].plan)].admission = plans[rows[i].plan].admission
    BY <2>1, RootInherits DEF TkIInv
  <2> QED
    BY <2>2 DEF TkIInv, RowsInv
<1> QED
  BY <1>1, TkInductive, PTL

\* The windows of a task's receipts leave no gap between them.
THEOREM ReceiptsLeaveNoGap == TkSpec => []NoUsageDropped
<1>1. TkIInv => NoUsageDropped
  BY DEF TkIInv
<1> QED
  BY <1>1, TkInductive, PTL

\* Each handler that fails or dies costs a task at most one stranded envelope and
\* one automatic replan beyond the limit.
THEOREM FaultsAreBounded == TkSpec => []BoundedByFaults
<1>1. TkIInv => OrphansBoundedByFaults
  <2> SUFFICES ASSUME TkIInv, h = None, NEW t \in Tasks
               PROVE  Cardinality({i \in Envelopes(t) : rows[i].plan # inflight[t]}) <= faults
    BY DEF OrphansBoundedByFaults
  <2>1. Stranded(t) = {i \in Envelopes(t) : rows[i].plan # inflight[t]}
    BY DEF Stranded, Makes
  <2>2. Cardinality(Stranded(t)) <= faults
    BY DEF TkIInv, StrandedInv
  <2> QED
    BY <2>1, <2>2
<1>2. TkIInv => AutoReplansBounded
  <2> SUFFICES ASSUME TkIInv, NEW t \in Tasks PROVE Cardinality(Automatic(t)) <= MaxReplans + faults
    BY DEF AutoReplansBounded, Automatic
  <2>1. /\ Cardinality(Automatic(t)) <= replans[t].count + faults + Uncounted(t)
        /\ replans[t].count + Uncounted(t) <= MaxReplans
    BY DEF TkIInv, ReplansInv
  <2>2. replans[t].count \in Nat /\ Uncounted(t) \in Nat /\ faults \in Nat /\ MaxReplans \in Nat
    BY TaskAssumption DEF TkIInv, TkTypeOK, Uncounted
  <2>3. Cardinality(Automatic(t)) \in Nat
    <3>1. Automatic(t) \subseteq 1..MaxPlans /\ MaxPlans \in Int
      BY TaskAssumption DEF Automatic, PlansOf, Made
    <3>2. IsFiniteSet(1..MaxPlans)
      BY <3>1, FS_Interval
    <3>3. IsFiniteSet(Automatic(t))
      BY <3>1, <3>2, FS_Subset
    <3> QED
      BY <3>3, FS_CardinalityType
  <2> QED
    BY <2>1, <2>2, <2>3
<1> QED
  BY <1>1, <1>2, TkInductive, PTL DEF BoundedByFaults

\* What the policy admitted under a lifetime bound, the ledger has room for.
LEMMA AdmittedFits ==
  ASSUME TkIInv, Makes, h.op = "preflight", h.step = "reserve",
         budgets[h.task].ceiling = None, config.resource.hard <= budgets[h.task].limit
  PROVE  Authorized /\ Admits(h.task, "required", Envelope)
<1>1. h \in Planning /\ h.task \in Tasks /\ h.requested \in Nat /\ h.reserve \in Nat
  BY HandlerKinds DEF TkIInv, Planning
<1>2. /\ budgets[h.task] # None /\ Authorized
      /\ Committed(h.task) + h.requested <= config.resource.hard
  BY DEF TkIInv, DecisionInv
<1>3. budgets[h.task].limit \in Nat
  BY <1>1, <1>2 DEF TkIInv, TypeOK, Opt, Budget
<1>4. config.resource.hard \in Nat
  BY ConfigFacts DEF TkIInv
<1>5. SettledSum(h.task) \in Nat /\ ActiveSum(h.task) \in Nat
  BY <1>1, SumsAreNat DEF TkIInv
<1>6. Envelope \in Nat /\ Envelope <= h.requested
  BY <1>1 DEF Envelope, MaxOf
<1>7. GateHeadroom(h.task) = budgets[h.task].limit - SettledSum(h.task) - ActiveSum(h.task)
  BY DEF GateHeadroom
<1>8. Envelope <= GateHeadroom(h.task)
  BY <1>1, <1>2, <1>3, <1>4, <1>5, <1>6, <1>7 DEF Committed
<1> QED
  BY <1>2, <1>8 DEF Admits

\* A prompt the policy admits under a lifetime bound gets its envelope from the
\* ledger, although the decision and the reservation are two transactions.
THEOREM AdmittedGetsReserved == TkSpec => AdmittedIsReserved
<1>1. TkIInv /\ [TkNext]_tkVars =>
        [h # None /\ h.op = "preflight" /\ h.step = "reserve" /\ faults' = faults /\ h' = None
           /\ budgets[h.task].ceiling = None /\ config.resource.hard <= budgets[h.task].limit
         => \E i \in Ids : rows'[i] # None /\ rows'[i].plan = h.plan]_tkVars
  <2> SUFFICES ASSUME TkIInv, TkNext, h # None, h.op = "preflight", h.step = "reserve", faults' = faults,
                      h' = None, budgets[h.task].ceiling = None,
                      config.resource.hard <= budgets[h.task].limit
               PROVE  \E i \in Ids : rows'[i] # None /\ rows'[i].plan = h.plan
    OBVIOUS
  <2>1. ReserveEnvelope
    <3>1. ~Requests
      BY DEF Requests, Preflight, ToolInvoked, Finalize
    <3>2. ~HandlerFails /\ ~Restart
      <4>1. faults \in Nat
        BY TaskAssumption DEF TkIInv, TkTypeOK
      <4> QED
        BY <4>1 DEF HandlerFails, Restart
    <3>3. ~TkTick
      BY DEF TkTick
    <3>4. Steps
      BY <3>1, <3>2, <3>3 DEF TkNext
    <3> QED
      BY <3>4 DEF Steps, SupersedeInFlight, RecordPreflight, ReleasePrevious, SetBudget, Admit,
         CountReplan, ResetStreak, Observe, SettleEnvelope, InsertReceipt, At
  <2>2. Makes
    BY DEF Makes
  <2>3. Authorized /\ Admits(h.task, "required", Envelope)
    BY <2>2, AdmittedFits
  <2>4. PICK ttl \in TTLs : Reserve(h.task, h.plan, "required", Envelope, h.plan, ttl)
    BY <2>1, <2>3 DEF ReserveEnvelope
  <2>5. h \in Planning /\ h.task \in Tasks /\ h.plan \in Plans /\ Envelope \in Nat
    BY <2>2, HandlerKinds DEF TkIInv, Planning, Envelope, MaxOf
  <2>6. issued + 1 \in Ids /\ rows'[issued + 1] # None /\ rows'[issued + 1].plan = h.plan
    BY <2>4, <2>5, ReserveLedger, TaskAssumption DEF TkIInv, Classes, Opt
  <2> QED
    BY <2>6
<1> QED
  BY <1>1, TkInductive, PTL DEF TkSpec, AdmittedIsReserved

-----------------------------------------------------------------------------
(***************************************************************************)
(* The lanes of ExecutionOwner, for any number of lanes, turns, contexts   *)
(* and tool calls.                                                         *)
(*                                                                         *)
(* LaneNeverWedged is about the current turn alone; a prompt makes another *)
(* turn the current one, so the invariant has to know of all turns: which  *)
(* of them is open (OneTurnOpen), what it has in flight (OpenTurnFlies),   *)
(* what each got a receipt for (ReceiptsFit), and that a turn nobody began *)
(* has no plan (PlansAreOfTurns).  AppliedOnce rests on the replays that   *)
(* remember each effect (AppliedIsRemembered).                             *)
(***************************************************************************)
\* A lane nobody owns has no turn; any other has its current turn, and every
\* turn besides was superseded.
OneTurnOpen ==
  \A l \in Lanes :
    IF lanes[l] = NoRow THEN \A t \in Turns : turns[l][t] = NoRow
    ELSE /\ TurnState(l, lanes[l].current) \in {"active", "finalized"}
         /\ \A t \in Turns \ {lanes[l].current} : TurnState(l, t) \in {NoRow, "superseded"}

\* An active turn has its one plan in flight, a finalized one none.
OpenTurnFlies ==
  \A l \in Lanes : lanes[l] # NoRow =>
    LET current == lanes[l].current IN
    /\ TurnState(l, current) = "active" =>
         \E q \in flying : /\ FlyingIn(l) = {q}
                           /\ turnPlans[q].turn = current /\ q \notin turnReceipts
    /\ TurnState(l, current) = "finalized" => FlyingIn(l) = {}

PlansAreOfTurns == \A q \in DOMAIN turnPlans : turns[turnPlans[q].lane][turnPlans[q].turn] # NoRow

LaneReceipts(l, t) == {q \in turnReceipts : turnPlans[q] = [lane |-> l, turn |-> t]}

\* The receipts of a turn: none while it runs, one after its stop.
ReceiptsFit ==
  \A l \in Lanes, t \in Turns :
    /\ TurnState(l, t) = "active" => LaneReceipts(l, t) = {}
    /\ TurnState(l, t) = "finalized" => \E q \in turnReceipts : LaneReceipts(l, t) = {q}
    /\ TurnState(l, t) = "superseded" /\ <<l, t>> \notin named
         => \E q \in turnReceipts : LaneReceipts(l, t) = {q}

AppliedIsRemembered ==
  /\ applied \in [Effects -> Nat]
  /\ \A e \in Effects : applied[e] = 0 \/ (applied[e] = 1 /\ Replayed(e.lane, e.op, e.ref))

XoInv == /\ XoTypeOK
         /\ OneTurnOpen
         /\ OpenTurnFlies
         /\ PlansAreOfTurns
         /\ ReceiptsFit
         /\ AppliedIsRemembered
-----------------------------------------------------------------------------
\* What appending a plan does to the table of plans.
LEMMA AppendFacts ==
  ASSUME NEW S, NEW s \in Seq(S), NEW e \in S
  PROVE  /\ Append(s, e) \in Seq(S)
         /\ Len(s) \in Nat
         /\ DOMAIN s = 1..Len(s)
         /\ DOMAIN Append(s, e) = 1..(Len(s) + 1)
         /\ \A q \in DOMAIN s : Append(s, e)[q] = s[q]
         /\ Append(s, e)[Len(s) + 1] = e
         /\ Len(s) + 1 \notin DOMAIN s
  OBVIOUS

\* A replan or a prompt leaves its lane with exactly the new plan in flight, and
\* the other lanes with what they had.
LEMMA PlanInFlightFacts ==
  ASSUME XoTypeOK, NEW p \in Position, PlanInFlight(p)
  PROVE  /\ turnPlans' \in Seq([lane: Lanes, turn: Turns])
         /\ flying' \cup turnReceipts \subseteq DOMAIN turnPlans'
         /\ \A q \in DOMAIN turnPlans : q \in DOMAIN turnPlans' /\ turnPlans'[q] = turnPlans[q]
         /\ \A q \in DOMAIN turnPlans' : q \in DOMAIN turnPlans \/ turnPlans'[q] = [lane |-> p.lane, turn |-> p.turn]
         /\ \E q \in flying' : /\ FlyingIn(p.lane)' = {q}
                               /\ turnPlans'[q].turn = p.turn
                               /\ q \notin turnReceipts
         /\ \A l \in Lanes : l # p.lane => FlyingIn(l)' = FlyingIn(l)
<1> DEFINE new == [lane |-> p.lane, turn |-> p.turn]
           n == Len(turnPlans) + 1
<1>1. new \in [lane: Lanes, turn: Turns] /\ turnPlans \in Seq([lane: Lanes, turn: Turns])
      /\ flying \cup turnReceipts \subseteq DOMAIN turnPlans
  BY DEF Position, XoTypeOK
<1>2. turnPlans' = Append(turnPlans, new) /\ flying' = (flying \ FlyingIn(p.lane)) \cup {n}
  BY DEF PlanInFlight
<1>3. /\ turnPlans' \in Seq([lane: Lanes, turn: Turns])
      /\ DOMAIN turnPlans' = 1..n /\ DOMAIN turnPlans = 1..Len(turnPlans) /\ Len(turnPlans) \in Nat
      /\ \A q \in DOMAIN turnPlans : turnPlans'[q] = turnPlans[q]
      /\ turnPlans'[n] = new
      /\ n \notin DOMAIN turnPlans
  BY <1>1, <1>2, AppendFacts
<1>4. \A q \in DOMAIN turnPlans' : q \in DOMAIN turnPlans \/ q = n
  BY <1>3
<1>5. DOMAIN turnPlans \subseteq DOMAIN turnPlans' /\ n \in DOMAIN turnPlans'
  BY <1>3
<1>a. n \in flying'
  BY <1>2
<1>b. turnPlans'[n].lane = p.lane /\ turnPlans'[n].turn = p.turn
  BY <1>3
<1>c. n \notin turnReceipts
  BY <1>1, <1>3
<1> HIDE DEF n
<1>6. FlyingIn(p.lane)' = {n}
  <2>1. ASSUME NEW q \in flying', turnPlans'[q].lane = p.lane, q # n PROVE FALSE
    <3>1. q \in flying /\ q \notin FlyingIn(p.lane)
      BY <1>2, <2>1
    <3>2. turnPlans[q].lane = p.lane
      BY <1>1, <1>3, <3>1, <2>1
    <3> QED
      BY <3>1, <3>2 DEF FlyingIn
  <2> QED
    BY <1>a, <1>b, <2>1 DEF FlyingIn
<1>7. \A l \in Lanes : l # p.lane => FlyingIn(l)' = FlyingIn(l)
  <2> SUFFICES ASSUME NEW l \in Lanes, l # p.lane PROVE FlyingIn(l)' = FlyingIn(l)
    OBVIOUS
  <2>1. ASSUME NEW q \in flying', turnPlans'[q].lane = l PROVE q \in flying /\ turnPlans[q].lane = l
    <3>1. q # n
      BY <1>3, <2>1
    <3> QED
      BY <1>1, <1>2, <1>3, <2>1, <3>1
  <2>2. ASSUME NEW q \in flying, turnPlans[q].lane = l PROVE q \in flying' /\ turnPlans'[q].lane = l
    <3>1. q \notin FlyingIn(p.lane)
      BY <2>2 DEF FlyingIn
    <3> QED
      BY <1>1, <1>2, <1>3, <2>2, <3>1
  <2> QED
    BY <2>1, <2>2 DEF FlyingIn
<1> QED
  BY <1>1, <1>2, <1>3, <1>4, <1>5, <1>6, <1>7, <1>a, <1>b, <1>c

\* An effect is applied only when no replay remembers it, and is remembered then.
LEMMA RecordReplayFacts ==
  ASSUME AppliedIsRemembered, NEW l \in Lanes, NEW op, NEW ref, NEW p, p.lane = l,
         [lane |-> l, op |-> op, ref |-> ref] \in Effects,
         ~Replayed(l, op, ref), RecordReplay(p, op, ref)
  PROVE  AppliedIsRemembered'
<1> DEFINE x == [lane |-> l, op |-> op, ref |-> ref]
           r == [lane |-> l, op |-> op, ref |-> ref, turn |-> p.turn]
<1>1. applied[x] = 0
  BY DEF AppliedIsRemembered
<1>2. applied' = [applied EXCEPT ![x] = @ + 1] /\ replays' = replays \cup {r}
  BY DEF RecordReplay
<1>3. applied' \in [Effects -> Nat] /\ applied'[x] = 1
      /\ \A e \in Effects : e # x => applied'[e] = applied[e]
  BY <1>1, <1>2 DEF AppliedIsRemembered
<1>4. Replayed(l, op, ref)'
  <2>1. r \in replays' /\ r.lane = l /\ r.op = op /\ r.ref = ref
    BY <1>2
  <2> QED
    BY <2>1 DEF Replayed
<1>5. \A a, b, c : Replayed(a, b, c) => Replayed(a, b, c)'
  BY <1>2 DEF Replayed
<1>6. x.lane = l /\ x.op = op /\ x.ref = ref
  OBVIOUS
<1> HIDE DEF x
<1> QED
  BY <1>3, <1>4, <1>5, <1>6 DEF AppliedIsRemembered

\* Binding a new turn opens it, supersedes the one that was open and touches
\* nothing else.
LEMMA BindFacts ==
  ASSUME NoRowIsApart, XoTypeOK, OneTurnOpen, NEW p \in Position,
         TurnState(p.lane, p.turn) = NoRow, Bind(p)
  PROVE  /\ lanes' \in [Lanes -> LaneRow \cup {NoRow}]
         /\ turns' \in [Lanes -> [Turns -> TurnRow \cup {NoRow}]]
         /\ lanes'[p.lane] # NoRow /\ lanes'[p.lane].current = p.turn
         /\ \A l \in Lanes : l # p.lane => lanes'[l] = lanes[l] /\ turns'[l] = turns[l]
         /\ TurnState(p.lane, p.turn)' = "active"
         /\ \A t \in Turns : t # p.turn =>
              TurnState(p.lane, t)' = IF lanes[p.lane] # NoRow /\ t = lanes[p.lane].current
                                      THEN "superseded" ELSE TurnState(p.lane, t)
<1> DEFINE l == p.lane
           row == [context |-> p.context, state |-> "active"]
           old == IF lanes[l] = NoRow THEN [t \in Turns |-> NoRow]
                  ELSE [turns[l] EXCEPT ![lanes[l].current].state = "superseded"]
           lane == [current |-> p.turn,
                    context |-> IF lanes[l] = NoRow THEN p.context ELSE lanes[l].context]
<1>1. l \in Lanes /\ p.turn \in Turns /\ p.context \in Contexts
  BY DEF Position
<1>2. lanes' = [lanes EXCEPT ![l] = lane] /\ turns' = [turns EXCEPT ![l] = [old EXCEPT ![p.turn] = row]]
  BY DEF Bind
<1>3. row \in TurnRow /\ row.state = "active"
  BY <1>1 DEF TurnRow
<1>4. lane \in LaneRow /\ lane.current = p.turn
  BY <1>1 DEF XoTypeOK, LaneRow
<1>5. turns[l] \in [Turns -> TurnRow \cup {NoRow}]
  BY <1>1 DEF XoTypeOK
<1>6. CASE lanes[l] = NoRow
  <2>1. old = turns[l]
    BY <1>1, <1>5, <1>6 DEF OneTurnOpen
  <2> HIDE DEF row, lane, old
  <2> QED
    BY <1>1, <1>2, <1>3, <1>4, <1>5, <1>6, <2>1 DEF XoTypeOK, TurnState, NoRowIsApart
<1>7. CASE lanes[l] # NoRow
  <2> DEFINE c == lanes[l].current
             end == [turns[l][c] EXCEPT !.state = "superseded"]
  <2>1. c \in Turns
    BY <1>1, <1>7 DEF XoTypeOK, LaneRow
  <2>2. TurnState(l, c) \in {"active", "finalized"}
    BY <1>1, <1>7 DEF OneTurnOpen
  <2>3. turns[l][c] \in TurnRow
    BY <1>5, <2>1, <2>2 DEF TurnState, NoRowIsApart
  <2>4. end \in TurnRow /\ end.state = "superseded"
    BY <2>3 DEF TurnRow
  <2>5. old = [turns[l] EXCEPT ![c] = end]
    BY <1>7
  <2>6. c # p.turn
    BY <2>2 DEF NoRowIsApart
  <2> HIDE DEF row, lane, old, end, c
  <2>7. /\ lanes' \in [Lanes -> LaneRow \cup {NoRow}]
        /\ lanes'[l] = lane
        /\ \A k \in Lanes : k # l => lanes'[k] = lanes[k] /\ turns'[k] = turns[k]
    BY <1>1, <1>2, <1>4 DEF XoTypeOK
  <2>8. /\ old \in [Turns -> TurnRow \cup {NoRow}]
        /\ old[c] = end
        /\ \A t \in Turns : t # c => old[t] = turns[l][t]
    BY <1>5, <2>1, <2>4, <2>5
  <2>9. /\ turns' \in [Lanes -> [Turns -> TurnRow \cup {NoRow}]]
        /\ turns'[l][p.turn] = row
        /\ \A t \in Turns : t # p.turn => turns'[l][t] = old[t]
    BY <1>1, <1>2, <1>3, <2>8 DEF XoTypeOK
  <2>10. row # NoRow /\ end # NoRow /\ lane # NoRow
    BY <1>3, <1>4, <2>4 DEF NoRowIsApart
  <2>11. TurnState(l, p.turn)' = "active"
    BY <1>3, <2>9, <2>10 DEF TurnState
  <2>12. ASSUME NEW t \in Turns, t # p.turn
         PROVE  TurnState(l, t)' = IF t = c THEN "superseded" ELSE TurnState(l, t)
    BY <2>4, <2>8, <2>9, <2>10, <2>12 DEF TurnState
  <2> QED
    BY <1>4, <1>7, <2>7, <2>9, <2>10, <2>11, <2>12 DEF c
<1> QED
  BY <1>6, <1>7
-----------------------------------------------------------------------------
LEMMA InitHolds ==
  ASSUME NoRowIsApart, XoInit
  PROVE  XoInv
<1>1. XoTypeOK
  BY DEF XoInit, XoTypeOK
<1>2. \A l \in Lanes, t \in Turns : TurnState(l, t) = NoRow
  BY DEF XoInit, TurnState
<1>3. OneTurnOpen /\ OpenTurnFlies /\ PlansAreOfTurns
  BY DEF XoInit, OneTurnOpen, OpenTurnFlies, PlansAreOfTurns
<1>4. ReceiptsFit
  BY <1>2 DEF ReceiptsFit, NoRowIsApart
<1>5. AppliedIsRemembered
  BY DEF XoInit, AppliedIsRemembered
<1> QED
  BY <1>1, <1>3, <1>4, <1>5 DEF XoInv

\* Receipts of plans that were there before are receipts of the same turns.
LEMMA SameReceipts ==
  ASSUME XoTypeOK, turnReceipts' = turnReceipts, \A q \in DOMAIN turnPlans : turnPlans'[q] = turnPlans[q],
         NEW l, NEW t
  PROVE  LaneReceipts(l, t)' = LaneReceipts(l, t)
<1>1. \A q \in turnReceipts : turnPlans'[q] = turnPlans[q]
  BY DEF XoTypeOK
<1> QED
  BY <1>1 DEF LaneReceipts

LEMMA ElementType ==
  ASSUME NEW S, NEW s \in Seq(S), NEW q \in DOMAIN s
  PROVE  s[q] \in S
  OBVIOUS

\* A plan is of a lane and a turn.
LEMMA PlanType ==
  ASSUME XoTypeOK, NEW q \in DOMAIN turnPlans
  PROVE  turnPlans[q] \in [lane: Lanes, turn: Turns]
<1>1. turnPlans \in Seq([lane: Lanes, turn: Turns])
  BY DEF XoTypeOK
<1> QED
  BY <1>1, ElementType

LEMMA PromptHolds ==
  ASSUME NoRowIsApart, XoInv, NEW p \in Position, NEW s \in Turns \cup {NoRow}, Prompt(p, s)
  PROVE  XoInv'
<1> DEFINE l == p.lane
<1>1. l \in Lanes /\ p.turn \in Turns
  BY DEF Position
<1>2. /\ XoTypeOK /\ OneTurnOpen /\ OpenTurnFlies /\ PlansAreOfTurns /\ ReceiptsFit
      /\ AppliedIsRemembered
  BY DEF XoInv
<1>3. /\ PlanInFlight(p) /\ Bind(p) /\ RecordReplay(p, "prompt", p.turn)
      /\ turnReceipts' = turnReceipts
      /\ TurnState(l, p.turn) = NoRow
      /\ ~Replayed(l, "prompt", p.turn)
      /\ Succeeds(l, s)
      /\ named' = named \cup {<<l, t>> : t \in {s} \ {NoRow}}
  BY DEF Prompt, Admissible
<1>4. /\ turnPlans' \in Seq([lane: Lanes, turn: Turns])
      /\ flying' \cup turnReceipts \subseteq DOMAIN turnPlans'
      /\ \A q \in DOMAIN turnPlans : q \in DOMAIN turnPlans' /\ turnPlans'[q] = turnPlans[q]
      /\ \A q \in DOMAIN turnPlans' : q \in DOMAIN turnPlans \/ turnPlans'[q] = [lane |-> l, turn |-> p.turn]
      /\ \E q \in flying' : /\ FlyingIn(l)' = {q}
                            /\ turnPlans'[q].turn = p.turn
                            /\ q \notin turnReceipts
      /\ \A k \in Lanes : k # l => FlyingIn(k)' = FlyingIn(k)
  BY <1>2, <1>3, PlanInFlightFacts
<1>5. /\ lanes' \in [Lanes -> LaneRow \cup {NoRow}]
      /\ turns' \in [Lanes -> [Turns -> TurnRow \cup {NoRow}]]
      /\ lanes'[l] # NoRow /\ lanes'[l].current = p.turn
      /\ \A k \in Lanes : k # l => lanes'[k] = lanes[k] /\ turns'[k] = turns[k]
      /\ TurnState(l, p.turn)' = "active"
      /\ \A t \in Turns : t # p.turn =>
           TurnState(l, t)' = IF lanes[l] # NoRow /\ t = lanes[l].current
                              THEN "superseded" ELSE TurnState(l, t)
  BY <1>2, <1>3, BindFacts
<1>6. \A k \in Lanes, t \in Turns : k # l => TurnState(k, t)' = TurnState(k, t)
  BY <1>5 DEF TurnState
<1>7. \A k \in Lanes, t \in Turns : LaneReceipts(k, t)' = LaneReceipts(k, t)
  BY <1>2, <1>3, <1>4, SameReceipts
<1> HIDE DEF l
<1>8. XoTypeOK'
  BY <1>3, <1>4, <1>5 DEF XoTypeOK
<1>9. OneTurnOpen'
  <2> SUFFICES ASSUME NEW k \in Lanes
               PROVE  IF lanes'[k] = NoRow THEN \A t \in Turns : turns'[k][t] = NoRow
                      ELSE /\ TurnState(k, lanes[k].current)' \in {"active", "finalized"}
                           /\ \A t \in Turns \ {lanes'[k].current} : TurnState(k, t)' \in {NoRow, "superseded"}
    BY DEF OneTurnOpen, TurnState
  <2>1. CASE k # l
    <3>1. CASE lanes[k] = NoRow
      BY <1>2, <1>5, <2>1, <3>1 DEF OneTurnOpen
    <3>2. CASE lanes[k] # NoRow
      <4>1. lanes[k].current \in Turns
        BY <1>2, <3>2 DEF XoTypeOK, LaneRow
      <4> QED
        BY <1>2, <1>5, <2>1, <3>2, <4>1 DEF OneTurnOpen, TurnState
    <3> QED
      BY <3>1, <3>2
  <2>2. CASE k = l
    <3>1. ASSUME NEW t \in Turns, t # p.turn PROVE TurnState(l, t)' \in {NoRow, "superseded"}
      <4>1. CASE lanes[l] = NoRow
        <5>1. TurnState(l, t)' = TurnState(l, t)
          BY <1>5, <3>1, <4>1
        <5>2. turns[l][t] = NoRow
          BY <1>1, <1>2, <4>1 DEF OneTurnOpen
        <5> QED
          BY <5>1, <5>2 DEF TurnState
      <4>2. CASE lanes[l] # NoRow
        BY <1>1, <1>2, <1>5, <3>1, <4>2 DEF OneTurnOpen
      <4> QED
        BY <4>1, <4>2
    <3>2. TurnState(l, lanes[l].current)' = "active"
      BY <1>5 DEF TurnState
    <3> QED
      BY <1>5, <2>2, <3>1, <3>2
  <2> QED
    BY <2>1, <2>2
<1>10. OpenTurnFlies'
  <2> SUFFICES ASSUME NEW k \in Lanes, lanes'[k] # NoRow
               PROVE  /\ TurnState(k, lanes[k].current)' = "active" =>
                           \E q \in flying' : /\ FlyingIn(k)' = {q}
                                              /\ turnPlans'[q].turn = lanes'[k].current
                                              /\ q \notin turnReceipts'
                      /\ TurnState(k, lanes[k].current)' = "finalized" => FlyingIn(k)' = {}
    BY DEF OpenTurnFlies, TurnState
  <2>1. CASE k # l
    <3>1. lanes[k] # NoRow /\ lanes'[k] = lanes[k] /\ lanes[k].current \in Turns
      BY <1>2, <1>5, <2>1 DEF XoTypeOK, LaneRow
    <3>2. TurnState(k, lanes[k].current)' = TurnState(k, lanes[k].current)
      BY <1>5, <2>1, <3>1 DEF TurnState
    <3>3. FlyingIn(k)' = FlyingIn(k)
      BY <1>4, <2>1
    <3>4. CASE TurnState(k, lanes[k].current) = "active"
      <4>1. PICK q \in flying : FlyingIn(k) = {q} /\ turnPlans[q].turn = lanes[k].current /\ q \notin turnReceipts
        BY <1>2, <3>1, <3>4 DEF OpenTurnFlies
      <4>2. q \in DOMAIN turnPlans /\ turnPlans'[q] = turnPlans[q]
        BY <1>2, <1>4 DEF XoTypeOK
      <4>3. q \in flying'
        BY <3>3, <4>1 DEF FlyingIn
      <4> QED
        BY <1>3, <3>1, <3>2, <3>3, <3>4, <4>1, <4>2, <4>3
    <3>5. CASE TurnState(k, lanes[k].current) # "active"
      BY <1>2, <3>1, <3>2, <3>3, <3>5 DEF OpenTurnFlies
    <3> QED
      BY <3>4, <3>5
  <2>2. CASE k = l
    <3>1. TurnState(l, lanes[l].current)' = "active"
      BY <1>5 DEF TurnState
    <3> QED
      BY <1>3, <1>4, <1>5, <2>2, <3>1
  <2> QED
    BY <2>1, <2>2
<1>11. PlansAreOfTurns'
  <2>1. \A k \in Lanes, t \in Turns : turns[k][t] # NoRow => turns'[k][t] # NoRow
    <3> SUFFICES ASSUME NEW k \in Lanes, NEW t \in Turns, turns[k][t] # NoRow
                 PROVE  turns'[k][t] # NoRow
      OBVIOUS
    <3>1. CASE k # l
      BY <1>5, <3>1
    <3>2. CASE k = l
      <4>1. turns[l][t] \in TurnRow
        BY <1>1, <1>2, <3>2 DEF XoTypeOK
      <4>2. TurnState(l, t) # NoRow
        BY <4>1 DEF TurnState, TurnRow, NoRowIsApart
      <4>3. TurnState(l, t)' # NoRow
        BY <1>3, <1>5, <4>2 DEF NoRowIsApart
      <4> QED
        BY <3>2, <4>3 DEF TurnState
    <3> QED
      BY <3>1, <3>2
  <2>2. turns'[l][p.turn] # NoRow
    BY <1>5 DEF TurnState, NoRowIsApart
  <2> SUFFICES ASSUME NEW q \in DOMAIN turnPlans'
               PROVE  turns'[turnPlans'[q].lane][turnPlans'[q].turn] # NoRow
    BY DEF PlansAreOfTurns
  <2>3. CASE q \in DOMAIN turnPlans
    <3>1. turnPlans[q] \in [lane: Lanes, turn: Turns]
      BY <1>2, <2>3, PlanType
    <3> QED
      BY <1>2, <1>4, <2>1, <2>3, <3>1 DEF PlansAreOfTurns
  <2>4. CASE q \notin DOMAIN turnPlans
    BY <1>4, <2>2, <2>4
  <2> QED
    BY <2>3, <2>4
<1>12. ReceiptsFit'
  <2> SUFFICES ASSUME NEW k \in Lanes, NEW t \in Turns
               PROVE  /\ TurnState(k, t)' = "active" => LaneReceipts(k, t) = {}
                      /\ TurnState(k, t)' = "finalized" => \E q \in turnReceipts : LaneReceipts(k, t) = {q}
                      /\ TurnState(k, t)' = "superseded" /\ <<k, t>> \notin named'
                           => \E q \in turnReceipts : LaneReceipts(k, t) = {q}
    BY <1>3, <1>7 DEF ReceiptsFit
  <2>1. named \subseteq named'
    BY <1>3
  <2>2. CASE TurnState(k, t)' = TurnState(k, t)
    BY <1>2, <2>1, <2>2 DEF ReceiptsFit
  <2>3. CASE k = l /\ t = p.turn
    <3>1. turns[l][p.turn] = NoRow
      BY <1>1, <1>2, <1>3 DEF TurnState, XoTypeOK, TurnRow, NoRowIsApart
    <3>2. ASSUME NEW q \in turnReceipts PROVE turnPlans[q] # [lane |-> l, turn |-> p.turn]
      <4>1. q \in DOMAIN turnPlans
        BY <1>2 DEF XoTypeOK
      <4> QED
        BY <1>2, <3>1, <4>1 DEF PlansAreOfTurns
    <3>3. LaneReceipts(k, t) = {}
      BY <2>3, <3>2 DEF LaneReceipts
    <3>4. TurnState(k, t)' = "active"
      BY <1>5, <2>3
    <3> QED
      BY <3>3, <3>4
  <2>4. CASE k = l /\ t # p.turn /\ lanes[l] # NoRow /\ t = lanes[l].current
    <3>1. TurnState(l, t)' = "superseded"
      BY <1>5, <2>4
    <3>2. CASE s = t
      <4>1. <<l, t>> \in named'
        BY <1>3, <3>2 DEF NoRowIsApart
      <4> QED
        BY <2>4, <3>1, <4>1
    <3>3. CASE s # t
      <4>1. TurnState(l, t) = "finalized"
        BY <1>3, <2>4, <3>3 DEF Succeeds
      <4> QED
        BY <1>2, <2>4, <3>1, <4>1 DEF ReceiptsFit
    <3> QED
      BY <3>2, <3>3
  <2> QED
    BY <1>5, <1>6, <2>2, <2>3, <2>4
<1>13. AppliedIsRemembered'
  <2>1. [lane |-> l, op |-> "prompt", ref |-> p.turn] \in Effects
    BY <1>1 DEF Effects
  <2> QED
    BY <1>1, <1>2, <1>3, <2>1, RecordReplayFacts DEF l
<1> QED
  BY <1>8, <1>9, <1>10, <1>11, <1>12, <1>13 DEF XoInv

\* A step that leaves the tables of lanes, turns and plans leaves what is said of them.
LEMMA SameTables ==
  ASSUME XoTypeOK, OneTurnOpen, OpenTurnFlies, PlansAreOfTurns, ReceiptsFit,
         UNCHANGED <<lanes, turns, turnPlans, flying, turnReceipts, named>>
  PROVE  XoTypeOK' /\ OneTurnOpen' /\ OpenTurnFlies' /\ PlansAreOfTurns' /\ ReceiptsFit'
<1>1. XoTypeOK' /\ PlansAreOfTurns'
  BY DEF XoTypeOK, PlansAreOfTurns
<1>2. OneTurnOpen'
  BY DEF OneTurnOpen, TurnState
<1>3. OpenTurnFlies'
  BY DEF OpenTurnFlies, TurnState, FlyingIn
<1>4. ReceiptsFit'
  BY DEF ReceiptsFit, LaneReceipts, TurnState
<1> QED
  BY <1>1, <1>2, <1>3, <1>4

LEMMA ToolHolds ==
  ASSUME NoRowIsApart, XoInv, NEW p \in Position, NEW call \in Calls, NEW replan \in BOOLEAN,
         Tool(p, call, replan)
  PROVE  XoInv'
<1> DEFINE l == p.lane
<1>1. l \in Lanes /\ p.turn \in Turns
  BY DEF Position
<1>2. /\ XoTypeOK /\ OneTurnOpen /\ OpenTurnFlies /\ PlansAreOfTurns /\ ReceiptsFit
      /\ AppliedIsRemembered
  BY DEF XoInv
<1>3. /\ RecordReplay(p, "tool", call) /\ ~Replayed(l, "tool", call)
      /\ lanes' = lanes /\ turns' = turns /\ turnReceipts' = turnReceipts /\ named' = named
      /\ TurnState(l, p.turn) = "active" /\ lanes[l].current = p.turn
      /\ \/ PlanInFlight(p)
         \/ turnPlans' = turnPlans /\ flying' = flying
  BY DEF Tool, Admissible, Found
<1>4. AppliedIsRemembered'
  <2>1. [lane |-> l, op |-> "tool", ref |-> call] \in Effects
    BY <1>1 DEF Effects
  <2> QED
    BY <1>1, <1>2, <1>3, <2>1, RecordReplayFacts DEF l
<1>5. \A k, t : TurnState(k, t)' = TurnState(k, t)
  BY <1>3 DEF TurnState
<1>6. OneTurnOpen'
  BY <1>2, <1>3, <1>5 DEF OneTurnOpen
<1>7. CASE turnPlans' = turnPlans /\ flying' = flying
  BY <1>2, <1>3, <1>4, <1>7, SameTables DEF XoInv
<1>8. CASE PlanInFlight(p)
  <2>1. /\ turnPlans' \in Seq([lane: Lanes, turn: Turns])
        /\ flying' \cup turnReceipts \subseteq DOMAIN turnPlans'
        /\ \A q \in DOMAIN turnPlans : q \in DOMAIN turnPlans' /\ turnPlans'[q] = turnPlans[q]
        /\ \A q \in DOMAIN turnPlans' : q \in DOMAIN turnPlans \/ turnPlans'[q] = [lane |-> l, turn |-> p.turn]
        /\ \E q \in flying' : /\ FlyingIn(l)' = {q}
                              /\ turnPlans'[q].turn = p.turn
                              /\ q \notin turnReceipts
        /\ \A k \in Lanes : k # l => FlyingIn(k)' = FlyingIn(k)
    BY <1>2, <1>8, PlanInFlightFacts
  <2>2. \A k \in Lanes, t \in Turns : LaneReceipts(k, t)' = LaneReceipts(k, t)
    BY <1>2, <1>3, <2>1, SameReceipts
  <2> HIDE DEF l
  <2>3. XoTypeOK'
    BY <1>2, <1>3, <2>1 DEF XoTypeOK
  <2>4. ReceiptsFit'
    BY <1>2, <1>3, <1>5, <2>2 DEF ReceiptsFit
  <2>5. PlansAreOfTurns'
    <3>1. turns[l][p.turn] # NoRow
      BY <1>3 DEF TurnState, NoRowIsApart
    <3> SUFFICES ASSUME NEW q \in DOMAIN turnPlans'
                 PROVE  turns[turnPlans'[q].lane][turnPlans'[q].turn] # NoRow
      BY <1>3 DEF PlansAreOfTurns
    <3>2. CASE q \in DOMAIN turnPlans
      BY <1>2, <2>1, <3>2 DEF PlansAreOfTurns
    <3>3. CASE q \notin DOMAIN turnPlans
      BY <2>1, <3>1, <3>3
    <3> QED
      BY <3>2, <3>3
  <2>6. OpenTurnFlies'
    <3> SUFFICES ASSUME NEW k \in Lanes, lanes[k] # NoRow
                 PROVE  /\ TurnState(k, lanes[k].current) = "active" =>
                             \E q \in flying' : /\ FlyingIn(k)' = {q}
                                                /\ turnPlans'[q].turn = lanes[k].current
                                                /\ q \notin turnReceipts
                        /\ TurnState(k, lanes[k].current) = "finalized" => FlyingIn(k)' = {}
      BY <1>3, <1>5 DEF OpenTurnFlies
    <3>1. CASE k = l
      BY <1>3, <2>1, <3>1
    <3>2. CASE k # l
      <4>1. FlyingIn(k)' = FlyingIn(k)
        BY <2>1, <3>2
      <4>2. CASE TurnState(k, lanes[k].current) = "active"
        <5>1. PICK q \in flying : FlyingIn(k) = {q} /\ turnPlans[q].turn = lanes[k].current /\ q \notin turnReceipts
          BY <1>2, <4>2 DEF OpenTurnFlies
        <5>2. turnPlans'[q] = turnPlans[q]
          BY <1>2, <2>1 DEF XoTypeOK
        <5>3. q \in flying'
          BY <4>1, <5>1 DEF FlyingIn
        <5> QED
          BY <4>1, <4>2, <5>1, <5>2, <5>3
      <4>3. CASE TurnState(k, lanes[k].current) # "active"
        BY <1>2, <4>1, <4>3 DEF OpenTurnFlies
      <4> QED
        BY <4>2, <4>3
    <3> QED
      BY <3>1, <3>2
  <2> QED
    BY <1>4, <1>6, <2>3, <2>4, <2>5, <2>6 DEF XoInv
<1> QED
  BY <1>3, <1>7, <1>8

LEMMA StopHolds ==
  ASSUME NoRowIsApart, XoInv, NEW p \in Position, Stop(p)
  PROVE  XoInv'
<1> DEFINE l == p.lane
           end == [turns[l][p.turn] EXCEPT !.state = "finalized"]
<1>1. l \in Lanes /\ p.turn \in Turns
  BY DEF Position
<1>2. /\ XoTypeOK /\ OneTurnOpen /\ OpenTurnFlies /\ PlansAreOfTurns /\ ReceiptsFit
      /\ AppliedIsRemembered
  BY DEF XoInv
<1>3. /\ RecordReplay(p, "stop", p.turn) /\ ~Replayed(l, "stop", p.turn)
      /\ lanes' = lanes /\ turnPlans' = turnPlans /\ named' = named
      /\ TurnState(l, p.turn) = "active" /\ lanes[l].current = p.turn
      /\ turnReceipts' = turnReceipts \cup FlyingIn(l)
      /\ flying' = flying \ FlyingIn(l)
      /\ turns' = [turns EXCEPT ![l][p.turn].state = "finalized"]
  BY DEF Stop, FinalizeTurn, Admissible, Found
<1>4. AppliedIsRemembered'
  <2>1. [lane |-> l, op |-> "stop", ref |-> p.turn] \in Effects
    BY <1>1 DEF Effects
  <2> QED
    BY <1>1, <1>2, <1>3, <2>1, RecordReplayFacts DEF l
<1>5. turns[l][p.turn] \in TurnRow /\ turns[l] \in [Turns -> TurnRow \cup {NoRow}]
  BY <1>1, <1>2, <1>3 DEF XoTypeOK, TurnState, NoRowIsApart
<1>6. end \in TurnRow /\ end.state = "finalized" /\ end # NoRow
  BY <1>5 DEF TurnRow, NoRowIsApart
<1>7. turns' = [turns EXCEPT ![l] = [turns[l] EXCEPT ![p.turn] = end]]
  BY <1>3
<1> HIDE DEF end
<1>8. /\ turns' \in [Lanes -> [Turns -> TurnRow \cup {NoRow}]]
      /\ turns'[l][p.turn] = end
      /\ \A k \in Lanes : k # l => turns'[k] = turns[k]
      /\ \A t \in Turns : t # p.turn => turns'[l][t] = turns[l][t]
  BY <1>1, <1>2, <1>5, <1>6, <1>7 DEF XoTypeOK
<1>9. /\ TurnState(l, p.turn)' = "finalized"
      /\ \A k \in Lanes, t \in Turns : k # l \/ t # p.turn => TurnState(k, t)' = TurnState(k, t)
  BY <1>6, <1>8 DEF TurnState
<1>10. lanes[l] # NoRow
  BY <1>1, <1>2, <1>3 DEF OneTurnOpen, TurnState, NoRowIsApart
<1>11. PICK q0 \in flying : FlyingIn(l) = {q0} /\ turnPlans[q0].turn = p.turn /\ q0 \notin turnReceipts
  BY <1>1, <1>2, <1>3, <1>10 DEF OpenTurnFlies
<1>12. q0 \in DOMAIN turnPlans /\ turnPlans[q0] = [lane |-> l, turn |-> p.turn]
  <2>1. q0 \in DOMAIN turnPlans
    BY <1>2 DEF XoTypeOK
  <2>2. turnPlans[q0] \in [lane: Lanes, turn: Turns]
    BY <1>2, <2>1, PlanType
  <2>3. turnPlans[q0].lane = l
    BY <1>11 DEF FlyingIn
  <2> QED
    BY <1>11, <2>1, <2>2, <2>3
<1> HIDE DEF l
<1>13. FlyingIn(l)' = {} /\ \A k \in Lanes : k # l => FlyingIn(k)' = FlyingIn(k)
  BY <1>3 DEF FlyingIn
<1>14. \A k \in Lanes : lanes[k] # NoRow => lanes[k].current \in Turns
  BY <1>2 DEF XoTypeOK, LaneRow
<1>15. XoTypeOK'
  BY <1>2, <1>3, <1>8, <1>11, <1>12 DEF XoTypeOK
<1>16. OneTurnOpen'
  <2>1. \A k \in Lanes : lanes[k] # NoRow => TurnState(k, lanes[k].current)' \in {"active", "finalized"}
    <3> SUFFICES ASSUME NEW k \in Lanes, lanes[k] # NoRow
                 PROVE  TurnState(k, lanes[k].current)' \in {"active", "finalized"}
      OBVIOUS
    <3>1. TurnState(k, lanes[k].current) \in {"active", "finalized"}
      BY <1>2 DEF OneTurnOpen
    <3> QED
      BY <1>3, <1>6, <1>8, <1>14, <3>1 DEF TurnState
  <2> QED
    BY <1>2, <1>3, <1>8, <1>9, <1>10, <1>14, <2>1 DEF OneTurnOpen
<1>17. OpenTurnFlies'
  <2> SUFFICES ASSUME NEW k \in Lanes, lanes[k] # NoRow
               PROVE  /\ TurnState(k, lanes[k].current)' = "active" =>
                           \E q \in flying' : /\ FlyingIn(k)' = {q}
                                              /\ turnPlans[q].turn = lanes[k].current
                                              /\ q \notin turnReceipts'
                      /\ TurnState(k, lanes[k].current)' = "finalized" => FlyingIn(k)' = {}
    BY <1>3 DEF OpenTurnFlies
  <2>1. CASE k = l
    BY <1>3, <1>6, <1>8, <1>13, <2>1 DEF TurnState
  <2>2. CASE k # l
    <3>1. TurnState(k, lanes[k].current)' = TurnState(k, lanes[k].current)
      BY <1>3, <1>8, <1>14, <2>2 DEF TurnState
    <3>2. FlyingIn(k)' = FlyingIn(k)
      BY <1>13, <2>2
    <3>3. CASE TurnState(k, lanes[k].current) = "active"
      <4>1. PICK q \in flying : FlyingIn(k) = {q} /\ turnPlans[q].turn = lanes[k].current /\ q \notin turnReceipts
        BY <1>2, <3>3 DEF OpenTurnFlies
      <4>2. q \in flying'
        BY <3>2, <4>1 DEF FlyingIn
      <4>3. q # q0
        <5>1. turnPlans[q].lane = k
          BY <4>1 DEF FlyingIn
        <5> QED
          BY <1>12, <2>2, <5>1
      <4>4. q \notin turnReceipts'
        BY <1>3, <1>11, <4>1, <4>3
      <4> QED
        BY <3>1, <3>2, <3>3, <4>1, <4>2, <4>4
    <3>4. CASE TurnState(k, lanes[k].current) # "active"
      BY <1>2, <3>1, <3>2, <3>4 DEF OpenTurnFlies
    <3> QED
      BY <3>3, <3>4
  <2> QED
    BY <2>1, <2>2
<1>18. PlansAreOfTurns'
  <2> SUFFICES ASSUME NEW q \in DOMAIN turnPlans PROVE turns'[turnPlans[q].lane][turnPlans[q].turn] # NoRow
    BY <1>3 DEF PlansAreOfTurns
  <2>1. turnPlans[q].lane \in Lanes /\ turnPlans[q].turn \in Turns
    BY <1>2, PlanType
  <2>2. turns[turnPlans[q].lane][turnPlans[q].turn] # NoRow
    BY <1>2 DEF PlansAreOfTurns
  <2> QED
    BY <1>6, <1>8, <2>1, <2>2
<1>19. ReceiptsFit'
  <2>1. ASSUME NEW k \in Lanes, NEW t \in Turns, k # l \/ t # p.turn
        PROVE  LaneReceipts(k, t)' = LaneReceipts(k, t)
    <3>1. turnPlans[q0] # [lane |-> k, turn |-> t]
      BY <1>12, <2>1
    <3> QED
      BY <1>3, <1>11, <3>1 DEF LaneReceipts
  <2>2. LaneReceipts(l, p.turn)' = {q0}
    <3>1. LaneReceipts(l, p.turn) = {}
      BY <1>1, <1>2, <1>3 DEF ReceiptsFit
    <3> QED
      BY <1>3, <1>11, <1>12, <3>1 DEF LaneReceipts
  <2>3. turnReceipts \subseteq turnReceipts' /\ q0 \in turnReceipts'
    BY <1>3, <1>11
  <2> SUFFICES ASSUME NEW k \in Lanes, NEW t \in Turns
               PROVE  /\ TurnState(k, t)' = "active" => LaneReceipts(k, t)' = {}
                      /\ TurnState(k, t)' = "finalized" => \E q \in turnReceipts' : LaneReceipts(k, t)' = {q}
                      /\ TurnState(k, t)' = "superseded" /\ <<k, t>> \notin named'
                           => \E q \in turnReceipts' : LaneReceipts(k, t)' = {q}
    BY DEF ReceiptsFit
  <2>4. CASE k = l /\ t = p.turn
    BY <1>9, <2>2, <2>3, <2>4
  <2>5. CASE k # l \/ t # p.turn
    <3>1. TurnState(k, t)' = TurnState(k, t) /\ LaneReceipts(k, t)' = LaneReceipts(k, t)
      BY <1>9, <2>1, <2>5
    <3> QED
      BY <1>2, <1>3, <2>3, <3>1 DEF ReceiptsFit
  <2> QED
    BY <2>4, <2>5
<1> QED
  BY <1>4, <1>15, <1>16, <1>17, <1>18, <1>19 DEF XoInv

LEMMA InvImpliesProperties ==
  ASSUME NoRowIsApart, XoInv
  PROVE  RequestsCountOnce /\ LaneNeverWedged
<1>1. /\ XoTypeOK /\ OneTurnOpen /\ OpenTurnFlies /\ ReceiptsFit /\ AppliedIsRemembered
  BY DEF XoInv
<1>2. AppliedOnce
  BY <1>1 DEF AppliedOnce, AppliedIsRemembered
<1>3. ReplacedTurnAccounted
  <2> SUFFICES ASSUME NEW l \in Lanes, NEW t \in Turns, TurnState(l, t) = "superseded",
                      <<l, t>> \notin named
               PROVE  Cardinality(LaneReceipts(l, t)) = 1
    BY DEF ReplacedTurnAccounted, LaneReceipts
  <2>1. PICK q \in turnReceipts : LaneReceipts(l, t) = {q}
    BY <1>1 DEF ReceiptsFit
  <2> QED
    BY <2>1, FS_Singleton
<1>4. LaneNeverWedged
  <2> SUFFICES ASSUME NEW l \in Lanes, lanes[l] # NoRow
               PROVE  \/ /\ TurnState(l, lanes[l].current) = "active"
                         /\ Cardinality(FlyingIn(l)) = 1
                         /\ \A q \in FlyingIn(l) : turnPlans[q].turn = lanes[l].current /\ q \notin turnReceipts
                      \/ TurnState(l, lanes[l].current) = "finalized" /\ FlyingIn(l) = {}
    BY DEF LaneNeverWedged
  <2>1. TurnState(l, lanes[l].current) \in {"active", "finalized"}
    BY <1>1 DEF OneTurnOpen
  <2>2. CASE TurnState(l, lanes[l].current) = "active"
    <3>1. PICK q \in flying : FlyingIn(l) = {q} /\ turnPlans[q].turn = lanes[l].current /\ q \notin turnReceipts
      BY <1>1, <2>2 DEF OpenTurnFlies
    <3>2. Cardinality({q}) = 1
      BY FS_Singleton
    <3> QED
      BY <2>2, <3>1, <3>2
  <2>3. CASE TurnState(l, lanes[l].current) = "finalized"
    BY <1>1, <2>3 DEF OpenTurnFlies
  <2> QED
    BY <2>1, <2>2, <2>3
<1> QED
  BY <1>2, <1>3, <1>4 DEF RequestsCountOnce
-----------------------------------------------------------------------------
LEMMA XoInvariance == XoSpec => []XoInv
<1>1. XoInit => XoInv
  BY InitHolds, OwnerAssumption
<1>2. XoInv /\ [XoNext]_xoVars => XoInv'
  <2> SUFFICES ASSUME XoInv, [XoNext]_xoVars PROVE XoInv'
    OBVIOUS
  <2>1. CASE XoNext
    <3>1. PICK p \in Position :
            \/ \E s \in Turns \cup {NoRow} : Prompt(p, s)
            \/ \E c \in Calls, replan \in BOOLEAN : Tool(p, c, replan)
            \/ Stop(p)
      BY <2>1 DEF XoNext
    <3> QED
      BY <3>1, PromptHolds, ToolHolds, StopHolds, OwnerAssumption
  <2>2. CASE UNCHANGED xoVars
    <3>1. AppliedIsRemembered'
      BY <2>2 DEF xoVars, XoInv, AppliedIsRemembered, Replayed
    <3> QED
      BY <2>2, <3>1, SameTables DEF xoVars, XoInv
  <2> QED
    BY <2>1, <2>2
<1> QED
  BY <1>1, <1>2, PTL DEF XoSpec

\* For any number of lanes, turns and calls, and whatever order they are served
\* in: a prompt, a tool call and a stop take effect at most once in their lane, and
\* a turn that another replaced got its one receipt or was replaced by name.
THEOREM EveryRequestCountsOnce == XoSpec => []RequestsCountOnce
<1>1. XoInv => RequestsCountOnce
  BY InvImpliesProperties, OwnerAssumption
<1> QED
  BY <1>1, XoInvariance, PTL

\* For any number of lanes, turns and calls: handle never leaves a lane that could
\* neither stop its current turn nor begin the next.
THEOREM NoLaneIsWedged == XoSpec => []LaneNeverWedged
<1>1. XoInv => LaneNeverWedged
  BY InvImpliesProperties, OwnerAssumption
<1> QED
  BY <1>1, XoInvariance, PTL
-----------------------------------------------------------------------------
(* The account tree.  What each row adds to a sum, in any state of the two   *)
(* tables: what it holds of an account; the room it takes in its task's      *)
(* budget, which is more than it holds when it drew more than that from the  *)
(* reserve; what its task counts for it; what it has drawn; and what it      *)
(* holds of a turn.                                                          *)

HeldAt(R, L, a, i) == IF R[i] # None /\ L[i].account = a THEN HeldOf(R[i]) ELSE 0
RoomAt(R, t, i) ==
  IF R[i] # None /\ R[i].task = t THEN MaxOf(HeldOf(R[i]), TrueDraw(R[i])) ELSE 0
CountAt(R, t, i) ==
  IF R[i] # None /\ R[i].task = t
  THEN IF R[i].state = "active" THEN R[i].amount ELSE IF R[i].state = "settled" THEN R[i].settled ELSE 0
  ELSE 0
DrawAt(R, t, i) == IF R[i] # None /\ R[i].task = t THEN TrueDraw(R[i]) ELSE 0
TurnAt(R, L, t, i) ==
  IF R[i] # None /\ L[i].account = t /\ R[i].state = "active" /\ L[i].grants = None
  THEN R[i].amount ELSE 0

Held(R, L, a) == Sum([i \in Ids |-> HeldAt(R, L, a, i)])
Room(R, t) == Sum([i \in Ids |-> RoomAt(R, t, i)])
Count(R, t) == Sum([i \in Ids |-> CountAt(R, t, i)])
Draws(R, t) == Sum([i \in Ids |-> DrawAt(R, t, i)])
TurnHeld(R, L, t) == Sum([i \in Ids |-> TurnAt(R, L, t, i)])

\* The laws of a task's budget.  The room its rows take fits beside the reserve,
\* and is no more than what a grant counts: draws larger than their reservations
\* come from overruns, and are no larger than these.
Laws(t) ==
  budgets[t] # None =>
    /\ budgets[t].ceiling = None /\ Direct(t) =>
         /\ budgets[t].reserve + Room(rows, t) <= budgets[t].limit
         /\ Room(rows, t) <= Count(rows, t)
    /\ budgets[t].ceiling # None => TurnHeld(rows, lease, t) <= budgets[t].ceiling
    /\ budgets[t].reserve + Draws(rows, t) = floor[t]

\* A row's lease: only a funding lease is taken from a child, and it belongs to no
\* plan.
LeaseOk(i) ==
  rows[i] # None =>
    /\ lease[i] \in Lease
    /\ rows[i].late => rows[i].state = "settled"
    /\ lease[i].account \in Tasks => rows[i].task = lease[i].account
    /\ lease[i].account \in Children => lease[i].grants # None /\ rows[i].drawn = 0
    /\ lease[i].grants # None => rows[i].plan = None

\* An account has its parent's task, and the task its budget.
AccountOk(c) ==
  accounts[c] # None =>
    /\ Exists(ParentOf[c]) /\ accounts[c].task = TaskOf(ParentOf[c])
    /\ budgets[accounts[c].task] # None

TreeTypeOK ==
  /\ TypeOK
  /\ \A i \in Ids : i > issued => rows[i] = None
  /\ \A i \in Ids : LeaseOk(i)
  /\ DOMAIN lease = Ids
  /\ accounts \in [Children -> Opt(Account)]
  /\ \A c \in Children : AccountOk(c)
  /\ hard \in [Tasks -> Nat]
  /\ \A t \in Tasks : budgets[t] # None => hard[t] <= budgets[t].limit

\* While no draw is larger than its reservation, what the task's account holds fits
\* beside the reserve, whatever the accounts below it hand out.
Backed(t) ==
  budgets[t] # None /\ budgets[t].ceiling = None /\ NoOverdraw(t) =>
    budgets[t].reserve + Held(rows, lease, t) <= budgets[t].limit

\* What funds an account is a lease that grants it its capacity.
FundingOk(c) ==
  accounts[c] # None =>
    /\ accounts[c].capacity = None <=> accounts[c].funding = None
    /\ accounts[c].funding # None =>
         LET f == accounts[c].funding IN
         /\ rows[f] # None /\ lease[f].grants = c
         /\ rows[f].amount = accounts[c].capacity

\* A funding lease that lapsed closed its account; a lease granted under another one is
\* from the account that one grants, and does not outlive it.
GrantOk(i) ==
  /\ rows[i] = None => under[i] = None
  /\ rows[i] # None /\ lease[i].grants # None =>
       /\ accounts[lease[i].grants] # None
       /\ Lapsed(rows[i]) => accounts[lease[i].grants].state = "expired"
  /\ rows[i] # None /\ under[i] # None =>
       LET f == under[i] IN
       /\ f \in Ids /\ rows[f] # None /\ lease[f].grants # None
       /\ lease[i].account = lease[f].grants
       /\ rows[i].expiresAt <= rows[f].expiresAt

\* What is held under a funding lease, as a sum over accounts is taken.
Basis(U) == [i \in Ids |-> [account |-> U[i]]]
Covers(f) == rows[f] # None => Held(rows, Basis(under), f) <= rows[f].amount

FundingInv ==
  /\ DOMAIN under = Ids
  /\ \A c \in Children : FundingOk(c)
  /\ \A i \in Ids : GrantOk(i) /\ Covers(i)
  /\ LapseTogether

TreeInv ==
  /\ TreeTypeOK
  /\ \A t \in Tasks : Laws(t) /\ Backed(t)
  /\ FundingInv

-----------------------------------------------------------------------------
(* Sums over the table. *)

LEMMA TableSumLe ==
  ASSUME NEW f, NEW g, \A i \in Ids : f[i] \in Int /\ g[i] \in Int /\ f[i] <= g[i]
  PROVE  Sum(f) <= Sum(g)
BY SumMonotone, ReservationAssumption DEF Sum, Ids

LEMMA TableSumPlus ==
  ASSUME NEW f, NEW g, NEW e,
         \A i \in Ids : f[i] \in Int /\ g[i] \in Int /\ e[i] = f[i] + g[i]
  PROVE  Sum(e) = Sum(f) + Sum(g)
BY SumPlus, ReservationAssumption DEF Sum, Ids

LEMMA TableSumInt ==
  ASSUME NEW f, \A i \in Ids : f[i] \in Int
  PROVE  Sum(f) \in Int
BY SumInt, ReservationAssumption DEF Sum, Ids

LEMMA TableSumSingle ==
  ASSUME NEW f, NEW k \in Ids, f[k] \in Int, \A i \in Ids : i # k => f[i] = 0
  PROVE  Sum(f) = f[k]
BY SumSingle, ReservationAssumption DEF Sum, Ids

LEMMA TableSumZero ==
  ASSUME NEW f, \A i \in Ids : f[i] = 0
  PROVE  Sum(f) = 0
BY SumZero, ReservationAssumption DEF Sum, Ids

\* Only the k-th summand differs.
LEMMA TableSumMoves ==
  ASSUME NEW f, NEW g, NEW k \in Ids, \A i \in Ids : f[i] \in Int /\ g[i] \in Int,
         \A i \in Ids : i # k => g[i] = f[i]
  PROVE  Sum(g) = Sum(f) + g[k] - f[k]
<1> DEFINE d == [i \in Ids |-> IF i = k THEN g[k] - f[k] ELSE 0]
<1>1. /\ \A i \in Ids : d[i] \in Int /\ g[i] = f[i] + d[i] /\ (i # k => d[i] = 0)
      /\ d[k] = g[k] - f[k]
  OBVIOUS
<1> HIDE DEF d
<1>2. Sum(d) = d[k]
  BY <1>1, TableSumSingle
<1>3. Sum(g) = Sum(f) + Sum(d)
  BY <1>1, TableSumPlus
<1>4. Sum(f) \in Int /\ Sum(g) \in Int /\ f[k] \in Int /\ g[k] \in Int
  BY TableSumInt
<1> QED
  BY <1>1, <1>2, <1>3, <1>4

RowsTyped(R) ==
  /\ R \in [Ids -> Opt(Row)]
  /\ \A i \in Ids : R[i] # None /\ R[i].state = "settled" => R[i].settled # None

\* What a row adds to any of the sums is a natural.
LEMMA PartsNat ==
  ASSUME NEW R, RowsTyped(R), NEW L, NEW a, NEW i \in Ids
  PROVE  /\ HeldAt(R, L, a, i) \in Nat /\ RoomAt(R, a, i) \in Nat /\ CountAt(R, a, i) \in Nat
         /\ DrawAt(R, a, i) \in Nat /\ TurnAt(R, L, a, i) \in Nat
<1>1. R[i] # None =>
        /\ R[i].amount \in Nat /\ R[i].drawn \in Nat /\ R[i].late \in BOOLEAN
        /\ R[i].state \in {"active", "settled", "released", "expired"}
        /\ R[i].state = "settled" => R[i].settled \in Nat
  BY DEF RowsTyped, Opt, Row
<1>2. R[i] # None => HeldOf(R[i]) \in Nat
  BY <1>1 DEF HeldOf, MinOf
<1>3. R[i] # None => TrueDraw(R[i]) \in Nat
  BY <1>1 DEF TrueDraw, OutstandingDraw, MaxOf
<1> QED
  BY <1>1, <1>2, <1>3 DEF HeldAt, RoomAt, CountAt, DrawAt, TurnAt, MaxOf

LEMMA TotalsNat ==
  ASSUME NEW R, RowsTyped(R), NEW L, NEW a
  PROVE  /\ Room(R, a) \in Nat /\ Count(R, a) \in Nat /\ Draws(R, a) \in Nat
         /\ TurnHeld(R, L, a) \in Nat /\ Held(R, L, a) \in Nat
<1> DEFINE f1 == [i \in Ids |-> RoomAt(R, a, i)]
           f2 == [i \in Ids |-> DrawAt(R, a, i)]
           f3 == [i \in Ids |-> TurnAt(R, L, a, i)]
           f4 == [i \in Ids |-> HeldAt(R, L, a, i)]
           f5 == [i \in Ids |-> CountAt(R, a, i)]
<1>1. \A i \in Ids : /\ f1[i] \in Nat /\ f2[i] \in Nat /\ f3[i] \in Nat /\ f4[i] \in Nat
                     /\ f5[i] \in Nat
  BY PartsNat
<1> HIDE DEF f1, f2, f3, f4, f5
<1>2. Sum(f1) \in Nat /\ Sum(f2) \in Nat /\ Sum(f3) \in Nat /\ Sum(f4) \in Nat /\ Sum(f5) \in Nat
  BY <1>1, TableSum
<1> QED
  BY <1>2 DEF f1, f2, f3, f4, f5, Room, Count, Draws, TurnHeld, Held

\* Each row gives back g[i] of its room and of what it has drawn, and its room does
\* not grow against what is counted for it.
LEMMA GivenBack ==
  ASSUME NEW R, RowsTyped(R), NEW Q, RowsTyped(Q), NEW L, NEW M, NEW t, NEW g,
         \A i \in Ids : /\ g[i] \in Nat
                        /\ RoomAt(Q, t, i) + g[i] <= RoomAt(R, t, i)
                        /\ RoomAt(Q, t, i) + CountAt(R, t, i) <= RoomAt(R, t, i) + CountAt(Q, t, i)
                        /\ DrawAt(Q, t, i) + g[i] = DrawAt(R, t, i)
                        /\ TurnAt(Q, M, t, i) <= TurnAt(R, L, t, i)
  PROVE  /\ Room(Q, t) + Sum(g) <= Room(R, t)
         /\ Room(Q, t) + Count(R, t) <= Room(R, t) + Count(Q, t)
         /\ Draws(Q, t) + Sum(g) = Draws(R, t)
         /\ TurnHeld(Q, M, t) <= TurnHeld(R, L, t)
<1> DEFINE h1 == [i \in Ids |-> RoomAt(R, t, i)]
           h2 == [i \in Ids |-> RoomAt(Q, t, i)]
           h3 == [i \in Ids |-> h2[i] + g[i]]
           c1 == [i \in Ids |-> CountAt(R, t, i)]
           c2 == [i \in Ids |-> CountAt(Q, t, i)]
           e1 == [i \in Ids |-> h2[i] + c1[i]]
           e2 == [i \in Ids |-> h1[i] + c2[i]]
           d1 == [i \in Ids |-> DrawAt(R, t, i)]
           d2 == [i \in Ids |-> DrawAt(Q, t, i)]
           u1 == [i \in Ids |-> TurnAt(R, L, t, i)]
           u2 == [i \in Ids |-> TurnAt(Q, M, t, i)]
<1>1. \A i \in Ids :
        /\ RoomAt(R, t, i) \in Nat /\ CountAt(R, t, i) \in Nat
        /\ DrawAt(R, t, i) \in Nat /\ TurnAt(R, L, t, i) \in Nat
        /\ RoomAt(Q, t, i) \in Nat /\ CountAt(Q, t, i) \in Nat
        /\ DrawAt(Q, t, i) \in Nat /\ TurnAt(Q, M, t, i) \in Nat
  BY PartsNat
<1>2. \A i \in Ids : /\ h1[i] \in Int /\ h2[i] \in Int /\ g[i] \in Int
                     /\ h3[i] = h2[i] + g[i] /\ h3[i] <= h1[i] /\ h3[i] \in Int
  BY <1>1
<1>3. \A i \in Ids : d2[i] \in Int /\ g[i] \in Int /\ d1[i] = d2[i] + g[i]
  BY <1>1
<1>4. \A i \in Ids : u2[i] \in Int /\ u1[i] \in Int /\ u2[i] <= u1[i]
  BY <1>1
<1>5. \A i \in Ids : /\ c1[i] \in Int /\ c2[i] \in Int
                     /\ e1[i] = h2[i] + c1[i] /\ e2[i] = h1[i] + c2[i]
                     /\ e1[i] \in Int /\ e2[i] \in Int /\ e1[i] <= e2[i]
  BY <1>1
<1> HIDE DEF h1, h2, h3, c1, c2, e1, e2, d1, d2, u1, u2
<1>6. Sum(h3) = Sum(h2) + Sum(g) /\ Sum(h3) <= Sum(h1)
  BY <1>2, TableSumPlus, TableSumLe
<1>7. Sum(d1) = Sum(d2) + Sum(g)
  BY <1>3, TableSumPlus
<1>8. Sum(u2) <= Sum(u1)
  BY <1>4, TableSumLe
<1>9. Sum(e1) = Sum(h2) + Sum(c1) /\ Sum(e2) = Sum(h1) + Sum(c2) /\ Sum(e1) <= Sum(e2)
  BY <1>2, <1>5, TableSumPlus, TableSumLe
<1> QED
  BY <1>6, <1>7, <1>8, <1>9 DEF h1, h2, c1, c2, d1, d2, u1, u2, Room, Count, Draws, TurnHeld

\* One row is written.
LEMMA OneRowMoves ==
  ASSUME NEW R, RowsTyped(R), NEW Q, RowsTyped(Q), NEW L, NEW M, NEW a, NEW k \in Ids,
         \A i \in Ids : i # k => Q[i] = R[i] /\ M[i] = L[i]
  PROVE  /\ Room(Q, a) = Room(R, a) + RoomAt(Q, a, k) - RoomAt(R, a, k)
         /\ Count(Q, a) = Count(R, a) + CountAt(Q, a, k) - CountAt(R, a, k)
         /\ Draws(Q, a) = Draws(R, a) + DrawAt(Q, a, k) - DrawAt(R, a, k)
         /\ TurnHeld(Q, M, a) = TurnHeld(R, L, a) + TurnAt(Q, M, a, k) - TurnAt(R, L, a, k)
         /\ Held(Q, M, a) = Held(R, L, a) + HeldAt(Q, M, a, k) - HeldAt(R, L, a, k)
<1> DEFINE h1 == [i \in Ids |-> RoomAt(R, a, i)]
           h2 == [i \in Ids |-> RoomAt(Q, a, i)]
           c1 == [i \in Ids |-> CountAt(R, a, i)]
           c2 == [i \in Ids |-> CountAt(Q, a, i)]
           d1 == [i \in Ids |-> DrawAt(R, a, i)]
           d2 == [i \in Ids |-> DrawAt(Q, a, i)]
           u1 == [i \in Ids |-> TurnAt(R, L, a, i)]
           u2 == [i \in Ids |-> TurnAt(Q, M, a, i)]
           l1 == [i \in Ids |-> HeldAt(R, L, a, i)]
           l2 == [i \in Ids |-> HeldAt(Q, M, a, i)]
<1>1. \A i \in Ids : i # k => /\ h2[i] = h1[i] /\ c2[i] = c1[i] /\ d2[i] = d1[i]
                             /\ u2[i] = u1[i] /\ l2[i] = l1[i]
  BY DEF RoomAt, CountAt, DrawAt, TurnAt, HeldAt
<1>2. \A i \in Ids : /\ h1[i] \in Int /\ h2[i] \in Int /\ c1[i] \in Int /\ c2[i] \in Int
                     /\ d1[i] \in Int /\ d2[i] \in Int
                     /\ u1[i] \in Int /\ u2[i] \in Int /\ l1[i] \in Int /\ l2[i] \in Int
  BY PartsNat
<1>3. /\ h1[k] = RoomAt(R, a, k) /\ h2[k] = RoomAt(Q, a, k)
      /\ c1[k] = CountAt(R, a, k) /\ c2[k] = CountAt(Q, a, k)
      /\ d1[k] = DrawAt(R, a, k) /\ d2[k] = DrawAt(Q, a, k)
      /\ u1[k] = TurnAt(R, L, a, k) /\ u2[k] = TurnAt(Q, M, a, k)
      /\ l1[k] = HeldAt(R, L, a, k) /\ l2[k] = HeldAt(Q, M, a, k)
  OBVIOUS
<1> HIDE DEF h1, h2, c1, c2, d1, d2, u1, u2, l1, l2
<1>4. Sum(h2) = Sum(h1) + h2[k] - h1[k] /\ Sum(c2) = Sum(c1) + c2[k] - c1[k]
  BY <1>1, <1>2, TableSumMoves
<1>5. Sum(d2) = Sum(d1) + d2[k] - d1[k]
  BY <1>1, <1>2, TableSumMoves
<1>6. Sum(u2) = Sum(u1) + u2[k] - u1[k]
  BY <1>1, <1>2, TableSumMoves
<1>7. Sum(l2) = Sum(l1) + l2[k] - l1[k]
  BY <1>1, <1>2, TableSumMoves
<1> QED
  BY <1>3, <1>4, <1>5, <1>6, <1>7
     DEF h1, h2, c1, c2, d1, d2, u1, u2, l1, l2, Room, Count, Draws, TurnHeld, Held

-----------------------------------------------------------------------------
(* What a step does to the rows and to a task's reserve. *)

LEMMA TypedRows ==
  ASSUME TypeOK
  PROVE  RowsTyped(rows)
BY DEF TypeOK, RowsTyped

LEMMA TypedRowsNext ==
  ASSUME TypeOK'
  PROVE  RowsTyped(rows')
BY DEF TypeOK, RowsTyped

\* Row i is another state of the same reservation.
SameTerms(i) ==
  /\ rows'[i] # None
  /\ rows'[i].task = rows[i].task /\ rows'[i].plan = rows[i].plan
  /\ rows'[i].amount = rows[i].amount /\ rows'[i].drawn = rows[i].drawn
  /\ rows'[i].expiresAt = rows[i].expiresAt

\* A task's reserve grows by n, and nothing else of its budget changes.
ReserveGains(t, n) ==
  /\ budgets'[t] = None <=> budgets[t] = None
  /\ budgets[t] # None =>
       /\ budgets'[t].limit = budgets[t].limit /\ budgets'[t].ceiling = budgets[t].ceiling
       /\ budgets'[t].reserve = budgets[t].reserve + n

\* What the rows S give back to the reserve of t.
BackTo(S, t) == [i \in Ids |-> IF i \in S /\ rows[i].task = t THEN rows[i].drawn ELSE 0]

LEMMA EndedTerms ==
  ASSUME TypeOK, NEW S \in SUBSET Ids, \A i \in S : rows[i] # None,
         NEW s \in {"released", "expired"}, Ended(S, s)
  PROVE  /\ \A i \in S : SameTerms(i) /\ rows'[i].state = s /\ rows'[i].late = rows[i].late
         /\ \A i \in Ids : i \notin S => rows'[i] = rows[i]
         /\ \A t \in Tasks : ReserveGains(t, Sum(BackTo(S, t)))
         /\ now' = now /\ issued' = issued /\ floor' = floor
<1>1. \A i \in S : rows[i] \in Row
  BY DEF TypeOK, Opt
<1>2. /\ rows' = [i \in Ids |-> IF i \in S THEN [rows[i] EXCEPT !.state = s] ELSE rows[i]]
      /\ now' = now /\ issued' = issued /\ floor' = floor
  BY DEF Ended
<1>3. \A i \in S : /\ [rows[i] EXCEPT !.state = s] \in Row
                    /\ [rows[i] EXCEPT !.state = s].state = s
                    /\ [rows[i] EXCEPT !.state = s].task = rows[i].task
                    /\ [rows[i] EXCEPT !.state = s].plan = rows[i].plan
                    /\ [rows[i] EXCEPT !.state = s].amount = rows[i].amount
                    /\ [rows[i] EXCEPT !.state = s].drawn = rows[i].drawn
                    /\ [rows[i] EXCEPT !.state = s].expiresAt = rows[i].expiresAt
                    /\ [rows[i] EXCEPT !.state = s].late = rows[i].late
  BY <1>1 DEF Row
<1>4. \A i \in S : SameTerms(i) /\ rows'[i].state = s /\ rows'[i].late = rows[i].late
  BY <1>2, <1>3, RowAssumption DEF SameTerms
<1>5. ASSUME NEW t \in Tasks PROVE ReserveGains(t, Sum(BackTo(S, t)))
  <2> DEFINE n == Sum(BackTo(S, t))
  <2>1. budgets'[t] = IF budgets[t] = None THEN None ELSE [budgets[t] EXCEPT !.reserve = @ + n]
    BY DEF Ended, BackTo
  <2>2. n \in Nat
    <3> DEFINE g == BackTo(S, t)
    <3>1. \A i \in Ids : g[i] \in Nat
      BY <1>1 DEF BackTo, Row
    <3> HIDE DEF g
    <3>2. Sum(g) \in Nat
      BY <3>1, TableSum
    <3> QED
      BY <3>2 DEF g
  <2> HIDE DEF n
  <2>3. budgets[t] # None => budgets[t] \in Budget
    BY DEF TypeOK, Opt
  <2>4. budgets[t] # None =>
          /\ [budgets[t] EXCEPT !.reserve = @ + n] \in Budget
          /\ [budgets[t] EXCEPT !.reserve = @ + n].limit = budgets[t].limit
          /\ [budgets[t] EXCEPT !.reserve = @ + n].ceiling = budgets[t].ceiling
          /\ [budgets[t] EXCEPT !.reserve = @ + n].reserve = budgets[t].reserve + n
    BY <2>2, <2>3 DEF Budget
  <2>5. ReserveGains(t, n)
    BY <2>1, <2>4, RowAssumption DEF ReserveGains
  <2> QED
    BY <2>5 DEF n
<1> QED
  BY <1>2, <1>4, <1>5

\* What a settlement at value gives back.
LEMMA SettleTerms ==
  ASSUME TypeOK, NEW k \in Ids, NEW a \in Opt(Amounts), Settle(k, a)
  PROVE  \E value \in Nat :
         /\ SameTerms(k) /\ rows'[k].state = "settled" /\ rows'[k].settled = value
         /\ rows'[k].late = (rows[k].state = "expired")
         /\ rows[k] # None /\ rows[k] \in Row /\ rows[k].state \in {"active", "expired"}
         /\ \A i \in Ids : i # k => rows'[i] = rows[i]
         /\ RestoreOnSettle(rows[k], value) \in Nat
         /\ \A t \in Tasks :
              ReserveGains(t, IF rows[k].task = t THEN RestoreOnSettle(rows[k], value) ELSE 0)
         /\ now' = now /\ issued' = issued /\ floor' = floor
<1> DEFINE value == IF a = None THEN rows[k].amount ELSE a
           row == [rows[k] EXCEPT !.state = "settled", !.settled = value,
                                  !.late = (rows[k].state = "expired")]
           u == rows[k].task
           n == RestoreOnSettle(rows[k], value)
<1>1. rows[k] # None /\ rows[k] \in Row /\ rows[k].state \in {"active", "expired"}
  BY DEF TypeOK, Opt, Settle
<1>2. value \in Nat /\ u \in Tasks /\ budgets[u] # None /\ budgets[u] \in Budget
  <2>1. rows[k].amount \in Nat /\ u \in Tasks
    BY <1>1 DEF Row
  <2>2. value \in Nat
    BY <2>1, ReservationAssumption DEF Opt
  <2> QED
    BY <1>1, <2>1, <2>2 DEF TypeOK, Opt
<1>3. /\ rows' = [rows EXCEPT ![k] = row]
      /\ budgets' = [budgets EXCEPT ![u].reserve = @ + n]
      /\ now' = now /\ issued' = issued /\ floor' = floor
  BY DEF Settle
<1>4. /\ row \in Row /\ row.state = "settled" /\ row.settled = value /\ row.task = u
      /\ row.plan = rows[k].plan /\ row.amount = rows[k].amount /\ row.drawn = rows[k].drawn
      /\ row.expiresAt = rows[k].expiresAt /\ row.late = (rows[k].state = "expired")
  BY <1>1, <1>2 DEF Row, Opt
<1>5. n \in Nat
  BY <1>1, <1>2 DEF RestoreOnSettle, MinOf, MaxOf, Row
<1> HIDE DEF row, value, n
<1>6. rows'[k] = row /\ \A i \in Ids : i # k => rows'[i] = rows[i]
  BY <1>3 DEF TypeOK
<1>7. ASSUME NEW t \in Tasks
      PROVE  ReserveGains(t, IF rows[k].task = t THEN n ELSE 0)
  <2>1. CASE t = u
    <3>1. budgets'[t] = [budgets[t] EXCEPT !.reserve = @ + n]
      BY <1>2, <1>3, <2>1 DEF TypeOK
    <3>2. /\ [budgets[t] EXCEPT !.reserve = @ + n] \in Budget
          /\ [budgets[t] EXCEPT !.reserve = @ + n].limit = budgets[t].limit
          /\ [budgets[t] EXCEPT !.reserve = @ + n].ceiling = budgets[t].ceiling
          /\ [budgets[t] EXCEPT !.reserve = @ + n].reserve = budgets[t].reserve + n
      BY <1>2, <1>5, <2>1 DEF Budget
    <3> QED
      BY <1>2, <2>1, <3>1, <3>2, RowAssumption DEF ReserveGains
  <2>2. CASE t # u
    <3>1. budgets'[t] = budgets[t]
      BY <1>2, <1>3, <2>2 DEF TypeOK
    <3>2. budgets[t] # None => budgets[t].reserve \in Nat
      BY DEF TypeOK, Opt, Budget
    <3> QED
      BY <2>2, <3>1, <3>2 DEF ReserveGains
  <2> QED
    BY <2>1, <2>2
<1>8. SameTerms(k)
  BY <1>4, <1>6, RowAssumption DEF SameTerms
<1> QED
  BY <1>1, <1>2, <1>3, <1>4, <1>5, <1>6, <1>7, <1>8 DEF n

\* The laws of a budget whose rows give back what its reserve gains.
LEMMA LawsKept ==
  ASSUME TypeOK, TypeOK', NEW t \in Tasks, Laws(t), NEW n \in Nat, ReserveGains(t, n),
         floor'[t] = floor[t], Direct(t)' => Direct(t),
         Room(rows', t) + n <= Room(rows, t),
         Room(rows', t) + Count(rows, t) <= Room(rows, t) + Count(rows', t),
         Draws(rows', t) + n = Draws(rows, t),
         TurnHeld(rows', lease', t) <= TurnHeld(rows, lease, t)
  PROVE  Laws(t)'
<1> SUFFICES ASSUME budgets'[t] # None
             PROVE  /\ budgets'[t].ceiling = None /\ Direct(t)' =>
                         /\ budgets'[t].reserve + Room(rows', t) <= budgets'[t].limit
                         /\ Room(rows', t) <= Count(rows', t)
                    /\ budgets'[t].ceiling # None => TurnHeld(rows', lease', t) <= budgets'[t].ceiling
                    /\ budgets'[t].reserve + Draws(rows', t) = floor'[t]
  BY DEF Laws
<1>1. /\ Room(rows, t) \in Nat /\ Count(rows, t) \in Nat
      /\ Draws(rows, t) \in Nat /\ TurnHeld(rows, lease, t) \in Nat
      /\ Room(rows', t) \in Nat /\ Count(rows', t) \in Nat
      /\ Draws(rows', t) \in Nat /\ TurnHeld(rows', lease', t) \in Nat
  BY TotalsNat, TypedRows, TypedRowsNext
<1>2. budgets[t] # None
  BY DEF ReserveGains
<1>3. /\ budgets[t].limit \in Nat /\ budgets[t].reserve \in Nat
      /\ budgets[t].ceiling # None => budgets[t].ceiling \in Nat
  BY <1>2 DEF TypeOK, Opt, Budget
<1>4. /\ budgets'[t].limit = budgets[t].limit /\ budgets'[t].ceiling = budgets[t].ceiling
      /\ budgets'[t].reserve = budgets[t].reserve + n
  BY <1>2 DEF ReserveGains
<1>5. floor[t] \in Int
  BY DEF TypeOK
<1>6. /\ budgets[t].ceiling = None /\ Direct(t) =>
           /\ budgets[t].reserve + Room(rows, t) <= budgets[t].limit
           /\ Room(rows, t) <= Count(rows, t)
      /\ budgets[t].ceiling # None => TurnHeld(rows, lease, t) <= budgets[t].ceiling
      /\ budgets[t].reserve + Draws(rows, t) = floor[t]
  BY <1>2 DEF Laws
<1> HIDE DEF Direct
<1> QED
  BY <1>1, <1>3, <1>4, <1>5, <1>6

\* The laws need only the rows, leases and floors.
LEMMA SameLaws ==
  ASSUME TypeOK, TypeOK', NEW t \in Tasks, Laws(t), ReserveGains(t, 0),
         rows' = rows, lease' = lease, floor'[t] = floor[t]
  PROVE  Laws(t)'
<1>1. /\ Room(rows', t) = Room(rows, t) /\ Count(rows', t) = Count(rows, t)
      /\ Draws(rows', t) = Draws(rows, t)
      /\ TurnHeld(rows', lease', t) = TurnHeld(rows, lease, t)
  OBVIOUS
<1>2. /\ Room(rows, t) \in Nat /\ Count(rows, t) \in Nat /\ Draws(rows, t) \in Nat
      /\ TurnHeld(rows, lease, t) \in Nat
  BY TotalsNat, TypedRows
<1>3. Direct(t)' => Direct(t)
  BY DEF Direct
<1> QED
  BY <1>1, <1>2, <1>3, LawsKept

-----------------------------------------------------------------------------
(* Rows that end: released, superseded, lapsed, settled. *)

\* What a row is, in a state of the invariant.
LEMMA LeaseFacts ==
  ASSUME TreeTypeOK, NEW i \in Ids, rows[i] # None
  PROVE  /\ rows[i] \in Row /\ rows[i].amount \in Nat /\ rows[i].drawn \in Nat
         /\ rows[i].late \in BOOLEAN
         /\ rows[i].late => rows[i].state = "settled"
         /\ rows[i].task \in Tasks
         /\ \A t \in Tasks : lease[i].account = t => rows[i].task = t
<1>1. rows[i] \in Row
  BY DEF TreeTypeOK, TypeOK, Opt
<1>2. LeaseOk(i)
  BY DEF TreeTypeOK
<1>3. /\ rows[i].amount \in Nat /\ rows[i].drawn \in Nat /\ rows[i].late \in BOOLEAN
      /\ rows[i].task \in Tasks
  BY <1>1 DEF Row
<1>4. lease[i].account \in Tasks \cup Children
  BY <1>2 DEF LeaseOk, Lease, Accounts
<1> QED
  BY <1>1, <1>2, <1>3, <1>4 DEF LeaseOk

\* The rows keep their leases.
LeasesKept ==
  /\ \A i \in Ids : rows'[i] # None => rows[i] # None
  /\ \A i \in Ids : rows[i] # None => SameTerms(i)
  /\ \A i \in Ids : rows'[i] # None => (rows'[i].late => rows'[i].state = "settled")
  /\ lease' = lease /\ issued' = issued

LEMMA DirectKept ==
  ASSUME LeasesKept, NEW t \in Tasks
  PROVE  Direct(t)' => Direct(t)
BY DEF LeasesKept, SameTerms, Direct

\* The tables' types, but for the accounts.
LedgerTypeOK ==
  /\ TypeOK
  /\ \A i \in Ids : i > issued => rows[i] = None
  /\ \A i \in Ids : LeaseOk(i)
  /\ DOMAIN lease = Ids
  /\ hard \in [Tasks -> Nat]
  /\ \A t \in Tasks : budgets[t] # None => hard[t] <= budgets[t].limit

LEMMA LeasesKeptTypes ==
  ASSUME TreeTypeOK, TypeOK', LeasesKept, hard' = hard,
         \A t \in Tasks : budgets'[t] # None =>
           budgets[t] # None /\ budgets'[t].limit = budgets[t].limit
  PROVE  LedgerTypeOK'
<1>1. \A i \in Ids : LeaseOk(i)
  BY DEF TreeTypeOK
<1>2. \A i \in Ids : LeaseOk(i)'
  <2> SUFFICES ASSUME NEW i \in Ids PROVE LeaseOk(i)'
    OBVIOUS
  <2>1. LeaseOk(i)
    BY <1>1
  <2> QED
    BY <2>1 DEF LeaseOk, LeasesKept, SameTerms
<1>3. \A i \in Ids : i > issued' => rows'[i] = None
  BY DEF TreeTypeOK, LeasesKept
<1>4. /\ DOMAIN lease' = Ids /\ hard' \in [Tasks -> Nat]
      /\ \A t \in Tasks : budgets'[t] # None => hard'[t] <= budgets'[t].limit
  BY DEF TreeTypeOK, LeasesKept
<1> QED
  BY <1>2, <1>3, <1>4 DEF LedgerTypeOK

\* The active rows S end in state s: their draws go back, and the laws hold.
LEMMA EndedLaws ==
  ASSUME TreeTypeOK, \A t \in Tasks : Laws(t),
         NEW S \in SUBSET Ids, \A i \in S : rows[i] # None /\ rows[i].state = "active",
         NEW s \in {"released", "expired"}, Ended(S, s), UNCHANGED <<lease, hard>>
  PROVE  LedgerTypeOK' /\ \A t \in Tasks : Laws(t)'
<1>0. TypeOK /\ RowsTyped(rows)
  BY TypedRows DEF TreeTypeOK
<1>1. TypeOK'
  BY <1>0, EndedLedger
<1>2. /\ \A i \in S : SameTerms(i) /\ rows'[i].state = s /\ rows'[i].late = rows[i].late
      /\ \A i \in Ids : i \notin S => rows'[i] = rows[i]
      /\ \A t \in Tasks : ReserveGains(t, Sum(BackTo(S, t)))
      /\ issued' = issued /\ floor' = floor
  BY <1>0, EndedTerms
<1>3. \A i \in Ids : rows[i] # None => LeaseOk(i) /\ (rows[i].late => rows[i].state = "settled")
  BY DEF TreeTypeOK, LeaseOk
<1>4. LeasesKept
  <2>1. \A i \in S : rows[i] # None /\ ~ rows'[i].late
    BY <1>2, <1>3, LeaseFacts
  <2> QED
    BY <1>2, <1>3, <2>1 DEF LeasesKept, SameTerms
<1>5. LedgerTypeOK'
  BY <1>1, <1>2, <1>4, LeasesKeptTypes DEF ReserveGains
<1>6. ASSUME NEW t \in Tasks PROVE Laws(t)'
  <2> DEFINE g == BackTo(S, t)
  <2>1. \A i \in Ids : g[i] = IF i \in S /\ rows[i].task = t THEN rows[i].drawn ELSE 0
    BY DEF BackTo
  <2> HIDE DEF g
  <2>2. ASSUME NEW i \in Ids
        PROVE  /\ g[i] \in Nat
               /\ RoomAt(rows', t, i) + g[i] <= RoomAt(rows, t, i)
               /\ RoomAt(rows', t, i) + CountAt(rows, t, i) <= RoomAt(rows, t, i) + CountAt(rows', t, i)
               /\ DrawAt(rows', t, i) + g[i] = DrawAt(rows, t, i)
               /\ TurnAt(rows', lease', t, i) <= TurnAt(rows, lease, t, i)
    <3>0. /\ RoomAt(rows, t, i) \in Nat /\ CountAt(rows, t, i) \in Nat
          /\ DrawAt(rows, t, i) \in Nat /\ TurnAt(rows, lease, t, i) \in Nat
      BY <1>0, PartsNat
    <3>1. CASE i \in S
      <4>1. /\ rows[i] # None /\ rows[i].state = "active" /\ SameTerms(i)
            /\ rows'[i].state = s /\ rows'[i].late = rows[i].late
        BY <1>2, <3>1
      <4>2. /\ rows[i].amount \in Nat /\ rows[i].drawn \in Nat
            /\ rows[i].late = FALSE /\ rows'[i].late = FALSE
        BY <4>1, LeaseFacts
      <4>3. HeldOf(rows'[i]) = 0 /\ TrueDraw(rows'[i]) = 0
        BY <4>1, <4>2 DEF HeldOf, TrueDraw, OutstandingDraw
      <4>4. /\ RoomAt(rows', t, i) = 0 /\ CountAt(rows', t, i) = 0 /\ DrawAt(rows', t, i) = 0
            /\ TurnAt(rows', lease', t, i) = 0
        BY <4>1, <4>3 DEF RoomAt, CountAt, DrawAt, TurnAt, MaxOf
      <4>5. HeldOf(rows[i]) = rows[i].amount /\ TrueDraw(rows[i]) = rows[i].drawn
        BY <4>1, <4>2 DEF HeldOf, TrueDraw, OutstandingDraw
      <4>6. /\ RoomAt(rows, t, i) = IF rows[i].task = t THEN MaxOf(rows[i].amount, rows[i].drawn) ELSE 0
            /\ CountAt(rows, t, i) = IF rows[i].task = t THEN rows[i].amount ELSE 0
            /\ DrawAt(rows, t, i) = IF rows[i].task = t THEN rows[i].drawn ELSE 0
        BY <4>1, <4>5 DEF RoomAt, CountAt, DrawAt
      <4> QED
        BY <2>1, <3>0, <3>1, <4>2, <4>4, <4>6 DEF MaxOf
    <3>2. CASE i \notin S
      <4>1. rows'[i] = rows[i] /\ lease'[i] = lease[i] /\ g[i] = 0
        BY <1>2, <2>1, <3>2
      <4>2. /\ RoomAt(rows', t, i) = RoomAt(rows, t, i) /\ CountAt(rows', t, i) = CountAt(rows, t, i)
            /\ DrawAt(rows', t, i) = DrawAt(rows, t, i)
            /\ TurnAt(rows', lease', t, i) = TurnAt(rows, lease, t, i)
        BY <4>1 DEF RoomAt, CountAt, DrawAt, TurnAt
      <4> QED
        BY <3>0, <4>1, <4>2
    <3> QED
      BY <3>1, <3>2
  <2>3. /\ Room(rows', t) + Sum(g) <= Room(rows, t)
        /\ Room(rows', t) + Count(rows, t) <= Room(rows, t) + Count(rows', t)
        /\ Draws(rows', t) + Sum(g) = Draws(rows, t)
        /\ TurnHeld(rows', lease', t) <= TurnHeld(rows, lease, t)
    BY <1>0, <1>1, <2>2, TypedRowsNext, GivenBack
  <2>4. Sum(g) \in Nat
    BY <2>2, TableSum
  <2>5. ReserveGains(t, Sum(g))
    BY <1>2 DEF g
  <2> QED
    BY <1>0, <1>1, <1>2, <2>3, <2>4, <2>5, DirectKept, <1>4, LawsKept
<1> QED
  BY <1>5, <1>6

\* A settlement: what was not spent of the draw goes back, even if the row lapsed
\* before, when the expiry had given all of it back.
LEMMA SettledLaws ==
  ASSUME TreeTypeOK, \A t \in Tasks : Laws(t), NEW k \in Ids, NEW a \in Opt(Amounts), Settle(k, a),
         UNCHANGED <<lease, hard>>
  PROVE  LedgerTypeOK' /\ \A t \in Tasks : Laws(t)'
<1>0. TypeOK /\ RowsTyped(rows)
  BY TypedRows DEF TreeTypeOK
<1>1. TypeOK'
  BY <1>0, SettleLedger
<1>2. PICK value \in Nat :
         /\ SameTerms(k) /\ rows'[k].state = "settled" /\ rows'[k].settled = value
         /\ rows'[k].late = (rows[k].state = "expired")
         /\ rows[k] # None /\ rows[k] \in Row /\ rows[k].state \in {"active", "expired"}
         /\ \A i \in Ids : i # k => rows'[i] = rows[i]
         /\ RestoreOnSettle(rows[k], value) \in Nat
         /\ \A t \in Tasks :
              ReserveGains(t, IF rows[k].task = t THEN RestoreOnSettle(rows[k], value) ELSE 0)
         /\ now' = now /\ issued' = issued /\ floor' = floor
  BY <1>0, SettleTerms
<1>3. \A i \in Ids : rows[i] # None => (rows[i].late => rows[i].state = "settled")
  BY DEF TreeTypeOK, LeaseOk
<1>4. LeasesKept
  BY <1>2, <1>3 DEF LeasesKept, SameTerms
<1>5. LedgerTypeOK'
  BY <1>1, <1>2, <1>4, LeasesKeptTypes DEF ReserveGains
<1>6. ASSUME NEW t \in Tasks PROVE Laws(t)'
  <2> DEFINE n == RestoreOnSettle(rows[k], value)
             g == [i \in Ids |-> IF i = k /\ rows[k].task = t THEN n ELSE 0]
  <2>0. n \in Nat
    BY <1>2
  <2>1. \A i \in Ids : g[i] = IF i = k /\ rows[k].task = t THEN n ELSE 0
    OBVIOUS
  <2> HIDE DEF g
  <2>2. ASSUME NEW i \in Ids
        PROVE  /\ g[i] \in Nat
               /\ RoomAt(rows', t, i) + g[i] <= RoomAt(rows, t, i)
               /\ RoomAt(rows', t, i) + CountAt(rows, t, i) <= RoomAt(rows, t, i) + CountAt(rows', t, i)
               /\ DrawAt(rows', t, i) + g[i] = DrawAt(rows, t, i)
               /\ TurnAt(rows', lease', t, i) <= TurnAt(rows, lease, t, i)
    <3>0. /\ RoomAt(rows, t, i) \in Nat /\ CountAt(rows, t, i) \in Nat
          /\ DrawAt(rows, t, i) \in Nat /\ TurnAt(rows, lease, t, i) \in Nat
      BY <1>0, PartsNat
    <3>1. CASE i = k
      <4>2. /\ rows[k].amount \in Nat /\ rows[k].drawn \in Nat /\ rows[k].late = FALSE
            /\ rows'[k].amount = rows[k].amount /\ rows'[k].drawn = rows[k].drawn
            /\ rows'[k].task = rows[k].task /\ rows'[k] # None
        BY <1>2, LeaseFacts DEF SameTerms
      <4>3. TurnAt(rows', lease', t, k) = 0
        BY <1>2 DEF TurnAt
      <4>4. CountAt(rows', t, k) = IF rows[k].task = t THEN value ELSE 0
        BY <1>2, <4>2 DEF CountAt
      <4>5. CASE rows[k].state = "active"
        <5>1. n = MinOf(MaxOf(rows[k].amount - value, 0), rows[k].drawn)
          BY <4>5 DEF RestoreOnSettle
        <5>2. /\ HeldOf(rows[k]) = rows[k].amount /\ TrueDraw(rows[k]) = rows[k].drawn
              /\ HeldOf(rows'[k]) = MinOf(value, rows[k].amount)
              /\ TrueDraw(rows'[k]) = MaxOf(rows[k].drawn - MaxOf(rows[k].amount - value, 0), 0)
          BY <1>2, <4>2, <4>5 DEF HeldOf, TrueDraw, OutstandingDraw
        <5>3. /\ RoomAt(rows, t, k) = IF rows[k].task = t THEN MaxOf(HeldOf(rows[k]), TrueDraw(rows[k])) ELSE 0
              /\ RoomAt(rows', t, k) = IF rows[k].task = t THEN MaxOf(HeldOf(rows'[k]), TrueDraw(rows'[k])) ELSE 0
              /\ CountAt(rows, t, k) = IF rows[k].task = t THEN rows[k].amount ELSE 0
              /\ DrawAt(rows, t, k) = IF rows[k].task = t THEN TrueDraw(rows[k]) ELSE 0
              /\ DrawAt(rows', t, k) = IF rows[k].task = t THEN TrueDraw(rows'[k]) ELSE 0
          BY <1>2, <4>2, <4>5 DEF RoomAt, CountAt, DrawAt
        <5>4. TrueDraw(rows'[k]) \in Nat
          BY <4>2, <5>2 DEF MaxOf
        <5> HIDE DEF n
        <5> DEFINE c == rows[k].amount
                   d == rows[k].drawn
                   e == TrueDraw(rows'[k])
        <5>5. /\ c \in Nat /\ d \in Nat /\ value \in Nat /\ n \in Nat /\ e \in Nat
              /\ n = MinOf(MaxOf(c - value, 0), d) /\ e = MaxOf(d - MaxOf(c - value, 0), 0)
          BY <2>0, <4>2, <5>1, <5>2, <5>4
        <5>6. /\ RoomAt(rows, t, k) = IF rows[k].task = t THEN MaxOf(c, d) ELSE 0
              /\ RoomAt(rows', t, k) = IF rows[k].task = t THEN MaxOf(MinOf(value, c), e) ELSE 0
              /\ CountAt(rows, t, k) = IF rows[k].task = t THEN c ELSE 0
              /\ DrawAt(rows, t, k) = IF rows[k].task = t THEN d ELSE 0
              /\ DrawAt(rows', t, k) = IF rows[k].task = t THEN e ELSE 0
          BY <5>2, <5>3
        <5> HIDE DEF c, d, e
        <5>7. /\ MaxOf(MinOf(value, c), e) \in Nat /\ MaxOf(c, d) \in Nat
              /\ MaxOf(MinOf(value, c), e) + n <= MaxOf(c, d)
              /\ MaxOf(MinOf(value, c), e) + c <= MaxOf(c, d) + value
              /\ e + n = d
          <6>1. CASE value >= c
            <7>1. MaxOf(c - value, 0) = 0 /\ MinOf(value, c) = c
              BY <5>5, <6>1 DEF MaxOf, MinOf
            <7>2. n = 0 /\ e = d
              BY <5>5, <7>1 DEF MaxOf, MinOf
            <7> QED
              BY <5>5, <6>1, <7>1, <7>2 DEF MaxOf
          <6>2. CASE value < c
            <7>1. MaxOf(c - value, 0) = c - value /\ MinOf(value, c) = value
              BY <5>5, <6>2 DEF MaxOf, MinOf
            <7> QED
              BY <5>5, <6>2, <7>1 DEF MaxOf, MinOf
          <6> QED
            BY <5>5, <6>1, <6>2
        <5> QED
          BY <2>0, <2>1, <3>0, <3>1, <4>3, <4>4, <5>5, <5>6, <5>7
      <4>6. CASE rows[k].state = "expired"
        <5>1. n = 0
          BY <4>6 DEF RestoreOnSettle
        <5>2. /\ HeldOf(rows[k]) = 0 /\ TrueDraw(rows[k]) = 0
              /\ HeldOf(rows'[k]) = 0 /\ TrueDraw(rows'[k]) = 0
          BY <1>2, <4>2, <4>6 DEF HeldOf, TrueDraw, OutstandingDraw
        <5>3. /\ RoomAt(rows, t, k) = 0 /\ RoomAt(rows', t, k) = 0 /\ CountAt(rows, t, k) = 0
              /\ DrawAt(rows, t, k) = 0 /\ DrawAt(rows', t, k) = 0
          BY <1>2, <4>2, <4>6, <5>2 DEF RoomAt, CountAt, DrawAt, MaxOf
        <5> HIDE DEF n
        <5> QED
          BY <1>2, <2>1, <3>0, <3>1, <4>3, <4>4, <5>1, <5>3
      <4> QED
        BY <1>2, <4>5, <4>6
    <3>2. CASE i # k
      <4>1. rows'[i] = rows[i] /\ lease'[i] = lease[i] /\ g[i] = 0
        BY <1>2, <2>1, <3>2
      <4>2. /\ RoomAt(rows', t, i) = RoomAt(rows, t, i) /\ CountAt(rows', t, i) = CountAt(rows, t, i)
            /\ DrawAt(rows', t, i) = DrawAt(rows, t, i)
            /\ TurnAt(rows', lease', t, i) = TurnAt(rows, lease, t, i)
        BY <4>1 DEF RoomAt, CountAt, DrawAt, TurnAt
      <4> QED
        BY <3>0, <4>1, <4>2
    <3> QED
      BY <3>1, <3>2
  <2>3. /\ Room(rows', t) + Sum(g) <= Room(rows, t)
        /\ Room(rows', t) + Count(rows, t) <= Room(rows, t) + Count(rows', t)
        /\ Draws(rows', t) + Sum(g) = Draws(rows, t)
        /\ TurnHeld(rows', lease', t) <= TurnHeld(rows, lease, t)
    BY <1>0, <1>1, <2>2, TypedRowsNext, GivenBack
  <2>4. Sum(g) = IF rows[k].task = t THEN n ELSE 0
    <3>1. \A i \in Ids : i # k => g[i] = 0
      BY <2>1
    <3>2. g[k] = IF rows[k].task = t THEN n ELSE 0
      BY <2>1
    <3>3. g[k] \in Int
      BY <2>0, <3>2
    <3> HIDE DEF n
    <3>4. Sum(g) = g[k]
      BY <3>1, <3>3, TableSumSingle
    <3> QED
      BY <3>2, <3>4
  <2>5. ReserveGains(t, IF rows[k].task = t THEN n ELSE 0)
    BY <1>2
  <2> HIDE DEF n
  <2>6. Sum(g) \in Nat /\ ReserveGains(t, Sum(g))
    BY <2>0, <2>4, <2>5
  <2> QED
    BY <1>0, <1>1, <1>2, <2>3, <2>6, DirectKept, <1>4, LawsKept
<1> QED
  BY <1>5, <1>6

-----------------------------------------------------------------------------
(* Grants: what the checks of a reservation and of a sublease leave room for. *)

\* What is counted for a task's rows is what the check of a reservation counts.
LEMMA CountedByTask ==
  ASSUME TreeTypeOK, NEW t \in Tasks
  PROVE  /\ Count(rows, t) = ActiveSum(t) + SettledSum(t)
         /\ TurnHeld(rows, lease, t) <= ActiveSum(t)
         /\ ActiveSum(t) \in Nat /\ SettledSum(t) \in Nat
<1> DEFINE c1 == [i \in Ids |-> CountAt(rows, t, i)]
           u1 == [i \in Ids |-> TurnAt(rows, lease, t, i)]
           a1 == [i \in Ids |-> IF i \in Of(t, "active") THEN rows[i].amount ELSE 0]
           s1 == [i \in Ids |-> IF i \in Of(t, "settled") THEN rows[i].settled ELSE 0]
<1>0. TypeOK /\ RowsTyped(rows)
  BY TypedRows DEF TreeTypeOK
<1>1. ASSUME NEW i \in Ids
      PROVE  /\ u1[i] \in Int /\ a1[i] \in Int /\ s1[i] \in Int
             /\ c1[i] = a1[i] + s1[i] /\ u1[i] <= a1[i]
  <2>1. TurnAt(rows, lease, t, i) \in Nat
    BY <1>0, PartsNat
  <2>2. rows[i] # None =>
          /\ rows[i].amount \in Nat /\ (rows[i].state = "settled" => rows[i].settled \in Nat)
          /\ lease[i].account = t => rows[i].task = t
    BY <1>0, LeaseFacts DEF TypeOK, Row, Opt
  <2>3. a1[i] \in Nat /\ s1[i] \in Nat
    BY <2>2 DEF Of
  <2>4. CountAt(rows, t, i) = a1[i] + s1[i]
    BY <2>2 DEF CountAt, Of
  <2>5. TurnAt(rows, lease, t, i) <= a1[i]
    BY <2>2 DEF TurnAt, Of
  <2> QED
    BY <2>1, <2>3, <2>4, <2>5
<1> HIDE DEF c1, u1, a1, s1
<1>2. Sum(u1) <= Sum(a1)
  BY <1>1, TableSumLe
<1>3. Sum(c1) = Sum(a1) + Sum(s1)
  BY <1>1, TableSumPlus
<1>4. ActiveSum(t) \in Nat /\ SettledSum(t) \in Nat
  BY <1>0, SumsAreNat
<1> QED
  BY <1>2, <1>3, <1>4 DEF c1, u1, a1, s1, Count, TurnHeld, ActiveSum, SettledSum

\* While a task's leases are all its own account's, it is also what the check of a
\* sublease counts.
LEMMA CountedByAccount ==
  ASSUME TreeTypeOK, NEW a \in Accounts
  PROVE  /\ Held(rows, lease, a) <= ActiveAgainst(a) + SettledAgainst(a)
         /\ a \in Tasks /\ Direct(a) => Count(rows, a) = ActiveAgainst(a) + SettledAgainst(a)
         /\ ActiveAgainst(a) \in Nat /\ SettledAgainst(a) \in Nat
<1> DEFINE c1 == [i \in Ids |-> CountAt(rows, a, i)]
           h1 == [i \in Ids |-> HeldAt(rows, lease, a, i)]
           a1 == [i \in Ids |-> IF i \in Against(a, "active") THEN rows[i].amount ELSE 0]
           s1 == [i \in Ids |-> IF i \in Against(a, "settled") THEN rows[i].settled ELSE 0]
           b1 == [i \in Ids |-> a1[i] + s1[i]]
<1>0. TypeOK /\ RowsTyped(rows)
  BY TypedRows DEF TreeTypeOK
<1>1. ASSUME NEW i \in Ids
      PROVE  /\ a1[i] \in Nat /\ s1[i] \in Nat /\ h1[i] \in Nat /\ h1[i] <= a1[i] + s1[i]
             /\ a \in Tasks /\ Direct(a) => c1[i] = a1[i] + s1[i]
  <2>1. rows[i] # None =>
          /\ rows[i].amount \in Nat /\ (rows[i].state = "settled" => rows[i].settled \in Nat)
          /\ a \in Tasks /\ lease[i].account = a => rows[i].task = a
    BY <1>0, LeaseFacts DEF TypeOK, Row, Opt
  <2>2. a1[i] \in Nat /\ s1[i] \in Nat
    BY <2>1 DEF Against
  <2>3. HeldAt(rows, lease, a, i) \in Nat /\ HeldAt(rows, lease, a, i) <= a1[i] + s1[i]
    <3>1. CASE rows[i] # None /\ lease[i].account = a
      BY <2>1, <3>1 DEF HeldAt, HeldOf, MinOf, Against
    <3>2. CASE ~(rows[i] # None /\ lease[i].account = a)
      BY <2>2, <3>2 DEF HeldAt
    <3> QED
      BY <3>1, <3>2
  <2>4. ASSUME a \in Tasks, Direct(a)
        PROVE  CountAt(rows, a, i) = a1[i] + s1[i]
    <3>1. rows[i] # None /\ rows[i].task = a <=> rows[i] # None /\ lease[i].account = a
      BY <2>1, <2>4 DEF Direct
    <3> QED
      BY <2>1, <3>1 DEF CountAt, Against
  <2> QED
    BY <2>2, <2>3, <2>4
<1>2. \A i \in Ids : /\ a1[i] \in Int /\ s1[i] \in Int /\ h1[i] \in Int /\ b1[i] \in Int
                     /\ b1[i] = a1[i] + s1[i] /\ h1[i] <= b1[i]
  BY <1>1
<1> HIDE DEF c1, h1, a1, s1, b1
<1>3. a \in Tasks /\ Direct(a) => Sum(c1) = Sum(a1) + Sum(s1)
  <2> SUFFICES ASSUME a \in Tasks, Direct(a)
               PROVE  Sum(c1) = Sum(a1) + Sum(s1)
    OBVIOUS
  <2>1. \A i \in Ids : a1[i] \in Int /\ s1[i] \in Int /\ c1[i] = a1[i] + s1[i]
    BY <1>1
  <2> QED
    BY <2>1, TableSumPlus
<1>4. Sum(a1) \in Nat /\ Sum(s1) \in Nat
  BY <1>1, TableSum
<1>5. Sum(h1) <= Sum(a1) + Sum(s1)
  <2>1. Sum(b1) = Sum(a1) + Sum(s1)
    BY <1>2, TableSumPlus
  <2>2. Sum(h1) <= Sum(b1)
    BY <1>2, TableSumLe
  <2> QED
    BY <2>1, <2>2
<1> QED
  BY <1>3, <1>4, <1>5 DEF c1, h1, a1, s1, Count, Held, ActiveAgainst, SettledAgainst

\* Row n is inserted, with the terms of a grant.
Inserted(n, t, plan, amount, drawn, at, account, grants) ==
  /\ n \in Ids /\ n = issued + 1 /\ issued' = n /\ rows[n] = None
  /\ rows'[n] # None /\ rows'[n] \in Row
  /\ rows'[n].task = t /\ rows'[n].plan = plan /\ rows'[n].amount = amount
  /\ rows'[n].drawn = drawn /\ rows'[n].state = "active" /\ rows'[n].late = FALSE
  /\ rows'[n].expiresAt = at
  /\ lease'[n].account = account /\ lease'[n].grants = grants
  /\ lease'[n] = [account |-> account, grants |-> grants]
  /\ \A i \in Ids : i # n => rows'[i] = rows[i] /\ lease'[i] = lease[i]
  /\ DOMAIN lease' = Ids

\* What the new row adds to each sum.
SumsGrow(t, amount, drawn, account, grants, b) ==
  /\ Room(rows', b) = Room(rows, b) + (IF t = b THEN MaxOf(amount, drawn) ELSE 0)
  /\ Count(rows', b) = Count(rows, b) + (IF t = b THEN amount ELSE 0)
  /\ Draws(rows', b) = Draws(rows, b) + (IF t = b THEN drawn ELSE 0)
  /\ TurnHeld(rows', lease', b) =
       TurnHeld(rows, lease, b) + (IF account = b /\ grants = None THEN amount ELSE 0)
  /\ Held(rows', lease', b) = Held(rows, lease, b) + (IF account = b THEN amount ELSE 0)

LEMMA InsertedParts ==
  ASSUME TreeTypeOK, TypeOK', NEW n, NEW t, NEW plan, NEW amount \in Nat, NEW drawn \in Nat,
         NEW at, NEW account, NEW grants, NEW b,
         Inserted(n, t, plan, amount, drawn, at, account, grants)
  PROVE  SumsGrow(t, amount, drawn, account, grants, b)
<1>0. RowsTyped(rows) /\ RowsTyped(rows') /\ n \in Ids
  BY TypedRows, TypedRowsNext DEF TreeTypeOK, Inserted
<1>1. \A i \in Ids : i # n => rows'[i] = rows[i] /\ lease'[i] = lease[i]
  BY DEF Inserted
<1>2. /\ RoomAt(rows, b, n) = 0 /\ CountAt(rows, b, n) = 0 /\ DrawAt(rows, b, n) = 0
      /\ TurnAt(rows, lease, b, n) = 0 /\ HeldAt(rows, lease, b, n) = 0
  BY DEF Inserted, RoomAt, CountAt, DrawAt, TurnAt, HeldAt
<1>3. /\ CountAt(rows', b, n) = IF t = b THEN amount ELSE 0
      /\ TurnAt(rows', lease', b, n) = IF account = b /\ grants = None THEN amount ELSE 0
  BY DEF Inserted, CountAt, TurnAt
<1>4. /\ DrawAt(rows', b, n) = IF t = b THEN drawn ELSE 0
      /\ RoomAt(rows', b, n) = IF t = b THEN MaxOf(amount, drawn) ELSE 0
      /\ HeldAt(rows', lease', b, n) = IF account = b THEN amount ELSE 0
  <2>1. TrueDraw(rows'[n]) = drawn /\ HeldOf(rows'[n]) = amount
    BY DEF Inserted, TrueDraw, OutstandingDraw, HeldOf
  <2> QED
    BY <2>1 DEF Inserted, DrawAt, RoomAt, HeldAt
<1>5. /\ Room(rows', b) = Room(rows, b) + RoomAt(rows', b, n) - RoomAt(rows, b, n)
      /\ Count(rows', b) = Count(rows, b) + CountAt(rows', b, n) - CountAt(rows, b, n)
      /\ Draws(rows', b) = Draws(rows, b) + DrawAt(rows', b, n) - DrawAt(rows, b, n)
      /\ TurnHeld(rows', lease', b) = TurnHeld(rows, lease, b) + TurnAt(rows', lease', b, n) - TurnAt(rows, lease, b, n)
      /\ Held(rows', lease', b) = Held(rows, lease, b) + HeldAt(rows', lease', b, n) - HeldAt(rows, lease, b, n)
  BY <1>0, <1>1, OneRowMoves
<1>6. /\ Room(rows, b) \in Nat /\ Count(rows, b) \in Nat /\ Draws(rows, b) \in Nat
      /\ TurnHeld(rows, lease, b) \in Nat /\ Held(rows, lease, b) \in Nat
  BY <1>0, TotalsNat
<1>7. MaxOf(amount, drawn) \in Nat
  BY DEF MaxOf
<1> QED
  BY <1>2, <1>3, <1>4, <1>5, <1>6, <1>7 DEF SumsGrow

\* The types after a grant.
LEMMA InsertedTypes ==
  ASSUME TreeTypeOK, TypeOK', NEW n, NEW t, NEW plan, NEW amount \in Nat, NEW drawn \in Nat,
         NEW at, NEW account \in Accounts, NEW grants \in Opt(Children),
         Inserted(n, t, plan, amount, drawn, at, account, grants),
         account \in Tasks => t = account,
         account \in Children => grants # None /\ drawn = 0, grants # None => plan = None,
         hard' = hard,
         \A u \in Tasks : budgets'[u] # None =>
           budgets[u] # None /\ budgets'[u].limit = budgets[u].limit
  PROVE  LedgerTypeOK'
<1>1. \A i \in Ids : LeaseOk(i)'
  <2> SUFFICES ASSUME NEW i \in Ids PROVE LeaseOk(i)'
    OBVIOUS
  <2>1. CASE i = n
    BY <2>1 DEF LeaseOk, Inserted, Lease
  <2>2. CASE i # n
    <3>1. LeaseOk(i) /\ rows'[i] = rows[i] /\ lease'[i] = lease[i]
      BY <2>2 DEF TreeTypeOK, Inserted
    <3> QED
      BY <3>1 DEF LeaseOk
  <2> QED
    BY <2>1, <2>2
<1>2. \A i \in Ids : i > issued' => rows'[i] = None
  <2>1. issued \in Nat
    BY DEF TreeTypeOK, TypeOK
  <2>2. \A i \in Ids : i \in Int
    BY DEF Ids
  <2> QED
    BY <2>1, <2>2 DEF TreeTypeOK, Inserted
<1>3. /\ DOMAIN lease' = Ids /\ hard' \in [Tasks -> Nat]
      /\ \A u \in Tasks : budgets'[u] # None => hard'[u] <= budgets'[u].limit
  BY DEF TreeTypeOK, Inserted
<1> QED
  BY <1>1, <1>2, <1>3 DEF LedgerTypeOK

\* A reservation inserts a row whose draw leaves the reserve.
LEMMA ReserveInserts ==
  ASSUME TreeTypeOK, NEW t \in Tasks, NEW plan \in Opt(Plans), NEW class \in Classes,
         NEW amount \in Amounts, NEW key \in Keys, NEW ttl \in TTLs,
         AtReserve(t, plan, class, amount, key, ttl)
  PROVE  /\ TypeOK' /\ amount \in Nat
         /\ DrawOf(t, class, amount) \in Nat /\ DrawOf(t, class, amount) <= budgets[t].reserve
         /\ budgets[t] # None /\ Admits(t, class, amount)
         /\ Inserted(issued + 1, t, plan, amount, DrawOf(t, class, amount), now + ttl, t, None)
         /\ budgets'[t] # None
         /\ budgets'[t].limit = budgets[t].limit /\ budgets'[t].ceiling = budgets[t].ceiling
         /\ budgets'[t].reserve = budgets[t].reserve - DrawOf(t, class, amount)
         /\ \A u \in Tasks : u # t => budgets'[u] = budgets[u]
         /\ floor' = floor /\ UNCHANGED <<accounts, hard, renewals, under>>
<1> DEFINE n == issued + 1
           drawn == DrawOf(t, class, amount)
           row == [task |-> t, plan |-> plan, key |-> key, amount |-> amount,
                   drawn |-> drawn, state |-> "active", settled |-> None,
                   expiresAt |-> now + ttl, late |-> FALSE]
<1>0. TypeOK /\ amount \in Nat /\ Reserve(t, plan, class, amount, key, ttl)
  BY ReservationAssumption DEF TreeTypeOK, AtReserve
<1>1. /\ budgets[t] # None /\ Admits(t, class, amount)
      /\ issued' = n
      /\ budgets' = [budgets EXCEPT ![t].reserve = @ - drawn]
      /\ rows' = [rows EXCEPT ![n] = row]
      /\ floor' = floor
  BY <1>0 DEF Reserve
<1>2. drawn \in Nat /\ drawn <= budgets[t].reserve
  BY <1>0, <1>1, DrawFits
<1>3. TypeOK' /\ n \in Ids /\ rows'[n] # None
  BY <1>0, ReserveLedger
<1>5. row.task = t /\ row.plan = plan /\ row.amount = amount /\ row.drawn = drawn
      /\ row.state = "active" /\ row.late = FALSE /\ row.expiresAt = now + ttl
  OBVIOUS
<1> HIDE DEF row, drawn
<1>6. rows'[n] = row /\ rows'[n] \in Row /\ \A i \in Ids : i # n => rows'[i] = rows[i]
  BY <1>0, <1>1, <1>3 DEF TypeOK, Opt
<1>7. lease' = [lease EXCEPT ![n] = [account |-> t, grants |-> None]] /\ DOMAIN lease = Ids
  BY DEF AtReserve, TreeTypeOK
<1>8. rows[n] = None
  BY <1>0, <1>3 DEF TreeTypeOK, TypeOK
<1>9. Inserted(n, t, plan, amount, drawn, now + ttl, t, None)
  BY <1>1, <1>3, <1>5, <1>6, <1>7, <1>8 DEF Inserted
<1>10. budgets[t] \in Budget
  BY <1>0, <1>1 DEF TypeOK, Opt
<1>11. /\ budgets'[t] = [budgets[t] EXCEPT !.reserve = @ - drawn]
       /\ \A u \in Tasks : u # t => budgets'[u] = budgets[u]
  BY <1>0, <1>1 DEF TypeOK
<1>12. /\ [budgets[t] EXCEPT !.reserve = @ - drawn] \in Budget
       /\ [budgets[t] EXCEPT !.reserve = @ - drawn].limit = budgets[t].limit
       /\ [budgets[t] EXCEPT !.reserve = @ - drawn].ceiling = budgets[t].ceiling
       /\ [budgets[t] EXCEPT !.reserve = @ - drawn].reserve = budgets[t].reserve - drawn
  BY <1>2, <1>10 DEF Budget
<1>13. UNCHANGED <<accounts, hard, renewals, under>>
  BY DEF AtReserve
<1> QED
  BY <1>0, <1>1, <1>2, <1>3, <1>9, <1>11, <1>12, <1>13, RowAssumption DEF drawn

\* The laws of the task that a grant of amount leaves.
LEMMA GrantLaws ==
  ASSUME TreeTypeOK, TypeOK', NEW n, NEW t \in Tasks, NEW plan, NEW amount \in Nat, NEW drawn \in Nat,
         NEW at, NEW account, NEW grants, NEW b \in Tasks, Laws(b),
         Inserted(n, t, plan, amount, drawn, at, account, grants),
         b # t \/ (account # t /\ drawn = 0), account \in Tasks => t = account,
         ReserveGains(b, 0), floor'[b] = floor[b]
  PROVE  Laws(b)'
<1>0. TypeOK /\ RowsTyped(rows) /\ RowsTyped(rows') /\ account # b
  BY TypedRows, TypedRowsNext DEF TreeTypeOK
<1>1. /\ Room(rows', b) = Room(rows, b) + (IF t = b THEN MaxOf(amount, drawn) ELSE 0)
      /\ Count(rows', b) = Count(rows, b) + (IF t = b THEN amount ELSE 0)
      /\ Draws(rows', b) = Draws(rows, b) + (IF t = b THEN drawn ELSE 0)
      /\ TurnHeld(rows', lease', b) =
           TurnHeld(rows, lease, b) + (IF account = b /\ grants = None THEN amount ELSE 0)
  <2>1. SumsGrow(t, amount, drawn, account, grants, b)
    BY InsertedParts
  <2> QED
    BY <2>1 DEF SumsGrow
<1>2. /\ Room(rows, b) \in Nat /\ Count(rows, b) \in Nat /\ Draws(rows, b) \in Nat
      /\ TurnHeld(rows, lease, b) \in Nat
  BY <1>0, TotalsNat
<1>3. Draws(rows', b) = Draws(rows, b) /\ TurnHeld(rows', lease', b) = TurnHeld(rows, lease, b)
  BY <1>0, <1>1, <1>2
<1>4. CASE b # t
  <2>1. Room(rows', b) = Room(rows, b) /\ Count(rows', b) = Count(rows, b)
    BY <1>1, <1>2, <1>4
  <2>2. Direct(b)' => Direct(b)
    BY DEF Direct, Inserted
  <2> QED
    BY <1>0, <1>2, <1>3, <2>1, <2>2, LawsKept
<1>5. CASE b = t
  <2>1. ~ Direct(b)'
    BY <1>0, <1>5 DEF Direct, Inserted
  <2> HIDE DEF Direct
  <2> QED
    BY <1>0, <1>3, <2>1 DEF Laws, ReserveGains, TypeOK, Opt, Budget
<1> QED
  BY <1>4, <1>5

\* What the check of a grant must leave, for the laws of the task whose account it
\* is from.
LEMMA OwnGrantLaws ==
  ASSUME TreeTypeOK, TypeOK', NEW n, NEW t \in Tasks, NEW plan, NEW amount \in Nat, NEW drawn \in Nat,
         NEW at, NEW grants, Laws(t),
         Inserted(n, t, plan, amount, drawn, at, t, grants),
         budgets[t] # None, ReserveGains(t, 0 - drawn), floor'[t] = floor[t],
         budgets[t].ceiling = None /\ Direct(t) =>
           /\ amount - drawn <= budgets[t].limit - Count(rows, t) - budgets[t].reserve
           /\ drawn > amount =>
                drawn - amount = budgets[t].reserve - budgets[t].limit + Count(rows, t),
         budgets[t].ceiling # None /\ grants = None =>
           TurnHeld(rows, lease, t) + amount <= budgets[t].ceiling
  PROVE  Laws(t)'
<1>0. TypeOK /\ RowsTyped(rows) /\ RowsTyped(rows')
  BY TypedRows, TypedRowsNext DEF TreeTypeOK
<1> DEFINE m == MaxOf(amount, drawn)
<1>1. /\ Room(rows', t) = Room(rows, t) + m
      /\ Count(rows', t) = Count(rows, t) + amount
      /\ Draws(rows', t) = Draws(rows, t) + drawn
      /\ TurnHeld(rows', lease', t) = TurnHeld(rows, lease, t) + (IF grants = None THEN amount ELSE 0)
  <2>1. SumsGrow(t, amount, drawn, t, grants, t)
    BY InsertedParts
  <2> QED
    BY <2>1 DEF SumsGrow
<1>2. /\ Room(rows, t) \in Nat /\ Count(rows, t) \in Nat /\ Draws(rows, t) \in Nat
      /\ TurnHeld(rows, lease, t) \in Nat
  BY <1>0, TotalsNat
<1>3. m \in Nat /\ (drawn <= amount => m = amount) /\ (drawn > amount => m = drawn)
  BY DEF MaxOf
<1> HIDE DEF m
<1>4. Direct(t)' => Direct(t)
  BY DEF Direct, Inserted
<1>5. /\ budgets[t].limit \in Nat /\ budgets[t].reserve \in Nat
      /\ budgets[t].ceiling # None => budgets[t].ceiling \in Nat
  BY <1>0 DEF TypeOK, Opt, Budget
<1>6. /\ budgets'[t].limit = budgets[t].limit /\ budgets'[t].ceiling = budgets[t].ceiling
      /\ budgets'[t].reserve = budgets[t].reserve - drawn
  BY <1>5 DEF ReserveGains
<1>7. /\ budgets[t].ceiling = None /\ Direct(t) =>
           /\ budgets[t].reserve + Room(rows, t) <= budgets[t].limit
           /\ Room(rows, t) <= Count(rows, t)
      /\ budgets[t].ceiling # None => TurnHeld(rows, lease, t) <= budgets[t].ceiling
      /\ budgets[t].reserve + Draws(rows, t) = floor[t]
  BY DEF Laws
<1>8. floor[t] \in Int
  BY <1>0 DEF TypeOK
<1> HIDE DEF Direct
<1>9. budgets'[t].ceiling = None /\ Direct(t)' =>
         /\ budgets'[t].reserve + Room(rows', t) <= budgets'[t].limit
         /\ Room(rows', t) <= Count(rows', t)
  <2> SUFFICES ASSUME budgets'[t].ceiling = None, Direct(t)'
               PROVE  /\ budgets'[t].reserve + Room(rows', t) <= budgets'[t].limit
                      /\ Room(rows', t) <= Count(rows', t)
    OBVIOUS
  <2>1. budgets[t].ceiling = None /\ Direct(t)
    BY <1>4, <1>6
  <2>2. CASE drawn <= amount
    BY <1>1, <1>2, <1>3, <1>5, <1>6, <1>7, <2>1, <2>2
  <2>3. CASE drawn > amount
    BY <1>1, <1>2, <1>3, <1>5, <1>6, <1>7, <2>1, <2>3
  <2> QED
    BY <2>2, <2>3
<1>10. budgets'[t].ceiling # None => TurnHeld(rows', lease', t) <= budgets'[t].ceiling
  BY <1>1, <1>2, <1>5, <1>6, <1>7
<1>11. budgets'[t].reserve + Draws(rows', t) = floor'[t]
  BY <1>1, <1>2, <1>5, <1>6, <1>7, <1>8
<1> QED
  BY <1>9, <1>10, <1>11 DEF Laws

\* The check of a reservation leaves room for it beside the reserve it draws on.
LEMMA ReserveRoom ==
  ASSUME TreeTypeOK, NEW t \in Tasks, NEW plan \in Opt(Plans), NEW class \in Classes,
         NEW amount \in Amounts, NEW key \in Keys, NEW ttl \in TTLs,
         AtReserve(t, plan, class, amount, key, ttl), NEW drawn, drawn = DrawOf(t, class, amount)
  PROVE  /\ budgets[t].ceiling = None =>
              /\ amount - drawn <= budgets[t].limit - Count(rows, t) - budgets[t].reserve
              /\ drawn > amount =>
                   drawn - amount = budgets[t].reserve - budgets[t].limit + Count(rows, t)
         /\ budgets[t].ceiling # None => TurnHeld(rows, lease, t) + amount <= budgets[t].ceiling
<1>1. /\ amount \in Nat /\ drawn \in Nat /\ budgets[t] # None /\ Admits(t, class, amount)
  BY ReserveInserts
<1>2. /\ budgets[t].reserve \in Nat /\ budgets[t].limit \in Nat
      /\ budgets[t].ceiling # None => budgets[t].ceiling \in Nat
  BY <1>1 DEF TreeTypeOK, TypeOK, Opt, Budget
<1>3. /\ Count(rows, t) = ActiveSum(t) + SettledSum(t)
      /\ TurnHeld(rows, lease, t) <= ActiveSum(t)
      /\ ActiveSum(t) \in Nat /\ SettledSum(t) \in Nat
  BY CountedByTask
<1>4. GateHeadroom(t) = IF budgets[t].ceiling # None THEN budgets[t].ceiling - ActiveSum(t)
                        ELSE budgets[t].limit - Count(rows, t)
  BY <1>2, <1>3 DEF GateHeadroom
<1>5. /\ class = "optional" => drawn = 0 /\ amount <= GateHeadroom(t) - budgets[t].reserve
      /\ class = "required" => /\ amount <= GateHeadroom(t)
                               /\ drawn = MaxOf(amount - (GateHeadroom(t) - budgets[t].reserve), 0)
      /\ class = "optional" \/ class = "required"
  BY <1>1 DEF DrawOf, Admits, Classes
<1>6. GateHeadroom(t) \in Int
  BY <1>2, <1>3, <1>4
<1>7. /\ amount - drawn <= GateHeadroom(t) - budgets[t].reserve
      /\ drawn > amount => drawn - amount = budgets[t].reserve - GateHeadroom(t)
      /\ amount <= GateHeadroom(t)
  <2>1. CASE class = "optional"
    BY <1>1, <1>2, <1>5, <1>6, <2>1
  <2>2. CASE class = "required"
    BY <1>1, <1>2, <1>5, <1>6, <2>2 DEF MaxOf
  <2> QED
    BY <1>5, <2>1, <2>2
<1>8. TurnHeld(rows, lease, t) \in Nat
  BY TypedRows, TotalsNat DEF TreeTypeOK
<1> QED
  BY <1>1, <1>2, <1>3, <1>4, <1>7, <1>8

LEMMA ReserveLaws ==
  ASSUME TreeTypeOK, \A t \in Tasks : Laws(t),
         NEW t \in Tasks, NEW plan \in Opt(Plans), NEW class \in Classes,
         NEW amount \in Amounts, NEW key \in Keys, NEW ttl \in TTLs,
         AtReserve(t, plan, class, amount, key, ttl)
  PROVE  LedgerTypeOK' /\ \A b \in Tasks : Laws(b)'
<1> DEFINE n == issued + 1
           drawn == DrawOf(t, class, amount)
           at == now + ttl
<1>1. /\ TypeOK' /\ amount \in Nat
      /\ drawn \in Nat /\ drawn <= budgets[t].reserve
      /\ budgets[t] # None /\ Admits(t, class, amount)
      /\ Inserted(n, t, plan, amount, drawn, at, t, None)
      /\ budgets'[t] # None
      /\ budgets'[t].limit = budgets[t].limit /\ budgets'[t].ceiling = budgets[t].ceiling
      /\ budgets'[t].reserve = budgets[t].reserve - drawn
      /\ \A u \in Tasks : u # t => budgets'[u] = budgets[u]
      /\ floor' = floor /\ UNCHANGED <<accounts, hard, renewals, under>>
  BY ReserveInserts
<1>2. budgets[t].reserve \in Nat
  BY <1>1 DEF TreeTypeOK, TypeOK, Opt, Budget
<1>3. /\ budgets[t].ceiling = None =>
           /\ amount - drawn <= budgets[t].limit - Count(rows, t) - budgets[t].reserve
           /\ drawn > amount =>
                drawn - amount = budgets[t].reserve - budgets[t].limit + Count(rows, t)
      /\ budgets[t].ceiling # None => TurnHeld(rows, lease, t) + amount <= budgets[t].ceiling
  BY ReserveRoom
<1> HIDE DEF n, drawn, at
<1>4. ReserveGains(t, 0 - drawn)
  BY <1>1, <1>2 DEF ReserveGains
<1>5. \A u \in Tasks : u # t => ReserveGains(u, 0) /\ floor'[u] = floor[u]
  <2>1. \A u \in Tasks : budgets[u] # None => budgets[u].reserve \in Nat
    BY DEF TreeTypeOK, TypeOK, Opt, Budget
  <2> QED
    BY <1>1, <2>1 DEF ReserveGains
<1>6. Laws(t)'
  BY <1>1, <1>3, <1>4, OwnGrantLaws
<1>7. \A b \in Tasks : b # t => Laws(b)'
  BY <1>1, <1>5, GrantLaws
<1>8. LedgerTypeOK'
  <2>1. t \in Accounts /\ None \in Opt(Children) /\ t \notin Children
    BY TreeAssumption DEF Accounts, Opt
  <2>2. hard' = hard /\ \A u \in Tasks : budgets'[u] # None =>
           budgets[u] # None /\ budgets'[u].limit = budgets[u].limit
    BY <1>1
  <2> QED
    BY <1>1, <2>1, <2>2, InsertedTypes
<1> QED
  BY <1>6, <1>7, <1>8

\* The accounts keep their tasks, and the tasks their budgets.
AccountsStand ==
  /\ accounts' \in [Children -> Opt(Account)]
  /\ \A c \in Children : /\ accounts'[c] = None <=> accounts[c] = None
                         /\ accounts[c] # None => accounts'[c].task = accounts[c].task
  /\ \A t \in Tasks : budgets[t] # None => budgets'[t] # None

LEMMA AccountsStandOk ==
  ASSUME TreeTypeOK, LedgerTypeOK', AccountsStand
  PROVE  TreeTypeOK'
<1>1. ASSUME NEW c \in Children PROVE AccountOk(c)'
  <2> SUFFICES ASSUME accounts'[c] # None
               PROVE  /\ Exists(ParentOf[c])' /\ accounts'[c].task = TaskOf(ParentOf[c])'
                      /\ budgets'[accounts'[c].task] # None
    BY DEF AccountOk
  <2>1. accounts[c] # None /\ accounts'[c].task = accounts[c].task
    BY DEF AccountsStand
  <2>2. /\ Exists(ParentOf[c]) /\ accounts[c].task = TaskOf(ParentOf[c])
        /\ budgets[accounts[c].task] # None
    BY <2>1 DEF TreeTypeOK, AccountOk
  <2>3. accounts[c].task \in Tasks
    BY <2>1 DEF TreeTypeOK, Opt, Account
  <2>4. ParentOf[c] \in Tasks \/ ParentOf[c] \in Children
    BY TreeAssumption DEF Accounts
  <2>5. CASE ParentOf[c] \in Tasks
    BY <2>1, <2>2, <2>3, <2>5 DEF Exists, TaskOf, AccountsStand
  <2>6. CASE ParentOf[c] \in Children /\ ParentOf[c] \notin Tasks
    <3> DEFINE p == ParentOf[c]
    <3>1. accounts[p] # None /\ accounts[c].task = accounts[p].task
      BY <2>2, <2>6 DEF Exists, TaskOf
    <3>2. accounts'[p] # None /\ accounts'[p].task = accounts[p].task
      BY <2>6, <3>1 DEF AccountsStand
    <3>3. budgets'[accounts'[c].task] # None
      BY <2>1, <2>2, <2>3 DEF AccountsStand
    <3> QED
      BY <2>1, <2>6, <3>1, <3>2, <3>3 DEF Exists, TaskOf
  <2> QED
    BY <2>4, <2>5, <2>6
<1> QED
  BY <1>1 DEF TreeTypeOK, LedgerTypeOK, AccountsStand

\* Whose budget pays for a sublease.
LEMMA PayerFacts ==
  ASSUME TreeTypeOK, NEW a \in Accounts, Exists(a)
  PROVE  /\ TaskOf(a) \in Tasks /\ budgets[TaskOf(a)] # None
         /\ a \in Tasks => TaskOf(a) = a
<1>1. CASE a \in Tasks
  BY <1>1 DEF Exists, TaskOf
<1>2. CASE a \in Children /\ a \notin Tasks
  <2>1. accounts[a] # None
    BY <1>2 DEF Exists
  <2>2. AccountOk(a) /\ accounts[a] \in Account
    BY <1>2, <2>1 DEF TreeTypeOK, Opt
  <2> QED
    BY <1>2, <2>1, <2>2 DEF AccountOk, Account, TaskOf
<1> QED
  BY <1>1, <1>2 DEF Accounts

LEMMA SubleaseInserts ==
  ASSUME TreeTypeOK, NEW a \in Accounts, NEW c \in Children, NEW amount \in Amounts, NEW key \in Keys, NEW ttl \in TTLs,
         GrantSublease(a, c, amount, key, ttl)
  PROVE  /\ TypeOK' /\ amount \in Nat /\ accounts[c] # None /\ Exists(a)
         /\ Inserted(issued + 1, TaskOf(a), None, amount, 0, now + ttl, a, c)
         /\ Affords(a, amount) /\ WithinFunding(a, now + ttl)
         /\ a \in Children => accounts[a].state = "open"
         /\ accounts'[c] \in Account /\ accounts'[c].task = accounts[c].task
         /\ accounts'[c].capacity = amount /\ accounts'[c].funding = issued + 1
         /\ accounts'[c].state = accounts[c].state
         /\ \A b \in Children : b # c => accounts'[b] = accounts[b]
         /\ AccountsStand
         /\ UNCHANGED <<now, budgets, floor, hard, renewals>>
         /\ under' = [under EXCEPT ![issued + 1] = IF a \in Children THEN accounts[a].funding ELSE None]
<1> DEFINE n == issued + 1
           row == [task |-> TaskOf(a), plan |-> None, key |-> key, amount |-> amount, drawn |-> 0,
                   state |-> "active", settled |-> None, expiresAt |-> now + ttl, late |-> FALSE]
           account == [accounts[c] EXCEPT !.capacity = amount, !.funding = n]
<1>0. TypeOK /\ amount \in Nat /\ ttl \in Nat /\ now \in Nat /\ issued \in 0..MaxRows /\ MaxRows \in Nat
  BY ReservationAssumption DEF TreeTypeOK, TypeOK
<1>1. /\ accounts[c] # None /\ Exists(a) /\ WithinFunding(a, now + ttl) /\ Affords(a, amount)
      /\ a \in Children => accounts[a].state = "open"
      /\ issued < MaxRows /\ issued' = n
      /\ rows' = [rows EXCEPT ![n] = row]
      /\ lease' = [lease EXCEPT ![n] = [account |-> a, grants |-> c]]
      /\ accounts' = [accounts EXCEPT ![c].capacity = amount, ![c].funding = n]
      /\ UNCHANGED <<now, budgets, floor, hard, renewals>>
      /\ under' = [under EXCEPT ![n] = IF a \in Children THEN accounts[a].funding ELSE None]
  BY DEF GrantSublease
<1>2. n \in Ids /\ n \in 0..MaxRows /\ n > issued
  BY <1>0, <1>1 DEF Ids
<1>3. a \in Accounts /\ TaskOf(a) \in Tasks /\ budgets[TaskOf(a)] # None
  BY <1>1, PayerFacts
<1>4. row \in Row
  BY <1>0, <1>3 DEF Row, Opt
<1>5. /\ row.task = TaskOf(a) /\ row.plan = None /\ row.amount = amount /\ row.drawn = 0
      /\ row.state = "active" /\ row.late = FALSE /\ row.expiresAt = now + ttl
  OBVIOUS
<1>6. accounts[c] \in Account
  BY <1>1 DEF TreeTypeOK, Opt
<1>7. /\ account \in Account /\ account.task = accounts[c].task
      /\ account.capacity = amount /\ account.funding = n /\ account.state = accounts[c].state
  BY <1>0, <1>2, <1>6 DEF Account, Opt
<1>8. accounts' = [accounts EXCEPT ![c] = account]
  BY <1>1 DEF TreeTypeOK
<1> HIDE DEF row, account
<1>9. accounts'[c] = account /\ \A b \in Children : b # c => accounts'[b] = accounts[b]
  BY <1>8 DEF TreeTypeOK
<1>10. rows'[n] = row /\ \A i \in Ids : i # n => rows'[i] = rows[i]
  BY <1>0, <1>1, <1>2 DEF TypeOK
<1>11. row # None /\ account # None
  BY <1>4, <1>7, RowAssumption, TreeAssumption
<1>12. TypeOK'
  <2>1. rows' \in [Ids -> Opt(Row)]
    BY <1>0, <1>1, <1>4 DEF TypeOK, Opt
  <2>2. \A i \in Ids : rows'[i] # None =>
          budgets'[rows'[i].task] # None /\ (rows'[i].state = "settled" => rows'[i].settled # None)
    BY <1>0, <1>1, <1>3, <1>5, <1>10 DEF TypeOK
  <2> QED
    BY <1>0, <1>1, <1>2, <2>1, <2>2 DEF TypeOK
<1>13. Inserted(n, TaskOf(a), None, amount, 0, now + ttl, a, c)
  <2>1. rows[n] = None /\ DOMAIN lease = Ids
    BY <1>2 DEF TreeTypeOK
  <2> QED
    BY <1>1, <1>2, <1>4, <1>5, <1>10, <1>11, <2>1 DEF Inserted
<1>14. AccountsStand
  <2>1. accounts' \in [Children -> Opt(Account)]
    BY <1>7, <1>8 DEF TreeTypeOK, Opt
  <2> QED
    BY <1>1, <1>7, <1>9, <1>11, <2>1 DEF AccountsStand
<1> QED
  BY <1>0, <1>1, <1>7, <1>9, <1>12, <1>13, <1>14

LEMMA SubleaseLaws ==
  ASSUME TreeTypeOK, \A t \in Tasks : Laws(t),
         NEW a \in Accounts, NEW c \in Children, NEW amount \in Amounts, NEW key \in Keys, NEW ttl \in TTLs,
         GrantSublease(a, c, amount, key, ttl)
  PROVE  TreeTypeOK' /\ \A b \in Tasks : Laws(b)'
<1> DEFINE n == issued + 1
           at == now + ttl
<1>0. accounts[c] # None /\ Exists(a)
  BY DEF GrantSublease
<1>2. PICK t \in Tasks : t = TaskOf(a) /\ a \in Accounts /\ budgets[t] # None /\ (a \in Tasks => t = a)
  BY <1>0, PayerFacts
<1>1. /\ TypeOK' /\ amount \in Nat /\ accounts[c] # None
      /\ Inserted(n, t, None, amount, 0, at, a, c)
      /\ Affords(a, amount) /\ AccountsStand
      /\ UNCHANGED <<now, budgets, floor, hard, renewals>>
  BY <1>2, SubleaseInserts
<1>3. \A b \in Tasks : ReserveGains(b, 0) /\ floor'[b] = floor[b]
  <2>1. \A u \in Tasks : budgets[u] # None => budgets[u].reserve \in Nat
    BY DEF TreeTypeOK, TypeOK, Opt, Budget
  <2> QED
    BY <1>1, <2>1 DEF ReserveGains
<1>4. c # None /\ 0 \in Nat
  BY TreeAssumption
<1> HIDE DEF n, at
<1>5. \A b \in Tasks : b # t \/ a # t => Laws(b)'
  BY <1>1, <1>2, <1>3, GrantLaws
<1>6. ASSUME a = t PROVE Laws(t)'
  <2>1. /\ hard[t] \in Nat /\ hard[t] <= budgets[t].limit
        /\ budgets[t].limit \in Nat /\ budgets[t].reserve \in Nat
    BY <1>2 DEF TreeTypeOK, TypeOK, Opt, Budget
  <2>2. amount <= hard[t] - ActiveAgainst(t) - SettledAgainst(t) - budgets[t].reserve
    <3>1. hard[t] # None
      BY <2>1, ReservationAssumption
    <3> QED
      BY <1>1, <1>2, <1>6, <3>1 DEF Affords, Capacity, Protected
  <2>3. /\ Direct(t) => Count(rows, t) = ActiveAgainst(t) + SettledAgainst(t)
        /\ ActiveAgainst(t) \in Nat /\ SettledAgainst(t) \in Nat
    BY <1>2, <1>6, CountedByAccount
  <2> HIDE DEF Direct
  <2> DEFINE d == 0
  <2>4. Direct(t) => amount - d <= budgets[t].limit - Count(rows, t) - budgets[t].reserve
    BY <1>1, <2>1, <2>2, <2>3
  <2>5. ReserveGains(t, 0 - d) /\ floor'[t] = floor[t]
    BY <1>2, <1>3
  <2>6. Inserted(n, t, None, amount, d, at, t, c) /\ ~ (d > amount) /\ d \in Nat
    BY <1>1, <1>6
  <2> HIDE DEF d
  <2> QED
    BY <1>1, <1>2, <1>4, <2>4, <2>5, <2>6, OwnGrantLaws
<1>7. LedgerTypeOK'
  <2>1. c \in Opt(Children) /\ budgets' = budgets /\ hard' = hard
    BY <1>1 DEF Opt
  <2> QED
    BY <1>1, <1>2, <1>4, <2>1, InsertedTypes
<1>8. TreeTypeOK'
  BY <1>1, <1>7, AccountsStandOk
<1>9. ASSUME NEW b \in Tasks PROVE Laws(b)'
  <2>1. CASE b # t \/ a # t
    BY <1>5, <2>1
  <2>2. CASE b = t /\ a = t
    <3>1. Laws(t)'
      BY <1>6, <2>2
    <3> QED
      BY <2>2, <3>1
  <2> QED
    BY <2>1, <2>2
<1> QED
  BY <1>8, <1>9

-----------------------------------------------------------------------------
(* Budgets: set up, adjusted, renewed. *)

LEMMA SameRowsTypes ==
  ASSUME TreeTypeOK, TypeOK', UNCHANGED <<rows, lease, issued>>,
         hard' \in [Tasks -> Nat], \A t \in Tasks : budgets'[t] # None => hard'[t] <= budgets'[t].limit
  PROVE  LedgerTypeOK'
<1>1. ASSUME NEW i \in Ids PROVE LeaseOk(i)'
  <2>1. LeaseOk(i)
    BY DEF TreeTypeOK
  <2> QED
    BY <2>1 DEF LeaseOk
<1> QED
  BY <1>1 DEF TreeTypeOK, LedgerTypeOK

\* A budget whose rows and leases stay.
LEMMA BudgetLaws ==
  ASSUME TreeTypeOK, NEW t \in Tasks, budgets'[t] # None, UNCHANGED <<rows, lease>>,
         budgets'[t].ceiling = None /\ Direct(t) =>
           /\ budgets'[t].reserve + Room(rows, t) <= budgets'[t].limit
           /\ Room(rows, t) <= Count(rows, t),
         budgets'[t].ceiling # None => TurnHeld(rows, lease, t) <= budgets'[t].ceiling,
         budgets'[t].reserve + Draws(rows, t) = floor'[t]
  PROVE  Laws(t)'
<1>1. /\ Room(rows', t) = Room(rows, t) /\ Count(rows', t) = Count(rows, t)
      /\ Draws(rows', t) = Draws(rows, t) /\ TurnHeld(rows', lease', t) = TurnHeld(rows, lease, t)
  OBVIOUS
<1>2. Direct(t)' => Direct(t)
  BY DEF Direct
<1> HIDE DEF Direct
<1>3. /\ budgets'[t].ceiling = None /\ Direct(t)' =>
           /\ budgets'[t].reserve + Room(rows', t) <= budgets'[t].limit
           /\ Room(rows', t) <= Count(rows', t)
      /\ budgets'[t].ceiling # None => TurnHeld(rows', lease', t) <= budgets'[t].ceiling
      /\ budgets'[t].reserve + Draws(rows', t) = floor'[t]
  BY <1>1, <1>2
<1> QED
  BY <1>3 DEF Laws

\* A task without a budget has no rows.
LEMMA NoRowsYet ==
  ASSUME TreeTypeOK, NEW t \in Tasks, budgets[t] = None
  PROVE  /\ Room(rows, t) = 0 /\ Count(rows, t) = 0 /\ Draws(rows, t) = 0
         /\ TurnHeld(rows, lease, t) = 0
<1> DEFINE f1 == [i \in Ids |-> RoomAt(rows, t, i)]
           f2 == [i \in Ids |-> CountAt(rows, t, i)]
           f3 == [i \in Ids |-> DrawAt(rows, t, i)]
           f4 == [i \in Ids |-> TurnAt(rows, lease, t, i)]
<1>1. ASSUME NEW i \in Ids PROVE f1[i] = 0 /\ f2[i] = 0 /\ f3[i] = 0 /\ f4[i] = 0
  <2>1. rows[i] # None => rows[i].task # t
    BY DEF TreeTypeOK, TypeOK
  <2>2. rows[i] # None => lease[i].account # t
    BY <2>1, LeaseFacts
  <2> QED
    BY <2>1, <2>2 DEF RoomAt, CountAt, DrawAt, TurnAt
<1> HIDE DEF f1, f2, f3, f4
<1>2. Sum(f1) = 0 /\ Sum(f2) = 0 /\ Sum(f3) = 0 /\ Sum(f4) = 0
  BY <1>1, TableSumZero
<1> QED
  BY <1>2 DEF f1, f2, f3, f4, Room, Count, Draws, TurnHeld

LEMMA InitializeLaws ==
  ASSUME TreeTypeOK, \A t \in Tasks : Laws(t),
         NEW t \in Tasks, NEW policy \in Policies, NEW e \in Reserves,
         AtInitializeTaskBudget(t, policy, e)
  PROVE  TreeTypeOK' /\ \A b \in Tasks : Laws(b)'
<1> DEFINE budget == [limit |-> policy.limit, ceiling |-> policy.ceiling, reserve |-> ReserveFor(e, policy)]
<1>0. /\ policy \in [limit: Nat, ceiling: Opt(Nat)] /\ e \in Nat
      /\ InitializeTaskBudget(t, policy, e) /\ TypeOK
  BY ReservationAssumption DEF AtInitializeTaskBudget, TreeTypeOK
<1>1. TypeOK' /\ Kept /\ budgets'[t] # None
  BY <1>0, InitializeLedger
<1>2. /\ budgets[t] = None /\ budgets' = [budgets EXCEPT ![t] = budget]
      /\ floor' = [floor EXCEPT ![t] = ReserveFor(e, policy)]
      /\ hard' = [hard EXCEPT ![t] = policy.limit]
      /\ UNCHANGED <<now, rows, issued, accounts, lease, renewals>>
  BY DEF AtInitializeTaskBudget, InitializeTaskBudget
<1>3. /\ policy.limit \in Nat /\ policy.ceiling \in Opt(Nat)
      /\ ReserveFor(e, policy) \in Nat /\ ReserveFor(e, policy) <= policy.limit
  BY <1>0 DEF ReserveFor, MinOf
<1>4. budget.limit = policy.limit /\ budget.ceiling = policy.ceiling /\ budget.reserve = ReserveFor(e, policy)
  OBVIOUS
<1> HIDE DEF budget
<1>5. /\ budgets'[t] = budget /\ floor'[t] = ReserveFor(e, policy) /\ hard'[t] = policy.limit
      /\ \A u \in Tasks : u # t => budgets'[u] = budgets[u] /\ floor'[u] = floor[u] /\ hard'[u] = hard[u]
      /\ hard' \in [Tasks -> Nat]
  BY <1>0, <1>2, <1>3 DEF TypeOK, TreeTypeOK
<1>6. LedgerTypeOK'
  <2>1. \A u \in Tasks : budgets'[u] # None => hard'[u] <= budgets'[u].limit
    BY <1>3, <1>4, <1>5 DEF TreeTypeOK
  <2> QED
    BY <1>1, <1>2, <1>5, <2>1, SameRowsTypes
<1>7. AccountsStand
  BY <1>1, <1>2, <1>5 DEF AccountsStand, TreeTypeOK
<1>8. TreeTypeOK'
  BY <1>6, <1>7, AccountsStandOk
<1>9. Laws(t)'
  <2>1. /\ Room(rows, t) = 0 /\ Count(rows, t) = 0 /\ Draws(rows, t) = 0
        /\ TurnHeld(rows, lease, t) = 0
    BY <1>2, NoRowsYet
  <2>2. policy.ceiling # None => 0 <= policy.ceiling
    BY <1>3 DEF Opt
  <2> QED
    BY <1>1, <1>2, <1>3, <1>4, <1>5, <2>1, <2>2, BudgetLaws
<1>10. ASSUME NEW b \in Tasks, b # t PROVE Laws(b)'
  <2>1. ReserveGains(b, 0) /\ floor'[b] = floor[b]
    BY <1>0, <1>5, <1>10 DEF ReserveGains, TypeOK, Opt, Budget
  <2> QED
    BY <1>0, <1>1, <1>2, <2>1, SameLaws
<1> QED
  BY <1>8, <1>9, <1>10

\* A raise fits what the check counts, and so what the rows take room for.
LEMMA AdjustLaws ==
  ASSUME TreeTypeOK, \A t \in Tasks : Laws(t), NEW t \in Tasks, NEW e \in Reserves, AtAdjust(t, e)
  PROVE  TreeTypeOK' /\ \A b \in Tasks : Laws(b)'
<1>0. e \in Nat /\ AdjustCompletionReserve(t, e) /\ TypeOK
  BY ReservationAssumption DEF AtAdjust, TreeTypeOK
<1>1. TypeOK' /\ Kept /\ budgets'[t] # None
  BY <1>0, AdjustLedger
<1>2. /\ budgets[t] # None /\ Adjustable(t, e) /\ budgets' = [budgets EXCEPT ![t].reserve = e]
      /\ floor' = [floor EXCEPT ![t] = @ + e - budgets[t].reserve]
      /\ UNCHANGED <<now, rows, issued, accounts, lease, hard, renewals>>
  BY DEF AtAdjust, AdjustCompletionReserve
<1>3. /\ budgets[t] \in Budget /\ budgets[t].reserve \in Nat /\ budgets[t].limit \in Nat
      /\ budgets[t].ceiling # None => budgets[t].ceiling \in Nat
  BY <1>0, <1>2 DEF TypeOK, Opt, Budget
<1> DEFINE budget == [budgets[t] EXCEPT !.reserve = e]
<1>4. budget.limit = budgets[t].limit /\ budget.ceiling = budgets[t].ceiling /\ budget.reserve = e
  BY <1>3 DEF Budget
<1>5. /\ budgets'[t] = budget /\ floor'[t] = floor[t] + e - budgets[t].reserve
      /\ \A u \in Tasks : u # t => budgets'[u] = budgets[u] /\ floor'[u] = floor[u]
  BY <1>0, <1>2 DEF TypeOK
<1> HIDE DEF budget
<1>6. LedgerTypeOK'
  <2>1. \A u \in Tasks : budgets'[u] # None => hard'[u] <= budgets'[u].limit
    BY <1>2, <1>4, <1>5 DEF TreeTypeOK
  <2>2. hard' \in [Tasks -> Nat]
    BY <1>2 DEF TreeTypeOK
  <2> QED
    BY <1>1, <1>2, <2>1, <2>2, SameRowsTypes
<1>7. AccountsStand
  BY <1>1, <1>2, <1>5 DEF AccountsStand, TreeTypeOK
<1>8. TreeTypeOK'
  BY <1>6, <1>7, AccountsStandOk
<1>9. Laws(t)'
  <2>1. /\ Count(rows, t) = ActiveSum(t) + SettledSum(t)
        /\ ActiveSum(t) \in Nat /\ SettledSum(t) \in Nat
    BY CountedByTask
  <2>2. Room(rows, t) \in Nat /\ Draws(rows, t) \in Nat /\ TurnHeld(rows, lease, t) \in Nat
    BY <1>0, TypedRows, TotalsNat
  <2>3. budgets[t].ceiling = None /\ e > budgets[t].reserve => e <= budgets[t].limit - Count(rows, t)
    BY <1>0, <1>2, <1>3, <2>1 DEF Adjustable, GateHeadroom
  <2>4. /\ budgets[t].ceiling = None /\ Direct(t) =>
             /\ budgets[t].reserve + Room(rows, t) <= budgets[t].limit
             /\ Room(rows, t) <= Count(rows, t)
        /\ budgets[t].ceiling # None => TurnHeld(rows, lease, t) <= budgets[t].ceiling
        /\ budgets[t].reserve + Draws(rows, t) = floor[t]
    BY <1>2 DEF Laws
  <2> HIDE DEF Direct
  <2>5. budgets'[t].ceiling = None /\ Direct(t) =>
          /\ budgets'[t].reserve + Room(rows, t) <= budgets'[t].limit
          /\ Room(rows, t) <= Count(rows, t)
    BY <1>0, <1>3, <1>4, <1>5, <2>1, <2>2, <2>3, <2>4
  <2>6. budgets'[t].ceiling # None => TurnHeld(rows, lease, t) <= budgets'[t].ceiling
    BY <1>4, <1>5, <2>4
  <2>7. budgets'[t].reserve + Draws(rows, t) = floor'[t]
    <3>1. floor[t] \in Int
      BY <1>0 DEF TypeOK
    <3> QED
      BY <1>0, <1>3, <1>4, <1>5, <2>2, <2>4, <3>1
  <2> QED
    BY <1>1, <1>2, <2>5, <2>6, <2>7, BudgetLaws
<1>10. ASSUME NEW b \in Tasks, b # t PROVE Laws(b)'
  <2>1. ReserveGains(b, 0) /\ floor'[b] = floor[b]
    BY <1>0, <1>5, <1>10 DEF ReserveGains, TypeOK, Opt, Budget
  <2> QED
    BY <1>0, <1>1, <1>2, <2>1, SameLaws
<1> QED
  BY <1>8, <1>9, <1>10

LEMMA RenewalLaws ==
  ASSUME TreeTypeOK, \A t \in Tasks : Laws(t), NEW t \in Tasks, NEW key \in Keys,
         NEW amount \in RenewalAmounts, GrantRenewal(t, key, amount)
  PROVE  TreeTypeOK' /\ \A b \in Tasks : Laws(b)'
<1>0. amount \in Nat /\ TypeOK
  BY TreeAssumption DEF TreeTypeOK
<1>2. /\ budgets[t] # None /\ budgets' = [budgets EXCEPT ![t].limit = @ + amount]
      /\ UNCHANGED <<now, rows, issued, floor, accounts, lease, hard>>
  BY DEF GrantRenewal
<1>3. budgets[t] \in Budget /\ budgets[t].reserve \in Nat /\ budgets[t].limit \in Nat
  BY <1>0, <1>2 DEF TypeOK, Opt, Budget
<1> DEFINE budget == [budgets[t] EXCEPT !.limit = @ + amount]
<1>4. /\ budget \in Budget /\ budget.limit = budgets[t].limit + amount
      /\ budget.ceiling = budgets[t].ceiling /\ budget.reserve = budgets[t].reserve
  BY <1>0, <1>3 DEF Budget
<1>5. /\ budgets'[t] = budget /\ \A u \in Tasks : u # t => budgets'[u] = budgets[u]
      /\ budgets' = [budgets EXCEPT ![t] = budget]
  BY <1>0, <1>2 DEF TypeOK
<1> HIDE DEF budget
<1>1. TypeOK' /\ budgets'[t] # None
  <2>1. budgets' \in [Tasks -> Opt(Budget)] /\ budgets'[t] # None
    BY <1>0, <1>4, <1>5, RowAssumption DEF TypeOK, Opt
  <2> QED
    BY <1>0, <1>2, <1>5, <2>1 DEF TypeOK
<1>6. LedgerTypeOK'
  <2>1. \A u \in Tasks : budgets'[u] # None => hard'[u] <= budgets'[u].limit
    BY <1>0, <1>2, <1>3, <1>4, <1>5 DEF TreeTypeOK
  <2>2. hard' \in [Tasks -> Nat]
    BY <1>2 DEF TreeTypeOK
  <2> QED
    BY <1>1, <1>2, <2>1, <2>2, SameRowsTypes
<1>7. AccountsStand
  BY <1>1, <1>2, <1>5 DEF AccountsStand, TreeTypeOK
<1>8. TreeTypeOK'
  BY <1>6, <1>7, AccountsStandOk
<1>9. Laws(t)'
  <2>1. Room(rows, t) \in Nat
    BY <1>0, TypedRows, TotalsNat
  <2>2. /\ budgets[t].ceiling = None /\ Direct(t) =>
             /\ budgets[t].reserve + Room(rows, t) <= budgets[t].limit
             /\ Room(rows, t) <= Count(rows, t)
        /\ budgets[t].ceiling # None => TurnHeld(rows, lease, t) <= budgets[t].ceiling
        /\ budgets[t].reserve + Draws(rows, t) = floor[t]
    BY <1>2 DEF Laws
  <2> HIDE DEF Direct
  <2>3. budgets'[t].ceiling = None /\ Direct(t) =>
          /\ budgets'[t].reserve + Room(rows, t) <= budgets'[t].limit
          /\ Room(rows, t) <= Count(rows, t)
    BY <1>0, <1>3, <1>4, <1>5, <2>1, <2>2
  <2> QED
    BY <1>1, <1>2, <1>4, <1>5, <2>2, <2>3, BudgetLaws
<1>10. ASSUME NEW b \in Tasks, b # t PROVE Laws(b)'
  <2>1. ReserveGains(b, 0) /\ floor'[b] = floor[b]
    BY <1>0, <1>2, <1>5, <1>10 DEF ReserveGains, TypeOK, Opt, Budget
  <2> QED
    BY <1>0, <1>1, <1>2, <2>1, SameLaws
<1> QED
  BY <1>8, <1>9, <1>10

\* Provisioning an account touches neither rows nor budgets.
LEMMA ProvisionTypes ==
  ASSUME TreeTypeOK, NEW c \in Children, EnsureChildAccount(c)
  PROVE  TreeTypeOK'
<1> DEFINE a == ParentOf[c]
           account == [task |-> TaskOf(a), capacity |-> None, funding |-> None, state |-> "open"]
<1>1. /\ Exists(a) /\ accounts[c] = None /\ accounts' = [accounts EXCEPT ![c] = account]
      /\ UNCHANGED <<vars, lease, hard, renewals>>
  BY DEF EnsureChildAccount
<1>2. a \in Tasks \/ a \in Children
  BY TreeAssumption DEF Accounts
<1>3. TaskOf(a) \in Tasks /\ budgets[TaskOf(a)] # None /\ a # c
  <2>1. CASE a \in Tasks
    BY <1>1, <2>1, TreeAssumption DEF TaskOf, Exists
  <2>2. CASE a \in Children /\ a \notin Tasks
    <3>1. accounts[a] # None /\ AccountOk(a) /\ accounts[a] \in Account
      BY <1>1, <2>2 DEF Exists, TreeTypeOK, Opt
    <3> QED
      BY <1>1, <2>2, <3>1 DEF AccountOk, TaskOf, Account
  <2> QED
    BY <1>2, <2>1, <2>2
<1>4. account \in Account /\ account.task = TaskOf(a)
  BY <1>3 DEF Account, Opt
<1> HIDE DEF account
<1>5. accounts'[c] = account /\ \A b \in Children : b # c => accounts'[b] = accounts[b]
  BY <1>1 DEF TreeTypeOK
<1>6. accounts' \in [Children -> Opt(Account)]
  BY <1>1, <1>4 DEF TreeTypeOK, Opt
<1>7. TypeOK' /\ UNCHANGED <<now, budgets, rows, issued, floor, lease, hard>>
  BY <1>1 DEF vars, TypeOK, TreeTypeOK
<1>8. ASSUME NEW b \in Children PROVE AccountOk(b)'
  <2> DEFINE p == ParentOf[b]
  <2>1. p \in Tasks \/ p \in Children
    BY TreeAssumption DEF Accounts
  <2>2. CASE b = c
    <3>1. TaskOf(a)' = TaskOf(a) /\ Exists(a)'
      BY <1>1, <1>2, <1>3, <1>5, <1>7 DEF TaskOf, Exists
    <3> QED
      BY <1>3, <1>4, <1>5, <1>7, <2>2, <3>1 DEF AccountOk
  <2>3. CASE b # c /\ accounts[b] # None
    <3>1. AccountOk(b) /\ accounts'[b] = accounts[b]
      BY <1>5, <2>3 DEF TreeTypeOK
    <3>2. Exists(p) /\ accounts[b].task = TaskOf(p) /\ budgets[accounts[b].task] # None
      BY <2>3, <3>1 DEF AccountOk
    <3>3. p # c
      BY <1>1, <3>2, TreeAssumption DEF Exists
    <3>4. TaskOf(p)' = TaskOf(p) /\ Exists(p)'
      BY <1>5, <1>7, <2>1, <3>2, <3>3 DEF TaskOf, Exists
    <3> QED
      BY <1>7, <3>1, <3>2, <3>4 DEF AccountOk
  <2>4. CASE b # c /\ accounts[b] = None
    BY <1>5, <2>4 DEF AccountOk
  <2> QED
    BY <2>2, <2>3, <2>4
<1>9. LedgerTypeOK'
  BY <1>7, SameRowsTypes DEF TreeTypeOK
<1> QED
  BY <1>6, <1>8, <1>9 DEF LedgerTypeOK, TreeTypeOK

-----------------------------------------------------------------------------
(* The types and the laws after any step. *)

LEMMA UntouchedAccounts ==
  ASSUME TreeTypeOK, accounts' = accounts, \A t \in Tasks : budgets[t] # None => budgets'[t] # None
  PROVE  AccountsStand
BY DEF AccountsStand, TreeTypeOK

LEMMA ExpireAccounts ==
  ASSUME TreeTypeOK, AtExpire
  PROVE  /\ AccountsStand
         /\ \A c \in Children :
              accounts[c] # None =>
                /\ accounts'[c].capacity = accounts[c].capacity
                /\ accounts'[c].funding = accounts[c].funding
                /\ accounts'[c].state =
                     IF \E i \in Stale : lease[i].grants = c THEN "expired" ELSE accounts[c].state
<1>1. accounts' = [c \in Children |->
        IF accounts[c] # None /\ \E i \in Stale : lease[i].grants = c
        THEN [accounts[c] EXCEPT !.state = "expired"] ELSE accounts[c]]
  BY DEF AtExpire
<1>2. ASSUME NEW c \in Children, accounts[c] # None
      PROVE  /\ [accounts[c] EXCEPT !.state = "expired"] \in Account
             /\ [accounts[c] EXCEPT !.state = "expired"].task = accounts[c].task
             /\ [accounts[c] EXCEPT !.state = "expired"].capacity = accounts[c].capacity
             /\ [accounts[c] EXCEPT !.state = "expired"].funding = accounts[c].funding
             /\ [accounts[c] EXCEPT !.state = "expired"].state = "expired"
  <2>1. accounts[c] \in Account
    BY <1>2 DEF TreeTypeOK, Opt
  <2> QED
    BY <2>1 DEF Account
<1>3. \A t \in Tasks : budgets[t] # None => budgets'[t] # None
  <2>1. /\ TypeOK /\ Stale \in SUBSET Ids /\ \A i \in Stale : rows[i] # None
        /\ Ended(Stale, "expired")
    BY DEF TreeTypeOK, AtExpire, ExpireStaleReservations, Stale
  <2> QED
    BY <2>1, EndedTerms DEF ReserveGains
<1>4. accounts' \in [Children -> Opt(Account)]
  BY <1>1, <1>2 DEF TreeTypeOK, Opt
<1>5. \A c \in Children : /\ accounts'[c] = None <=> accounts[c] = None
                          /\ accounts[c] # None => accounts'[c].task = accounts[c].task
  BY <1>1, <1>2, TreeAssumption
<1>6. AccountsStand
  BY <1>3, <1>4, <1>5 DEF AccountsStand
<1> QED
  BY <1>1, <1>2, <1>6

LEMMA StepLaws ==
  ASSUME TreeTypeOK, \A t \in Tasks : Laws(t), [AtNext]_atVars
  PROVE  TreeTypeOK' /\ \A t \in Tasks : Laws(t)'
<1>0. TypeOK /\ \A t \in Tasks : budgets[t] # None => budgets[t].reserve \in Nat
  BY DEF TreeTypeOK, TypeOK, Opt, Budget
<1>1. ASSUME UNCHANGED <<budgets, rows, issued, floor, lease, hard>>, now' \in Nat, TreeTypeOK'
      PROVE  \A t \in Tasks : Laws(t)'
  <2>1. TypeOK' /\ \A t \in Tasks : ReserveGains(t, 0) /\ floor'[t] = floor[t]
    BY <1>0, <1>1 DEF ReserveGains, TreeTypeOK
  <2> QED
    BY <1>0, <1>1, <2>1, SameLaws
<1>2. ASSUME UNCHANGED <<budgets, rows, issued, floor, accounts, lease, hard>>, now' \in Nat
      PROVE  TreeTypeOK' /\ \A t \in Tasks : Laws(t)'
  <2>1. TypeOK'
    BY <1>0, <1>2 DEF TypeOK
  <2>2. LedgerTypeOK'
    BY <1>2, <2>1, SameRowsTypes DEF TreeTypeOK
  <2>3. TreeTypeOK'
    BY <1>2, <2>2, UntouchedAccounts, AccountsStandOk
  <2> QED
    BY <1>1, <1>2, <2>3
<1>3. ASSUME UNCHANGED atVars PROVE TreeTypeOK' /\ \A t \in Tasks : Laws(t)'
  BY <1>0, <1>2, <1>3 DEF atVars, vars, TypeOK
<1>4. ASSUME AtTick PROVE TreeTypeOK' /\ \A t \in Tasks : Laws(t)'
  BY <1>0, <1>2, <1>4 DEF AtTick, Tick, TypeOK
<1>5. ASSUME AtExpire PROVE TreeTypeOK' /\ \A t \in Tasks : Laws(t)'
  <2>1. /\ Stale \in SUBSET Ids /\ \A i \in Stale : rows[i] # None /\ rows[i].state = "active"
        /\ Ended(Stale, "expired") /\ UNCHANGED <<lease, hard>>
    BY <1>5 DEF AtExpire, ExpireStaleReservations, Stale
  <2>2. LedgerTypeOK' /\ \A t \in Tasks : Laws(t)'
    BY <2>1, EndedLaws
  <2> QED
    BY <1>5, <2>2, ExpireAccounts, AccountsStandOk
<1>6. ASSUME NEW t \in Tasks, NEW plan \in Plans, AtReleaseForPlan(t, plan)
      PROVE  TreeTypeOK' /\ \A b \in Tasks : Laws(b)'
  <2> DEFINE S == {i \in Of(t, "active") : rows[i].plan = plan}
  <2>1. /\ S \in SUBSET Ids /\ \A i \in S : rows[i] # None /\ rows[i].state = "active"
        /\ Ended(S, "released") /\ UNCHANGED <<lease, hard>> /\ accounts' = accounts
    BY <1>6 DEF AtReleaseForPlan, ReleaseActiveForPlan, Of
  <2> HIDE DEF S
  <2>2. LedgerTypeOK' /\ \A b \in Tasks : Laws(b)'
    BY <2>1, EndedLaws
  <2>3. \A b \in Tasks : budgets[b] # None => budgets'[b] # None
    BY <1>0, <2>1, EndedTerms DEF ReserveGains
  <2> QED
    BY <2>1, <2>2, <2>3, UntouchedAccounts, AccountsStandOk
<1>7. ASSUME NEW i \in Ids, Ends(i)
      PROVE  TreeTypeOK' /\ \A t \in Tasks : Laws(t)'
  <2>0. rows[i] # None /\ UNCHANGED <<lease, hard>> /\ accounts' = accounts
    BY <1>7 DEF Ends
  <2>1. CASE Release(i)
    <3>1. {i} \in SUBSET Ids /\ (\A k \in {i} : rows[k] # None /\ rows[k].state = "active") /\ Ended({i}, "released")
      BY <2>1 DEF Release
    <3>2. LedgerTypeOK' /\ \A t \in Tasks : Laws(t)'
      BY <2>0, <3>1, EndedLaws
    <3>3. \A t \in Tasks : budgets[t] # None => budgets'[t] # None
      BY <1>0, <3>1, EndedTerms DEF ReserveGains
    <3> QED
      BY <2>0, <3>2, <3>3, UntouchedAccounts, AccountsStandOk
  <2>2. ASSUME NEW a \in Opt(Amounts), Settle(i, a)
        PROVE  TreeTypeOK' /\ \A t \in Tasks : Laws(t)'
    <3>1. LedgerTypeOK' /\ \A t \in Tasks : Laws(t)'
      BY <2>0, <2>2, SettledLaws
    <3>2. \A t \in Tasks : budgets[t] # None => budgets'[t] # None
      BY <1>0, <2>2, SettleTerms DEF ReserveGains
    <3> QED
      BY <2>0, <3>1, <3>2, UntouchedAccounts, AccountsStandOk
  <2> QED
    BY <1>7, <2>1, <2>2 DEF Ends
<1>8. ASSUME NEW t \in Tasks, NEW plan \in Opt(Plans), NEW class \in Classes, NEW a \in Amounts,
             NEW k \in Keys, NEW ttl \in TTLs, AtReserve(t, plan, class, a, k, ttl)
      PROVE  TreeTypeOK' /\ \A b \in Tasks : Laws(b)'
  <2>1. LedgerTypeOK' /\ \A b \in Tasks : Laws(b)'
    BY <1>8, ReserveLaws
  <2>2. accounts' = accounts /\ \A b \in Tasks : budgets[b] # None => budgets'[b] # None
    <3>1. /\ budgets'[t] # None /\ \A u \in Tasks : u # t => budgets'[u] = budgets[u]
          /\ UNCHANGED <<accounts, hard, renewals, under>>
      BY <1>8, ReserveInserts
    <3> QED
      BY <3>1
  <2> QED
    BY <2>1, <2>2, UntouchedAccounts, AccountsStandOk
<1>9. ASSUME NEW c \in Children, EnsureChildAccount(c)
      PROVE  TreeTypeOK' /\ \A t \in Tasks : Laws(t)'
  <2>1. TreeTypeOK'
    BY <1>9, ProvisionTypes
  <2>2. UNCHANGED <<budgets, rows, issued, floor, lease, hard>> /\ now' \in Nat
    BY <1>0, <1>9 DEF EnsureChildAccount, vars, TypeOK
  <2> QED
    BY <1>1, <2>1, <2>2
<1>10. ASSUME NEW c \in Children, NEW a \in Payers[c], NEW amount \in Amounts, NEW k \in Keys,
              NEW ttl \in TTLs, GrantSublease(a, c, amount, k, ttl)
       PROVE  TreeTypeOK' /\ \A t \in Tasks : Laws(t)'
  <2>1. a \in Accounts
    BY TreeAssumption
  <2> QED
    BY <1>10, <2>1, SubleaseLaws
<1> QED
  BY <1>3, <1>4, <1>5, <1>6, <1>7, <1>8, <1>9, <1>10, InitializeLaws, AdjustLaws, RenewalLaws
     DEF AtNext

-----------------------------------------------------------------------------
(* What the task's account holds, while no draw is larger than its reservation. *)

\* Each row gives back g[i] of what it holds.
LEMMA HeldLess ==
  ASSUME NEW R, RowsTyped(R), NEW Q, RowsTyped(Q), NEW L, NEW M, NEW a, NEW g,
         \A i \in Ids : g[i] \in Nat /\ HeldAt(Q, M, a, i) + g[i] <= HeldAt(R, L, a, i)
  PROVE  Held(Q, M, a) + Sum(g) <= Held(R, L, a)
<1> DEFINE h1 == [i \in Ids |-> HeldAt(R, L, a, i)]
           h2 == [i \in Ids |-> HeldAt(Q, M, a, i)]
           h3 == [i \in Ids |-> h2[i] + g[i]]
<1>1. \A i \in Ids : HeldAt(R, L, a, i) \in Nat /\ HeldAt(Q, M, a, i) \in Nat
  BY PartsNat
<1>2. \A i \in Ids : /\ h1[i] \in Int /\ h2[i] \in Int /\ g[i] \in Int
                     /\ h3[i] = h2[i] + g[i] /\ h3[i] <= h1[i] /\ h3[i] \in Int
  BY <1>1
<1> HIDE DEF h1, h2, h3
<1>3. Sum(h3) = Sum(h2) + Sum(g) /\ Sum(h3) <= Sum(h1)
  BY <1>2, TableSumPlus, TableSumLe
<1> QED
  BY <1>3 DEF h1, h2, Held

\* No row holds more than before.
LEMMA HeldNoMore ==
  ASSUME NEW R, RowsTyped(R), NEW Q, RowsTyped(Q), NEW L, NEW M, NEW a, NEW b,
         \A i \in Ids : HeldAt(Q, M, b, i) <= HeldAt(R, L, a, i)
  PROVE  Held(Q, M, b) <= Held(R, L, a)
<1> DEFINE h1 == [i \in Ids |-> HeldAt(R, L, a, i)]
           h2 == [i \in Ids |-> HeldAt(Q, M, b, i)]
<1>1. \A i \in Ids : h1[i] \in Int /\ h2[i] \in Int /\ h2[i] <= h1[i]
  BY PartsNat
<1> HIDE DEF h1, h2
<1>2. Sum(h2) <= Sum(h1)
  BY <1>1, TableSumLe
<1> QED
  BY <1>2 DEF h1, h2, Held

\* What a task's account holds is counted for the task.
LEMMA HeldCounted ==
  ASSUME TreeTypeOK, NEW t \in Tasks
  PROVE  /\ Held(rows, lease, t) <= Count(rows, t)
         /\ Held(rows, lease, t) \in Nat /\ Count(rows, t) \in Nat
<1> DEFINE f == [i \in Ids |-> HeldAt(rows, lease, t, i)]
           g == [i \in Ids |-> CountAt(rows, t, i)]
<1>0. RowsTyped(rows)
  BY TypedRows DEF TreeTypeOK
<1>1. ASSUME NEW i \in Ids PROVE f[i] \in Int /\ g[i] \in Int /\ f[i] <= g[i]
  <2>1. HeldAt(rows, lease, t, i) \in Nat /\ CountAt(rows, t, i) \in Nat
    BY <1>0, PartsNat
  <2>2. rows[i] # None =>
          /\ rows[i].amount \in Nat /\ (rows[i].state = "settled" => rows[i].settled \in Nat)
          /\ lease[i].account = t => rows[i].task = t
    BY <1>0, LeaseFacts DEF RowsTyped, Row, Opt
  <2>3. HeldAt(rows, lease, t, i) <= CountAt(rows, t, i)
    <3>1. CASE rows[i] # None /\ lease[i].account = t
      BY <2>2, <3>1 DEF HeldAt, HeldOf, MinOf, CountAt
    <3>2. CASE ~(rows[i] # None /\ lease[i].account = t)
      BY <2>1, <3>2 DEF HeldAt
    <3> QED
      BY <3>1, <3>2
  <2> QED
    BY <2>1, <2>3
<1> HIDE DEF f, g
<1>2. Sum(f) <= Sum(g)
  BY <1>1, TableSumLe
<1> QED
  BY <1>0, <1>2, TotalsNat DEF f, g, Held, Count

LEMMA BackedKept ==
  ASSUME TypeOK, TypeOK', NEW t \in Tasks, NEW n \in Nat, Backed(t), ReserveGains(t, n),
         NoOverdraw(t)' => NoOverdraw(t),
         NoOverdraw(t) => Held(rows', lease', t) + n <= Held(rows, lease, t)
  PROVE  Backed(t)'
<1> SUFFICES ASSUME budgets'[t] # None, budgets'[t].ceiling = None, NoOverdraw(t)'
             PROVE  budgets'[t].reserve + Held(rows', lease', t) <= budgets'[t].limit
  BY DEF Backed
<1>1. Held(rows, lease, t) \in Nat /\ Held(rows', lease', t) \in Nat
  BY TotalsNat, TypedRows, TypedRowsNext
<1>2. /\ budgets[t] # None /\ budgets'[t].limit = budgets[t].limit /\ budgets[t].ceiling = None
      /\ budgets'[t].reserve = budgets[t].reserve + n
  BY DEF ReserveGains
<1>3. budgets[t].limit \in Nat /\ budgets[t].reserve \in Nat
  BY <1>2 DEF TypeOK, Opt, Budget
<1>4. NoOverdraw(t) /\ Held(rows', lease', t) + n <= Held(rows, lease, t)
  OBVIOUS
<1>5. budgets[t].reserve + Held(rows, lease, t) <= budgets[t].limit
  BY <1>2, <1>4 DEF Backed
<1> QED
  BY <1>1, <1>2, <1>3, <1>4, <1>5

\* Draws and amounts of the rows there are stay.
LEMMA OverdrawKept ==
  ASSUME NEW t \in Tasks, \A i \in Ids : rows[i] # None => SameTerms(i)
  PROVE  NoOverdraw(t)' => NoOverdraw(t)
BY DEF NoOverdraw, SameTerms

\* What a row of the task that another account pays for has drawn: nothing.
LEMMA DrawnByOwn ==
  ASSUME TreeTypeOK, NEW i \in Ids, rows[i] # None, NEW t \in Tasks, rows[i].task = t,
         lease[i].account # t
  PROVE  rows[i].drawn = 0
<1>1. LeaseOk(i)
  BY DEF TreeTypeOK
<1>2. lease[i].account \in Accounts
  BY <1>1 DEF LeaseOk, Lease
<1> QED
  BY <1>1, <1>2 DEF LeaseOk, Accounts

LEMMA EndedBacked ==
  ASSUME TreeTypeOK, TypeOK', NEW S \in SUBSET Ids,
         \A i \in S : rows[i] # None /\ rows[i].state = "active",
         NEW s \in {"released", "expired"}, Ended(S, s), lease' = lease,
         NEW t \in Tasks, Backed(t)
  PROVE  Backed(t)'
<1>0. TypeOK /\ RowsTyped(rows) /\ RowsTyped(rows')
  BY TypedRows, TypedRowsNext DEF TreeTypeOK
<1>1. /\ \A i \in S : SameTerms(i) /\ rows'[i].state = s /\ rows'[i].late = rows[i].late
      /\ \A i \in Ids : i \notin S => rows'[i] = rows[i]
      /\ ReserveGains(t, Sum(BackTo(S, t)))
  BY <1>0, EndedTerms
<1> DEFINE g == BackTo(S, t)
<1>2. \A i \in Ids : g[i] = IF i \in S /\ rows[i].task = t THEN rows[i].drawn ELSE 0
  BY DEF BackTo
<1> HIDE DEF g
<1>3. \A i \in Ids : g[i] \in Nat
  BY <1>2, LeaseFacts
<1>4. ASSUME NoOverdraw(t), NEW i \in Ids
      PROVE  HeldAt(rows', lease', t, i) + g[i] <= HeldAt(rows, lease, t, i)
  <2>0. HeldAt(rows, lease, t, i) \in Nat
    BY <1>0, PartsNat
  <2>1. CASE i \in S
    <3>1. /\ rows[i] # None /\ rows[i].state = "active" /\ rows'[i].state = s
          /\ rows[i].amount \in Nat /\ rows[i].drawn \in Nat
          /\ lease[i].account = t => rows[i].task = t
      BY <1>1, <2>1, LeaseFacts
    <3>2. HeldOf(rows'[i]) = 0 /\ HeldOf(rows[i]) = rows[i].amount
      BY <3>1 DEF HeldOf
    <3>3. HeldAt(rows', lease', t, i) = 0
      BY <3>2 DEF HeldAt
    <3>4. CASE lease[i].account = t
      <4>1. HeldAt(rows, lease, t, i) = rows[i].amount /\ rows[i].drawn <= rows[i].amount
        BY <1>4, <3>1, <3>2, <3>4 DEF HeldAt, NoOverdraw
      <4> QED
        BY <1>2, <2>1, <3>1, <3>3, <4>1
    <3>5. CASE lease[i].account # t
      <4>1. g[i] = 0
        BY <1>2, <3>1, <3>5, DrawnByOwn
      <4> QED
        BY <2>0, <3>3, <4>1
    <3> QED
      BY <3>4, <3>5
  <2>2. CASE i \notin S
    <3>1. rows'[i] = rows[i] /\ g[i] = 0
      BY <1>1, <1>2, <2>2
    <3>2. HeldAt(rows', lease', t, i) = HeldAt(rows, lease, t, i)
      BY <3>1 DEF HeldAt
    <3> QED
      BY <2>0, <3>1, <3>2
  <2> QED
    BY <2>1, <2>2
<1>5. NoOverdraw(t) => Held(rows', lease', t) + Sum(g) <= Held(rows, lease, t)
  BY <1>0, <1>3, <1>4, HeldLess
<1>6. Sum(g) \in Nat
  BY <1>3, TableSum
<1>7. NoOverdraw(t)' => NoOverdraw(t)
  <2>1. \A i \in Ids : rows[i] # None => SameTerms(i)
    BY <1>1 DEF SameTerms
  <2> QED
    BY <2>1, OverdrawKept
<1>8. ReserveGains(t, Sum(g))
  BY <1>1 DEF g
<1> QED
  BY <1>0, <1>5, <1>6, <1>7, <1>8, BackedKept

LEMMA SettledBacked ==
  ASSUME TreeTypeOK, TypeOK', NEW k \in Ids, NEW a \in Opt(Amounts), Settle(k, a), lease' = lease,
         NEW t \in Tasks, Backed(t)
  PROVE  Backed(t)'
<1>0. TypeOK /\ RowsTyped(rows) /\ RowsTyped(rows')
  BY TypedRows, TypedRowsNext DEF TreeTypeOK
<1>1. PICK value \in Nat :
         /\ SameTerms(k) /\ rows'[k].state = "settled" /\ rows'[k].settled = value
         /\ rows'[k].late = (rows[k].state = "expired")
         /\ rows[k] # None /\ rows[k] \in Row /\ rows[k].state \in {"active", "expired"}
         /\ \A i \in Ids : i # k => rows'[i] = rows[i]
         /\ RestoreOnSettle(rows[k], value) \in Nat
         /\ ReserveGains(t, IF rows[k].task = t THEN RestoreOnSettle(rows[k], value) ELSE 0)
  BY <1>0, SettleTerms
<1> DEFINE n == IF rows[k].task = t THEN RestoreOnSettle(rows[k], value) ELSE 0
<1>2. n \in Nat /\ ReserveGains(t, n)
  BY <1>1
<1>3. NoOverdraw(t)' => NoOverdraw(t)
  <2>1. \A i \in Ids : rows[i] # None => SameTerms(i)
    BY <1>1 DEF SameTerms
  <2> QED
    BY <2>1, OverdrawKept
<1>4. /\ rows[k].amount \in Nat /\ rows[k].drawn \in Nat /\ rows'[k].amount = rows[k].amount
      /\ rows'[k] # None /\ (lease[k].account = t => rows[k].task = t)
  BY <1>1, LeaseFacts DEF SameTerms
<1>5. PICK c, d : c = rows[k].amount /\ d = rows[k].drawn
  OBVIOUS
<1>6. /\ HeldAt(rows', lease', t, k) \in Nat /\ HeldAt(rows, lease, t, k) \in Nat
      /\ Held(rows, lease, t) \in Nat
      /\ Held(rows', lease', t) = Held(rows, lease, t) + HeldAt(rows', lease', t, k) - HeldAt(rows, lease, t, k)
  <2>1. \A i \in Ids : i # k => rows'[i] = rows[i] /\ lease'[i] = lease[i]
    BY <1>1
  <2> QED
    BY <1>0, <2>1, PartsNat, TotalsNat, OneRowMoves
<1>7. HeldAt(rows', lease', t, k) + n <= HeldAt(rows, lease, t, k)
  <2>1. CASE rows[k].state = "expired"
    <3>1. n = 0 /\ HeldOf(rows'[k]) = 0
      BY <1>1, <2>1 DEF RestoreOnSettle, HeldOf
    <3>2. HeldAt(rows', lease', t, k) = 0
      BY <3>1 DEF HeldAt
    <3> QED
      BY <1>6, <3>1, <3>2
  <2>2. CASE rows[k].state = "active" /\ lease[k].account = t
    <3>1. /\ HeldOf(rows[k]) = c /\ HeldOf(rows'[k]) = MinOf(value, c)
          /\ n = MinOf(MaxOf(c - value, 0), d)
      BY <1>1, <1>4, <1>5, <2>2 DEF RestoreOnSettle, HeldOf
    <3>2. HeldAt(rows', lease', t, k) = MinOf(value, c) /\ HeldAt(rows, lease, t, k) = c
      BY <1>1, <1>4, <2>2, <3>1 DEF HeldAt
    <3> HIDE DEF n
    <3>3. c \in Nat /\ d \in Nat
      BY <1>4, <1>5
    <3>4. MinOf(value, c) + MinOf(MaxOf(c - value, 0), d) <= c
      BY <3>3 DEF MinOf, MaxOf
    <3> QED
      BY <3>1, <3>2, <3>4
  <2>3. CASE rows[k].state = "active" /\ lease[k].account # t
    <3>1. n = 0
      <4>1. CASE rows[k].task = t
        <5>1. d = 0
          BY <1>1, <1>5, <2>3, <4>1, DrawnByOwn
        <5>2. RestoreOnSettle(rows[k], value) = MinOf(MaxOf(c - value, 0), 0)
          BY <1>5, <2>3, <5>1 DEF RestoreOnSettle
        <5>3. MinOf(MaxOf(c - value, 0), 0) = 0
          BY <1>4, <1>5 DEF MinOf, MaxOf
        <5> QED
          BY <5>2, <5>3
      <4>2. CASE rows[k].task # t
        BY <4>2
      <4> QED
        BY <4>1, <4>2
    <3>2. HeldAt(rows', lease', t, k) = 0
      BY <2>3 DEF HeldAt
    <3> HIDE DEF n
    <3> QED
      BY <1>6, <3>1, <3>2
  <2> QED
    BY <1>1, <2>1, <2>2, <2>3
<1> HIDE DEF n
<1>8. Held(rows', lease', t) + n <= Held(rows, lease, t)
  BY <1>2, <1>6, <1>7
<1> QED
  BY <1>0, <1>2, <1>3, <1>8, BackedKept

\* A budget that nothing is taken from.
LEMMA SameBacked ==
  ASSUME TreeTypeOK, TypeOK', NEW t \in Tasks, Backed(t), ReserveGains(t, 0),
         rows' = rows, lease' = lease
  PROVE  Backed(t)'
<1>1. TypeOK /\ Held(rows, lease, t) \in Nat /\ Held(rows', lease', t) = Held(rows, lease, t)
  BY TypedRows, TotalsNat DEF TreeTypeOK
<1>2. NoOverdraw(t)' => NoOverdraw(t)
  BY DEF NoOverdraw
<1> DEFINE n == 0
<1>3. n \in Nat /\ ReserveGains(t, n) /\ Held(rows', lease', t) + n <= Held(rows, lease, t)
  BY <1>1
<1> HIDE DEF n
<1> QED
  BY <1>1, <1>2, <1>3, BackedKept

\* A row is inserted for task t and paid for by another account.
LEMMA OthersBacked ==
  ASSUME TreeTypeOK, TypeOK', NEW n, NEW t \in Tasks, NEW plan, NEW amount \in Nat, NEW drawn \in Nat,
         NEW at, NEW account, NEW grants, NEW b \in Tasks, account # b, Backed(b),
         Inserted(n, t, plan, amount, drawn, at, account, grants), ReserveGains(b, 0)
  PROVE  Backed(b)'
<1>1. TypeOK /\ Held(rows, lease, b) \in Nat
  BY TypedRows, TotalsNat DEF TreeTypeOK
<1>2. Held(rows', lease', b) = Held(rows, lease, b)
  <2>1. SumsGrow(t, amount, drawn, account, grants, b)
    BY InsertedParts
  <2> QED
    BY <1>1, <2>1 DEF SumsGrow
<1>3. NoOverdraw(b)' => NoOverdraw(b)
  BY DEF NoOverdraw, Inserted
<1> DEFINE m == 0
<1>4. m \in Nat /\ ReserveGains(b, m) /\ Held(rows', lease', b) + m <= Held(rows, lease, b)
  BY <1>1, <1>2
<1> HIDE DEF m
<1> QED
  BY <1>1, <1>3, <1>4, BackedKept

\* A grant from the task's own account that leaves room for what is held.
LEMMA OwnBacked ==
  ASSUME TreeTypeOK, TypeOK', NEW n, NEW t \in Tasks, NEW plan, NEW amount \in Nat, NEW drawn \in Nat,
         NEW at, NEW grants, Inserted(n, t, plan, amount, drawn, at, t, grants),
         budgets[t] # None, ReserveGains(t, 0 - drawn),
         budgets[t].ceiling = None =>
           amount - drawn <= budgets[t].limit - Held(rows, lease, t) - budgets[t].reserve
  PROVE  Backed(t)'
<1>1. TypeOK /\ Held(rows, lease, t) \in Nat
  BY TypedRows, TotalsNat DEF TreeTypeOK
<1>2. Held(rows', lease', t) = Held(rows, lease, t) + amount
  <2>1. SumsGrow(t, amount, drawn, t, grants, t)
    BY InsertedParts
  <2> QED
    BY <1>1, <2>1 DEF SumsGrow
<1>3. /\ budgets'[t].limit = budgets[t].limit /\ budgets'[t].ceiling = budgets[t].ceiling
      /\ budgets'[t].reserve = budgets[t].reserve + (0 - drawn)
      /\ budgets[t].limit \in Nat /\ budgets[t].reserve \in Nat
  BY <1>1 DEF ReserveGains, TypeOK, Opt, Budget
<1>4. budgets'[t].ceiling = None => budgets'[t].reserve + Held(rows', lease', t) <= budgets'[t].limit
  BY <1>1, <1>2, <1>3
<1> QED
  BY <1>4 DEF Backed

LEMMA ReserveBacked ==
  ASSUME TreeTypeOK, \A b \in Tasks : Backed(b),
         NEW t \in Tasks, NEW plan \in Opt(Plans), NEW class \in Classes,
         NEW amount \in Amounts, NEW key \in Keys, NEW ttl \in TTLs,
         AtReserve(t, plan, class, amount, key, ttl)
  PROVE  \A b \in Tasks : Backed(b)'
<1> DEFINE n == issued + 1
           drawn == DrawOf(t, class, amount)
           at == now + ttl
<1>1. /\ TypeOK' /\ amount \in Nat /\ drawn \in Nat
      /\ budgets[t] # None /\ Inserted(n, t, plan, amount, drawn, at, t, None)
      /\ budgets'[t] # None
      /\ budgets'[t].limit = budgets[t].limit /\ budgets'[t].ceiling = budgets[t].ceiling
      /\ budgets'[t].reserve = budgets[t].reserve - drawn
      /\ \A u \in Tasks : u # t => budgets'[u] = budgets[u]
  BY ReserveInserts
<1>2. budgets[t].ceiling = None =>
        amount - drawn <= budgets[t].limit - Count(rows, t) - budgets[t].reserve
  BY ReserveRoom
<1> HIDE DEF n, drawn, at
<1>3. \A u \in Tasks : budgets[u] # None => budgets[u].reserve \in Nat /\ budgets[u].limit \in Nat
  BY DEF TreeTypeOK, TypeOK, Opt, Budget
<1>4. ReserveGains(t, 0 - drawn) /\ \A u \in Tasks : u # t => ReserveGains(u, 0)
  BY <1>1, <1>3 DEF ReserveGains
<1>5. budgets[t].ceiling = None =>
        amount - drawn <= budgets[t].limit - Held(rows, lease, t) - budgets[t].reserve
  BY <1>1, <1>2, <1>3, HeldCounted
<1>6. Backed(t)'
  BY <1>1, <1>4, <1>5, OwnBacked
<1>7. \A b \in Tasks : b # t => Backed(b)'
  BY <1>1, <1>4, OthersBacked
<1> QED
  BY <1>6, <1>7

LEMMA SubleaseBacked ==
  ASSUME TreeTypeOK, \A b \in Tasks : Backed(b),
         NEW a \in Accounts, NEW c \in Children, NEW amount \in Amounts, NEW key \in Keys,
         NEW ttl \in TTLs, GrantSublease(a, c, amount, key, ttl)
  PROVE  \A b \in Tasks : Backed(b)'
<1> DEFINE n == issued + 1
           at == now + ttl
           d == 0
<1>0. Exists(a)
  BY DEF GrantSublease
<1>1. PICK t \in Tasks : t = TaskOf(a) /\ budgets[t] # None /\ (a \in Tasks => t = a)
  BY <1>0, PayerFacts
<1>2. /\ TypeOK' /\ amount \in Nat /\ d \in Nat
      /\ Inserted(n, t, None, amount, d, at, a, c)
      /\ Affords(a, amount) /\ budgets' = budgets
  BY <1>1, SubleaseInserts
<1>3. \A u \in Tasks : budgets[u] # None => budgets[u].reserve \in Nat /\ budgets[u].limit \in Nat
  BY DEF TreeTypeOK, TypeOK, Opt, Budget
<1>4. \A u \in Tasks : ReserveGains(u, 0) /\ ReserveGains(u, 0 - d)
  BY <1>2, <1>3 DEF ReserveGains
<1>5. \A b \in Tasks : a # b => Backed(b)'
  <2> HIDE DEF n, at, d
  <2> QED
    BY <1>2, <1>4, OthersBacked
<1>6. ASSUME NEW b \in Tasks, a = b PROVE Backed(b)'
  <2>0. a = t
    BY <1>1, <1>6
  <2>1. /\ hard[t] \in Nat /\ hard[t] <= budgets[t].limit /\ hard[t] # None
        /\ budgets[t].limit \in Nat /\ budgets[t].reserve \in Nat
    BY <1>1, <1>3, ReservationAssumption DEF TreeTypeOK
  <2>2. amount <= hard[t] - ActiveAgainst(t) - SettledAgainst(t) - budgets[t].reserve
    BY <1>2, <2>0, <2>1 DEF Affords, Capacity, Protected
  <2>3. /\ Held(rows, lease, t) <= ActiveAgainst(t) + SettledAgainst(t)
        /\ ActiveAgainst(t) \in Nat /\ SettledAgainst(t) \in Nat
    BY <2>0, CountedByAccount
  <2>4. Held(rows, lease, t) \in Nat
    BY HeldCounted
  <2>5. amount - d <= budgets[t].limit - Held(rows, lease, t) - budgets[t].reserve
    BY <1>2, <2>1, <2>2, <2>3, <2>4
  <2> HIDE DEF n, at, d
  <2> QED
    BY <1>1, <1>2, <1>4, <1>6, <2>0, <2>5, OwnBacked
<1> QED
  BY <1>5, <1>6

\* A budget whose rows and leases stay.
LEMMA BudgetBacked ==
  ASSUME NEW t \in Tasks, UNCHANGED <<rows, lease>>,
         budgets'[t] # None /\ budgets'[t].ceiling = None /\ NoOverdraw(t) =>
           budgets'[t].reserve + Held(rows, lease, t) <= budgets'[t].limit
  PROVE  Backed(t)'
<1>1. NoOverdraw(t)' => NoOverdraw(t)
  BY DEF NoOverdraw
<1>2. Held(rows', lease', t) = Held(rows, lease, t)
  OBVIOUS
<1> HIDE DEF NoOverdraw
<1>3. budgets'[t] # None /\ budgets'[t].ceiling = None /\ NoOverdraw(t)' =>
        budgets'[t].reserve + Held(rows', lease', t) <= budgets'[t].limit
  BY <1>1, <1>2
<1> QED
  BY <1>3 DEF Backed

LEMMA InitializeBacked ==
  ASSUME TreeTypeOK, \A b \in Tasks : Backed(b),
         NEW t \in Tasks, NEW policy \in Policies, NEW e \in Reserves,
         AtInitializeTaskBudget(t, policy, e)
  PROVE  \A b \in Tasks : Backed(b)'
<1> DEFINE budget == [limit |-> policy.limit, ceiling |-> policy.ceiling, reserve |-> ReserveFor(e, policy)]
<1>0. policy \in [limit: Nat, ceiling: Opt(Nat)] /\ e \in Nat /\ TypeOK
  BY ReservationAssumption DEF TreeTypeOK
<1>1. /\ budgets[t] = None /\ budgets' = [budgets EXCEPT ![t] = budget] /\ UNCHANGED <<rows, lease>>
  BY DEF AtInitializeTaskBudget, InitializeTaskBudget
<1>2. budget.limit = policy.limit /\ budget.reserve = ReserveFor(e, policy)
  OBVIOUS
<1>3. policy.limit \in Nat /\ ReserveFor(e, policy) \in Nat /\ ReserveFor(e, policy) <= policy.limit
  BY <1>0 DEF ReserveFor, MinOf
<1> HIDE DEF budget
<1>4. budgets'[t] = budget /\ \A u \in Tasks : u # t => budgets'[u] = budgets[u]
  BY <1>0, <1>1 DEF TypeOK
<1>5. Held(rows, lease, t) = 0
  BY <1>1, NoRowsYet, HeldCounted
<1>6. Backed(t)'
  BY <1>1, <1>2, <1>3, <1>4, <1>5, BudgetBacked
<1>7. ASSUME NEW b \in Tasks, b # t PROVE Backed(b)'
  <2>1. budgets'[b] = budgets[b] /\ Backed(b)
    BY <1>4, <1>7
  <2>2. budgets'[b] # None /\ budgets'[b].ceiling = None /\ NoOverdraw(b) =>
          budgets'[b].reserve + Held(rows, lease, b) <= budgets'[b].limit
    BY <2>1 DEF Backed
  <2> QED
    BY <1>1, <2>2, BudgetBacked
<1> QED
  BY <1>6, <1>7

LEMMA AdjustBacked ==
  ASSUME TreeTypeOK, \A b \in Tasks : Backed(b), NEW t \in Tasks, NEW e \in Reserves, AtAdjust(t, e)
  PROVE  \A b \in Tasks : Backed(b)'
<1>0. e \in Nat /\ TypeOK
  BY ReservationAssumption DEF TreeTypeOK
<1>1. /\ budgets[t] # None /\ Adjustable(t, e) /\ budgets' = [budgets EXCEPT ![t].reserve = e]
      /\ UNCHANGED <<rows, lease>>
  BY DEF AtAdjust, AdjustCompletionReserve
<1>2. budgets[t] \in Budget /\ budgets[t].reserve \in Nat /\ budgets[t].limit \in Nat
  BY <1>0, <1>1 DEF TypeOK, Opt, Budget
<1>3. /\ budgets'[t].limit = budgets[t].limit /\ budgets'[t].ceiling = budgets[t].ceiling
      /\ budgets'[t].reserve = e
      /\ \A u \in Tasks : u # t => budgets'[u] = budgets[u]
  BY <1>0, <1>1, <1>2 DEF TypeOK, Budget
<1>4. /\ Count(rows, t) = ActiveSum(t) + SettledSum(t)
      /\ ActiveSum(t) \in Nat /\ SettledSum(t) \in Nat
  BY CountedByTask
<1>5. budgets[t].ceiling = None /\ e > budgets[t].reserve => e <= budgets[t].limit - Count(rows, t)
  BY <1>0, <1>1, <1>2, <1>4 DEF Adjustable, GateHeadroom
<1>6. Held(rows, lease, t) <= Count(rows, t) /\ Held(rows, lease, t) \in Nat /\ Count(rows, t) \in Nat
  BY HeldCounted
<1> HIDE DEF NoOverdraw
<1>7. budgets[t].ceiling = None /\ NoOverdraw(t) =>
        budgets[t].reserve + Held(rows, lease, t) <= budgets[t].limit
  BY <1>1 DEF Backed
<1>8. budgets'[t].ceiling = None /\ NoOverdraw(t) =>
        budgets'[t].reserve + Held(rows, lease, t) <= budgets'[t].limit
  BY <1>0, <1>2, <1>3, <1>5, <1>6, <1>7
<1>9. Backed(t)'
  BY <1>1, <1>8, BudgetBacked
<1>10. ASSUME NEW b \in Tasks, b # t PROVE Backed(b)'
  <2>1. budgets'[b] = budgets[b] /\ Backed(b)
    BY <1>3, <1>10
  <2>2. budgets'[b] # None /\ budgets'[b].ceiling = None /\ NoOverdraw(b) =>
          budgets'[b].reserve + Held(rows, lease, b) <= budgets'[b].limit
    BY <2>1 DEF Backed
  <2> QED
    BY <1>1, <2>2, BudgetBacked
<1> QED
  BY <1>9, <1>10

LEMMA RenewalBacked ==
  ASSUME TreeTypeOK, \A b \in Tasks : Backed(b), NEW t \in Tasks, NEW key \in Keys,
         NEW amount \in RenewalAmounts, GrantRenewal(t, key, amount)
  PROVE  \A b \in Tasks : Backed(b)'
<1>0. amount \in Nat /\ TypeOK
  BY TreeAssumption DEF TreeTypeOK
<1>1. /\ budgets[t] # None /\ budgets' = [budgets EXCEPT ![t].limit = @ + amount]
      /\ UNCHANGED <<rows, lease>>
  BY DEF GrantRenewal
<1>2. budgets[t] \in Budget /\ budgets[t].reserve \in Nat /\ budgets[t].limit \in Nat
  BY <1>0, <1>1 DEF TypeOK, Opt, Budget
<1>3. /\ budgets'[t].limit = budgets[t].limit + amount /\ budgets'[t].ceiling = budgets[t].ceiling
      /\ budgets'[t].reserve = budgets[t].reserve
      /\ \A u \in Tasks : u # t => budgets'[u] = budgets[u]
  BY <1>0, <1>1, <1>2 DEF TypeOK, Budget
<1>4. Held(rows, lease, t) \in Nat
  BY HeldCounted
<1> HIDE DEF NoOverdraw
<1>5. budgets[t].ceiling = None /\ NoOverdraw(t) =>
        budgets[t].reserve + Held(rows, lease, t) <= budgets[t].limit
  BY <1>1 DEF Backed
<1>6. budgets'[t].ceiling = None /\ NoOverdraw(t) =>
        budgets'[t].reserve + Held(rows, lease, t) <= budgets'[t].limit
  BY <1>0, <1>2, <1>3, <1>4, <1>5
<1>7. Backed(t)'
  BY <1>1, <1>6, BudgetBacked
<1>8. ASSUME NEW b \in Tasks, b # t PROVE Backed(b)'
  <2>1. budgets'[b] = budgets[b] /\ Backed(b)
    BY <1>3, <1>8
  <2>2. budgets'[b] # None /\ budgets'[b].ceiling = None /\ NoOverdraw(b) =>
          budgets'[b].reserve + Held(rows, lease, b) <= budgets'[b].limit
    BY <2>1 DEF Backed
  <2> QED
    BY <1>1, <2>2, BudgetBacked
<1> QED
  BY <1>7, <1>8

LEMMA StepBacked ==
  ASSUME TreeTypeOK, TreeTypeOK', \A t \in Tasks : Backed(t), [AtNext]_atVars
  PROVE  \A t \in Tasks : Backed(t)'
<1>0. TypeOK /\ TypeOK' /\ \A t \in Tasks : budgets[t] # None => budgets[t].reserve \in Nat
  BY DEF TreeTypeOK, TypeOK, Opt, Budget
<1>1. ASSUME UNCHANGED <<budgets, rows, lease>> PROVE \A t \in Tasks : Backed(t)'
  <2>1. \A t \in Tasks : ReserveGains(t, 0)
    BY <1>0, <1>1 DEF ReserveGains
  <2> QED
    BY <1>0, <1>1, <2>1, SameBacked
<1>2. ASSUME UNCHANGED atVars \/ AtTick \/ \E c \in Children : EnsureChildAccount(c)
      PROVE  \A t \in Tasks : Backed(t)'
  <2>1. UNCHANGED <<budgets, rows, lease>>
    BY <1>2 DEF atVars, vars, AtTick, Tick, EnsureChildAccount
  <2> QED
    BY <1>1, <2>1
<1>3. ASSUME AtExpire PROVE \A t \in Tasks : Backed(t)'
  <2>1. /\ Stale \in SUBSET Ids /\ \A i \in Stale : rows[i] # None /\ rows[i].state = "active"
        /\ Ended(Stale, "expired") /\ lease' = lease
    BY <1>3 DEF AtExpire, ExpireStaleReservations, Stale
  <2> QED
    BY <1>0, <2>1, EndedBacked
<1>4. ASSUME NEW t \in Tasks, NEW plan \in Plans, AtReleaseForPlan(t, plan)
      PROVE  \A b \in Tasks : Backed(b)'
  <2> DEFINE S == {i \in Of(t, "active") : rows[i].plan = plan}
  <2>1. /\ S \in SUBSET Ids /\ \A i \in S : rows[i] # None /\ rows[i].state = "active"
        /\ Ended(S, "released") /\ lease' = lease
    BY <1>4 DEF AtReleaseForPlan, ReleaseActiveForPlan, Of
  <2> HIDE DEF S
  <2> QED
    BY <1>0, <2>1, EndedBacked
<1>5. ASSUME NEW i \in Ids, Ends(i) PROVE \A t \in Tasks : Backed(t)'
  <2>0. lease' = lease
    BY <1>5 DEF Ends
  <2>1. CASE Release(i)
    <3>1. /\ {i} \in SUBSET Ids /\ (\A k \in {i} : rows[k] # None /\ rows[k].state = "active")
          /\ Ended({i}, "released")
      BY <2>1 DEF Release
    <3> QED
      BY <1>0, <2>0, <3>1, EndedBacked
  <2>2. ASSUME NEW a \in Opt(Amounts), Settle(i, a) PROVE \A t \in Tasks : Backed(t)'
    BY <1>0, <2>0, <2>2, SettledBacked
  <2> QED
    BY <1>5, <2>1, <2>2 DEF Ends
<1>6. ASSUME NEW c \in Children, NEW a \in Payers[c], NEW amount \in Amounts, NEW k \in Keys,
             NEW ttl \in TTLs, GrantSublease(a, c, amount, k, ttl)
      PROVE  \A t \in Tasks : Backed(t)'
  <2>1. a \in Accounts
    BY TreeAssumption
  <2> QED
    BY <1>6, <2>1, SubleaseBacked
<1> QED
  BY <1>2, <1>3, <1>4, <1>5, <1>6, ReserveBacked, InitializeBacked, AdjustBacked, RenewalBacked
     DEF AtNext

-----------------------------------------------------------------------------
(* What was granted under a funding lease. *)

\* Nothing was granted under a lease that does not exist.
LEMMA NothingUnder ==
  ASSUME TreeTypeOK, FundingInv, NEW f \in Ids, rows[f] = None
  PROVE  Held(rows, Basis(under), f) = 0
<1> DEFINE x == [i \in Ids |-> HeldAt(rows, Basis(under), f, i)]
<1>0. f # None
  BY ReservationAssumption DEF Ids
<1>1. ASSUME NEW i \in Ids PROVE x[i] = 0
  <2>1. GrantOk(i)
    BY DEF FundingInv
  <2>2. rows[i] # None => under[i] # f
    BY <1>0, <2>1 DEF GrantOk
  <2> QED
    BY <2>2 DEF HeldAt, Basis
<1> HIDE DEF x
<1>2. Sum(x) = 0
  BY <1>1, TableSumZero
<1> QED
  BY <1>2 DEF x, Held

\* Leases keep their terms and hold no more than before.
GrantsShrink ==
  /\ \A i \in Ids : rows[i] # None =>
       /\ SameTerms(i) /\ lease'[i] = lease[i]
       /\ HeldOf(rows'[i]) <= HeldOf(rows[i])
       /\ rows'[i].state = "active" => rows[i].state = "active"
  /\ \A i \in Ids : rows[i] = None /\ rows'[i] # None => lease'[i].grants = None
  /\ under' = under

LEMMA CoversStay ==
  ASSUME TreeTypeOK, TypeOK', FundingInv, GrantsShrink, NEW f \in Ids
  PROVE  Covers(f)'
<1> SUFFICES ASSUME rows'[f] # None
             PROVE  Held(rows', Basis(under'), f) <= rows'[f].amount
  BY DEF Covers
<1>0. RowsTyped(rows) /\ RowsTyped(rows') /\ f # None
  BY TypedRows, TypedRowsNext, ReservationAssumption DEF TreeTypeOK, Ids
<1>1. ASSUME NEW i \in Ids
      PROVE  HeldAt(rows', Basis(under'), f, i) <= HeldAt(rows, Basis(under), f, i)
  <2>0. HeldAt(rows, Basis(under), f, i) \in Nat
    BY <1>0, PartsNat
  <2>1. CASE rows[i] # None /\ under[i] = f
    BY <2>1 DEF GrantsShrink, HeldAt, Basis, SameTerms
  <2>2. CASE rows[i] # None /\ under[i] # f
    BY <2>0, <2>2 DEF GrantsShrink, HeldAt, Basis
  <2>3. CASE rows[i] = None
    BY <1>0, <2>0, <2>3 DEF GrantsShrink, FundingInv, GrantOk, HeldAt, Basis
  <2> QED
    BY <2>1, <2>2, <2>3
<1>2. Held(rows', Basis(under'), f) <= Held(rows, Basis(under), f)
  BY <1>0, <1>1, HeldNoMore
<1>3. Held(rows', Basis(under'), f) \in Nat /\ Held(rows, Basis(under), f) \in Nat
  BY <1>0, TotalsNat
<1>4. CASE rows[f] # None
  <2>1. Held(rows, Basis(under), f) <= rows[f].amount /\ rows'[f].amount = rows[f].amount
    BY <1>4 DEF FundingInv, Covers, GrantsShrink, SameTerms
  <2>2. rows[f].amount \in Nat
    BY <1>4, LeaseFacts
  <2> QED
    BY <1>2, <1>3, <2>1, <2>2
<1>5. CASE rows[f] = None
  <2>1. Held(rows, Basis(under), f) = 0
    BY <1>5, NothingUnder
  <2>2. rows'[f].amount \in Nat
    BY <1>0 DEF RowsTyped, Opt, Row
  <2> QED
    BY <1>2, <1>3, <2>1, <2>2
<1> QED
  BY <1>4, <1>5

\* A step that lets no lease lapse and leaves the accounts alone.
LEMMA FundingStays ==
  ASSUME TreeTypeOK, TypeOK', FundingInv, GrantsShrink, accounts' = accounts,
         \A i \in Ids : rows'[i] # None /\ Lapsed(rows'[i]) => rows[i] # None /\ Lapsed(rows[i])
  PROVE  FundingInv'
<1>1. ASSUME NEW c \in Children PROVE FundingOk(c)'
  <2> SUFFICES ASSUME accounts[c] # None PROVE FundingOk(c)'
    BY DEF FundingOk
  <2>1. FundingOk(c) /\ accounts[c].funding \in Opt(Ids)
    BY DEF FundingInv, TreeTypeOK, Opt, Account
  <2> QED
    BY <2>1 DEF FundingOk, GrantsShrink, SameTerms, Opt
<1>2. ASSUME NEW i \in Ids PROVE GrantOk(i)'
  <2>0. GrantOk(i) /\ \A f \in Ids : rows[f] # None => SameTerms(f) /\ lease'[f] = lease[f]
    BY DEF FundingInv, GrantsShrink
  <2>1. CASE rows[i] # None
    <3>1. rows'[i] # None /\ lease'[i] = lease[i] /\ rows'[i].expiresAt = rows[i].expiresAt /\ under'[i] = under[i]
      BY <2>0, <2>1 DEF GrantsShrink, SameTerms
    <3>2. rows'[i] # None /\ lease'[i].grants # None =>
            /\ accounts'[lease'[i].grants] # None
            /\ Lapsed(rows'[i]) => accounts'[lease'[i].grants].state = "expired"
      BY <2>0, <2>1, <3>1 DEF GrantOk
    <3>3. rows'[i] # None /\ under'[i] # None =>
            LET f == under'[i] IN
            /\ f \in Ids /\ rows'[f] # None /\ lease'[f].grants # None
            /\ lease'[i].account = lease'[f].grants
            /\ rows'[i].expiresAt <= rows'[f].expiresAt
      <4> SUFFICES ASSUME under[i] # None
                   PROVE LET f == under'[i] IN
                          /\ f \in Ids /\ rows'[f] # None /\ lease'[f].grants # None
                          /\ lease'[i].account = lease'[f].grants
                          /\ rows'[i].expiresAt <= rows'[f].expiresAt
        BY <3>1
      <4>1. PICK f \in Ids : f = under[i]
        BY <2>0, <2>1 DEF GrantOk
      <4>2. /\ rows[f] # None /\ lease[f].grants # None /\ lease[i].account = lease[f].grants
            /\ rows[i].expiresAt <= rows[f].expiresAt
        BY <2>0, <2>1, <4>1 DEF GrantOk
      <4>3. rows'[f] # None /\ rows'[f].expiresAt = rows[f].expiresAt /\ lease'[f] = lease[f]
        BY <2>0, <4>2 DEF SameTerms
      <4> QED
        BY <3>1, <4>1, <4>2, <4>3
    <3> QED
      BY <3>1, <3>2, <3>3 DEF GrantOk
  <2>2. CASE rows[i] = None
    BY <2>0, <2>2 DEF GrantOk, GrantsShrink
  <2> QED
    BY <2>1, <2>2
<1>3. LapseTogether'
  <2> SUFFICES ASSUME NEW i \in Ids, rows'[i] # None, under'[i] # None, Lapsed(rows'[under'[i]])
               PROVE  rows'[i].state # "active"
    BY DEF LapseTogether
  <2>1. rows[i] # None /\ under'[i] = under[i] /\ GrantOk(i)
    BY DEF GrantsShrink, FundingInv, GrantOk
  <2>2. PICK f \in Ids : f = under[i]
    BY <2>1 DEF GrantOk
  <2>3. rows[f] # None /\ rows'[f] # None /\ Lapsed(rows[f])
    BY <2>1, <2>2 DEF GrantOk, GrantsShrink, SameTerms
  <2>4. rows[i].state # "active"
    BY <2>1, <2>2, <2>3 DEF FundingInv, LapseTogether
  <2> QED
    BY <2>1, <2>4 DEF GrantsShrink
<1>4. DOMAIN under' = Ids
  BY DEF FundingInv, GrantsShrink
<1> QED
  BY <1>1, <1>2, <1>3, <1>4, CoversStay DEF FundingInv

\* The active rows S end in state s.
LEMMA EndedShrink ==
  ASSUME TreeTypeOK, NEW S \in SUBSET Ids,
         \A i \in S : rows[i] # None /\ rows[i].state = "active",
         NEW s \in {"released", "expired"}, Ended(S, s), lease' = lease, under' = under
  PROVE  /\ GrantsShrink
         /\ \A i \in Ids : i \notin S => rows'[i] = rows[i]
         /\ \A i \in S : rows'[i] # None /\ rows'[i].state = s /\ ~rows'[i].late /\ ~rows[i].late
<1>0. TypeOK
  BY DEF TreeTypeOK
<1>1. /\ \A i \in S : SameTerms(i) /\ rows'[i].state = s /\ rows'[i].late = rows[i].late
      /\ \A i \in Ids : i \notin S => rows'[i] = rows[i]
  BY <1>0, EndedTerms
<1>2. ASSUME NEW i \in S
      PROVE  /\ HeldOf(rows'[i]) <= HeldOf(rows[i]) /\ ~rows[i].late /\ ~rows'[i].late
             /\ rows'[i] # None /\ rows'[i].state # "active"
  <2>1. /\ rows[i] # None /\ rows[i].state = "active" /\ rows'[i].state = s
        /\ rows[i].amount \in Nat /\ rows[i].late \in BOOLEAN
        /\ rows[i].late => rows[i].state = "settled"
    BY <1>1, LeaseFacts
  <2>2. HeldOf(rows'[i]) = 0 /\ HeldOf(rows[i]) = rows[i].amount
    BY <2>1 DEF HeldOf
  <2> QED
    BY <1>1, <2>1, <2>2 DEF SameTerms
<1>3. ASSUME NEW i \in Ids, rows[i] # None
      PROVE  SameTerms(i) /\ HeldOf(rows'[i]) <= HeldOf(rows[i])
             /\ (rows'[i].state = "active" => rows[i].state = "active")
  <2>1. CASE i \in S
    BY <1>1, <1>2, <2>1
  <2>2. CASE i \notin S
    <3>1. rows'[i] = rows[i] /\ HeldOf(rows[i]) \in Int
      <4>1. rows[i] \in Row /\ (rows[i].state = "settled" => rows[i].settled # None)
        BY <1>0, <1>3 DEF TypeOK, Opt
      <4> QED
        BY <1>1, <2>2, <4>1 DEF HeldOf, Row, Opt, MinOf
    <3> QED
      BY <1>3, <3>1 DEF SameTerms
  <2> QED
    BY <2>1, <2>2
<1> QED
  BY <1>1, <1>2, <1>3 DEF GrantsShrink

LEMMA SettleShrinks ==
  ASSUME TreeTypeOK, NEW k \in Ids, NEW a \in Opt(Amounts), Settle(k, a), lease' = lease, under' = under
  PROVE  /\ GrantsShrink
         /\ \A i \in Ids : rows'[i] # None /\ Lapsed(rows'[i]) => rows[i] # None /\ Lapsed(rows[i])
<1>0. TypeOK
  BY DEF TreeTypeOK
<1>1. PICK value \in Nat :
         /\ SameTerms(k) /\ rows'[k].state = "settled" /\ rows'[k].settled = value
         /\ rows'[k].late = (rows[k].state = "expired")
         /\ rows[k] # None /\ rows[k] \in Row /\ rows[k].state \in {"active", "expired"}
         /\ \A i \in Ids : i # k => rows'[i] = rows[i]
  BY <1>0, SettleTerms
<1>2. rows[k].amount \in Nat /\ rows'[k].amount = rows[k].amount
  BY <1>1 DEF Row, SameTerms
<1>3. HeldOf(rows'[k]) <= HeldOf(rows[k])
  <2>1. CASE rows[k].state = "expired"
    <3>1. rows'[k].late /\ rows'[k].state = "settled"
      BY <1>1, <2>1
    <3>2. HeldOf(rows'[k]) = 0 /\ HeldOf(rows[k]) = 0
      BY <2>1, <3>1 DEF HeldOf
    <3> QED
      BY <3>2
  <2>2. CASE rows[k].state = "active"
    BY <1>1, <1>2, <2>2 DEF HeldOf, MinOf
  <2> QED
    BY <1>1, <2>1, <2>2
<1>4. Lapsed(rows'[k]) => Lapsed(rows[k])
  BY <1>1 DEF Lapsed
<1>5. ASSUME NEW i \in Ids, rows[i] # None
      PROVE  SameTerms(i) /\ HeldOf(rows'[i]) <= HeldOf(rows[i])
             /\ (rows'[i].state = "active" => rows[i].state = "active")
  <2>1. CASE i = k
    BY <1>1, <1>3, <2>1
  <2>2. CASE i # k
    <3>1. rows'[i] = rows[i] /\ HeldOf(rows[i]) \in Int
      <4>1. rows[i] \in Row /\ (rows[i].state = "settled" => rows[i].settled # None)
        BY <1>0, <1>5 DEF TypeOK, Opt
      <4> QED
        BY <1>1, <2>2, <4>1 DEF HeldOf, Row, Opt, MinOf
    <3> QED
      BY <1>5, <3>1 DEF SameTerms
  <2> QED
    BY <2>1, <2>2
<1> QED
  BY <1>1, <1>4, <1>5 DEF GrantsShrink

\* Only rows a task's own account pays for are added, if any.
LEMMA RowsStand ==
  ASSUME TreeTypeOK, TypeOK', FundingInv,
         \A i \in Ids : rows[i] # None => rows'[i] = rows[i] /\ lease'[i] = lease[i],
         \A i \in Ids : rows[i] = None /\ rows'[i] # None =>
           lease'[i].grants = None /\ ~Lapsed(rows'[i]),
         under' = under, accounts' = accounts
  PROVE  FundingInv'
<1>0. TypeOK
  BY DEF TreeTypeOK
<1>1. ASSUME NEW i \in Ids, rows[i] # None
      PROVE  SameTerms(i) /\ HeldOf(rows'[i]) <= HeldOf(rows[i])
             /\ (rows'[i].state = "active" => rows[i].state = "active")
  <2>1. rows[i] \in Row /\ (rows[i].state = "settled" => rows[i].settled # None)
    BY <1>0, <1>1 DEF TypeOK, Opt
  <2>2. HeldOf(rows[i]) \in Int
    BY <2>1 DEF HeldOf, Row, Opt, MinOf
  <2> QED
    BY <1>1, <2>2 DEF SameTerms
<1>2. GrantsShrink
  BY <1>1 DEF GrantsShrink
<1>3. \A i \in Ids : rows'[i] # None /\ Lapsed(rows'[i]) => rows[i] # None /\ Lapsed(rows[i])
  OBVIOUS
<1> HIDE DEF Lapsed
<1> QED
  BY <1>2, <1>3, FundingStays

\* The pass closes the accounts whose funding lapses, and takes with a lease what was
\* granted under it, since none of that outlives it.
LEMMA ExpireFunding ==
  ASSUME TreeTypeOK, TypeOK', FundingInv, AtExpire
  PROVE  FundingInv'
<1>1. /\ Stale \in SUBSET Ids /\ \A i \in Stale : rows[i] # None /\ rows[i].state = "active"
      /\ Ended(Stale, "expired") /\ lease' = lease /\ under' = under
  BY DEF AtExpire, ExpireStaleReservations, Stale
<1>2. /\ GrantsShrink
      /\ \A i \in Ids : i \notin Stale => rows'[i] = rows[i]
      /\ \A i \in Stale : rows'[i] # None /\ rows'[i].state = "expired"
  BY <1>1, EndedShrink
<1>3. \A c \in Children :
        /\ accounts'[c] = None <=> accounts[c] = None
        /\ accounts[c] # None =>
             /\ accounts'[c].capacity = accounts[c].capacity
             /\ accounts'[c].funding = accounts[c].funding
             /\ accounts'[c].state =
                  IF \E i \in Stale : lease[i].grants = c THEN "expired" ELSE accounts[c].state
  BY ExpireAccounts DEF AccountsStand
<1>4. \A i \in Ids : rows[i] # None => SameTerms(i)
  BY <1>2 DEF GrantsShrink
<1>5. \A i \in Ids : rows'[i] # None => rows[i] # None
  BY <1>1, <1>2
<1>6. ASSUME NEW c \in Children PROVE FundingOk(c)'
  <2> SUFFICES ASSUME accounts'[c] # None PROVE FundingOk(c)'
    BY DEF FundingOk
  <2>1. FundingOk(c) /\ accounts[c] # None /\ accounts[c].funding \in Opt(Ids)
    BY <1>3 DEF FundingInv, TreeTypeOK, Opt, Account
  <2> QED
    BY <1>1, <1>3, <1>4, <2>1 DEF FundingOk, SameTerms, Opt
<1>7. ASSUME NEW i \in Ids PROVE GrantOk(i)'
  <2>0. GrantOk(i)
    BY DEF FundingInv
  <2>1. CASE rows[i] # None
    <3>1. rows'[i] # None /\ rows'[i].expiresAt = rows[i].expiresAt
      BY <1>4, <2>1 DEF SameTerms
    <3>2. ASSUME lease[i].grants # None
          PROVE  /\ accounts'[lease[i].grants] # None
                 /\ Lapsed(rows'[i]) => accounts'[lease[i].grants].state = "expired"
      <4>1. LeaseOk(i)
        BY DEF TreeTypeOK
      <4>2. PICK c \in Children : c = lease[i].grants
        BY <2>1, <3>2, <4>1 DEF LeaseOk, Lease, Opt
      <4>3. accounts[c] # None /\ (Lapsed(rows[i]) => accounts[c].state = "expired")
        BY <2>0, <2>1, <3>2, <4>2 DEF GrantOk
      <4>4. CASE i \in Stale
        BY <1>3, <4>2, <4>3, <4>4
      <4>5. CASE i \notin Stale
        BY <1>2, <1>3, <4>2, <4>3, <4>5
      <4> QED
        BY <4>4, <4>5
    <3>3. ASSUME under[i] # None
          PROVE  LET f == under[i] IN
                 /\ f \in Ids /\ rows'[f] # None /\ lease[f].grants # None
                 /\ lease[i].account = lease[f].grants
                 /\ rows'[i].expiresAt <= rows'[f].expiresAt
      <4>1. PICK f \in Ids : f = under[i]
        BY <2>0, <2>1, <3>3 DEF GrantOk
      <4>2. /\ rows[f] # None /\ lease[f].grants # None /\ lease[i].account = lease[f].grants
            /\ rows[i].expiresAt <= rows[f].expiresAt
        BY <2>0, <2>1, <3>3, <4>1 DEF GrantOk
      <4>3. rows'[f] # None /\ rows'[f].expiresAt = rows[f].expiresAt
        BY <1>4, <4>2 DEF SameTerms
      <4> QED
        BY <3>1, <4>1, <4>2, <4>3
    <3> QED
      BY <1>1, <3>1, <3>2, <3>3 DEF GrantOk
  <2>2. CASE rows[i] = None
    BY <1>1, <1>5, <2>0, <2>2 DEF GrantOk
  <2> QED
    BY <2>1, <2>2
<1>8. LapseTogether'
  <2> SUFFICES ASSUME NEW i \in Ids, rows'[i] # None, under'[i] # None, Lapsed(rows'[under'[i]])
               PROVE  rows'[i].state # "active"
    BY DEF LapseTogether
  <2>1. rows[i] # None /\ under'[i] = under[i] /\ GrantOk(i)
    BY <1>1, <1>5 DEF FundingInv
  <2>2. PICK f \in Ids : f = under[i]
    BY <2>1 DEF GrantOk
  <2>3. rows[f] # None /\ rows[i].expiresAt <= rows[f].expiresAt
    BY <2>1, <2>2 DEF GrantOk
  <2>4. CASE i \in Stale
    BY <1>2, <2>4
  <2>5. CASE i \notin Stale /\ f \notin Stale
    <3>1. Lapsed(rows[f]) /\ rows'[i] = rows[i]
      BY <1>2, <2>1, <2>2, <2>5
    <3> QED
      BY <2>1, <2>2, <3>1 DEF FundingInv, LapseTogether
  <2>6. CASE i \notin Stale /\ f \in Stale
    <3>1. rows[f].expiresAt <= now /\ rows'[i] = rows[i]
      BY <1>2, <2>6 DEF Stale
    <3>2. rows[f].expiresAt \in Nat /\ rows[i].expiresAt \in Nat /\ now \in Nat
      BY <2>1, <2>3 DEF TreeTypeOK, TypeOK, Opt, Row
    <3>3. rows[i].expiresAt <= now
      BY <2>3, <3>1, <3>2
    <3> QED
      BY <2>1, <2>6, <3>1, <3>3 DEF Stale
  <2> QED
    BY <2>4, <2>5, <2>6
<1>9. DOMAIN under' = Ids
  BY <1>1 DEF FundingInv
<1> QED
  BY <1>2, <1>6, <1>7, <1>8, <1>9, CoversStay DEF FundingInv

LEMMA ProvisionFunding ==
  ASSUME TreeTypeOK, FundingInv, NEW c \in Children, EnsureChildAccount(c)
  PROVE  FundingInv'
<1> DEFINE account == [task |-> TaskOf(ParentOf[c]), capacity |-> None, funding |-> None, state |-> "open"]
<1>1. /\ accounts[c] = None /\ accounts' = [accounts EXCEPT ![c] = account]
      /\ UNCHANGED <<rows, lease, under>>
  BY DEF EnsureChildAccount, vars
<1>2. account.capacity = None /\ account.funding = None
  OBVIOUS
<1> HIDE DEF account
<1>3. accounts'[c] = account /\ \A b \in Children : b # c => accounts'[b] = accounts[b]
  BY <1>1 DEF TreeTypeOK
<1>4. ASSUME NEW b \in Children PROVE FundingOk(b)'
  <2>1. CASE b = c
    BY <1>2, <1>3, <2>1 DEF FundingOk
  <2>2. CASE b # c
    <3>1. FundingOk(b) /\ accounts'[b] = accounts[b]
      BY <1>3, <2>2 DEF FundingInv
    <3> QED
      BY <1>1, <3>1 DEF FundingOk
  <2> QED
    BY <2>1, <2>2
<1>5. ASSUME NEW i \in Ids PROVE GrantOk(i)' /\ Covers(i)'
  <2>1. GrantOk(i) /\ Covers(i) /\ LeaseOk(i)
    BY DEF FundingInv, TreeTypeOK
  <2>2. rows[i] # None /\ lease[i].grants # None => accounts'[lease[i].grants] = accounts[lease[i].grants]
    <3> SUFFICES ASSUME rows[i] # None, lease[i].grants # None
                 PROVE  accounts'[lease[i].grants] = accounts[lease[i].grants]
      OBVIOUS
    <3>1. PICK b \in Children : b = lease[i].grants
      BY <2>1 DEF LeaseOk, Lease, Opt
    <3>2. accounts[b] # None
      BY <2>1, <3>1 DEF GrantOk
    <3> QED
      BY <1>1, <1>3, <3>1, <3>2
  <2>3. GrantOk(i)'
    BY <1>1, <2>1, <2>2 DEF GrantOk
  <2>4. Covers(i)'
    BY <1>1, <2>1 DEF Covers
  <2> QED
    BY <2>3, <2>4
<1>6. LapseTogether' /\ DOMAIN under' = Ids
  BY <1>1 DEF FundingInv, LapseTogether
<1> QED
  BY <1>4, <1>5, <1>6 DEF FundingInv

\* A new lease is granted under what funds its payer, which has not lapsed, is not
\* outlived by it and has room for it.
LEMMA SubleaseFunding ==
  ASSUME TreeTypeOK, FundingInv,
         NEW a \in Accounts, NEW c \in Children, NEW amount \in Amounts, NEW key \in Keys,
         NEW ttl \in TTLs, GrantSublease(a, c, amount, key, ttl)
  PROVE  FundingInv'
<1> DEFINE n == issued + 1
           at == now + ttl
<1>1. PICK u : u = IF a \in Children THEN accounts[a].funding ELSE None
  OBVIOUS
<1>2. /\ TypeOK' /\ amount \in Nat /\ accounts[c] # None /\ Exists(a)
      /\ Inserted(n, TaskOf(a), None, amount, 0, at, a, c)
      /\ Affords(a, amount) /\ WithinFunding(a, at)
      /\ a \in Children => accounts[a].state = "open"
      /\ accounts'[c] \in Account
      /\ accounts'[c].capacity = amount /\ accounts'[c].funding = n
      /\ accounts'[c].state = accounts[c].state
      /\ \A b \in Children : b # c => accounts'[b] = accounts[b]
      /\ under' = [under EXCEPT ![n] = u]
  BY <1>1, SubleaseInserts
<1> HIDE DEF n, at
<1>3. /\ n \in Ids /\ rows[n] = None /\ rows'[n] # None /\ rows'[n].amount = amount
      /\ rows'[n].state = "active" /\ rows'[n].late = FALSE /\ rows'[n].expiresAt = at
      /\ lease'[n].account = a /\ lease'[n].grants = c
      /\ \A i \in Ids : i # n => rows'[i] = rows[i] /\ lease'[i] = lease[i]
  BY <1>2 DEF Inserted
<1>4. under'[n] = u /\ DOMAIN under' = Ids /\ \A i \in Ids : i # n => under'[i] = under[i]
  BY <1>2, <1>3 DEF FundingInv
<1>5. \A i \in Ids : i # None
  BY ReservationAssumption DEF Ids
<1>6. \A i \in Ids : rows[i] # None /\ under[i] # None => under[i] \in Ids /\ under[i] # n
  BY <1>3 DEF FundingInv, GrantOk
<1>7. \A i \in Ids : rows[i] = None => under[i] = None
  BY DEF FundingInv, GrantOk
<1>8. ASSUME u # None
      PROVE  /\ a \in Children /\ accounts[a] # None /\ u \in Ids /\ u # n
             /\ rows[u] # None /\ lease[u].grants = a /\ a # None
             /\ rows[u].amount = accounts[a].capacity /\ accounts[a].capacity # None
             /\ at <= rows[u].expiresAt /\ ~Lapsed(rows[u])
  <2>1. a \in Children /\ a \notin Tasks /\ u = accounts[a].funding /\ a # None
    BY <1>1, <1>8, TreeAssumption
  <2>2. accounts[a] # None /\ accounts[a] \in Account
    BY <1>2, <2>1 DEF Exists, TreeTypeOK, Opt
  <2>3. FundingOk(a) /\ u \in Opt(Ids)
    BY <2>1, <2>2 DEF FundingInv, Account
  <2>4. /\ u \in Ids /\ rows[u] # None /\ lease[u].grants = a /\ rows[u].amount = accounts[a].capacity
        /\ accounts[a].capacity # None
    BY <1>8, <2>1, <2>2, <2>3 DEF FundingOk, Opt
  <2>5. ~Lapsed(rows[u])
    <3>1. GrantOk(u)
      BY <2>4 DEF FundingInv
    <3> QED
      BY <1>2, <2>1, <2>4, <3>1 DEF GrantOk
  <2>6. at <= rows[u].expiresAt
    BY <1>2, <1>8, <2>1 DEF WithinFunding
  <2> QED
    BY <1>3, <2>1, <2>2, <2>4, <2>5, <2>6
<1>9. ASSUME NEW b \in Children PROVE FundingOk(b)'
  <2>1. CASE b = c
    <3>1. amount # None /\ n # None
      BY <1>2, <1>3, <1>5, ReservationAssumption
    <3> QED
      BY <1>2, <1>3, <2>1, <3>1 DEF FundingOk
  <2>2. CASE b # c /\ accounts[b] # None
    <3>1. FundingOk(b) /\ accounts'[b] = accounts[b] /\ accounts[b].funding \in Opt(Ids)
      BY <1>2, <2>2 DEF FundingInv, TreeTypeOK, Opt, Account
    <3>2. accounts[b].funding # None => accounts[b].funding \in Ids /\ accounts[b].funding # n
      BY <1>3, <2>2, <3>1 DEF FundingOk, Opt
    <3> QED
      BY <1>3, <2>2, <3>1, <3>2 DEF FundingOk
  <2>3. CASE b # c /\ accounts[b] = None
    BY <1>2, <2>3 DEF FundingOk
  <2> QED
    BY <2>1, <2>2, <2>3
<1>10. ASSUME NEW i \in Ids PROVE GrantOk(i)'
  <2>1. CASE i = n
    <3>1. accounts'[c] # None /\ ~Lapsed(rows'[n])
      BY <1>2, <1>3, TreeAssumption DEF Lapsed
    <3>2. u # None => /\ u \in Ids /\ rows'[u] # None /\ lease'[u].grants # None
                      /\ lease'[n].account = lease'[u].grants
                      /\ rows'[n].expiresAt <= rows'[u].expiresAt
      BY <1>3, <1>8
    <3> QED
      BY <1>3, <1>4, <2>1, <3>1, <3>2 DEF GrantOk
  <2>2. CASE i # n
    <3>1. /\ rows'[i] = rows[i] /\ lease'[i] = lease[i] /\ under'[i] = under[i]
          /\ GrantOk(i) /\ LeaseOk(i)
      BY <1>3, <1>4, <2>2 DEF FundingInv, TreeTypeOK
    <3>2. ASSUME rows[i] # None, lease[i].grants # None
          PROVE  /\ accounts'[lease[i].grants] # None
                 /\ Lapsed(rows[i]) => accounts'[lease[i].grants].state = "expired"
      <4>1. PICK b \in Children : b = lease[i].grants
        BY <3>1, <3>2 DEF LeaseOk, Lease, Opt
      <4>2. accounts[b] # None /\ (Lapsed(rows[i]) => accounts[b].state = "expired")
        BY <3>1, <3>2, <4>1 DEF GrantOk
      <4>3. accounts'[b] # None /\ accounts'[b].state = accounts[b].state
        BY <1>2, <4>2, TreeAssumption
      <4> QED
        BY <4>1, <4>2, <4>3
    <3>3. ASSUME rows[i] # None, under[i] # None
          PROVE  rows'[under[i]] = rows[under[i]] /\ lease'[under[i]] = lease[under[i]]
      BY <1>3, <1>6, <3>3
    <3> QED
      BY <3>1, <3>2, <3>3 DEF GrantOk
  <2> QED
    BY <2>1, <2>2
<1>11. LapseTogether'
  <2> SUFFICES ASSUME NEW i \in Ids, rows'[i] # None, under'[i] # None, Lapsed(rows'[under'[i]])
               PROVE  rows'[i].state # "active"
    BY DEF LapseTogether
  <2>1. CASE i = n
    BY <1>3, <1>4, <1>8, <2>1
  <2>2. CASE i # n
    <3>1. rows'[i] = rows[i] /\ under'[i] = under[i] /\ rows'[under[i]] = rows[under[i]]
      BY <1>3, <1>4, <1>6, <2>2
    <3> QED
      BY <3>1 DEF FundingInv, LapseTogether
  <2> QED
    BY <2>1, <2>2
<1>12. RowsTyped(rows) /\ RowsTyped(rows')
  BY <1>2, TypedRows, TypedRowsNext DEF TreeTypeOK
<1>13. ASSUME NEW f \in Ids PROVE Covers(f)'
  <2> SUFFICES ASSUME rows'[f] # None
               PROVE  Held(rows', Basis(under'), f) <= rows'[f].amount
    BY DEF Covers
  <2>1. /\ Held(rows, Basis(under), f) \in Nat
        /\ HeldAt(rows', Basis(under'), f, n) \in Nat /\ HeldAt(rows, Basis(under), f, n) \in Nat
        /\ Held(rows', Basis(under'), f) = Held(rows, Basis(under), f)
             + HeldAt(rows', Basis(under'), f, n) - HeldAt(rows, Basis(under), f, n)
    <3>1. \A i \in Ids : i # n => rows'[i] = rows[i] /\ Basis(under')[i] = Basis(under)[i]
      BY <1>3, <1>4 DEF Basis
    <3> QED
      BY <1>3, <1>12, <3>1, PartsNat, TotalsNat, OneRowMoves
  <2>2. HeldAt(rows, Basis(under), f, n) = 0
    BY <1>3 DEF HeldAt
  <2>3. HeldAt(rows', Basis(under'), f, n) = IF u = f THEN amount ELSE 0
    BY <1>3, <1>4 DEF HeldAt, HeldOf, Basis
  <2>4. CASE f = n
    <3>1. u # f
      BY <1>5, <1>8, <2>4
    <3>2. Held(rows, Basis(under), f) = 0
      BY <1>3, <2>4, NothingUnder
    <3> QED
      BY <1>2, <1>3, <2>1, <2>2, <2>3, <2>4, <3>1, <3>2
  <2>5. CASE f # n /\ u # f
    <3>1. rows'[f] = rows[f] /\ Covers(f) /\ rows[f].amount \in Nat
      BY <1>3, <2>5, LeaseFacts DEF FundingInv
    <3> QED
      BY <2>1, <2>2, <2>3, <2>5, <3>1 DEF Covers
  <2>6. CASE u = f
    <3>1. /\ u # None /\ u \in Ids /\ u # n /\ rows[u] # None /\ lease[u].grants = a
          /\ a \in Children /\ accounts[a] # None /\ rows[u].amount = accounts[a].capacity
          /\ accounts[a].capacity # None
      BY <1>5, <1>8, <2>6
    <3>2. rows'[f] = rows[f] /\ rows[f].amount \in Nat
      BY <1>3, <2>6, <3>1, LeaseFacts
    <3>3. amount <= rows[f].amount - ActiveAgainst(a) - SettledAgainst(a)
      <4>1. a \notin Tasks
        BY <3>1, TreeAssumption
      <4>2. amount <= rows[f].amount - ActiveAgainst(a) - SettledAgainst(a) - 0
        BY <1>2, <2>6, <3>1, <4>1 DEF Affords, Capacity, Protected
      <4>3. ActiveAgainst(a) \in Nat /\ SettledAgainst(a) \in Nat
        BY CountedByAccount
      <4> QED
        BY <1>2, <3>2, <4>2, <4>3
    <3>4. Held(rows, Basis(under), f) <= Held(rows, lease, a)
      <4>1. ASSUME NEW i \in Ids
            PROVE  HeldAt(rows, Basis(under), f, i) <= HeldAt(rows, lease, a, i)
        <5>1. HeldAt(rows, lease, a, i) \in Nat
          BY <1>12, PartsNat
        <5>2. CASE rows[i] # None /\ under[i] = f
          <6>1. lease[i].account = a
            BY <1>5, <2>6, <3>1, <5>2 DEF FundingInv, GrantOk
          <6>2. HeldAt(rows, Basis(under), f, i) = HeldAt(rows, lease, a, i)
            BY <5>2, <6>1 DEF HeldAt, Basis
          <6> QED
            BY <5>1, <6>2
        <5>3. CASE ~(rows[i] # None /\ under[i] = f)
          BY <5>1, <5>3 DEF HeldAt, Basis
        <5> QED
          BY <5>2, <5>3
      <4> QED
        BY <1>12, <4>1, HeldNoMore
    <3>5. /\ Held(rows, lease, a) <= ActiveAgainst(a) + SettledAgainst(a)
          /\ ActiveAgainst(a) \in Nat /\ SettledAgainst(a) \in Nat /\ Held(rows, lease, a) \in Nat
      BY <1>12, CountedByAccount, TotalsNat
    <3> QED
      BY <1>2, <2>1, <2>2, <2>3, <2>6, <3>2, <3>3, <3>4, <3>5
  <2> QED
    BY <2>4, <2>5, <2>6
<1> QED
  BY <1>4, <1>9, <1>10, <1>11, <1>13 DEF FundingInv

LEMMA StepFunding ==
  ASSUME TreeTypeOK, TreeTypeOK', FundingInv, [AtNext]_atVars
  PROVE  FundingInv'
<1>0. TypeOK /\ TypeOK'
  BY DEF TreeTypeOK
<1>1. ASSUME UNCHANGED <<rows, lease, under, accounts>> PROVE FundingInv'
  BY <1>0, <1>1, RowsStand
<1>2. ASSUME UNCHANGED atVars \/ AtTick PROVE FundingInv'
  <2>1. UNCHANGED <<rows, lease, under, accounts>>
    BY <1>2 DEF atVars, vars, AtTick, Tick
  <2> QED
    BY <1>1, <2>1
<1>3. ASSUME NEW t \in Tasks, NEW plan \in Plans, AtReleaseForPlan(t, plan) PROVE FundingInv'
  <2> DEFINE S == {i \in Of(t, "active") : rows[i].plan = plan}
  <2>1. /\ S \in SUBSET Ids /\ \A i \in S : rows[i] # None /\ rows[i].state = "active"
        /\ Ended(S, "released") /\ UNCHANGED <<lease, under, accounts>>
    BY <1>3 DEF AtReleaseForPlan, ReleaseActiveForPlan, Of
  <2> HIDE DEF S
  <2>2. /\ GrantsShrink
        /\ \A i \in Ids : i \notin S => rows'[i] = rows[i]
        /\ \A i \in S : rows'[i] # None /\ rows'[i].state = "released" /\ ~rows'[i].late
    BY <2>1, EndedShrink
  <2>3. \A i \in Ids : rows'[i] # None /\ Lapsed(rows'[i]) => rows[i] # None /\ Lapsed(rows[i])
    BY <2>2 DEF Lapsed
  <2> QED
    BY <1>0, <2>1, <2>2, <2>3, FundingStays
<1>4. ASSUME NEW k \in Ids, Ends(k) PROVE FundingInv'
  <2>0. UNCHANGED <<lease, under, accounts>>
    BY <1>4 DEF Ends
  <2>1. CASE Release(k)
    <3>1. /\ {k} \in SUBSET Ids /\ (\A i \in {k} : rows[i] # None /\ rows[i].state = "active")
          /\ Ended({k}, "released")
      BY <2>1 DEF Release
    <3>2. /\ GrantsShrink
          /\ \A i \in Ids : i \notin {k} => rows'[i] = rows[i]
          /\ \A i \in {k} : rows'[i] # None /\ rows'[i].state = "released" /\ ~rows'[i].late
      BY <2>0, <3>1, EndedShrink
    <3>3. \A i \in Ids : rows'[i] # None /\ Lapsed(rows'[i]) => rows[i] # None /\ Lapsed(rows[i])
      BY <3>2 DEF Lapsed
    <3> QED
      BY <1>0, <2>0, <3>2, <3>3, FundingStays
  <2>2. ASSUME NEW a \in Opt(Amounts), Settle(k, a) PROVE FundingInv'
    <3>1. /\ GrantsShrink
          /\ \A i \in Ids : rows'[i] # None /\ Lapsed(rows'[i]) => rows[i] # None /\ Lapsed(rows[i])
      BY <2>0, <2>2, SettleShrinks
    <3> QED
      BY <1>0, <2>0, <3>1, FundingStays
  <2> QED
    BY <1>4, <2>1, <2>2 DEF Ends
<1>5. ASSUME NEW t \in Tasks, NEW plan \in Opt(Plans), NEW class \in Classes, NEW a \in Amounts,
             NEW k \in Keys, NEW ttl \in TTLs, AtReserve(t, plan, class, a, k, ttl)
      PROVE  FundingInv'
  <2> DEFINE n == issued + 1
             drawn == DrawOf(t, class, a)
             at == now + ttl
  <2>1. /\ Inserted(n, t, plan, a, drawn, at, t, None)
        /\ UNCHANGED <<accounts, hard, renewals, under>>
    BY <1>5, ReserveInserts
  <2> HIDE DEF n, drawn, at
  <2>2. /\ rows[n] = None /\ lease'[n].grants = None /\ ~Lapsed(rows'[n])
        /\ \A i \in Ids : i # n => rows'[i] = rows[i] /\ lease'[i] = lease[i]
    BY <2>1 DEF Inserted, Lapsed
  <2>3. /\ \A i \in Ids : rows[i] # None => rows'[i] = rows[i] /\ lease'[i] = lease[i]
        /\ \A i \in Ids : rows[i] = None /\ rows'[i] # None =>
             lease'[i].grants = None /\ ~Lapsed(rows'[i])
    BY <2>2
  <2> QED
    BY <1>0, <2>1, <2>3, RowsStand
<1>6. ASSUME NEW t \in Tasks,
             \/ \E policy \in Policies, e \in Reserves : AtInitializeTaskBudget(t, policy, e)
             \/ \E e \in Reserves : AtAdjust(t, e)
             \/ \E k \in Keys, a \in RenewalAmounts : GrantRenewal(t, k, a)
      PROVE  FundingInv'
  <2>1. UNCHANGED <<rows, lease, under, accounts>>
    BY <1>6 DEF AtInitializeTaskBudget, InitializeTaskBudget, AtAdjust, AdjustCompletionReserve, GrantRenewal
  <2> QED
    BY <1>1, <2>1
<1>7. ASSUME NEW c \in Children, NEW a \in Payers[c], NEW amount \in Amounts, NEW k \in Keys,
             NEW ttl \in TTLs, GrantSublease(a, c, amount, k, ttl)
      PROVE  FundingInv'
  <2>1. a \in Accounts
    BY TreeAssumption
  <2> QED
    BY <1>7, <2>1, SubleaseFunding
<1>8. ASSUME AtExpire PROVE FundingInv'
  BY <1>0, <1>8, ExpireFunding
<1>9. ASSUME NEW c \in Children, EnsureChildAccount(c) PROVE FundingInv'
  BY <1>9, ProvisionFunding
<1> QED
  BY <1>2, <1>3, <1>4, <1>5, <1>6, <1>7, <1>8, <1>9 DEF AtNext

LEMMA TreeInitInv ==
  ASSUME AtInit
  PROVE  TreeInv
<1>1. TypeOK
  BY ReservationAssumption DEF AtInit, Init, TypeOK, Opt
<1>2. TreeTypeOK
  BY <1>1 DEF AtInit, Init, TreeTypeOK, LeaseOk, AccountOk, Opt
<1>3. \A t \in Tasks : Laws(t) /\ Backed(t)
  BY DEF AtInit, Init, Laws, Backed
<1>4. FundingInv
  BY DEF AtInit, Init, FundingInv, FundingOk, GrantOk, Covers, LapseTogether
<1> QED
  BY <1>2, <1>3, <1>4 DEF TreeInv

LEMMA TreeInductive == AtSpec => []TreeInv
<1>1. AtInit => TreeInv
  BY TreeInitInv
<1>2. TreeInv /\ [AtNext]_atVars => TreeInv'
  <2> SUFFICES ASSUME TreeInv, [AtNext]_atVars PROVE TreeInv'
    OBVIOUS
  <2>1. TreeTypeOK' /\ \A t \in Tasks : Laws(t)'
    BY StepLaws DEF TreeInv
  <2>2. \A t \in Tasks : Backed(t)'
    BY <2>1, StepBacked DEF TreeInv
  <2>3. FundingInv'
    BY <2>1, StepFunding DEF TreeInv
  <2> QED
    BY <2>1, <2>2, <2>3 DEF TreeInv
<1> QED
  BY <1>1, <1>2, PTL DEF AtSpec

\* What a task's account holds takes room in the task's budget.
LEMMA HeldTakesRoom ==
  ASSUME TreeTypeOK, NEW t \in Tasks
  PROVE  Held(rows, lease, t) <= Room(rows, t) /\ Held(rows, lease, t) \in Nat
<1> DEFINE f == [i \in Ids |-> HeldAt(rows, lease, t, i)]
           g == [i \in Ids |-> RoomAt(rows, t, i)]
<1>0. RowsTyped(rows)
  BY TypedRows DEF TreeTypeOK
<1>1. ASSUME NEW i \in Ids PROVE f[i] \in Nat /\ g[i] \in Nat /\ f[i] <= g[i]
  <2>1. HeldAt(rows, lease, t, i) \in Nat /\ RoomAt(rows, t, i) \in Nat /\ DrawAt(rows, t, i) \in Nat
    BY <1>0, PartsNat
  <2>2. rows[i] # None /\ lease[i].account = t => rows[i].task = t
    BY LeaseFacts
  <2>3. HeldAt(rows, lease, t, i) <= RoomAt(rows, t, i)
    BY <2>1, <2>2 DEF HeldAt, RoomAt, DrawAt, MaxOf
  <2> QED
    BY <2>1, <2>3
<1> HIDE DEF f, g
<1>2. Sum(f) <= Sum(g) /\ Sum(f) \in Nat
  <2>1. \A i \in Ids : f[i] \in Int /\ g[i] \in Int /\ f[i] <= g[i]
    BY <1>1
  <2>2. \A i \in Ids : f[i] \in Nat
    BY <1>1
  <2> QED
    BY <2>1, <2>2, TableSumLe, TableSum
<1> QED
  BY <1>2 DEF f, g, Held, Room

LEMMA LawsBack ==
  ASSUME TreeTypeOK, \A t \in Tasks : Laws(t) /\ Backed(t)
  PROVE  TaskAccountBacked /\ ReserveConserved /\ TurnWithinCeiling
<1>1. ASSUME NEW t \in Tasks, Direct(t) \/ NoOverdraw(t) PROVE GrantsFit(t)
  <2> SUFFICES ASSUME budgets[t] # None, budgets[t].ceiling = None
               PROVE  budgets[t].reserve + Held(rows, lease, t) <= budgets[t].limit
    BY DEF GrantsFit, Held, HeldAt
  <2>1. CASE Direct(t)
    <3>1. budgets[t].reserve + Room(rows, t) <= budgets[t].limit
      BY <2>1 DEF Laws
    <3>2. Room(rows, t) \in Nat /\ budgets[t].reserve \in Nat /\ budgets[t].limit \in Nat
      BY TypedRows, TotalsNat DEF TreeTypeOK, TypeOK, Opt, Budget
    <3> QED
      BY <3>1, <3>2, HeldTakesRoom
  <2>2. CASE NoOverdraw(t)
    BY <2>2 DEF Backed
  <2> QED
    BY <1>1, <2>1, <2>2
<1>2. ASSUME NEW t \in Tasks, budgets[t] # None
      PROVE  budgets[t].reserve + TaskSum(t, TrueDraw) = floor[t]
  <2>1. TaskSum(t, TrueDraw) = Draws(rows, t)
    BY DEF TaskSum, Draws, DrawAt
  <2> QED
    BY <1>2, <2>1 DEF Laws
<1>3. ASSUME NEW t \in Tasks, budgets[t] # None, budgets[t].ceiling # None
      PROVE  Sum([i \in Ids |-> IF i \in Against(t, "active") /\ lease[i].grants = None
                                THEN rows[i].amount ELSE 0]) <= budgets[t].ceiling
  <2> DEFINE f == [i \in Ids |-> IF i \in Against(t, "active") /\ lease[i].grants = None
                                 THEN rows[i].amount ELSE 0]
             g == [i \in Ids |-> TurnAt(rows, lease, t, i)]
  <2>1. f = g
    BY DEF Against, TurnAt
  <2>2. Sum(f) = TurnHeld(rows, lease, t)
    BY <2>1 DEF TurnHeld
  <2> QED
    BY <1>3, <2>2 DEF Laws
<1> QED
  BY <1>1, <1>2, <1>3 DEF TaskAccountBacked, ReserveConserved, TurnWithinCeiling

LEMMA CoversAll ==
  ASSUME FundingInv
  PROVE  FundingCovers
<1> SUFFICES ASSUME NEW f \in Ids, rows[f] # None
             PROVE  Sum([i \in Ids |-> IF rows[i] # None /\ under[i] = f THEN HeldOf(rows[i]) ELSE 0])
                    <= rows[f].amount
  BY DEF FundingCovers
<1> DEFINE x == [i \in Ids |-> IF rows[i] # None /\ under[i] = f THEN HeldOf(rows[i]) ELSE 0]
           g == [i \in Ids |-> HeldAt(rows, Basis(under), f, i)]
<1>1. x = g
  BY DEF HeldAt, Basis
<1>2. Sum(x) = Held(rows, Basis(under), f)
  BY <1>1 DEF Held
<1> QED
  BY <1>2 DEF FundingInv, Covers

\* The reserve of a task is backed while no reservation drew more from it than it
\* reserved, or no account below the task's hands out leases; no draw on it is lost or
\* given back twice; and a turn's reservations stay within its ceiling.  Reservations
\* are checked on the task's rows and subleases on the account's.
THEOREM ReserveStaysBacked == AtSpec => [](TaskAccountBacked /\ ReserveConserved /\ TurnWithinCeiling)
<1>1. TreeInv => TaskAccountBacked /\ ReserveConserved /\ TurnWithinCeiling
  BY LawsBack DEF TreeInv
<1> QED
  BY <1>1, TreeInductive, PTL

\* What is admitted anywhere in the tree is backed by what it was admitted under,
\* whoever pays, however often an account is funded again and whoever settles or
\* releases a funding lease, although grant_sublease looks one level up and no further.
THEOREM AdmissionsAreBacked == AtSpec => []AdmissionsBacked
<1>1. TreeInv => AdmissionsBacked
  BY LawsBack, CoversAll DEF TreeInv, AdmissionsBacked
<1> QED
  BY <1>1, TreeInductive, PTL

\* One pass of expire_stale_reservations takes with a funding lease every lease that
\* its account handed out under it, at every level, because no lease outlives the one
\* above it.
THEOREM LeasesLapseTogether == AtSpec => []LapseTogether
<1>1. TreeInv => LapseTogether
  BY DEF TreeInv, FundingInv
<1> QED
  BY <1>1, TreeInductive, PTL
=============================================================================
