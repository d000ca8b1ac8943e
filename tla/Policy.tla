------------------------------- MODULE Policy -------------------------------
(***************************************************************************)
(* Policy evaluation (crates/domain/src/policy.rs, external_approval.rs,   *)
(* business_context.rs and completion_reserve_for of reservation.rs): from *)
(* a projected spend and duration to an admission.  Pure operators; deny   *)
(* reasons and approval requests are reduced to the admission they cause.  *)
(*                                                                         *)
(* Amounts and seconds are naturals, confidence is 0 (low) to 2 (high).    *)
(* Every policy the daemon can load is a compiled preset, whose            *)
(* TimeBound::deadline is None.                                            *)
(***************************************************************************)
EXTENDS Integers

CONSTANT NoBound    \* an Option that is None

ASSUME PolicyAssumption == NoBound \notin Nat

Bounds == Nat \cup {NoBound}
Admissions == {"admit", "approval", "deny"}
Lesser(a, b) == IF a <= b THEN a ELSE b

\* ResourceBound and TimeBound
Bound == [mode: {"hard", "elastic", "approval"}, target: Nat, elastic: Bounds, hard: Bounds]

\* validate_resource and validate_time; a resource bound always has a hard ceiling.
ValidBound(b) ==
  /\ b \in Bound
  /\ b.mode = "hard" => b.hard # NoBound
  /\ (b.elastic # NoBound) <=> (b.mode = "elastic")
  /\ b.hard # NoBound => b.target <= b.hard
  /\ b.elastic # NoBound => b.target <= b.elastic
  /\ b.elastic # NoBound /\ b.hard # NoBound => b.elastic <= b.hard

\* TurnBound: validate_turn.
ValidTurn(turn) ==
  turn # NoBound => turn \in [cold: Nat, ceiling: Nat] /\ turn.cold <= turn.ceiling

ValidPolicy(p) ==
  /\ ValidBound(p.resource) /\ p.resource.hard # NoBound
  /\ ValidBound(p.time)
  /\ ValidTurn(p.turn)
  /\ p.minConfidence \in 0..2
-----------------------------------------------------------------------------
\* What each mode lets through without asking.
PreAuthorized(b) ==
  CASE b.mode = "hard"     -> b.hard
    [] b.mode = "elastic"  -> IF b.target <= b.elastic THEN b.elastic ELSE b.target
    [] b.mode = "approval" -> b.target

\* evaluate_resource
evaluate_resource(b, projected) ==
  IF projected <= PreAuthorized(b) THEN "admit"
  ELSE IF projected <= b.hard THEN "approval"
  ELSE "deny"

\* evaluate_time: the hard ceiling may be absent, and then nothing is denied.
evaluate_time(b, secs) ==
  IF secs <= PreAuthorized(b) THEN "admit"
  ELSE IF b.hard = NoBound THEN "approval"
  ELSE IF secs <= b.hard THEN "approval"
  ELSE "deny"

\* A turn-scoped budget is not measured against the lifetime bound.
evaluate_with(p, projected, secs, confidence, lifetime) ==
  LET outcomes == {IF lifetime THEN evaluate_resource(p.resource, projected) ELSE "admit",
                   evaluate_time(p.time, secs)}
  IN  IF "deny" \in outcomes \/ confidence < p.minConfidence THEN "deny"
      ELSE IF "approval" \in outcomes THEN "approval"
      ELSE "admit"

evaluate_turn(p, requested) ==
  IF p.turn = NoBound THEN "admit"
  ELSE IF requested > p.turn.ceiling THEN "deny" ELSE "admit"

\* A turn Deny always wins; a turn Admit never upgrades.
with_turn_outcome(admission, outcome) == IF outcome = "deny" THEN "deny" ELSE admission

\* Only a decision that asked for approval is changed by the answer;
\* "abstain" is also a webhook that failed or is not configured.
apply_external_approval(admission, verdict) ==
  IF admission # "approval" THEN admission
  ELSE CASE verdict = "approve" -> "admit"
         [] verdict = "reject"  -> "deny"
         [] verdict = "abstain" -> admission

\* The time bound narrowed to the seconds remaining to a business deadline.
NarrowedTime(time, remaining) ==
  LET target  == Lesser(time.target, remaining)
      hard    == IF time.hard = NoBound THEN remaining ELSE Lesser(time.hard, remaining)
      clamp(e) == IF e < target THEN target ELSE Lesser(e, hard)
  IN  [mode    |-> time.mode,
       target  |-> target,
       elastic |-> IF time.elastic = NoBound THEN NoBound ELSE clamp(time.elastic),
       hard    |-> hard]

\* No deadline (NoBound), one that has passed, and a failed fetch change nothing.
apply_business_context(p, remaining) ==
  IF remaining = NoBound \/ remaining = 0 THEN p
  ELSE [p EXCEPT !.time = NarrowedTime(p.time, remaining)]

turn_fallback_request(p) == IF p.turn = NoBound THEN p.resource.target ELSE p.turn.cold

\* ResourceAmount::scaled rounds half away from zero.
Scaled(amount, percent) == (2 * amount * percent + 100) \div 200

\* 20% of the basis and 5% for each required criterion, at most 50%.
ReservePercent(criteria) == Lesser(20 + 5 * criteria, 50)

completion_reserve_for(p, basis, criteria) ==
  Lesser(Scaled(basis, ReservePercent(criteria)), p.resource.hard)
=============================================================================
