---------------------------- MODULE QuotaWindow ----------------------------
(***************************************************************************)
(* The evaluation of a quota window (crates/domain/src/quota_window/       *)
(* evaluate.rs): does it block at an instant, and when does that change?   *)
(* Pure operators over the evidence a caller supplies.                     *)
(*                                                                         *)
(* An instant is a natural number, one unit of the code's millisecond      *)
(* arithmetic; amounts are in the window's own unit.  Usage is a set: the  *)
(* records under one id are one record.  The calendar is what a fixed      *)
(* window needs of it: the instants at which it resets, at unequal         *)
(* distances as daylight saving makes them (calendar.rs), in a cycle.      *)
(***************************************************************************)
EXTENDS Integers, FiniteSets, FiniteSetsExt, SequencesExt

CONSTANTS
  Windows,      \* the quota windows, of one unit
  Second        \* instants to a second

(* Windows:                                                                *)
(*   [kind |-> "fixed",   limit, validUntil, cycle, resets]                *)
(*   [kind |-> "sliding", limit, validUntil, length]                       *)
(*   [kind |-> "bucket",  limit, validUntil, refill, period, anchor, level] *)
(* validUntil is when the entitlement expires: an Option, the set of at    *)
(* most one instant.  Answers: whether the window blocks, and the relief.  *)
At(instant)     == [relief |-> "at", at |-> instant]
NoRelief(why)   == [relief |-> why, at |-> 0]

\* QuotaWindow::validated
IsWindow(w) ==
  /\ w.limit \in Nat /\ w.validUntil \subseteq Nat
  /\ \/ /\ w.kind = "fixed"
        /\ w.cycle \in Nat \ {0} /\ w.resets \subseteq 0..(w.cycle - 1) /\ 0 \in w.resets
     \/ w.kind = "sliding" /\ w.length \in Nat \ {0}
     \/ /\ w.kind = "bucket" /\ {w.limit, w.refill, w.period} \subseteq Nat \ {0}
        /\ {w.anchor, w.level} \subseteq Nat /\ w.level <= w.limit

ASSUME WindowsAssumption ==
  /\ Windows # {} /\ IsFiniteSet(Windows) /\ \A w \in Windows : IsWindow(w)
  /\ Second \in Nat \ {0}

Amount(records) == SumFunction([u \in records |-> u.amount])

Answer(remaining, outstanding, limit, relief) ==
  [blocks |-> remaining <= 0,
   until  |-> IF outstanding >= limit THEN NoRelief("after_holds_settle")
              ELSE IF remaining > 0 THEN NoRelief("not_blocking") ELSE relief]

\* Evidence dated after `now` is not seen.
Seen(usage, now) == {u \in usage : u.at <= now}
-----------------------------------------------------------------------------
\* fixed_aligned_bounds: the period [start, end) that contains now.
PeriodStart(w, now) == now - (now % w.cycle) + Max({r \in w.resets : r <= now % w.cycle})
PeriodEnd(w, now) ==
  now - (now % w.cycle) + Min({r \in w.resets \cup {w.cycle} : r > now % w.cycle})

EvaluatePeriod(w, usage, outstanding, now) ==
  LET settled == Amount({u \in Seen(usage, now) : u.at >= PeriodStart(w, now)})
  IN  Answer(w.limit - settled - outstanding, outstanding, w.limit, At(PeriodEnd(w, now)))

\* Mutant: a record counts at the instant it ages out, too.
InWindowClosed(w, usage, now) == {u \in Seen(usage, now) : u.at >= now - w.length}

InWindow(w, usage, now) == {u \in Seen(usage, now) : u.at > now - w.length}

\* The oldest records age out first: the first of them whose going, together
\* with that of the older ones, leaves something.
EvaluateSliding(w, usage, outstanding, now) ==
  LET in       == InWindow(w, usage, now)
      Left(at) == w.limit - Amount({u \in in : u.at > at}) - outstanding
      enough   == {u.at : u \in {v \in in : Left(v.at) > 0}}
  IN  Answer(w.limit - Amount(in) - outstanding, outstanding, w.limit,
             IF enough = {} THEN NoRelief("unknown") ELSE At(Min(enough) + w.length))

\* Levels are scaled by the refill period, so that they stay whole.
Filled(w, level, elapsed) == Min({level + w.refill * elapsed, w.limit * w.period})

\* Records are read in the order of their instants, under one instant of their ids.
Older(u, v) == u.at < v.at \/ (u.at = v.at /\ u.id < v.id)
Newest(records) == CHOOSE u \in records : \A o \in records \ {u} : Older(o, u)

\* The level once a record is taken: refilled since the one before, less its amount.
Use(w, u, acc) ==
  [at |-> u.at, level |-> Filled(w, acc.level, u.at - acc.at) - u.amount * w.period]

BucketLevel(w, usage, now) ==
  LET last == MapThenFoldSet(LAMBDA u, acc : Use(w, u, acc), [at |-> w.anchor, level |-> w.level * w.period],
                             LAMBDA u : u, Newest, {u \in Seen(usage, now) : u.at >= w.anchor})
  IN  Filled(w, last.level, now - last.at)

CeilDiv(a, b) == (a + b - 1) \div b

EvaluateBucket(w, usage, outstanding, now) ==
  LET level   == BucketLevel(w, usage, now)
      deficit == (outstanding + 1) * w.period - level
  IN  Answer((level \div w.period) - outstanding, outstanding, w.limit,
             At(now + CeilDiv(deficit, w.refill)))

\* What the window's own figures say.
Measure(w, usage, outstanding, now) ==
  CASE w.kind = "fixed"   -> EvaluatePeriod(w, usage, outstanding, now)
    [] w.kind = "sliding" -> EvaluateSliding(w, usage, outstanding, now)
    [] w.kind = "bucket"  -> EvaluateBucket(w, usage, outstanding, now)

Expired(w, now) == \E until \in w.validUntil : until <= now

\* What blocks anyway keeps its answer; what would admit is indeterminate.
Evaluate(w, usage, outstanding, now) ==
  LET measured == Measure(w, usage, outstanding, now) IN
  IF Expired(w, now) /\ ~measured.blocks
  THEN [blocks |-> TRUE, until |-> NoRelief("expired")] ELSE measured

Blocks(w, usage, outstanding, now) == Evaluate(w, usage, outstanding, now).blocks
-----------------------------------------------------------------------------
(* A gauge is a provider's own reading: [at, until, reads, used, limit],   *)
(* where until is an Option and reads tells what the provider disclosed.   *)

\* whole_seconds: an age is cut to whole seconds.
AgeSecs(s, now) == (now - s.at) \div Second

ReadingRank(s) == IF s.reads = "undisclosed" THEN 0 ELSE s.used + 1

\* Of the readings of the latest instant, the highest.
LatestReading(snapshots, now) ==
  CHOOSE s \in Seen(snapshots, now) :
    \A o \in Seen(snapshots, now) :
      s.at > o.at \/ (s.at = o.at /\ ReadingRank(s) >= ReadingRank(o))

\* "mismatch" is a reading in another unit, "no_limit" one without a limit.
EvaluateGauge(maxStaleness, snapshots, now) ==
  IF Seen(snapshots, now) = {} THEN "no_snapshot"
  ELSE LET s == LatestReading(snapshots, now) IN
       IF (\E until \in s.until : until <= now) \/ AgeSecs(s, now) > maxStaleness THEN "stale"
       ELSE IF s.reads # "used" THEN s.reads
       ELSE IF s.used >= s.limit THEN "blocking" ELSE "admitting"
=============================================================================
