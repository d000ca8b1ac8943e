------------------------------- MODULE Pacer -------------------------------
(***************************************************************************)
(* The pacing controller (crates/domain/src/pacing): `step` applies one    *)
(* event and then starts what may start (step.rs), the forecast says when  *)
(* a task fits every quota window (forecast.rs), and `simulate` replays    *)
(* events and the one timer the controller leaves (simulate.rs).           *)
(*                                                                         *)
(* The controller's state is one record, so that a step is an operator.    *)
(* Every task and window counts in one unit; a window in another unit, or  *)
(* a gauge, refuses every task for as long as it is there.  An estimate is *)
(* its p90, or None when it is insufficient or below the policy's          *)
(* confidence.  Proposals are what the state shows of them: what started,  *)
(* and the timer.                                                          *)
(***************************************************************************)
EXTENDS QuotaWindow

CONSTANTS
  Tasks,          \* task ids
  Deps, Rank, Due, Principal, Estimate,   \* of each task
  Estimates,      \* what a revision may say
  Preferences,    \* [mode, fanout, target, horizon, reserve, open, close, day]
  Deadline,       \* of the policy
  Floor,          \* the completion reserve
  Spends,         \* amounts a task may report
  MaxProbeSteps,  \* MAX_PROBE_STEPS
  MaxTime,        \* bound: no event later than this
  None

ASSUME PacerAssumption ==
  /\ Tasks \subseteq Nat /\ IsFiniteSet(Tasks)
  /\ Rank \in [Tasks -> Int] /\ Due \in [Tasks -> Int]
  /\ DOMAIN Deps = Tasks /\ \A t \in Tasks : Deps[t] \subseteq {d \in Tasks : d < t}
  /\ Estimate \in [Tasks -> Nat \cup {None}] /\ Estimates \subseteq Nat \cup {None}
  /\ Preferences \subseteq
       [mode : {"burst", "sustain"}, fanout : Nat, target : Nat, horizon : Nat, reserve : Nat,
        open : Nat, close : Nat, day : Nat \ {0}]
  /\ Spends \subseteq Nat /\ {Deadline, Floor, MaxTime} \subseteq Nat
  /\ MaxProbeSteps \in Nat /\ MaxProbeSteps >= 2
  /\ None \notin Nat

VARIABLES
  p,              \* PacerState
  now,            \* the instant of the last event
  pref,           \* the preference of the scenario
  begun           \* the trace is not empty

pcVars == <<p, now, pref, begun>>

Principals == {Principal[t] : t \in Tasks}
MaxBackoff == 400

\* PacerState::default().
Fresh ==
  [completed |-> {}, active |-> <<>>, backoff |-> [q \in Principals |-> 100], lastStart |-> None,
   timer |-> None, usage |-> {}, spend |-> [t \in Tasks |-> 0], estimates |-> Estimate]

PcInit == p = Fresh /\ now = 0 /\ pref \in Preferences /\ begun = FALSE
-----------------------------------------------------------------------------
(* The forecast: what a task needs, and when every window admits it.       *)

Limit == Min({w.limit : w \in Windows})
Larger(a, b) == IF a >= b THEN a ELSE b

\* One figure for all windows.  Backoff throttles; it never makes a task infeasible.
Need(estimate, backoff) ==
  IF estimate = None \/ Larger(estimate, Floor) >= Limit THEN None
  ELSE Min({(Larger(estimate, Floor) * backoff) \div 100, Limit - 1})

\* Mutant: what an active task has reported is not looked at.
PendingOfHolds(s) == SumFunction([t \in DOMAIN s.active |-> s.active[t].hold])

\* What the active tasks hold, or have spent if that is more.
Pending(s) == SumFunction([t \in DOMAIN s.active |-> Larger(s.active[t].hold, s.spend[t])])

\* The continuity reserve is spare room, which never makes a need infeasible.
Injected(w, need, preference) ==
  LET spare == IF preference.mode = "sustain" THEN (w.limit * preference.reserve) \div 10000 ELSE 0
  IN  Min({need + spare, w.limit - 1})

Check(w, s, need, preference, t) ==
  Evaluate(w, s.usage, Pending(s) + Injected(w, need, preference), t)

\* Mutant: the instant the last window is relieved is taken without another look.
EarliestSafeAdmitOnce(s, need, preference, start) ==
  LET blocked == {c \in {Check(w, s, need, preference, start) : w \in Windows} : c.blocks}
  IN  IF blocked = {} THEN start
      ELSE IF \E c \in blocked : c.until.relief # "at" THEN None
      ELSE Min({c.until.at : c \in blocked})

\* The windows are looked at again at the instant the last of them is relieved.
EarliestSafeAdmit(s, need, preference, start) ==
  LET Probe[n \in 0..MaxProbeSteps] == [t \in Nat |->
        LET blocked == {c \in {Check(w, s, need, preference, t) : w \in Windows} : c.blocks}
        IN  IF n = 0 THEN None
            ELSE IF blocked = {} THEN t
            ELSE IF \E c \in blocked : c.until.relief # "at" \/ c.until.at <= t THEN None
            ELSE Probe[n - 1][Max({c.until.at : c \in blocked})]]
  IN  Probe[MaxProbeSteps][start]
-----------------------------------------------------------------------------
(* One candidate: when it may start at the earliest. *)

\* The task's own, or the latest revision of it.
EstimateOf(s, t) == s.estimates[t]

\* next_working_instant
NextWorking(preference, t) ==
  LET clock == t % preference.day IN
  IF clock < preference.open THEN t - clock + preference.open
  ELSE IF clock >= preference.close THEN t - clock + preference.day + preference.open
  ELSE t

\* sustain_spacing: the need at the slowest window's rate.
Spacing(estimate) ==
  LET need  == IF estimate = None THEN 0 ELSE estimate
      paces == {CeilDiv(need * w.length, w.limit) : w \in {v \in Windows : v.kind = "sliding" /\ v.limit > 0}}
               \cup {CeilDiv(need * w.period, w.refill) : w \in {v \in Windows : v.kind = "bucket"}}
  IN  IF paces = {} THEN 0 ELSE Max(paces)

EarliestPaced(s, estimate, preference, t) ==
  IF preference.mode = "burst" THEN t
  ELSE Larger(NextWorking(preference, t),
              IF s.lastStart = None THEN 0 ELSE s.lastStart + Spacing(estimate))

\* cutoff_refusal
PastCutoff(preference, instant, t) ==
  \/ instant > Deadline
  \/ preference.mode = "burst" /\ instant > preference.target
  \/ preference.mode = "sustain" /\ instant > t + preference.horizon

\* A principal that backs off has one task at a time.
Throttled(s, t) ==
  /\ s.backoff[Principal[t]] > 100
  /\ \E a \in DOMAIN s.active : Principal[a] = Principal[t]

BeforeCutoff(at, preference, instant) ==
  IF at = None \/ PastCutoff(preference, at, instant) THEN None ELSE at

AdmitAt(s, t, preference, instant) ==
  LET estimate == EstimateOf(s, t)
      earliest == EarliestPaced(s, estimate, preference, instant)
      need     == Need(estimate, s.backoff[Principal[t]])
  IN  IF Throttled(s, t) \/ PastCutoff(preference, earliest, instant) \/ need = None THEN None
      ELSE BeforeCutoff(EarliestSafeAdmit(s, need, preference, earliest), preference, instant)
-----------------------------------------------------------------------------
(* try_admit: the ready tasks in order, each seeing what the ones before it hold. *)

Ready(s) == {t \in Tasks \ s.completed : Deps[t] \subseteq s.completed}

Before(a, b) ==
  \/ Rank[a] > Rank[b]
  \/ Rank[a] = Rank[b] /\ Due[a] < Due[b]
  \/ Rank[a] = Rank[b] /\ Due[a] = Due[b] /\ a < b

\* ready_order ends with this one.
LastReady(tasks) == CHOOSE t \in tasks : \A o \in tasks \ {t} : Before(o, t)

Fanout(preference) == IF preference.mode = "burst" THEN preference.fanout ELSE 1

\* A map with more keys, all of one value.
With(f, keys, value) ==
  [x \in DOMAIN f \cup keys |-> IF x \in DOMAIN f THEN f[x] ELSE value]

\* The hold is inflated by backoff, the floor for its settlement is not.
Start(s, t, instant) ==
  [s EXCEPT !.active = With(@, {t}, [hold |-> Need(EstimateOf(s, t), s.backoff[Principal[t]]),
                                     floor |-> Need(EstimateOf(s, t), 100)]),
            !.lastStart = instant]

Earlier(timer, at) == IF timer = None THEN at ELSE Min({timer, at})

\* A task starts now, or the timer is set for when it may, or neither.
Place(s, t, at, instant) ==
  IF at = None THEN s
  ELSE IF at <= instant THEN Start(s, t, instant)
  ELSE [s EXCEPT !.timer = Earlier(s.timer, at)]

Visit(s, t, preference, instant) ==
  IF Cardinality(DOMAIN s.active) >= Fanout(preference) \/ t \in DOMAIN s.active THEN s
  ELSE Place(s, t, AdmitAt(s, t, preference, instant), instant)

TryAdmit(s, preference, instant) ==
  MapThenFoldSet(LAMBDA t, acc : Visit(acc, t, preference, instant), [s EXCEPT !.timer = None],
                 LAMBDA t : t, LastReady, Ready(s))
-----------------------------------------------------------------------------
(* step: the events. *)

\* Settled at the larger of what was reported and the un-inflated need.
Settled(s, t) == Larger(s.spend[t], s.active[t].floor)

Without(f, t) == [x \in DOMAIN f \ {t} |-> f[x]]

OnCompleted(s, t, instant) ==
  IF t \notin DOMAIN s.active THEN s
  ELSE [s EXCEPT
         !.active = Without(@, t),
         !.completed = @ \cup {t},
         !.spend[t] = 0,
         !.backoff[Principal[t]] = IF s.spend[t] <= s.active[t].hold THEN 100 ELSE @,
         !.usage = @ \cup {[id |-> t, at |-> instant, amount |-> Settled(s, t)]}]

OnSpend(s, t, amount) ==
  IF t \notin DOMAIN s.active THEN s
  ELSE LET hold  == s.active[t].hold
           ratio == Min({CeilDiv(amount, Larger(hold, 1)) * 100, MaxBackoff})
       IN  [s EXCEPT
             !.spend[t] = Larger(@, amount),
             !.backoff[Principal[t]] = IF amount > hold THEN Larger(@, ratio) ELSE @]

OnRevised(s, t, estimate) ==
  IF t \in DOMAIN s.active \cup s.completed THEN s ELSE [s EXCEPT !.estimates[t] = estimate]

\* Mutant: a restart forgets when the last task started.
RestartedUnpaced(s) == [Fresh EXCEPT !.completed = s.completed, !.usage = s.usage]

\* restart_reset
Restarted(s) == [Fresh EXCEPT !.completed = s.completed, !.lastStart = s.lastStart,
                              !.usage = s.usage, !.estimates = s.estimates]
-----------------------------------------------------------------------------
(* simulate: events in the order of their instants, and the timer when no  *)
(* event is due before or at its instant.                                  *)

DueBy(instant) == instant \in now..MaxTime /\ (p.timer # None => instant <= p.timer)

Step(s, instant) ==
  /\ p' = TryAdmit(s, pref, instant)
  /\ now' = instant
  /\ begun' = TRUE
  /\ UNCHANGED pref

TaskCompleted(t, instant) == DueBy(instant) /\ Step(OnCompleted(p, t, instant), instant)
Spend(t, amount, instant) == DueBy(instant) /\ Step(OnSpend(p, t, amount), instant)
EstimateRevised(t, e, instant) == DueBy(instant) /\ Step(OnRevised(p, t, e), instant)
ModeChanged(instant) == DueBy(instant) /\ Step(p, instant)

Timer ==
  /\ p.timer # None /\ p.timer <= MaxTime
  /\ Step(p, p.timer)

PcNext ==
  \/ \E t \in Tasks, instant \in now..MaxTime :
       \/ TaskCompleted(t, instant)
       \/ \E amount \in Spends : Spend(t, amount, instant)
       \/ \E e \in Estimates : EstimateRevised(t, e, instant)
  \/ \E instant \in now..MaxTime : ModeChanged(instant)
  \/ Timer

PcSpec == PcInit /\ [][PcNext]_pcVars
-----------------------------------------------------------------------------
(* Properties *)

Started == DOMAIN p.active

\* What the active tasks take of every window.
Taken(s) == SumFunction([t \in DOMAIN s.active |-> Max({s.active[t].hold, s.spend[t]})])

\* A step that starts tasks leaves every window with something: for the holds of
\* all that run, those it started together included, and for what overrunning
\* tasks have reported.  Nothing starts before its dependencies, past a cutoff,
\* beyond the fanout, outside the working hours or too soon after another start.
StartsFit ==
  [][LET new == DOMAIN p'.active \ Started IN
     new # {} =>
       /\ \A w \in Windows : ~Blocks(w, p'.usage, Taken(p'), now')
       /\ \A t \in new : Deps[t] \subseteq p'.completed
       /\ ~PastCutoff(pref', now', now')
       /\ Cardinality(DOMAIN p'.active) <= Fanout(pref')
       /\ pref'.mode = "sustain" =>
            /\ NextWorking(pref', now') = now'
            /\ \A t \in new : p.lastStart # None => now' >= p.lastStart + Spacing(EstimateOf(p', t))
    ]_pcVars

\* What the forecast names is the first instant from which every window admits
\* the task until an entitlement expires, on the evidence so far; and if it names
\* none, there is none.
Admits(need, t) ==
  \A w \in Windows : ~Blocks(w, p.usage, Taken(p) + Injected(w, need, pref), t)

ForecastIsExact ==
  \A t \in Ready(p) \ Started :
    LET need == Need(EstimateOf(p, t), p.backoff[Principal[t]])
        at   == EarliestSafeAdmit(p, need, pref, now)
    IN  need # None => \A i \in now..(MaxTime + 1) :
          Admits(need, i) <=> at # None /\ i >= at /\ ~\E w \in Windows : Expired(w, i)

\* An entitlement ends before the windows have room.
RunsOut(s, need, preference, from) ==
  \E w \in Windows : \E end \in w.validUntil : \A i \in from..(end - 1) :
    \E v \in Windows : Measure(v, s.usage, Taken(s) + Injected(v, need, preference), i).blocks

\* After a step with nothing running, and unless a burst of no task was asked for
\* (max_fanout 0), every task that is ready and feasible has an instant at which it
\* may start, unless entitlements run out before there is room, and the timer is set
\* for it or earlier unless a cutoff comes before: the controller never waits for an
\* event that nobody owes it.  A principal's backoff does not change that.
NeverWedged ==
  begun /\ Started = {} /\ Fanout(pref) > 0 => \A t \in Ready(p) :
    LET estimate == EstimateOf(p, t)
        need     == Need(estimate, p.backoff[Principal[t]])
        earliest == EarliestPaced(p, estimate, pref, now)
        at       == EarliestSafeAdmit(p, need, pref, earliest)
    IN  estimate # None /\ Max({estimate, Floor}) < Limit =>
          /\ need # None
          /\ IF at = None
             THEN RunsOut(p, need, pref, earliest)
             ELSE PastCutoff(pref, at, now) \/ (p.timer # None /\ p.timer \in now + 1..at)

\* The instants the controller works with are right under any order of events: the
\* forecast names the first admissible one, and the timer never misses it.
InstantsAreRight == ForecastIsExact /\ NeverWedged
=============================================================================
