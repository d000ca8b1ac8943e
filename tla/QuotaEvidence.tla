--------------------------- MODULE QuotaEvidence ---------------------------
(***************************************************************************)
(* The evidence of a principal's quota windows as it grows: usage records  *)
(* that arrive late and out of order, holds that are taken and settled,    *)
(* provider readings, and time.  The properties compare what QuotaWindow   *)
(* computes at one instant with what it computes at every later one.       *)
(***************************************************************************)
EXTENDS QuotaWindow

CONSTANTS
  RecordIds,    \* ids of usage records and of holds
  Amounts,      \* what a record or a hold is about
  MaxStaleness, \* max_staleness_secs of the gauge
  Readings,     \* what a provider's snapshot may say: [reads, used, limit]
  Validity,     \* how long a snapshot says it is valid, if it says so: Options
  LastArrival,  \* bound: the last instant at which evidence arrives
  Horizon       \* bound: the last instant the properties look at

ASSUME EvidenceAssumption ==
  /\ RecordIds \subseteq Nat /\ Amounts \subseteq Nat /\ Validity \subseteq SUBSET Nat
  /\ {MaxStaleness, LastArrival, Horizon} \subseteq Nat
  /\ Readings \subseteq [reads : {"undisclosed", "mismatch", "no_limit", "used"}, used : Nat, limit : Nat]

VARIABLES
  clock,
  spent,      \* usage records: [id, at, amount]
  holds,      \* outstanding holds: [id, amount]
  snapshots   \* a provider's readings: [at, until, reads, used, limit]

qeVars == <<clock, spent, holds, snapshots>>

QeInit == clock = 0 /\ spent = {} /\ holds = {} /\ snapshots = {}

Used == {u.id : u \in spent} \cup {h.id : h \in holds}

\* A record of something that happened earlier, or now.
Record(id, at, amount) ==
  /\ id \notin Used /\ at <= clock
  /\ spent' = spent \cup {[id |-> id, at |-> at, amount |-> amount]}
  /\ UNCHANGED <<clock, holds, snapshots>>

Hold(id, amount) ==
  /\ id \notin Used
  /\ holds' = holds \cup {[id |-> id, amount |-> amount]}
  /\ UNCHANGED <<clock, spent, snapshots>>

\* A hold settles at what was spent, which may be more or less.
Settle(h, amount) ==
  /\ holds' = holds \ {h}
  /\ spent' = spent \cup {[id |-> h.id, at |-> clock, amount |-> amount]}
  /\ UNCHANGED <<clock, snapshots>>

\* Snapshots arrive in any order, too.
Observe(at, reading, validity) ==
  /\ at <= clock
  /\ Cardinality(snapshots) < Cardinality(RecordIds)
  /\ snapshots' = snapshots \cup
       {[at |-> at, until |-> {at + v : v \in validity}, reads |-> reading.reads, used |-> reading.used,
         limit |-> reading.limit]}
  /\ UNCHANGED <<clock, spent, holds>>

TimePasses ==
  /\ clock < LastArrival
  /\ clock' = clock + 1
  /\ UNCHANGED <<spent, holds, snapshots>>

QeNext ==
  \/ \E id \in RecordIds, at \in 0..clock, amount \in Amounts : Record(id, at, amount)
  \/ \E id \in RecordIds, amount \in Amounts : Hold(id, amount)
  \/ \E h \in holds, amount \in Amounts : Settle(h, amount)
  \/ \E at \in 0..clock, reading \in Readings, v \in Validity : Observe(at, reading, v)
  \/ TimePasses

QeSpec == QeInit /\ [][QeNext]_qeVars
-----------------------------------------------------------------------------
Outstanding == Amount(holds)
Later == clock..Horizon

\* The relief a window names is the first instant at which it admits again, and
\* from then on it does until its entitlement expires, as long as nothing is added;
\* if it names none because of outstanding holds or of an expired entitlement, no
\* waiting helps.  A window that blocks always names one of the three.
ReliefIsExact ==
  \A w \in Windows :
    LET until == Evaluate(w, spent, Outstanding, clock).until IN
    /\ until.relief = "at" =>
         /\ until.at > clock
         /\ \A t \in Later :
              Blocks(w, spent, Outstanding, t) <=> t < until.at \/ \E e \in w.validUntil : t >= e
    /\ until.relief \in {"after_holds_settle", "expired"} =>
         \A t \in Later : Blocks(w, spent, Outstanding, t)
    /\ Blocks(w, spent, Outstanding, clock) => until.relief \in {"at", "after_holds_settle", "expired"}
    /\ until.relief = "expired" => \E e \in w.validUntil : clock >= e

\* A gauge admits only on a reading that has not run out of the validity it declared
\* nor of the seconds it may be old, none is newer, and none of its instant reports
\* more used: of two readings of one instant, the higher decides.
GaugeFailsClosed ==
  EvaluateGauge(MaxStaleness, snapshots, clock) = "admitting" =>
    \E s \in snapshots :
      /\ clock - s.at < (MaxStaleness + 1) * Second
      /\ \A e \in s.until : clock < e
      /\ s.reads = "used" /\ s.used < s.limit
      /\ \A o \in snapshots : o.at > s.at => o.at > clock
      /\ \A o \in snapshots : o.at = s.at /\ o.reads # "undisclosed" => o.used <= s.used

\* What a window answers is the truth: when it is relieved, and that it is open.
AnswersAreTrue == ReliefIsExact /\ GaugeFailsClosed
=============================================================================
