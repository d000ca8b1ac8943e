------------------------------ MODULE LateSpend ------------------------------
(***************************************************************************)
(* Spend that is measured after it happened and may have to be measured    *)
(* again: the turns of a Codex session, settled by turn id from its        *)
(* rollout, and subagents, charged from their own transcripts. Both read a *)
(* file the host is still writing, so a first figure may be short; what is *)
(* missing is charged later, and never twice, though holds expire, hooks   *)
(* repeat, the daemon restarts and old months are pruned. Translated from  *)
(* daemon/src/shared_budget.rs (settle_codex_turn, charge_agent_transcript *)
(* and what they call), usage/codex_turn.rs and, for the totals that       *)
(* outlive a pruned month, ledger/src/shared_pool_retention.rs.            *)
(*                                                                         *)
(* A prompt of SharedBudget is a Codex turn id here. One usage record      *)
(* costs one cent.                                                         *)
(***************************************************************************)
EXTENDS SharedBudget, Functions

CONSTANTS
  Faults,     \* steps of a Stop that may fail: "primary", "recover", "trueup"
  MaxUse,     \* bound: usage records of a turn
  MaxWork     \* bound: usage records of a subagent

ASSUME LateSpendAssumption ==
  /\ Faults \subseteq {"primary", "recover", "trueup"}
  /\ MaxUse \in Nat /\ MaxWork \in Nat
  /\ IsFiniteSet(Prompts)
  /\ "main" \notin Agents
  /\ None # "known"

\* A row of a pool, its measured amount not bounded.
LateRow ==
  [pool: Periods, who: {Who(s) : s \in Sessions}, key: Key, amount: Nat, state: RowStates,
   settled: Opt(Nat), usage: Opt({"known", "unknown"}), kind: {"hold", "charge"},
   lane: Opt(Agents \cup {"main"}), source: Opt({"turn_hold", "subagent_transcript"}),
   expiresAt: Nat, settledAt: Opt(Nat), releasedAt: Opt(Nat), mark: Opt(Mark)]

ASSUME LateRowAssumption == None \notin LateRow

VARIABLES
  provider,   \* session -> its host; only Codex settles by turn id, only Claude sweeps
  turn,       \* (session, turn) -> what the Codex host did and wrote of it
  work,       \* (session, agent) -> what a subagent used and wrote
  floor,      \* shared_charge_floor: a family of charges -> cents of pruned months
  settling,   \* row -> its place in the order of settled_at, 0 for none
  seen,       \* sweep_seen: (session, agent) -> the file as last swept
  billed,     \* history: cents ever booked for a family
  tried,      \* history: holds a Stop measured again, in full, and trued up
  gone        \* history: row -> the row as it was pruned

lateHost == <<provider, turn, work>>
lateHistory == <<billed, tried, gone>>
lsVars == <<vars, lateHost, floor, settling, seen, lateHistory>>

Turns == Sessions \X Prompts
Subagents == Sessions \X Agents

\* A family is a charge key without its last part.
TrueUpFamily(s, i) == [tag |-> "trueup", s |-> s, agent |-> None, a |-> i, b |-> None]
TranscriptFamily(s, a) == [tag |-> "transcript", s |-> s, agent |-> a, a |-> 0, b |-> None]
Families == {TrueUpFamily(s, i) : s \in Sessions, i \in Ids}
              \cup {TranscriptFamily(x[1], x[2]) : x \in Subagents}
FamilyOf(key) == [key EXCEPT !.b = None]

LsInit ==
  /\ Init
  /\ provider \in [Sessions -> {"claude", "codex"}]
  /\ turn = [x \in Turns |-> [used |-> 0, written |-> 0, stopped |-> FALSE, complete |-> FALSE]]
  /\ work = [x \in Subagents |-> [times |-> <<>>, written |-> 0]]
  /\ floor = [f \in Families |-> 0]
  /\ settling = [i \in Ids |-> 0]
  /\ seen = [x \in Subagents |-> None]
  /\ billed = [f \in Families |-> 0]
  /\ tried = {}
  /\ gone = [i \in Ids |-> None]

-----------------------------------------------------------------------------
(* The hosts.  Codex queues a usage record for its writer, runs the Stop     *)
(* hook, and only then flushes and writes task_complete (the header of       *)
(* usage/codex_turn.rs); a blocked Stop lets the turn go on.                 *)

TurnResponds(x) ==
  /\ provider[x[1]] = "codex"
  /\ ~turn[x].complete
  /\ turn[x].used < MaxUse
  /\ turn' = [turn EXCEPT ![x].used = @ + 1]
  /\ UNCHANGED <<vars, provider, work, floor, settling, seen, lateHistory>>

RecordWritten(x) ==
  /\ turn[x].written < turn[x].used
  /\ turn' = [turn EXCEPT ![x].written = @ + 1]
  /\ UNCHANGED <<vars, provider, work, floor, settling, seen, lateHistory>>

TurnCompletes(x) ==
  /\ turn[x].stopped /\ ~turn[x].complete
  /\ turn' = [turn EXCEPT ![x].written = turn[x].used, ![x].complete = TRUE]
  /\ UNCHANGED <<vars, provider, work, floor, settling, seen, lateHistory>>

SubagentResponds(x) ==
  /\ provider[x[1]] = "claude"
  /\ Len(work[x].times) < MaxWork
  /\ work' = [work EXCEPT ![x].times = Append(@, now)]
  /\ UNCHANGED <<vars, provider, turn, floor, settling, seen, lateHistory>>

SubagentWrites(x) ==
  /\ work[x].written < Len(work[x].times)
  /\ work' = [work EXCEPT ![x].written = @ + 1]
  /\ UNCHANGED <<vars, provider, turn, floor, settling, seen, lateHistory>>

\* The prompt hook of a turn comes before its Stop.
CodexAdmit(s, t) ==
  /\ provider[s] = "codex"
  /\ ~turn[<<s, t>>].stopped
  /\ AdmitRefused(s, None, t) \/ AdmitRenewed(s, None, t) \/ AdmitGranted(s, None, t, FALSE)
  /\ UNCHANGED <<lateHost, floor, settling, seen, lateHistory>>

-----------------------------------------------------------------------------
(* Charges that add up *)

ChargesOf(table, f) ==
  {i \in Ids : table[i] # None /\ table[i].kind = "charge" /\ FamilyOf(table[i].key) = f}

FamilySum(table, f) == SumFunction([i \in ChargesOf(table, f) |-> table[i].settled])

\* shared_charges_total_by_key_prefix: what was booked for the family, in any month.
FamilyTotal(table, f) == FamilySum(table, f) + floor[f]

\* The tables with the settlement order beside them.
LateTables ==
  [rows |-> rows, pools |-> pools, created |-> created, issued |-> issued,
   settling |-> settling, billed |-> billed]

\* book_charge, and what it adds to a family.
Charged(db, s, agent, key, cents, event, usage, source) ==
  IF ~Bookable(db, s, key, cents, event) THEN db
  ELSE LET new == Posted(db, s, agent, key, cents, event, usage, source, None)
           f   == FamilyOf(key)
       IN  [new EXCEPT !.billed = [g \in Families |-> IF g = f THEN @[g] + cents ELSE @[g]]]

LateBecomes(db) ==
  /\ Becomes(db)
  /\ settling' = db.settling
  /\ billed' = db.billed
  /\ UNCHANGED <<now, cfg, pruning, prompts, horizon, host, history>>

-----------------------------------------------------------------------------
(* Settling a Codex turn *)

TurnsOf(s, i) == {t \in Prompts : prompts[<<s, t>>] = i}

Cost(s, S) == SumFunction([t \in S |-> turn[<<s, t>>].written])

\* Every turn by its own records.  What could be read stands for all only
\* when it exceeds the hold; None is the hold amount.
measure_codex_turns(s, S, readable, hold) ==
  LET known == {t \in S : readable /\ turn[<<s, t>>].written > 0}
      cents == Cost(s, known)
  IN  [cents |-> IF known = S \/ cents > hold THEN cents ELSE None, whole |-> known = S]

Plausible(cents) == cents <= CeilingFactor * cfg.cap \/ cents <= CeilingFloor

SettledHold(row, s, S, readable) ==
  LET cents == measure_codex_turns(s, S, readable, row.amount).cents
  IN  IF cents # None /\ Plausible(cents)
      THEN Settled(row, cents, "known", now, "main", "turn_hold", None)
      ELSE Settled(row, row.amount, "unknown", now, "main", "turn_hold", None)

SettledSoFar(db) == Cardinality({i \in Ids : db.settling[i] > 0})

\* A hold that is final or pruned is left alone.
settle_codex_hold(db, s, t, i, readable) ==
  IF db.rows[i] = None \/ db.rows[i].state \notin {"active", "expired"} THEN db
  ELSE [db EXCEPT !.rows[i] = SettledHold(@, s, TurnsOf(s, i) \cup {t}, readable),
                  !.settling[i] = SettledSoFar(db) + 1]

\* A turn no hold was granted for is charged under its own key.
charge_unadmitted_codex_turn(db, s, t, readable) ==
  LET cents == measure_codex_turns(s, {t}, readable, cfg.hold).cents
      key   == [tag |-> "turn", s |-> s, agent |-> None, a |-> 0, b |-> t]
  IN  Charged(db, s, None, key, IF cents = None THEN cfg.hold ELSE cents, now,
              IF cents = None THEN "unknown" ELSE "known", "turn_hold")

\* Mutant: an unadmitted turn's Stop falls back to the lane's pending hold.
StopOutcomeAnyHold(db, s, t, readable) ==
  LET i == IF prompts[<<s, t>>] # None THEN prompts[<<s, t>>] ELSE PendingHold(s)
  IN  IF i # None THEN settle_codex_hold(db, s, t, i, readable)
      ELSE charge_unadmitted_codex_turn(db, s, t, readable)

StopOutcome(db, s, t, readable) ==
  IF prompts[<<s, t>>] # None THEN settle_codex_hold(db, s, t, prompts[<<s, t>>], readable)
  ELSE charge_unadmitted_codex_turn(db, s, t, readable)

\* The lane's holds that expired with their turns unsettled.
Orphans(db, s) ==
  {i \in Ids : /\ IsLaneRow(db.rows[i], s, None)
               /\ db.rows[i].kind = "hold" /\ db.rows[i].state = "expired"
               /\ TurnsOf(s, i) # {}}

\* recover_codex_lane, its first half: each by its own turns, in its own month.
Recovered(db, s, readable) ==
  LET S == Orphans(db, s)
  IN  [db EXCEPT
         !.rows = [i \in Ids |-> IF i \in S THEN SettledHold(@[i], s, TurnsOf(s, i), readable)
                                 ELSE @[i]],
         !.settling = [i \in Ids |->
           IF i \in S THEN SettledSoFar(db) + Cardinality({j \in S : j <= i}) ELSE @[i]]]

\* The lane's newest settled hold whose cents were measured.
trueup_candidate(s) ==
  LET S == {i \in Ids : /\ settling[i] > 0
                        /\ IsLaneRow(rows[i], s, None) /\ rows[i].usage = "known"}
  IN  IF S = {} THEN None
      ELSE CHOOSE i \in S : settling[i] = MaxOf({settling[j] : j \in S})

\* All turns of the hold have their task_complete line.
AllComplete(s, i) ==
  TurnsOf(s, i) # {} /\ \A t \in TurnsOf(s, i) : turn[<<s, t>>].complete

\* Mutant: what the hold was granted counts as booked, not what it settled at.
BaselineHold(db, s, i) == db.rows[i].amount + FamilyTotal(db.rows, TrueUpFamily(s, i))

Baseline(db, s, i) == db.rows[i].settled + FamilyTotal(db.rows, TrueUpFamily(s, i))

\* A second measurement shows every turn of the hold.
Remeasured(db, s, i, readable) ==
  /\ AllComplete(s, i)
  /\ measure_codex_turns(s, TurnsOf(s, i), readable, db.rows[i].amount).whole
  /\ Period(db.created[i]) = db.rows[i].pool

Missed(db, s, i) == Monus(Cost(s, TurnsOf(s, i)), Baseline(db, s, i))

\* The difference to it, in the hold's own month.
trueup_codex_hold(db, s, i, readable) ==
  LET key == [TrueUpFamily(s, i) EXCEPT !.b = Cost(s, TurnsOf(s, i))]
  IN  IF ~Remeasured(db, s, i, readable) THEN db
      ELSE Charged(db, s, None, key, Missed(db, s, i), db.created[i], "known", "turn_hold")

\* settle_codex_turn: the Stop's own hold or charge, the lane's orphans, the
\* true-up of what was newest before.  Each is its own transaction; one that
\* fails does not stop the next.  A daemon that dies skips all that follow.
SettleCodexTurn(s, t, readable, fails) ==
  LET target == trueup_candidate(s)
      first  == IF "primary" \in fails THEN LateTables
                ELSE StopOutcome(LateTables, s, t, readable)
      second == IF "recover" \in fails THEN first ELSE Recovered(first, s, readable)
      third  == IF "trueup" \in fails \/ target = None THEN second
                ELSE trueup_codex_hold(second, s, target, readable)
      done   == /\ target # None /\ "trueup" \notin fails
                /\ Remeasured(second, s, target, readable)
                /\ Missed(second, s, target) <= CeilingFactor * cfg.cap
                /\ ChargePool(s, created[target]) # None
  IN  /\ issued + 2 <= MaxRows
      /\ turn[<<s, t>>].used > 0 \/ prompts[<<s, t>>] # None
      /\ turn' = [turn EXCEPT ![<<s, t>>].stopped = TRUE]
      /\ LateBecomes(third)
      /\ tried' = IF done THEN tried \cup {target} ELSE tried
      /\ UNCHANGED <<provider, work, floor, seen, gone>>

-----------------------------------------------------------------------------
(* Charging a subagent's transcript *)

Already(f) == FamilyTotal(rows, f)

\* charge_transcript_inner on what the read of the file gave: "priced", "nothing"
\* (missing, unreadable or empty) or "problem".
TranscriptCharge(x, read) ==
  LET f        == TranscriptFamily(x[1], x[2])
      measured == IF read = "priced" THEN work[x].written ELSE None
      cents    == IF measured # None THEN Monus(measured, Already(f))
                  ELSE IF Already(f) = 0 THEN cfg.hold ELSE 0
  IN  [key |-> [f EXCEPT !.b = measured], cents |-> cents,
       event |-> IF measured = None THEN None ELSE work[x].times[measured],
       usage |-> IF measured = None THEN "unknown" ELSE "known"]

CanRead(x, read) == read = "priced" => work[x].written > 0

BookTranscript(x, c) ==
  LateBecomes(Charged(LateTables, x[1], x[2], c.key, c.cents, c.event, c.usage,
                      "subagent_transcript"))

\* SubagentStop
ChargeAgentTranscript(x, read) ==
  /\ provider[x[1]] = "claude"
  /\ issued < MaxRows
  /\ CanRead(x, read)
  /\ BookTranscript(x, TranscriptCharge(x, read))
  /\ UNCHANGED <<lateHost, floor, seen, tried, gone>>

\* The sweep of a Stop visits a file that changed since it was last swept, does
\* not charge one that shows nothing yet, and comes back to one it was refused.
SweepTranscript(x, read) ==
  LET c == TranscriptCharge(x, read) IN
  /\ provider[x[1]] = "claude"
  /\ issued < MaxRows
  /\ CanRead(x, read)
  /\ seen[x] # work[x].written
  /\ IF read = "nothing" THEN LateBecomes(LateTables) ELSE BookTranscript(x, c)
  /\ seen' = IF \/ read = "nothing" \/ c.cents = 0
                \/ Bookable(Tables, x[1], c.key, c.cents, c.event)
             THEN [seen EXCEPT ![x] = work[x].written] ELSE seen
  /\ UNCHANGED <<lateHost, floor, tried, gone>>

\* What was swept is remembered in memory only.
DaemonRestarts ==
  /\ seen' = [x \in Subagents |-> None]
  /\ UNCHANGED <<vars, lateHost, floor, settling, lateHistory>>

-----------------------------------------------------------------------------
(* Retention folds the month's cumulative charges into the floor. *)

PruneWithFloor ==
  /\ PruneOnePool
  /\ LET inMonth == [i \in Ids |-> IF rows[i] # None /\ rows[i].pool = MinimumOf(pruning)
                                   THEN rows[i] ELSE None]
     IN  /\ floor' = [f \in Families |-> floor[f] + FamilySum(inMonth, f)]
         /\ gone' = [i \in Ids |-> IF inMonth[i] # None THEN inMonth[i] ELSE gone[i]]
  /\ UNCHANGED <<lateHost, settling, seen, billed, tried>>

LsNext ==
  \/ \E x \in Turns : TurnResponds(x) \/ RecordWritten(x) \/ TurnCompletes(x)
  \/ \E x \in Subagents : SubagentResponds(x) \/ SubagentWrites(x)
  \/ \E s \in Sessions, t \in Prompts :
       \/ CodexAdmit(s, t)
       \/ \E r \in Readable, fails \in SUBSET Faults : SettleCodexTurn(s, t, r, fails)
  \/ \E x \in Subagents, read \in {"priced", "nothing", "problem"} :
       ChargeAgentTranscript(x, read) \/ SweepTranscript(x, read)
  \/ DaemonRestarts
  \/ PruneWithFloor
  \/ /\ (\E d \in Deltas : ClockStep(d)) \/ PruneStart \/ PruneSkip \/ PruneCrash
     /\ UNCHANGED <<lateHost, floor, settling, seen, lateHistory>>

LsSpec == LsInit /\ [][LsNext]_lsVars

-----------------------------------------------------------------------------
(* The properties *)

\* What the ledger says a hold's turns cost.
BookedFor(s, i) == rows[i].settled + FamilyTotal(rows, TrueUpFamily(s, i))

UsedBy(s, S) == SumFunction([t \in S |-> turn[<<s, t>>].used])

\* The rows ever booked, those of pruned months among them.
Ever == [i \in Ids |-> IF rows[i] # None THEN rows[i] ELSE gone[i]]

\* Row i charged an unadmitted turn, was pruned, and the turn was charged again:
\* no floor is kept for such a charge, and its event time is that of the Stop.
ChargedAgain(i) ==
  /\ gone[i] # None /\ gone[i].key.tag = "turn"
  /\ \E j \in Ids : j > i /\ Ever[j] # None /\ Ever[j].key = gone[i].key

\* The rows with which a session was billed a measured amount, outside its subagents.
MeasuredRows(s) == {i \in Ids : IsLaneRow(Ever[i], s, None) /\ Ever[i].usage = "known"}

\* Over all the rows ever booked for it, a Codex session pays no more, measured,
\* than its turns used: no turn is in two holds, in a hold and a charge of its own,
\* or in a settlement and a true-up, whatever Stops repeat, holds expire, turns join
\* a hold and months are pruned.  An unadmitted turn that is stopped again after its
\* month was pruned is the one exception (README, section 4): it is charged again,
\* though charge_unadmitted_codex_turn says it "is booked once and never re-priced".
CodexNotOverbooked ==
  \A s \in Sessions :
    SumFunction([i \in {j \in MeasuredRows(s) : ~ChargedAgain(j)} |-> Ever[i].settled])
      <= UsedBy(s, Prompts)

\* A measured hold that a Stop trued up stands for exactly what its turns used:
\* the record the first read missed is booked, and nothing else.  (The code does
\* not true up a hold one of whose turns left no record, nor book a difference
\* above the plausible ceiling.)
TrueUpIsExact ==
  \A s \in Sessions : \A i \in tried :
    IsLaneRow(rows[i], s, None) => BookedFor(s, i) = UsedBy(s, TurnsOf(s, i))

\* Over SubagentStops, sweeps, restarts and pruned months, a subagent is billed
\* no more than it used, or once the flat amount when it could not be read.
TranscriptNotOverbooked ==
  \A x \in Subagents :
    LET cents == billed[TranscriptFamily(x[1], x[2])]
    IN  cents <= Len(work[x].times) \/ \E c \in Configs : cents <= c.hold

\* Spend that is measured late is booked once: by turn id and by transcript.
LateSpendNotOverbooked == CodexNotOverbooked /\ TranscriptNotOverbooked
==============================================================================
