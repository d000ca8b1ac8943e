---------------------------- MODULE SharedBudget ----------------------------
(***************************************************************************)
(* The local monthly shared budget as the daemon runs it for the hooks of  *)
(* a host (crates/daemon/src/shared_budget.rs, enforcement = "hooks"): a   *)
(* prompt is admitted against the current month's pool, its turn hold is   *)
(* settled at Stop or SessionEnd from the host's transcript                *)
(* (daemon/src/usage/priced.rs), and old months are pruned by the CLI      *)
(* (ledger/src/shared_pool_retention.rs).                                  *)
(*                                                                         *)
(* The daemon serves one request at a time, so a handler is one action;    *)
(* hooks are delivered late, twice, out of order or never, and the prune   *)
(* is another process whose steps fall between two requests.  A pool is    *)
(* named by its month, a session's lane by the session; agent lanes (a     *)
(* subagent's own holds) share the session.                                *)
(***************************************************************************)
EXTENDS Integers, FiniteSets, Sequences

CONSTANTS
  Sessions,     \* host sessions
  Agents,       \* subagent ids
  Prompts,      \* prompt ids a host names (usable_prompt)
  Aliens,       \* owners of usage lines that are not the session's own
  Configs,      \* [cap, hold]: valid contents of shared-budget.json
  Readable,     \* whether a transcript read can succeed, can fail, or both
  ReadFails,    \* whether the read after a grant can fail
  Deltas,       \* clock steps, negative when the clock is set back
  None,
  I64Max,       \* i64::MAX, the width of the ledger's amounts
  PeriodLen,    \* length of a month
  HoldTTL,      \* HOLD_TTL_SECS
  Keep,         \* keep_months of a prune
  Skew,         \* FUTURE_SKEW
  Slack,        \* REORDER_SLACK and WATERMARK_SLACK
  CeilingFactor,\* months of budget above which no single charge is believed
  CeilingFloor, \* PLAUSIBLE_TURN_FLOOR_USD_CENTS
  ChargeKeys,   \* idempotency keys of explicit charges
  EventOf,      \* the event time each of them carries, None for none
  MaxTime,      \* bound: the clock
  MaxRows,      \* bound: reservation rows ever inserted
  MaxMsgs,      \* bound: messages a session pays for
  MaxLines      \* bound: lines of a transcript file

ASSUME BudgetAssumption ==
  /\ I64Max \in Nat \ {0}
  /\ Configs \subseteq [cap: 0..I64Max, hold: 0..I64Max]
  /\ {PeriodLen, HoldTTL, Keep, CeilingFactor} \subseteq Nat \ {0}
  /\ {Skew, Slack, CeilingFloor, MaxTime, MaxRows, MaxLines} \subseteq Nat
  /\ MaxMsgs \in 0..I64Max
  /\ Deltas \subseteq Int
  /\ Aliens \cap Sessions = {}
  /\ Readable \subseteq BOOLEAN /\ ReadFails \subseteq BOOLEAN
  /\ EventOf \in [ChargeKeys -> Nat \cup {None}]
  /\ None \notin Sessions \cup Agents \cup Prompts \cup ChargeKeys \cup Nat

Period(t) == t \div PeriodLen
Periods == 0..Period(MaxTime)
Msgs == 0..MaxMsgs
Opts(S) == S \cup {None}
Who(s) == [principal |-> "local-budget", session |-> s]
Mark == [at: 0..MaxTime, ids: SUBSET Msgs]
Key == [tag: {"p", "n", "tail", "charge", "turn", "trueup", "transcript"}, s: Sessions,
        agent: Opts(Agents), a: Nat, b: Opts(Nat \cup Prompts \cup ChargeKeys)]

INSTANCE SharedPoolTable WITH
  Pools <- Periods, Executors <- {Who(s) : s \in Sessions}, Keys <- Key,
  Lanes <- Agents \cup {"main"}, Sources <- {"turn_hold", "subagent_transcript"}, Units <- {"UsdCents"},
  Marks <- Mark

ASSUME BudgetRowAssumption == None \notin Row /\ None \notin Mark

VARIABLES
  now,          \* the daemon's clock
  cfg,          \* the shared-budget file in force
  pools,        \* quota_pools: month -> pool
  rows,         \* shared_pool_reservations
  created,      \* created_at of each row
  issued,       \* rows ever inserted
  prompts,      \* shared_hold_prompts: (session, prompt) -> hold
  horizon,      \* shared_retention_horizon: newest month pruned, -1 for none
  pruning,      \* months a running prune has yet to visit
  spent,        \* what the host pays for: per session, the time of each message
  file,         \* the transcript the host writes: lines [msg, ts, owner]
  counted,      \* history: the messages each row's measured amount is for
  flat,         \* history: messages spent when a flat settlement covered the lane
  stoppedBy,    \* history: the prompt of the Stop that settled a row
  booked        \* history: how often each explicit charge of a session was booked

vars == <<now, cfg, pruning, pools, rows, created, issued, prompts, horizon,
          spent, file, counted, flat, stoppedBy, booked>>
host == <<spent, file>>
history == <<counted, flat, stoppedBy, booked>>
ledger == <<pools, rows, created, issued, prompts, horizon, history>>

Init ==
  /\ now = 0
  /\ cfg \in Configs
  /\ pools = [p \in Periods |-> None]
  /\ rows = [i \in Ids |-> None]
  /\ created = [i \in Ids |-> 0]
  /\ issued = 0
  /\ prompts = [b \in Sessions \X Prompts |-> None]
  /\ horizon = -1
  /\ pruning = {}
  /\ spent = [s \in Sessions |-> <<>>]
  /\ file = [s \in Sessions |-> <<>>]
  /\ counted = [i \in Ids |-> {}]
  /\ flat = [s \in Sessions |-> {}]
  /\ stoppedBy = [i \in Ids |-> None]
  /\ booked = [c \in Sessions \X ChargeKeys |-> 0]

-----------------------------------------------------------------------------
(* The host.  A model call is paid for when it happens, and its line reaches *)
(* the file later, behind every earlier line of the session.                 *)

ClockStep(d) ==
  /\ now + d \in 0..MaxTime
  /\ now' = now + d
  /\ UNCHANGED <<pruning, cfg, ledger, host>>

EditFile(c) == cfg' = c /\ c # cfg /\ UNCHANGED <<pruning, now, ledger, host>>

HasHold(s) ==
  \E i \in Ids : rows[i] # None /\ rows[i].kind = "hold" /\ rows[i].who.session = s
                /\ rows[i].lane = "main"

\* A turn of s calls the model; time passes, so no two messages share a stamp.
Respond(s) ==
  /\ HasHold(s)
  /\ Len(spent[s]) < MaxMsgs
  /\ now < MaxTime
  /\ now' = now + 1
  /\ spent' = [spent EXCEPT ![s] = Append(@, now + 1)]
  /\ UNCHANGED <<pruning, cfg, ledger, file>>

Written(s) == {file[s][j].msg : j \in 1..Len(file[s])}
AppendLine(s, line) ==
  /\ Len(file[s]) < MaxLines
  /\ file' = [file EXCEPT ![s] = Append(@, line)]
  /\ UNCHANGED <<pruning, now, cfg, ledger, spent>>

Flush(s) ==
  \E m \in 1..Len(spent[s]) \ Written(s) :
    /\ \A k \in 1..(m - 1) : k \in Written(s)
    /\ AppendLine(s, [msg |-> m, ts |-> spent[s][m], owner |-> s])

\* Another content block of the newest message, stamped now.
FlushBlock(s) ==
  \E m \in Written(s) \ {0} :
    /\ m = Len(spent[s])
    /\ now - spent[s][m] \in 0..Slack
    /\ AppendLine(s, [msg |-> m, ts |-> now, owner |-> s])

\* A usage line of another session, or one whose session field cannot be read.
FlushAlien(s, owner) == AppendLine(s, [msg |-> 0, ts |-> now, owner |-> owner])

-----------------------------------------------------------------------------
(* Reading a transcript window (usage/priced.rs) *)

MaxOf(S) == CHOOSE x \in S : \A y \in S : y <= x
MinimumOf(S) == CHOOSE x \in S : \A y \in S : x <= y

\* The backward scan stops at a line older than the bound by more than Slack.
Scanned(s, after) ==
  LET stops == {j \in 1..Len(file[s]) : file[s][j].ts < after - Slack}
      first == IF stops = {} THEN 0 ELSE MaxOf(stops)
  IN  {file[s][j] : j \in (first + 1)..Len(file[s])}

\* observe_priced in ParentWindow mode: usage lines after the bound, of messages
\* not counted before, judged in the order of `finish`.  A message is one cent
\* however many of its blocks are read.
Observed(s, after, ids) ==
  LET window  == {l \in Scanned(s, after) : l.ts > after /\ l.msg \notin ids}
      own     == {l \in window : l.owner = s /\ l.ts <= now + Skew}
      tag     == IF \E l \in window : l.owner = None THEN "unverified"
                 ELSE IF \E l \in window : l.owner = s /\ l \notin own THEN "future"
                 ELSE IF own # {} THEN "priced"
                 ELSE IF window # {} THEN "mismatch" ELSE "no_usage"
  IN  [tag |-> tag, msgs |-> {l.msg : l \in own}, last |-> {l.ts : l \in own}]

Unavailable == [tag |-> "unavailable", msgs |-> {}, last |-> {}]

-----------------------------------------------------------------------------
(* The lane's holds and its window *)

IsLaneRow(row, s, agent) ==
  row # None /\ row.who.session = s /\ row.lane = (IF agent = None THEN "main" ELSE agent)

LaneHolds(s) == {i \in Ids : IsLaneRow(rows[i], s, None) /\ rows[i].kind = "hold"}

\* Later of two rows by created_at; nanosecond ties do not happen in the code.
Newer(i, j) == created[i] > created[j] \/ (created[i] = created[j] /\ i > j)
NewestOf(S) == IF S = {} THEN None ELSE CHOOSE i \in S : \A j \in S \ {i} : Newer(i, j)

\* pending_hold: the newest hold in any state, and only while it is unsettled.
PendingHold(s) ==
  LET i == NewestOf(LaneHolds(s)) IN
  IF i # None /\ rows[i].state \in {"active", "expired"} THEN i ELSE None

\* shared_lane_watermark: marks too far ahead of their own row are not trusted.
LaneMarks(s) ==
  {rows[i].mark : i \in {j \in Ids : /\ IsLaneRow(rows[j], s, None)
                                     /\ rows[j].state = "settled"
                                     /\ rows[j].mark # None
                                     /\ rows[j].mark.at <= rows[j].settledAt + Slack}}

CountedIds(s) == UNION {m.ids : m \in LaneMarks(s)}

SettledTimes(s) == {rows[i].settledAt : i \in {j \in LaneHolds(s) : rows[j].state = "settled"}}

\* lane_window: newest counted record, else latest settlement, else oldest hold.
LaneBound(s) ==
  IF LaneMarks(s) # {} THEN MaxOf({m.at : m \in LaneMarks(s)})
  ELSE IF SettledTimes(s) # {} THEN MaxOf(SettledTimes(s))
  ELSE MinimumOf({created[i] : i \in LaneHolds(s)})

LaneWindow(s, readable) ==
  IF readable THEN Observed(s, LaneBound(s), CountedIds(s)) ELSE Unavailable

-----------------------------------------------------------------------------
(* Admission *)

LocalGate == [source |-> "local", cap |-> cfg.cap, sessionCap |-> None]

EnsuredPool(p) ==
  IF pools[p] # None THEN pools
  ELSE [pools EXCEPT ![p] = [unit |-> "UsdCents", cap |-> cfg.cap]]

NoLaterPool(p) == \A q \in Periods : q > p => pools[q] = None

\* Mutant: the lane's live hold is not looked up.
LiveHoldNone(table, p, s, agent) == None

\* active_shared_hold_for_lane in the table after the sweep.
LiveHold(table, p, s, agent) ==
  NewestOf({i \in Ids : /\ IsLaneRow(table[i], s, agent)
                        /\ table[i].pool = p
                        /\ table[i].kind = "hold"
                        /\ table[i].state = "active"
                        /\ table[i].expiresAt > now})

\* Only a main-lane prompt is remembered.
AcceptedBy(s, agent, prompt) ==
  IF agent = None /\ prompt # None THEN prompts[<<s, prompt>>] ELSE None

Bound(s, agent, prompt, i) ==
  IF agent = None /\ prompt # None THEN [prompts EXCEPT ![<<s, prompt>>] = i] ELSE prompts

RemainingIn(table, p) ==
  Remaining(cfg.cap, SaturatingSum(SettledPart(table, p)), SaturatingSum(ActivePart(table, p)), 0)

PromptKey(s, agent, prompt) == [tag |-> "p", s |-> s, agent |-> agent, a |-> 0, b |-> prompt]
NonceKey(s, agent) == [tag |-> "n", s |-> s, agent |-> agent, a |-> issued + 1, b |-> None]

\* A prompt some hold accepted, that is not the lane's live one: a replay.
IsReplay(s, agent, prompt, live) == AcceptedBy(s, agent, prompt) \notin {None, live}

\* Mutant: an interrupted turn's hold is renewed whatever is left.
RenewalFitsAlways(table, p, s, agent, prompt, live) == TRUE

\* A renewal for a prompt the hold has not accepted is another turn and must fit.
RenewalFits(table, p, s, agent, prompt, live) ==
  (agent = None /\ prompt # None /\ AcceptedBy(s, agent, prompt) # live)
    => RemainingIn(table, p) + table[live].amount >= cfg.hold

\* What admit always does first, also when it then refuses.
AdmitRefused(s, agent, prompt) ==
  LET p     == Period(now)
      table == Swept(rows, now)
      live  == LiveHold(table, p, s, agent)
  IN  /\ NoLaterPool(p)
      /\ \/ IsReplay(s, agent, prompt, live)
         \/ live # None /\ ~RenewalFits(table, p, s, agent, prompt, live)
         \/ live = None /\ cfg.hold > RemainingIn(table, p)
      /\ pools' = EnsuredPool(p)
      /\ rows' = table
      /\ UNCHANGED <<pruning, now, cfg, created, issued, prompts, horizon, host, history>>

AdmitRenewed(s, agent, prompt) ==
  LET p     == Period(now)
      table == Swept(rows, now)
      live  == LiveHold(table, p, s, agent)
  IN  /\ NoLaterPool(p)
      /\ ~IsReplay(s, agent, prompt, live)
      /\ live # None
      /\ RenewalFits(table, p, s, agent, prompt, live)
      /\ pools' = EnsuredPool(p)
      /\ rows' = [table EXCEPT ![live].expiresAt = now + HoldTTL]
      /\ prompts' = Bound(s, agent, prompt, live)
      /\ UNCHANGED <<pruning, now, cfg, created, issued, horizon, host, history>>

\* A key that names a finished hold is replaced by a nonce once.  When the
\* answer cannot be read after the grant, the hold is released and unbound.
AdmitGranted(s, agent, prompt, readFails) ==
  LET p     == Period(now)
      table == Swept(rows, now)
      live  == LiveHold(table, p, s, agent)
      pkey  == PromptKey(s, agent, prompt)
      key   == IF prompt # None /\ KeyRows(table, p, "local-budget", pkey) = {}
               THEN pkey ELSE NonceKey(s, agent)
      hold  == HoldRow(p, Who(s), key, cfg.hold, now + HoldTTL,
                       IF agent = None THEN "main" ELSE agent, "turn_hold")
  IN  /\ issued < MaxRows
      /\ NoLaterPool(p)
      /\ ~IsReplay(s, agent, prompt, live)
      /\ live = None
      /\ Admits(LocalGate, table, p, EnsuredPool(p)[p], None, now, cfg.hold)
      /\ issued' = issued + 1
      /\ pools' = EnsuredPool(p)
      /\ rows' = [table EXCEPT ![issued + 1] = IF readFails THEN Released(hold, now) ELSE hold]
      /\ created' = [created EXCEPT ![issued + 1] = now]
      /\ prompts' = IF readFails THEN prompts ELSE Bound(s, agent, prompt, issued + 1)
      /\ UNCHANGED <<pruning, now, cfg, horizon, host, history>>

\* A tool event renews every live hold of the session in the current month.
Heartbeat(s) ==
  /\ rows' = [i \in Ids |->
       IF /\ rows[i] # None
          /\ rows[i].who.session = s
          /\ rows[i].pool = Period(now)
          /\ rows[i].state = "active"
          /\ rows[i].expiresAt > now
       THEN [rows[i] EXCEPT !.expiresAt = now + HoldTTL] ELSE rows[i]]
  /\ UNCHANGED <<pruning, now, cfg, pools, created, issued, prompts, horizon, host, history>>

-----------------------------------------------------------------------------
(* Settlement *)

Cents(window) == Cardinality(window.msgs)

\* Mutant: the mark is the time of the settlement, not of the newest record.
MarkAtSettle(window, ids) ==
  IF window.tag \in {"priced", "future"} /\ window.msgs # {}
  THEN [at |-> now, ids |-> ids \cup window.msgs] ELSE None

\* The mark moves only past records that were priced.
MarkOf(window, ids) ==
  IF window.tag \in {"priced", "future"} /\ window.msgs # {}
  THEN [at |-> MaxOf(window.last), ids |-> ids \cup window.msgs] ELSE None

\* The measured amount, or None when the hold amount must stand for it.
ActualOf(window, amount, bookFlat) ==
  LET believed == Cents(window) <= CeilingFactor * cfg.cap \/ Cents(window) <= CeilingFloor
      measured == \/ window.tag = "priced"
                  \/ /\ window.tag = "future" /\ window.msgs # {}
                     /\ ~bookFlat \/ Cents(window) > amount
  IN  IF measured /\ believed THEN Cents(window) ELSE None

AllSpent(s) == 1..Len(spent[s])

\* settle_hold_from_window on the pending hold i.
SettleFromWindow(s, i, window, bookFlat, by) ==
  LET actual == ActualOf(window, rows[i].amount, bookFlat)
      value  == IF actual = None THEN rows[i].amount ELSE actual
      usage  == IF actual = None THEN "unknown" ELSE "known"
  IN  /\ actual = None => bookFlat
      /\ rows' = [rows EXCEPT ![i] = Settled(@, value, usage, now, "main", "turn_hold",
                                              MarkOf(window, CountedIds(s)))]
      /\ counted' = [counted EXCEPT ![i] = IF actual = None THEN {} ELSE {s} \X window.msgs]
      /\ flat' = [flat EXCEPT ![s] = IF actual = None THEN @ \cup AllSpent(s) ELSE @]
      /\ stoppedBy' = [stoppedBy EXCEPT ![i] = by]
      /\ UNCHANGED <<pruning, now, cfg, pools, created, issued, prompts, horizon, host, booked>>

\* A Stop for a prompt whose own hold is not the pending one.
StaleStop(s, prompt) ==
  prompt # None /\
    IF prompts[<<s, prompt>>] # None THEN prompts[<<s, prompt>>] # PendingHold(s)
    ELSE \E i \in LaneHolds(s) : rows[i].state = "settled" /\ rows[i].key = PromptKey(s, None, prompt)

\* settle_turn.  An unreadable window also stands for an invalid file.
Stop(s, prompt, readable) ==
  /\ PendingHold(s) # None
  /\ ~StaleStop(s, prompt)
  /\ SettleFromWindow(s, PendingHold(s), LaneWindow(s, readable), TRUE, prompt)

\* settle_tail on a lane whose turn hold is still open.  An expired hold gave
\* its capacity back, so only measured spend is booked on it.
EndOpenTurn(s, readable) ==
  LET i == PendingHold(s) IN
  /\ i # None
  /\ SettleFromWindow(s, i, LaneWindow(s, readable),
                      rows[i].state = "active" /\ rows[i].expiresAt > now, None)

-----------------------------------------------------------------------------
(* Charges after the fact: book_charge *)

\* latest_shared_hold_pool_for_session
LatestHoldPool(s) ==
  LET i == NewestOf({j \in Ids : rows[j] # None /\ rows[j].kind = "hold" /\ rows[j].who.session = s})
  IN  IF i = None THEN Period(now) ELSE rows[i].pool

\* Mutant: the charge does not know how far retention has reached.
ChargePoolAnyPeriod(s, event) ==
  IF event = None THEN LatestHoldPool(s)
  ELSE IF Period(event) > Period(now) THEN Period(now) ELSE Period(event)

\* The month a new charge belongs to: its event's, clamped to the current one,
\* and none at all when that month may already have been pruned.
ChargePool(s, event) ==
  IF event = None THEN LatestHoldPool(s)
  ELSE IF Period(event) > Period(now) THEN Period(now)
  ELSE IF Period(event) <= horizon THEN None ELSE Period(event)

\* A subagent's charge that names no agent is nobody's, not the main lane's.
AttributionOf(agent, source) ==
  IF agent # None THEN agent ELSE IF source = "subagent_transcript" THEN None ELSE "main"

\* The tables a charge is booked in.
Tables == [rows |-> rows, pools |-> pools, created |-> created, issued |-> issued]

\* A retry is looked for in every month's pool.
KnownCharge(db, key) == \E i \in Ids : db.rows[i] # None /\ db.rows[i].key = key

\* No zero charge, none above ten months of budget, none twice.
Bookable(db, s, key, cents, event) ==
  /\ cents \in 1..(CeilingFactor * cfg.cap)
  /\ ~KnownCharge(db, key)
  /\ ChargePool(s, event) # None

\* The tables after a bookable charge.
Posted(db, s, agent, key, cents, event, usage, source, mark) ==
  LET p == ChargePool(s, event)
      i == db.issued + 1
  IN  [db EXCEPT
         !.issued = i,
         !.pools[p] = IF @ = None THEN [unit |-> "UsdCents", cap |-> cfg.cap] ELSE @,
         !.rows[i] = ChargeRow(p, Who(s), key, cents, usage, now,
                               AttributionOf(agent, source), source, mark),
         !.created[i] = now]

Becomes(db) ==
  /\ db.issued <= MaxRows
  /\ rows' = db.rows /\ pools' = db.pools /\ created' = db.created /\ issued' = db.issued

BookCharge(s, agent, key, cents, event, source, mark, msgs) ==
  /\ issued < MaxRows
  /\ Bookable(Tables, s, key, cents, event)
  /\ Becomes(Posted(Tables, s, agent, key, cents, event, "known", source, mark))
  /\ counted' = [counted EXCEPT ![issued + 1] = {s} \X msgs]
  /\ UNCHANGED <<pruning, now, cfg, prompts, horizon, host, flat, stoppedBy>>

HasTail(s) == LaneMarks(s) # {} \/ SettledTimes(s) # {}

\* settle_tail on a settled lane: charge what the last settlement did not count.
EndTail(s) ==
  LET window == LaneWindow(s, TRUE)
      last   == MaxOf(window.last)
      key    == [tag |-> "tail", s |-> s, agent |-> None, a |-> LaneBound(s), b |-> last]
  IN  /\ PendingHold(s) = None
      /\ HasTail(s)
      /\ window.tag = "priced"
      /\ BookCharge(s, None, key, Cents(window), last, "turn_hold",
                    MarkOf(window, CountedIds(s)), window.msgs)
      /\ UNCHANGED booked

\* ChargeAgent: the client reports one cent of spend that has happened, and may
\* report it again at any later time.
ChargeAgent(s, agent, k) ==
  /\ EventOf[k] # None => EventOf[k] <= now
  /\ BookCharge(s, agent, [tag |-> "charge", s |-> s, agent |-> None, a |-> 0, b |-> k],
                1, EventOf[k], "subagent_transcript", None, {})
  /\ booked' = [booked EXCEPT ![<<s, k>>] = @ + 1]

-----------------------------------------------------------------------------
(* Retention: the CLI lists the ended months once, then prunes them oldest     *)
(* first, one transaction each; requests are served in between.               *)

PruneStart ==
  /\ pruning = {}
  /\ pruning' = {p \in Periods : pools[p] # None /\ p < Period(now) - Keep}
  /\ UNCHANGED <<now, cfg, ledger, host>>

HasActiveRow(p) == \E i \in Ids : rows[i] # None /\ rows[i].pool = p /\ rows[i].state = "active"

PruneSkip ==
  /\ pruning # {}
  /\ HasActiveRow(MinimumOf(pruning))
  /\ pruning' = pruning \ {MinimumOf(pruning)}
  /\ UNCHANGED <<now, cfg, ledger, host>>

\* prune_one_pool; the prompt bindings stay.
PruneOnePool ==
  LET p == MinimumOf(pruning) IN
  /\ pruning # {}
  /\ ~HasActiveRow(p)
  /\ pruning' = pruning \ {p}
  /\ horizon' = IF p > horizon THEN p ELSE horizon
  /\ rows' = [i \in Ids |-> IF rows[i] # None /\ rows[i].pool = p THEN None ELSE rows[i]]
  /\ pools' = [pools EXCEPT ![p] = None]
  /\ UNCHANGED <<now, cfg, created, issued, prompts, host, history>>

\* The CLI process dies between two transactions.
PruneCrash ==
  /\ pruning # {}
  /\ pruning' = {}
  /\ UNCHANGED <<now, cfg, ledger, host>>

Next ==
  \/ \E d \in Deltas : ClockStep(d)
  \/ \E c \in Configs : EditFile(c)
  \/ \E s \in Sessions :
       \/ Respond(s)
       \/ Flush(s)
       \/ FlushBlock(s)
       \/ \E o \in Aliens : FlushAlien(s, o)
       \/ Heartbeat(s)
       \/ \E a \in Opts(Agents), m \in Opts(Prompts) :
            \/ AdmitRefused(s, a, m)
            \/ AdmitRenewed(s, a, m)
            \/ \E f \in ReadFails : AdmitGranted(s, a, m, f)
       \/ \E m \in Opts(Prompts), r \in Readable : Stop(s, m, r)
       \/ \E r \in Readable : EndOpenTurn(s, r)
       \/ EndTail(s)
       \/ \E a \in Opts(Agents), k \in ChargeKeys : ChargeAgent(s, a, k)
  \/ PruneStart \/ PruneSkip \/ PruneOnePool \/ PruneCrash

Spec == Init /\ [][Next]_vars
-----------------------------------------------------------------------------
(* Type invariant *)

\* Every table, the transcript and the history variables are well typed, and
\* every row's month has a pool (the foreign key of shared_pool_reservations).
TypeOK ==
  /\ now \in 0..MaxTime
  /\ cfg \in Configs
  /\ pools \in [Periods -> Opt(Pool)]
  /\ rows \in [Ids -> Opt(Row)]
  /\ \A i \in Ids : rows[i] # None => pools[rows[i].pool] # None
  /\ created \in [Ids -> 0..MaxTime]
  /\ issued \in 0..MaxRows
  /\ prompts \in [Sessions \X Prompts -> Opt(Ids)]
  /\ horizon \in -1..Period(MaxTime)
  /\ pruning \subseteq Periods
  /\ \A s \in Sessions :
       /\ Len(spent[s]) <= MaxMsgs
       /\ \A j \in 1..Len(file[s]) :
            file[s][j] \in [msg: Msgs, ts: 0..MaxTime, owner: Sessions \cup Aliens]
       /\ flat[s] \subseteq Msgs
  /\ counted \in [Ids -> SUBSET (Sessions \X Msgs)]
  /\ stoppedBy \in [Ids -> Opts(Prompts)]
  /\ booked \in [Sessions \X ChargeKeys -> 0..MaxRows]

-----------------------------------------------------------------------------
(* Safety *)

\* Spend is measured once: whatever the order of Stops, SessionEnds, retries,
\* late lines, crashes of turns, month changes and prunes, no message's cost is
\* part of two settled amounts ("two consecutive Stops never count a record
\* twice").
MessageCountedOnce ==
  \A i, j \in Ids : i # j => counted[i] \cap counted[j] = {}

\* No spend falls behind the lane's window: a message stamped at or before the
\* point the next window starts from was measured, or its turn was booked flat.
\* So a record flushed after the Stop that ended its turn is still counted by the
\* next one: the window starts at the newest record counted, not at the Stop, as
\* the doc of settle_turn has it (README, section 4).  This rests on what priced.rs
\* asks of the host: the records of a session reach the file in the order of their
\* stamps (Flush), and the blocks of a message within Slack of each other
\* (FlushBlock).  The clock does not step back, and nothing is pruned.
NoSpendBehindWindow ==
  \A s \in Sessions : LaneHolds(s) # {} =>
    \A m \in AllSpent(s) : spent[s][m] <= LaneBound(s) =>
      m \in flat[s] \/ \E i \in Ids : <<s, m>> \in counted[i]

\* "One active hold per lane": re-prompts, retries with a fresh nonce and
\* failed grants never leave two live holds of a lane in one month.
OneLiveHoldPerLane ==
  \A i, j \in Ids :
    /\ rows[i] # None /\ rows[j] # None
    /\ rows[i].kind = "hold" /\ rows[j].kind = "hold"
    /\ rows[i].state = "active" /\ rows[j].state = "active"
    /\ rows[i].expiresAt > now /\ rows[j].expiresAt > now
    /\ rows[i].pool = rows[j].pool
    /\ rows[i].who = rows[j].who /\ rows[i].lane = rows[j].lane
    => i = j

\* A charge reported again after its month ended, or after the month's pool was
\* pruned and its key forgotten, is not booked a second time (HORO-2250).
\* Without an event time nothing tells a retry from new spend after a prune.
ChargeBookedOnce ==
  \A s \in Sessions, k \in ChargeKeys : EventOf[k] # None => booked[<<s, k>>] <= 1

-----------------------------------------------------------------------------
(* What a step may never do *)

\* A prompt names one turn: once a hold accepted it, no retry, renewal, month
\* change or prune binds it to another hold (HORO-2250).
PromptStaysBound ==
  [][\A b \in Sessions \X Prompts : prompts[b] # None => prompts'[b] = prompts[b]]_vars

\* A late or repeated Stop never settles the hold of another prompt's turn.
StopSettlesOwnTurn ==
  [][\A i \in Ids : stoppedBy'[i] # stoppedBy[i] =>
       prompts[<<rows[i].who.session, stoppedBy'[i]>>] \in {None, i}]_vars

\* A hold left behind by a crashed turn is not booked, flat, by a late Stop once
\* a newer hold of the lane exists: the newer turn's window counts its records
\* (HORO-2440).
AbandonedHoldNotBooked ==
  [][\A s \in Sessions : \A i \in LaneHolds(s) :
       /\ rows'[i] # None
       /\ rows[i].state # "settled" /\ rows'[i].state = "settled"
       => \A j \in LaneHolds(s) : ~Newer(j, i)]_vars

\* Each new turn of a main lane, on a fresh hold or on the hold of a turn that
\* was interrupted, fits what the month's pool has left with that hold not
\* counted: an overdrawn pool starts no turn.
NewTurnFitsCap ==
  [][\A b \in Sessions \X Prompts :
       LET i == prompts'[b] IN
       i # None /\ i # prompts[b] =>
         LET p == rows'[i].pool IN
         Sum(SettledPart(rows', p)) + Sum(ActivePart(rows', p)) - rows'[i].amount + cfg.hold
           <= cfg.cap]_vars

\* Spend is measured exactly once, while no month is pruned and the records are
\* written in order: no message is part of two settled amounts, and none, however
\* late its line, falls behind the window that would still count it.
MessageMeasuredOnce == MessageCountedOnce /\ NoSpendBehindWindow

\* A turn is accounted for as its own: it fits the cap when it starts, its prompt
\* stays with the hold that accepted it, a Stop settles that hold and no other, and
\* the hold of a crashed turn is not booked beside the next one's window.
TurnAccounting ==
  PromptStaysBound /\ StopSettlesOwnTurn /\ AbandonedHoldNotBooked /\ NewTurnFitsCap
=============================================================================
