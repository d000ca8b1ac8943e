# A TLA+ model of Libra Governor

Libra Governor admits, meters and bounds what coding agents spend. A daemon
keeps two ledgers in SQLite, hooks of a host (an agent CLI) report turns to it,
and an enforcement gateway sits between the host and the model provider. Around
that core the daemon finds its own socket, delivers events to webhooks, keeps a
catalog of trusted adapters and edits the host's settings. What
makes the program correct is that money and quota are counted once, never lost
and never admitted past a limit, although hooks arrive late or twice, leases
lapse under running work, answers of the provider race dropped clients,
processes die between two writes, and files are edited by people and programs
that ask nobody.

Paths below are relative to `src/crates/`. `PROJECT.json` maps every definition
that models code to its lines.

## 1. Inventory

### Core components

| Component | State it keeps | Operations | Correct when |
|---|---|---|---|
| Shared pool ledger (`ledger/src/shared_pool.rs`, `domain/src/shared_pool.rs`) | `quota_pools`, `shared_pool_reservations`, `shared_hold_prompts`, provider snapshots | ensure pool, reserve under a gate, charge, settle, release, renew, expire stale, settle orphans, bind a prompt, ingest a snapshot | live holds fit the capacity they were admitted against; a key names one row; an ended hold stays ended; sums that overflow refuse |
| Shared monthly budget (`daemon/src/shared_budget.rs`, `daemon/src/usage/priced.rs`) | the month's pool, a lane's marks (time and message ids already counted), the budget file | admit, renew, heartbeat, Stop, SessionEnd, subagent charge | each message the host pays for is booked at most once and, written in order, never falls behind the window; a Stop settles its own turn |
| Late spend (`daemon/src/shared_budget.rs:2140-3340`, `daemon/src/usage/codex_turn.rs`) | turn ids bound to holds, cumulative charges per subagent and per hold, `shared_charge_floor`, `sweep_seen` | Codex Stop (settle, recover, true up), SubagentStop, sweep | a figure that was short is made up for, and no part of it is booked twice |
| Retention (`ledger/src/shared_pool_retention.rs`) | `shared_retention_horizon` | prune closed months, one transaction each | deleting history makes nothing count again |
| Task reservation ledger (`ledger/src/reservation.rs`, `domain/src/reservation.rs`) | `task_budgets` with the Completion Reserve, `reservations` | initialise, reserve, settle, release, release a plan, expire, adjust the reserve | the reserve neither leaks nor is promised twice |
| Enforcement gateway (`gateway/src/proxy.rs`, `cost.rs`, `usage.rs`, `credential.rs`; `daemon/src/gateway_authority.rs`) | permits, credential, per-request handler and stream pump, process-wide `gateway_enforced_seen` | admit a request, reserve in both ledgers, forward, retry after a 401, release or stream and settle, start-up sweep of the previous process's holds | what the provider bills is counted and within the cap; what was served is booked |
| Task handlers (`daemon/src/server.rs`, `ledger/src/session.rs`, `write.rs`) | plans with their admission, in-flight preflights, tool counts and streaks, replan state, receipts | preflight, tool event and replan, finalize, start-up reconciliation | refused work holds nothing, finished work holds nothing, usage windows leave no gap, whatever the handler's transactions are interrupted by |
| Execution ownership (`daemon/src/execution_owner.rs`, `ledger/src/execution_owner.rs`) | lanes with their current turn and context, turns, replays | prompt, tool call, stop, each one transaction | a request takes effect once; a lane can always go on; no turn is replaced in silence |
| Resource accounts and renewals (`ledger/src/resource_account.rs`, `renewal.rs`) | child accounts with their funding lease, renewals of a task's budget | ensure account, sublease, renew, expiry with its cascade | no funding lease is handed out twice, and what was granted under it lapses with it |
| Policy (`domain/src/policy.rs`, `business_context.rs`, `external_approval.rs`, `replan.rs`) | none | evaluate, narrow to a deadline, apply a webhook's answer, completion reserve, hysteresis | no approval lifts a ceiling; a deadline only tightens |
| Launch gate (`daemon/src/launch_gate.rs`, `cli/src/run_cmd.rs`) | a slot pool of the shared ledger, a launcher's loop around its job | admit, wait, spawn, renew, release, reconfigure | jobs believed to be under the gate fit its slots; a waiting launcher is answered |
| Quota windows and gauges (`domain/src/quota_window/`) | none: evidence comes with the call | evaluate a fixed, sliding, bucket or gauge window | the relief named is the first instant that admits, until an entitlement expires; a gauge without a valid reading blocks |
| Pacing (`domain/src/pacing/`, `pacing-gate/src/`) | the controller's `PacerState`; the driver's queue and world | every event of `step`, the forecast, the ready order; the driver's loop with overruns, restarts and changes of preference | starts fit every window; the timer misses no admissible instant; the books are the world's; no backoff strands a task |
| Daemon process (`daemon/src/server.rs:401-580`, `pidfile.rs`, `cli/src/daemon_cmd.rs`, `client.rs`) | the socket path, the pid record | bind or detect, record, end on upgrade, `daemon stop`, clients that spawn a daemon | who listens holds the path; a stop signal reaches that daemon; some daemon is reachable again after a crash |
| Extension delivery (`extension/src/dispatcher.rs`, `client.rs`, `ledger/src/extension.rs`, `daemon/src/extension_authority.rs`) | `extension_deliveries` with state, attempts and next attempt | enqueue, poll, post, mark | a row says delivered only if the receiver has the event; every row ends |
| Adapter registry and write lock (`daemon/src/host_runtime/state.rs`, `dispatch.rs`, `daemon/src/write_lock.rs`) | the catalog file with its revision, registration and trust; the lock | register, unregister, review, confirm, clear, diagnostic run | no commit is lost; trust is of code somebody reviewed |
| Host connection (`daemon/src/host_runtime/config_lifecycle.rs`, `config_record.rs`, `config_settings.rs`, `config_io.rs`) | the installation record in the catalog, the artifact, the host's settings file | install, enable, disable, uninstall, their recovery, the legacy installer, callback admission | a settled record tells the truth about the files; edits survive up to the last look at them; an interrupted operation can be finished |

The other parts (metered pools, extension configuration and signing,
trusted-principal service, estimator, quota observation, evidence adapter,
reports, pricing and routes, migrations, protocol and CLI) are listed in
`PROJECT.json`, each with the reason it is not modelled.

The modules stand for about a ninth of the repository's lines. More than a third
of the rest is the tests inside the source files; the largest of what remains are
the CLI's rendering and doctor commands, codecs and validation of messages,
reports, statistics over floating point and the trusted-principal deployment.

### How they interact

- Hooks and CLI talk to the daemon over a socket. Its accept loop serves one
  connection at a time (`daemon/src/server.rs:1-7`), so one request is one step
  with respect to other hooks. The CLI's prune is another process on the same
  database (`cli/src/shared_budget_cmd.rs`), so it interleaves with requests.
- The gateway runs on its own threads with its own ledger connection. Every
  ledger call is one `BEGIN IMMEDIATE` transaction; between two calls of one
  request anything may happen.
- Leases end only when someone sweeps. Sweeps are driven by other work: an
  admission, a gateway reserve, a metered-pool or launch-gate request, a
  preflight or a start.
- The shared-budget file is edited by hand and re-read at each use.
- A handler is a sequence of ledger transactions. The accept loop keeps other
  hooks out while it runs, but any of its transactions may fail, and the process
  may die between any two: the next start, perhaps with another policy, finds
  what was written.
- Daemons find each other through one socket path. The dispatcher of events is a
  thread of the daemon and dies with it; its queue is in the ledger.
- The commands that change the host's configuration are processes of their own.
  They read the catalog, decide, take the write lock, read again and commit; the
  user and the host write the settings file without any lock.

### What is hard

Interleavings on the shared pool; a lease that lapses under running work; replayed, late
and reordered hooks; a transcript read while the host still writes it; a crash between
two months of a prune; a request whose client, file, reservation or process disappears
between two awaits; a handler cut between two transactions; a rollout flushed after the
hook that reads it; two daemons over one stale socket; an edit between the last look at
a file and its rename; a file left with two names; a hook sent again under another turn;
a launcher that cannot tell whether its request was served; a notification that makes
the pacer start tasks before it is asked; a command that dies between the intent, the
file and the record; sums at the 64-bit edge; clocks that step back. `PROJECT.json`
lists each hazard at its line with the properties that would catch it.

## 2. Modules

| Module | Models | Uses |
|---|---|---|
| `Sums` | the SUM of a column, as a recursive function | - |
| `SharedPoolTable` | rows, sums, admission arithmetic and row transformers of the shared pool, as operators | `Sums` |
| `SharedPool` | the shared pool ledger: one action per transaction | `SharedPoolTable` |
| `SharedBudget` | hooks, transcript windows and retention over one pool per month | `SharedPoolTable` |
| `Reservation` | the task ledger: one action per transaction | `Sums` |
| `Gateway` | a request's lifecycle over both ledgers; composes `Reservation` (its own actions, on its own variables) with holds built from `SharedPoolTable` | `Reservation`, `SharedPoolTable` |
| `LateSpend` | Codex settlement, true-up and recovery; subagent transcripts and sweep; the totals a prune keeps | extends `SharedBudget` |
| `Policy` | policy evaluation, narrowing, approval and the completion reserve, as operators | - |
| `TaskRuntime` | the task handlers, one action per transaction | extends `Reservation` and `Policy` |
| `AccountTree` | child accounts, subleases, renewals and the cascade of expiry over the task ledger | extends `Reservation` |
| `ExecutionOwner` | lanes, turns and replays, one action per request | - |
| `LaunchGate` | the slot pool's handlers and the launchers | - |
| `QuotaWindow` | the evaluation of windows and gauges, as operators | - |
| `QuotaEvidence` | evidence that grows, late and out of order | extends `QuotaWindow` |
| `Pacer` | the controller's step and its simulation | extends `QuotaWindow` |
| `PacingDrive` | the gate's closed loop around the controller | extends `Pacer` |
| `DaemonStart` | processes, the socket path, the pid record, `daemon stop` | - |
| `Delivery` | the delivery queue and a dispatcher | - |
| `EventDaemon` | composes the two: dispatchers live and die with their daemons | `DaemonStart`, `Delivery` |
| `AdapterRegistry` | the catalog under the write lock, trust, diagnostic runs | - |
| `HostConfig` | the lifecycle of the host connection on that catalog | extends `AdapterRegistry` |
| `Sums_proofs` | what a sum does when its summands change | `Sums` |
| `SharedPool_proofs`, `Gateway_proofs` | theorems about the ledgers | their module, `Sums_proofs` |
| `TaskRuntime_proofs` | theorems about policy evaluation, the task handlers, their ledger, the lanes and the account tree | `TaskRuntime`, `ExecutionOwner`, `AccountTree`, `Sums_proofs` |
| `SharedBudget_proofs` | theorems about turns, holds and charges | `SharedBudget`, `Sums_proofs` |
| `LaunchGate_proofs` | theorems about the launch gate | `LaunchGate` |
| `Daemon_proofs` | theorems about the daemon's processes, its deliveries and the host connection | `EventDaemon`, `HostConfig` |
| `Pacing_proofs` | theorems about the windows, the controller and the gate's loop | `PacingDrive`, `QuotaEvidence`, `Sums_proofs` |
| `MC...` | small instances for TLC | |

**SharedPool.** `rows[i]` is the i-th row of `shared_pool_reservations`,
`None` before it is inserted; ids are given out in order. A gate says which
capacity an admission is checked against: the stored pool cap, a locally
configured cap, or a provider snapshot. Amounts keep their width: columns are
i64, totals saturate at u64, `Remaining` clamps to i64. A refused call changes
nothing and has no action.

**SharedBudget.** A turn's life: `AdmitGranted`, `AdmitRenewed` or
`AdmitRefused` (each with the sweep and pool creation the handler does first),
`Heartbeat`, `Stop`, and SessionEnd as `EndOpenTurn` then `EndTail`. `spent` is
what the host really pays, `file` the transcript as far as the host wrote it:
lines arrive late, repeat a message, or belong to another session, but those of one
lane arrive in the order of their stamps (`Flush`). `Observed`
is the scan of `priced.rs`: a message is counted when its newest line falls in
the window and its id was not counted before. `counted`, `flat`, `stoppedBy`
and `booked` are history variables that no action reads. One message costs one
cent: pricing is not modelled. The prune is `PruneStart`, then one
`PruneOnePool` or `PruneSkip` per month, or `PruneCrash`.

**LateSpend.** A Codex turn uses records (`used`), which the host writes in its
own time (`written`) and flushes only after the Stop hook (`TurnCompletes`).
`SettleCodexTurn` is one Stop: it settles the hold the turn is bound to, or
charges a turn that has none, then settles the lane's expired holds, then trues
up the hold that was newest before. Any of the three may fail (`Faults`) without
stopping the next. A subagent's transcript is charged cumulatively: what it
costs as far as written, less what was booked for it in any month, pruned ones
included (`floor`). A session is a Codex or a Claude session; only the former
settles by turn id, only the latter's subagents are charged. `settling` gives each
settled hold its place in the order of `settled_at`. `billed` and `tried` (the
holds a Stop measured again in full and trued up) are history, and so is `gone`, the
rows as they were pruned.

**TaskRuntime.** `h` is the handler at work: its operation, its step and what it
has read so far. Each step is one transaction: count the call, supersede,
record, refund, set the budget, read it, evaluate, write the verdict, reserve;
settle, insert the receipt. `HandlerFails` ends it between any two, `Restart`
reconciles and may bring another policy. `faults` counts both. Webhook answers,
deadlines and estimates are inputs.

**DaemonStart, Delivery, EventDaemon.** A process binds, or finds the path taken
and probes it, and only then unlinks and binds again. A bind is two calls, `Bound`
and `Listen`: the file is there after the first and answers after the second.
`Harden` sets the permissions of whatever is at the path, and fails if nothing is;
then the pid is recorded. Starts overlap freely. `raced` is history: the processes that
began to listen when a start whose probe had found nobody had taken their file, or
was about to; a process leaves it when it ends. `reused` are the process ids handed
out again since the pid record or a stop came to name them.
The dispatcher polls a batch, posts, and marks; the receiver may answer, refuse
or stay silent, and a mark may be lost. A crash ends process and dispatcher.

**AdapterRegistry, HostConfig.** A command is a process with a program counter:
a snapshot without the lock, `Begin` under it (refused if the catalog changed),
the files one by one, and the commit, which ends the lock. `HcFail` ends a
command anywhere; what it wrote stays. `record.pend` is the recovery record. The
user edits the settings or the artifact at any time, and a check is never one step
with what it is for: `ReplaceTarget` looks last and `Publish` renames, `Recheck`
looks last and `Completion` commits, and so for install, uninstall and the legacy
writer. `dirty` says which files changed since a command captured them, `drift` which
were edited since a commit verified them, so that properties speak of files nobody
touched. A file that did not exist is created with `hard_link` and keeps a second
name until `RemoveTemporary`; `linked` are the files that have two, which
`safe_file` refuses to read, and `UserTidies` is the user who finds and removes one.
`binary` is the product's executable, which install and enable compare with
the recorded one (`verify_package`). `late` and `loose` are history: the commands
past their last look at the settings when the user edited them, and the
installations removed so.

**ExecutionOwner.** A lane is one agent of one session of one host, a turn a name
the host gave. A request is one transaction, so one action; refused and failed
requests leave nothing and have none. `Prompt` may name the turn it replaces, and
then the lane's open turn is superseded without a receipt. `replays` remembers
what was answered; `applied` and `named` are history. What the effects do to
budgets is `TaskRuntime`'s.

**AccountTree.** `lease[i]` is the account a reservation is taken from and the one it
funds. No production code makes subleases or renewals at this commit, so callers do what
`grant_sublease` lets them: they name payer and account, fund an account again, before
or after it handed something out, and settle or release a funding lease by hand. An
account that nothing funds is not limited. `under[i]` is history: the lease that funded
the payer when lease i was granted. What a renewal asks of contract, outcomes and
upstream quota is an input. A nested sublease counts against the task twice, in the code
as in the model; see section 6 for what follows from it.

**LaunchGate.** Time is relative: what is left of a hold and how long ago its
launcher renewed. A round trip may fail before or after it was served. `run`
gives up on a failed admission; other clients (`Retriers`) ask again under the
same id and renew before they go on. `Lag` bounds how late the poll loop sends a
renewal.

**QuotaWindow, QuotaEvidence.** Instants are naturals, the calendar a cycle of
instants at which a fixed window resets, at unequal distances. There is one unit.
`QuotaEvidence` adds records, holds and readings in any order and compares the
answer at one instant with the answers at all later ones up to `Horizon`.
`Measure` is what a window's own figures say; `Evaluate` adds the entitlement: past
`validUntil` a window that would admit is indeterminate, and one that blocks keeps
its answer. A reading's validity is optional, and its age is cut to whole seconds
(`AgeSecs`) of `Second` instants.

**Pacer, PacingDrive.** The controller's state is one record and a step an operator on
it; an estimate is its p90, or `None` when it is insufficient. `PacingDrive` is the
driver's queue (a set), the world and the paced strategy, over frozen traces with
overruns, restarts and changes of preference. What other sessions spend never reaches
the controller and is left out. `cut` remembers the tasks that ran when the daemon
restarted, which it cannot know of afterwards. `NeverWedged` excepts a burst of no task:
`max_fanout` may be 0, and then nothing starts and no timer is set; and a task for which
there is no room before an entitlement ends (`RunsOut`). `ShutOut` is a task whose first
instant is past a cutoff, or which an entitlement shuts out so. `MaxProbeSteps` is 64 in
the code and 2 or more here.

**Reservation.** Each row keeps what it drew from the reserve. Expiry gives a
draw back; a late settlement (`late`, the column `settled_after_expiry`) must
not do it again. `floor` is history: the reserve as set and adjusted.

**Gateway.** `pc[r]` is where request r's handler (`Handler`) or its stream pump
(`Pump`) stands; each ledger call, the credential refresh, the forward and the
settlement are separate steps. The provider (`Serve`, `Reject`) answers in its own time,
whether or not anybody still listens, and `bill` is what it charges. `Cancel` drops a
handler at any await; `Crash` ends the process with every handler and pump; `Start`
reconciles the task ledger and books what the previous process held. `EditFile` may run
between the two readings of the budget file. `tapped`, what the pump saw, is kept after
it was booked. A response may end whole, cut after part of its usage was seen, or
unreadable (`Taps`). The provider itself is not in `src/` and is modelled from how
`proxy.rs` uses it.

## 3. Runs

| Run | Properties | Instance |
|---|---|---|
| `pool_ledger` | `TypeOK`; `NoOversubscription`: holds fit the capacity and the session's cap they were granted under (`HeldWithinCapacity`) and a saturated sum refuses (`SaturationFailsClosed`); `KeyNamesOneRow`; `RowHistory`: no row is revived, rewritten or freed unaccounted | 2 sessions, 2 keys, 2 rows, 2 boots, amounts 1 and 2, caps 2 and 3 at i64Max = 2, provider, stored and local gates, two readings |
| `session_budget` | `MessageMeasuredOnce`: a message is counted at most once (`MessageCountedOnce`) and none, written in order, falls behind the window (`NoSpendBehindWindow`); `OneLiveHoldPerLane`; `ChargeBookedOnce`: a charge retried over a prune; `TurnAccounting`: a prompt keeps its hold, a Stop settles its own turn, an abandoned hold is not booked, a new turn fits the cap | two parts: a lane with 2 messages, 3 lines, foreign lines and a lagging transcript; and a session with its subagent, 2 prompts, 2 configurations, read failures, a prune, three months crossed a month at a time |
| `budget_prune_recount` | violation of `MessageCountedOnce`: see Findings | a lease that reaches past the month's end |
| `late_spend` | `TrueUpIsExact`; `LateSpendNotOverbooked`, of a Codex session over all rows ever booked and of a subagent's transcript | a Codex session with 2 turns of 2 records or a Claude session with 1 subagent of 2, 4 rows, three months, unreadable rollouts, failing settlements |
| `account_tree` | `LapseTogether`: a lease lapses with the funding it was granted under; `AdmissionsBacked`: what was granted under a funding lease fits it (`FundingCovers`), the task's grants fit its limit beside the reserve (`TaskAccountBacked`, see section 6), the reserve is conserved, a turn fits its ceiling | a task, its session and its agent, 3 rows, 1 renewal, accounts funded late and again |
| `account_cascade` | violation of `CascadeReachesAll`: see Findings | the same |
| `gateway_requests` | `SpendWithinCap`, `BilledStaysCounted`, `EnforcedGoesUnderHold`, `ServedIsBooked`: a response read to its end is booked for its bill, an unreadable one for no less, and no row of a served request is released | 2 requests, 1 permit, 2 boots, lease of 1, cap 3 against worst case 2 (one fits, two do not), ledger failures, file edits |
| `task_lifecycle` | `RefusedNeverHolds`, `FinishedHoldsNothing`, `NoUsageDropped`, `AdmittedIsReserved`; `BoundedByFaults`: orphaned envelopes and automatic replans; of the lanes `RequestsCountOnce` (`AppliedOnce`, `ReplacedTurnAccounted`) and `LaneNeverWedged` | 1 task, 3 plans, 2 tool calls, 1 fault, 3 policies, thresholds scaled down; 1 lane, 4 turns, 2 contexts, 2 calls |
| `launch_slots` | `EnforcedWithinCapacity`; `WaiterIsServed` | 2 launchers, one that retries and one with `--max-wait`, 1 or 2 slots, lifetime 3 against renewals every 1, late by 1 |
| `event_delivery` | `OneDaemon` (`ListenerKeepsSocket`, `StopHitsTheDaemon`), `DeliveredWasReceived`; `ReachableAgain`, `EveryEventSettles` | 2 processes that start at any time, 3 faults (a probe between another's bind and listen is one), 1 event, 3 attempts, back-off 1 then 2 |
| `host_lifecycle` | `SettledIsTrue`, `EditsSurvive`, `LifecycleRecovers` of the host connection; `TrustWasReviewed`, `NoLostUpdate` of the catalog | three parts of 2 processes: the lifecycle with 1 failure, 1 edit and 12 revisions; the legacy installer beside install and enable with 1 edit; the catalog with 2 versions of the code and 4 revisions. A change of the executable counts as an edit |
| `pacing_control` | `InstantsAreRight` (the forecast is exact, the timer never misses it), `StartsFit`; `BeliefMatchesWorld`, `RealStartsFit` (limits and spacing), `EveryTaskCompletes`; `AnswersAreTrue` (`ReliefIsExact`, `GaugeFailsClosed`) | 3 tasks of 2 principals under a fixed, a sliding and a bucket window, one with an entitlement that expires, preferences with and without a cutoff, 2 events of a trace, 7 instants |

Four MC modules hold two or more components, or parts of one, whose product would be too
large. `Init` picks the `part` a behaviour is about and the other parts' variables stay
as they are; a property of another part then holds trivially of that behaviour, and says
what it says of the behaviours of its own. In `session_budget` and `host_lifecycle` the
parts share the variables and differ in the operations they run; every step of a part is
a step of the module. In `host_lifecycle` `LifecycleRecovers` is claimed of the
lifecycle: commands of the catalog that never end may keep the lock from those that
retry.

Why the bounds are enough to be interesting: two actors or requests suffice for each
race named in the hazards, since each is between one step and one other actor's; caps
are chosen so that one grant fits and two do not; leases are one tick and clocks run
past them; months are of three ticks, or of one where a run has to prune as well, so
that it crosses them. One fault is enough for each hazard of a crash between two steps,
three for a daemon that is killed while its successors start. Each property has a mutant
in `PROJECT.json`: the change of one mapped definition under which the same run finds
the property violated. The mutated forms sit before the definitions they replace.

Each module also states its type invariant, as documentation of its variables
and for the proofs; `pool_ledger` checks one, which is proved as well.

Fairness, where liveness is stated:

- `EdSpec` (`ReachableAgain`, `EveryEventSettles`): a process that can take a
  step takes it, a `daemon stop` that was begun ends, time passes, the
  dispatcher's thread runs, and hooks keep arriving and spawn a daemon when none
  answers, which is what hooks are for. Nothing is assumed of the receiver: it
  may refuse or be silent for ever, and the event is then given up. Crashes,
  lost marks and upgrades are bounded in number, as without a bound a daemon that
  dies at every start refutes anything.
- `LgFairSpec` (`WaiterIsServed`): a live launcher goes on with its loop, which
  polls five times a second, time passes, and jobs end. Nothing is assumed of
  launchers that die, of answers or of the configuration.
- `DrFairness` (`EveryTaskCompletes`): the driver's loop runs until its queue is
  empty, as `drive.rs` is written.
- `HcFairness` (`LifecycleRecovers`): a command that was started runs (weak fairness), and an
  operator who is left with an interrupted operation runs it again (strong
  fairness, since the lock is not always free). Edits and failures are bounded.

That a failed settlement of the gateway is eventually accounted for is not
stated: it depends on sweeps that only other clients' requests or a restart
drive, and the code promises neither.

Deadlock is checked in the pool, budget and account runs. The others may
stop: a gateway after its last start, a task after its last plan, commands and
events when all are done, Codex turns when their rows are used up,
launchers when their jobs are over, a trace at its end.

## 4. Findings

- `budget_prune_recount`: `settle_turn` says that two consecutive Stops never
  count a record twice (`daemon/src/shared_budget.rs:1776`). A month kept back by
  an unswept active hold outlives the newer month that held the lane's only
  mark; settling the old hold then counts again what the pruned month had
  counted. It takes a lease that crosses the month's end.
- `account_cascade`: ADR-0008 (110-123) says that every lease below an expired
  funding lease has itself expired, because the clamp of lifetimes is "enforced in
  `grant_sublease` itself, not by caller convention"; `reservation.rs:1299-1307` says
  the same. The clamp is to the funding lease the payer has at that moment. An account
  that nothing funds grants without a limit (`f64::MAX`, `resource_account.rs:521`), and
  funding it, or funding it again, overwrites capacity and lease whatever it has
  handed out (563-573). In the trace a session lends its agent two ticks, is funded for
  one afterwards, and the pass that closes its account leaves the agent's lease
  active. What the clamp does give is `LapseTogether` and `FundingCovers`.

Observed while modelling, below what a run is spent on:

- **Transcripts that lag.** `settle_turn`'s documentation says the window starts after
  the latest `settled_at` and that a record stamped before the Stop and flushed after
  it "falls behind the watermark and is not counted" (`shared_budget.rs:1770-1774`,
  `1781-1785`). The code starts the window at the newest record counted, as
  `priced.rs:55-60` says, and counts that record at the next Stop. `priced.rs:62-64` in
  turn says that blocks of a message that straddles the mark "may" be "counted again";
  the ids of counted messages are kept with the mark and skipped
  (`priced.rs:525-526`, `shared_budget.rs:1994-2006`). And "the last turn of a session is
  never recovered after its final Stop" (`priced.rs:64-66`) is no longer so when a
  SessionEnd arrives, which settles the tail. `MessageMeasuredOnce` states what the
  code does. One residual of `priced.rs:60-62` is real and outside the model, which
  flushes the records of a lane in order: one stamped at or before a counted one and
  flushed after it is not recovered.
- **A turn charged twice.** A Codex turn without a hold is charged under its own key,
  and `charge_unadmitted_codex_turn` says that it "is booked once and never re-priced"
  (`shared_budget.rs:2849-2850`). The charge's event time is the Stop's (2811) and
  retention keeps no floor for it (`shared_pool_retention.rs:305-306`): the same Stop
  sent again after the month was pruned books it again. `LateSpendNotOverbooked` counts
  pruned rows too and excepts exactly this (`ChargedAgain`).
- **Served and not booked.** A handler or pump that dies, and one whose settlement
  fails, leaves the task reservation of work the provider served active; the sweep
  expires it and its capacity returns, as ADR-0003 says (249-252, 312-315).
  `ServedIsBooked` is about the requests whose pump settled; the shared hold of such
  work stays counted (`BilledStaysCounted`).
- **Two daemons.** `server.rs:411-415` says of the race between a probe and an unlink that
  one "bind succeeds and ours below fails loudly", and `pidfile.rs:19-25` that a
  daemon "holds the socket exclusively". A start whose probe found nobody unlinks
  whatever is at the path by then; the process whose file it was listens on, without
  it, for as long as it lives. `ListenerKeepsSocket` says that this is the only way to
  listen without the path.
- **A recycled pid.** The pid record is not removed when a daemon ends, and `daemon
  stop` signals the recorded pid if that process lives, runs the recorded executable and
  something answers at the path, whoever it is (`daemon_cmd.rs:8-14`, 328-333, 387-391).
  A process that is starting under the recorded pid may be signalled while another
  daemon serves. `StopHitsTheDaemon` states who can be signalled, this case included.
- **Edits and renames.** `replace()` looks last and then renames (`config_io.rs:361-376`);
  an edit in between is lost, as the module's first lines say ("not a
  filesystem-wide compare-and-swap"). `EditsSurvive` states that no other edit is. The
  same holds of the last verification and the commit.
- **A file with two names.** A file that did not exist is published with `hard_link`, and
  the temporary name removed next (367-374). A crash in between leaves a link count
  of 2, which `safe_file` refuses (46, and the test at 671-681): every retry refuses,
  although the integration's README says "Retry the same command to reconcile a
  proven before/after state" (`integrations/claude-code/README.md:74`). It takes a
  user who removes the second name. `LifecycleRecovers` is claimed of files without one
  (`Leftover`), and of the recorded executable where the command asks for it.
- **Relief past the entitlement.** `Relief` is "the honest answer to when does this window
  stop blocking" (`evaluate.rs:50`), and yet a window that blocks keeps its relief
  when the entitlement ends before it (229-235): at that instant it is indeterminate.
  `ReliefIsExact` says so. Of two gauge readings of one instant the higher `used`
  decides, whatever their limits.
- **Throttled for good.** The fixture `t6_overrun_backoff.json` promises "throttle (never
  cancel)". The strategy's own comment calls it "a permanent cancel in practice"
  (`strategy.rs:158-170`) and a test asserts that task 2 never completes
  (`verify_fixture_claims.rs:82-108`). In the model this is the case in which the first
  instant a backed-off task fits lies past the target's end, so that no timer is set;
  `EveryTaskCompletes` excepts it by name (`ShutOut`), and shows that nothing else
  strands a task.
- **Accounts.** Leases that fund an account may be settled or released by hand, under
  the leases below them. `TaskAccountBacked` excepts tasks in which a lease below the
  task's account and a draw above its reservation meet (section 6), where
  `resource_account.rs:8-21` states it of every account.

- `settle_codex_turn` says of the recovery that follows a Stop that "whatever it
  could not do (a busy ledger, say) is counted in telemetry and retried,
  idempotently, at the lane's next settle" (`shared_budget.rs:2393-2395`). The
  orphans are; the true-up is not: its candidate is the newest measured hold
  before the Stop, so after a failed true-up the hold the same Stop settled is the
  next candidate and the record missing from the first is never booked.
- `hold_ttl_secs` is configured and the launcher renews every 60 seconds
  whatever it says. With a lifetime no longer than that, jobs run on holds that
  have lapsed and the slots are handed out again; `RenewedInTime` excludes it.
- `settle_turn`'s comment on a mismatch (`shared_budget.rs:1792-1793`) and the
  code, which books the hold amount, differ.
- `Reservation::outstanding_draw` counts a draw for rows settled after their
  expiry had restored it; only test helpers use it. `TrueDraw` in `Reservation`
  is the corrected form.
- A request whose second 401 falls inside the refresh cooldown is given back
  although another request has already refreshed the key (`proxy.rs:1293`).
- An answer lost after the provider served the request looks like a transport
  error and both reservations are refunded (`proxy.rs:1164`). `Lossy` models it;
  the passing run and the proofs about bills exclude it, as no client could tell.
- A gateway request of a turn-scoped task is evaluated on the task's lifetime
  bound, as ADR-0024 says.
- A charge without an event time, retried after its month was pruned, is booked
  again, and so may be one whose future stamp was clamped to an earlier month.
- The horizon is read before a charge is inserted, in a separate statement.
- `domain/src/shared_pool.rs:429-432` says a snapshot without `valid_until` is
  never accepted and that the overhang follows the same discipline;
  `external_overhang_tx` (`ledger/src/shared_pool.rs:807`) keeps counting it.
- `gateway/src/proxy.rs:299-301` says a permit covers streaming; it is dropped
  with the response head (`proxy.rs:611`) and the pump has none.
- A Codex orphan recovered in a Stop is settled after the hold of the Stop
  itself and so takes its place as the next true-up's candidate.
- `sweep_seen` remembers a file that was only unreadable for a moment; it is
  swept again once it changes.
- Between bind and write, and after a crash, the pid record names no daemon,
  which its documentation does not say; `daemon stop` signals a pid it checked
  earlier.
- `dispatcher.rs:40-42` documents that an event is abandoned at `max_attempts`
  or beyond the back-off ladder, whichever is smaller; the code looks at
  `max_attempts` only. `record_delivery_failure` updates a row whatever its
  state, so two dispatchers of raced daemons may write over a delivered row.
  `next_attempt_at` is compared as RFC 3339 text. Finalize and RecordOutcome
  enqueue under one dedupe key.
- A crash between `record_preflight` and `set_plan_admission` leaves a plan
  without a verdict, and a later replan reserves for it, against the comment
  near `server.rs:2126`.
- The usage window has no upper bound at the Stop (`server.rs:2545`); receipts
  inserted after an attestation stay Unknown.
- After a crash left an orphaned envelope, an admitted prompt of a turn-scoped
  task may fail to reserve; `AdmittedIsReserved` is about lifetime budgets.
- A legacy deactivation between an interrupted operation and its retry leaves
  `pending_target_conflict`.

## 5. Proofs

**Sums.** The ledgers' properties are about sums over all rows. `SumOf(f, N)` is
a recursive function, and the provers cannot instantiate an induction principle,
whose parameter is an operator. `Sums_proofs` goes round that: an induction is
stated of a set (`SetInduction`), which follows from the least element that every
non-empty set of naturals has, and each lemma names the set of the `n` up to which
it holds. From it: the recursive definition has a solution (`PartialExists`), a
sum of integers is an integer, is monotone and additive, and grows by at most what
one summand grows (`SumGrows`).

**`SharedPool_proofs`.** For every set of pools, executors, keys, gates and
amounts and every bound:

- `TypeCorrect`: `Spec => []TypeOK`, inductive as it stands. Each row constructor
  and transformer yields a well-typed row, amounts stay within i64, a fresh id is
  within the table.
- `PoolIsNotOversubscribed` (`NoOversubscription`), `KeysAreIdempotent`
  (`KeyNamesOneRow`) and the action property `HistoryIsKept` (`RowHistory`), from
  `PoolInv`: the types, ids given out in order (`InOrder`), what a state says of a
  row's other fields (`RowsFine`: no gateway hold is ever expired, a freed hold
  says when, a settled one at what), `KeyNamesOneRow` and `HeldWithinCapacity`.
  `RowsFine` is what the history needs; the order is what makes a new row new.
  Every operation but a granted reservation leaves each row's share of the capacity
  or lowers it; a grant adds its amount, and `AdmitsExactly` shows that saturated
  and clamped arithmetic admits it only if the exact sums do. That is false for a
  cap beyond u64, so `Gate` bounds caps by `U64Max`, the type of the field.

  Assumed: `None` is no row (`NoRowAssumption`), which TLC evaluates.

**`CapIsHard`, `BilledIsCounted`, `EnforcedIsHeld`, `ServedWorkIsBooked`
(`Gateway_proofs`)**: `SpendWithinCap`, `BilledStaysCounted`,
`EnforcedGoesUnderHold` and `ServedIsBooked` hold for any number of
requests, boots, permits, prices, leases and files, with ledger calls that may
fail. The two about bills need that no answer of the provider is lost
(`TRUE \notin Lossy`), without which they are false; the other two do not. None is
inductive alone. `GwIInv`, at the end of `Gateway`, is:

- `TypesInv`: the rows the gateway can write, narrower than the ledgers' types.
  Its rows carry no plan, so a replan cannot release them, and draw nothing from
  the reserve; its holds are booked, never expired.
- `LedgerInv`: ids are fresh, a request has at most one task row, has it before
  anything is sent, and a released row belongs to a request that was not served
  and whose handler is past its release.
- `RequestInv`: what the handler's position says of the provider's answer
  (nothing outstanding before sending or while releasing; served while
  pumping), of the usage tapped and of the hold it knows.
- `HoldsInv`: a released hold was not served; a settled one is booked at its
  worst case, or, once the pump has settled it, at no less than a known bill.
- `EnforcedInv`: a request told to enforce implies the process remembers having
  seen enforcement, so that the second reading of the file cannot stand down.

`BookedInv` adds for `ServedWorkIsBooked` that what a pump saw is kept after its end
only if its settlement booked it; a row that was settled stays as it is, and no other
operation of the ledger touches one whose request is over.

`BillInv`, that a bill comes with its answer, is kept beside it where no answer is
lost. `CapIsHard` adds `ClaimsWithinCap`: the sum of what the holds claim of the cap
(a live one its amount, a settled one what it is booked at) stays within it. Only a
grant adds a claim; a settlement books no more than the worst case the hold was
granted for; and `GrantFits` shows that the saturated and clamped arithmetic of the
ledger grants only what the exact sum leaves. That takes a cap that fits u64, the
type of `monthly_cap_usd_cents`, which the assumption on `Cap` says.

There is one lemma per action; `LedgerStep`, `LedgerFrame` and `HoldsStep`
factor what most of them share. `GwIInv` and `ClaimsWithinCap` were checked with TLC
on the `gateway_requests` instance before they were proved. The proofs use the
constants' assumptions and `NullAssumption` (the null value is no row), which TLC
evaluates on every gateway run.

**`TaskRuntime_proofs`** first states what the operators of `Policy` compute, for
every daemon configuration whose policy validates, every projection, estimate,
deadline and webhook answer (the only assumption is that the mark for "no bound" is
no number):

- `AdmitWithinEveryCeiling`: what is admitted in the end fits the hard ceiling
  of a lifetime budget, the turn's ceiling, the time ceiling and the deadline, at
  the confidence required. The steps: a pre-authorised amount is at most the
  hard bound, a denial survives the turn's outcome and the webhook, and
  narrowing is monotone.
- `DeadlineOnlyTightens`: a narrowed policy never answers more permissively.
- `NarrowingKeepsPolicyValid`: the clamp cannot produce a policy that does not
  validate, so the fail-open branch for one is dead.
- `ReserveFitsRequest`: the completion reserve fits the request and the hard
  ceiling.

Then the handlers, one transaction at a time, for any number of tasks, plans, rows,
calls, faults and configurations, and any clock:

- `TaskTypesHold`: every table stays well typed; no draw makes a completion reserve
  negative, and no receipt's window ends before it starts.
- `FinishedTurnHoldsNothing` (`FinishedHoldsNothing`), `RefusedHoldsNothing`
  (`RefusedNeverHolds`), `ReceiptsLeaveNoGap` (`NoUsageDropped`), `FaultsAreBounded`
  (`BoundedByFaults`).
- `AdmittedGetsReserved` (`AdmittedIsReserved`): the action property that an
  admitted prompt gets its envelope although deciding and reserving are two
  transactions.

None of these is inductive: each is about what a handler left behind, and so needs
to know what it holds half-way. `TkIInv`, at the end of `TaskRuntime`, says it:

- `PlansInv`: plans are numbered in order, and one that replaces another is later,
  of the same task and of the same verdict. `RootInherits` follows: the plan a
  chain of replans started with has the verdict of its last one (the lineage is a
  recursive function, shown to exist by induction over finite sets).
- `RowsInv`: at most one envelope for each plan, none for a refused one.
- `MakesInv`, `ReadsInv`: what a handler may rely on at each step. The plan it makes
  is the latest, unknown to the ledger until reserved for, and in flight from a
  known step on; the plan it finalizes has no receipt, and its window starts where
  the task's latest receipt ends.
- `StrandedInv`: envelopes of plans neither in flight nor about to be refunded are
  no more than the faults. This is what `BoundedByFaults` becomes in mid-handler.
- `ReplansInv`: automatic replans are no more than the counted ones, the faults and
  the one not counted yet.
- `DecisionInv`: the decision of a prompt about to reserve still fits the ledger.

Under them are lemmas about the ledger of `Reservation` (no operation but `Reserve`
makes a row or makes one active; a draw leaves the reserve non-negative) and one
lemma per action. `TkIInv` was checked with TLC on the `task_lifecycle` instance
before it was proved. Assumed: `ReservationAssumption`, `TaskAssumption` (amounts
and counts are naturals, policies validate), `PolicyAssumption`,
`NullAssumption` and `RowAssumption` (the absent value is no row), which TLC
evaluates on that run.

**The lanes** (in `TaskRuntime_proofs`, about `ExecutionOwner`):
`EveryRequestCountsOnce` (`RequestsCountOnce`) and `NoLaneIsWedged` (`LaneNeverWedged`),
for any number of lanes, turns, contexts and calls. `LaneNeverWedged` is about the
current turn, and a prompt makes another turn current, so `XoInv` speaks of all: at most
one turn of a lane is open (`OneTurnOpen`), an active one has its one plan in flight and
a finalized one none (`OpenTurnFlies`), what receipts each has (`ReceiptsFit`), and that
an effect that was applied is remembered (`AppliedIsRemembered`). Assumed:
`OwnerAssumption`, the absent row is none of the rows.

**The account tree** (the end of the same module, about `AccountTree`), for any
number of tasks, accounts, rows and renewals and any tree of accounts:

- `ReserveStaysBacked`: the completion reserve is backed by capacity
  (`TaskAccountBacked`), what was drawn from it is given back exactly once
  (`ReserveConserved`), and a turn's reservations fit its ceiling.
- `AdmissionsAreBacked` (`AdmissionsBacked`): the same, and what was granted under a
  funding lease is no more than it carved out of the payer (`FundingCovers`).
- `LeasesLapseTogether` (`LapseTogether`): one pass of the expiry leaves nothing active
  that was granted under a lease it ends.

All three hold whatever callers do: fund an account late or again, or settle and
release its funding by hand.

`TreeInv` has two parts. `Laws` and `Backed` are about a task's budget. That reserve and
holdings fit the limit is not inductive: work that finds less headroom than reserve draws
more than it reserves, and when its row is released the whole draw comes back. So a
row takes the room of the larger of what it holds and what it drew (`Room`); this
room fits beside the reserve, and is never more than what the next grant counts
(settlements included), since a draw above the reservation is matched by an
overrun. `FundingInv` is about the tree: an account's funding is a lease that grants it
its capacity, a funding lease that lapsed closed its account, a lease granted under
another is from the account that one grants, does not outlive it (the clamp) and fits
it with all others granted under it. What an account handed out before it was funded,
or under an earlier funding, is under another lease or under none, which is why the
invariant is about leases and not about accounts. `TreeInv` was checked with TLC on the
`account_tree` instance before it was proved. Assumed: `TreeAssumption`,
`ReservationAssumption` and `RowAssumption`, which TLC evaluates on that run.

**`SharedBudget_proofs`**: `OneLiveHold` (`OneLiveHoldPerLane`), `ChargesBookOnce`
(`ChargeBookedOnce`) and the action property `TurnsAreAccounted` (`TurnAccounting`),
for any number of sessions, subagents, prompts and rows, every configuration that
the parser of the file accepts, every length of a month, and a clock that may step
back. `SbIInv` has, beside the types:

- `OneActive`: the rows of a lane hold at most one active hold in a month, lapsed or
  not. Saying it of live holds only is not inductive, as a clock that steps back
  revives a lapsed one; a grant keeps the stronger form because the sweep of the
  same transaction has expired what had lapsed.
- `BookedIsKnown`: a booked charge with an event time still has its row in the month
  of the event, or the horizon has reached that month. That the prune removes the
  rows and raises the horizon in one transaction is what keeps it.
- `StoppedIsSettled`: only a settled row carries the prompt of a Stop, and a row
  behind the last id given out is empty.

The turn that starts fits the cap (`AdmissionFits`): the code compares with u64-saturated
sums and an i64-clamped difference, and where it admits, these are the exact ones.
That takes a cap and a hold within i64, as the parser reads them
(`shared_budget_file.rs:61`). What a settlement measures is a natural number because a
scan of a transcript reads finitely many lines. `SbIInv` was checked with TLC on the
`session_budget` and the `budget_prune_recount` instance before it was proved. Assumed:
`BudgetAssumption` and `BudgetRowAssumption` (`None` is no row and no mark).

`MeasuredOnce` (`MessageMeasuredOnce`) is about what settlements read from a
transcript that is still being written. It needs a second invariant, `LaneInv`:

- `Stamped`, `Filed`: messages are stamped in their order, and a line of the session's
  own comes after the lines of all earlier messages and before none that is older: this
  is where the order of `Flush` is used. So what a scan leaves out behind its window is
  what a later scan finds.
- `Marked`: a settled row's mark is not ahead of its settlement, and every message
  up to it was counted or paid flat; a hold settled without a mark pays its time flat.
- `CountedIsMarked`: what a row measured is among the ids of its mark, so that the
  next window, which excludes the ids of all marks, does not measure it again.
- `HeldBefore`: no message precedes the lane's first hold, whose creation is where
  the first window starts.

The theorem is for behaviours in which the clock does not step back and no month is
pruned (`Undisturbed`). Without the second it is false: a prune takes the marks with
the rows, which the run `budget_prune_recount` shows. `LaneInv` was checked with TLC
on the `session_budget` instance first. It adds to the assumptions that `None` is no mark and
that messages are counted within i64.

The attempt to prove `ChargeBookedOnce` showed that the model had counted bookings by
key alone. The code's key begins with the session (`shared_budget.rs:1274`), and two
sessions may use the same key for two charges; `booked` is now counted per session.

`TrueUpExact` (`TrueUpIsExact`) and `LateSpendBookedOnce` (`LateSpendNotOverbooked`)
are about `LateSpend`, for any number of sessions, turns, records, subagents and rows,
with every mix of failing steps, unreadable rollouts, restarts and pruned months.
`LateInv` keeps `SbIInv` and adds, of the tables between two transactions (`DbInv`):

- `TurnsOK`: a turn charged under its own key has been stopped, is bound to no hold,
  has one charge and used at least that. It is never bound later, because the prompt
  hook of a turn comes before its Stop.
- `TrueUpsOK`: the key of a true-up carries the amount it brought the hold up to. So
  where the key exists already, the hold and its true-ups have reached that amount and
  the difference is 0; a positive difference is never lost to an old key.
- `HoldsOK`, `BoundOK`: a hold with its true-ups is no more than its turns used, and
  a turn is bound to one hold of its own session's main lane.
- `Conserved`: what was ever booked for a charge family is in its rows or in the floor
  a prune left. The baseline of a true-up and the cumulative charge of a subagent read
  that sum, so a prune between two charges changes nothing.
- `ExactOK`: a hold that was measured again is complete, and stays exact, because no
  turn joins a settled hold and nothing is written after `task_complete`.

- `GoneOK`: a pruned hold, with its true-ups, and a pruned charge of a turn are no more
  than their turns used; a turn charged again has the later row, so that of its charges
  one is not excepted by `ChargedAgain`; and the floor is the sum of the pruned charges.

That a session is not overbooked, over all rows ever booked for it, follows by grouping:
its measured rows are holds with their true-ups, or charges of one turn; the groups'
turns are disjoint; the sum over groups is compared with the sum over turns
(`GroupsCompare` in `Sums_proofs`, from lemmas on sums over finite sets, where the fold
of the community module is one of the sums). A Stop is several transactions, and
`Follows` relates the tables after each to those before: settled rows stay, families
only grow. `LateInv` was checked with TLC on the `late_spend` instance first. Assumed:
`LateSpendAssumption` (finitely many prompts, no subagent named as the main lane, `None`
no usage) and `LateRowAssumption`.

The attempt corrected the model: `tried` had counted a hold as trued up that
`measure_codex_turns` could not measure in full, because a turn of it left no usage
record. The code returns there, and books no difference above the plausible ceiling
either, where the comment says that "Once every turn of the hold has its
`task_complete` line, the hold is measured again and the difference is booked"
(`shared_budget.rs:2569-2571`). `TrueUpIsExact` now speaks of holds measured in full.

**`LaunchGate_proofs`**: `EnforcedJobsFitThePool` (`EnforcedWithinCapacity`), for
any number of launchers, capacities and faults, if the lifetime outlasts a renewal
that comes as late as it may (`RenewedInTime`; with a shorter one the property is
false). `LgInv` says that the active holds are finitely many and fit, and what a
launcher may rely on at each point of its loop: what is left of its hold and the
time since its last renewal add up to a lifetime.

**`Daemon_proofs`**, its processes: `OneDaemonAtATime` (`OneDaemon`) and
`DeliveredIsReceived` (`DeliveredWasReceived`), for any number of processes,
events, attempts and faults. `StartInv`: a process listens exactly between `Listen` and
its end (`ListenersServe`); one that is not in `raced` has the file, and no start is
about to remove it (`HoldsSocket`), because a start that probes finds it listening; and
whom the pid record or a stop names, if the pid was not handed out again, serves or is
gone (`NamedHasServed`). A dispatcher that holds a success holds it for the
first item of its batch, which the receiver has (`DeliveryInv`).

**`Daemon_proofs`**, the host connection: `TrustIsReviewed` (`TrustWasReviewed`) and the action
property `NoUpdateIsLost` (`NoLostUpdate`), for any number of processes, versions
and failures, over all commands of the host connection and of the catalog. The
core of `HcInv` is `HolderIsCurrent`: a process past its reservation holds the
lock, and the document it read before it had the lock is still the catalog.

There are also `SettledRecordIsTrue` (`SettledIsTrue`) and the action property
`UserEditsSurvive` (`EditsSurvive`), over three files that are written one after the
other by commands that may die in between. They need `FilesInv`:

- `RecordFits`: what a record may have pending. A pending record is not enabled;
  a prepared intent plans callbacks that are ours exactly when it enables, in
  settings that keep the user's content.
- `TargetFits`: the callbacks in the settings are nobody's, another state root's, the
  record's, or those of an installation the user put back (`loose`), and not the
  record's before it was first enabled. This is what makes "gone" true after a
  recovered install or an uninstall.
- `ReadStage`, `RecordStage`: what a command was admitted for, and what it may rely on of
  the record at each step.
- `SeenStage`, `FileStage`: what it may rely on of the files. At a check that is that they
  are as captured; between the check and the rename or the commit it is so unless the
  user was there (`late`, `dirty`), and these are the exceptions of the two theorems.

`FilesInv` was checked with TLC on the `host_lifecycle` instance, and on one with two
edits, before it was proved. Assumed: `HostConfigAssumption` (the settings have some
content, and the other state root's id is no revision of this catalog).

**`Pacing_proofs`**, the books: `BooksAgree` (`BeliefMatchesWorld`), for any tasks, windows,
preferences and traces, with restarts and changes of preference at any instant. A
pass over the ready tasks is a fold over a finite set in `ready_order`; that the
order has a last task, that the fold is defined and that what every visit keeps the
pass keeps are lemmas (`LastReadyIn`, `PassExists`, `PassInduction`). `LoopInv` adds
to the agreement that a completion in the queue is of a task that runs and the only
one of that task, without which a second completion would be booked in one place
only.

**`Pacing_proofs`**, the starts: the action properties `StartsFitWindows` (`StartsFit`), for
any order of the controller's events, and `RealStartsFitWindows` (`RealStartsFit`), for
the closed loop. Sums, the bucket's levels and the forecast are recursive functions
over finite sets or a number of looks; what is needed of them is shown by an
induction on the size of the set (`FiniteInduction`, `FoldInduction`) or on the looks
left (`ProbeFinds`).

- The forecast's search only moves on, and the instant it returns is one at which no
  window blocks the need on top of what is pending (`SafeAdmitIs`). A task that starts
  now was looked up at this instant, and its hold is that need, so that every window
  keeps something (`StartFits`); the reserve it was looked up with only makes this
  safer (`InjectedIs`, `BlocksMonotone`).
- `PassOK` carries this over the visits of a pass, each of which sees the holds of the
  ones before. Under "sustain" a pass starts at most one task, which is why the spacing
  after the last start is kept inside a pass as well.
- `PacerInv` is the controller's typed state (`IsController`): the active tasks are not
  completed, a task that does not run has reported nothing, a principal's backoff is
  never below 100 and a record of usage is of a completed task, one per task.
- In the loop, `DriveInv` relates the controller's figures to the world's. While no
  restart has cut a task, what the controller counts is record by record what the world
  counts or more (`Mirrors`, `Covered`): a hold and a settlement are never below the
  estimate, because backoff only inflates (`NeedCovers`), and a reported overrun reaches
  both. A window has no less room on the lesser evidence (`RoomAbove`, for sums and for
  the levels of a bucket). The controller's last start is never earlier than the real
  one (`Lead`), which a restart keeps.

The proof attempt corrected the model: it recorded only whether an estimate had been
revised, so that a revision to an insufficient estimate fell back to the task's own
one. `EstimateRevised` replaces the estimate (`step.rs`), and so does `OnRevised` now
(`estimates`); `StartsFit` speaks of the estimate in force.

**`Pacing_proofs`**, the instants: `AnswersTrue` (`AnswersAreTrue`), for any windows and
any evidence, and `InstantsRight` (`InstantsAreRight`), for any order of the
controller's events.

- With nothing added, a window has no less room at a later instant by its own figures
  (`Measure`; `RoomLater`), until its entitlement ends, after which it never admits
  again, and the relief it names is the first instant with enough of it (`ReliefIs`). In
  a period this is its end, since the next one begins there and counts none of the
  evidence (`PeriodIs`, `FixedLater`). In a sliding window it is when the first record
  goes whose going, with that of the older ones, suffices (`SlidingRelief`). In a bucket
  it is the refill of what is missing, rounded up (`BucketLater`, `BucketRelief`). The
  evidence must be dated by then (`Dated`), which the invariants carry.
- `EvidenceInv` is the typed evidence: one record per id, no hold with a record, all
  dated by the clock. The gauge needs that its readings are finitely many, so that
  there is a latest one.
- So two looks of the forecast are enough (`TwoLooks`): at the start, and when the last
  window that blocks is relieved, where none blocks and before which that one does.
  What it names is the first admissible instant; it names none only if the holds alone
  take all of a window, which they do not when nothing runs (`ForecastIs`), or if the
  entitlements end before there is room (`RunsOut`).
- `InstantsInv` adds to `PacerInv` that the evidence is dated by `now`, that the timer is
  ahead of it, and `NeverWedged`. In a pass that starts nothing only the timer moves, and
  what a candidate is told does not depend on the timer (`SameAdmit`), so that the timer
  ends no later than any candidate's instant (`Waits`, by `PassInduction`).

The attempt found two conditions the properties lacked, which the instances had not
shown: the fanout of 0, and two readings of one instant with different limits
(sections 2 and 4).

`LoopInv`, `PacerInv`, `DriveInv`, `EvidenceInv` and `InstantsInv` were checked with TLC on
the `pacing_control` instance. Assumed: `WindowsAssumption` (finitely many windows, at
least one, as `QuotaWindow::validated` leaves them), `PacerAssumption` (finitely many
tasks, dependencies on smaller ids, at least two looks of the forecast),
`EvidenceAssumption` (amounts and instants are naturals) and `DriveAssumption`
(durations are positive, changes are to preferences).

Only model-checked:

- `ReachableAgain`, `EveryEventSettles`, `LifecycleRecovers`, `WaiterIsServed` and
  `EveryTaskCompletes`: liveness and `ENABLED` are out of the prover's reach.

Every safety property of the passing runs is stated by a theorem.

## 6. Limits of the models

- A transaction is one action; SQLite's own atomicity is assumed.
- Prices, headers, routes, prompts' text, provenance records and statistics are
  left out. A price is a number of units; a mark holds all ids (the code keeps
  the newest 512).
- An over-long stream line that the usage tap skips is not modelled: a clean
  stream's usage is the bill.
- A handler dropped while its ledger call runs on a blocking thread is the call
  followed by the drop.
- `Gateway` holds one task and one month; the gateway never renews task
  reservations during a stream, so they may expire and settle late, which the
  model includes.
- `BookCharge` reads the horizon and inserts in one step. `Bookable` leaves out the refusal
  of a charge that would take the month past half of i64 (`shared_budget.rs:1476-1484`).
- `SharedBudget` flushes the records of a lane in the order of their stamps.
- No passing run steps the clock back.
- `LateSpend`: a usage record costs one cent; the limits on turns per hold
  (`MAX_CODEX_HOLD_TURNS`), recoveries per Stop (`MAX_CODEX_RECOVERIES_PER_SETTLE`, a
  recovery fails for all orphans or for none) and files per sweep, the branch for
  transcripts of gateway-enforced sessions (`shared_budget.rs:3054-3094`), the path-hash
  family of a subagent without an id, the offsets of gateway-metered subagents and a
  change of time zone are left out. The three steps of a Stop are one action whose parts
  fail separately.
- `TaskRuntime` counts a call and makes the plan in one step, and so with
  `insert_contract` and `insert_plan`, and with `insert_replan_event` and
  `record_replan_for_task`; a plan has at most one envelope. Attestations, shadow
  decisions, gateway rows and renewal grants are not in it. `Scaled` is exact
  where the code multiplies floats.
- `ExecutionOwner`: a lane keeps its task, so a lane stands for it; validation and
  encoding of identities are left out.
- `AccountTree`: `TaskAccountBacked` speaks of tasks whose leases are all taken from
  the task's account (`Direct`) or none of which drew more than it reserved
  (`NoOverdraw`). The proof showed that it is false beyond, where
  the comment at `resource_account.rs:8-21` states it of every account: `reserve`
  counts a task's leases by task (`reservation.rs:895-911`), so a lease below a
  session counts twice, headroom falls below the reserve without anything being
  spent, and required work draws more than it reserves (`reservation.rs:940`). With
  limit 4 and reserve 2: the session is leased 2, its agent 1 of these; required
  work of 1 draws the whole reserve; a second session is leased 1; a replan releases
  the work. The reserve is 2 again and the sessions hold 3, together 5. It takes
  four rows and a second session, more than the run has, and no production
  code makes subleases at this commit.
- `LaunchGate`: one slot pool; the overhang of a provider snapshot is
  `SharedPool`'s.
- `Pacer`: one unit; a window of another unit refuses everything and is not in the
  instances. The wording of proposals is left out.
- `HostConfig`: the temporary files themselves are not modelled beyond the second name
  of a published one, and may remain after a crash. An executable is one of two.
- `AdapterRegistry`: the launch and acceptance of a diagnostic run are steps of the
  lock's protocol; no property is about what the run says.
- `PacingDrive`: `RealStartsFit` and `EveryTaskCompletes` say nothing of a trace once a
  restart cut a running task, whose spend the controller cannot know.
- `Delivery` carries no payload: which of two events with one dedupe key is kept
  is not told apart.

Not modelled, with the reasons in `PROJECT.json`: pricing, routes and message
encoding (data without protocol state), statistics over floating point
(estimator), read-only reports, SQLite plumbing, test harnesses, the
trusted-principal deployment (off by default), and the thin handlers of metered
pools over the shared pool.

## 7. Plan

1. Done: the modules above, their runs, and the theorems of section 5. Checks and the
   writes they are for are separate steps in every module that edits files or sockets.
2. Model later: `BookCharge` split at its horizon read; records of a lane flushed out of
   order; the branch for transcripts of gateway-enforced sessions; metered pools over
   `SharedPool`; quota observation; an abstract budget (a cap, committed and spent)
   that `SharedPool` under one local gate implements.
