----------------------------- MODULE LaunchGate -----------------------------
(***************************************************************************)
(* The launch gate: the daemon's handlers over a slot pool (crates/daemon/ *)
(* src/launch_gate.rs) and the launchers that run one job each under it    *)
(* (crates/cli/src/run_cmd.rs).                                            *)
(*                                                                         *)
(* The daemon serves one connection at a time, so a request is one action. *)
(* A launch id is the key and the session of its hold, so it has at most   *)
(* one row in the ledger; of the row only the state and what is left of    *)
(* its lifetime count here (SharedPool.tla has the rest).  Time is what    *)
(* has passed since: nothing bounds how long a behaviour runs.             *)
(*                                                                         *)
(* A round trip may fail before or after the daemon served it, and the     *)
(* launcher cannot tell which.  `run` gives up on a failed admission; an   *)
(* other client of the protocol (Retriers) asks again under the same id,   *)
(* as docs/adr/0020-launch-gate-actuator.md (6) invites it to.             *)
(***************************************************************************)
EXTENDS Naturals, FiniteSets

CONSTANTS
  Launchers,    \* launch ids, one job each
  Retriers,     \* launch ids of clients that repeat an unanswered admission
  Bounded,      \* launch ids started with --max-wait
  Caps,         \* configured capacities of the pool
  HoldTTL,      \* hold_ttl_secs
  RenewEvery,   \* RENEW_INTERVAL
  Lag,          \* by how much a renewal may come late
  Faults,       \* launchers die, round trips fail and the gate is reconfigured
  None

Hold == [state: {"active", "released", "expired"}, left: 0..HoldTTL]

ASSUME LaunchAssumption ==
  /\ Retriers \subseteq Launchers /\ Bounded \subseteq Launchers
  /\ Caps \subseteq Nat /\ Caps # {}
  /\ HoldTTL \in Nat /\ RenewEvery \in Nat \ {0} /\ Lag \in Nat
  /\ Faults \in BOOLEAN
  /\ None \notin Nat /\ None \notin Hold

VARIABLES
  config,       \* the [launcher] section the daemon runs with
  cap,          \* quota_pools: the capacity, once the pool exists
  hold,         \* shared_pool_reservations of the pool, by launch id
  pc,           \* where each launcher is
  job,          \* each launcher's child
  since,        \* time since each launcher last renewed (last_renew)
  lost          \* launchers that reported EnforcementLost

lgVars == <<config, cap, hold, pc, job, since, lost>>

LgInit ==
  /\ config \in [gate: {"on"}, cap: Caps]
  /\ cap = None
  /\ hold = [l \in Launchers |-> None]
  /\ pc = [l \in Launchers |-> "asking"]
  /\ job = [l \in Launchers |-> "none"]
  /\ since = [l \in Launchers |-> 0]
  /\ lost = {}
-----------------------------------------------------------------------------
(* The daemon: what each request does to the pool, and its answer. *)

Active(holds) == {l \in Launchers : holds[l] # None /\ holds[l].state = "active"}

\* Mutant: nobody reclaims the holds that lapsed.
SweptNever(holds) == holds

\* expire_stale_shared_pool_reservations.
Swept(holds) ==
  [l \in Launchers |-> IF l \in Active(holds) /\ holds[l].left = 0
                       THEN [state |-> "expired", left |-> 0] ELSE holds[l]]

\* A row that is active counts until it is swept.
PoolCap == IF cap = None THEN config.cap ELSE cap
Fits(holds) == Cardinality(Active(holds)) < PoolCap

\* Mutant: an already granted launch id starts again, whatever became of its hold.
AdmitAnswerStale(l) ==
  IF config.gate # "on"         THEN "unavailable"
  ELSE IF Swept(hold)[l] # None THEN "start"
  ELSE IF Fits(Swept(hold))     THEN "start"
  ELSE "wait"

AdmitAnswer(l) ==
  IF config.gate # "on"         THEN "unavailable"
  ELSE IF Swept(hold)[l] # None THEN IF l \in Active(Swept(hold)) THEN "start" ELSE "lost"
  ELSE IF Fits(Swept(hold))     THEN "start"
  ELSE "wait"

\* Only a pool that is named and enabled is created, and it keeps its first capacity.
AdmitServed(l) ==
  IF config.gate # "on" THEN UNCHANGED <<cap, hold>>
  ELSE /\ cap' = PoolCap
       /\ hold' = IF AdmitAnswer(l) = "start" /\ hold[l] = None
                  THEN [Swept(hold) EXCEPT ![l] = [state |-> "active", left |-> HoldTTL]]
                  ELSE Swept(hold)

\* A disabled pool still renews; only a removed section does not.
Renewable(l) == config.gate # "off" /\ l \in Active(Swept(hold))

RenewServed(l) ==
  hold' = IF config.gate = "off" THEN hold
          ELSE IF Renewable(l) THEN [Swept(hold) EXCEPT ![l].left = HoldTTL]
               ELSE Swept(hold)

\* Released whatever the configuration, and only by its own launch id.
ReleaseServed(l) ==
  hold' = IF l \in Active(hold) THEN [hold EXCEPT ![l] = [state |-> "released", left |-> 0]] ELSE hold
-----------------------------------------------------------------------------
(* The launchers. *)

\* `run` sleeps between two tries; Wait past --max-wait is a refusal.
Admit(l) ==
  /\ pc[l] \in {"asking", "waiting"}
  /\ AdmitServed(l)
  /\ LET answer == AdmitAnswer(l) IN
     \/ answer = "start" /\ pc' = [pc EXCEPT ![l] = "admitted"]
     \/ answer = "wait"  /\ pc' = [pc EXCEPT ![l] = "waiting"]
     \/ answer = "wait"  /\ l \in Bounded /\ pc' = [pc EXCEPT ![l] = "refused"]
     \/ answer \in {"unavailable", "lost"} /\ pc' = [pc EXCEPT ![l] = "refused"]
  /\ UNCHANGED <<config, job, since, lost>>

AdmitUnanswered(l) ==
  /\ Faults
  /\ pc[l] \in {"asking", "waiting"}
  /\ AdmitServed(l) \/ UNCHANGED <<cap, hold>>
  /\ pc' = [pc EXCEPT ![l] = IF l \in Retriers THEN "asking" ELSE "refused"]
  /\ UNCHANGED <<config, job, since, lost>>

\* last_renew starts with the child.  A retrier may hold an older grant: it
\* renews before it goes on.
Spawn(l) ==
  /\ pc[l] = "admitted"
  /\ pc' = [pc EXCEPT ![l] = "running"]
  /\ job' = [job EXCEPT ![l] = "running"]
  /\ since' = [since EXCEPT ![l] = IF l \in Retriers THEN RenewEvery + Lag ELSE 0]
  /\ UNCHANGED <<config, cap, hold, lost>>

\* No handlers, no executable, or no pid: the guard releases and nothing runs.
SpawnFails(l) ==
  /\ pc[l] = "admitted"
  /\ pc' = [pc EXCEPT ![l] = "exited"]
  /\ UNCHANGED <<config, cap, hold, job, since, lost>>

\* A renewal that is not confirmed is reported; the job goes on, and so do the renewals.
Renew(l) ==
  /\ pc[l] = "running"
  /\ since[l] >= RenewEvery
  /\ since' = [since EXCEPT ![l] = 0]
  /\ \/ RenewServed(l) /\ lost' = IF Renewable(l) THEN lost ELSE lost \cup {l}
     \/ Faults /\ (RenewServed(l) \/ hold' = hold) /\ lost' = lost \cup {l}
  /\ UNCHANGED <<config, cap, pc, job>>

JobExits(l) ==
  /\ job[l] = "running"
  /\ job' = [job EXCEPT ![l] = "exited"]
  /\ UNCHANGED <<config, cap, hold, pc, since, lost>>

\* waitid reports the exit, or that there is no child to wait for any more.
SeeExit(l) ==
  /\ pc[l] = "running"
  /\ job[l] = "exited"
  /\ pc' = [pc EXCEPT ![l] = "exited"]
  /\ since' = [since EXCEPT ![l] = 0]
  /\ UNCHANGED <<config, cap, hold, job, lost>>

\* The guard releases once, and nobody asks whether it worked.
Release(l) ==
  /\ pc[l] = "exited"
  /\ ReleaseServed(l) \/ (Faults /\ hold' = hold)
  /\ pc' = [pc EXCEPT ![l] = "done"]
  /\ UNCHANGED <<config, cap, job, since, lost>>

\* SIGKILL: nothing is released, and a child outlives its launcher.
Killed(l) ==
  /\ Faults
  /\ pc[l] \in {"asking", "waiting", "admitted", "running", "exited"}
  /\ pc' = [pc EXCEPT ![l] = "dead"]
  /\ since' = [since EXCEPT ![l] = 0]
  /\ UNCHANGED <<config, cap, hold, job, lost>>
-----------------------------------------------------------------------------
\* A daemon restarts over an edited config.json.
Reconfigure ==
  /\ Faults
  /\ config' \in [gate: {"on", "disabled", "off"}, cap: Caps]
  /\ config' # config
  /\ UNCHANGED <<cap, hold, pc, job, since, lost>>

\* The main loop runs five times a second: a renewal that is due is sent within
\* Lag, and a child is started at once.
Due(l) == pc[l] = "running" /\ since[l] >= RenewEvery + Lag

Tick ==
  /\ \A l \in Launchers : pc[l] # "admitted" /\ ~Due(l)
  /\ hold' = [l \in Launchers |->
       IF hold[l] # None /\ hold[l].left > 0 THEN [hold[l] EXCEPT !.left = @ - 1] ELSE hold[l]]
  /\ since' = [l \in Launchers |-> IF pc[l] = "running" THEN since[l] + 1 ELSE since[l]]
  /\ UNCHANGED <<config, cap, pc, job, lost>>

Launcher(l) ==
  \/ Admit(l) \/ AdmitUnanswered(l) \/ Spawn(l) \/ SpawnFails(l) \/ Renew(l)
  \/ SeeExit(l) \/ Release(l) \/ Killed(l)

LgNext ==
  \/ \E l \in Launchers : Launcher(l) \/ JobExits(l)
  \/ Reconfigure
  \/ Tick

\* A live launcher goes on with its loop, time passes, and every job ends.
LgFairness ==
  /\ \A l \in Launchers :
       /\ WF_lgVars(Admit(l))
       /\ WF_lgVars(Spawn(l) \/ SpawnFails(l))
       /\ WF_lgVars(Renew(l))
       /\ WF_lgVars(SeeExit(l))
       /\ WF_lgVars(Release(l))
       /\ WF_lgVars(JobExits(l))
  /\ WF_lgVars(Tick)

LgSpec == LgInit /\ [][LgNext]_lgVars
LgFairSpec == LgSpec /\ LgFairness
-----------------------------------------------------------------------------
(* Properties *)

\* The tables and the launchers are well typed; no hold has more time than one
\* renewal gives, and no live launcher is later with the next than it may be.
LgTypeOK ==
  /\ config \in [gate: {"on", "disabled", "off"}, cap: Caps]
  /\ cap \in Caps \cup {None}
  /\ hold \in [Launchers -> Hold \cup {None}]
  /\ pc \in [Launchers -> {"asking", "waiting", "admitted", "running", "exited",
                           "done", "refused", "dead"}]
  /\ job \in [Launchers -> {"none", "running", "exited"}]
  /\ since \in [Launchers -> 0..(RenewEvery + Lag)]
  /\ lost \subseteq Launchers

Running == {l \in Launchers : job[l] = "running"}

\* Jobs that a live launcher still believes to be under the gate.
Enforced == {l \in Running : pc[l] = "running" /\ l \notin lost}

\* A job nobody has reported as unenforced runs on a hold that has not lapsed,
\* and so at most as many of them run as the pool has slots: whatever daemons,
\* answers, other launchers and configurations did meanwhile.  A launch id whose
\* hold is gone never starts a job, and a slot is handed back while its time runs
\* only when its job is over.
EnforcedWithinCapacity ==
  /\ \A l \in Enforced : l \in Active(hold) /\ hold[l].left > 0
  /\ Enforced # {} => Cardinality(Enforced) <= cap
  /\ \A l \in Launchers : hold[l] # None /\ hold[l].state = "released" => job[l] # "running"

\* A launcher that waits gets its answer: slots of launchers that died, of answers
\* and releases that were lost, and of a gate switched off and on, all come back.
WaiterIsServed == \A l \in Launchers : pc[l] = "waiting" ~> pc[l] # "waiting"
=============================================================================
