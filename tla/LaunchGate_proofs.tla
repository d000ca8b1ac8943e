------------------------- MODULE LaunchGate_proofs -------------------------
(***************************************************************************)
(* The launch gate's promise for any number of launchers and every         *)
(* lifetime that a launcher renews in time, however requests, answers,     *)
(* deaths and configurations interleave.                                   *)
(*                                                                         *)
(* Two facts carry it.  The pool: its active holds are finitely many and   *)
(* fit the capacity it was made with (PoolFits), since only an admission   *)
(* adds one.  And each launcher (LauncherFine): what it may rely on at     *)
(* each point of its loop.  A hold leaves the pool by its own release or   *)
(* by a sweep after it lapsed, and it does not lapse while its launcher    *)
(* renews: what is left of it and the time since the last renewal add up   *)
(* to at least one lifetime.                                               *)
(***************************************************************************)
EXTENDS LaunchGate, TLAPS, FiniteSetTheorems

\* The configured lifetime outlasts a renewal that comes as late as it may.
RenewedInTime == RenewEvery + Lag < HoldTTL

PoolFits ==
  /\ IsFiniteSet(Active(hold))
  /\ cap = None => Active(hold) = {}
  /\ cap # None => Cardinality(Active(hold)) <= cap

Live(l) == l \in Active(hold) /\ hold[l].left > 0

LauncherFine(l) ==
  /\ pc[l] \in {"asking", "waiting"} => job[l] = "none" /\ (l \notin Retriers => hold[l] = None)
  /\ pc[l] = "admitted" => job[l] = "none" /\ Live(l) /\ (l \notin Retriers => hold[l].left = HoldTTL)
  /\ pc[l] = "running" /\ l \notin lost =>
       Live(l) /\ (since[l] >= RenewEvery + Lag \/ hold[l].left + since[l] >= HoldTTL)
  /\ pc[l] \in {"exited", "done"} => job[l] # "running"
  /\ hold[l] # None /\ hold[l].state = "released" => pc[l] = "done"

LgInv == LgTypeOK /\ PoolFits /\ \A l \in Launchers : LauncherFine(l)
-----------------------------------------------------------------------------
(* What the daemon's operations do to the pool.                            *)

\* A hold evolves as the requests of others let it: it stays, or it lapsed and
\* was swept.
Kept(holds, l) ==
  \/ holds[l] = hold[l]
  \/ l \in Active(hold) /\ hold[l].left = 0 /\ holds[l] = [state |-> "expired", left |-> 0]

LEMMA SweptFacts ==
  ASSUME LgTypeOK
  PROVE  /\ Swept(hold) \in [Launchers -> Hold \cup {None}]
         /\ Active(Swept(hold)) \subseteq Active(hold)
         /\ \A l \in Launchers : Kept(Swept(hold), l)
         /\ \A l \in Active(Swept(hold)) : Swept(hold)[l] = hold[l] /\ hold[l].left > 0
<1>1. [state |-> "expired", left |-> 0] \in Hold
  BY LaunchAssumption DEF Hold
<1>2. Swept(hold) \in [Launchers -> Hold \cup {None}]
  BY <1>1 DEF Swept, LgTypeOK
<1>3. \A l \in Launchers : Kept(Swept(hold), l)
  BY DEF Swept, Kept
<1>4. ASSUME NEW l \in Active(Swept(hold))
      PROVE  l \in Active(hold) /\ Swept(hold)[l] = hold[l] /\ hold[l].left > 0
  <2>1. l \in Launchers /\ Swept(hold)[l] # None /\ Swept(hold)[l].state = "active"
    BY DEF Active
  <2>2. ~(l \in Active(hold) /\ hold[l].left = 0)
    BY <2>1 DEF Swept
  <2>3. Swept(hold)[l] = hold[l]
    BY <2>1, <2>2 DEF Swept
  <2>4. l \in Active(hold)
    BY <2>1, <2>3 DEF Active
  <2>5. hold[l] \in Hold
    BY <2>1, <2>3 DEF LgTypeOK
  <2> QED
    BY <2>2, <2>3, <2>4, <2>5 DEF Hold
<1> QED
  BY <1>2, <1>3, <1>4

\* Fewer active holds fit as well.
LEMMA FewerFit ==
  ASSUME LgTypeOK, PoolFits, cap' = cap, Active(hold)' \subseteq Active(hold)
  PROVE  PoolFits'
<1>1. IsFiniteSet(Active(hold)')
  BY FS_Subset DEF PoolFits
<1>2. Cardinality(Active(hold)') <= Cardinality(Active(hold))
      /\ Cardinality(Active(hold)') \in Nat /\ Cardinality(Active(hold)) \in Nat
  BY <1>1, FS_Subset, FS_CardinalityType DEF PoolFits
<1>3. cap # None => cap \in Nat
  BY LaunchAssumption DEF LgTypeOK
<1> QED
  BY <1>1, <1>2, <1>3 DEF PoolFits

LEMMA AdmitServedFacts ==
  ASSUME LgTypeOK, PoolFits, NEW l \in Launchers, AdmitServed(l)
  PROVE  /\ cap' \in Caps \cup {None}
         /\ hold' \in [Launchers -> Hold \cup {None}]
         /\ PoolFits'
         /\ \A k \in Launchers : k # l => Kept(hold', k)
         /\ Kept(hold', l) \/ (hold[l] = None /\ hold'[l] = [state |-> "active", left |-> HoldTTL])
         /\ AdmitAnswer(l) = "start" /\ hold[l] = None =>
              hold'[l] = [state |-> "active", left |-> HoldTTL]
         /\ AdmitAnswer(l) = "start" /\ hold[l] # None =>
              hold'[l] = hold[l] /\ l \in Active(hold) /\ hold[l].left > 0
<1> DEFINE swept == Swept(hold)
           new == [state |-> "active", left |-> HoldTTL]
<1>1. /\ swept \in [Launchers -> Hold \cup {None}]
      /\ Active(swept) \subseteq Active(hold)
      /\ \A k \in Launchers : Kept(swept, k)
      /\ \A k \in Active(swept) : swept[k] = hold[k] /\ hold[k].left > 0
  BY SweptFacts
<1>2. new \in Hold /\ None \notin Hold
  BY LaunchAssumption DEF Hold
<1>3. swept[l] = None <=> hold[l] = None
  <2>1. swept[l] = hold[l] \/ (l \in Active(hold) /\ swept[l] = [state |-> "expired", left |-> 0])
    BY <1>1 DEF Kept
  <2>2. [state |-> "expired", left |-> 0] # None
    BY <1>2, LaunchAssumption DEF Hold
  <2>3. l \in Active(hold) => hold[l] # None
    BY DEF Active
  <2> QED
    BY <2>1, <2>2, <2>3
<1>4. CASE config.gate # "on"
  <2>1. cap' = cap /\ hold' = hold
    BY <1>4 DEF AdmitServed
  <2>2. AdmitAnswer(l) = "unavailable"
    BY <1>4 DEF AdmitAnswer
  <2>3. PoolFits'
    BY <2>1 DEF PoolFits, Active
  <2> QED
    BY <2>1, <2>2, <2>3 DEF LgTypeOK, Kept
<1>5. CASE config.gate = "on"
  <2>1. cap' = PoolCap /\ hold' = IF AdmitAnswer(l) = "start" /\ hold[l] = None
                                  THEN [swept EXCEPT ![l] = new] ELSE swept
    BY <1>5 DEF AdmitServed
  <2>2. PoolCap \in Caps /\ PoolCap \in Nat /\ (cap # None => PoolCap = cap) /\ PoolCap # None
    BY LaunchAssumption DEF PoolCap, LgTypeOK
  <2>3. IsFiniteSet(Active(swept))
    BY <1>1, FS_Subset DEF PoolFits
  <2>4. Cardinality(Active(swept)) \in Nat /\ Cardinality(Active(hold)) \in Nat
        /\ Cardinality(Active(swept)) <= Cardinality(Active(hold))
    BY <1>1, <2>3, FS_Subset, FS_CardinalityType DEF PoolFits
  <2>5. Cardinality(Active(swept)) <= PoolCap
    <3>1. CASE cap = None
      <4>1. Active(swept) = {}
        BY <1>1, <3>1 DEF PoolFits
      <4>2. Cardinality(Active(swept)) = 0
        BY <4>1, FS_EmptySet
      <4> QED
        BY <2>2, <4>2
    <3>2. CASE cap # None
      BY <2>2, <2>4, <3>2 DEF PoolFits
    <3> QED
      BY <3>1, <3>2
  <2>6. CASE AdmitAnswer(l) = "start" /\ hold[l] = None
    <3>1. hold' = [swept EXCEPT ![l] = new]
      BY <2>1, <2>6
    <3> HIDE DEF swept, new
    <3>2. /\ hold' \in [Launchers -> Hold \cup {None}]
          /\ hold'[l] = new
          /\ \A k \in Launchers : k # l => hold'[k] = swept[k]
      BY <1>1, <1>2, <3>1
    <3>3. \A k \in Launchers : k # l => Kept(hold', k)
      BY <1>1, <3>2 DEF Kept
    <3>4. Fits(swept)
      BY <1>3, <1>5, <2>6 DEF AdmitAnswer, swept
    <3>5. l \notin Active(swept)
      BY <1>3, <2>6 DEF Active
    <3>6. Active(hold)' = Active(swept) \cup {l}
      <4>1. Active(hold)' = {k \in Launchers : hold'[k] # None /\ hold'[k].state = "active"}
        BY DEF Active
      <4>2. hold'[l] # None /\ hold'[l].state = "active"
        BY <1>2, <3>2 DEF new
      <4> QED
        BY <3>2, <4>1, <4>2 DEF Active
    <3>7. IsFiniteSet(Active(hold)') /\ Cardinality(Active(hold)') = Cardinality(Active(swept)) + 1
      BY <2>3, <3>5, <3>6, FS_AddElement
    <3>8. Cardinality(Active(swept)) < PoolCap
      BY <3>4 DEF Fits
    <3>9. PoolFits'
      BY <2>1, <2>2, <2>4, <3>7, <3>8 DEF PoolFits
    <3> QED
      BY <2>1, <2>2, <2>6, <3>2, <3>3, <3>9 DEF new
  <2>7. CASE ~(AdmitAnswer(l) = "start" /\ hold[l] = None)
    <3>1. hold' = swept
      BY <2>1, <2>7
    <3>2. PoolFits'
      <4>1. Active(hold)' = Active(swept)
        BY <3>1 DEF Active
      <4> QED
        BY <2>1, <2>2, <2>3, <2>5, <4>1 DEF PoolFits
    <3>3. ASSUME AdmitAnswer(l) = "start" PROVE hold'[l] = hold[l] /\ l \in Active(hold) /\ hold[l].left > 0
      <4>1. hold[l] # None /\ swept[l] # None
        BY <1>3, <2>7, <3>3
      <4>2. l \in Active(swept)
        BY <1>5, <3>3, <4>1 DEF AdmitAnswer
      <4> QED
        BY <1>1, <3>1, <4>2
    <3> QED
      BY <1>1, <2>1, <2>2, <2>7, <3>1, <3>2, <3>3 DEF Kept
  <2> QED
    BY <2>6, <2>7
<1> QED
  BY <1>4, <1>5

LEMMA RenewServedFacts ==
  ASSUME LgTypeOK, PoolFits, cap' = cap, NEW l \in Launchers, RenewServed(l)
  PROVE  /\ hold' \in [Launchers -> Hold \cup {None}]
         /\ PoolFits'
         /\ \A k \in Launchers : k # l => Kept(hold', k)
         /\ hold'[l] # None /\ hold'[l].state = "released" => hold[l] # None /\ hold[l].state = "released"
         /\ Renewable(l) => l \in Active(hold)' /\ hold'[l].left = HoldTTL
<1> DEFINE swept == Swept(hold)
<1>1. /\ swept \in [Launchers -> Hold \cup {None}]
      /\ Active(swept) \subseteq Active(hold)
      /\ \A k \in Launchers : Kept(swept, k)
      /\ \A k \in Active(swept) : swept[k] = hold[k] /\ hold[k].left > 0
  BY SweptFacts
<1>2. CASE hold' = hold /\ ~Renewable(l)
  <2>1. PoolFits'
    BY <1>2 DEF PoolFits, Active
  <2> QED
    BY <1>2, <2>1 DEF LgTypeOK, Kept
<1>3. CASE hold' = swept /\ ~Renewable(l)
  <2>1. Active(hold)' = Active(swept)
    BY <1>3 DEF Active
  <2>2. PoolFits'
    BY <1>1, <2>1, FewerFit
  <2>3. Kept(hold', l)
    BY <1>1, <1>3 DEF Kept
  <2> QED
    BY <1>1, <1>3, <2>2, <2>3 DEF Kept
<1>4. CASE Renewable(l) /\ hold' = [swept EXCEPT ![l].left = HoldTTL]
  <2> DEFINE row == [swept[l] EXCEPT !.left = HoldTTL]
  <2>1. l \in Active(swept)
    BY <1>4 DEF Renewable
  <2>2. swept[l] \in Hold /\ swept[l].state = "active"
    BY <1>1, <2>1 DEF Active
  <2>3. row \in Hold /\ row.state = "active" /\ row.left = HoldTTL /\ row # None
    BY <2>2, LaunchAssumption DEF Hold
  <2>4. hold' = [swept EXCEPT ![l] = row]
    BY <1>4
  <2> HIDE DEF row, swept
  <2>5. /\ hold' \in [Launchers -> Hold \cup {None}]
        /\ hold'[l] = row
        /\ \A k \in Launchers : k # l => hold'[k] = swept[k]
    BY <1>1, <2>3, <2>4
  <2>6. Active(hold)' = Active(swept)
    <3>1. Active(hold)' = {k \in Launchers : hold'[k] # None /\ hold'[k].state = "active"}
      BY DEF Active
    <3> QED
      BY <2>1, <2>3, <2>5, <3>1 DEF Active
  <2>7. PoolFits'
    BY <1>1, <2>6, FewerFit
  <2> QED
    BY <1>1, <2>1, <2>3, <2>5, <2>6, <2>7 DEF Kept
<1> QED
  BY <1>2, <1>3, <1>4 DEF RenewServed, Renewable
-----------------------------------------------------------------------------
(* The launchers.                                                          *)

\* What a launcher may rely on survives the steps of the others.
LEMMA OthersFine ==
  ASSUME LgTypeOK, NEW k \in Launchers, LauncherFine(k), Kept(hold', k),
         pc'[k] = pc[k], job'[k] = job[k], since'[k] = since[k], k \in lost => k \in lost'
  PROVE  LauncherFine(k)'
<1>1. CASE hold'[k] = hold[k]
  BY <1>1 DEF LauncherFine, Live, Active
<1>2. CASE k \in Active(hold) /\ hold[k].left = 0 /\ hold'[k] = [state |-> "expired", left |-> 0]
  <2>1. ~Live(k) /\ hold[k] # None
    BY <1>2, LaunchAssumption DEF Live, Active
  <2> QED
    BY <1>2, <2>1 DEF LauncherFine
<1> QED
  BY <1>1, <1>2 DEF Kept

\* An admission, answered or not: only a grant makes a launcher start, and the
\* hold it starts with is live.
LEMMA AdmitFine ==
  ASSUME LgInv, NEW l \in Launchers, AdmitServed(l), pc[l] \in {"asking", "waiting"},
         UNCHANGED <<config, job, since, lost>>,
         NEW to \in {"asking", "waiting", "admitted", "refused"}, pc' = [pc EXCEPT ![l] = to],
         to = "admitted" => AdmitAnswer(l) = "start",
         to = "waiting" => AdmitAnswer(l) = "wait",
         to = "asking" => l \in Retriers, RenewedInTime
  PROVE  LgInv'
<1> DEFINE new == [state |-> "active", left |-> HoldTTL]
<1>1. /\ LgTypeOK /\ PoolFits /\ LauncherFine(l)
      /\ \A k \in Launchers : LauncherFine(k)
  BY DEF LgInv
<1>2. /\ cap' \in Caps \cup {None}
      /\ hold' \in [Launchers -> Hold \cup {None}]
      /\ PoolFits'
      /\ \A k \in Launchers : k # l => Kept(hold', k)
      /\ Kept(hold', l) \/ (hold[l] = None /\ hold'[l] = new)
      /\ AdmitAnswer(l) = "start" /\ hold[l] = None => hold'[l] = new
      /\ AdmitAnswer(l) = "start" /\ hold[l] # None =>
           hold'[l] = hold[l] /\ l \in Active(hold) /\ hold[l].left > 0
  BY <1>1, AdmitServedFacts
<1>3. /\ pc'[l] = to
      /\ \A k \in Launchers : k # l => pc'[k] = pc[k]
  BY <1>1 DEF LgTypeOK
<1>4. LgTypeOK'
  BY <1>1, <1>2 DEF LgTypeOK
<1>5. \A k \in Launchers : k # l => LauncherFine(k)'
  BY <1>1, <1>2, <1>3, OthersFine
<1>6. new # None /\ new.state = "active" /\ new.left = HoldTTL /\ HoldTTL \in Nat /\ HoldTTL > 0
  BY LaunchAssumption DEF Hold, RenewedInTime
<1>7. job[l] = "none" /\ (l \notin Retriers => hold[l] = None)
      /\ ~(hold[l] # None /\ hold[l].state = "released")
  BY <1>1 DEF LauncherFine
<1>8. hold'[l] # None /\ hold'[l].state = "released" => FALSE
  BY <1>2, <1>6, <1>7 DEF Kept
<1>9. LauncherFine(l)'
  <2>1. CASE to = "admitted"
    <3>1. CASE hold[l] = None
      <4>1. hold'[l] = new
        BY <1>2, <2>1, <3>1
      <4> HIDE DEF new
      <4>2. Live(l)' /\ hold'[l].left = HoldTTL
        BY <1>6, <4>1 DEF Live, Active
      <4> QED
        BY <1>3, <1>7, <1>8, <2>1, <4>2 DEF LauncherFine
    <3>2. CASE hold[l] # None
      <4>1. hold'[l] = hold[l] /\ l \in Active(hold) /\ hold[l].left > 0
        BY <1>2, <2>1, <3>2
      <4>2. Live(l)'
        BY <4>1 DEF Live, Active
      <4> QED
        BY <1>3, <1>7, <1>8, <2>1, <3>2, <4>2 DEF LauncherFine
    <3> QED
      BY <3>1, <3>2
  <2>2. CASE to = "waiting"
    <3>1. AdmitAnswer(l) = "wait" /\ AdmitAnswer(l) # "start"
      BY <2>2
    <3>2. l \notin Retriers => hold'[l] = None
      <4>1. CASE config.gate # "on"
        BY <1>7, <4>1 DEF AdmitServed
      <4>2. CASE config.gate = "on"
        <5>1. hold' = Swept(hold)
          BY <3>1, <4>2 DEF AdmitServed
        <5>2. hold[l] = None => Swept(hold)[l] = None
          BY DEF Swept, Active
        <5> QED
          BY <1>7, <5>1, <5>2
      <4> QED
        BY <4>1, <4>2
    <3> QED
      BY <1>3, <1>7, <1>8, <2>2, <3>2 DEF LauncherFine
  <2>3. CASE to \in {"asking", "refused"}
    BY <1>3, <1>7, <1>8, <2>3 DEF LauncherFine
  <2> QED
    BY <2>1, <2>2, <2>3
<1> QED
  BY <1>2, <1>4, <1>5, <1>9 DEF LgInv

\* Steps that leave the pool's table alone keep the pool fitting.
LEMMA SameHolds ==
  ASSUME PoolFits, UNCHANGED <<cap, hold>>
  PROVE  PoolFits' /\ \A k \in Launchers : Kept(hold', k)
BY DEF PoolFits, Active, Kept

\* The steps of a launcher's own: the pool does not see them.
LEMMA AloneFine ==
  ASSUME LgInv, NEW l \in Launchers, RenewedInTime,
         Spawn(l) \/ SpawnFails(l) \/ JobExits(l) \/ SeeExit(l) \/ Killed(l)
  PROVE  LgInv'
<1>1. /\ LgTypeOK /\ PoolFits /\ LauncherFine(l)
      /\ \A k \in Launchers : LauncherFine(k)
  BY DEF LgInv
<1>2. /\ UNCHANGED <<config, cap, hold, lost>>
      /\ \A k \in Launchers : k # l => pc'[k] = pc[k] /\ job'[k] = job[k] /\ since'[k] = since[k]
  BY <1>1 DEF LgTypeOK, Spawn, SpawnFails, JobExits, SeeExit, Killed
<1>3. PoolFits' /\ \A k \in Launchers : Kept(hold', k)
  BY <1>1, <1>2, SameHolds
<1>4. LgTypeOK'
  BY <1>1, LaunchAssumption DEF LgTypeOK, Spawn, SpawnFails, JobExits, SeeExit, Killed
<1>5. \A k \in Launchers : k # l => LauncherFine(k)'
  BY <1>1, <1>2, <1>3, OthersFine
<1>6. hold'[l] = hold[l] /\ (Live(l)' <=> Live(l))
  BY <1>2 DEF Live, Active
<1>7. LauncherFine(l)'
  <2>1. CASE Spawn(l)
    <3>1. /\ pc[l] = "admitted" /\ pc'[l] = "running"
          /\ since'[l] = IF l \in Retriers THEN RenewEvery + Lag ELSE 0
      BY <1>1, <2>1 DEF LgTypeOK, Spawn
    <3>2. Live(l) /\ (l \notin Retriers => hold[l].left = HoldTTL)
          /\ ~(hold[l] # None /\ hold[l].state = "released")
      BY <1>1, <3>1 DEF LauncherFine
    <3>3. since'[l] >= RenewEvery + Lag \/ hold'[l].left + since'[l] >= HoldTTL
      BY <1>6, <3>1, <3>2, LaunchAssumption
    <3> QED
      BY <1>6, <3>1, <3>2, <3>3 DEF LauncherFine
  <2>2. CASE SpawnFails(l)
    <3>1. pc[l] = "admitted" /\ pc'[l] = "exited" /\ job' = job
      BY <1>1, <2>2 DEF LgTypeOK, SpawnFails
    <3> QED
      BY <1>1, <1>6, <3>1 DEF LauncherFine
  <2>3. CASE JobExits(l)
    <3>1. pc' = pc /\ since' = since /\ job[l] = "running" /\ job'[l] = "exited"
      BY <1>1, <2>3 DEF LgTypeOK, JobExits
    <3> QED
      BY <1>1, <1>2, <1>6, <3>1 DEF LauncherFine
  <2>4. CASE SeeExit(l)
    <3>1. pc[l] = "running" /\ pc'[l] = "exited" /\ job'[l] = "exited"
      BY <1>1, <2>4 DEF LgTypeOK, SeeExit
    <3> QED
      BY <1>1, <1>6, <3>1 DEF LauncherFine
  <2>5. CASE Killed(l)
    <3>1. pc[l] # "done" /\ pc'[l] = "dead"
      BY <1>1, <2>5 DEF LgTypeOK, Killed
    <3> QED
      BY <1>1, <1>6, <3>1 DEF LauncherFine
  <2> QED
    BY <2>1, <2>2, <2>3, <2>4, <2>5
<1> QED
  BY <1>3, <1>4, <1>5, <1>7 DEF LgInv

LEMMA RenewFine ==
  ASSUME LgInv, NEW l \in Launchers, RenewedInTime, Renew(l)
  PROVE  LgInv'
<1>1. /\ LgTypeOK /\ PoolFits /\ LauncherFine(l)
      /\ \A k \in Launchers : LauncherFine(k)
  BY DEF LgInv
<1>2. /\ UNCHANGED <<config, cap, pc, job>> /\ pc[l] = "running"
      /\ since'[l] = 0
      /\ \A k \in Launchers : k # l => since'[k] = since[k]
      /\ lost \subseteq lost' /\ lost' \subseteq lost \cup {l}
  BY <1>1 DEF LgTypeOK, Renew
<1>3. /\ hold' \in [Launchers -> Hold \cup {None}]
      /\ PoolFits'
      /\ \A k \in Launchers : k # l => Kept(hold', k)
      /\ hold'[l] # None /\ hold'[l].state = "released" => hold[l] # None /\ hold[l].state = "released"
      /\ l \notin lost' => Live(l)' /\ hold'[l].left = HoldTTL
  <2>1. CASE RenewServed(l)
    <3>1. /\ hold' \in [Launchers -> Hold \cup {None}]
          /\ PoolFits'
          /\ \A k \in Launchers : k # l => Kept(hold', k)
          /\ hold'[l] # None /\ hold'[l].state = "released" => hold[l] # None /\ hold[l].state = "released"
          /\ Renewable(l) => l \in Active(hold)' /\ hold'[l].left = HoldTTL
      BY <1>1, <1>2, <2>1, RenewServedFacts
    <3>2. l \notin lost' => Renewable(l)
      BY DEF Renew
    <3>3. HoldTTL > 0
      BY LaunchAssumption DEF RenewedInTime
    <3> QED
      BY <3>1, <3>2, <3>3 DEF Live
  <2>2. CASE hold' = hold /\ lost' = lost \cup {l}
    <3>1. PoolFits' /\ \A k \in Launchers : Kept(hold', k)
      BY <1>1, <1>2, <2>2, SameHolds
    <3> QED
      BY <1>1, <2>2, <3>1 DEF LgTypeOK
  <2> QED
    BY <2>1, <2>2 DEF Renew
<1>4. LgTypeOK'
  BY <1>1, <1>2, <1>3, LaunchAssumption DEF LgTypeOK, Renew
<1>5. \A k \in Launchers : k # l => LauncherFine(k)'
  BY <1>1, <1>2, <1>3, OthersFine
<1>6. LauncherFine(l)'
  <2>1. ~(hold'[l] # None /\ hold'[l].state = "released")
    BY <1>1, <1>2, <1>3 DEF LauncherFine
  <2>2. l \notin lost' => Live(l)' /\ hold'[l].left + since'[l] >= HoldTTL
    BY <1>2, <1>3, LaunchAssumption
  <2> QED
    BY <1>2, <2>1, <2>2 DEF LauncherFine
<1> QED
  BY <1>3, <1>4, <1>5, <1>6 DEF LgInv

LEMMA ReleaseFine ==
  ASSUME LgInv, NEW l \in Launchers, Release(l)
  PROVE  LgInv'
<1> DEFINE row == [state |-> "released", left |-> 0]
<1>1. /\ LgTypeOK /\ PoolFits /\ LauncherFine(l)
      /\ \A k \in Launchers : LauncherFine(k)
  BY DEF LgInv
<1>2. /\ UNCHANGED <<config, cap, job, since, lost>> /\ pc[l] = "exited" /\ pc'[l] = "done"
      /\ \A k \in Launchers : k # l => pc'[k] = pc[k]
  BY <1>1 DEF LgTypeOK, Release
<1>3. row \in Hold
  BY LaunchAssumption DEF Hold
<1>4. /\ hold' \in [Launchers -> Hold \cup {None}]
      /\ PoolFits'
      /\ \A k \in Launchers : k # l => Kept(hold', k)
  <2>1. CASE hold' = hold
    <3>1. PoolFits' /\ \A k \in Launchers : Kept(hold', k)
      BY <1>1, <1>2, <2>1, SameHolds
    <3> QED
      BY <1>1, <2>1, <3>1 DEF LgTypeOK
  <2>2. CASE l \in Active(hold) /\ hold' = [hold EXCEPT ![l] = row]
    <3>1. row.state # "active"
      OBVIOUS
    <3> HIDE DEF row
    <3>2. /\ hold' \in [Launchers -> Hold \cup {None}]
          /\ hold'[l] = row
          /\ \A k \in Launchers : k # l => hold'[k] = hold[k]
      BY <1>1, <1>3, <2>2 DEF LgTypeOK
    <3>3. Active(hold)' \subseteq Active(hold)
      <4>1. Active(hold)' = {k \in Launchers : hold'[k] # None /\ hold'[k].state = "active"}
        BY DEF Active
      <4> QED
        BY <3>1, <3>2, <4>1 DEF Active
    <3>4. PoolFits'
      BY <1>1, <1>2, <3>3, FewerFit
    <3> QED
      BY <3>2, <3>4 DEF Kept
  <2> QED
    BY <2>1, <2>2 DEF Release, ReleaseServed
<1>5. LgTypeOK'
  BY <1>1, <1>2, <1>4 DEF LgTypeOK, Release
<1>6. \A k \in Launchers : k # l => LauncherFine(k)'
  BY <1>1, <1>2, <1>4, OthersFine
<1>7. LauncherFine(l)'
  BY <1>1, <1>2 DEF LauncherFine
<1> QED
  BY <1>4, <1>5, <1>6, <1>7 DEF LgInv

\* Time: no hold of a running launcher lapses before its renewal is due.
LEMMA TickFine ==
  ASSUME LgInv, RenewedInTime, Tick
  PROVE  LgInv'
<1>1. /\ LgTypeOK /\ PoolFits
      /\ \A k \in Launchers : LauncherFine(k)
  BY DEF LgInv
<1>2. UNCHANGED <<config, cap, pc, job, lost>>
  BY DEF Tick
<1>3. ASSUME NEW k \in Launchers
      PROVE  /\ hold'[k] \in Hold \cup {None}
             /\ hold'[k] = None <=> hold[k] = None
             /\ hold[k] # None => hold'[k].state = hold[k].state
             /\ hold[k] # None /\ hold[k].left > 0 => hold'[k].left = hold[k].left - 1
  <2>1. CASE hold[k] # None /\ hold[k].left > 0
    <3>1. hold'[k] = [hold[k] EXCEPT !.left = @ - 1]
      BY <2>1 DEF Tick
    <3>2. hold[k] \in Hold
      BY <1>1, <2>1 DEF LgTypeOK
    <3>3. [hold[k] EXCEPT !.left = @ - 1] \in Hold
          /\ [hold[k] EXCEPT !.left = @ - 1].state = hold[k].state
          /\ [hold[k] EXCEPT !.left = @ - 1].left = hold[k].left - 1
      BY <2>1, <3>2, LaunchAssumption DEF Hold
    <3> QED
      BY <2>1, <3>1, <3>3, LaunchAssumption
  <2>2. CASE ~(hold[k] # None /\ hold[k].left > 0)
    <3>1. hold'[k] = hold[k]
      BY <2>2 DEF Tick
    <3> QED
      BY <1>1, <2>2, <3>1 DEF LgTypeOK
  <2> QED
    BY <2>1, <2>2
<1>4. ASSUME NEW k \in Launchers
      PROVE  /\ since'[k] \in 0..(RenewEvery + Lag)
             /\ pc[k] = "running" => since'[k] = since[k] + 1 /\ since[k] < RenewEvery + Lag
             /\ pc[k] # "running" => since'[k] = since[k]
  <2>1. since[k] \in 0..(RenewEvery + Lag) /\ RenewEvery + Lag \in Nat
    BY <1>1, LaunchAssumption DEF LgTypeOK
  <2>2. pc[k] = "running" => since[k] < RenewEvery + Lag
    BY <2>1 DEF Tick, Due
  <2>3. since'[k] = IF pc[k] = "running" THEN since[k] + 1 ELSE since[k]
    BY DEF Tick
  <2> QED
    BY <2>1, <2>2, <2>3
<1>5. LgTypeOK'
  <2>1. hold' \in [Launchers -> Hold \cup {None}]
    BY <1>3 DEF Tick
  <2>2. since' \in [Launchers -> 0..(RenewEvery + Lag)]
    BY <1>4 DEF Tick
  <2> QED
    BY <1>1, <1>2, <2>1, <2>2 DEF LgTypeOK
<1>6. Active(hold)' = Active(hold)
  <2>1. Active(hold)' = {k \in Launchers : hold'[k] # None /\ hold'[k].state = "active"}
    BY DEF Active
  <2> QED
    BY <1>3, <2>1 DEF Active
<1>7. PoolFits'
  BY <1>1, <1>2, <1>6, FewerFit
<1>8. ASSUME NEW k \in Launchers PROVE LauncherFine(k)'
  <2>1. LauncherFine(k) /\ pc[k] # "admitted"
    BY <1>1 DEF Tick
  <2>2. pc[k] = "running" /\ k \notin lost => Live(k)' /\ hold'[k].left + since'[k] >= HoldTTL
    <3>1. SUFFICES ASSUME pc[k] = "running", k \notin lost
                   PROVE  Live(k)' /\ hold'[k].left + since'[k] >= HoldTTL
      OBVIOUS
    <3>2. Live(k) /\ since[k] < RenewEvery + Lag
          /\ (since[k] >= RenewEvery + Lag \/ hold[k].left + since[k] >= HoldTTL)
      BY <1>4, <2>1, <3>1 DEF LauncherFine
    <3>3. /\ hold[k] # None /\ hold[k] \in Hold /\ hold[k].left \in Nat
          /\ since[k] \in Nat /\ HoldTTL \in Nat /\ RenewEvery + Lag \in Nat
      BY <1>1, <3>2, LaunchAssumption DEF LgTypeOK, Live, Active, Hold
    <3>4. hold[k].left + since[k] >= HoldTTL
      BY <3>2, <3>3
    <3>5. hold[k].left > 1
      BY <3>2, <3>3, <3>4 DEF RenewedInTime
    <3>6. hold'[k].left = hold[k].left - 1 /\ since'[k] = since[k] + 1
      BY <1>3, <1>4, <3>1, <3>3, <3>5
    <3>7. k \in Active(hold)'
      BY <1>6, <3>2 DEF Live
    <3> QED
      BY <3>3, <3>4, <3>5, <3>6, <3>7 DEF Live
  <2>3. hold'[k] # None /\ hold'[k].state = "released" => pc[k] = "done"
    BY <1>3, <2>1 DEF LauncherFine
  <2>4. pc[k] \in {"asking", "waiting"} => job[k] = "none" /\ (k \notin Retriers => hold'[k] = None)
    BY <1>3, <2>1 DEF LauncherFine
  <2>5. pc[k] \in {"exited", "done"} => job[k] # "running"
    BY <2>1 DEF LauncherFine
  <2> QED
    BY <1>2, <2>1, <2>2, <2>3, <2>4, <2>5 DEF LauncherFine
<1> QED
  BY <1>5, <1>7, <1>8 DEF LgInv

LEMMA ReconfigureFine ==
  ASSUME LgInv, UNCHANGED <<cap, hold, pc, job, since, lost>>,
         config' \in [gate: {"on", "disabled", "off"}, cap: Caps]
  PROVE  LgInv'
<1>1. LgTypeOK'
  BY DEF LgInv, LgTypeOK
<1>2. PoolFits' /\ \A k \in Launchers : Kept(hold', k)
  BY SameHolds DEF LgInv
<1>3. \A k \in Launchers : LauncherFine(k)'
  BY <1>2, OthersFine DEF LgInv
<1> QED
  BY <1>1, <1>2, <1>3 DEF LgInv
-----------------------------------------------------------------------------
LEMMA LgInitially ==
  ASSUME LgInit
  PROVE  LgInv
<1>1. LgTypeOK
  BY LaunchAssumption DEF LgInit, LgTypeOK
<1>2. Active(hold) = {}
  BY DEF LgInit, Active
<1>3. PoolFits
  BY <1>2, FS_EmptySet DEF PoolFits, LgInit
<1>4. \A l \in Launchers : LauncherFine(l)
  BY DEF LgInit, LauncherFine
<1> QED
  BY <1>1, <1>3, <1>4 DEF LgInv

LEMMA LgStep ==
  ASSUME LgInv, RenewedInTime, [LgNext]_lgVars
  PROVE  LgInv'
<1>1. CASE UNCHANGED lgVars
  <2>1. config' \in [gate: {"on", "disabled", "off"}, cap: Caps]
    BY <1>1 DEF LgInv, LgTypeOK, lgVars
  <2> QED
    BY <1>1, <2>1, ReconfigureFine DEF lgVars
<1>2. ASSUME NEW l \in Launchers, Admit(l) PROVE LgInv'
  <2>1. /\ AdmitServed(l) /\ pc[l] \in {"asking", "waiting"} /\ UNCHANGED <<config, job, since, lost>>
    BY <1>2 DEF Admit
  <2>2. PICK to \in {"asking", "waiting", "admitted", "refused"} :
          /\ pc' = [pc EXCEPT ![l] = to]
          /\ to = "admitted" => AdmitAnswer(l) = "start"
          /\ to = "waiting" => AdmitAnswer(l) = "wait"
          /\ to # "asking"
    BY <1>2 DEF Admit
  <2> QED
    BY <2>1, <2>2, AdmitFine
<1>3. ASSUME NEW l \in Launchers, AdmitUnanswered(l) PROVE LgInv'
  <2> DEFINE to == IF l \in Retriers THEN "asking" ELSE "refused"
  <2>1. /\ pc[l] \in {"asking", "waiting"} /\ UNCHANGED <<config, job, since, lost>>
        /\ pc' = [pc EXCEPT ![l] = to]
    BY <1>3 DEF AdmitUnanswered
  <2>2. to \in {"asking", "refused"} /\ (to = "asking" => l \in Retriers)
    OBVIOUS
  <2> HIDE DEF to
  <2>3. CASE AdmitServed(l)
    BY <2>1, <2>2, <2>3, AdmitFine
  <2>4. CASE UNCHANGED <<cap, hold>>
    <3>1. LgTypeOK'
      BY <2>1, <2>2, <2>4 DEF LgInv, LgTypeOK
    <3>2. PoolFits' /\ \A k \in Launchers : Kept(hold', k)
      BY <2>4, SameHolds DEF LgInv
    <3>3. pc'[l] = to /\ \A k \in Launchers : k # l => pc'[k] = pc[k]
      BY <2>1 DEF LgInv, LgTypeOK
    <3>4. \A k \in Launchers : k # l => LauncherFine(k)'
      BY <2>1, <3>2, <3>3, OthersFine DEF LgInv
    <3>5. LauncherFine(l)'
      <4>1. LauncherFine(l)
        BY DEF LgInv
      <4> QED
        BY <2>1, <2>2, <2>4, <3>3, <4>1 DEF LauncherFine
    <3> QED
      BY <3>1, <3>2, <3>4, <3>5 DEF LgInv
  <2> QED
    BY <1>3, <2>3, <2>4 DEF AdmitUnanswered
<1>4. ASSUME NEW l \in Launchers, Launcher(l) \/ JobExits(l) PROVE LgInv'
  BY <1>2, <1>3, <1>4, AloneFine, RenewFine, ReleaseFine DEF Launcher
<1>5. CASE Reconfigure
  BY <1>5, ReconfigureFine DEF Reconfigure
<1> QED
  BY <1>1, <1>4, <1>5, TickFine DEF LgNext

LEMMA LgInvSuffices ==
  ASSUME LgInv
  PROVE  EnforcedWithinCapacity
<1>1. LgTypeOK /\ PoolFits /\ \A l \in Launchers : LauncherFine(l)
  BY DEF LgInv
<1>2. \A l \in Enforced : l \in Active(hold) /\ hold[l].left > 0
  BY <1>1 DEF Enforced, Running, LauncherFine, Live
<1>3. ASSUME Enforced # {} PROVE Cardinality(Enforced) <= cap
  <2>1. Enforced \subseteq Active(hold) /\ Active(hold) # {}
    BY <1>2, <1>3
  <2>2. cap # None /\ cap \in Nat /\ Cardinality(Active(hold)) <= cap
    BY <1>1, <2>1, LaunchAssumption DEF PoolFits, LgTypeOK
  <2>3. /\ Cardinality(Enforced) <= Cardinality(Active(hold))
        /\ Cardinality(Enforced) \in Nat /\ Cardinality(Active(hold)) \in Nat
    BY <1>1, <2>1, FS_Subset, FS_CardinalityType DEF PoolFits
  <2> QED
    BY <2>2, <2>3
<1>4. \A l \in Launchers : hold[l] # None /\ hold[l].state = "released" => job[l] # "running"
  BY <1>1 DEF LauncherFine
<1> QED
  BY <1>2, <1>3, <1>4 DEF EnforcedWithinCapacity

\* For any launchers, capacities and faults, and every hold lifetime that outlasts
\* a late renewal (crates/cli/src/run_cmd.rs renews every RENEW_INTERVAL,
\* crates/daemon/src/launch_gate.rs sets the lifetime): the jobs nobody reported as
\* unenforced run on live holds and fit the pool, and none runs on a slot that was
\* handed back.
THEOREM EnforcedJobsFitThePool ==
  ASSUME RenewedInTime
  PROVE  LgSpec => []EnforcedWithinCapacity
<1>1. LgInit => LgInv
  BY LgInitially
<1>2. LgInv /\ [LgNext]_lgVars => LgInv'
  BY LgStep
<1>3. LgInv => EnforcedWithinCapacity
  BY LgInvSuffices
<1> QED
  BY <1>1, <1>2, <1>3, PTL DEF LgSpec
=============================================================================
