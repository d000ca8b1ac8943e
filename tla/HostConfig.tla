------------------------------ MODULE HostConfig ------------------------------
(***************************************************************************)
(* The lifecycle of the canonical Claude Code connection: the installation *)
(* record in the adapter catalog, its artifact file and the three          *)
(* callbacks in the host's settings file. Translated from daemon/src/      *)
(* host_runtime/config_lifecycle.rs, config_record.rs, config_settings.rs  *)
(* and config_io.rs.                                                       *)
(*                                                                         *)
(* Three files change one after the other under one reservation. The user  *)
(* edits two of them at any time without it, and a command may die between *)
(* any two writes: the intent in the record is what the next command       *)
(* recovers from. A file is its observable content; that a file is no      *)
(* longer the one a command captured (inode, times, size) is in dirty. A   *)
(* check and the write or the commit it is for are two steps: nothing      *)
(* keeps the user from editing in between.                                 *)
(***************************************************************************)
EXTENDS AdapterRegistry

CONSTANTS
    Notes,      \* everything of the settings file that is not a hook of ours
    Elsewhere,  \* the installation id of callbacks written by another state root
    MaxEdits    \* bound: edits by the user

ASSUME HostConfigAssumption ==
    /\ MaxEdits \in Nat /\ Elsewhere \in Nat /\ Elsewhere > MaxRev
    /\ Notes # {}

VARIABLES
    target,     \* the host's settings file
    artifact,   \* the artifact of the recorded installation
    linked,     \* files that still have the name they were created under
    binary,     \* the product's executable, as it is now
    dirty,      \* process -> the files that changed since it captured them
    drift,      \* files the user changed since a command verified them
    late,       \* history: processes past their last look at the settings
                \* when the user edited them
    loose,      \* history: installations removed while the user edited the
                \* settings behind the last look at them
    edits       \* edits so far

files == <<target, artifact, linked>>
registryVars == <<catalog, lock, proc, code, reviews, failures>>
hostVars == <<files, binary, dirty, drift, late, loose, edits>>
hcVars == <<registryVars, hostVars>>

Lifecycle == {"install", "enable", "disable", "uninstall"}

\* The settings: whose callbacks, one or two of the three missing, the
\* legacy hooks, the user's own content, and whether there is a file at all.
Targets == [inst : Nat, part : BOOLEAN, legacy : BOOLEAN, note : Notes, exists : BOOLEAN]
Clean == [inst |-> 0, part |-> FALSE, legacy |-> FALSE,
          note |-> CHOOSE n \in Notes : TRUE, exists |-> FALSE]

NoConn == [known |-> FALSE, fp |-> Clean, owned |-> FALSE]
NoPend == [op |-> "none", phase |-> "none", base |-> 0, before |-> Clean,
           after |-> Clean, ownedBefore |-> FALSE, ownedAfter |-> FALSE]
NoRecord == [inst |-> 0, installed |-> FALSE, enabled |-> FALSE,
             conn |-> NoConn, pend |-> NoPend, rev |-> 0, bin |-> 0]

HcInit ==
    /\ RegInit
    /\ catalog = [rev |-> 0, reg |-> 0, trust |-> NoTrust, record |-> NoRecord]
    /\ target \in {Clean, [Clean EXCEPT !.exists = TRUE]}
    /\ artifact = "absent"
    /\ linked = {}
    /\ binary = 0
    /\ dirty = [p \in Procs |-> {}]
    /\ drift = {}
    /\ late = {} /\ loose = {}
    /\ edits = 0

Record(p) == proc[p].doc.record
Settled(r) == r.pend.op = "none"

(* What the files say about the record.                                    *)

\* observe_correlated: an incomplete set is a refusal, never ownership.
Owned(r, t) == t.inst = r.inst /\ ~t.part
Partial(r, t) == t.inst = r.inst /\ t.part

\* Mutant: only a completed connection proves the callbacks ours.
proved_by_evidence(r, t) == r.conn.owned

\* observe_owned: completed evidence, or the target a prepared intent planned.
proved(r, t) ==
    \/ r.conn.owned
    \/ r.pend.phase = "prepared" /\ r.pend.after = t /\ r.pend.ownedAfter

observe_owned_ok(r, t) == ~Partial(r, t) /\ (Owned(r, t) => proved(r, t))

\* ensure_activation_compatible: no legacy hooks and nobody else's callbacks.
compatible(r, t) == ~t.legacy /\ t.inst \in {0, r.inst}

\* verify_connected
connected(r, t) == compatible(r, t) /\ Owned(r, t)

\* config_settings::connect on the settings as captured.
planned(r, op, t) ==
    IF op = "enable" THEN [t EXCEPT !.inst = r.inst, !.part = FALSE, !.exists = TRUE]
    ELSE IF Owned(r, t) THEN [t EXCEPT !.inst = 0] ELSE t

potentially_enabled(r) == r.inst # 0 /\ r.installed /\ r.enabled /\ Settled(r)

(* Steps of a command that holds the reservation.                          *)

Holds(p, pc) == lock = p /\ proc[p].pc = pc

Goto(p, pc) == proc' = [proc EXCEPT ![p].pc = pc] /\ UNCHANGED lock

\* Transaction.commit, then on with the committed document.
CommitRecord(p, r, pc) ==
    LET document == [proc[p].doc EXCEPT !.record = r]
    IN /\ Commits(p, document)
       /\ proc' = [proc EXCEPT ![p].pc = pc, ![p].doc = catalog']
       /\ UNCHANGED lock

NextRev(p) == proc[p].doc.rev + 1

\* Only the legacy installer captures a file before it has the reservation.
Capturing(p) == lock = p \/ proc[p].op \in {"legacy_on", "legacy_off"}

\* A write of ours, which is read back: everybody else's capture of the file
\* is out of date.
Touched(p, file) ==
    dirty' = [q \in Procs |-> IF q = p THEN dirty[q] \ {file}
                              ELSE IF Capturing(q) THEN dirty[q] \cup {file} ELSE dirty[q]]

Captures(p, fs) == dirty' = [dirty EXCEPT ![p] = @ \ fs]

\* A commit over files that were checked before it.
Verified(p, fs) == drift' = (drift \ fs) \cup (dirty[p] \cap fs)

\* What a command knows of the files ends with it.
Forgets(p) == dirty' = [dirty EXCEPT ![p] = {}] /\ late' = late \ {p}

\* The command ends: verified, without a change, or refused by a check.
End(p) ==
    /\ Done(p)
    /\ Forgets(p)
    /\ UNCHANGED <<catalog, code, reviews, failures, files, binary, drift, loose, edits>>

Same == UNCHANGED <<code, reviews, failures, binary, loose, edits>>

(* Reading and reserving.                                                  *)

\* The refusals before the reservation: another operation is pending, or
\* Uninstall of an enabled connection. An installed and settled record has
\* nothing to install.
admissible(op, r) ==
    IF op = "install" THEN r.inst = 0 \/ r.pend.op = "install"
    ELSE r.inst # 0 /\ r.pend.op \in {"none", op} /\ ~(op = "uninstall" /\ r.enabled)

\* verify_package: Install and Enable refuse another executable than the
\* recorded one.
verify_package(op, r) == op \in {"install", "enable"} /\ r.inst # 0 => r.bin = binary

LifecycleSnapshot(p) ==
    /\ \E op \in Lifecycle \cap Commands :
          /\ admissible(op, catalog.record)
          /\ verify_package(op, catalog.record)
          /\ Settled(catalog.record) => Headroom
          /\ Snapshot(p, op)
    /\ UNCHANGED <<catalog, lock, code, reviews, failures, hostVars>>

\* Where a command starts once it holds the reservation.
entry(op, r) ==
    CASE op = "install" /\ r.inst = 0 -> "install_intent"
      [] op = "install" /\ r.inst # 0 -> "reconcile"
      [] op = "disable" /\ Settled(r) /\ r.enabled -> "gate"
      [] op = "admit" -> "admit"
      [] op \in {"legacy_on", "legacy_off"} -> "legacy"
      [] OTHER -> "observe"

HcBegin(p) ==
    /\ proc[p].op \notin RegistryOps
    /\ Begin(p, entry(proc[p].op, Record(p)))
    /\ UNCHANGED <<catalog, code, reviews, failures, hostVars>>

HcBeginRefused(p) ==
    /\ BeginRefused(p)
    /\ Forgets(p)
    /\ UNCHANGED <<catalog, lock, files, drift>> /\ Same

(* Install.                                                                *)

\* A fresh installation id names a fresh artifact path.
InstallIntent(p) ==
    /\ Holds(p, "install_intent")
    /\ CommitRecord(p, [NoRecord EXCEPT !.inst = NextRev(p), !.rev = NextRev(p), !.bin = binary,
                            !.pend = [NoPend EXCEPT !.op = "install", !.phase = "prepared"]],
                    "create")
    /\ artifact' = "absent"
    /\ linked' = linked \ {"artifact"}
    /\ UNCHANGED <<target, dirty, drift, late>> /\ Same

\* hard_link: an entry that appeared meanwhile is never replaced. The file has
\* two names until the temporary one is removed.
CreateArtifact(p) ==
    /\ Holds(p, "create")
    /\ artifact = "absent"
    /\ artifact' = "exact"
    /\ linked' = linked \cup {"artifact"}
    /\ Touched(p, "artifact")
    /\ Goto(p, "unlink")
    /\ UNCHANGED <<catalog, target, drift, late>> /\ Same

Created(p) == IF proc[p].op = "install" THEN "artifact" ELSE "target"

RemoveTemporary(p) ==
    /\ Holds(p, "unlink")
    /\ Created(p) \in linked
    /\ linked' = linked \ {Created(p)}
    /\ Goto(p, IF proc[p].op = "install" THEN "finish_install" ELSE "complete")
    /\ UNCHANGED <<catalog, target, artifact, dirty, drift, late>> /\ Same

\* What safe_file refuses to read.
TwoNames(file) == file \in linked

finish_install(p) ==
    /\ Holds(p, "finish_install")
    /\ artifact = "exact" /\ ~TwoNames("artifact")
    /\ Record(p).bin = binary
    /\ Captures(p, {"artifact"})
    /\ Goto(p, "install_commit")
    /\ UNCHANGED <<catalog, files, drift, late>> /\ Same

InstallCompletion(p) ==
    /\ Holds(p, "install_commit")
    /\ CommitRecord(p, [Record(p) EXCEPT !.installed = TRUE, !.pend = NoPend,
                                         !.rev = NextRev(p)], "verify")
    /\ Verified(p, {"artifact"})
    /\ UNCHANGED <<files, dirty, late>> /\ Same

\* reconcile_install: what the interrupted install left decides.
ReconcileInstall(p) ==
    /\ Holds(p, "reconcile")
    /\ ~TwoNames("artifact")
    /\ Captures(p, {"artifact"})
    /\ \/ artifact = "exact" /\ Goto(p, "finish_install")
       \/ artifact = "absent" /\ Goto(p, "withdraw")
    /\ UNCHANGED <<catalog, files, drift, late>> /\ Same

WithdrawInstall(p) ==
    /\ Holds(p, "withdraw")
    /\ CommitRecord(p, NoRecord, "verify")
    /\ Verified(p, {"artifact"})
    /\ UNCHANGED <<files, dirty, late>> /\ Same

(* Enable, Disable and Uninstall.                                          *)

\* Disable closes the gate before it looks at any file.
CloseGate(p) ==
    LET r == Record(p)
    IN /\ Holds(p, "gate")
       /\ CommitRecord(p, [r EXCEPT !.enabled = FALSE, !.rev = NextRev(p),
              !.pend = [op |-> "disable", phase |-> "gate_closed", base |-> r.rev,
                        before |-> r.conn.fp, after |-> r.conn.fp,
                        ownedBefore |-> r.conn.owned, ownedAfter |-> r.conn.owned]],
              "observe")
       /\ UNCHANGED <<files, dirty, drift, late>> /\ Same

Prepared(r) == r.pend.phase = "prepared"

\* Only a prepared Uninstall may find the artifact gone.
removed_artifact(p) ==
    proc[p].op = "uninstall" /\ Prepared(Record(p)) /\ artifact = "absent"

\* Mutant: a prepared operation is taken for applied.
AppliedAssumed(p) == Prepared(Record(p))

\* The files show the prepared operation applied: it is only completed.
Applied(p) ==
    /\ Prepared(Record(p))
    /\ target = Record(p).pend.after
    /\ Owned(Record(p), target) = Record(p).pend.ownedAfter

\* The step the captured files lead to, "refused" when a check fails.
decision(p) ==
    LET r == Record(p)
        op == proc[p].op
        owned == Owned(r, target)
        settledAs == Settled(r) /\ op # "uninstall" /\ r.enabled = (op = "enable")
        readable == linked = {} /\ (artifact = "exact" \/ removed_artifact(p))
        untouched == target = r.pend.before
    IN IF ~readable \/ ~observe_owned_ok(r, target) THEN "refused"
       ELSE IF Applied(p) THEN "complete"
       ELSE IF Prepared(r) /\ op = "enable" THEN
            IF untouched /\ ~owned THEN "revert" ELSE "refused"
       ELSE IF Prepared(r) /\ (removed_artifact(p) \/ ~(untouched \/ owned)) THEN "refused"
       ELSE IF settledAs THEN "unchanged"
       ELSE IF op = "enable" => compatible(r, target) THEN "intent" ELSE "refused"

Observe(p) ==
    /\ Holds(p, "observe")
    /\ decision(p) \notin {"refused", "unchanged"}
    /\ proc' = [proc EXCEPT ![p].pc = decision(p), ![p].seen = target]
    /\ dirty' = [dirty EXCEPT ![p] = {}]
    /\ UNCHANGED <<catalog, lock, files, drift, late>> /\ Same

\* An interrupted Enable that never reached the settings is taken back. Here
\* and in PrepareIntent the files are checked again before the commit: an edit
\* before that check ends the command (Ends), one after it goes unnoticed.
RevertEnable(p) ==
    /\ Holds(p, "revert")
    /\ CommitRecord(p, [Record(p) EXCEPT !.pend = NoPend, !.rev = NextRev(p),
            !.conn = [known |-> TRUE, fp |-> proc[p].seen, owned |-> FALSE]], "verify")
    /\ Verified(p, {"target", "artifact"})
    /\ UNCHANGED <<files, dirty, late>> /\ Same

PrepareIntent(p) ==
    /\ Holds(p, "intent")
    /\ LET r == Record(p)
           op == proc[p].op
       IN CommitRecord(p, [r EXCEPT !.enabled = FALSE, !.rev = NextRev(p),
              !.pend = [op |-> op, phase |-> "prepared",
                        base |-> IF Settled(r) THEN r.rev ELSE r.pend.base,
                        before |-> proc[p].seen, after |-> planned(r, op, proc[p].seen),
                        ownedBefore |-> Owned(r, proc[p].seen),
                        ownedAfter |-> op = "enable"]], "replace")
    /\ UNCHANGED <<files, dirty, drift, late>> /\ Same

\* Mutant: the file is replaced without a last look at it.
ReplaceUnchecked(p) ==
    /\ Holds(p, "replace")
    /\ Goto(p, "publish")
    /\ UNCHANGED <<catalog, files, dirty, drift, late>> /\ Same

\* FileObservation::replace up to its last check; without a change there is
\* nothing to replace.
ReplaceTarget(p) ==
    /\ Holds(p, "replace")
    /\ IF proc[p].seen = Record(p).pend.after THEN Goto(p, "complete")
       ELSE "target" \notin dirty[p] /\ Goto(p, "publish")
    /\ UNCHANGED <<catalog, files, dirty, drift, late>> /\ Same

\* rename takes the place of whatever is there by now, hard_link that of
\* nothing; the result is read back.
Publish(p) ==
    /\ Holds(p, "publish")
    /\ target' = Record(p).pend.after
    /\ Touched(p, "target")
    /\ \/ /\ proc[p].seen.exists
          /\ Goto(p, "complete")
          /\ UNCHANGED linked
       \/ /\ ~proc[p].seen.exists /\ ~target.exists
          /\ linked' = linked \cup {"target"}
          /\ Goto(p, "unlink")
    /\ late' = late \ {p}
    /\ UNCHANGED <<catalog, artifact, drift>> /\ Same

\* complete_connection up to its commit. Uninstall removes the artifact.
Completable(p) ==
    /\ dirty[p] = {}
    /\ Applied(p)
    /\ proc[p].op = "enable" => Record(p).bin = binary /\ compatible(Record(p), target)
    /\ artifact \in IF proc[p].op = "uninstall" THEN {"exact", "absent"} ELSE {"exact"}

BeforeCompletion(p) ==
    /\ Holds(p, "complete")
    /\ Completable(p)
    /\ Goto(p, IF proc[p].op = "uninstall" THEN "remove" ELSE "commit")
    /\ UNCHANGED <<catalog, files, dirty, drift, late>> /\ Same

\* FileObservation::remove: whatever the artifact is by now.
RemoveArtifact(p) ==
    /\ Holds(p, "remove")
    /\ artifact' = "absent"
    /\ Touched(p, "artifact")
    /\ Goto(p, "recheck")
    /\ UNCHANGED <<catalog, target, linked, drift, late>> /\ Same

Recheck(p) ==
    /\ Holds(p, "recheck")
    /\ dirty[p] = {}
    /\ Goto(p, "commit")
    /\ UNCHANGED <<catalog, files, dirty, drift, late>> /\ Same

Completion(p) ==
    /\ Holds(p, "commit")
    /\ CommitRecord(p,
          IF proc[p].op = "uninstall" THEN NoRecord
          ELSE [Record(p) EXCEPT !.enabled = (proc[p].op = "enable"), !.pend = NoPend,
                    !.rev = NextRev(p),
                    !.conn = [known |-> TRUE, fp |-> Record(p).pend.after,
                              owned |-> proc[p].op = "enable"]],
          "verify")
    /\ Verified(p, {"target", "artifact"})
    /\ loose' = IF proc[p].op = "uninstall" /\ "target" \in dirty[p]
                THEN loose \cup {Record(p).inst} ELSE loose
    /\ UNCHANGED <<files, dirty, late, code, reviews, failures, binary, edits>>

(* A callback the host fires.                                              *)

\* admit_callback: disabled or pending exits here, without a reservation.
AdmitSnapshot(p) ==
    /\ potentially_enabled(catalog.record)
    /\ Snapshot(p, "admit")
    /\ UNCHANGED <<catalog, lock, code, reviews, failures, hostVars>>

AdmitVerify(p) ==
    /\ Holds(p, "admit")
    /\ Record(p).bin = binary
    /\ linked = {} /\ artifact = "exact"
    /\ connected(Record(p), target)
    /\ dirty' = [dirty EXCEPT ![p] = {}]
    /\ Goto(p, "final")
    /\ UNCHANGED <<catalog, files, drift, late>> /\ Same

\* The final checks; the reservation is gone when the handler runs.
AdmitFinal(p) ==
    /\ Holds(p, "final")
    /\ dirty[p] = {}
    /\ proc' = [proc EXCEPT ![p].pc = "admitted"]
    /\ Release(p)
    /\ Forgets(p)
    /\ UNCHANGED <<catalog, files, drift>> /\ Same

HandlerEnds(p) == proc[p].pc = "admitted" /\ End(p)

(* The legacy installer, which shares the reservation.                     *)

\* run_legacy_claude: activation only without an installation or its
\* callbacks. The settings are captured before the reservation.
LegacySnapshot(p) ==
    /\ ~TwoNames("target")
    /\ \E op \in {"legacy_on", "legacy_off"} \cap Commands :
          /\ op = "legacy_on" => catalog.record.inst = 0 /\ target.inst = 0
          /\ op = "legacy_off" => target.legacy
          /\ Snapshot(p, op)
    /\ Captures(p, {"target"})
    /\ UNCHANGED <<catalog, lock, code, reviews, failures, files, binary, drift, late, loose, edits>>

\* The capture is checked; then the legacy writer reads the file itself and
\* compares it once more.
LegacyAction(p) ==
    /\ Holds(p, "legacy")
    /\ "target" \notin dirty[p]
    /\ proc' = [proc EXCEPT ![p].pc = "legacy_publish", ![p].seen = target]
    /\ UNCHANGED <<catalog, lock, files, dirty, drift, late>> /\ Same

LegacyPublish(p) ==
    /\ Holds(p, "legacy_publish")
    /\ target' = [proc[p].seen EXCEPT !.legacy = (proc[p].op = "legacy_on"), !.exists = TRUE]
    /\ linked' = linked \ {"target"}
    /\ Touched(p, "target")
    /\ late' = late \ {p}
    /\ Done(p)
    /\ UNCHANGED <<catalog, artifact, drift>> /\ Same

(* Checks that fail, and the end of a command.                             *)

CheckFails(p) ==
    CASE proc[p].pc = "create" -> artifact # "absent"
      [] proc[p].pc = "unlink" -> Created(p) \notin linked \/ Created(p) \in dirty[p]
      [] proc[p].pc = "finish_install" ->
            artifact # "exact" \/ TwoNames("artifact") \/ Record(p).bin # binary
      [] proc[p].pc = "reconcile" -> artifact = "foreign" \/ TwoNames("artifact")
      [] proc[p].pc = "observe" -> decision(p) = "refused"
      [] proc[p].pc = "replace" -> proc[p].seen # Record(p).pend.after /\ "target" \in dirty[p]
      [] proc[p].pc = "publish" -> ~proc[p].seen.exists /\ target.exists
      [] proc[p].pc = "complete" -> ~Completable(p)
      [] proc[p].pc = "admit" -> ~(/\ Record(p).bin = binary /\ linked = {}
                                   /\ artifact = "exact" /\ connected(Record(p), target))
      [] proc[p].pc = "legacy" -> "target" \in dirty[p]
      [] proc[p].pc \in {"revert", "intent", "recheck", "final"} -> dirty[p] # {}
      [] OTHER -> FALSE

Ends(p) ==
    /\ lock = p
    /\ \/ CheckFails(p)
       \/ proc[p].pc = "verify"
       \/ proc[p].pc = "observe" /\ decision(p) = "unchanged"
    /\ End(p)

\* An I/O error, a failed verification or a crash, anywhere.
HcFail(p) ==
    /\ Fail(p)
    /\ Forgets(p)
    /\ UNCHANGED <<catalog, code, reviews, files, binary, drift, loose, edits>>

(* The user, who knows of no reservation.                                  *)

\* The user's own content, the legacy hooks, all or some of the callbacks
\* gone, those of another state root, or ours put back from a backup.
EditedTargets ==
    {[target EXCEPT !.note = n, !.exists = TRUE] : n \in Notes}
    \cup {[target EXCEPT !.legacy = ~target.legacy, !.exists = TRUE]}
    \cup {[target EXCEPT !.inst = i, !.part = FALSE, !.exists = TRUE] :
              i \in {0, Elsewhere}
                    \cup (IF catalog.record.conn.known THEN {catalog.record.inst} ELSE {})}
    \cup {[target EXCEPT !.part = (target.inst # 0), !.exists = TRUE]}

Edited(file) ==
    /\ edits < MaxEdits
    /\ edits' = edits + 1
    /\ dirty' = [p \in Procs |-> IF Capturing(p) THEN dirty[p] \cup {file} ELSE dirty[p]]
    /\ UNCHANGED <<registryVars, binary, loose>>

\* Past the last look at the settings, and about to write them.
Publishing == {"publish", "legacy_publish"}

\* Written in place or as a new file.
UserEdits ==
    \/ /\ target' \in EditedTargets \ {target}
       /\ linked' \in {linked, linked \ {"target"}}
       /\ late' = late \cup {p \in Procs : proc[p].pc \in Publishing}
       /\ drift' = drift \cup {"target"}
       /\ Edited("target")
       /\ UNCHANGED artifact
    \/ /\ catalog.record.inst # 0
       /\ artifact' \in {"absent", "exact", "foreign"} \ {artifact}
       /\ linked' \in {linked \ {"artifact"}} \cup (IF artifact' = "foreign" THEN {linked} ELSE {})
       /\ drift' = drift \cup {"artifact"}
       /\ Edited("artifact")
       /\ UNCHANGED <<target, late>>

\* The user finds the second name of a file and removes it.
UserTidies ==
    \E file \in {"target", "artifact"} :
        /\ file \in linked
        /\ linked' = linked \ {file}
        /\ Edited(file)
        /\ UNCHANGED <<target, artifact, drift, late>>

\* The product is upgraded, or put back.
BinaryChanges ==
    /\ edits < MaxEdits
    /\ edits' = edits + 1
    /\ binary' = 1 - binary
    /\ UNCHANGED <<registryVars, files, dirty, drift, late, loose>>

(* The specification.                                                      *)

HcStep(p) ==
    \/ HcBegin(p) \/ HcBeginRefused(p)
    \/ InstallIntent(p) \/ CreateArtifact(p) \/ RemoveTemporary(p)
    \/ finish_install(p) \/ InstallCompletion(p) \/ ReconcileInstall(p) \/ WithdrawInstall(p)
    \/ CloseGate(p) \/ Observe(p) \/ RevertEnable(p) \/ PrepareIntent(p)
    \/ ReplaceTarget(p) \/ Publish(p)
    \/ BeforeCompletion(p) \/ RemoveArtifact(p) \/ Recheck(p) \/ Completion(p)
    \/ AdmitVerify(p) \/ AdmitFinal(p) \/ HandlerEnds(p)
    \/ LegacyAction(p) \/ LegacyPublish(p) \/ Ends(p)

HcNext ==
    \/ \E p \in Procs :
          \/ HcStep(p) \/ LifecycleSnapshot(p) \/ AdmitSnapshot(p) \/ LegacySnapshot(p)
          \/ HcFail(p)
          \/ RegistryNext(p) /\ UNCHANGED hostVars
    \/ (review_trust \/ CodeChanges) /\ UNCHANGED hostVars
    \/ UserEdits \/ UserTidies \/ BinaryChanges

\* The operator runs the pending operation again.
Retry(p) == LifecycleSnapshot(p) /\ ~Settled(catalog.record) /\ lock = NoProc

\* A started command runs on; an interrupted operation is run again by an
\* operator who finds it pending.
HcFairness ==
    /\ \A p \in Procs : WF_hcVars(HcStep(p))
    /\ \A p \in Procs : WF_hcVars(RegistryNext(p) /\ proc[p].pc # "idle"
                                  /\ UNCHANGED hostVars)
    /\ SF_hcVars(\E p \in Procs : Retry(p))

HcSpec == HcInit /\ [][HcNext]_hcVars /\ HcFairness

(* The properties.                                                         *)

HcTypeOK ==
    /\ catalog.rev \in 0..MaxRev /\ catalog.reg \in 0..catalog.rev
    /\ catalog.trust \in Trusts
    /\ lock \in Procs \cup {NoProc}
    /\ target \in Targets
    /\ artifact \in {"absent", "exact", "foreign"}
    /\ linked \subseteq {"target", "artifact"} /\ drift \subseteq {"target", "artifact"}
    /\ dirty \in [Procs -> SUBSET {"target", "artifact"}]
    /\ binary \in {0, 1} /\ late \subseteq Procs /\ loose \subseteq 1..MaxRev
    /\ edits \in 0..MaxEdits /\ failures \in 0..MaxFailures

\* A settled record tells the truth about files nobody edited since they were
\* verified: enabled means all three callbacks, the artifact and no legacy
\* hooks beside them, whatever sequence of commands, crashes and recoveries
\* led there; and when the record is gone, so are the artifact and the
\* callbacks of the installation, unless the user put them back behind the
\* last look at the settings (temporary files may remain).
SettledIsTrue ==
    LET r == catalog.record
    IN drift = {} =>
        /\ r.inst # 0 /\ Settled(r) =>
              /\ artifact = "exact"
              /\ r.enabled => connected(r, target)
              /\ ~r.enabled /\ r.conn.known => target.inst # r.inst
        /\ r.inst = 0 => artifact = "absent" /\ target.inst \in {0, Elsewhere} \cup loose

\* Whatever the user wrote into the settings is still there after any
\* command, which writes the whole file from an older capture of it: it may be
\* lost only when it was written between the last look at the file and the
\* rename (config_io.rs: "not a filesystem-wide compare-and-swap").
EditsSurvive ==
    [][target'.note # target.note /\ edits' = edits =>
          \E p \in late : lock = p /\ proc[p].pc \in Publishing]_hcVars

\* A file that was left with two names, and nobody is about to remove one.
Leftover == linked # {} /\ \A p \in Procs : proc[p].pc # "unlink"

\* The files are as the pending intent recorded them, before or after, and
\* the executable is the recorded one where the operation asks for it.
ProvenState ==
    LET record == catalog.record
        pend == record.pend
    IN /\ ~Leftover
       /\ verify_package(pend.op, record)
       /\ IF pend.op = "install" THEN artifact # "foreign"
          ELSE /\ target \in {pend.before, pend.after}
               /\ \/ artifact = "exact"
                  \/ artifact = "absent" /\ pend.op = "uninstall" /\ target = pend.after

\* "Retry the same command to reconcile a proven before/after state": an
\* interrupted operation does not stay pending over such files.
Recovers ==
    ~Settled(catalog.record) /\ ProvenState ~> Settled(catalog.record) \/ ~ProvenState
===============================================================================
