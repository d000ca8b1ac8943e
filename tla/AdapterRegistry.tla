---------------------------- MODULE AdapterRegistry ----------------------------
(***************************************************************************)
(* The host adapter catalog (registry.json): one adapter's registration    *)
(* and code trust, the reservation every writer holds, and the diagnostic  *)
(* runs that rely on the trust. Translated from                            *)
(* daemon/src/host_runtime/state.rs, dispatch.rs and daemon/src/           *)
(* write_lock.rs.                                                          *)
(*                                                                         *)
(* A writer reads the catalog without the reservation, then takes it and   *)
(* requires the catalog it read to be the one still there. A command that  *)
(* fails and a process that dies look the same from outside: the           *)
(* reservation is gone and what was committed stays.                       *)
(***************************************************************************)
EXTENDS Naturals, FiniteSets

CONSTANTS
    Procs,        \* processes that run adapter commands
    NoProc,       \* nobody holds the reservation
    Commands,     \* the commands operators run
    Codes,        \* versions of the adapter's code on disk
    MaxRev,       \* bound: catalog revision, MAX_REVISION in the code
    Reserve,      \* bound: revisions kept for an operation and its recovery
    MaxFailures   \* bound: commands that fail or die

ASSUME RegistryAssumption ==
    /\ NoProc \notin Procs
    /\ MaxRev \in Nat /\ MaxFailures \in Nat /\ Reserve \in Nat \ {0}

VARIABLES
    catalog,    \* registry.json
    lock,       \* who holds the reservation
    proc,       \* process -> the command it runs
    code,       \* the adapter's code as it is on disk now
    reviews,    \* every (registration, code) an operator was shown
    failures    \* commands that failed or died so far

\* Code trust records the registration it was confirmed for and the code.
NoTrust == [reg |-> 0, code |-> "none", rev |-> 0]
Trusts == [reg : Nat, code : Codes \cup {"none"}, rev : Nat]

Idle == [pc |-> "idle", op |-> "none", doc |-> "none", seen |-> "none"]

RegistryOps == {"register", "unregister", "confirm", "clear"}

RegInit ==
    /\ lock = NoProc
    /\ proc = [p \in Procs |-> Idle]
    /\ code \in Codes
    /\ reviews = {}
    /\ failures = 0

(* Commands: read, reserve, commit.                                        *)

\* read(): the catalog and its stamp, with no reservation.
Snapshot(p, op) ==
    /\ proc[p].pc = "idle"
    /\ proc' = [proc EXCEPT ![p] = [pc |-> "begin", op |-> op,
                                    doc |-> catalog, seen |-> "none"]]

\* Mutant: the catalog read before the reservation is taken is good enough.
BeginUnchecked(p, pc) ==
    /\ proc[p].pc = "begin"
    /\ lock = NoProc
    /\ lock' = p
    /\ proc' = [proc EXCEPT ![p].pc = pc]

\* begin_with_creation: the reservation, then the stamp compared again.
Begin(p, pc) ==
    /\ proc[p].pc = "begin"
    /\ lock = NoProc
    /\ catalog = proc[p].doc
    /\ lock' = p
    /\ proc' = [proc EXCEPT ![p].pc = pc]

\* The catalog changed since it was read, or the reservation stayed taken
\* for the whole poll budget.
BeginRefused(p) ==
    /\ proc[p].pc = "begin"
    /\ catalog # proc[p].doc \/ lock # NoProc
    /\ proc' = [proc EXCEPT ![p] = Idle]

Release(p) == lock' = IF lock = p THEN NoProc ELSE lock

\* commit_observed: the revision advances by one, from the document read.
Commits(p, document) ==
    /\ proc[p].doc.rev < MaxRev
    /\ catalog' = [document EXCEPT !.rev = proc[p].doc.rev + 1]

Done(p) == proc' = [proc EXCEPT ![p] = Idle] /\ Release(p)

\* Any check that fails, any I/O error and a crash: the guard is dropped.
Fail(p) ==
    /\ proc[p].pc # "idle"
    /\ failures < MaxFailures
    /\ failures' = failures + 1
    /\ Done(p)

(* Registration and code trust.                                            *)

\* Bound: a new operation leaves the revisions recovery may still need.
Headroom == catalog.rev + Reserve <= MaxRev

RegistrySnapshot(p) ==
    /\ Headroom
    /\ \E op \in RegistryOps \cap Commands : Snapshot(p, op)
    /\ UNCHANGED <<catalog, lock, code, reviews, failures>>

RegistryBegin(p) ==
    /\ proc[p].op \in RegistryOps
    /\ Begin(p, "apply")
    /\ UNCHANGED <<catalog, code, reviews, failures>>

\* registration_candidate: refused while the adapter is registered.
registration_candidate(doc) ==
    IF doc.reg = 0
        THEN {[doc EXCEPT !.reg = doc.rev + 1, !.trust = NoTrust]} ELSE {}

\* Mutant: the trust outlives the registration it was given to.
unregistration_keeps_trust(doc) ==
    IF doc.reg # 0 THEN {[doc EXCEPT !.reg = 0]} ELSE {}

unregistration_candidate(doc) ==
    IF doc.reg # 0 THEN {[doc EXCEPT !.reg = 0, !.trust = NoTrust]} ELSE {}

\* The confirmation digest binds the registration and the code, measured
\* under the reservation.
confirmation_matches(doc, confirmation) ==
    confirmation = [reg |-> doc.reg, code |-> code]

\* trust_candidate: None (no change) when the same trust is recorded.
trust_candidate(doc) ==
    {[doc EXCEPT !.trust = [reg |-> doc.reg, code |-> code, rev |-> doc.rev + 1]] :
        confirmation \in {c \in reviews : /\ doc.reg # 0
                                         /\ confirmation_matches(doc, c)
                                         /\ doc.trust.code # code}}

clear_candidate(doc) ==
    IF doc.trust # NoTrust THEN {[doc EXCEPT !.trust = NoTrust]} ELSE {}

Candidates(p) ==
    LET doc == proc[p].doc
    IN CASE proc[p].op = "register" -> registration_candidate(doc)
         [] proc[p].op = "unregister" -> unregistration_candidate(doc)
         [] proc[p].op = "confirm" -> trust_candidate(doc)
         [] proc[p].op = "clear" -> clear_candidate(doc)

\* The candidate is committed, or the command is refused or changes nothing.
RegistryApply(p) ==
    /\ proc[p].pc = "apply"
    /\ \/ \E document \in Candidates(p) : Commits(p, document)
       \/ Candidates(p) = {} /\ UNCHANGED catalog
    /\ Done(p)
    /\ UNCHANGED <<code, reviews, failures>>

\* review_trust: what an operator is shown of the registered code.
review_trust ==
    /\ catalog.reg # 0
    /\ reviews' = reviews \cup {[reg |-> catalog.reg, code |-> code]}
    /\ UNCHANGED <<catalog, lock, proc, code, failures>>

\* Somebody changes the adapter's files.
CodeChanges ==
    /\ code' \in Codes \ {code}
    /\ UNCHANGED <<catalog, lock, proc, reviews, failures>>

(* Diagnostic runs hold no reservation: they compare again and again.      *)

\* prepare: trust matches the code measured now; it is what every recheck
\* compares with.
DiagnosticPrepare(p) ==
    /\ proc[p].pc = "idle"
    /\ catalog.reg # 0
    /\ catalog.trust.code = code
    /\ proc' = [proc EXCEPT ![p] =
          [pc |-> "launch", op |-> "diagnose", doc |-> "none",
           seen |-> [reg |-> catalog.reg, trust |-> catalog.trust, code |-> code]]]
    /\ UNCHANGED <<catalog, lock, code, reviews, failures>>

recheck(seen) ==
    seen = [reg |-> catalog.reg, trust |-> catalog.trust, code |-> code]

\* The child is started right after a recheck, and runs for a while.
DiagnosticLaunch(p) ==
    /\ proc[p].pc = "launch"
    /\ recheck(proc[p].seen)
    /\ proc' = [proc EXCEPT ![p].pc = "accept"]
    /\ UNCHANGED <<catalog, lock, code, reviews, failures>>

\* Its answer counts only if nothing changed while it ran.
DiagnosticAccept(p) ==
    /\ proc[p].pc = "accept"
    /\ recheck(proc[p].seen)
    /\ proc' = [proc EXCEPT ![p].pc = "accepted"]
    /\ UNCHANGED <<catalog, lock, code, reviews, failures>>

DiagnosticEnd(p) ==
    /\ proc[p].op = "diagnose"
    /\ \/ proc[p].pc = "accepted"
       \/ proc[p].pc \in {"launch", "accept"} /\ ~recheck(proc[p].seen)
    /\ Done(p)
    /\ UNCHANGED <<catalog, code, reviews, failures>>

RegistryNext(p) ==
    \/ RegistrySnapshot(p) \/ RegistryBegin(p) \/ RegistryApply(p)
    \/ DiagnosticPrepare(p) \/ DiagnosticLaunch(p) \/ DiagnosticAccept(p)
    \/ DiagnosticEnd(p)

(* The properties.                                                         *)

\* Recorded trust names code an operator was shown under this very
\* registration: unregistering, registering again or changing the files
\* between the review and the confirmation never carries it over.
TrustWasReviewed ==
    catalog.trust # NoTrust =>
        /\ catalog.trust.reg = catalog.reg
        /\ [reg |-> catalog.reg, code |-> catalog.trust.code] \in reviews

\* No writer's commit is lost: every change of the catalog is built on the
\* catalog it replaces, though it was read before the reservation was taken.
NoLostUpdate ==
    [][catalog' # catalog => catalog'.rev = catalog.rev + 1]_catalog
================================================================================
