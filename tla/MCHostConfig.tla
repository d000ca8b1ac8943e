---------------------------- MODULE MCHostConfig ----------------------------
(***************************************************************************)
(* A small instance of HostConfig, in parts that would be large as one:    *)
(* "lifecycle" runs the commands of the host connection beside the user's  *)
(* edits and a failure, "legacy" the legacy installer beside Install,      *)
(* Enable and the edits, "trust" the commands of the catalog beside an     *)
(* install and code that changes.  A behaviour stays in its part.          *)
(***************************************************************************)
EXTENDS HostConfig

VARIABLE part

\* The commands of a part, and the bound on its revisions.
PartOps(x) ==
  CASE x = "lifecycle" -> {"install", "enable", "disable", "uninstall", "admit"}
    [] x = "legacy" -> {"install", "enable", "legacy_on", "legacy_off"}
    [] x = "trust" -> {"install", "register", "unregister", "confirm", "clear"}

PartRev(x) == IF x = "lifecycle" THEN MaxRev ELSE 4

McInit ==
  /\ HcInit
  /\ \/ part \in {"lifecycle", "legacy"} /\ code = CHOOSE c \in Codes : TRUE
     \/ part = "trust" /\ target = Clean

Within ==
  /\ \A p \in Procs : proc'[p].op \in PartOps(part) \cup {"none"}
  /\ catalog'.rev <= PartRev(part)
  /\ part = "trust" => edits' = edits
  /\ part # "trust" => code' = code
  /\ part # "lifecycle" => failures' = failures

McNext == HcNext /\ Within /\ UNCHANGED part

McSpec == McInit /\ [][McNext]_<<hcVars, part>> /\ HcFairness
-----------------------------------------------------------------------------
\* An interrupted operation over files in a proven state is recovered, unless
\* commands of the catalog keep taking the reservation from those that retry it.
LifecycleRecovers == part = "lifecycle" => Recovers
=============================================================================
