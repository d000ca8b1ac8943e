--------------------------- MODULE MCTaskRuntime ---------------------------
(***************************************************************************)
(* The daemon's handlers of a task: what a prompt, a tool call and a stop  *)
(* do to plans and budgets (part "handlers", TaskRuntime), and the front   *)
(* that decides which task such an event belongs to and whether it is a    *)
(* replay (part "lanes", ExecutionOwner).  A behaviour is one of the two   *)
(* and leaves the variables of the other.                                  *)
(***************************************************************************)
EXTENDS TaskRuntime, ExecutionOwner

VARIABLE part

MCBound(mode, target, elastic, hard) ==
  [mode |-> mode, target |-> target, elastic |-> elastic, hard |-> hard]
MCConfig(resource, time, turn, turnScoped, gateway) ==
  [resource |-> resource, time |-> time, turn |-> turn, minConfidence |-> 1,
   turnScoped |-> turnScoped, gateway |-> gateway]

\* A lifetime budget, the same one behind a gateway, and one bounded by the turn.
MCConfigs ==
  {MCConfig(MCBound("elastic", 2, 4, 5), MCBound("approval", 1, NoBound, NoBound), NoBound, FALSE, gw)
     : gw \in BOOLEAN}
  \cup {MCConfig(MCBound("approval", 2, NoBound, 4), MCBound("hard", 1, NoBound, 1),
                 [cold |-> 2, ceiling |-> 4], TRUE, FALSE)}

McInit ==
  /\ TkInit /\ XoInit
  /\ \/ part = "handlers" /\ bound = [l \in Lanes |-> FALSE]
     \/ part = "lanes" /\ config = CHOOSE c \in Configs : TRUE

McNext ==
  \/ part = "handlers" /\ TkNext /\ UNCHANGED <<xoVars, part>>
  \/ part = "lanes" /\ XoNext /\ UNCHANGED <<tkVars, part>>

McSpec == McInit /\ [][McNext]_<<tkVars, xoVars, part>>
=============================================================================
