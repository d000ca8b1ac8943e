--------------------------- MODULE MCBudgetParts ---------------------------
(***************************************************************************)
(* A small instance of SharedBudget, in two parts that would be large as   *)
(* one: "windows" follows a main lane whose transcript lags, for        *)
(* prompts without an id; "turns" follows prompts with ids, a subagent's   *)
(* lane, an explicit charge, edits of the file and the prune, a month at a *)
(* time and with a transcript that cannot be read.  A behaviour stays in   *)
(* its part, and every step of a part is a step of Next.                   *)
(***************************************************************************)
EXTENDS MCSharedBudget

VARIABLE part

MCAllConfigs == MCOneConfig \cup MCTightConfigs
MCStrides == {1, PeriodLen}

McInit ==
  /\ Init
  /\ \/ part = "windows" /\ cfg \in MCOneConfig
     \/ part = "turns" /\ cfg \in MCTightConfigs

WindowsNext ==
  /\ part = "windows"
  /\ \/ ClockStep(1)
     \/ \E s \in Sessions :
          \/ Respond(s)
          \/ Flush(s)
          \/ FlushBlock(s)
          \/ \E o \in Aliens : FlushAlien(s, o)
          \/ Heartbeat(s)
          \/ AdmitRefused(s, None, None)
          \/ AdmitRenewed(s, None, None)
          \/ AdmitGranted(s, None, None, FALSE)
          \/ Stop(s, None, TRUE)
          \/ EndOpenTurn(s, TRUE)
          \/ EndTail(s)
  /\ now' <= MaxTime - 2

TurnsNext ==
  /\ part = "turns"
  /\ \/ ClockStep(PeriodLen)
     \/ \E c \in MCTightConfigs : EditFile(c)
     \/ \E s \in Sessions :
          \/ Heartbeat(s)
          \/ \E a \in Opts(Agents), m \in Opts(Prompts) :
               \/ AdmitRefused(s, a, m)
               \/ AdmitRenewed(s, a, m)
               \/ \E f \in ReadFails : AdmitGranted(s, a, m, f)
          \/ \E m \in Opts(Prompts) : Stop(s, m, FALSE)
          \/ EndOpenTurn(s, FALSE)
          \/ \E a \in Opts(Agents), k \in ChargeKeys : ChargeAgent(s, a, k)
     \/ PruneStart \/ PruneSkip \/ PruneOnePool \/ PruneCrash

McNext == (WindowsNext \/ TurnsNext) /\ UNCHANGED part

McSpec == McInit /\ [][McNext]_<<vars, part>>
=============================================================================
