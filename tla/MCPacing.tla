------------------------------ MODULE MCPacing ------------------------------
(***************************************************************************)
(* One instance of everything that rests on the quota windows: three tasks *)
(* of two principals under a fixed window, a sliding one and a bucket.     *)
(*   "simulate"  the controller under any order of events (Pacer);         *)
(*   "drive"     the controller in the gate's closed loop (PacingDrive);   *)
(*   "windows"   the windows on evidence that grows (QuotaEvidence);       *)
(*   "gauge"     a gauge on provider readings (QuotaEvidence).             *)
(* A behaviour is one of these and leaves the variables of the others.     *)
(***************************************************************************)
EXTENDS PacingDrive, QuotaEvidence

VARIABLE part

McDeps      == 1 :> {} @@ 2 :> {} @@ 3 :> {1}
McRank      == 1 :> 1 @@ 2 :> 1 @@ 3 :> 2
McDue       == 1 :> 9 @@ 2 :> 5 @@ 3 :> 9
McPrincipal == 1 :> "a" @@ 2 :> "b" @@ 3 :> "a"
McEstimate  == 1 :> 2 @@ 2 :> 1 @@ 3 :> 1

\* The fixed window's resets are unevenly spaced, as a calendar's are.
McWindows == {
  [kind |-> "fixed",   limit |-> 4, validUntil |-> {}, cycle |-> 30, resets |-> {0, 3, 7, 11}],
  [kind |-> "sliding", limit |-> 5, validUntil |-> {8}, length |-> 3],
  [kind |-> "bucket",  limit |-> 5, validUntil |-> {}, refill |-> 2, period |-> 3, anchor |-> 0, level |-> 4]}

Burst   == [mode |-> "burst", fanout |-> 2, target |-> 100, horizon |-> 0, reserve |-> 0,
            open |-> 0, close |-> 6, day |-> 6]
Sustain == [mode |-> "sustain", fanout |-> 1, target |-> 0, horizon |-> 100, reserve |-> 1000,
            open |-> 1, close |-> 5, day |-> 6]

\* Preferences without a cutoff, and with one that a start may miss.
Lasting == {Burst, Sustain}
McPreferences == Lasting \cup {[Burst EXCEPT !.target = 5], [Sustain EXCEPT !.horizon = 2]}

McValidity == {{}, {1}, {4}}

McReadings == {[reads |-> "undisclosed", used |-> 0, limit |-> 0],
               [reads |-> "used", used |-> 1, limit |-> 2],
               [reads |-> "used", used |-> 2, limit |-> 2],
               [reads |-> "used", used |-> 2, limit |-> 3]}

loopVars == <<trace, world, queue, lastWake, cut>>

\* A component at rest has nothing left to do.
PacerAtRest == p = [Fresh EXCEPT !.completed = Tasks] /\ now = 0 /\ pref = Burst /\ begun = FALSE
LoopAtRest ==
  /\ trace = <<>> /\ queue = {} /\ lastWake = None /\ cut = Tasks
  /\ world = [active |-> <<>>, completed |-> Tasks, usage |-> {}, lastStart |-> None]

McInit ==
  \/ part = "simulate" /\ PcInit /\ LoopAtRest /\ QeInit
  \/ part = "drive" /\ DrInit /\ QeInit
  \/ part \in {"windows", "gauge"} /\ PacerAtRest /\ LoopAtRest /\ QeInit

McNext ==
  \/ part = "simulate" /\ PcNext /\ UNCHANGED <<loopVars, qeVars, part>>
  \/ part = "drive" /\ DrNext /\ UNCHANGED <<qeVars, part>>
  \/ /\ QeNext
     /\ \/ part = "windows" /\ UNCHANGED snapshots
        \/ part = "gauge" /\ UNCHANGED <<spent, holds>>
     /\ UNCHANGED <<drVars, part>>

mcVars == <<drVars, qeVars, part>>

McSpec == McInit /\ [][McNext]_mcVars /\ DrFairness
=============================================================================
