--------------------------- MODULE Gateway_proofs ---------------------------
(* Theorems about Gateway, for every number of requests, cap, price, lease,  *)
(* and number of restarts.  Those about what is billed assume that no answer *)
(* of the provider is lost on the way (Lossy): the code refunds such a       *)
(* request.                                                                  *)
EXTENDS Gateway, Sums_proofs, TLAPS

\* What the assumptions say of the constants the proofs use.
LEMMA ConstantFacts ==
  /\ Worst \in Nat /\ TTL \in Nat /\ None \notin Nat /\ None \notin Plans
  /\ MaxRows \in Nat /\ Costs \subseteq 1..Worst
  /\ None \notin TaskRow /\ None \notin Hold
  BY GatewayAssumption, ReservationAssumption, NullAssumption

-----------------------------------------------------------------------------
(* Task rows: no operation moves a row to another request or removes one.    *)

LEMMA NewTaskRow ==
  ASSUME TypesInv, NEW r \in Requests
  PROVE  [task |-> Task, plan |-> None, key |-> r, amount |-> Worst,
          drawn |-> 0, state |-> "active", settled |-> None,
          expiresAt |-> now + TTL, late |-> FALSE] \in TaskRow
  BY ConstantFacts DEF TypesInv, TaskRow, Opt

\* A step that gives each row it touches another state, and nothing else.
RowsEvolve ==
  /\ rows' \in [Ids -> Opt(TaskRow)]
  /\ \A i \in Ids : rows[i] = None <=> rows'[i] = None
  /\ \A i \in Ids : rows[i] # None => rows'[i].key = rows[i].key

LEMMA EndedRows ==
  ASSUME TypesInv, NEW S \in SUBSET Ids, NEW state \in {"released", "expired"},
         \A i \in S : rows[i] # None,
         Ended(S, state)
  PROVE  /\ RowsEvolve
         /\ \A i \in Ids : i \notin S => rows'[i] = rows[i]
         /\ \A i \in S : rows'[i].state = state
         /\ now' = now /\ issued' = issued
<1>1. \A i \in S : rows[i] \in TaskRow
  BY DEF TypesInv, Opt
<1>2. \A i \in S : /\ [rows[i] EXCEPT !.state = state] \in TaskRow
                   /\ [rows[i] EXCEPT !.state = state].key = rows[i].key
                   /\ [rows[i] EXCEPT !.state = state].state = state
  BY <1>1 DEF TaskRow
<1>3. rows' = [i \in Ids |-> IF i \in S THEN [rows[i] EXCEPT !.state = state] ELSE rows[i]]
  BY DEF Ended
<1>4. rows \in [Ids -> Opt(TaskRow)]
  BY DEF TypesInv
<1> HIDE DEF TypesInv
<1> QED
  BY <1>2, <1>3, <1>4, ConstantFacts DEF RowsEvolve, Opt, Ended

LEMMA SettleRows ==
  ASSUME TypesInv, NEW i \in Ids, NEW actual \in Opt(Nat), Settle(i, actual)
  PROVE  /\ RowsEvolve
         /\ \A j \in Ids : j # i => rows'[j] = rows[j]
         /\ rows'[i].state = "settled"
         /\ rows'[i].settled = IF actual = None THEN Worst ELSE actual
         /\ rows[i].state \in {"active", "expired"}
         /\ now' = now /\ issued' = issued
<1> DEFINE value == IF actual = None THEN rows[i].amount ELSE actual
           late == (rows[i].state = "expired")
           new == [rows[i] EXCEPT !.state = "settled", !.settled = value, !.late = late]
<1>1. rows[i] \in TaskRow
  BY DEF TypesInv, Opt, Settle
<1>2. value \in Nat /\ late \in BOOLEAN
  BY <1>1, ConstantFacts DEF TaskRow, Opt
<1>3. rows' = [rows EXCEPT ![i] = new]
  BY DEF Settle
<1>4. /\ now' = now /\ issued' = issued /\ rows[i] # None /\ rows \in [Ids -> Opt(TaskRow)]
      /\ rows[i].state \in {"active", "expired"}
  BY DEF Settle, TypesInv
<1>5. value = IF actual = None THEN Worst ELSE actual
  BY <1>1 DEF TaskRow
<1> HIDE DEF value, late
<1>6. new \in TaskRow /\ new.key = rows[i].key /\ new.state = "settled" /\ new.settled = value
  BY <1>1, <1>2 DEF TaskRow, Opt
<1> HIDE DEF new
<1> QED
  BY <1>3, <1>4, <1>5, <1>6, ConstantFacts DEF RowsEvolve, Opt

\* The row of a request that has one.
LEMMA RowOfRequest ==
  ASSUME NEW r, HasRow(r)
  PROVE  RowOf(r) \in Ids /\ rows[RowOf(r)] # None /\ rows[RowOf(r)].key = r
  BY DEF HasRow, RowOf

\* LedgerInv survives a step that leaves the rows their requests, if what it
\* releases was not served and what it reserves for has a row.
LEMMA LedgerStep ==
  ASSUME TypesInv, LedgerInv, RowsEvolve, issued' = issued,
         \A i \in Ids : rows[i] # None /\ rows'[i].state = "released" =>
           /\ pc'[rows[i].key] \in {"releaseShared", "over"}
           /\ reply'[rows[i].key] \notin {"sent", "ok"},
         \A r \in Requests : pc'[r] \in Reserved \/ reply'[r] # "none" => HasRow(r)
  PROVE  LedgerInv'
<1>1. \A i \in Ids : rows'[i] # None => rows[i] # None /\ rows'[i].key = rows[i].key
  BY DEF RowsEvolve
<1>2. \A r \in Requests : HasRow(r) => HasRow(r)'
  BY DEF RowsEvolve, HasRow
<1>3. \A i \in Ids : rows'[i] # None => i <= issued'
  BY <1>1 DEF LedgerInv
<1>4. \A i, j \in Ids : rows'[i] # None /\ rows'[j] # None /\ rows'[i].key = rows'[j].key => i = j
  BY <1>1 DEF LedgerInv
<1>5. \A i \in Ids : rows'[i] # None /\ rows'[i].state = "released" =>
        pc'[rows'[i].key] \in {"releaseShared", "over"} /\ reply'[rows'[i].key] \notin {"sent", "ok"}
  BY <1>1
<1>6. \A r \in Requests : pc'[r] \in Reserved \/ reply'[r] # "none" => HasRow(r)'
  BY <1>2
<1> QED
  BY <1>3, <1>4, <1>5, <1>6 DEF LedgerInv, Reserved

-----------------------------------------------------------------------------
(* Shared holds.                                                             *)

LEMMA NewHoldType ==
  ASSUME TypesInv, NEW r \in Requests
  PROVE  NewHold(r) \in Hold /\ NewHold(r).state = "active"
  BY ConstantFacts DEF TypesInv, NewHold, Pool!HoldRow, Hold, Opt

LEMMA BookedHold ==
  ASSUME NEW h \in Hold, NEW t \in Nat
  PROVE  /\ Pool!Booked(h, t) \in Hold
         /\ Pool!Booked(h, t).state = "settled" /\ Pool!Booked(h, t).settled = Worst
  BY ConstantFacts DEF Pool!Booked, Hold, Opt

LEMMA ReleasedHold ==
  ASSUME NEW h \in Hold, NEW t \in Nat
  PROVE  Pool!Released(h, t) \in Hold /\ Pool!Released(h, t).state = "released"
  BY DEF Pool!Released, Hold, Opt

LEMMA SettledHold ==
  ASSUME NEW h \in Hold, NEW a \in Nat, NEW u \in {"known", "unknown"}, NEW t \in Nat
  PROVE  /\ Pool!Settled(h, a, u, t, None, None, None) \in Hold
         /\ Pool!Settled(h, a, u, t, None, None, None).state = "settled"
         /\ Pool!Settled(h, a, u, t, None, None, None).settled = a
<1> DEFINE lane == IF h.lane # None THEN h.lane ELSE None
           source == IF h.source # None THEN h.source ELSE None
           new == [h EXCEPT !.state = "settled", !.settled = a, !.usage = u, !.settledAt = t,
                            !.lane = lane, !.source = source, !.mark = None]
<1>1. lane = h.lane /\ source = h.source
  OBVIOUS
<1> HIDE DEF lane, source
<1>2. new \in Hold /\ new.state = "settled" /\ new.settled = a
  BY <1>1 DEF Hold, Opt
<1> QED
  BY <1>2 DEF Pool!Settled, lane, source

\* Some live holds are booked at their amount and the rest stay.
HoldsBooked ==
  /\ holds' \in [Requests -> Opt(Hold)]
  /\ \A r \in Requests : holds'[r] = holds[r] \/
       /\ holds[r] # None /\ holds[r].state = "active"
       /\ holds'[r] # None /\ holds'[r].state = "settled" /\ holds'[r].settled = Worst

LEMMA SweptHolds ==
  ASSUME TypesInv
  PROVE  /\ Swept \in [Requests -> Opt(Hold)]
         /\ \A r \in Requests : Swept[r] = holds[r] \/
              /\ holds[r] # None /\ holds[r].state = "active"
              /\ Swept[r] # None /\ Swept[r].state = "settled" /\ Swept[r].settled = Worst
<1> SUFFICES ASSUME NEW r \in Requests
             PROVE  /\ Pool!SweptRow(holds[r], now) \in Opt(Hold)
                    /\ Pool!SweptRow(holds[r], now) = holds[r] \/
                         /\ holds[r] # None /\ holds[r].state = "active"
                         /\ Pool!SweptRow(holds[r], now) # None
                         /\ Pool!SweptRow(holds[r], now).state = "settled"
                         /\ Pool!SweptRow(holds[r], now).settled = Worst
  BY DEF Swept
<1>1. holds[r] \in Opt(Hold) /\ now \in Nat
  BY DEF TypesInv
<1>2. CASE holds[r] = None
  BY <1>1, <1>2 DEF Pool!SweptRow
<1>3. CASE holds[r] # None
  <2>1. holds[r] \in Hold
    BY <1>1, <1>3 DEF Opt
  <2>2. Pool!IsGatewayHold(holds[r])
    BY <2>1 DEF Pool!IsGatewayHold, Hold
  <2>3. /\ Pool!Booked(holds[r], now) \in Hold
        /\ Pool!Booked(holds[r], now).state = "settled" /\ Pool!Booked(holds[r], now).settled = Worst
    BY <1>1, <2>1, BookedHold
  <2> QED
    BY <1>1, <1>3, <2>2, <2>3, ConstantFacts DEF Pool!SweptRow, Opt
<1> QED
  BY <1>2, <1>3

LEMMA OrphanedHolds ==
  ASSUME TypesInv, holds' = [r \in Requests |-> Orphaned(holds[r])]
  PROVE  HoldsBooked
<1> SUFFICES ASSUME NEW r \in Requests
             PROVE  /\ Orphaned(holds[r]) \in Opt(Hold)
                    /\ Orphaned(holds[r]) = holds[r] \/
                         /\ holds[r] # None /\ holds[r].state = "active"
                         /\ Orphaned(holds[r]) # None
                         /\ Orphaned(holds[r]).state = "settled"
                         /\ Orphaned(holds[r]).settled = Worst
  BY DEF HoldsBooked
<1>1. holds[r] \in Opt(Hold) /\ now \in Nat
  BY DEF TypesInv
<1>2. holds[r] # None =>
        /\ Pool!Booked(holds[r], now) \in Hold
        /\ Pool!Booked(holds[r], now).state = "settled" /\ Pool!Booked(holds[r], now).settled = Worst
  BY <1>1, BookedHold DEF Opt
<1> QED
  BY <1>1, <1>2, ConstantFacts DEF Orphaned, Opt

-----------------------------------------------------------------------------
LEMMA InvInit == GwInit => GwIInv
<1> SUFFICES ASSUME GwInit PROVE GwIInv
  OBVIOUS
<1>1. TypesInv
  BY ConstantFacts DEF GwInit, TypesInv, Labels, Opt
<1>2. LedgerInv /\ RequestInv /\ HoldsInv /\ EnforcedInv
  BY DEF GwInit, LedgerInv, RequestInv, HoldsInv, EnforcedInv, EnforcedGoesUnderHold,
         Reserved, Unsent, Pump
<1> QED
  BY <1>1, <1>2 DEF GwIInv

\* LedgerInv survives a step that writes no row.
LEMMA LedgerFrame ==
  ASSUME TypesInv, LedgerInv, rows' = rows, issued' = issued,
         \A q \in Requests : pc'[q] \in Reserved \/ reply'[q] # "none" =>
           pc[q] \in Reserved \/ reply[q] # "none",
         \A q \in Requests :
           pc[q] \in {"releaseShared", "over"} /\ reply[q] \notin {"sent", "ok"} =>
             pc'[q] \in {"releaseShared", "over"} /\ reply'[q] \notin {"sent", "ok"}
  PROVE  LedgerInv'
<1>1. RowsEvolve
  BY DEF RowsEvolve, TypesInv
<1>2. \A i \in Ids : rows[i] # None => rows[i].key \in Requests
  BY DEF TypesInv, TaskRow, Opt
<1> QED
  BY <1>1, <1>2, LedgerStep DEF LedgerInv

(* One lemma per action.                                                     *)

LEMMA GwTickStep ==
  ASSUME GwIInv, GwTick
  PROVE  GwIInv'
  BY DEF GwTick, Tick, GwIInv, TypesInv, LedgerInv, RequestInv, HoldsInv, EnforcedInv,
         EnforcedGoesUnderHold, HasRow, Taps, Unsent, Reserved, Labels, Handler, Pump,
         task, process, wire, request

LEMMA EditFileStep ==
  ASSUME GwIInv, NEW f \in Files, EditFile(f)
  PROVE  GwIInv'
  BY DEF EditFile, GwIInv, TypesInv, LedgerInv, RequestInv, HoldsInv, EnforcedInv,
         EnforcedGoesUnderHold, HasRow, Taps, Unsent, Reserved, Labels, Handler, Pump,
         task, process, wire, request

LEMMA CrashStep ==
  ASSUME GwIInv, Crash
  PROVE  GwIInv'
<1> USE DEF GwIInv
<1>1. TypesInv'
  BY DEF Crash, TypesInv, Labels, Handler, Pump, Opt, task, process, wire,
     request
<1>2. LedgerInv'
  <2>1. rows' = rows /\ issued' = issued
    BY DEF Crash, task, process, wire, request
  <2>2. \A q \in Requests : pc'[q] \in Reserved \/ reply'[q] # "none" =>
          pc[q] \in Reserved \/ reply[q] # "none"
    BY DEF Crash, TypesInv, Reserved, Pump, task, process, wire, request
  <2>3. \A q \in Requests :
          pc[q] \in {"releaseShared", "over"} /\ reply[q] \notin {"sent", "ok"} =>
            pc'[q] \in {"releaseShared", "over"} /\ reply'[q] \notin {"sent", "ok"}
    BY DEF Crash, TypesInv, Handler, Pump, task, process, wire, request
  <2> QED
    BY <2>1, <2>2, <2>3, LedgerFrame
<1>3. RequestInv'
  <2>1. \A q \in Requests : pc'[q] \in {"idle", "over"} /\ (pc'[q] = pc[q] \/ pc'[q] = "over")
    BY DEF Crash, TypesInv, Labels
  <2>2. reply' = reply /\ bill' = bill /\ holds' = holds /\ held' = {}
    BY DEF Crash
  <2> QED
    BY <2>1, <2>2 DEF RequestInv, Unsent, Pump
<1>4. HoldsInv'
  BY DEF Crash, TypesInv, HoldsInv, task, process, wire, request
<1>5. EnforcedInv'
  BY DEF Crash, TypesInv, EnforcedInv, EnforcedGoesUnderHold, Pump, task, process,
     wire, request
<1> QED
  BY <1>1, <1>2, <1>3, <1>4, <1>5

LEMMA ArriveStep ==
  ASSUME GwIInv, NEW r \in Requests, Arrive(r)
  PROVE  GwIInv'
<1> USE DEF GwIInv
<1>1. TypesInv'
  BY DEF Arrive, At, Goto, Leave, TypesInv, Labels, Handler, Pump, Opt, task, process,
     wire, request
<1>2. LedgerInv'
  <2>1. rows' = rows /\ issued' = issued
    BY DEF Arrive, At, Goto, Leave, task, process, wire, request
  <2>2. \A q \in Requests : pc'[q] \in Reserved \/ reply'[q] # "none" =>
          pc[q] \in Reserved \/ reply[q] # "none"
    BY DEF Arrive, At, Goto, Leave, TypesInv, Reserved, Pump, task, process,
       wire, request
  <2>3. \A q \in Requests :
          pc[q] \in {"releaseShared", "over"} /\ reply[q] \notin {"sent", "ok"} =>
            pc'[q] \in {"releaseShared", "over"} /\ reply'[q] \notin {"sent", "ok"}
    BY DEF Arrive, At, Goto, Leave, TypesInv, Handler, Pump, task, process,
       wire, request
  <2> QED
    BY <2>1, <2>2, <2>3, LedgerFrame
<1>3. RequestInv'
  BY DEF Arrive, At, Goto, Leave, TypesInv, RequestInv, Taps, Unsent, Pump, task,
     process, wire, request
<1>4. HoldsInv'
  BY DEF Arrive, At, Goto, Leave, TypesInv, HoldsInv, task, process, wire,
     request
<1>5. EnforcedInv'
  BY DEF Arrive, At, Goto, Leave, TypesInv, EnforcedInv, EnforcedGoesUnderHold, Pump,
     task, process, wire, request
<1> QED
  BY <1>1, <1>2, <1>3, <1>4, <1>5

LEMMA AskModeStep ==
  ASSUME GwIInv, NEW r \in Requests, AskMode(r)
  PROVE  GwIInv'
<1> USE DEF GwIInv
<1>1. TypesInv'
  BY DEF AskMode, SharedMode, At, Goto, Leave, TypesInv, Labels, Handler, Pump, Opt,
     task, process, wire, request
<1>2. LedgerInv'
  <2>1. rows' = rows /\ issued' = issued
    BY DEF AskMode, SharedMode, At, Goto, Leave, task, process, wire,
       request
  <2>2. \A q \in Requests : pc'[q] \in Reserved \/ reply'[q] # "none" =>
          pc[q] \in Reserved \/ reply[q] # "none"
    BY DEF AskMode, SharedMode, At, Goto, Leave, TypesInv, Reserved, Pump, task,
       process, wire, request
  <2>3. \A q \in Requests :
          pc[q] \in {"releaseShared", "over"} /\ reply[q] \notin {"sent", "ok"} =>
            pc'[q] \in {"releaseShared", "over"} /\ reply'[q] \notin {"sent", "ok"}
    BY DEF AskMode, SharedMode, At, Goto, Leave, TypesInv, Handler, Pump, task, process,
       wire, request
  <2> QED
    BY <2>1, <2>2, <2>3, LedgerFrame
<1>3. RequestInv'
  BY DEF AskMode, SharedMode, At, Goto, Leave, TypesInv, RequestInv, Taps, Unsent, Pump,
     task, process, wire, request
<1>4. HoldsInv'
  BY DEF AskMode, SharedMode, At, Goto, Leave, TypesInv, HoldsInv, task, process,
     wire, request
<1>5. EnforcedInv'
  <2>1. enforced' # {} => enforcedSeen'
    BY DEF AskMode, SharedMode, At, Goto, Leave, EnforcedInv, task, process,
       wire, request
  <2>2. ~up' => enforced' = {}
    BY DEF AskMode, SharedMode, At, Goto, Leave, EnforcedInv, task, process,
       wire, request
  <2>3. EnforcedGoesUnderHold'
    BY DEF AskMode, SharedMode, At, Goto, Leave, TypesInv, EnforcedInv,
       EnforcedGoesUnderHold, Pump, task, process, wire, request
  <2> QED
    BY <2>1, <2>2, <2>3 DEF EnforcedInv
<1> QED
  BY <1>1, <1>2, <1>3, <1>4, <1>5

LEMMA SendStep ==
  ASSUME GwIInv, NEW r \in Requests, Send(r)
  PROVE  GwIInv'
<1> USE DEF GwIInv
<1>1. TypesInv'
  BY DEF Send, At, Goto, TypesInv, Labels, Handler, Pump, Opt, task, process,
     wire, request
<1>2. LedgerInv'
  BY DEF Send, At, Goto, TypesInv, LedgerInv, HasRow, Reserved, Pump, task, process,
     wire, request
<1>3. RequestInv'
  BY DEF Send, At, Goto, TypesInv, RequestInv, Taps, Unsent, Pump, task, process,
     wire, request
<1>4. HoldsInv'
  BY DEF Send, At, Goto, TypesInv, HoldsInv, RequestInv, Unsent, task, process,
     wire, request
<1>5. EnforcedInv'
  BY DEF Send, At, Goto, TypesInv, EnforcedInv, EnforcedGoesUnderHold, Pump, task,
     process, wire, request
<1> QED
  BY <1>1, <1>2, <1>3, <1>4, <1>5

LEMMA ServeStep ==
  ASSUME GwIInv, NEW r \in Requests, NEW cost \in Costs, Serve(r, cost)
  PROVE  GwIInv'
<1> USE DEF GwIInv
<1>1. TypesInv'
  BY ConstantFacts DEF Serve, TypesInv, task, process, wire, request
<1>2. LedgerInv'
  BY DEF Serve, TypesInv, LedgerInv, HasRow, Reserved, Pump, task, process,
     wire, request
<1>3. RequestInv'
  BY DEF Serve, TypesInv, RequestInv, Taps, Unsent, Pump, task, process,
     wire, request
<1>4. HoldsInv'
  BY DEF Serve, TypesInv, HoldsInv, task, process, wire, request
<1>5. EnforcedInv'
  BY DEF Serve, TypesInv, EnforcedInv, EnforcedGoesUnderHold, Pump, task, process,
     wire, request
<1> QED
  BY <1>1, <1>2, <1>3, <1>4, <1>5

LEMMA RejectStep ==
  ASSUME GwIInv, NEW r \in Requests, NEW status \in {"unauthorized", "error"}, Reject(r, status)
  PROVE  GwIInv'
<1> USE DEF GwIInv
<1>1. TypesInv'
  BY DEF Reject, TypesInv, Labels, Handler, Pump, Opt, task, process, wire,
     request
<1>2. LedgerInv'
  BY DEF Reject, TypesInv, LedgerInv, HasRow, Reserved, Pump, task, process,
     wire, request
<1>3. RequestInv'
  BY DEF Reject, TypesInv, RequestInv, Taps, Unsent, Pump, task, process,
     wire, request
<1>4. HoldsInv'
  BY DEF Reject, TypesInv, HoldsInv, task, process, wire, request
<1>5. EnforcedInv'
  BY DEF Reject, TypesInv, EnforcedInv, EnforcedGoesUnderHold, Pump, task, process,
     wire, request
<1> QED
  BY <1>1, <1>2, <1>3, <1>4, <1>5

LEMMA FailStep ==
  ASSUME GwIInv, NEW r \in Requests, Fail(r)
  PROVE  GwIInv'
<1> USE DEF GwIInv
<1>1. TypesInv'
  BY DEF Fail, At, Goto, TypesInv, Labels, Handler, Pump, Opt, task, process,
     wire, request
<1>2. LedgerInv'
  BY DEF Fail, At, Goto, TypesInv, LedgerInv, HasRow, Reserved, Pump, task, process,
     wire, request
<1>3. RequestInv'
  BY DEF Fail, At, Goto, TypesInv, RequestInv, Taps, Unsent, Pump, task, process,
     wire, request
<1>4. HoldsInv'
  BY DEF Fail, At, Goto, TypesInv, HoldsInv, task, process, wire, request
<1>5. EnforcedInv'
  BY DEF Fail, At, Goto, TypesInv, EnforcedInv, EnforcedGoesUnderHold, Pump, task,
     process, wire, request
<1> QED
  BY <1>1, <1>2, <1>3, <1>4, <1>5

LEMMA ReceiveStep ==
  ASSUME GwIInv, NEW r \in Requests, Receive(r)
  PROVE  GwIInv'
<1> USE DEF GwIInv
<1>1. TypesInv'
  BY DEF Receive, At, Goto, Leave, TypesInv, Labels, Handler, Pump, Opt, task, process,
     wire, request
<1>2. LedgerInv'
  <2>1. rows' = rows /\ issued' = issued
    BY DEF Receive, At, Goto, Leave, task, process, wire, request
  <2>2. \A q \in Requests : pc'[q] \in Reserved \/ reply'[q] # "none" =>
          pc[q] \in Reserved \/ reply[q] # "none"
    BY DEF Receive, At, Goto, Leave, TypesInv, Reserved, Pump, task, process,
       wire, request
  <2>3. \A q \in Requests :
          pc[q] \in {"releaseShared", "over"} /\ reply[q] \notin {"sent", "ok"} =>
            pc'[q] \in {"releaseShared", "over"} /\ reply'[q] \notin {"sent", "ok"}
    BY DEF Receive, At, Goto, Leave, TypesInv, Handler, Pump, task, process,
       wire, request
  <2> QED
    BY <2>1, <2>2, <2>3, LedgerFrame
<1>3. RequestInv'
  BY DEF Receive, At, Goto, Leave, TypesInv, RequestInv, Taps, Unsent, Pump, task,
     process, wire, request
<1>4. HoldsInv'
  BY DEF Receive, At, Goto, Leave, TypesInv, HoldsInv, task, process, wire,
     request
<1>5. EnforcedInv'
  <2>1. enforced' # {} => enforcedSeen'
    BY DEF Receive, At, Goto, Leave, EnforcedInv, task, process, wire,
       request
  <2>2. ~up' => enforced' = {}
    BY DEF Receive, At, Goto, Leave, EnforcedInv, task, process, wire,
       request
  <2>3. EnforcedGoesUnderHold'
    BY DEF Receive, At, Goto, Leave, TypesInv, EnforcedInv, EnforcedGoesUnderHold, Pump,
       task, process, wire, request
  <2> QED
    BY <2>1, <2>2, <2>3 DEF EnforcedInv
<1> QED
  BY <1>1, <1>2, <1>3, <1>4, <1>5

LEMMA RefreshStep ==
  ASSUME GwIInv, NEW r \in Requests, Refresh(r)
  PROVE  GwIInv'
<1> USE DEF GwIInv
<1>1. TypesInv'
  BY DEF Refresh, At, Goto, TypesInv, Labels, Handler, Pump, Opt, task, process,
     wire, request
<1>2. LedgerInv'
  <2>1. rows' = rows /\ issued' = issued
    BY DEF Refresh, At, Goto, task, process, wire, request
  <2>2. \A q \in Requests : pc'[q] \in Reserved \/ reply'[q] # "none" =>
          pc[q] \in Reserved \/ reply[q] # "none"
    BY DEF Refresh, At, Goto, TypesInv, Reserved, Pump, task, process, wire,
       request
  <2>3. \A q \in Requests :
          pc[q] \in {"releaseShared", "over"} /\ reply[q] \notin {"sent", "ok"} =>
            pc'[q] \in {"releaseShared", "over"} /\ reply'[q] \notin {"sent", "ok"}
    BY DEF Refresh, At, Goto, TypesInv, Handler, Pump, task, process, wire,
       request
  <2> QED
    BY <2>1, <2>2, <2>3, LedgerFrame
<1>3. RequestInv'
  BY DEF Refresh, At, Goto, TypesInv, RequestInv, Taps, Unsent, Pump, task, process,
     wire, request
<1>4. HoldsInv'
  BY DEF Refresh, At, Goto, TypesInv, HoldsInv, task, process, wire, request
<1>5. EnforcedInv'
  <2>1. enforced' # {} => enforcedSeen'
    BY DEF Refresh, At, Goto, EnforcedInv, task, process, wire, request
  <2>2. ~up' => enforced' = {}
    BY DEF Refresh, At, Goto, EnforcedInv, task, process, wire, request
  <2>3. EnforcedGoesUnderHold'
    BY DEF Refresh, At, Goto, TypesInv, EnforcedInv, EnforcedGoesUnderHold, Pump, task,
       process, wire, request
  <2> QED
    BY <2>1, <2>2, <2>3 DEF EnforcedInv
<1> QED
  BY <1>1, <1>2, <1>3, <1>4, <1>5

LEMMA CancelStep ==
  ASSUME GwIInv, NEW r \in Requests, Cancel(r)
  PROVE  GwIInv'
<1> USE DEF GwIInv
<1>1. TypesInv'
  BY DEF Cancel, Leave, TypesInv, Labels, Handler, Pump, Opt, task, process,
     wire, request
<1>2. LedgerInv'
  BY DEF Cancel, Leave, TypesInv, LedgerInv, HasRow, Reserved, Pump, task, process,
     wire, request
<1>3. RequestInv'
  BY DEF Cancel, Leave, TypesInv, RequestInv, Taps, Unsent, Pump, task, process,
     wire, request
<1>4. HoldsInv'
  BY DEF Cancel, Leave, TypesInv, HoldsInv, task, process, wire, request
<1>5. EnforcedInv'
  BY DEF Cancel, Leave, TypesInv, EnforcedInv, EnforcedGoesUnderHold, Pump, task,
     process, wire, request
<1> QED
  BY <1>1, <1>2, <1>3, <1>4, <1>5

LEMMA EndStreamStep ==
  ASSUME GwIInv, NEW r \in Requests, EndStream(r)
  PROVE  GwIInv'
<1> USE DEF GwIInv
<1>1. TypesInv'
  <2>1. \A tap \in Taps(r) : tap \in [end: {"clean", "cut", "blank"}, seen: Nat]
    BY ConstantFacts DEF Taps, TypesInv
  <2> QED
    BY <2>1 DEF EndStream, At, Goto, TypesInv, Labels, Handler, Pump, Opt, task,
       process, wire
<1>2. LedgerInv'
  BY DEF EndStream, At, Goto, TypesInv, LedgerInv, HasRow, Reserved, Pump, task,
     process, wire, request
<1>3. RequestInv'
  BY DEF EndStream, At, Goto, TypesInv, RequestInv, Taps, Unsent, Pump, task, process,
     wire, request
<1>4. HoldsInv'
  BY DEF EndStream, At, Goto, TypesInv, HoldsInv, task, process, wire,
     request
<1>5. EnforcedInv'
  BY DEF EndStream, At, Goto, TypesInv, EnforcedInv, EnforcedGoesUnderHold, Pump, task,
     process, wire, request
<1> QED
  BY <1>1, <1>2, <1>3, <1>4, <1>5

\* LedgerInv survives the sweep of stale task rows.
LEMMA StaleRows ==
  ASSUME TypesInv, LedgerInv, ExpireStaleReservations, pc' = pc, reply' = reply
  PROVE  RowsEvolve /\ now' = now /\ issued' = issued /\ LedgerInv'
<1>1. Stale \in SUBSET Ids /\ \A i \in Stale : rows[i] # None
  BY DEF Stale
<1>2. Ended(Stale, "expired")
  BY DEF ExpireStaleReservations
<1>3. /\ RowsEvolve
      /\ \A i \in Ids : i \notin Stale => rows'[i] = rows[i]
      /\ \A i \in Stale : rows'[i].state = "expired"
      /\ now' = now /\ issued' = issued
  <2> DEFINE S == Stale
  <2>1. S \in SUBSET Ids /\ (\A i \in S : rows[i] # None) /\ Ended(S, "expired")
    BY <1>1, <1>2
  <2> HIDE DEF S
  <2>2. /\ RowsEvolve
        /\ \A i \in Ids : i \notin S => rows'[i] = rows[i]
        /\ \A i \in S : rows'[i].state = "expired"
        /\ now' = now /\ issued' = issued
    BY <2>1, EndedRows
  <2> QED
    BY <2>2 DEF S
<1>4. \A i \in Ids : rows[i] # None /\ rows'[i].state = "released" =>
        pc'[rows[i].key] \in {"releaseShared", "over"} /\ reply'[rows[i].key] \notin {"sent", "ok"}
  BY <1>3 DEF LedgerInv
<1>5. \A q \in Requests : pc'[q] \in Reserved \/ reply'[q] # "none" => HasRow(q)
  BY DEF LedgerInv
<1> QED
  BY <1>3, <1>4, <1>5, LedgerStep

\* Each hold stays, or is live, or is booked at its whole amount.
HoldsMove ==
  \A q \in Requests : holds'[q] = holds[q] \/
    /\ holds'[q] # None
    /\ holds'[q].state = "active" \/ (holds'[q].state = "settled" /\ holds'[q].settled = Worst)

LEMMA HoldsStep ==
  ASSUME HoldsInv, HoldsMove, reply' = reply, bill' = bill,
         \A q \in Requests : pc[q] \in {"settleTask", "over"} => pc'[q] = pc[q]
  PROVE  HoldsInv' /\ \A q \in Requests : holds[q] # None => holds'[q] # None
  BY ConstantFacts DEF HoldsInv, HoldsMove

LEMMA StartStep ==
  ASSUME GwIInv, Start
  PROVE  GwIInv'
<1> USE DEF GwIInv
<1>1. pc' = pc /\ reply' = reply /\ bill' = bill /\ held' = held /\ tapped' = tapped
      /\ enforced' = enforced /\ boot' = boot + 1
  BY DEF Start, wire, request
<1>2. /\ rows' \in [Ids -> Opt(TaskRow)] /\ now' = now /\ issued' = issued
      /\ LedgerInv'
  <2>1. CASE ExpireStaleReservations
    BY <1>1, <2>1, StaleRows DEF RowsEvolve
  <2>2. CASE UNCHANGED task
    BY <1>1, <2>2, LedgerFrame DEF task, TypesInv
  <2> QED
    BY <2>1, <2>2 DEF Start
<1>3. holds' \in [Requests -> Opt(Hold)] /\ HoldsMove
  <2>1. CASE holds' = holds
    BY <2>1 DEF HoldsMove, TypesInv
  <2>2. CASE holds' = [r \in Requests |-> Orphaned(holds[r])]
    BY <2>2, OrphanedHolds DEF HoldsMove, HoldsBooked
  <2> QED
    BY <2>1, <2>2 DEF Start
<1>4. TypesInv'
  BY <1>1, <1>2, <1>3 DEF TypesInv
<1>5. HoldsInv' /\ \A q \in Requests : holds[q] # None => holds'[q] # None
  BY <1>1, <1>3, HoldsStep
<1>6. RequestInv'
  BY <1>1, <1>5 DEF RequestInv, Taps
<1>7. EnforcedInv'
  BY <1>1 DEF Start, EnforcedInv, EnforcedGoesUnderHold
<1> QED
  BY <1>2, <1>4, <1>5, <1>6, <1>7

LEMMA ReconcileStep ==
  ASSUME GwIInv, Reconcile
  PROVE  GwIInv'
<1> USE DEF GwIInv
<1>1. /\ pc' = pc /\ reply' = reply /\ bill' = bill /\ held' = held /\ tapped' = tapped
      /\ enforced' = enforced /\ boot' = boot /\ up' = up /\ enforcedSeen' = enforcedSeen
      /\ holds' = holds
  BY DEF Reconcile, process, wire, request
<1>2. RowsEvolve /\ now' = now /\ issued' = issued /\ LedgerInv'
  <2>1. CASE ExpireStaleReservations
    BY <1>1, <2>1, StaleRows
  <2>2. ASSUME NEW plan \in Plans, ReleaseActiveForPlan(Task, plan)
        PROVE  RowsEvolve /\ now' = now /\ issued' = issued /\ LedgerInv'
    <3>1. {i \in Of(Task, "active") : rows[i].plan = plan} = {}
      BY ConstantFacts DEF Of, TypesInv, Opt, TaskRow
    <3>2. Ended({}, "released")
      BY <2>2, <3>1 DEF ReleaseActiveForPlan
    <3>3. RowsEvolve /\ now' = now /\ issued' = issued /\ \A i \in Ids : rows'[i] = rows[i]
      <4> DEFINE S == {}
      <4>1. S \in SUBSET Ids /\ (\A i \in S : rows[i] # None) /\ Ended(S, "released")
        BY <3>2
      <4> HIDE DEF S
      <4>2. /\ RowsEvolve /\ now' = now /\ issued' = issued
            /\ \A i \in Ids : i \notin S => rows'[i] = rows[i]
        BY <4>1, EndedRows
      <4> QED
        BY <4>2 DEF S
    <3>4. rows' = rows
      BY <3>3 DEF RowsEvolve, TypesInv
    <3> QED
      BY <1>1, <3>3, <3>4, LedgerFrame
  <2> QED
    BY <2>1, <2>2 DEF Reconcile
<1>3. TypesInv'
  BY <1>1, <1>2 DEF TypesInv, RowsEvolve
<1>4. RequestInv' /\ HoldsInv' /\ EnforcedInv'
  BY <1>1 DEF RequestInv, HoldsInv, EnforcedInv, EnforcedGoesUnderHold, Taps
<1> QED
  BY <1>2, <1>3, <1>4

LEMMA SweepStep ==
  ASSUME GwIInv, Sweep
  PROVE  GwIInv'
<1> USE DEF GwIInv
<1>1. /\ pc' = pc /\ reply' = reply /\ bill' = bill /\ held' = held /\ tapped' = tapped
      /\ enforced' = enforced /\ boot' = boot /\ up' = up /\ enforcedSeen' = enforcedSeen
      /\ rows' = rows /\ issued' = issued /\ now' = now
  BY DEF Sweep, task, process, wire, request
<1>2. holds' \in [Requests -> Opt(Hold)] /\ HoldsMove
  BY SweptHolds DEF Sweep, HoldsMove
<1>3. HoldsInv' /\ \A q \in Requests : holds[q] # None => holds'[q] # None
  BY <1>1, <1>2, HoldsStep
<1>4. TypesInv'
  BY <1>1, <1>2 DEF TypesInv
<1>5. LedgerInv'
  BY <1>1, LedgerFrame
<1>6. RequestInv' /\ EnforcedInv'
  BY <1>1, <1>3 DEF TypesInv, RequestInv, EnforcedInv, EnforcedGoesUnderHold, Taps
<1> QED
  BY <1>3, <1>4, <1>5, <1>6

LEMMA RenewStep ==
  ASSUME GwIInv, NEW r \in Requests, Renew(r)
  PROVE  GwIInv'
<1> USE DEF GwIInv
<1>1. /\ pc' = pc /\ reply' = reply /\ bill' = bill /\ held' = held /\ tapped' = tapped
      /\ enforced' = enforced /\ boot' = boot /\ up' = up /\ enforcedSeen' = enforcedSeen
      /\ rows' = rows /\ issued' = issued /\ now' = now
  BY DEF Renew, task, process, wire, request
<1>2. holds' \in [Requests -> Opt(Hold)] /\ HoldsMove
  <2> DEFINE new == [holds[r] EXCEPT !.expiresAt = now + TTL]
  <2>1. holds[r] \in Hold /\ holds[r].state = "active"
    BY DEF Renew, RequestInv, TypesInv, Opt
  <2>2. new \in Hold /\ new.state = "active"
    BY <2>1, ConstantFacts DEF Hold, TypesInv
  <2>3. holds' = [holds EXCEPT ![r] = new]
    BY DEF Renew
  <2> HIDE DEF new
  <2> QED
    BY <2>2, <2>3, ConstantFacts DEF TypesInv, HoldsMove, Opt
<1>3. HoldsInv' /\ \A q \in Requests : holds[q] # None => holds'[q] # None
  BY <1>1, <1>2, HoldsStep
<1>4. TypesInv'
  BY <1>1, <1>2 DEF TypesInv
<1>5. LedgerInv'
  BY <1>1, LedgerFrame
<1>6. RequestInv' /\ EnforcedInv'
  BY <1>1, <1>3 DEF TypesInv, RequestInv, EnforcedInv, EnforcedGoesUnderHold, Taps
<1> QED
  BY <1>3, <1>4, <1>5, <1>6

LEMMA AuthorizeStep ==
  ASSUME GwIInv, NEW r \in Requests, Authorize(r)
  PROVE  GwIInv'
<1> USE DEF GwIInv
<1>1. /\ reply' = reply /\ bill' = bill /\ held' = held /\ tapped' = tapped
      /\ enforced' = enforced /\ boot' = boot /\ up' = up /\ enforcedSeen' = enforcedSeen
      /\ holds' = holds /\ pc[r] = "authorize"
  BY DEF Authorize, At, process, wire
<1>2. /\ pc' \in [Requests -> Labels]
      /\ \A q \in Requests : q # r => pc'[q] = pc[q]
      /\ pc'[r] \in {"shared", "send", "over"}
      /\ pc'[r] = "send" => r \notin enforced
  BY DEF Authorize, Goto, Leave, TypesInv, Labels, Handler
<1>3. /\ rows' \in [Ids -> Opt(TaskRow)] /\ now' = now /\ issued' \in Nat
      /\ LedgerInv'
  <2>1. CASE Reserve(Task, RequestPlan, "optional", Worst, r, TTL)
    <3> DEFINE n == issued + 1
               new == [task |-> Task, plan |-> None, key |-> r, amount |-> Worst,
                       drawn |-> 0, state |-> "active", settled |-> None,
                       expiresAt |-> now + TTL, late |-> FALSE]
    <3>1. new \in TaskRow /\ new.key = r /\ new.state = "active"
      BY NewTaskRow
    <3>2. rows' = [rows EXCEPT ![n] = new] /\ issued' = n /\ issued < MaxRows /\ now' = now
      BY <2>1 DEF Reserve, RequestPlan, DrawOf
    <3>3. n \in Ids /\ n \in Nat /\ rows[n] = None
      BY <3>2, ConstantFacts DEF TypesInv, LedgerInv, Ids
    <3>4. \A i \in Ids : rows[i] # None => rows[i].key # r
      BY <2>1 DEF Reserve, TypesInv, Opt, TaskRow
    <3> HIDE DEF new
    <3>5. rows' \in [Ids -> Opt(TaskRow)]
      BY <3>1, <3>2, <3>3 DEF TypesInv, Opt
    <3>6. /\ rows'[n] = new /\ new # None
          /\ \A i \in Ids : i # n => rows'[i] = rows[i]
      BY <3>1, <3>2, <3>3, ConstantFacts DEF TypesInv
    <3>7. \A i \in Ids : rows'[i] # None => i <= issued'
      BY <3>2, <3>3, <3>6 DEF TypesInv, LedgerInv, Ids
    <3>8. \A i, j \in Ids :
            rows'[i] # None /\ rows'[j] # None /\ rows'[i].key = rows'[j].key => i = j
      BY <3>1, <3>4, <3>6 DEF LedgerInv
    <3>9. \A i \in Ids : rows'[i] # None /\ rows'[i].state = "released" =>
            /\ pc'[rows'[i].key] \in {"releaseShared", "over"}
            /\ reply'[rows'[i].key] \notin {"sent", "ok"}
      <4> SUFFICES ASSUME NEW i \in Ids, rows'[i] # None, rows'[i].state = "released"
                   PROVE  /\ pc'[rows'[i].key] \in {"releaseShared", "over"}
                          /\ reply'[rows'[i].key] \notin {"sent", "ok"}
        OBVIOUS
      <4>1. rows'[i] = rows[i]
        BY <3>1, <3>6
      <4>2. rows[i].key \in Requests /\ rows[i].key # r
        BY <4>1, <3>4 DEF TypesInv, Opt, TaskRow
      <4> QED
        BY <4>1, <4>2, <1>1, <1>2 DEF LedgerInv
    <3>10. \A q \in Requests : pc'[q] \in Reserved \/ reply'[q] # "none" => HasRow(q)'
      <4>1. HasRow(r)'
        BY <3>1, <3>3, <3>6 DEF HasRow
      <4>2. \A q \in Requests : HasRow(q) => HasRow(q)'
        BY <3>3, <3>6 DEF HasRow
      <4> QED
        BY <4>1, <4>2, <1>1, <1>2 DEF LedgerInv
    <3> QED
      BY <3>2, <3>3, <3>5, <3>7, <3>8, <3>9, <3>10 DEF LedgerInv, Reserved
  <2>2. CASE pc'[r] = "over" /\ UNCHANGED task
    <3>1. rows' = rows /\ issued' = issued /\ now' = now
      BY <2>2 DEF task
    <3>2. \A q \in Requests : pc'[q] \in Reserved \/ reply'[q] # "none" =>
            pc[q] \in Reserved \/ reply[q] # "none"
      BY <1>1, <1>2, <2>2 DEF Reserved, Pump
    <3>3. \A q \in Requests : pc[q] \in {"releaseShared", "over"} => pc'[q] = pc[q]
      BY <1>1, <1>2
    <3> QED
      BY <1>1, <3>1, <3>2, <3>3, LedgerFrame DEF TypesInv
  <2> QED
    BY <2>1, <2>2 DEF Authorize, Leave, TypesInv
<1>4. TypesInv'
  BY <1>1, <1>2, <1>3 DEF TypesInv
<1>5. RequestInv'
  BY <1>1, <1>2 DEF RequestInv, Taps, Unsent, Pump
<1>6. HoldsInv'
  BY <1>1, <1>2 DEF HoldsInv
<1>7. EnforcedInv'
  BY <1>1, <1>2 DEF TypesInv, EnforcedInv, EnforcedGoesUnderHold, Pump
<1> QED
  BY <1>3, <1>4, <1>5, <1>6, <1>7

LEMMA SharedReserveStep ==
  ASSUME GwIInv, NEW r \in Requests, SharedReserve(r)
  PROVE  GwIInv'
<1> USE DEF GwIInv
<1>1. /\ reply' = reply /\ bill' = bill /\ tapped' = tapped /\ enforced' = enforced
      /\ boot' = boot /\ up' = up /\ enforcedSeen' = enforcedSeen /\ pc[r] = "shared"
      /\ rows' = rows /\ issued' = issued /\ now' = now
  BY DEF SharedReserve, At, task, process, wire
<1>2. /\ pc' \in [Requests -> Labels]
      /\ \A q \in Requests : q # r => pc'[q] = pc[q]
      /\ pc'[r] \in {"send", "releaseTask"}
  BY DEF SharedReserve, SharedGranted, SharedRefused, SharedOff, Goto, TypesInv, Labels,
     Handler
<1>3. \/ holds' = holds
      \/ holds' = Swept
      \/ holds' = [Swept EXCEPT ![r] = NewHold(r)]
  BY DEF SharedReserve, SharedGranted, SharedRefused, SharedOff
<1>4. /\ Swept \in [Requests -> Opt(Hold)]
      /\ \A q \in Requests : Swept[q] = holds[q] \/
           /\ Swept[q] # None /\ Swept[q].state = "settled" /\ Swept[q].settled = Worst
  BY SweptHolds
<1>5. NewHold(r) \in Hold /\ NewHold(r) # None /\ NewHold(r).state = "active"
  BY NewHoldType, ConstantFacts
<1> HIDE DEF Swept, NewHold
<1>6. holds' \in [Requests -> Opt(Hold)] /\ HoldsMove
  <2>1. CASE holds' = holds
    BY <2>1 DEF HoldsMove, TypesInv
  <2>2. CASE holds' = Swept
    BY <2>2, <1>4 DEF HoldsMove
  <2>3. CASE holds' = [Swept EXCEPT ![r] = NewHold(r)]
    BY <2>3, <1>4, <1>5 DEF HoldsMove, Opt
  <2> QED
    BY <1>3, <2>1, <2>2, <2>3
<1>7. HoldsInv' /\ \A q \in Requests : holds[q] # None => holds'[q] # None
  BY <1>1, <1>2, <1>6, HoldsStep
<1>8. \/ held' = held
      \/ held' = held \cup {r} /\ holds' = [Swept EXCEPT ![r] = NewHold(r)]
  BY DEF SharedReserve, SharedGranted, SharedRefused, SharedOff
<1>9. \A q \in Requests : q \in held' => holds'[q] # None
  BY <1>4, <1>5, <1>7, <1>8 DEF RequestInv
<1>10. TypesInv'
  BY <1>1, <1>2, <1>6 DEF TypesInv
<1>11. LedgerInv'
  <2>1. \A q \in Requests : pc'[q] \in Reserved \/ reply'[q] # "none" =>
          pc[q] \in Reserved \/ reply[q] # "none"
    BY <1>1, <1>2 DEF Reserved
  <2>2. \A q \in Requests : pc[q] \in {"releaseShared", "over"} => pc'[q] = pc[q]
    BY <1>1, <1>2
  <2> QED
    BY <1>1, <2>1, <2>2, LedgerFrame
<1>12. RequestInv'
  BY <1>1, <1>2, <1>8, <1>9 DEF RequestInv, Taps, Unsent, Pump
<1>13. EnforcedInv'
  <2>1. r \in enforced /\ pc'[r] = "send" => holds'[r] # None
    <3>1. CASE SharedGranted(r)
      BY <3>1, <1>4, <1>5 DEF SharedGranted
    <3>2. CASE SharedRefused(r)
      BY <3>2 DEF SharedRefused, Goto, TypesInv
    <3>3. CASE SharedOff(r)
      BY <3>3 DEF SharedOff, StandsDown, Goto, TypesInv, EnforcedInv
    <3> QED
      BY <3>1, <3>2, <3>3 DEF SharedReserve
  <2> QED
    BY <1>1, <1>2, <1>7, <2>1 DEF TypesInv, EnforcedInv, EnforcedGoesUnderHold, Pump
<1> QED
  BY <1>7, <1>10, <1>11, <1>12, <1>13

LEMMA ReleaseTaskStep ==
  ASSUME GwIInv, NEW r \in Requests, ReleaseTask(r)
  PROVE  GwIInv'
<1> USE DEF GwIInv
<1>1. /\ reply' = reply /\ bill' = bill /\ tapped' = tapped /\ enforced' = enforced
      /\ boot' = boot /\ up' = up /\ enforcedSeen' = enforcedSeen /\ held' = held
      /\ holds' = holds /\ pc[r] = "releaseTask"
  BY DEF ReleaseTask, At, process, wire
<1>2. /\ pc' \in [Requests -> Labels]
      /\ \A q \in Requests : q # r => pc'[q] = pc[q]
      /\ pc'[r] \in {"releaseShared", "over"}
      /\ pc'[r] = "releaseShared" => r \in held
  BY DEF ReleaseTask, Goto, Leave, TypesInv, Labels, Handler
<1>3. reply[r] \notin {"sent", "ok"} /\ HasRow(r)
  BY <1>1 DEF RequestInv, LedgerInv, Unsent, Reserved
<1>4. \A q \in Requests : pc'[q] \in Reserved \/ reply'[q] # "none" =>
        pc[q] \in Reserved \/ reply[q] # "none"
  BY <1>1, <1>2 DEF Reserved
<1>5. RowsEvolve /\ now' = now /\ issued' = issued /\ LedgerInv'
  <2>1. CASE Release(RowOf(r))
    <3> DEFINE i == RowOf(r)
               S == {i}
    <3>1. i \in Ids /\ rows[i] # None /\ rows[i].key = r
      BY <1>3, RowOfRequest
    <3>2. S \in SUBSET Ids /\ (\A j \in S : rows[j] # None) /\ Ended(S, "released")
      BY <3>1, <2>1 DEF Release
    <3> HIDE DEF i, S
    <3>3. /\ RowsEvolve /\ now' = now /\ issued' = issued
          /\ \A j \in Ids : j \notin S => rows'[j] = rows[j]
      BY <3>2, EndedRows
    <3>4. \A j \in Ids : j # i => rows'[j] = rows[j]
      BY <3>3 DEF S
    <3>5. \A j \in Ids : rows[j] # None /\ rows'[j].state = "released" =>
            /\ pc'[rows[j].key] \in {"releaseShared", "over"}
            /\ reply'[rows[j].key] \notin {"sent", "ok"}
      <4> SUFFICES ASSUME NEW j \in Ids, rows[j] # None, rows'[j].state = "released"
                   PROVE  /\ pc'[rows[j].key] \in {"releaseShared", "over"}
                          /\ reply'[rows[j].key] \notin {"sent", "ok"}
        OBVIOUS
      <4>1. CASE j = i
        BY <4>1, <3>1, <1>1, <1>2, <1>3
      <4>2. CASE j # i
        <5>1. rows[j].key \in Requests
          BY DEF TypesInv, Opt, TaskRow
        <5>2. /\ pc[rows[j].key] \in {"releaseShared", "over"}
              /\ reply[rows[j].key] \notin {"sent", "ok"}
          BY <4>2, <3>4 DEF LedgerInv
        <5> QED
          BY <5>1, <5>2, <1>1, <1>2
      <4> QED
        BY <4>1, <4>2
    <3>6. \A q \in Requests : pc'[q] \in Reserved \/ reply'[q] # "none" => HasRow(q)
      BY <1>4 DEF LedgerInv
    <3> QED
      BY <3>3, <3>5, <3>6, LedgerStep
  <2>2. CASE UNCHANGED task
    <3>1. rows' = rows /\ issued' = issued /\ now' = now
      BY <2>2 DEF task
    <3>2. \A q \in Requests : pc[q] \in {"releaseShared", "over"} => pc'[q] = pc[q]
      BY <1>1, <1>2
    <3> QED
      BY <1>1, <1>4, <3>1, <3>2, LedgerFrame DEF RowsEvolve, TypesInv
  <2> QED
    BY <2>1, <2>2 DEF ReleaseTask
<1>6. TypesInv'
  BY <1>1, <1>2, <1>5 DEF TypesInv, RowsEvolve
<1>7. RequestInv'
  BY <1>1, <1>2 DEF RequestInv, Taps, Unsent, Pump
<1>8. HoldsInv'
  BY <1>1, <1>2 DEF HoldsInv
<1>9. EnforcedInv'
  BY <1>1, <1>2 DEF TypesInv, EnforcedInv, EnforcedGoesUnderHold, Pump
<1> QED
  BY <1>5, <1>6, <1>7, <1>8, <1>9

LEMMA ReleaseSharedStep ==
  ASSUME GwIInv, NEW r \in Requests, ReleaseShared(r)
  PROVE  GwIInv'
<1> USE DEF GwIInv
<1>1. /\ reply' = reply /\ bill' = bill /\ tapped' = tapped /\ enforced' = enforced
      /\ boot' = boot /\ up' = up /\ enforcedSeen' = enforcedSeen /\ held' = held
      /\ rows' = rows /\ issued' = issued /\ now' = now /\ pc[r] = "releaseShared"
  BY DEF ReleaseShared, At, task, process, wire
<1>2. /\ pc' \in [Requests -> Labels]
      /\ \A q \in Requests : q # r => pc'[q] = pc[q]
      /\ pc'[r] = "over"
  BY DEF ReleaseShared, Leave, TypesInv, Labels
<1>3. holds[r] \in Hold /\ reply[r] \notin {"sent", "ok"}
  BY <1>1 DEF RequestInv, TypesInv, Opt, Unsent
<1>4. /\ holds' \in [Requests -> Opt(Hold)]
      /\ \A q \in Requests : q # r => holds'[q] = holds[q]
      /\ holds'[r] # None
      /\ holds'[r] = holds[r] \/ holds'[r].state = "released"
  <2> DEFINE new == Pool!Released(holds[r], now)
  <2>1. new \in Hold /\ new.state = "released"
    BY <1>3, ReleasedHold DEF TypesInv
  <2>2. holds' = holds \/ holds' = [holds EXCEPT ![r] = new]
    BY DEF ReleaseShared
  <2> HIDE DEF new
  <2> QED
    BY <1>3, <2>1, <2>2, ConstantFacts DEF TypesInv, Opt
<1>5. TypesInv'
  BY <1>1, <1>2, <1>4 DEF TypesInv
<1>6. LedgerInv'
  <2>1. \A q \in Requests : pc'[q] \in Reserved \/ reply'[q] # "none" =>
          pc[q] \in Reserved \/ reply[q] # "none"
    BY <1>1, <1>2 DEF Reserved
  <2>2. \A q \in Requests : pc[q] \in {"releaseShared", "over"} =>
          pc'[q] \in {"releaseShared", "over"}
    BY <1>1, <1>2
  <2> QED
    BY <1>1, <2>1, <2>2, LedgerFrame
<1>7. RequestInv'
  BY <1>1, <1>2, <1>4 DEF RequestInv, Taps, Unsent, Pump
<1>8. HoldsInv'
  BY <1>1, <1>2, <1>3, <1>4 DEF HoldsInv
<1>9. EnforcedInv'
  BY <1>1, <1>2, <1>4 DEF TypesInv, EnforcedInv, EnforcedGoesUnderHold, Pump
<1> QED
  BY <1>5, <1>6, <1>7, <1>8, <1>9

\* What a settlement books covers the bill: a cut or unreadable response is
\* booked for what it could still have cost.
LEMMA AmountsCoverBill ==
  ASSUME TypesInv, NEW r \in Requests, tapped[r] \in Taps(r), NEW amount \in SharedAmounts(r)
  PROVE  amount \in Nat /\ amount >= bill[r]
<1>1. bill[r] \in 0..Worst /\ Worst \in Nat
  BY ConstantFacts DEF TypesInv
<1>2. tapped[r].end = "clean" => tapped[r].seen = bill[r]
  BY DEF Taps
<1> QED
  BY <1>1, <1>2 DEF SharedAmounts

LEMMA SettleSharedStep ==
  ASSUME GwIInv, NEW r \in Requests, SettleShared(r)
  PROVE  GwIInv'
<1> USE DEF GwIInv
<1>1. /\ reply' = reply /\ bill' = bill /\ tapped' = tapped /\ enforced' = enforced
      /\ boot' = boot /\ up' = up /\ enforcedSeen' = enforcedSeen /\ held' = held
      /\ rows' = rows /\ issued' = issued /\ now' = now /\ pc[r] = "settleShared"
  BY DEF SettleShared, At, task, process, wire
<1>2. /\ pc' \in [Requests -> Labels]
      /\ \A q \in Requests : q # r => pc'[q] = pc[q]
      /\ pc'[r] = "settleTask"
  BY DEF SettleShared, Goto, TypesInv, Labels, Pump
<1>3. holds[r] \in Hold /\ reply[r] = "ok" /\ tapped[r] \in Taps(r) /\ r \in held
  BY <1>1 DEF RequestInv, TypesInv, Opt, Pump
<1>4. /\ holds' \in [Requests -> Opt(Hold)]
      /\ \A q \in Requests : q # r => holds'[q] = holds[q]
      /\ holds'[r] # None
      /\ \/ holds'[r] = holds[r]
         \/ /\ holds'[r].state = "settled"
            /\ holds'[r].settled \in Nat /\ holds'[r].settled >= bill[r]
  <2>1. CASE holds' = holds
    BY <1>3, <2>1, ConstantFacts DEF TypesInv
  <2>2. ASSUME NEW amount \in SharedAmounts(r),
               holds' = [holds EXCEPT ![r] =
                 Pool!Settled(@, amount, IF tapped[r].end = "clean" THEN "known" ELSE "unknown",
                              now, None, None, None)]
        PROVE  /\ holds' \in [Requests -> Opt(Hold)]
               /\ \A q \in Requests : q # r => holds'[q] = holds[q]
               /\ holds'[r] # None
               /\ holds'[r].state = "settled"
               /\ holds'[r].settled \in Nat /\ holds'[r].settled >= bill[r]
    <3> DEFINE u == IF tapped[r].end = "clean" THEN "known" ELSE "unknown"
               new == Pool!Settled(holds[r], amount, u, now, None, None, None)
    <3>1. amount \in Nat /\ amount >= bill[r]
      BY <1>3, AmountsCoverBill
    <3>2. u \in {"known", "unknown"} /\ now \in Nat
      BY DEF TypesInv
    <3>3. holds' = [holds EXCEPT ![r] = new]
      BY <2>2
    <3> HIDE DEF u
    <3>4. new \in Hold /\ new.state = "settled" /\ new.settled = amount
      <4>1. \A h \in Hold, v \in {"known", "unknown"}, t \in Nat :
              /\ Pool!Settled(h, amount, v, t, None, None, None) \in Hold
              /\ Pool!Settled(h, amount, v, t, None, None, None).state = "settled"
              /\ Pool!Settled(h, amount, v, t, None, None, None).settled = amount
        BY <3>1, SettledHold
      <4> QED
        BY <1>3, <3>2, <4>1
    <3> HIDE DEF new
    <3> QED
      BY <3>1, <3>3, <3>4, ConstantFacts DEF TypesInv, Opt
  <2> QED
    BY <2>1, <2>2 DEF SettleShared
<1>5. TypesInv'
  BY <1>1, <1>2, <1>4 DEF TypesInv
<1>6. LedgerInv'
  <2>1. \A q \in Requests : pc'[q] \in Reserved \/ reply'[q] # "none" =>
          pc[q] \in Reserved \/ reply[q] # "none"
    BY <1>1, <1>2 DEF Reserved, Pump
  <2>2. \A q \in Requests : pc[q] \in {"releaseShared", "over"} => pc'[q] = pc[q]
    BY <1>1, <1>2
  <2> QED
    BY <1>1, <2>1, <2>2, LedgerFrame
<1>7. RequestInv'
  BY <1>1, <1>2, <1>3, <1>4 DEF RequestInv, Taps, Unsent, Pump
<1>8. HoldsInv'
  BY <1>1, <1>2, <1>3, <1>4 DEF HoldsInv
<1>9. EnforcedInv'
  BY <1>1, <1>2, <1>4 DEF TypesInv, EnforcedInv, EnforcedGoesUnderHold, Pump
<1> QED
  BY <1>5, <1>6, <1>7, <1>8, <1>9

LEMMA SettleTaskStep ==
  ASSUME GwIInv, NEW r \in Requests, SettleTask(r)
  PROVE  GwIInv'
<1> USE DEF GwIInv
<1>1. /\ reply' = reply /\ bill' = bill /\ enforced' = enforced
      /\ boot' = boot /\ up' = up /\ enforcedSeen' = enforcedSeen /\ held' = held
      /\ holds' = holds /\ pc[r] = "settleTask"
  BY DEF SettleTask, At, process, wire
<1>2. /\ pc' \in [Requests -> Labels]
      /\ \A q \in Requests : q # r => pc'[q] = pc[q]
      /\ pc'[r] = "over"
  BY DEF SettleTask, Goto, TypesInv, Labels
<1>3. /\ tapped' \in [Requests -> Opt([end: {"clean", "cut", "blank"}, seen: Nat])]
      /\ \A q \in Requests : q # r => tapped'[q] = tapped[q]
  BY DEF SettleTask, TypesInv, Opt
<1>4. reply[r] = "ok" /\ HasRow(r) /\ tapped[r] \in Taps(r)
  BY <1>1 DEF RequestInv, LedgerInv, Pump, Reserved
<1>5. \A q \in Requests : pc'[q] \in Reserved \/ reply'[q] # "none" =>
        pc[q] \in Reserved \/ reply[q] # "none"
  BY <1>1, <1>2 DEF Reserved, Pump
<1>6. \A q \in Requests : pc[q] \in {"releaseShared", "over"} => pc'[q] = pc[q]
  BY <1>1, <1>2
<1>7. RowsEvolve /\ now' = now /\ issued' = issued /\ LedgerInv'
  <2> DEFINE i == RowOf(r)
             actual == IF tapped[r].end = "blank" THEN None ELSE tapped[r].seen
  <2>1. CASE Settle(i, actual)
    <3>1. i \in Ids
      BY <1>4, RowOfRequest
    <3>2. actual \in Opt(Nat)
      BY <1>4, ConstantFacts DEF TypesInv, Taps, Opt
    <3> HIDE DEF i, actual
    <3>3. /\ RowsEvolve /\ now' = now /\ issued' = issued
          /\ \A j \in Ids : j # i => rows'[j] = rows[j]
          /\ rows'[i].state = "settled"
      BY <2>1, <3>1, <3>2, SettleRows
    <3>4. \A j \in Ids : rows[j] # None /\ rows'[j].state = "released" =>
            /\ pc'[rows[j].key] \in {"releaseShared", "over"}
            /\ reply'[rows[j].key] \notin {"sent", "ok"}
      <4> SUFFICES ASSUME NEW j \in Ids, rows[j] # None, rows'[j].state = "released"
                   PROVE  /\ pc'[rows[j].key] \in {"releaseShared", "over"}
                          /\ reply'[rows[j].key] \notin {"sent", "ok"}
        OBVIOUS
      <4>1. j # i /\ rows'[j] = rows[j]
        BY <3>3
      <4>2. rows[j].key \in Requests
        BY DEF TypesInv, Opt, TaskRow
      <4>3. /\ pc[rows[j].key] \in {"releaseShared", "over"}
            /\ reply[rows[j].key] \notin {"sent", "ok"}
        BY <4>1 DEF LedgerInv
      <4> QED
        BY <4>2, <4>3, <1>1, <1>6
    <3>5. \A q \in Requests : pc'[q] \in Reserved \/ reply'[q] # "none" => HasRow(q)
      BY <1>5 DEF LedgerInv
    <3> QED
      BY <3>3, <3>4, <3>5, LedgerStep
  <2>2. CASE UNCHANGED task
    <3>1. rows' = rows /\ issued' = issued /\ now' = now
      BY <2>2 DEF task
    <3> QED
      BY <1>1, <1>5, <1>6, <3>1, LedgerFrame DEF RowsEvolve, TypesInv
  <2> QED
    BY <2>1, <2>2 DEF SettleTask
<1>8. TypesInv'
  BY <1>1, <1>2, <1>3, <1>7 DEF TypesInv, RowsEvolve
<1>9. RequestInv'
  BY <1>1, <1>2, <1>3 DEF RequestInv, Taps, Unsent, Pump
<1>10. HoldsInv'
  BY <1>1, <1>2 DEF HoldsInv
<1>11. EnforcedInv'
  BY <1>1, <1>2 DEF TypesInv, EnforcedInv, EnforcedGoesUnderHold, Pump
<1> QED
  BY <1>7, <1>8, <1>9, <1>10, <1>11

-----------------------------------------------------------------------------
LEMMA InvNext == GwIInv /\ [GwNext]_gwVars => GwIInv'
<1> SUFFICES ASSUME GwIInv, [GwNext]_gwVars PROVE GwIInv'
  OBVIOUS
<1>1. CASE UNCHANGED gwVars
  <2>1. /\ UNCHANGED <<now, rows, issued, holds, boot, up, enforcedSeen, reply, bill>>
        /\ UNCHANGED <<pc, enforced, held, tapped>>
    BY <1>1 DEF gwVars, task, process, wire, request
  <2> QED
    BY <2>1 DEF GwIInv, TypesInv, LedgerInv, RequestInv, HoldsInv, EnforcedInv,
                EnforcedGoesUnderHold, HasRow, Taps
<1>2. CASE Start \/ Crash \/ GwTick \/ Reconcile \/ Sweep
  BY <1>2, StartStep, CrashStep, GwTickStep, ReconcileStep, SweepStep
<1>3. ASSUME NEW f \in Files, EditFile(f) PROVE GwIInv'
  BY <1>3, EditFileStep
<1>4. ASSUME NEW r \in Requests,
             Arrive(r) \/ AskMode(r) \/ Authorize(r) \/ SharedReserve(r)
      PROVE  GwIInv'
  BY <1>4, ArriveStep, AskModeStep, AuthorizeStep, SharedReserveStep
<1>5. ASSUME NEW r \in Requests, Send(r) \/ Fail(r) \/ Receive(r) \/ Refresh(r)
      PROVE  GwIInv'
  BY <1>5, SendStep, FailStep, ReceiveStep, RefreshStep
<1>6. ASSUME NEW r \in Requests, ReleaseTask(r) \/ ReleaseShared(r) \/ Cancel(r)
      PROVE  GwIInv'
  BY <1>6, ReleaseTaskStep, ReleaseSharedStep, CancelStep
<1>7. ASSUME NEW r \in Requests,
             EndStream(r) \/ Renew(r) \/ SettleShared(r) \/ SettleTask(r)
      PROVE  GwIInv'
  BY <1>7, EndStreamStep, RenewStep, SettleSharedStep, SettleTaskStep
<1>8. ASSUME NEW r \in Requests, NEW cost \in Costs, Serve(r, cost) PROVE GwIInv'
  BY <1>8, ServeStep
<1>9. ASSUME NEW r \in Requests, NEW status \in {"unauthorized", "error"}, Reject(r, status)
      PROVE  GwIInv'
  BY <1>9, RejectStep
<1> QED
  BY <1>1, <1>2, <1>3, <1>4, <1>5, <1>6, <1>7, <1>8, <1>9 DEF GwNext

LEMMA BillInitially == GwInit => BillInv
  BY DEF GwInit, BillInv

\* Only an answer that is lost separates a bill from the answer.
LEMMA BillNext ==
  ASSUME TRUE \notin Lossy
  PROVE  GwIInv /\ BillInv /\ [GwNext]_gwVars => BillInv'
<1> SUFFICES ASSUME GwIInv, BillInv, [GwNext]_gwVars PROVE BillInv'
  OBVIOUS
<1>1. ASSUME reply' = reply, bill' = bill PROVE BillInv'
  BY <1>1 DEF BillInv
<1>2. CASE UNCHANGED gwVars
  BY <1>1, <1>2 DEF gwVars, wire
<1>3. CASE Start \/ Crash \/ GwTick \/ Reconcile \/ Sweep \/ \E f \in Files : EditFile(f)
  BY <1>1, <1>3 DEF Start, Crash, GwTick, Reconcile, Sweep, EditFile, wire
<1>4. ASSUME NEW r \in Requests,
             \/ Arrive(r) \/ AskMode(r) \/ Authorize(r) \/ SharedReserve(r) \/ Receive(r)
             \/ Refresh(r) \/ ReleaseTask(r) \/ ReleaseShared(r) \/ Cancel(r)
             \/ EndStream(r) \/ Renew(r) \/ SettleShared(r) \/ SettleTask(r)
      PROVE  BillInv'
  BY <1>1, <1>4 DEF Arrive, AskMode, Authorize, SharedReserve, Receive, Refresh, ReleaseTask,
                    ReleaseShared, Cancel, EndStream, Renew, SettleShared, SettleTask, wire
<1>5. ASSUME NEW r \in Requests, Send(r) PROVE BillInv'
  BY <1>5 DEF Send, At, GwIInv, TypesInv, RequestInv, Unsent, BillInv
<1>6. ASSUME NEW r \in Requests, Fail(r) PROVE BillInv'
  BY <1>6 DEF Fail, GwIInv, TypesInv, BillInv
<1>7. ASSUME NEW r \in Requests, NEW cost \in Costs, Serve(r, cost) PROVE BillInv'
  BY <1>7 DEF Serve, GwIInv, TypesInv, BillInv
<1>8. ASSUME NEW r \in Requests, NEW status \in {"unauthorized", "error"}, Reject(r, status)
      PROVE  BillInv'
  BY <1>8 DEF Reject, GwIInv, TypesInv, BillInv
<1> QED
  BY <1>2, <1>3, <1>4, <1>5, <1>6, <1>7, <1>8 DEF GwNext

\* Whatever the clients, the operator, the clock and the process do, work the
\* provider billed under a shared hold is still counted by the pool: the hold is
\* live or booked for at least the bill (proxy.rs, shared_budget.rs).
THEOREM BilledIsCounted ==
  ASSUME TRUE \notin Lossy
  PROVE  GwSpec => []BilledStaysCounted
<1>1. GwIInv /\ BillInv => BilledStaysCounted
  <2> SUFFICES ASSUME GwIInv, BillInv, NEW r \in Requests, bill[r] > 0, holds[r] # None
               PROVE  \/ holds[r].state = "active"
                      \/ holds[r].state = "settled" /\ holds[r].settled >= bill[r]
    BY DEF BilledStaysCounted
  <2>1. reply[r] = "ok" /\ bill[r] \in 0..Worst /\ Worst \in Nat
    BY ConstantFacts DEF GwIInv, BillInv, TypesInv
  <2>2. holds[r].state \in {"active", "settled", "released"}
    BY DEF GwIInv, TypesInv, Opt, Hold
  <2> QED
    BY <2>1, <2>2 DEF GwIInv, HoldsInv
<1>2. GwInit => GwIInv /\ BillInv
  BY InvInit, BillInitially
<1>3. GwIInv /\ BillInv /\ [GwNext]_gwVars => GwIInv' /\ BillInv'
  BY InvNext, BillNext
<1> QED
  BY <1>1, <1>2, <1>3, PTL DEF GwSpec

\* A request the mode check put under the cap reaches the provider only with a
\* hold, however the file is edited in between (gateway_authority.rs).
THEOREM EnforcedIsHeld == GwSpec => []EnforcedGoesUnderHold
<1>1. GwIInv => EnforcedGoesUnderHold
  BY DEF GwIInv, EnforcedInv
<1> QED
  BY <1>1, InvInit, InvNext, PTL DEF GwSpec

-----------------------------------------------------------------------------
(* Booking.  What the settlement of a request booked stays, because nothing  *)
(* ends a settled row again.                                                 *)

\* Rows stay settled, and what a pump saw stays or is forgotten.
BookingStands ==
  /\ \A i \in Ids : rows'[i] # None =>
       \/ tapped'[rows'[i].key] = None
       \/ /\ rows[i] # None /\ rows'[i].key = rows[i].key
          /\ rows[i].state = "settled" => rows'[i] = rows[i]
  /\ \A r \in Requests : tapped'[r] # None =>
       /\ tapped'[r] = tapped[r] /\ reply'[r] = reply[r] /\ bill'[r] = bill[r]
       /\ pc'[r] = pc[r] \/ pc'[r] = "settleTask"

LEMMA BookedStands ==
  ASSUME BookedInv, BookingStands
  PROVE  BookedInv'
<1> SUFFICES ASSUME NEW r \in Requests, tapped'[r] # None
             PROVE  /\ pc'[r] \in {"settleShared", "settleTask", "over"}
                    /\ reply'[r] = "ok" /\ tapped'[r] \in Taps(r)'
                    /\ pc'[r] = "over" =>
                         \A i \in Ids : rows'[i] # None /\ rows'[i].key = r =>
                           Books(rows'[i], tapped'[r], bill'[r])
  BY DEF BookedInv
<1>1. /\ tapped'[r] = tapped[r] /\ reply'[r] = reply[r] /\ bill'[r] = bill[r]
      /\ pc'[r] = pc[r] \/ pc'[r] = "settleTask"
  BY DEF BookingStands
<1>2. /\ pc[r] \in {"settleShared", "settleTask", "over"}
      /\ reply[r] = "ok" /\ tapped[r] \in Taps(r)
      /\ pc[r] = "over" =>
           \A i \in Ids : rows[i] # None /\ rows[i].key = r => Books(rows[i], tapped[r], bill[r])
  BY <1>1 DEF BookedInv
<1>3. ASSUME pc'[r] = "over", NEW i \in Ids, rows'[i] # None, rows'[i].key = r
      PROVE  Books(rows'[i], tapped'[r], bill'[r])
  <2>1. rows[i] # None /\ rows[i].key = r /\ (rows[i].state = "settled" => rows'[i] = rows[i])
    BY <1>3 DEF BookingStands
  <2>2. Books(rows[i], tapped[r], bill[r])
    BY <1>1, <1>2, <1>3, <2>1
  <2> QED
    BY <1>1, <2>1, <2>2 DEF Books
<1>4. Taps(r)' = Taps(r)
  BY <1>1 DEF Taps
<1> QED
  BY <1>1, <1>2, <1>3, <1>4

\* No settled row is among those that end.
LEMMA EndedStands ==
  ASSUME TypesInv, NEW S \in SUBSET Ids, NEW state \in {"released", "expired"},
         \A i \in S : rows[i] # None /\ rows[i].state = "active", Ended(S, state)
  PROVE  \A i \in Ids : rows'[i] # None =>
           /\ rows[i] # None /\ rows'[i].key = rows[i].key
           /\ rows[i].state = "settled" => rows'[i] = rows[i]
<1>1. RowsEvolve /\ \A i \in Ids : i \notin S => rows'[i] = rows[i]
  BY EndedRows
<1> QED
  BY <1>1 DEF RowsEvolve

LEMMA StaleStands ==
  ASSUME TypesInv, ExpireStaleReservations
  PROVE  \A i \in Ids : rows'[i] # None =>
           /\ rows[i] # None /\ rows'[i].key = rows[i].key
           /\ rows[i].state = "settled" => rows'[i] = rows[i]
<1> DEFINE S == Stale
<1>1. /\ S \in SUBSET Ids /\ (\A i \in S : rows[i] # None /\ rows[i].state = "active")
      /\ Ended(S, "expired")
  BY DEF Stale, ExpireStaleReservations
<1> HIDE DEF S
<1> QED
  BY <1>1, EndedStands

LEMMA BookedNext == GwIInv /\ BookedInv /\ [GwNext]_gwVars => BookedInv'
<1> SUFFICES ASSUME GwIInv, BookedInv, [GwNext]_gwVars PROVE BookedInv'
  OBVIOUS
<1>0. TypesInv /\ RequestInv /\ LedgerInv
  BY DEF GwIInv
<1>1. \A i \in Ids : rows[i] # None => rows[i].key \in Requests
  BY <1>0 DEF TypesInv, Opt, TaskRow
<1>2. \A r \in Requests : tapped[r] # None =>
        pc[r] \in {"settleShared", "settleTask", "over"} /\ reply[r] = "ok"
  BY DEF BookedInv
<1>3. ASSUME rows' = rows, \A r \in Requests : tapped'[r] # None =>
               /\ tapped'[r] = tapped[r] /\ reply'[r] = reply[r] /\ bill'[r] = bill[r]
               /\ pc'[r] = pc[r] \/ pc'[r] = "settleTask"
      PROVE  BookedInv'
  <2>1. BookingStands
    BY <1>3 DEF BookingStands
  <2> QED
    BY <2>1, BookedStands
<1>4. CASE UNCHANGED gwVars \/ GwTick \/ Sweep \/ \E f \in Files : EditFile(f)
  <2>1. UNCHANGED <<rows, tapped, reply, bill, pc>>
    BY <1>4 DEF gwVars, GwTick, Tick, Sweep, EditFile, task, wire, request
  <2> QED
    BY <1>3, <2>1
<1>5. CASE Crash
  <2>1. UNCHANGED <<rows, reply, bill>>
    BY <1>5 DEF Crash, task
  <2>2. \A r \in Requests : tapped'[r] # None => tapped'[r] = tapped[r] /\ pc'[r] = pc[r]
    BY <1>0, <1>2, <1>5 DEF Crash, Handler, Pump, TypesInv
  <2> QED
    BY <1>3, <2>1, <2>2
<1>6. CASE Start \/ Reconcile
  <2>1. UNCHANGED <<tapped, reply, bill, pc>>
    BY <1>6 DEF Start, Reconcile, wire, request
  <2>2. \A i \in Ids : rows'[i] # None =>
          /\ rows[i] # None /\ rows'[i].key = rows[i].key
          /\ rows[i].state = "settled" => rows'[i] = rows[i]
    <3>1. CASE ExpireStaleReservations
      BY <1>0, <3>1, StaleStands
    <3>2. CASE UNCHANGED task
      BY <3>2 DEF task
    <3>3. ASSUME NEW plan \in Plans, ReleaseActiveForPlan(Task, plan)
          PROVE  \A i \in Ids : rows'[i] # None =>
                   /\ rows[i] # None /\ rows'[i].key = rows[i].key
                   /\ rows[i].state = "settled" => rows'[i] = rows[i]
      <4> DEFINE S == {i \in Of(Task, "active") : rows[i].plan = plan}
      <4>1. /\ S \in SUBSET Ids /\ (\A i \in S : rows[i] # None /\ rows[i].state = "active")
            /\ Ended(S, "released")
        BY <3>3 DEF Of, ReleaseActiveForPlan
      <4> HIDE DEF S
      <4> QED
        BY <1>0, <4>1, EndedStands
    <3> QED
      BY <1>6, <3>1, <3>2, <3>3 DEF Start, Reconcile
  <2>3. BookingStands
    BY <2>1, <2>2 DEF BookingStands
  <2> QED
    BY <2>3, BookedStands
<1>7. ASSUME NEW r \in Requests,
             \/ Arrive(r) \/ AskMode(r) \/ SharedReserve(r) \/ Send(r) \/ Fail(r) \/ Receive(r)
             \/ Refresh(r) \/ ReleaseShared(r) \/ Cancel(r) \/ Renew(r) \/ SettleShared(r)
      PROVE  BookedInv'
  <2>1. rows' = rows /\ tapped' = tapped /\ bill' = bill
    BY <1>7 DEF Arrive, AskMode, SharedReserve, Send, Fail, Receive, Refresh, ReleaseShared,
                Cancel, Renew, SettleShared, task, wire, request
  <2>2. \A q \in Requests : q # r => pc'[q] = pc[q] /\ reply'[q] = reply[q]
    BY <1>0, <1>7 DEF Arrive, AskMode, SharedReserve, SharedGranted, SharedRefused, SharedOff,
                Send, Fail, Receive, Refresh, ReleaseShared, Cancel, Renew, SettleShared,
                Goto, Leave, wire, request, TypesInv
  <2>3. \/ pc[r] \in {"idle"} \cup Handler \cup {"stream"}
        \/ pc'[r] = pc[r] /\ reply'[r] = reply[r]
        \/ pc'[r] = "settleTask" /\ reply'[r] = reply[r]
    BY <1>0, <1>7 DEF Arrive, AskMode, SharedReserve, Send, Fail, Receive, Refresh, ReleaseShared,
                Cancel, Renew, SettleShared, At, Goto, Handler, wire, request, TypesInv
  <2>4. tapped[r] # None => pc[r] \notin {"idle"} \cup Handler \cup {"stream"}
    BY <1>2 DEF Handler
  <2>5. \A q \in Requests : tapped[q] # None =>
          reply'[q] = reply[q] /\ (pc'[q] = pc[q] \/ pc'[q] = "settleTask")
    BY <2>2, <2>3, <2>4
  <2> QED
    BY <1>3, <2>1, <2>5
<1>8. ASSUME NEW r \in Requests, Authorize(r) PROVE BookedInv'
  <2>1. /\ reply' = reply /\ bill' = bill /\ tapped' = tapped /\ pc[r] = "authorize"
        /\ \A q \in Requests : q # r => pc'[q] = pc[q]
    BY <1>0, <1>8 DEF Authorize, At, wire, Goto, Leave, TypesInv
  <2>2. tapped[r] = None
    BY <1>2, <2>1
  <2>3. \A i \in Ids : rows'[i] # None => rows'[i] = rows[i] \/ rows'[i].key = r
    <3>1. CASE Reserve(Task, RequestPlan, "optional", Worst, r, TTL)
      <4> DEFINE new == [task |-> Task, plan |-> RequestPlan, key |-> r, amount |-> Worst,
                         drawn |-> DrawOf(Task, "optional", Worst), state |-> "active",
                         settled |-> None, expiresAt |-> now + TTL, late |-> FALSE]
      <4>1. rows' = [rows EXCEPT ![issued + 1] = new] /\ new.key = r
        BY <3>1 DEF Reserve
      <4> HIDE DEF new
      <4> QED
        BY <1>0, <4>1 DEF TypesInv
    <3>2. CASE UNCHANGED task
      BY <3>2 DEF task
    <3> QED
      BY <1>8, <3>1, <3>2 DEF Authorize
  <2>4. BookingStands
    BY <1>1, <2>1, <2>2, <2>3 DEF BookingStands
  <2> QED
    BY <2>4, BookedStands
<1>9. ASSUME NEW r \in Requests, ReleaseTask(r) PROVE BookedInv'
  <2>1. /\ reply' = reply /\ bill' = bill /\ tapped' = tapped /\ pc[r] = "releaseTask"
        /\ \A q \in Requests : q # r => pc'[q] = pc[q]
    BY <1>0, <1>9 DEF ReleaseTask, At, wire, Goto, Leave, TypesInv
  <2>2. tapped[r] = None
    BY <1>2, <2>1
  <2>3. \A i \in Ids : rows'[i] # None =>
          /\ rows[i] # None /\ rows'[i].key = rows[i].key
          /\ rows[i].state = "settled" => rows'[i] = rows[i]
    <3>1. CASE Release(RowOf(r))
      <4>1. PICK k : k = RowOf(r)
        OBVIOUS
      <4>2. HasRow(r)
        BY <1>0, <2>1 DEF LedgerInv, Reserved
      <4>3. k \in Ids
        BY <4>1, <4>2, RowOfRequest
      <4>4. Release(k)
        BY <3>1, <4>1
      <4>5. /\ {k} \in SUBSET Ids /\ (\A i \in {k} : rows[i] # None /\ rows[i].state = "active")
            /\ Ended({k}, "released")
        BY <4>3, <4>4 DEF Release
      <4> QED
        BY <1>0, <4>5, EndedStands
    <3>2. CASE UNCHANGED task
      BY <3>2 DEF task
    <3> QED
      BY <1>9, <3>1, <3>2 DEF ReleaseTask
  <2>4. BookingStands
    BY <2>1, <2>2, <2>3 DEF BookingStands
  <2> QED
    BY <2>4, BookedStands
<1>10. ASSUME NEW r \in Requests, EndStream(r) PROVE BookedInv'
  <2>1. /\ reply' = reply /\ bill' = bill /\ rows' = rows /\ pc[r] = "stream"
        /\ tapped'[r] \in Taps(r) /\ pc'[r] \in {"settleShared", "settleTask"}
        /\ \A q \in Requests : q # r => pc'[q] = pc[q] /\ tapped'[q] = tapped[q]
    BY <1>0, <1>10 DEF EndStream, At, wire, task, Goto, TypesInv
  <2>2. reply[r] = "ok"
    BY <1>0, <2>1 DEF RequestInv, Pump
  <2>3. \A q \in Requests : Taps(q)' = Taps(q)
    BY <2>1 DEF Taps
  <2> QED
    BY <2>1, <2>2, <2>3 DEF BookedInv
<1>11. ASSUME NEW r \in Requests, SettleTask(r) PROVE BookedInv'
  <2>1. /\ reply' = reply /\ bill' = bill /\ pc[r] = "settleTask" /\ pc'[r] = "over"
        /\ \A q \in Requests : q # r => pc'[q] = pc[q]
    BY <1>0, <1>11 DEF SettleTask, At, wire, Goto, TypesInv
  <2>2. reply[r] = "ok" /\ HasRow(r) /\ tapped[r] \in Taps(r)
    BY <1>0, <2>1 DEF RequestInv, LedgerInv, Pump, Reserved
  <2>3. CASE UNCHANGED task /\ tapped' = [tapped EXCEPT ![r] = None]
    <3>1. rows' = rows /\ tapped'[r] = None /\ \A q \in Requests : q # r => tapped'[q] = tapped[q]
      BY <1>0, <2>3 DEF task, TypesInv
    <3> QED
      BY <1>3, <2>1, <3>1
  <2>4. CASE /\ Settle(RowOf(r), IF tapped[r].end = "blank" THEN None ELSE tapped[r].seen)
             /\ tapped' = tapped
    <3> DEFINE actual == IF tapped[r].end = "blank" THEN None ELSE tapped[r].seen
    <3>1. PICK k : k = RowOf(r)
      OBVIOUS
    <3>2. k \in Ids /\ rows[k] # None /\ rows[k].key = r
      BY <2>2, <3>1, RowOfRequest
    <3>3. /\ tapped[r].end = "clean" => actual = bill[r] /\ actual # None
          /\ tapped[r].end = "blank" => actual = None
          /\ actual \in Opt(Nat) /\ bill[r] \in 0..Worst
      BY <1>0, <2>2, ConstantFacts DEF TypesInv, Taps, Opt
    <3>4. Settle(k, actual)
      BY <2>4, <3>1
    <3> HIDE DEF actual
    <3>5. /\ RowsEvolve /\ (\A j \in Ids : j # k => rows'[j] = rows[j])
          /\ rows'[k].state = "settled" /\ rows[k].state \in {"active", "expired"}
          /\ rows'[k].settled = IF actual = None THEN Worst ELSE actual
      BY <1>0, <3>2, <3>3, <3>4, SettleRows
    <3>6. Books(rows'[k], tapped[r], bill[r])
      BY <3>3, <3>5, ConstantFacts DEF Books
    <3>7. \A i \in Ids : rows'[i] # None /\ rows'[i].key = r => i = k
      BY <1>0, <3>2, <3>5 DEF LedgerInv, RowsEvolve
    <3>8. \A q \in Requests : Taps(q)' = Taps(q)
      BY <2>1 DEF Taps
    <3>9. ASSUME NEW q \in Requests, tapped'[q] # None
          PROVE  /\ pc'[q] \in {"settleShared", "settleTask", "over"}
                 /\ reply'[q] = "ok" /\ tapped'[q] \in Taps(q)'
                 /\ pc'[q] = "over" =>
                      \A i \in Ids : rows'[i] # None /\ rows'[i].key = q =>
                        Books(rows'[i], tapped'[q], bill'[q])
      <4>1. CASE q = r
        BY <2>1, <2>2, <2>4, <3>6, <3>7, <3>8, <4>1
      <4>2. CASE q # r
        <5>1. /\ pc'[q] = pc[q] /\ reply'[q] = reply[q] /\ tapped'[q] = tapped[q] /\ bill'[q] = bill[q]
              /\ \A i \in Ids : rows'[i] # None /\ rows'[i].key = q => rows[i] = rows'[i]
          BY <2>1, <2>4, <3>2, <3>5, <4>2 DEF RowsEvolve
        <5> QED
          BY <3>8, <3>9, <5>1 DEF BookedInv
      <4> QED
        BY <4>1, <4>2
    <3> QED
      BY <3>9 DEF BookedInv
  <2> QED
    BY <1>11, <2>3, <2>4 DEF SettleTask
<1>12. ASSUME NEW r \in Requests, NEW cost \in Costs, Serve(r, cost) PROVE BookedInv'
  <2>1. /\ rows' = rows /\ tapped' = tapped /\ pc' = pc /\ reply[r] = "sent"
        /\ \A q \in Requests : q # r => reply'[q] = reply[q] /\ bill'[q] = bill[q]
    BY <1>0, <1>12 DEF Serve, task, request, TypesInv
  <2> QED
    BY <1>2, <1>3, <2>1
<1>13. ASSUME NEW r \in Requests, NEW status \in {"unauthorized", "error"}, Reject(r, status)
       PROVE  BookedInv'
  <2>1. /\ rows' = rows /\ tapped' = tapped /\ pc' = pc /\ bill' = bill /\ reply[r] = "sent"
        /\ \A q \in Requests : q # r => reply'[q] = reply[q]
    BY <1>0, <1>13 DEF Reject, task, request, TypesInv
  <2> QED
    BY <1>2, <1>3, <2>1
<1> QED
  BY <1>4, <1>5, <1>6, <1>7, <1>8, <1>9, <1>10, <1>11, <1>12, <1>13 DEF GwNext

\* A request the provider served is booked on the task's ledger whenever its pump
\* lives to settle it, a lapse of the reservation before that notwithstanding, and no
\* replan, dropped handler or restart releases it (proxy.rs, reservation.rs).
THEOREM ServedWorkIsBooked == GwSpec => []ServedIsBooked
<1>1. GwIInv /\ BookedInv => ServedIsBooked
  <2> SUFFICES ASSUME GwIInv, BookedInv, NEW r \in Requests, reply[r] = "ok"
               PROVE  /\ rows[RowOf(r)].state # "released"
                      /\ pc[r] = "over" /\ tapped[r] # None =>
                           Books(rows[RowOf(r)], tapped[r], bill[r])
    BY DEF ServedIsBooked
  <2>1. HasRow(r)
    BY DEF GwIInv, LedgerInv
  <2>2. RowOf(r) \in Ids /\ rows[RowOf(r)] # None /\ rows[RowOf(r)].key = r
    BY <2>1, RowOfRequest
  <2> HIDE DEF RowOf
  <2> QED
    BY <2>2 DEF GwIInv, LedgerInv, BookedInv
<1>2. GwInit => BookedInv
  BY DEF GwInit, BookedInv
<1> QED
  BY <1>1, <1>2, InvInit, InvNext, BookedNext, PTL DEF GwSpec

-----------------------------------------------------------------------------
(* The cap.  A hold claims its worst case while it lives, and what it is     *)
(* booked at afterwards; only a grant adds a claim, and it adds one that the *)
(* exact sums leave room for.                                                *)

LEMMA ClaimNat ==
  ASSUME HoldsInv, TypesInv
  PROVE  \A r \in Requests : Claim(holds[r]) \in Nat
  BY ConstantFacts DEF HoldsInv, TypesInv, Claim

LEMMA ClaimNatNext ==
  ASSUME HoldsInv', TypesInv'
  PROVE  \A r \in Requests : Claim(holds'[r]) \in Nat
  BY ConstantFacts DEF HoldsInv, TypesInv, Claim

\* No claim grows.
ClaimsShrink == \A r \in Requests : Claim(holds'[r]) <= Claim(holds[r])

LEMMA ShrinkKeepsCap ==
  ASSUME GwIInv, GwIInv', ClaimsWithinCap, ClaimsShrink
  PROVE  ClaimsWithinCap'
<1> DEFINE f == [r \in Requests |-> Claim(holds[r])]
           g == [r \in Requests |-> Claim(holds'[r])]
<1>1. MaxRows \in Nat /\ Requests = 1..MaxRows /\ Cap \in Int
  BY ConstantFacts, GatewayAssumption DEF Requests, Ids
<1>2. \A i \in 1..MaxRows : g[i] \in Nat /\ f[i] \in Nat /\ g[i] <= f[i]
  BY <1>1, ClaimNat, ClaimNatNext DEF GwIInv, ClaimsShrink
<1>3. SumOf(f, MaxRows) <= Cap
  BY DEF ClaimsWithinCap, Sum
<1> HIDE DEF f, g
<1>4. SumOf(g, MaxRows) \in Nat /\ SumOf(f, MaxRows) \in Nat
  BY <1>1, <1>2, SumNat
<1>5. SumOf(g, MaxRows) <= SumOf(f, MaxRows)
  <2>1. \A i \in 1..MaxRows : g[i] \in Int /\ f[i] \in Int /\ g[i] <= f[i]
    BY <1>2
  <2> QED
    BY <1>1, <2>1, SumMonotone
<1>6. SumOf(g, MaxRows) <= Cap
  BY <1>1, <1>3, <1>4, <1>5
<1> QED
  BY <1>6 DEF g, ClaimsWithinCap, Sum

LEMMA BookingShrinks ==
  ASSUME GwIInv, HoldsBooked
  PROVE  ClaimsShrink
<1> SUFFICES ASSUME NEW r \in Requests PROVE Claim(holds'[r]) <= Claim(holds[r])
  BY DEF ClaimsShrink
<1>1. Claim(holds[r]) \in Nat /\ Worst \in Nat
  BY ClaimNat, ConstantFacts DEF GwIInv
<1>2. CASE holds'[r] = holds[r]
  BY <1>1, <1>2
<1>3. CASE /\ holds[r] # None /\ holds[r].state = "active"
           /\ holds'[r] # None /\ holds'[r].state = "settled" /\ holds'[r].settled = Worst
  BY <1>1, <1>3 DEF Claim
<1> QED
  BY <1>2, <1>3 DEF HoldsBooked

\* A sweep leaves every claim what it is.
LEMMA SweptClaims ==
  ASSUME GwIInv
  PROVE  \A r \in Requests : Claim(Swept[r]) = Claim(holds[r])
<1>1. \A r \in Requests : Swept[r] = holds[r] \/
        /\ holds[r] # None /\ holds[r].state = "active"
        /\ Swept[r] # None /\ Swept[r].state = "settled" /\ Swept[r].settled = Worst
  BY SweptHolds DEF GwIInv
<1> HIDE DEF Swept
<1> QED
  BY <1>1 DEF Claim

\* The arithmetic of gateway_reserve, saturated and clamped, grants only what the
\* exact claims leave.
LEMMA GrantFits ==
  ASSUME GwIInv, CapAdmits
  PROVE  Sum([r \in Requests |-> Claim(holds[r])]) + Worst <= Cap
<1> DEFINE s == Pool!SettledPart(Swept, "month")
           a == Pool!ActivePart(Swept, "month")
           c == [r \in Requests |-> Claim(holds[r])]
           S == SumOf(s, MaxRows)
           A == SumOf(a, MaxRows)
<1>0. /\ MaxRows \in Nat /\ Requests = 1..MaxRows /\ Pool!Ids = 1..MaxRows
      /\ I64Max \in Nat /\ I64Max > 0 /\ Cap \in Nat /\ Cap <= 2 * I64Max + 1
      /\ Worst \in Nat /\ Worst > 0
  BY ConstantFacts, GatewayAssumption DEF Requests, Ids, Pool!Ids
<1>1. \A i \in 1..MaxRows : s[i] \in Nat /\ a[i] \in Nat /\ c[i] = s[i] + a[i]
  <2> SUFFICES ASSUME NEW i \in 1..MaxRows
               PROVE  s[i] \in Nat /\ a[i] \in Nat /\ c[i] = s[i] + a[i]
    OBVIOUS
  <2>1. Swept[i] \in Opt(Hold) /\ Claim(Swept[i]) = c[i] /\ c[i] \in Nat
    BY <1>0, SweptHolds, SweptClaims, ClaimNat DEF GwIInv
  <2> HIDE DEF c
  <2>2. /\ s[i] = IF Swept[i] # None /\ Swept[i].pool = "month" /\ Swept[i].state = "settled"
                  THEN Swept[i].settled ELSE 0
        /\ a[i] = IF Swept[i] # None /\ Swept[i].pool = "month" /\ Swept[i].state = "active"
                  THEN Swept[i].amount ELSE 0
    BY <1>0 DEF Pool!SettledPart, Pool!ActivePart
  <2> HIDE DEF s, a, Swept
  <2>3. CASE Swept[i] = None
    BY <2>1, <2>2, <2>3 DEF Claim
  <2>4. CASE Swept[i] # None
    <3>1. Swept[i].pool = "month" /\ Swept[i].amount = Worst
      BY <2>1, <2>4 DEF Opt, Hold
    <3> QED
      BY <1>0, <2>1, <2>2, <2>4, <3>1 DEF Claim
  <2> QED
    BY <2>3, <2>4
<1>2. /\ Pool!Sum(s) = S /\ Pool!Sum(a) = A
  BY DEF Pool!Sum, Pool!SumOf, SumOf
<1>3. Worst <= Pool!Clamp(Cap - Pool!MinOf(S, Pool!U64Max) - Pool!MinOf(A, Pool!U64Max) - 0)
  BY <1>2 DEF CapAdmits, Pool!Admits, Pool!Remaining, Pool!SaturatingSum,
              Pool!EffectiveCapacity, Pool!Overhang
<1> HIDE DEF s, a, c
<1>4. S \in Nat /\ A \in Nat
  BY <1>0, <1>1, SumNat
<1>5. SumOf(c, MaxRows) = S + A
  <2>1. \A i \in 1..MaxRows : s[i] \in Int /\ a[i] \in Int /\ c[i] = s[i] + a[i]
    BY <1>1
  <2> QED
    BY <1>0, <2>1, SumPlus
<1> HIDE DEF S, A
<1> DEFINE u == Pool!MinOf(S, Pool!U64Max)
           v == Pool!MinOf(A, Pool!U64Max)
<1>6. Pool!U64Max = 2 * I64Max + 1 /\ Pool!I64Min = -I64Max - 1
  BY DEF Pool!U64Max, Pool!I64Min
<1>7. u \in Nat /\ v \in Nat /\ (u = S \/ u = 2 * I64Max + 1) /\ (v = A \/ v = 2 * I64Max + 1)
  BY <1>0, <1>4, <1>6 DEF Pool!MinOf
<1>8. Worst <= Pool!Clamp(Cap - u - v - 0)
  BY <1>3
<1> HIDE DEF u, v
<1>9. Worst <= Cap - u - v
  BY <1>0, <1>6, <1>7, <1>8 DEF Pool!Clamp, Pool!MinOf
<1>10. u = S /\ v = A
  BY <1>0, <1>7, <1>9
<1>11. SumOf(c, MaxRows) + Worst <= Cap
  BY <1>0, <1>4, <1>5, <1>9, <1>10
<1> QED
  BY <1>11 DEF c, Sum

\* A granted hold fits beside the claims there are.
LEMMA GrantKeepsCap ==
  ASSUME GwIInv, GwIInv', NEW r \in Requests, CapAdmits,
         holds' = [Swept EXCEPT ![r] = NewHold(r)]
  PROVE  ClaimsWithinCap'
<1> DEFINE f == [q \in Requests |-> Claim(holds[q])]
           g == [q \in Requests |-> Claim(holds'[q])]
<1>1. MaxRows \in Nat /\ Requests = 1..MaxRows /\ Cap \in Int /\ Worst \in Nat
  BY ConstantFacts, GatewayAssumption DEF Requests, Ids
<1>2. /\ \A q \in Requests : q # r => holds'[q] = Swept[q]
      /\ holds'[r] = NewHold(r)
  BY SweptHolds DEF GwIInv
<1>3. NewHold(r) # None /\ NewHold(r).state = "active"
  BY NewHoldType, ConstantFacts DEF GwIInv
<1> HIDE DEF Swept, NewHold
<1>4. g[r] = Worst
  BY <1>2, <1>3 DEF Claim
<1>5. \A i \in 1..MaxRows : g[i] \in Nat /\ f[i] \in Nat /\ (i # r => g[i] <= f[i])
  <2>1. \A q \in Requests : Claim(holds'[q]) \in Nat /\ Claim(holds[q]) \in Nat
    BY ClaimNat, ClaimNatNext DEF GwIInv
  <2>2. \A q \in Requests : q # r => Claim(holds'[q]) = Claim(holds[q])
    BY <1>2, SweptClaims
  <2> QED
    BY <1>1, <2>1, <2>2
<1>6. SumOf(f, MaxRows) + Worst <= Cap
  BY GrantFits DEF Sum
<1> HIDE DEF f, g
<1>7. SumOf(g, MaxRows) \in Nat /\ SumOf(f, MaxRows) \in Nat
  BY <1>1, <1>5, SumNat
<1>8. SumOf(g, MaxRows) <= SumOf(f, MaxRows) + Worst
  <2>1. r \in 1..MaxRows /\ Worst \in Int /\ g[r] <= f[r] + Worst
    BY <1>1, <1>4, <1>5
  <2>2. \A i \in 1..MaxRows : f[i] \in Int /\ g[i] \in Int /\ (i # r => g[i] <= f[i])
    BY <1>5
  <2> QED
    BY <1>1, <2>1, <2>2, SumGrows
<1>9. SumOf(g, MaxRows) <= Cap
  BY <1>1, <1>6, <1>7, <1>8
<1> QED
  BY <1>9 DEF g, ClaimsWithinCap, Sum

\* What ends or extends one hold: its claim does not grow.
LEMMA OneClaim ==
  ASSUME GwIInv, NEW r \in Requests, NEW new, holds' = [holds EXCEPT ![r] = new],
         Claim(new) <= Claim(holds[r])
  PROVE  ClaimsShrink
<1>1. holds'[r] = new /\ \A q \in Requests : q # r => holds'[q] = holds[q]
  BY DEF GwIInv, TypesInv
<1>2. \A q \in Requests : Claim(holds[q]) \in Nat
  BY ClaimNat DEF GwIInv
<1> QED
  BY <1>1, <1>2 DEF ClaimsShrink

LEMMA ReleaseClaims ==
  ASSUME GwIInv, NEW r \in Requests, ReleaseShared(r)
  PROVE  ClaimsShrink
<1> DEFINE new == Pool!Released(holds[r], now)
<1>1. holds[r] \in Hold /\ now \in Nat
  BY DEF ReleaseShared, At, GwIInv, RequestInv, TypesInv, Opt
<1>2. new # None /\ new.state = "released"
  BY <1>1, ReleasedHold, ConstantFacts
<1>3. holds' = holds \/ holds' = [holds EXCEPT ![r] = new]
  BY DEF ReleaseShared
<1>4. Claim(holds[r]) \in Nat
  BY ClaimNat DEF GwIInv
<1> HIDE DEF new
<1>5. Claim(new) <= Claim(holds[r])
  BY <1>2, <1>4 DEF Claim
<1>6. CASE holds' = holds
  BY <1>6, ClaimNat DEF GwIInv, ClaimsShrink
<1>7. CASE holds' = [holds EXCEPT ![r] = new]
  BY <1>5, <1>7, OneClaim
<1> QED
  BY <1>3, <1>6, <1>7

LEMMA RenewClaims ==
  ASSUME GwIInv, NEW r \in Requests, Renew(r)
  PROVE  ClaimsShrink
<1> DEFINE new == [holds[r] EXCEPT !.expiresAt = now + TTL]
<1>1. holds[r] \in Hold /\ holds[r].state = "active" /\ now + TTL \in Nat
  BY ConstantFacts DEF Renew, GwIInv, RequestInv, TypesInv, Opt
<1>2. new \in Hold /\ new.state = "active"
  BY <1>1 DEF Hold
<1>3. holds' = [holds EXCEPT ![r] = new]
  BY DEF Renew
<1> HIDE DEF new
<1>4. Claim(new) <= Claim(holds[r])
  BY <1>1, <1>2, ConstantFacts DEF Claim
<1> QED
  BY <1>3, <1>4, OneClaim

\* What a settlement books fits the worst case it was admitted at.
LEMMA AmountsFitWorst ==
  ASSUME TypesInv, NEW r \in Requests, tapped[r] \in Taps(r), NEW amount \in SharedAmounts(r)
  PROVE  amount \in Nat /\ amount <= Worst
<1>1. bill[r] \in 0..Worst /\ Worst \in Nat
  BY ConstantFacts DEF TypesInv
<1>2. tapped[r].end = "clean" => tapped[r].seen = bill[r]
  BY DEF Taps
<1> QED
  BY <1>1, <1>2 DEF SharedAmounts

LEMMA SettleClaims ==
  ASSUME GwIInv, NEW r \in Requests, SettleShared(r)
  PROVE  ClaimsShrink
<1> DEFINE u == IF tapped[r].end = "clean" THEN "known" ELSE "unknown"
           new(amount) == Pool!Settled(holds[r], amount, u, now, None, None, None)
<1>1. holds[r] \in Hold /\ tapped[r] \in Taps(r) /\ now \in Nat /\ TypesInv
  BY DEF SettleShared, At, GwIInv, RequestInv, TypesInv, Opt
<1>2. CASE holds' = holds
  BY <1>2, ClaimNat DEF GwIInv, ClaimsShrink
<1>3. ASSUME NEW amount \in SharedAmounts(r), holds[r].state \in {"active", "expired"},
             holds' = [holds EXCEPT ![r] = new(amount)]
      PROVE  ClaimsShrink
  <2>1. amount \in Nat /\ amount <= Worst
    BY <1>1, AmountsFitWorst
  <2>2. u \in {"known", "unknown"}
    OBVIOUS
  <2> HIDE DEF u
  <2>3. new(amount) \in Hold /\ new(amount).state = "settled" /\ new(amount).settled = amount
    <3>1. \A h \in Hold, v \in {"known", "unknown"}, t \in Nat :
            /\ Pool!Settled(h, amount, v, t, None, None, None) \in Hold
            /\ Pool!Settled(h, amount, v, t, None, None, None).state = "settled"
            /\ Pool!Settled(h, amount, v, t, None, None, None).settled = amount
      BY <2>1, SettledHold
    <3> QED
      BY <1>1, <2>2, <3>1
  <2> HIDE DEF new
  <2>4. holds[r].state = "active" /\ holds[r] # None /\ new(amount) # None
    BY <1>1, <1>3, <2>3, ConstantFacts DEF Hold
  <2>5. Claim(new(amount)) <= Claim(holds[r])
    BY <2>1, <2>3, <2>4, ConstantFacts DEF Claim
  <2> QED
    BY <1>3, <2>5, OneClaim
<1> QED
  BY <1>2, <1>3 DEF SettleShared

LEMMA CapStep ==
  ASSUME GwIInv, ClaimsWithinCap, [GwNext]_gwVars
  PROVE  ClaimsWithinCap'
<1>1. GwIInv'
  BY InvNext
<1> SUFFICES ASSUME ~ClaimsShrink PROVE ClaimsWithinCap'
  BY <1>1, ShrinkKeepsCap
<1>2. ASSUME holds' = holds PROVE FALSE
  BY <1>2, ClaimNat DEF GwIInv, ClaimsShrink
<1>3. CASE UNCHANGED gwVars
  BY <1>2, <1>3 DEF gwVars
<1>4. CASE Start
  <2>1. holds' = holds \/ holds' = [r \in Requests |-> Orphaned(holds[r])]
    BY <1>4 DEF Start
  <2> QED
    BY <1>2, <2>1, OrphanedHolds, BookingShrinks DEF GwIInv
<1>5. CASE Sweep
  <2>1. holds' = Swept
    BY <1>5 DEF Sweep
  <2>2. HoldsBooked
    BY <2>1, SweptHolds DEF HoldsBooked, GwIInv
  <2> QED
    BY <2>2, BookingShrinks
<1>6. CASE Crash \/ GwTick \/ Reconcile \/ \E f \in Files : EditFile(f)
  BY <1>2, <1>6 DEF Crash, GwTick, Reconcile, EditFile
<1>7. ASSUME NEW r \in Requests,
             \/ Arrive(r) \/ AskMode(r) \/ Authorize(r) \/ Send(r) \/ Fail(r) \/ Receive(r)
             \/ Refresh(r) \/ ReleaseTask(r) \/ Cancel(r) \/ EndStream(r) \/ SettleTask(r)
             \/ \E cost \in Costs : Serve(r, cost)
             \/ \E status \in {"unauthorized", "error"} : Reject(r, status)
      PROVE  ClaimsWithinCap'
  BY <1>2, <1>7 DEF Arrive, AskMode, Authorize, Send, Fail, Receive, Refresh, ReleaseTask,
                    Cancel, EndStream, SettleTask, Serve, Reject
<1>8. ASSUME NEW r \in Requests, ReleaseShared(r) \/ Renew(r) \/ SettleShared(r)
      PROVE  ClaimsWithinCap'
  BY <1>8, ReleaseClaims, RenewClaims, SettleClaims
<1>9. ASSUME NEW r \in Requests, SharedReserve(r) PROVE ClaimsWithinCap'
  <2>1. \/ holds' = holds
        \/ holds' = Swept
        \/ CapAdmits /\ holds' = [Swept EXCEPT ![r] = NewHold(r)]
    BY <1>9 DEF SharedReserve, SharedGranted, SharedRefused, SharedOff
  <2>2. CASE holds' = Swept
    <3>1. HoldsBooked
      BY <2>2, SweptHolds DEF HoldsBooked, GwIInv
    <3> QED
      BY <3>1, BookingShrinks
  <2>3. CASE CapAdmits /\ holds' = [Swept EXCEPT ![r] = NewHold(r)]
    BY <1>1, <2>3, GrantKeepsCap
  <2> QED
    BY <1>2, <2>1, <2>2, <2>3
<1> QED
  BY <1>3, <1>4, <1>5, <1>6, <1>7, <1>8, <1>9 DEF GwNext

LEMMA CapInitially ==
  ASSUME GwInit
  PROVE  ClaimsWithinCap
<1> DEFINE f == [r \in Requests |-> Claim(holds[r])]
<1>1. MaxRows \in Nat /\ Cap \in Nat /\ \A i \in 1..MaxRows : f[i] = 0
  BY ConstantFacts, GatewayAssumption DEF GwInit, Claim, Requests, Ids
<1> HIDE DEF f
<1>2. SumOf(f, MaxRows) = 0
  BY <1>1, SumZero
<1>3. SumOf(f, MaxRows) <= Cap
  BY <1>1, <1>2
<1> QED
  BY <1>3 DEF f, ClaimsWithinCap, Sum

\* A hold claims at least what the provider bills under it.
LEMMA BillIsClaimed ==
  ASSUME GwIInv, BillInv
  PROVE  \A r \in Requests : (IF holds[r] # None THEN bill[r] ELSE 0) \in 0..Claim(holds[r])
<1> SUFFICES ASSUME NEW r \in Requests
             PROVE  (IF holds[r] # None THEN bill[r] ELSE 0) \in 0..Claim(holds[r])
  OBVIOUS
<1>1. /\ Claim(holds[r]) \in Nat /\ bill[r] \in 0..Worst /\ Worst \in Nat
      /\ bill[r] > 0 => reply[r] = "ok"
  BY ClaimNat, ConstantFacts DEF GwIInv, TypesInv, BillInv
<1>2. CASE holds[r] # None
  <2>1. holds[r].state \in {"active", "settled", "released"}
    BY <1>2 DEF GwIInv, TypesInv, Opt, Hold
  <2> QED
    BY <1>1, <1>2, <2>1 DEF GwIInv, HoldsInv, Claim
<1> QED
  BY <1>1, <1>2

\* The hard cap, for any number of requests and starts: what the provider bills
\* under shared holds stays within the month's cap, whatever is dropped, lapses,
\* fails to settle or dies (proxy.rs, shared_budget.rs).
THEOREM CapIsHard ==
  ASSUME TRUE \notin Lossy
  PROVE  GwSpec => []SpendWithinCap
<1>1. GwIInv /\ BillInv /\ ClaimsWithinCap => SpendWithinCap
  <2> SUFFICES ASSUME GwIInv, BillInv, ClaimsWithinCap PROVE SpendWithinCap
    OBVIOUS
  <2> DEFINE f == [r \in Requests |-> IF holds[r] # None THEN bill[r] ELSE 0]
             g == [r \in Requests |-> Claim(holds[r])]
  <2>1. MaxRows \in Nat /\ Requests = 1..MaxRows /\ Cap \in Int
    BY ConstantFacts, GatewayAssumption DEF Requests, Ids
  <2>2. \A i \in 1..MaxRows : f[i] \in Int /\ g[i] \in Int /\ f[i] <= g[i]
    <3>1. \A r \in Requests : f[r] \in 0..g[r] /\ g[r] \in Nat
      BY BillIsClaimed, ClaimNat DEF GwIInv
    <3> HIDE DEF f, g
    <3> QED
      BY <2>1, <3>1
  <2>3. SumOf(g, MaxRows) <= Cap
    BY DEF ClaimsWithinCap, Sum
  <2> HIDE DEF f, g
  <2>4. SumOf(f, MaxRows) \in Int /\ SumOf(g, MaxRows) \in Int
    BY <2>1, <2>2, SumInt
  <2>5. SumOf(f, MaxRows) <= SumOf(g, MaxRows)
    BY <2>1, <2>2, SumMonotone
  <2>6. SumOf(f, MaxRows) <= Cap
    BY <2>1, <2>3, <2>4, <2>5
  <2> QED
    BY <2>6 DEF f, SpendWithinCap, Sum
<1>2. GwInit => GwIInv /\ BillInv /\ ClaimsWithinCap
  BY InvInit, BillInitially, CapInitially
<1>3. GwIInv /\ BillInv /\ ClaimsWithinCap /\ [GwNext]_gwVars
        => GwIInv' /\ BillInv' /\ ClaimsWithinCap'
  BY InvNext, BillNext, CapStep
<1> QED
  BY <1>1, <1>2, <1>3, PTL DEF GwSpec
=============================================================================
