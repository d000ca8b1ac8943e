---------------------------- MODULE Daemon_proofs ----------------------------
(***************************************************************************)
(* What the daemon's processes and what they keep on disk promise.         *)
(*                                                                         *)
(* One daemon, for any number of processes.  A process that listens, and   *)
(* that nobody raced when it began to, has the socket file, and no start   *)
(* is about to remove it (HoldsSocket): from then on every probe finds it, *)
(* and a start unlinks only after a probe that found nobody.  Whom the     *)
(* record or a stop names has served or is gone, unless its process id was *)
(* handed out again (NamedHasServed).                                      *)
(*                                                                         *)
(* Deliveries, for any number of events, attempts and faults.  A           *)
(* dispatcher that holds a success has it for the first item of its        *)
(* batch, and the receiver has that event (SuccessWasSeen); nothing else   *)
(* marks a row delivered.                                                  *)
(*                                                                         *)
(* The adapter catalog and the host connection, for any number of          *)
(* processes, commands, versions of the code, edits and failures.  A       *)
(* process past its reservation holds the lock, and the document it works  *)
(* on is the catalog itself (HolderIsCurrent): Begin compares them once,   *)
(* and from then on nobody else commits.  So a commit, which is computed   *)
(* from the document alone, replaces exactly what it was made from.  Trust *)
(* follows: it is committed with the registration it names and the code an *)
(* operator was shown, or taken over from the catalog.  The files are      *)
(* changed one after the other, by commands that may die in between and by *)
(* the user.  FilesInv says what the record and the settings tell of each  *)
(* other at any time, and what a command at each of its steps may rely on: *)
(* of the record because it holds the reservation, of a file as long as    *)
(* nobody changed it since it was captured (dirty), and between its last   *)
(* look and its rename on nothing at all once the user was there (late).   *)
(***************************************************************************)
EXTENDS EventDaemon, HostConfig, TLAPS

ProcessesTyped ==
  /\ pc \in [Daemons -> {"down", "serving"} \cup Starting]
  /\ listening \in [Daemons -> BOOLEAN]
  /\ path \in Daemons \cup {NoDaemon}
  /\ pidFile \in Daemons \cup {NoDaemon}
  /\ stop \in [step : {"idle", "identity", "socket", "kill"}, pid : Daemons \cup {NoDaemon}]
  /\ stop.step # "idle" => stop.pid \in Daemons

ListenersServe == \A p \in Daemons : listening[p] <=> pc[p] \in {"harden", "record", "serving"}

\* A listener that nobody raced has the file, and no start is about to remove it.
HoldsSocket == \A p, q \in Daemons : listening[p] /\ p \notin raced => path = p /\ pc[q] # "unlink"

\* Whom the record or a stop names, if he is not a newcomer under that process id,
\* has come as far as writing the record, or is gone.
NamedHasServed ==
  \A p \in Daemons : p \in {pidFile, stop.pid} /\ p \notin reused => pc[p] \in {"down", "serving"}

StartInv == ProcessesTyped /\ ListenersServe /\ HoldsSocket /\ NamedHasServed

LEMMA StartInvSuffices ==
  ASSUME StartInv
  PROVE  OneDaemon
<1>1. ListenerKeepsSocket
  BY DEF StartInv, ListenerKeepsSocket, HoldsSocket
<1>2. ASSUME stop.step = "kill", pc[stop.pid] # "down"
      PROVE  \/ path = stop.pid
             \/ stop.pid \in raced
             \/ stop.pid \in reused /\ pc[stop.pid] \in Starting
  <2>1. stop.pid \in Daemons
    BY <1>2 DEF StartInv, ProcessesTyped
  <2>2. CASE pc[stop.pid] = "serving"
    <3>1. listening[stop.pid]
      BY <2>1, <2>2 DEF StartInv, ListenersServe
    <3> QED
      BY <1>1, <2>1, <3>1 DEF ListenerKeepsSocket
  <2>3. CASE pc[stop.pid] # "serving"
    <3>1. stop.pid \in reused
      BY <1>2, <2>1, <2>3 DEF StartInv, NamedHasServed
    <3>2. pc[stop.pid] \in Starting
      BY <1>2, <2>1, <2>3 DEF StartInv, ProcessesTyped
    <3> QED
      BY <3>1, <3>2
  <2> QED
    BY <2>2, <2>3
<1> QED
  BY <1>1, <1>2 DEF OneDaemon, StopHitsTheDaemon
-----------------------------------------------------------------------------
(* The steps of the processes.                                             *)

LEMMA SpawnStart ==
  ASSUME StartInv, NEW p \in Daemons, Spawn(p)
  PROVE  StartInv'
<1>1. /\ UNCHANGED <<listening, path, pidFile, stop, raced>>
      /\ pc[p] = "down" /\ pc'[p] = "bind"
      /\ \A q \in Daemons : q # p => pc'[q] = pc[q]
  BY DEF Spawn, StartInv, ProcessesTyped
<1>2. ProcessesTyped'
  BY DEF StartInv, ProcessesTyped, Spawn, Starting
<1>3. ListenersServe'
  BY <1>1 DEF StartInv, ListenersServe
<1>4. HoldsSocket'
  BY <1>1 DEF StartInv, HoldsSocket
<1>5. NamedHasServed'
  <2>1. p \in {pidFile, stop.pid} => p \in reused'
    BY DEF Spawn
  <2>2. \A q \in Daemons : q \in reused => q \in reused'
    BY DEF Spawn
  <2> QED
    BY <1>1, <2>1, <2>2 DEF StartInv, NamedHasServed
<1> QED
  BY <1>2, <1>3, <1>4, <1>5 DEF StartInv

\* A process takes a free path: then nobody who was not raced listened.
LEMMA BoundStart ==
  ASSUME StartInv, NEW p \in Daemons, path = NoDaemon, pc[p] \in {"bind", "rebind"}, Bound(p),
         UNCHANGED <<listening, pidFile, stop, raced, reused>>
  PROVE  StartInv'
<1>1. /\ path' = p
      /\ pc'[p] = "listen"
      /\ \A q \in Daemons : q # p => pc'[q] = pc[q]
  BY DEF Bound, StartInv, ProcessesTyped
<1>2. ProcessesTyped'
  BY DEF StartInv, ProcessesTyped, Bound, Starting
<1>3. ListenersServe'
  BY <1>1 DEF StartInv, ListenersServe
<1>4. \A q \in Daemons : listening[q] => q \in raced
  BY StartAssumption DEF StartInv, HoldsSocket
<1>5. HoldsSocket'
  BY <1>4 DEF HoldsSocket
<1>6. NamedHasServed'
  BY <1>1 DEF StartInv, NamedHasServed
<1> QED
  BY <1>2, <1>3, <1>5, <1>6 DEF StartInv

\* A start that goes on without binding, or leaves before it listens.
LEMMA GoesOn ==
  ASSUME StartInv, NEW p \in Daemons, NEW to \in {"down", "probe", "unlink", "rebind"},
         pc[p] \in {"bind", "probe", "unlink", "rebind"}, pc' = [pc EXCEPT ![p] = to],
         UNCHANGED <<listening, path, pidFile, stop, raced, reused>>,
         to = "unlink" => ~Reachable
  PROVE  StartInv'
<1>1. pc'[p] = to /\ \A q \in Daemons : q # p => pc'[q] = pc[q]
  BY DEF StartInv, ProcessesTyped
<1>2. ProcessesTyped'
  BY DEF StartInv, ProcessesTyped, Starting
<1>3. ListenersServe'
  BY <1>1 DEF StartInv, ListenersServe
<1>4. HoldsSocket'
  <2>1. to = "unlink" => \A q \in Daemons : listening[q] => q \in raced
    BY DEF Reachable, StartInv, HoldsSocket
  <2> QED
    BY <1>1, <2>1 DEF StartInv, HoldsSocket
<1>5. NamedHasServed'
  BY <1>1 DEF StartInv, NamedHasServed
<1> QED
  BY <1>2, <1>3, <1>4, <1>5 DEF StartInv

LEMMA BindStart ==
  ASSUME StartInv, NEW p \in Daemons, Bind(p) \/ Rebind(p) \/ Probe(p)
  PROVE  StartInv'
<1>1. CASE Bind(p)
  <2>1. CASE path = NoDaemon /\ Bound(p)
    BY <1>1, <2>1, BoundStart DEF Bind
  <2>2. CASE pc' = [pc EXCEPT ![p] = "probe"] /\ UNCHANGED path
    BY <1>1, <2>2, GoesOn DEF Bind
  <2> QED
    BY <1>1, <2>1, <2>2 DEF Bind
<1>2. CASE Rebind(p)
  <2>1. CASE path = NoDaemon /\ Bound(p)
    BY <1>2, <2>1, BoundStart DEF Rebind
  <2>2. CASE pc' = [pc EXCEPT ![p] = "down"] /\ UNCHANGED path
    BY <1>2, <2>2, GoesOn DEF Rebind
  <2> QED
    BY <1>2, <2>1, <2>2 DEF Rebind
<1>3. CASE Probe(p)
  <2>1. CASE Reachable
    <3>1. pc' = [pc EXCEPT ![p] = "down"]
      BY <1>3, <2>1 DEF Probe
    <3> QED
      BY <1>3, <3>1, GoesOn DEF Probe
  <2>2. CASE ~Reachable
    <3>1. pc' = [pc EXCEPT ![p] = "unlink"]
      BY <1>3, <2>2 DEF Probe
    <3> QED
      BY <1>3, <2>2, <3>1, GoesOn DEF Probe
  <2> QED
    BY <2>1, <2>2
<1> QED
  BY <1>1, <1>2, <1>3

\* Whose file a start unlinks was raced by it.
LEMMA UnlinkStart ==
  ASSUME StartInv, NEW p \in Daemons, Unlink(p)
  PROVE  StartInv'
<1> DEFINE to == IF path = NoDaemon THEN "down" ELSE "rebind"
<1>1. /\ UNCHANGED <<listening, pidFile, stop, raced, reused>> /\ path' = NoDaemon
      /\ pc[p] = "unlink" /\ pc' = [pc EXCEPT ![p] = to]
  BY DEF Unlink
<1>2. to \in {"down", "rebind"}
  OBVIOUS
<1> HIDE DEF to
<1>3. pc'[p] = to /\ \A q \in Daemons : q # p => pc'[q] = pc[q]
  BY <1>1 DEF StartInv, ProcessesTyped
<1>4. ProcessesTyped'
  BY <1>1, <1>2 DEF StartInv, ProcessesTyped, Starting
<1>5. ListenersServe'
  BY <1>1, <1>2, <1>3 DEF StartInv, ListenersServe
<1>6. \A q \in Daemons : listening[q] => q \in raced
  BY <1>1 DEF StartInv, HoldsSocket
<1>7. HoldsSocket'
  BY <1>1, <1>6 DEF HoldsSocket
<1>8. NamedHasServed'
  BY <1>1, <1>2, <1>3 DEF StartInv, NamedHasServed
<1> QED
  BY <1>4, <1>5, <1>7, <1>8 DEF StartInv

LEMMA ListenStart ==
  ASSUME StartInv, NEW p \in Daemons, Listen(p)
  PROVE  StartInv'
<1>1. /\ UNCHANGED <<path, pidFile, stop, reused>>
      /\ pc[p] = "listen" /\ pc'[p] = "harden" /\ listening'[p]
      /\ \A q \in Daemons : q # p => pc'[q] = pc[q] /\ (listening'[q] <=> listening[q])
  BY DEF Listen, StartInv, ProcessesTyped
<1>2. ProcessesTyped'
  BY DEF StartInv, ProcessesTyped, Listen, Starting
<1>3. ListenersServe'
  BY <1>1 DEF StartInv, ListenersServe
<1>4. HoldsSocket'
  <2>1. p \notin raced' => path = p /\ \A q \in Daemons : pc[q] # "unlink"
    BY DEF Listen, Condemned
  <2>2. \A q \in Daemons : q \in raced => q \in raced'
    BY DEF Listen
  <2> QED
    BY <1>1, <2>1, <2>2 DEF StartInv, HoldsSocket
<1>5. NamedHasServed'
  BY <1>1 DEF StartInv, NamedHasServed
<1> QED
  BY <1>2, <1>3, <1>4, <1>5 DEF StartInv

\* A process that is gone, whoever ended it.
LEMMA GoneStart ==
  ASSUME StartInv, NEW p \in Daemons, Gone(p), UNCHANGED <<path, pidFile, reused>>,
         stop' \in {stop, IdleStop}
  PROVE  StartInv'
<1>1. /\ pc'[p] = "down" /\ ~listening'[p]
      /\ \A q \in Daemons : q # p => pc'[q] = pc[q] /\ (listening'[q] <=> listening[q])
      /\ \A q \in Daemons : q # p => (q \in raced' <=> q \in raced)
  BY DEF Gone, StartInv, ProcessesTyped
<1>2. ProcessesTyped'
  BY DEF StartInv, ProcessesTyped, Gone, IdleStop
<1>3. ListenersServe'
  BY <1>1 DEF StartInv, ListenersServe
<1>4. HoldsSocket'
  BY <1>1 DEF StartInv, HoldsSocket
<1>5. NamedHasServed'
  <2>1. \A q \in Daemons : q \in {pidFile', stop'.pid} => q \in {pidFile, stop.pid}
    BY StartAssumption DEF IdleStop
  <2> QED
    BY <1>1, <2>1 DEF StartInv, NamedHasServed
<1> QED
  BY <1>2, <1>3, <1>4, <1>5 DEF StartInv

\* A start goes on after it listens.
LEMMA RecordStart ==
  ASSUME StartInv, NEW p \in Daemons, RecordPid(p) \/ Harden(p)
  PROVE  StartInv'
<1>1. CASE path = NoDaemon /\ Harden(p)
  BY <1>1, GoneStart, StartAssumption DEF Harden
<1>2. CASE RecordPid(p) \/ (path # NoDaemon /\ Harden(p))
  <2>1. /\ UNCHANGED <<listening, path, stop, raced>>
        /\ pc[p] \in {"harden", "record"} /\ pc'[p] \in {"record", "serving"}
        /\ \A q \in Daemons : q # p => pc'[q] = pc[q]
    BY <1>2 DEF RecordPid, Harden, Gone, StartInv, ProcessesTyped
  <2>2. ProcessesTyped'
    BY <1>2 DEF StartInv, ProcessesTyped, RecordPid, Harden, Gone, Starting
  <2>3. ListenersServe'
    BY <2>1 DEF StartInv, ListenersServe
  <2>4. HoldsSocket'
    BY <2>1 DEF StartInv, HoldsSocket
  <2>5. NamedHasServed'
    <3>1. CASE UNCHANGED <<pidFile, reused>>
      BY <2>1, <3>1 DEF StartInv, NamedHasServed
    <3>2. CASE RecordPid(p) /\ pidFile' = p /\ reused' = reused \ {p}
      <4>1. pc'[p] = "serving"
        BY <3>2 DEF RecordPid, StartInv, ProcessesTyped
      <4> QED
        BY <2>1, <3>2, <4>1 DEF StartInv, NamedHasServed
    <3> QED
      BY <1>2, <3>1, <3>2 DEF RecordPid, Harden
  <2> QED
    BY <2>2, <2>3, <2>4, <2>5 DEF StartInv
<1> QED
  BY <1>1, <1>2

\* What `daemon stop` and the dispatchers do leaves the processes alone.
LEMMA OnlyStop ==
  ASSUME StartInv, UNCHANGED <<pc, listening, path, pidFile, raced, reused>>,
         stop' \in [step : {"idle", "identity", "socket", "kill"}, pid : Daemons \cup {NoDaemon}],
         stop'.step # "idle" => stop'.pid \in Daemons,
         stop'.pid \in {NoDaemon, pidFile, stop.pid}
  PROVE  StartInv'
<1>1. ProcessesTyped' /\ ListenersServe' /\ HoldsSocket'
  BY DEF StartInv, ProcessesTyped, ListenersServe, HoldsSocket
<1>2. NamedHasServed'
  BY StartAssumption DEF StartInv, NamedHasServed
<1> QED
  BY <1>1, <1>2 DEF StartInv

LEMMA StopStart ==
  ASSUME StartInv, StopRead \/ StopIdentity \/ StopSocket
  PROVE  StartInv'
<1>1. UNCHANGED <<pc, listening, path, pidFile, raced, reused>>
  BY DEF StopRead, StopIdentity, StopSocket
<1>2. /\ stop' \in [step : {"idle", "identity", "socket", "kill"}, pid : Daemons \cup {NoDaemon}]
      /\ stop'.step # "idle" => stop'.pid \in Daemons
      /\ stop'.pid \in {NoDaemon, pidFile, stop.pid}
  <2>1. CASE StopRead
    BY <2>1 DEF StopRead, StartInv, ProcessesTyped
  <2>2. CASE StopIdentity
    BY <2>2 DEF StopIdentity, StartInv, ProcessesTyped, IdleStop
  <2>3. CASE StopSocket
    BY <2>3 DEF StopSocket, StartInv, ProcessesTyped, IdleStop
  <2> QED
    BY <2>1, <2>2, <2>3
<1> QED
  BY <1>1, <1>2, OnlyStop
-----------------------------------------------------------------------------
(* The dispatchers.                                                        *)

\* Of the rows and threads only their shape and the state count here.
IsRow(r) == r = [state |-> r.state, attempts |-> r.attempts, wait |-> r.wait]
IsThread(t) == t = [on |-> t.on, batch |-> t.batch, answer |-> t.answer]

RowsFine ==
  /\ rows = [e \in Events |-> rows[e]] /\ \A e \in Events : IsRow(rows[e])
  /\ DeliveredWasReceived

ThreadsShaped == disp = [d \in Dispatchers |-> disp[d]] /\ \A d \in Dispatchers : IsThread(disp[d])

AnswerHasItem == \A d \in Dispatchers : disp[d].answer # "none" => disp[d].batch # <<>>

SuccessWasSeen ==
  \A d \in Dispatchers : disp[d].answer = "success" => Head(disp[d].batch).event \in seen

DeliveryInv == RowsFine /\ ThreadsShaped /\ AnswerHasItem /\ SuccessWasSeen

\* One thread changes, and no event is forgotten.
LEMMA ThreadStep ==
  ASSUME DeliveryInv, NEW d \in Dispatchers, NEW t, disp' = [disp EXCEPT ![d] = t], IsThread(t),
         t.answer # "none" => t.batch # <<>>,
         t.answer = "success" => Head(t.batch).event \in seen',
         seen \subseteq seen', RowsFine'
  PROVE  DeliveryInv'
<1>1. /\ disp' = [k \in Dispatchers |-> disp'[k]]
      /\ disp'[d] = t /\ \A k \in Dispatchers : k # d => disp'[k] = disp[k]
  BY DEF DeliveryInv, ThreadsShaped
<1>2. ThreadsShaped'
  BY <1>1 DEF DeliveryInv, ThreadsShaped
<1>3. SuccessWasSeen' /\ AnswerHasItem'
  BY <1>1 DEF DeliveryInv, SuccessWasSeen, AnswerHasItem
<1> QED
  BY <1>2, <1>3 DEF DeliveryInv

LEMMA SameRows ==
  ASSUME DeliveryInv, rows' = rows, seen \subseteq seen'
  PROVE  RowsFine'
BY DEF DeliveryInv, RowsFine, DeliveredWasReceived

LEMMA StartEndDelivery ==
  ASSUME DeliveryInv, NEW d \in Dispatchers, DispatcherStart(d) \/ DispatcherEnd(d),
         UNCHANGED <<rows, seen>>
  PROVE  DeliveryInv'
<1>1. IsThread(Off) /\ IsThread(Polling) /\ Off.answer = "none" /\ Polling.answer = "none"
  BY DEF IsThread, Off, Polling
<1> QED
  BY <1>1, SameRows, ThreadStep DEF DispatcherStart, DispatcherEnd

LEMMA PollDelivery ==
  ASSUME DeliveryInv, NEW d \in Dispatchers, Poll(d)
  PROVE  DeliveryInv'
<1> DEFINE t == [disp[d] EXCEPT !.batch = due_deliveries]
<1>1. IsThread(disp[d]) /\ disp[d].answer = "none"
  BY DEF DeliveryInv, ThreadsShaped, AnswerHasItem, Poll
<1>2. IsThread(t) /\ t.answer = "none"
  BY <1>1 DEF IsThread
<1>3. disp' = [disp EXCEPT ![d] = t] /\ UNCHANGED <<rows, seen>>
  BY DEF Poll
<1> HIDE DEF t
<1> QED
  BY <1>2, <1>3, SameRows, ThreadStep

LEMMA PostDelivery ==
  ASSUME DeliveryInv, NEW d \in Dispatchers, post_signed(d)
  PROVE  DeliveryInv'
<1>1. PICK answer \in Answers, got \in BOOLEAN :
        /\ got \/ answer = "error"
        /\ disp' = [disp EXCEPT ![d].answer = answer]
        /\ seen' = IF got THEN seen \cup {Head(disp[d].batch).event} ELSE seen
  BY DEF post_signed
<1> DEFINE t == [disp[d] EXCEPT !.answer = answer]
<1>2. IsThread(disp[d])
  BY DEF DeliveryInv, ThreadsShaped
<1>3. IsThread(t) /\ t.answer = answer /\ t.batch = disp[d].batch
  BY <1>2 DEF IsThread
<1>4. disp' = [disp EXCEPT ![d] = t] /\ rows' = rows /\ t.batch # <<>>
  BY <1>1, <1>3 DEF post_signed
<1>5. answer = "success" => Head(t.batch).event \in seen'
  BY <1>1, <1>3
<1>6. seen \subseteq seen'
  BY <1>1
<1> HIDE DEF t
<1> QED
  BY <1>3, <1>4, <1>5, <1>6, SameRows, ThreadStep

\* One row changes: it says delivered only of what was received.
LEMMA RowStep ==
  ASSUME DeliveryInv, NEW e, NEW r, rows' = [rows EXCEPT ![e] = r],
         e \in Events => IsRow(r),
         r.state = "delivered" => e \in seen, seen' = seen
  PROVE  RowsFine'
<1>1. /\ rows' = [k \in Events |-> rows'[k]]
      /\ \A k \in Events : rows'[k] = IF k = e THEN r ELSE rows[k]
  BY DEF DeliveryInv, RowsFine
<1>2. \A k \in Events : IsRow(rows'[k])
  BY <1>1 DEF DeliveryInv, RowsFine
<1>3. DeliveredWasReceived'
  BY <1>1 DEF DeliveryInv, RowsFine, DeliveredWasReceived
<1> QED
  BY <1>1, <1>2, <1>3 DEF RowsFine

\* Two fields of a record changed at once, one after the other.
LEMMA RowEdit ==
  ASSUME NEW r, IsRow(r)
  PROVE  IsRow([r EXCEPT !.state = "delivered", !.attempts = @ + 1])
<1> DEFINE y == [r EXCEPT !.state = "delivered"]
           x == [y EXCEPT !.attempts = @ + 1]
<1>1. IsRow(y)
  BY DEF IsRow
<1>2. [r EXCEPT !.state = "delivered", !.attempts = @ + 1] = x
  OBVIOUS
<1> HIDE DEF y
<1>3. IsRow(x)
  BY <1>1 DEF IsRow
<1> HIDE DEF x
<1> QED
  BY <1>2, <1>3

LEMMA ThreadEdit ==
  ASSUME NEW t, IsThread(t), NEW b, NEW x, x = [t EXCEPT !.batch = b, !.answer = "none"]
  PROVE  IsThread(x) /\ x.answer = "none"
<1> DEFINE y == [t EXCEPT !.batch = b]
           z == [y EXCEPT !.answer = "none"]
<1>1. IsThread(y)
  BY DEF IsThread
<1>2. x = z
  OBVIOUS
<1> HIDE DEF y
<1>3. IsThread(z) /\ z.answer = "none"
  BY <1>1 DEF IsThread
<1> HIDE DEF z
<1> QED
  BY <1>2, <1>3

\* The mark of an answer: only a success marks a row delivered.
LEMMA MarkedFine ==
  ASSUME DeliveryInv, NEW item, NEW answer, Marked(item, answer),
         answer = "success" => item.event \in seen, seen' = seen
  PROVE  RowsFine'
<1> DEFINE row == rows[item.event]
<1>1. item.event \in Events => IsRow(row)
  BY DEF DeliveryInv, RowsFine
<1>2. CASE answer = "success" /\ rows' = [rows EXCEPT ![item.event] =
             [row EXCEPT !.state = "delivered", !.attempts = @ + 1]]
  <2> DEFINE r == [row EXCEPT !.state = "delivered", !.attempts = @ + 1]
  <2>2. item.event \in Events => IsRow(r)
    BY <1>1, RowEdit
  <2>3. rows' = [rows EXCEPT ![item.event] = r]
    BY <1>2
  <2> HIDE DEF r
  <2> QED
    BY <1>2, <2>2, <2>3, RowStep
<1>3. ASSUME NEW to \in {"abandoned", "pending"}, NEW left,
             rows' = [rows EXCEPT ![item.event] =
               [state |-> to, attempts |-> row.attempts + 1, wait |-> left]]
      PROVE  RowsFine'
  <2> DEFINE r == [state |-> to, attempts |-> row.attempts + 1, wait |-> left]
  <2>1. IsRow(r) /\ r.state # "delivered"
    BY DEF IsRow
  <2>2. rows' = [rows EXCEPT ![item.event] = r]
    BY <1>3
  <2> HIDE DEF r
  <2> QED
    BY <2>1, <2>2, RowStep
<1> QED
  BY <1>2, <1>3 DEF Marked

LEMMA MarkDelivery ==
  ASSUME DeliveryInv, NEW d \in Dispatchers, Mark(d) \/ MarkLost(d)
  PROVE  DeliveryInv'
<1> DEFINE t == [disp[d] EXCEPT !.batch = Tail(disp[d].batch), !.answer = "none"]
<1>1. IsThread(disp[d])
  BY DEF DeliveryInv, ThreadsShaped
<1>2. IsThread(t) /\ t.answer = "none"
  BY <1>1, ThreadEdit
<1>3. disp' = [disp EXCEPT ![d] = t] /\ seen' = seen
  BY DEF Mark, MarkLost, NextItem
<1>4. RowsFine'
  <2>1. CASE Mark(d)
    <3>1. disp[d].answer = "success" => Head(disp[d].batch).event \in seen
      BY DEF DeliveryInv, SuccessWasSeen
    <3> QED
      BY <1>3, <2>1, <3>1, MarkedFine DEF Mark
  <2>2. CASE MarkLost(d)
    BY <1>3, <2>2, SameRows DEF MarkLost
  <2> QED
    BY <2>1, <2>2
<1> HIDE DEF t
<1> QED
  BY <1>2, <1>3, <1>4, ThreadStep

LEMMA SameThreads ==
  ASSUME DeliveryInv, RowsFine', UNCHANGED <<disp, seen>>
  PROVE  DeliveryInv'
BY DEF DeliveryInv, ThreadsShaped, AnswerHasItem, SuccessWasSeen

LEMMA EnqueueDelivery ==
  ASSUME DeliveryInv, NEW e \in Events, enqueue_delivery(e)
  PROVE  DeliveryInv'
<1> DEFINE r == [rows[e] EXCEPT !.state = "pending"]
<1>1. IsRow(rows[e])
  BY DEF DeliveryInv, RowsFine
<1>2. IsRow(r) /\ r.state = "pending"
  BY <1>1 DEF IsRow
<1>3. rows' = [rows EXCEPT ![e] = r] /\ UNCHANGED <<disp, seen>>
  BY DEF enqueue_delivery
<1> HIDE DEF r
<1>4. RowsFine'
  BY <1>2, <1>3, RowStep
<1> QED
  BY <1>3, <1>4, SameThreads

LEMMA TickDelivery ==
  ASSUME DeliveryInv, Tick
  PROVE  DeliveryInv'
<1>1. /\ rows' = [e \in Events |-> [rows[e] EXCEPT !.wait = IF @ > 0 THEN @ - 1 ELSE 0]]
      /\ UNCHANGED <<disp, seen>>
  BY DEF Tick
<1>2. ASSUME NEW e \in Events PROVE IsRow(rows'[e]) /\ rows'[e].state = rows[e].state
  <2>1. IsRow(rows[e])
    BY DEF DeliveryInv, RowsFine
  <2>2. rows'[e] = [rows[e] EXCEPT !.wait = IF @ > 0 THEN @ - 1 ELSE 0]
    BY <1>1
  <2> QED
    BY <2>1, <2>2 DEF IsRow
<1>3. RowsFine'
  BY <1>1, <1>2 DEF DeliveryInv, RowsFine, DeliveredWasReceived
<1> QED
  BY <1>1, <1>3, SameThreads

LEMMA SameDelivery ==
  ASSUME DeliveryInv, UNCHANGED deliveryVars
  PROVE  DeliveryInv'
<1>1. UNCHANGED <<rows, disp, seen>>
  BY DEF deliveryVars
<1>2. RowsFine'
  BY <1>1, SameRows
<1> QED
  BY <1>1, <1>2, SameThreads
-----------------------------------------------------------------------------
(* The composition.                                                        *)

EdInv == StartInv /\ DeliveryInv

LEMMA EdInitially ==
  ASSUME EdInit
  PROVE  EdInv
<1>1. StartInv
  <2>1. ProcessesTyped
    BY DEF EdInit, StartInit, ProcessesTyped, IdleStop
  <2> QED
    BY <2>1, StartAssumption DEF EdInit, StartInit, StartInv, ListenersServe, HoldsSocket,
                NamedHasServed, IdleStop
<1>2. DeliveryInv
  BY DEF EdInit, DeliveryInit, DeliveryInv, RowsFine, DeliveredWasReceived, ThreadsShaped,
         AnswerHasItem, SuccessWasSeen, IsRow, IsThread, NoRow, Off
<1> QED
  BY <1>1, <1>2 DEF EdInv

LEMMA SameStart ==
  ASSUME StartInv, UNCHANGED <<pc, listening, path, pidFile, stop, raced, reused>>
  PROVE  StartInv'
<1>1. /\ stop' \in [step : {"idle", "identity", "socket", "kill"}, pid : Daemons \cup {NoDaemon}]
      /\ stop'.step # "idle" => stop'.pid \in Daemons
  BY DEF StartInv, ProcessesTyped
<1> QED
  BY <1>1, OnlyStop

LEMMA EdStep ==
  ASSUME EdInv, [EdNext]_edVars
  PROVE  EdInv'
<1>1. StartInv /\ DeliveryInv
  BY DEF EdInv
<1>2. ASSUME NEW p \in Daemons,
             Spawn(p) \/ Bind(p) \/ Probe(p) \/ Unlink(p) \/ Rebind(p) \/ Listen(p) \/ Harden(p),
             UNCHANGED deliveryVars
      PROVE  EdInv'
  BY <1>1, <1>2, SpawnStart, BindStart, UnlinkStart, ListenStart, RecordStart, SameDelivery
     DEF EdInv
<1>3. ASSUME NEW p \in Daemons, StartServing(p) PROVE EdInv'
  <2>1. StartInv'
    BY <1>1, <1>3, RecordStart DEF StartServing
  <2>2. DeliveryInv'
    BY <1>1, <1>3, StartEndDelivery, SameProcesses DEF StartServing
  <2> QED
    BY <2>1, <2>2 DEF EdInv
<1>4. ASSUME NEW p \in Daemons, Gone(p), UNCHANGED <<path, pidFile, reused>>,
             stop' \in {stop, IdleStop}, DaemonEnds(p)
      PROVE  EdInv'
  <2>1. StartInv'
    BY <1>1, <1>4, GoneStart
  <2>2. DeliveryInv'
    BY <1>1, <1>4, StartEndDelivery, SameProcesses DEF DaemonEnds
  <2> QED
    BY <2>1, <2>2 DEF EdInv
<1>5. ASSUME NEW p \in Daemons, (Crash(p) \/ NewerClient(p)) /\ DaemonEnds(p) PROVE EdInv'
  BY <1>4, <1>5 DEF Crash, NewerClient
<1>6. ASSUME NEW p \in Daemons, Dispatch(p), UNCHANGED startVars PROVE EdInv'
  <2>1. StartInv'
    BY <1>1, <1>6, SameStart DEF startVars
  <2>2. DeliveryInv'
    BY <1>1, <1>6, PollDelivery, PostDelivery, MarkDelivery, SameProcesses DEF Dispatch
  <2> QED
    BY <2>1, <2>2 DEF EdInv
<1>7. ASSUME NEW p \in Daemons, LoseMark(p) PROVE EdInv'
  <2>1. StartInv'
    BY <1>1, <1>7, SameStart DEF LoseMark
  <2>2. DeliveryInv'
    BY <1>1, <1>7, MarkDelivery, SameProcesses DEF LoseMark
  <2> QED
    BY <2>1, <2>2 DEF EdInv
<1>8. CASE (StopRead \/ StopIdentity \/ StopSocket) /\ UNCHANGED deliveryVars
  BY <1>1, <1>8, StopStart, SameDelivery DEF EdInv
<1>9. CASE StopKill /\ DaemonEnds(stop.pid)
  <2>1. stop.pid \in Daemons
    BY <1>1, <1>9 DEF StopKill, StartInv, ProcessesTyped
  <2> QED
    BY <1>4, <1>9, <2>1 DEF StopKill
<1>10. ASSUME NEW e \in Events, Enqueue(e) PROVE EdInv'
  <2>1. StartInv'
    BY <1>1, <1>10, SameStart DEF Enqueue, startVars
  <2>2. DeliveryInv'
    BY <1>1, <1>10, EnqueueDelivery DEF Enqueue
  <2> QED
    BY <2>1, <2>2 DEF EdInv
<1>11. CASE Tick /\ UNCHANGED startVars
  <2>1. StartInv'
    BY <1>1, <1>11, SameStart DEF startVars
  <2> QED
    BY <1>1, <1>11, <2>1, TickDelivery DEF EdInv
<1>12. CASE UNCHANGED edVars
  <2>1. StartInv'
    BY <1>1, <1>12, SameStart DEF edVars, startVars
  <2>2. DeliveryInv'
    BY <1>1, <1>12, SameDelivery DEF edVars
  <2> QED
    BY <2>1, <2>2 DEF EdInv
<1> QED
  BY <1>2, <1>3, <1>5, <1>6, <1>7, <1>8, <1>9, <1>10, <1>11, <1>12 DEF EdNext

LEMMA EdInvariance == EdSpec => []EdInv
<1>1. EdInit => EdInv
  BY EdInitially
<1>2. EdInv /\ [EdNext]_edVars => EdInv'
  BY EdStep
<1> QED
  BY <1>1, <1>2, PTL DEF EdSpec

\* For any number of processes, crashes, upgrades, stops and lost pid records: the
\* process that listens has the socket file, unless, when it began to listen,
\* another start had removed that file or had found nobody behind it and was about
\* to (bind_or_detect_running). A stop that passed its checks reaches the daemon
\* at the path, one that lost its file so, or a start under a recycled process id.
THEOREM OneDaemonAtATime == EdSpec => []OneDaemon
<1>1. EdInv => OneDaemon
  BY StartInvSuffices DEF EdInv
<1> QED
  BY <1>1, EdInvariance, PTL

\* For any number of dispatchers over one queue, events, ladders and batch limits:
\* a row that says delivered is of an event the receiver got, whatever timeouts,
\* lost marks and ends of processes lie between the send and the mark, which looks
\* at no state of the row (crates/extension/src/dispatcher.rs).
THEOREM DeliveredIsReceived == EdSpec => []DeliveredWasReceived
<1>1. EdInv => DeliveredWasReceived
  BY DEF EdInv, DeliveryInv, RowsFine
<1> QED
  BY <1>1, EdInvariance, PTL
-----------------------------------------------------------------------------

\* Of a document and a process only the fields count, not what is in them.
IsDoc(d) == d = [rev |-> d.rev, reg |-> d.reg, trust |-> d.trust, record |-> d.record]
IsProc(x) == x = [pc |-> x.pc, op |-> x.op, doc |-> x.doc, seen |-> x.seen]

\* Where a process is that holds no reservation.
Free == {"idle", "begin", "launch", "accept", "accepted", "admitted"}

Shaped ==
  /\ IsDoc(catalog)
  /\ proc = [p \in Procs |-> proc[p]] /\ \A p \in Procs : IsProc(proc[p])

HolderIsCurrent ==
  \A p \in Procs : proc[p].pc \notin Free => lock = p /\ proc[p].doc = catalog

AppliesItsOwn == \A p \in Procs : proc[p].pc = "apply" => proc[p].op \in RegistryOps

HcInv == Shaped /\ HolderIsCurrent /\ AppliesItsOwn /\ TrustWasReviewed
(* The files.  What holds of them half-way through a command is in Stage;   *)
(* what the record and the settings say of each other at any time is in    *)
(* RecordFits and TargetFits.                                              *)

Conns == [known : BOOLEAN, fp : Targets, owned : BOOLEAN]
Pends == [op : Lifecycle \cup {"none"}, phase : {"none", "prepared", "gate_closed"}, base : Nat,
          before : Targets, after : Targets, ownedBefore : BOOLEAN, ownedAfter : BOOLEAN]
Records == [inst : Nat, installed : BOOLEAN, enabled : BOOLEAN, conn : Conns, pend : Pends, rev : Nat,
            bin : {0, 1}]

FilesTyped ==
  /\ catalog.rev \in Nat /\ catalog.record \in Records
  /\ target \in Targets /\ dirty \in [Procs -> SUBSET {"target", "artifact"}] /\ binary \in {0, 1}

\* Whose callbacks the settings may hold: nobody's, another state root's, or those
\* of an installation the user put back behind a command's last look.
Others == {0, Elsewhere} \cup loose

\* A pending record is not enabled; a prepared intent plans callbacks that are
\* ours exactly when it enables, in settings that keep the user's content.
RecordFits(r) ==
  /\ r.inst = 0 => r = NoRecord
  /\ r.pend.op = "none" => r.pend.phase = "none"
  /\ r.pend.op # "none" => ~r.enabled
  /\ r.pend.op = "install" => ~r.conn.known
  /\ Prepared(r) /\ r.pend.op # "install" =>
       /\ r.pend.after.inst \in Others \cup {r.inst}
       /\ r.pend.ownedAfter = (r.pend.op = "enable")
       /\ r.pend.op # "enable" => r.pend.after.inst # r.inst
       /\ r.pend.after.note = r.pend.before.note

\* The callbacks are not the record's before it was enabled once.
TargetFits ==
  /\ target.inst \in Others \cup {catalog.record.inst}
  /\ catalog.record.inst = 0 \/ catalog.record.pend.op = "install" => target.inst \in Others

Changes == {"enable", "disable", "uninstall"}

\* A command that read the catalog: what it was admitted for.
ReadStage(p) ==
  LET op == proc[p].op
  IN proc[p].pc = "begin" =>
       /\ op \in RegistryOps \cup Lifecycle \cup {"admit", "legacy_on", "legacy_off"}
       /\ op \in Lifecycle => admissible(op, Record(p))
       /\ op = "legacy_on" => Record(p).inst = 0

Installing == {"create", "finish_install", "install_commit", "reconcile", "withdraw"}
Changing == {"revert", "replace", "publish", "complete", "remove", "recheck", "commit"}

\* A command that holds the reservation: what it may rely on of the record.
RecordStage(p) ==
  LET r == catalog.record
      at == proc[p].pc
      op == proc[p].op
  IN /\ at = "install_intent" => r.inst = 0 /\ op = "install"
     /\ at \in Installing => r.inst # 0 /\ r.pend.op = "install" /\ op = "install"
     /\ at = "gate" => op = "disable" /\ r.inst # 0 /\ Settled(r)
     /\ at \in {"observe", "intent"} \cup Changing =>
          op \in Changes /\ r.inst # 0 /\ r.pend.op \in {"none", op}
     /\ at \in Changing => r.pend.op = op /\ Prepared(r)
     /\ at = "unlink" =>
          /\ r.inst # 0 /\ r.pend.op = op
          /\ op = "install" \/ (op \in Changes /\ Prepared(r))
     /\ at = "revert" => op = "enable"
     /\ at \in {"remove", "recheck"} => op = "uninstall"
     /\ at \in {"legacy", "legacy_publish"} /\ op = "legacy_on" => r.inst = 0

\* What it captured of the settings.
SeenStage(p) ==
  LET r == catalog.record
      at == proc[p].pc
      was == proc[p].seen
  IN /\ at \in {"intent", "revert", "replace", "publish", "legacy_publish"} =>
          was \in Targets /\ was.inst \in Others \cup {r.inst}
     /\ at \in {"intent", "revert", "replace"} => "target" \in dirty[p] \/ was = target
     /\ at \in Publishing => p \in late \/ was = target
     /\ at = "legacy_publish" =>
          /\ "target" \in drift \/ was = target
          /\ r.inst = 0 \/ r.pend.op = "install" => was.inst \in Others
     /\ at = "intent" => ~Partial(r, was)
     /\ at = "revert" => was.inst # r.inst
     /\ at \in {"replace", "publish"} => r.pend.before = was

\* What it may rely on of a file while nobody changed it.
FileStage(p) ==
  LET r == catalog.record
      at == proc[p].pc
      op == proc[p].op
  IN /\ "artifact" \notin dirty[p] =>
          /\ at \in {"install_commit", "revert"} => artifact = "exact"
          /\ at \in {"withdraw", "recheck"} => artifact = "absent"
          /\ at = "commit" => artifact = IF op = "uninstall" THEN "absent" ELSE "exact"
     /\ "target" \notin dirty[p] /\ at \in {"remove", "recheck", "commit"} =>
          target = r.pend.after /\ (op = "enable" => connected(r, target))

Stages(p) == ReadStage(p) /\ RecordStage(p) /\ SeenStage(p) /\ FileStage(p)

FilesInv ==
  /\ FilesTyped /\ RecordFits(catalog.record) /\ TargetFits /\ SettledIsTrue
  /\ \A p \in Procs : Stages(p)
-----------------------------------------------------------------------------
\* A step of one process that leaves the others their reservation, and the catalog
\* too unless it holds the reservation itself.
LEMMA ProcStep ==
  ASSUME HcInv, NEW p \in Procs, NEW x, proc' = [proc EXCEPT ![p] = x], IsProc(x),
         catalog' = catalog \/ lock = p, IsDoc(catalog'),
         x.pc \notin Free => lock' = p /\ x.doc = catalog',
         x.pc = "apply" => x.op \in RegistryOps,
         \A q \in Procs : q # p /\ lock = q => lock' = q,
         TrustWasReviewed'
  PROVE  HcInv'
<1>1. /\ proc' = [q \in Procs |-> proc'[q]]
      /\ proc'[p] = x /\ \A q \in Procs : q # p => proc'[q] = proc[q]
  BY DEF HcInv, Shaped
<1>2. Shaped'
  BY <1>1 DEF HcInv, Shaped
<1>3. HolderIsCurrent'
  BY <1>1 DEF HcInv, HolderIsCurrent
<1>4. AppliesItsOwn'
  BY <1>1 DEF HcInv, AppliesItsOwn
<1> QED
  BY <1>2, <1>3, <1>4 DEF HcInv

\* Trust that is not touched stays reviewed: no review is forgotten.
LEMMA SameTrust ==
  ASSUME HcInv, catalog'.trust = catalog.trust, catalog'.reg = catalog.reg, reviews \subseteq reviews'
  PROVE  TrustWasReviewed'
BY DEF HcInv, TrustWasReviewed

\* A process goes on without a commit.
LEMMA NoCommit ==
  ASSUME HcInv, NEW p \in Procs, NEW x, proc' = [proc EXCEPT ![p] = x], IsProc(x),
         UNCHANGED <<catalog, reviews>>,
         x.pc \notin Free => lock' = p /\ x.doc = catalog,
         x.pc = "apply" => x.op \in RegistryOps,
         \A q \in Procs : q # p /\ lock = q => lock' = q
  PROVE  HcInv'
<1>1. TrustWasReviewed' /\ IsDoc(catalog')
  BY SameTrust DEF HcInv, Shaped
<1> QED
  BY <1>1, ProcStep

LEMMA DoneStep ==
  ASSUME HcInv, NEW p \in Procs, Done(p), UNCHANGED <<catalog, reviews>>
  PROVE  HcInv'
<1>1. IsProc(Idle) /\ Idle.pc = "idle"
  BY DEF IsProc, Idle
<1>2. \A q \in Procs : q # p /\ lock = q => lock' = q
  BY DEF Done, Release
<1> QED
  BY <1>1, <1>2, NoCommit DEF Done, Free

LEMMA SnapshotStep ==
  ASSUME HcInv, NEW p \in Procs, NEW op, Snapshot(p, op), UNCHANGED <<catalog, lock, reviews>>
  PROVE  HcInv'
<1> DEFINE x == [pc |-> "begin", op |-> op, doc |-> catalog, seen |-> "none"]
<1>1. IsProc(x) /\ x.pc = "begin"
  BY DEF IsProc
<1>2. proc' = [proc EXCEPT ![p] = x]
  BY DEF Snapshot
<1> HIDE DEF x
<1> QED
  BY <1>1, <1>2, NoCommit DEF Free

LEMMA BeginStep ==
  ASSUME HcInv, NEW p \in Procs, NEW to, Begin(p, to), UNCHANGED <<catalog, reviews>>,
         to = "apply" => proc[p].op \in RegistryOps
  PROVE  HcInv'
<1> DEFINE x == [proc[p] EXCEPT !.pc = to]
<1>1. IsProc(proc[p])
  BY DEF HcInv, Shaped
<1>2. IsProc(x) /\ x.pc = to /\ x.doc = proc[p].doc /\ x.op = proc[p].op
  BY <1>1 DEF IsProc
<1>3. /\ proc' = [proc EXCEPT ![p] = x] /\ lock' = p /\ proc[p].doc = catalog
      /\ \A q \in Procs : lock # q
  BY RegistryAssumption DEF Begin
<1> HIDE DEF x
<1> QED
  BY <1>2, <1>3, NoCommit

\* A process that holds the reservation goes on with the same document.
LEMMA HolderStep ==
  ASSUME HcInv, NEW p \in Procs, NEW x, proc[p].pc \notin Free, proc' = [proc EXCEPT ![p] = x],
         IsProc(x), x.doc = proc[p].doc, x.pc # "apply", UNCHANGED <<catalog, lock, reviews>>
  PROVE  HcInv'
<1>1. lock' = p /\ x.doc = catalog
  BY DEF HcInv, HolderIsCurrent
<1> QED
  BY <1>1, NoCommit

LEMMA GotoStep ==
  ASSUME HcInv, NEW p \in Procs, NEW to, proc[p].pc \notin Free, Goto(p, to), to # "apply",
         UNCHANGED <<catalog, reviews>>
  PROVE  HcInv'
<1> DEFINE x == [proc[p] EXCEPT !.pc = to]
<1>1. IsProc(proc[p])
  BY DEF HcInv, Shaped
<1>2. IsProc(x) /\ x.pc = to /\ x.doc = proc[p].doc
  BY <1>1 DEF IsProc
<1>3. proc' = [proc EXCEPT ![p] = x] /\ lock' = lock
  BY DEF Goto
<1> HIDE DEF x
<1> QED
  BY <1>2, <1>3, HolderStep

LEMMA LaunchShaped ==
  ASSUME NEW s, NEW x, x = [pc |-> "launch", op |-> "diagnose", doc |-> "none", seen |-> s]
  PROVE  IsProc(x) /\ x.pc \in Free
BY DEF IsProc, Free

\* A commit of the record leaves registration and trust, and advances the revision.
LEMMA CommitStep ==
  ASSUME HcInv, NEW p \in Procs, NEW r, NEW to, proc[p].pc \notin Free, to # "apply",
         CommitRecord(p, r, to), reviews' = reviews
  PROVE  HcInv' /\ catalog'.rev = catalog.rev + 1
<1> DEFINE document == [proc[p].doc EXCEPT !.record = r]
           x == [proc[p] EXCEPT !.pc = to, !.doc = catalog']
<1>1. lock = p /\ proc[p].doc = catalog /\ IsDoc(catalog) /\ IsProc(proc[p])
  BY DEF HcInv, HolderIsCurrent, Shaped
<1>2. catalog' = [document EXCEPT !.rev = proc[p].doc.rev + 1]
  BY DEF CommitRecord, Commits
<1>3. IsDoc(document) /\ document.reg = catalog.reg /\ document.trust = catalog.trust
  BY <1>1 DEF IsDoc
<1>4. /\ IsDoc(catalog') /\ catalog'.rev = catalog.rev + 1
      /\ catalog'.reg = catalog.reg /\ catalog'.trust = catalog.trust
  <2> HIDE DEF document
  <2> QED
    BY <1>1, <1>2, <1>3 DEF IsDoc
<1>5. IsProc(x) /\ x.pc = to /\ x.doc = catalog'
  <2> DEFINE y == [proc[p] EXCEPT !.pc = to]
             z == [y EXCEPT !.doc = catalog']
  <2>1. IsProc(y) /\ y.pc = to
    BY <1>1 DEF IsProc
  <2>2. x = z
    OBVIOUS
  <2> HIDE DEF y
  <2>3. IsProc(z) /\ z.pc = to /\ z.doc = catalog'
    BY <2>1 DEF IsProc
  <2> HIDE DEF x, z
  <2> QED
    BY <2>2, <2>3
<1>6. proc' = [proc EXCEPT ![p] = x] /\ lock' = lock
  BY DEF CommitRecord
<1>7. TrustWasReviewed'
  BY <1>4, SameTrust
<1> HIDE DEF x
<1>8. HcInv'
  BY <1>1, <1>4, <1>5, <1>6, <1>7, ProcStep
<1> QED
  BY <1>4, <1>8
-----------------------------------------------------------------------------
(* Registration and code trust.                                            *)

\* What a command of the catalog makes of a document keeps its shape, and trusts
\* only what was reviewed.
LEMMA CandidateFine ==
  ASSUME HcInv, NEW p \in Procs, proc[p].op \in RegistryOps, IsDoc(proc[p].doc),
         NEW document \in Candidates(p)
  PROVE  /\ IsDoc(document)
         /\ document.trust # NoTrust =>
              /\ document.trust.reg = document.reg
              /\ [reg |-> document.reg, code |-> document.trust.code] \in reviews
<1> DEFINE doc == proc[p].doc
<1>1. CASE proc[p].op = "register"
  <2>1. document = [doc EXCEPT !.reg = doc.rev + 1, !.trust = NoTrust]
    BY <1>1 DEF Candidates, registration_candidate
  <2> QED
    BY <2>1 DEF IsDoc
<1>2. CASE proc[p].op = "unregister"
  <2>1. document = [doc EXCEPT !.reg = 0, !.trust = NoTrust]
    BY <1>2 DEF Candidates, unregistration_candidate
  <2> QED
    BY <2>1 DEF IsDoc
<1>3. CASE proc[p].op = "confirm"
  <2>1. document \in trust_candidate(doc)
    BY <1>3 DEF Candidates
  <2>2. PICK c \in reviews :
          /\ confirmation_matches(doc, c)
          /\ document = [doc EXCEPT !.trust = [reg |-> doc.reg, code |-> code, rev |-> doc.rev + 1]]
    BY <2>1 DEF trust_candidate
  <2>3. [reg |-> doc.reg, code |-> code] \in reviews
    BY <2>2 DEF confirmation_matches
  <2>4. /\ IsDoc(document) /\ document.reg = doc.reg
        /\ document.trust = [reg |-> doc.reg, code |-> code, rev |-> doc.rev + 1]
    BY <2>2 DEF IsDoc
  <2>5. document.trust.reg = doc.reg /\ document.trust.code = code
    BY <2>4
  <2> QED
    BY <2>3, <2>4, <2>5
<1>4. CASE proc[p].op = "clear"
  <2>1. document = [doc EXCEPT !.trust = NoTrust]
    BY <1>4 DEF Candidates, clear_candidate
  <2> QED
    BY <2>1 DEF IsDoc
<1> QED
  BY <1>1, <1>2, <1>3, <1>4 DEF RegistryOps

LEMMA ApplyStep ==
  ASSUME HcInv, NEW p \in Procs, RegistryApply(p)
  PROVE  HcInv' /\ (catalog' # catalog => catalog'.rev = catalog.rev + 1)
<1>1. /\ proc[p].pc = "apply" /\ lock = p /\ proc[p].doc = catalog /\ IsDoc(catalog)
      /\ proc[p].op \in RegistryOps
  BY DEF HcInv, HolderIsCurrent, AppliesItsOwn, Shaped, RegistryApply, Free
<1>2. CASE UNCHANGED catalog
  BY <1>2, DoneStep DEF RegistryApply
<1>3. ASSUME NEW document \in Candidates(p), Commits(p, document)
      PROVE  HcInv' /\ catalog'.rev = catalog.rev + 1
  <2>1. /\ IsDoc(document)
        /\ document.trust # NoTrust =>
             /\ document.trust.reg = document.reg
             /\ [reg |-> document.reg, code |-> document.trust.code] \in reviews
    BY <1>1, CandidateFine
  <2>2. catalog' = [document EXCEPT !.rev = proc[p].doc.rev + 1]
    BY <1>3 DEF Commits
  <2>3. /\ IsDoc(catalog') /\ catalog'.rev = catalog.rev + 1
        /\ catalog'.reg = document.reg /\ catalog'.trust = document.trust
    BY <1>1, <2>1, <2>2 DEF IsDoc
  <2>4. reviews' = reviews
    BY DEF RegistryApply
  <2>5. TrustWasReviewed'
    BY <2>1, <2>3, <2>4 DEF TrustWasReviewed
  <2>6. IsProc(Idle) /\ Idle.pc \in Free /\ Idle.pc # "apply"
    BY DEF IsProc, Idle, Free
  <2>7. proc' = [proc EXCEPT ![p] = Idle] /\ \A q \in Procs : q # p /\ lock = q => lock' = q
    BY DEF RegistryApply, Done, Release
  <2>8. HcInv'
    BY <1>1, <2>3, <2>5, <2>6, <2>7, ProcStep
  <2> QED
    BY <2>3, <2>8
<1> QED
  BY <1>2, <1>3 DEF RegistryApply

LEMMA DiagnosticStep ==
  ASSUME HcInv, NEW p \in Procs,
         DiagnosticPrepare(p) \/ DiagnosticLaunch(p) \/ DiagnosticAccept(p) \/ DiagnosticEnd(p)
  PROVE  HcInv' /\ catalog' = catalog
<1>1. UNCHANGED <<catalog, reviews>>
  BY DEF DiagnosticPrepare, DiagnosticLaunch, DiagnosticAccept, DiagnosticEnd
<1>2. ASSUME NEW x, IsProc(x), x.pc \in Free, proc' = [proc EXCEPT ![p] = x], lock' = lock
      PROVE  HcInv'
  <2>1. x.pc # "apply"
    BY <1>2 DEF Free
  <2> QED
    BY <1>1, <1>2, <2>1, NoCommit
<1>3. CASE DiagnosticPrepare(p)
  <2> DEFINE launch == [pc |-> "launch", op |-> "diagnose", doc |-> "none",
                        seen |-> [reg |-> catalog.reg, trust |-> catalog.trust, code |-> code]]
  <2>1. IsProc(launch) /\ launch.pc \in Free
    BY LaunchShaped
  <2>2. proc' = [proc EXCEPT ![p] = launch] /\ lock' = lock
    BY <1>3 DEF DiagnosticPrepare
  <2> HIDE DEF launch
  <2> QED
    BY <1>1, <1>2, <2>1, <2>2
<1>4. ASSUME NEW to \in {"accept", "accepted"}, proc' = [proc EXCEPT ![p].pc = to], lock' = lock
      PROVE  HcInv'
  <2> DEFINE x == [proc[p] EXCEPT !.pc = to]
  <2>1. IsProc(proc[p])
    BY DEF HcInv, Shaped
  <2>2. IsProc(x) /\ x.pc \in Free
    BY <2>1 DEF IsProc, Free
  <2>3. proc' = [proc EXCEPT ![p] = x]
    BY <1>4
  <2> HIDE DEF x
  <2> QED
    BY <1>2, <1>4, <2>2, <2>3
<1>5. CASE DiagnosticLaunch(p) \/ DiagnosticAccept(p)
  BY <1>4, <1>5 DEF DiagnosticLaunch, DiagnosticAccept
<1>6. CASE DiagnosticEnd(p)
  BY <1>1, <1>6, DoneStep DEF DiagnosticEnd
<1> QED
  BY <1>1, <1>3, <1>5, <1>6

LEMMA RegistryStep ==
  ASSUME HcInv, NEW p \in Procs, RegistryNext(p)
  PROVE  HcInv' /\ (catalog' # catalog => catalog'.rev = catalog.rev + 1)
<1>1. CASE RegistrySnapshot(p)
  BY <1>1, SnapshotStep DEF RegistrySnapshot
<1>2. CASE RegistryBegin(p)
  BY <1>2, BeginStep DEF RegistryBegin
<1> QED
  BY <1>1, <1>2, ApplyStep, DiagnosticStep DEF RegistryNext
-----------------------------------------------------------------------------
(* The lifecycle of the host connection.                                   *)

LEMMA CommitsOfLifecycle ==
  ASSUME HcInv, NEW p \in Procs,
         \/ InstallIntent(p) \/ InstallCompletion(p) \/ WithdrawInstall(p) \/ CloseGate(p)
         \/ RevertEnable(p) \/ PrepareIntent(p) \/ Completion(p)
  PROVE  HcInv' /\ catalog'.rev = catalog.rev + 1
<1>1. CASE InstallIntent(p)
  BY <1>1, CommitStep DEF InstallIntent, Holds, Free, Same
<1>2. CASE InstallCompletion(p)
  BY <1>2, CommitStep DEF InstallCompletion, Holds, Free, Same
<1>3. CASE WithdrawInstall(p)
  BY <1>3, CommitStep DEF WithdrawInstall, Holds, Free, Same
<1>4. CASE CloseGate(p)
  BY <1>4, CommitStep DEF CloseGate, Holds, Free, Same
<1>5. CASE RevertEnable(p)
  BY <1>5, CommitStep DEF RevertEnable, Holds, Free, Same
<1>6. CASE PrepareIntent(p)
  BY <1>6, CommitStep DEF PrepareIntent, Holds, Free, Same
<1>7. CASE Completion(p)
  BY <1>7, CommitStep DEF Completion, Holds, Free
<1> QED
  BY <1>1, <1>2, <1>3, <1>4, <1>5, <1>6, <1>7

\* Steps that go on with the same document.
CarriesOn(p) ==
  \/ CreateArtifact(p) \/ RemoveTemporary(p) \/ finish_install(p) \/ ReconcileInstall(p)
  \/ ReplaceTarget(p) \/ Publish(p) \/ BeforeCompletion(p) \/ RemoveArtifact(p) \/ Recheck(p)
  \/ AdmitVerify(p)

LEMMA StepsOfLifecycle ==
  ASSUME HcInv, NEW p \in Procs, CarriesOn(p)
  PROVE  HcInv' /\ catalog' = catalog
<1>1. CASE CreateArtifact(p) \/ RemoveTemporary(p)
  BY <1>1, GotoStep DEF CreateArtifact, RemoveTemporary, Holds, Free, Same
<1>2. CASE finish_install(p) \/ ReconcileInstall(p)
  BY <1>2, GotoStep DEF finish_install, ReconcileInstall, Holds, Free, Same
<1>3. CASE ReplaceTarget(p)
  BY <1>3, GotoStep DEF ReplaceTarget, Holds, Free, Same
<1>4. CASE Publish(p)
  BY <1>4, GotoStep DEF Publish, Holds, Free, Same
<1>5. CASE BeforeCompletion(p) \/ RemoveArtifact(p) \/ Recheck(p)
  BY <1>5, GotoStep DEF BeforeCompletion, RemoveArtifact, Recheck, Holds, Free, Same
<1>6. CASE AdmitVerify(p)
  BY <1>6, GotoStep DEF AdmitVerify, Holds, Free, Same
<1> QED
  BY <1>1, <1>2, <1>3, <1>4, <1>5, <1>6 DEF CarriesOn

\* A step that also records what was captured.
LEMMA SeesStep ==
  ASSUME HcInv, NEW p \in Procs, NEW to, to # "apply", proc[p].pc \notin Free,
         proc' = [proc EXCEPT ![p].pc = to, ![p].seen = target], UNCHANGED <<catalog, lock, reviews>>
  PROVE  HcInv'
<1> DEFINE x == [proc[p] EXCEPT !.pc = to, !.seen = target]
<1>1. proc' = [proc EXCEPT ![p] = x]
  OBVIOUS
<1>2. IsProc(proc[p])
  BY DEF HcInv, Shaped
<1>3. IsProc(x) /\ x.pc = to /\ x.doc = proc[p].doc
  <2> DEFINE y == [proc[p] EXCEPT !.pc = to]
             z == [y EXCEPT !.seen = target]
  <2>1. IsProc(y) /\ y.pc = to /\ y.doc = proc[p].doc
    BY <1>2 DEF IsProc
  <2>2. x = z
    OBVIOUS
  <2> HIDE DEF y
  <2>3. IsProc(z) /\ z.pc = to /\ z.doc = proc[p].doc
    BY <2>1 DEF IsProc
  <2> HIDE DEF x, z
  <2> QED
    BY <2>2, <2>3
<1> HIDE DEF x
<1> QED
  BY <1>1, <1>3, HolderStep

LEMMA ObserveStep ==
  ASSUME HcInv, NEW p \in Procs, Observe(p)
  PROVE  HcInv' /\ catalog' = catalog
<1> DEFINE to == decision(p)
<1>1. to # "apply"
  BY DEF decision
<1>2. /\ proc[p].pc \notin Free /\ UNCHANGED <<catalog, lock, reviews>>
      /\ proc' = [proc EXCEPT ![p].pc = to, ![p].seen = target]
  BY DEF Observe, Holds, Free, Same
<1> HIDE DEF to
<1> QED
  BY <1>1, <1>2, SeesStep

LEMMA LegacyStep ==
  ASSUME HcInv, NEW p \in Procs, LegacyAction(p)
  PROVE  HcInv' /\ catalog' = catalog
<1>1. /\ proc[p].pc \notin Free /\ UNCHANGED <<catalog, lock, reviews>>
      /\ proc' = [proc EXCEPT ![p].pc = "legacy_publish", ![p].seen = target]
  BY DEF LegacyAction, Holds, Free, Same
<1> QED
  BY <1>1, SeesStep

LEMMA AdmitFinalStep ==
  ASSUME HcInv, NEW p \in Procs, AdmitFinal(p)
  PROVE  HcInv' /\ catalog' = catalog
<1> DEFINE x == [proc[p] EXCEPT !.pc = "admitted"]
<1>1. IsProc(proc[p])
  BY DEF HcInv, Shaped
<1>2. IsProc(x) /\ x.pc = "admitted"
  BY <1>1 DEF IsProc
<1>3. /\ proc' = [proc EXCEPT ![p] = x] /\ UNCHANGED <<catalog, reviews>>
      /\ \A q \in Procs : q # p /\ lock = q => lock' = q
  BY DEF AdmitFinal, Release, Same
<1> HIDE DEF x
<1> QED
  BY <1>2, <1>3, NoCommit DEF Free

LEMMA BeginsOfLifecycle ==
  ASSUME HcInv, NEW p \in Procs, HcBegin(p) \/ HcBeginRefused(p)
  PROVE  HcInv' /\ catalog' = catalog
<1>1. CASE HcBegin(p)
  <2> DEFINE to == entry(proc[p].op, Record(p))
  <2>1. to # "apply"
    BY DEF entry
  <2>2. Begin(p, to) /\ UNCHANGED <<catalog, reviews>>
    BY <1>1 DEF HcBegin
  <2> HIDE DEF to
  <2> QED
    BY <2>1, <2>2, BeginStep
<1>2. CASE HcBeginRefused(p)
  <2>1. IsProc(Idle) /\ Idle.pc = "idle"
    BY DEF IsProc, Idle
  <2> QED
    BY <1>2, <2>1, NoCommit DEF HcBeginRefused, BeginRefused, Free, Same
<1> QED
  BY <1>1, <1>2

LEMMA EndsOfCommands ==
  ASSUME HcInv, NEW p \in Procs, HandlerEnds(p) \/ LegacyPublish(p) \/ Ends(p) \/ HcFail(p)
  PROVE  HcInv' /\ catalog' = catalog
<1>1. Done(p) /\ UNCHANGED <<catalog, reviews>>
  BY DEF HandlerEnds, LegacyPublish, Ends, HcFail, End, Fail, Same
<1> QED
  BY <1>1, DoneStep

LEMMA SnapshotsOfCommands ==
  ASSUME HcInv, NEW p \in Procs, LifecycleSnapshot(p) \/ AdmitSnapshot(p) \/ LegacySnapshot(p)
  PROVE  HcInv' /\ catalog' = catalog
<1>1. UNCHANGED <<catalog, lock, reviews>>
  BY DEF LifecycleSnapshot, AdmitSnapshot, LegacySnapshot
<1>2. \E op : Snapshot(p, op)
  BY DEF LifecycleSnapshot, AdmitSnapshot, LegacySnapshot
<1> QED
  BY <1>1, <1>2, SnapshotStep

\* Reviews, changes of the code, the user's edits, and steps of nobody.
LEMMA OutsideStep ==
  ASSUME HcInv, UNCHANGED <<catalog, lock, proc>>, reviews \subseteq reviews'
  PROVE  HcInv'
<1>1. TrustWasReviewed'
  BY SameTrust
<1> QED
  BY <1>1 DEF HcInv, Shaped, HolderIsCurrent, AppliesItsOwn

LEMMA HcNextStep ==
  ASSUME HcInv, [HcNext]_hcVars
  PROVE  HcInv' /\ (catalog' # catalog => catalog'.rev = catalog.rev + 1)
<1>1. ASSUME NEW p \in Procs, HcStep(p)
      PROVE  HcInv' /\ (catalog' # catalog => catalog'.rev = catalog.rev + 1)
  BY <1>1, BeginsOfLifecycle, CommitsOfLifecycle, StepsOfLifecycle, ObserveStep, LegacyStep,
     AdmitFinalStep, EndsOfCommands DEF HcStep, CarriesOn
<1>2. CASE review_trust \/ CodeChanges \/ UserEdits \/ UserTidies \/ BinaryChanges \/ UNCHANGED hcVars
  <2>1. UNCHANGED <<catalog, lock, proc>> /\ reviews \subseteq reviews'
    BY <1>2 DEF review_trust, CodeChanges, UserEdits, UserTidies, BinaryChanges, Edited, hcVars, registryVars
  <2> QED
    BY <2>1, OutsideStep
<1> QED
  BY <1>1, <1>2, RegistryStep, SnapshotsOfCommands, EndsOfCommands DEF HcNext
-----------------------------------------------------------------------------
(* The files.                                                              *)

LEMMA EmptyTyped ==
  /\ Clean \in Targets /\ NoConn \in Conns /\ NoPend \in Pends /\ NoRecord \in Records
  /\ NoRecord.inst = 0 /\ NoRecord.pend = NoPend /\ NoRecord.conn = NoConn /\ NoRecord.enabled = FALSE
  /\ NoPend.op = "none" /\ NoPend.phase = "none" /\ NoConn.known = FALSE
<1>1. (CHOOSE n \in Notes : TRUE) \in Notes
  BY HostConfigAssumption
<1>2. Clean \in Targets
  BY <1>1 DEF Clean, Targets
<1>3. NoConn \in Conns
  BY <1>2 DEF NoConn, Conns
<1>4. NoPend \in Pends
  BY <1>2 DEF NoPend, Pends
<1>5. NoRecord \in Records
  BY <1>3, <1>4 DEF NoRecord, Records
<1> QED
  BY <1>2, <1>3, <1>4, <1>5 DEF NoRecord, NoPend, NoConn

\* A step of a process that leaves the files and what others know of them.
Quiet(p) ==
  /\ UNCHANGED <<catalog, target, artifact, drift, loose, binary>>
  /\ dirty' \in [Procs -> SUBSET {"target", "artifact"}]
  /\ \A q \in Procs : q # p => dirty'[q] = dirty[q] /\ (q \in late => q \in late')

LEMMA QuietStep ==
  ASSUME FilesInv, NEW p \in Procs,
         UNCHANGED <<catalog, files, binary, drift, loose>>,
         \/ UNCHANGED <<dirty, late>>
         \/ Forgets(p)
         \/ (\E fs : Captures(p, fs)) /\ late' = late
         \/ dirty' = [dirty EXCEPT ![p] = {}] /\ late' = late
  PROVE  Quiet(p)
BY DEF FilesInv, FilesTyped, Quiet, Forgets, Captures, files

\* Whoever does not take the step keeps what it relied on.
LEMMA OtherStages ==
  ASSUME HcInv, FilesInv, NEW p \in Procs, NEW x, proc' = [proc EXCEPT ![p] = x],
         lock = p \/ Quiet(p), NEW q \in Procs, q # p
  PROVE  Stages(q)'
<1>1. proc'[q] = proc[q]
  BY DEF HcInv, Shaped
<1>2. Stages(q)
  BY DEF FilesInv
<1>3. ReadStage(q)'
  BY <1>1, <1>2 DEF Stages, ReadStage, Record, admissible
<1>4. CASE proc[q].pc \in Free
  <2>1. RecordStage(q)'
    BY <1>1, <1>4 DEF RecordStage, Free, Installing, Changing
  <2>2. SeenStage(q)' /\ FileStage(q)'
    BY <1>1, <1>4 DEF SeenStage, FileStage, Free, Publishing
  <2> QED
    BY <1>3, <2>1, <2>2 DEF Stages
<1>5. CASE proc[q].pc \notin Free
  <2>1. lock # p
    BY <1>5 DEF HcInv, HolderIsCurrent
  <2>2. /\ UNCHANGED <<catalog, target, artifact, drift, loose, proc[q], dirty[q]>>
        /\ q \in late => q \in late'
    BY <1>1, <2>1 DEF Quiet
  <2>3. RecordStage(q)'
    BY <1>2, <2>2 DEF Stages, RecordStage, Settled, Prepared
  <2>4. SeenStage(q)'
    BY <1>2, <2>2 DEF Stages, SeenStage, Others, Partial
  <2>5. FileStage(q)'
    BY <1>2, <2>2 DEF Stages, FileStage, connected, compatible, Owned
  <2> QED
    BY <1>3, <2>3, <2>4, <2>5 DEF Stages
<1> QED
  BY <1>4, <1>5

LEMMA StepOf ==
  ASSUME HcInv, FilesInv, NEW p \in Procs, NEW x, proc' = [proc EXCEPT ![p] = x],
         lock = p \/ Quiet(p),
         FilesTyped', RecordFits(catalog.record)', TargetFits', SettledIsTrue', Stages(p)'
  PROVE  FilesInv'
<1>1. \A q \in Procs : Stages(q)'
  BY OtherStages
<1> QED
  BY <1>1 DEF FilesInv

\* Points where a command relies on nothing of the files or the record.
Careless == {"idle", "launch", "accept", "accepted", "admitted", "verify", "admit", "final", "apply"}

LEMMA CarelessStages ==
  ASSUME NEW p \in Procs, proc'[p].pc \in Careless
  PROVE  Stages(p)'
<1>1. RecordStage(p)'
  BY DEF Careless, RecordStage, Installing, Changing
<1>2. ReadStage(p)' /\ SeenStage(p)' /\ FileStage(p)'
  BY DEF Careless, ReadStage, SeenStage, FileStage, Publishing
<1> QED
  BY <1>1, <1>2 DEF Stages

\* A step that leaves catalog and files as they are.
LEMMA NoWrite ==
  ASSUME HcInv, FilesInv, NEW p \in Procs, NEW x, proc' = [proc EXCEPT ![p] = x],
         Quiet(p), Stages(p)'
  PROVE  FilesInv'
<1>1. UNCHANGED <<catalog, target, artifact, drift, loose>>
  BY DEF Quiet
<1>2. FilesTyped'
  BY DEF FilesInv, FilesTyped, Quiet
<1>3. RecordFits(catalog.record)' /\ TargetFits'
  BY <1>1 DEF FilesInv, TargetFits, RecordFits, Prepared, Others
<1>4. SettledIsTrue'
  BY <1>1 DEF FilesInv, SettledIsTrue, Settled, connected, compatible, Owned
<1> QED
  BY <1>2, <1>3, <1>4, StepOf

LEMMA CarelessStep ==
  ASSUME HcInv, FilesInv, NEW p \in Procs, NEW x, proc' = [proc EXCEPT ![p] = x], x.pc \in Careless,
         Quiet(p)
  PROVE  FilesInv'
<1>1. proc'[p] = x
  BY DEF HcInv, Shaped
<1> QED
  BY <1>1, CarelessStages, NoWrite

LEMMA DoneFiles ==
  ASSUME HcInv, FilesInv, NEW p \in Procs, proc' = [proc EXCEPT ![p] = Idle], Quiet(p)
  PROVE  FilesInv'
<1>1. Idle.pc \in Careless
  BY DEF Idle, Careless
<1> QED
  BY <1>1, CarelessStep

LEMMA SnapshotFiles ==
  ASSUME HcInv, FilesInv, NEW p \in Procs, NEW op, Snapshot(p, op),
         op \in RegistryOps \cup Lifecycle \cup {"admit", "legacy_on", "legacy_off"},
         op \in Lifecycle => admissible(op, catalog.record),
         op = "legacy_on" => catalog.record.inst = 0, Quiet(p)
  PROVE  FilesInv'
<1> DEFINE x == [pc |-> "begin", op |-> op, doc |-> catalog, seen |-> "none"]
<1>1. proc' = [proc EXCEPT ![p] = x]
  BY DEF Snapshot
<1>2. proc'[p] = x
  BY <1>1 DEF HcInv, Shaped
<1>3. proc'[p].pc = "begin" /\ proc'[p].op = op /\ proc'[p].doc = catalog
  BY <1>2
<1>4. ReadStage(p)'
  BY <1>3 DEF ReadStage, Record, admissible, Quiet
<1>5. RecordStage(p)'
  BY <1>3 DEF RecordStage, Installing, Changing
<1>6. SeenStage(p)' /\ FileStage(p)'
  BY <1>3 DEF SeenStage, FileStage, Publishing
<1>7. Stages(p)'
  BY <1>4, <1>5, <1>6 DEF Stages
<1> HIDE DEF x
<1> QED
  BY <1>1, <1>7, NoWrite

LEMMA SnapshotsFiles ==
  ASSUME HcInv, FilesInv, NEW p \in Procs, LifecycleSnapshot(p) \/ AdmitSnapshot(p) \/ LegacySnapshot(p)
  PROVE  FilesInv'
<1>1. /\ \A op : op \in Lifecycle => op \notin {"admit", "legacy_on", "legacy_off"}
      /\ "admit" \notin Lifecycle /\ "legacy_on" \notin Lifecycle /\ "legacy_off" \notin Lifecycle
  BY DEF Lifecycle
<1>2. CASE LifecycleSnapshot(p)
  <2>1. PICK op \in Lifecycle : admissible(op, catalog.record) /\ Snapshot(p, op)
    BY <1>2 DEF LifecycleSnapshot
  <2>2. Quiet(p)
    BY <1>2, QuietStep DEF LifecycleSnapshot, hostVars
  <2> QED
    BY <1>1, <2>1, <2>2, SnapshotFiles
<1>3. CASE AdmitSnapshot(p)
  <2>1. Quiet(p)
    BY <1>3, QuietStep DEF AdmitSnapshot, hostVars
  <2> QED
    BY <1>1, <1>3, <2>1, SnapshotFiles DEF AdmitSnapshot
<1>4. CASE LegacySnapshot(p)
  <2>1. PICK op \in {"legacy_on", "legacy_off"} :
          /\ op = "legacy_on" => catalog.record.inst = 0
          /\ Snapshot(p, op)
    BY <1>4 DEF LegacySnapshot
  <2>2. Quiet(p)
    BY <1>4, QuietStep DEF LegacySnapshot
  <2> QED
    BY <1>1, <2>1, <2>2, SnapshotFiles
<1> QED
  BY <1>2, <1>3, <1>4

LEMMA BeginFiles ==
  ASSUME HcInv, FilesInv, NEW p \in Procs, HcBegin(p)
  PROVE  FilesInv'
<1> DEFINE op == proc[p].op
           r == catalog.record
           to == entry(op, r)
           x == [proc[p] EXCEPT !.pc = to]
<1>1. /\ proc[p].pc = "begin" /\ proc[p].doc = catalog /\ op \notin RegistryOps
      /\ proc' = [proc EXCEPT ![p] = x] /\ UNCHANGED <<catalog, hostVars>>
  BY DEF HcBegin, Begin, Record
<1>2. /\ op \in Lifecycle \cup {"admit", "legacy_on", "legacy_off"}
      /\ op \in Lifecycle => admissible(op, r)
      /\ op = "legacy_on" => r.inst = 0
  BY <1>1 DEF FilesInv, Stages, ReadStage, Record
<1>3. IsProc(proc[p])
  BY DEF HcInv, Shaped
<1>4. proc'[p].pc = to /\ proc'[p].op = op
  BY <1>1, <1>3 DEF HcInv, Shaped, IsProc
<1>5. /\ to = "install_intent" => r.inst = 0 /\ op = "install"
      /\ to = "reconcile" => r.inst # 0 /\ r.pend.op = "install" /\ op = "install"
      /\ to = "gate" => op = "disable" /\ r.inst # 0 /\ Settled(r)
      /\ to = "observe" => op \in Changes /\ r.inst # 0 /\ r.pend.op \in {"none", op}
      /\ to \in {"install_intent", "reconcile", "gate", "admit", "legacy", "observe"}
  BY <1>2 DEF entry, admissible, Lifecycle, Changes, Settled
<1> HIDE DEF to
<1>6. ReadStage(p)' /\ SeenStage(p)' /\ FileStage(p)'
  BY <1>4, <1>5 DEF ReadStage, SeenStage, FileStage, Publishing
<1>7. RecordStage(p)'
  BY <1>1, <1>2, <1>4, <1>5 DEF RecordStage, Settled, Installing, Changing
<1>8. Quiet(p)
  BY <1>1, QuietStep DEF hostVars
<1> HIDE DEF x
<1> QED
  BY <1>1, <1>6, <1>7, <1>8, NoWrite DEF Stages

\* A commit of the record by the process that holds the reservation.
LEMMA CommitOutcome ==
  ASSUME HcInv, FilesInv, NEW p \in Procs, NEW r, NEW to, proc[p].pc \notin Free, CommitRecord(p, r, to)
  PROVE  /\ catalog'.record = r /\ catalog'.rev = catalog.rev + 1 /\ catalog'.rev \in Nat
         /\ proc'[p].pc = to /\ proc'[p].op = proc[p].op /\ proc'[p].seen = proc[p].seen
         /\ lock = p /\ \E x : proc' = [proc EXCEPT ![p] = x]
<1> DEFINE document == [proc[p].doc EXCEPT !.record = r]
           y == [proc[p] EXCEPT !.pc = to]
           x == [y EXCEPT !.doc = catalog']
<1>1. /\ lock = p /\ proc[p].doc = catalog /\ IsDoc(catalog) /\ IsProc(proc[p]) /\ catalog.rev \in Nat
  BY DEF HcInv, HolderIsCurrent, Shaped, FilesInv, FilesTyped
<1>2. catalog' = [document EXCEPT !.rev = catalog.rev + 1]
  BY <1>1 DEF CommitRecord, Commits
<1>3. IsDoc(document) /\ document.record = r
  BY <1>1 DEF IsDoc
<1>4. catalog'.record = r /\ catalog'.rev = catalog.rev + 1
  <2> HIDE DEF document
  <2> QED
    BY <1>2, <1>3 DEF IsDoc
<1>5. IsProc(y) /\ y.pc = to /\ y.op = proc[p].op /\ y.seen = proc[p].seen
  BY <1>1 DEF IsProc
<1>6. proc' = [proc EXCEPT ![p] = x]
  BY DEF CommitRecord
<1> HIDE DEF y
<1>7. x.pc = to /\ x.op = proc[p].op /\ x.seen = proc[p].seen
  BY <1>5 DEF IsProc
<1> HIDE DEF x
<1>8. proc'[p] = x
  BY <1>6 DEF HcInv, Shaped
<1>9. catalog'.rev \in Nat
  BY <1>1, <1>4
<1>10. \E z : proc' = [proc EXCEPT ![p] = z]
  BY <1>6
<1> QED
  BY <1>1, <1>4, <1>7, <1>8, <1>9, <1>10

LEMMA CurrentRecord ==
  ASSUME HcInv, FilesInv, NEW p \in Procs, proc[p].pc \notin Free
  PROVE  /\ Record(p) = catalog.record /\ catalog.record \in Records /\ RecordFits(catalog.record)
         /\ catalog.rev \in Nat /\ NextRev(p) = catalog.rev + 1 /\ lock = p
BY DEF HcInv, HolderIsCurrent, FilesInv, FilesTyped, Record, NextRev

\* Goto changes only the point a process is at.
LEMMA GotoOutcome ==
  ASSUME HcInv, NEW p \in Procs, NEW to, Goto(p, to)
  PROVE  /\ proc'[p].pc = to /\ proc'[p].op = proc[p].op /\ proc'[p].seen = proc[p].seen
         /\ \E x : proc' = [proc EXCEPT ![p] = x]
<1> DEFINE x == [proc[p] EXCEPT !.pc = to]
<1>1. IsProc(proc[p])
  BY DEF HcInv, Shaped
<1>2. x.pc = to /\ x.op = proc[p].op /\ x.seen = proc[p].seen
  BY <1>1 DEF IsProc
<1>3. proc' = [proc EXCEPT ![p] = x]
  BY DEF Goto
<1> HIDE DEF x
<1>4. proc'[p] = x
  BY <1>3 DEF HcInv, Shaped
<1> QED
  BY <1>2, <1>3, <1>4

LEMMA TouchedTyped ==
  ASSUME FilesInv, NEW p \in Procs, NEW file \in {"target", "artifact"}, Touched(p, file)
  PROVE  /\ dirty' \in [Procs -> SUBSET {"target", "artifact"}]
         /\ dirty'[p] = dirty[p] \ {file}
BY DEF FilesInv, FilesTyped, Touched

\* A command goes on in the middle of what the record has pending.
LEMMA WriteFiles ==
  ASSUME HcInv, FilesInv, NEW p \in Procs, NEW to, Goto(p, to), proc[p].pc \notin Free,
         UNCHANGED <<catalog, loose, binary>>, ~Settled(catalog.record), catalog.record.inst # 0,
         dirty' \in [Procs -> SUBSET {"target", "artifact"}], target' \in Targets, TargetFits',
         Stages(p)'
  PROVE  FilesInv'
<1>1. lock = p /\ RecordFits(catalog.record)'
  BY DEF HcInv, HolderIsCurrent, FilesInv, RecordFits, Prepared, Others
<1>2. \E x : proc' = [proc EXCEPT ![p] = x]
  BY GotoOutcome
<1>3. FilesTyped' /\ SettledIsTrue'
  BY DEF FilesInv, FilesTyped, SettledIsTrue, Settled
<1> QED
  BY <1>1, <1>2, <1>3, StepOf

LEMMA InstallIntentFiles ==
  ASSUME HcInv, FilesInv, NEW p \in Procs, InstallIntent(p)
  PROVE  FilesInv'
<1> DEFINE n == NextRev(p)
           pend == [NoPend EXCEPT !.op = "install", !.phase = "prepared"]
           r == [NoRecord EXCEPT !.inst = n, !.rev = n, !.bin = binary, !.pend = pend]
<1>1. /\ proc[p].pc = "install_intent" /\ proc[p].pc \notin Free /\ CommitRecord(p, r, "create")
      /\ UNCHANGED <<target, dirty, binary, loose>>
  BY DEF InstallIntent, Holds, Free, Same
<1>2. n = catalog.rev + 1 /\ n \in Nat /\ n # 0 /\ binary \in {0, 1}
  BY <1>1, CurrentRecord DEF FilesInv, FilesTyped
<1>3. pend \in Pends /\ pend.op = "install"
  BY EmptyTyped DEF Pends, Lifecycle
<1> HIDE DEF pend, n
<1>4. /\ r \in Records /\ r.inst = n /\ r.pend = pend /\ r.enabled = FALSE /\ r.conn = NoConn
  <2> DEFINE y == [NoRecord EXCEPT !.inst = n, !.rev = n]
  <2>1. y \in Records /\ y.inst = n /\ y.enabled = FALSE /\ y.conn = NoConn
    BY <1>2, EmptyTyped DEF Records
  <2>2. r = [y EXCEPT !.bin = binary, !.pend = pend]
    OBVIOUS
  <2> HIDE DEF y
  <2> QED
    BY <1>2, <1>3, <2>1, <2>2 DEF Records
<1> HIDE DEF r
<1>5. /\ catalog'.record = r /\ catalog'.rev \in Nat /\ proc'[p].pc = "create" /\ lock = p
      /\ proc'[p].op = proc[p].op /\ \E x : proc' = [proc EXCEPT ![p] = x]
  BY <1>1, CommitOutcome
<1>6. FilesTyped'
  BY <1>1, <1>4, <1>5 DEF FilesInv, FilesTyped
<1>7. RecordFits(catalog.record)'
  BY <1>2, <1>3, <1>4, <1>5, EmptyTyped DEF RecordFits
<1>8. TargetFits' /\ proc[p].op = "install"
  BY <1>1, <1>5 DEF FilesInv, TargetFits, Stages, RecordStage, Others
<1>9. SettledIsTrue'
  BY <1>2, <1>3, <1>4, <1>5 DEF SettledIsTrue, Settled
<1>10. ReadStage(p)' /\ SeenStage(p)' /\ FileStage(p)'
  BY <1>5 DEF ReadStage, SeenStage, FileStage, Publishing
<1>11. RecordStage(p)'
  BY <1>2, <1>3, <1>4, <1>5, <1>8 DEF RecordStage, Installing, Changing
<1> QED
  BY <1>5, <1>6, <1>7, <1>8, <1>9, <1>10, <1>11, StepOf DEF Stages

\* What an install that is under way may rely on.
LEMMA InstallAt ==
  ASSUME HcInv, FilesInv, NEW p \in Procs, proc[p].pc \in Installing
  PROVE  /\ proc[p].pc \notin Free /\ proc[p].op = "install" /\ target \in Targets /\ TargetFits
         /\ catalog.record.inst # 0 /\ catalog.record.pend.op = "install" /\ ~Settled(catalog.record)
<1>1. proc[p].pc \notin Free
  BY DEF Installing, Free
<1> QED
  BY <1>1 DEF FilesInv, FilesTyped, Stages, RecordStage, Settled

\* ... and stays under way.
LEMMA InstallGoesOn ==
  ASSUME HcInv, FilesInv, NEW p \in Procs, proc[p].pc \in Installing,
         NEW to \in Installing \cup {"unlink"}, Goto(p, to),
         UNCHANGED <<catalog, target, loose, binary>>,
         dirty' \in [Procs -> SUBSET {"target", "artifact"}],
         to = "install_commit" => artifact' = "exact",
         to = "withdraw" => artifact' = "absent"
  PROVE  FilesInv'
<1>1. proc'[p].pc = to /\ proc'[p].op = proc[p].op
  BY GotoOutcome
<1>2. ReadStage(p)' /\ SeenStage(p)' /\ FileStage(p)'
  BY <1>1 DEF ReadStage, SeenStage, FileStage, Publishing, Installing
<1>3. RecordStage(p)'
  BY <1>1, InstallAt DEF RecordStage, Installing, Changing
<1>4. TargetFits'
  BY InstallAt DEF TargetFits, Others
<1> QED
  BY <1>2, <1>3, <1>4, InstallAt, WriteFiles DEF Stages

LEMMA CreateFiles ==
  ASSUME HcInv, FilesInv, NEW p \in Procs, CreateArtifact(p)
  PROVE  FilesInv'
<1>1. /\ proc[p].pc \in Installing /\ Goto(p, "unlink") /\ Touched(p, "artifact")
      /\ UNCHANGED <<catalog, target, loose, binary>>
  BY DEF CreateArtifact, Holds, Installing, Same
<1>2. dirty' \in [Procs -> SUBSET {"target", "artifact"}]
  BY <1>1, TouchedTyped
<1> QED
  BY <1>1, <1>2, InstallGoesOn

LEMMA CheckInstallFiles ==
  ASSUME HcInv, FilesInv, NEW p \in Procs, finish_install(p) \/ ReconcileInstall(p)
  PROVE  FilesInv'
<1>1. /\ proc[p].pc \in Installing /\ UNCHANGED <<catalog, target, artifact, loose, binary>>
      /\ Captures(p, {"artifact"})
  BY DEF finish_install, ReconcileInstall, Holds, Installing, Same, files
<1>2. dirty' \in [Procs -> SUBSET {"target", "artifact"}]
  BY <1>1 DEF FilesInv, FilesTyped, Captures
<1>3. PICK to \in {"install_commit", "finish_install", "withdraw"} :
        /\ Goto(p, to)
        /\ to = "install_commit" => artifact = "exact"
        /\ to = "withdraw" => artifact = "absent"
  BY DEF finish_install, ReconcileInstall
<1>4. to \in Installing
  BY DEF Installing
<1> QED
  BY <1>1, <1>2, <1>3, <1>4, InstallGoesOn

LEMMA InstallCompletionFiles ==
  ASSUME HcInv, FilesInv, NEW p \in Procs, InstallCompletion(p)
  PROVE  FilesInv'
<1> DEFINE old == catalog.record
           n == NextRev(p)
           r == [old EXCEPT !.installed = TRUE, !.pend = NoPend, !.rev = n]
<1>1. /\ proc[p].pc = "install_commit" /\ proc[p].pc \in Installing
      /\ CommitRecord(p, [Record(p) EXCEPT !.installed = TRUE, !.pend = NoPend, !.rev = n], "verify")
      /\ drift' = (drift \ {"artifact"}) \cup (dirty[p] \cap {"artifact"})
      /\ UNCHANGED <<target, artifact, dirty, loose, binary>>
  BY DEF InstallCompletion, Holds, Installing, files, Same, Verified
<1>2. old.inst # 0 /\ old.pend.op = "install" /\ proc[p].pc \notin Free
  BY <1>1, InstallAt
<1>3. n = catalog.rev + 1 /\ n \in Nat /\ old \in Records /\ RecordFits(old) /\ Record(p) = old
  BY <1>2, CurrentRecord
<1>4. ~old.conn.known /\ ~old.enabled
  BY <1>2, <1>3 DEF RecordFits
<1> HIDE DEF n
<1>5. /\ r \in Records /\ r.inst = old.inst /\ r.pend = NoPend /\ r.enabled = old.enabled
      /\ r.conn = old.conn
  BY <1>3, EmptyTyped DEF Records
<1>6. CommitRecord(p, r, "verify")
  BY <1>1, <1>3
<1> HIDE DEF r
<1>7. /\ catalog'.record = r /\ catalog'.rev \in Nat /\ proc'[p].pc = "verify" /\ lock = p
      /\ \E x : proc' = [proc EXCEPT ![p] = x]
  BY <1>2, <1>6, CommitOutcome
<1>8. FilesTyped'
  BY <1>1, <1>5, <1>7 DEF FilesInv, FilesTyped
<1>9. RecordFits(catalog.record)'
  BY <1>2, <1>4, <1>5, <1>7, EmptyTyped DEF RecordFits, Prepared
<1>10. TargetFits'
  BY <1>1, <1>2, <1>5, <1>7, EmptyTyped DEF FilesInv, TargetFits, Others
<1>11. drift' = {} => artifact = "exact"
  BY <1>1 DEF FilesInv, Stages, FileStage
<1>12. SettledIsTrue'
  BY <1>1, <1>2, <1>4, <1>5, <1>7, <1>11 DEF SettledIsTrue
<1>13. Stages(p)'
  BY <1>7, CarelessStages DEF Careless
<1> QED
  BY <1>7, <1>8, <1>9, <1>10, <1>12, <1>13, StepOf

\* The record is gone, and so is what it named.
LEMMA RecordGone ==
  ASSUME HcInv, FilesInv, NEW p \in Procs, proc[p].pc \notin Free,
         CommitRecord(p, NoRecord, "verify"), UNCHANGED <<target, artifact, dirty, binary>>,
         target.inst \in Others', drift' = {} => artifact = "absent"
  PROVE  FilesInv'
<1>1. /\ catalog'.record = NoRecord /\ catalog'.rev \in Nat /\ proc'[p].pc = "verify" /\ lock = p
      /\ \E x : proc' = [proc EXCEPT ![p] = x]
  BY CommitOutcome
<1>2. FilesTyped'
  BY <1>1, EmptyTyped DEF FilesInv, FilesTyped
<1>3. RecordFits(catalog.record)'
  BY <1>1, EmptyTyped DEF RecordFits, Prepared
<1>4. TargetFits' /\ SettledIsTrue'
  BY <1>1, EmptyTyped DEF TargetFits, SettledIsTrue, Others
<1>5. Stages(p)'
  BY <1>1, CarelessStages DEF Careless
<1> QED
  BY <1>1, <1>2, <1>3, <1>4, <1>5, StepOf

LEMMA WithdrawFiles ==
  ASSUME HcInv, FilesInv, NEW p \in Procs, WithdrawInstall(p)
  PROVE  FilesInv'
<1>1. /\ proc[p].pc = "withdraw" /\ proc[p].pc \in Installing /\ CommitRecord(p, NoRecord, "verify")
      /\ drift' = (drift \ {"artifact"}) \cup (dirty[p] \cap {"artifact"})
      /\ UNCHANGED <<target, artifact, dirty, loose, binary>>
  BY DEF WithdrawInstall, Holds, Installing, files, Same, Verified
<1>2. proc[p].pc \notin Free /\ target.inst \in Others'
  BY <1>1, InstallAt DEF TargetFits, Others
<1>3. drift' = {} => artifact = "absent"
  BY <1>1 DEF FilesInv, Stages, FileStage
<1> QED
  BY <1>1, <1>2, <1>3, RecordGone

LEMMA CloseGateFiles ==
  ASSUME HcInv, FilesInv, NEW p \in Procs, CloseGate(p)
  PROVE  FilesInv'
<1> DEFINE old == catalog.record
           n == NextRev(p)
           pend == [op |-> "disable", phase |-> "gate_closed", base |-> old.rev,
                    before |-> old.conn.fp, after |-> old.conn.fp,
                    ownedBefore |-> old.conn.owned, ownedAfter |-> old.conn.owned]
           r == [old EXCEPT !.enabled = FALSE, !.rev = n, !.pend = pend]
<1>1. /\ proc[p].pc = "gate" /\ proc[p].pc \notin Free
      /\ UNCHANGED <<target, artifact, dirty, drift, loose, binary>>
  BY DEF CloseGate, Holds, Free, files, Same
<1>2. n = catalog.rev + 1 /\ n \in Nat /\ old \in Records /\ RecordFits(old) /\ Record(p) = old
  BY <1>1, CurrentRecord
<1>3. CommitRecord(p, r, "observe")
  BY <1>2 DEF CloseGate
<1>4. proc[p].op = "disable" /\ old.inst # 0 /\ Settled(old)
  BY <1>1 DEF FilesInv, Stages, RecordStage
<1>5. pend \in Pends /\ pend.op = "disable" /\ pend.phase = "gate_closed"
  BY <1>2 DEF Records, Conns, Pends, Lifecycle
<1> HIDE DEF n, pend
<1>6. /\ r \in Records /\ r.inst = old.inst /\ r.pend = pend /\ r.enabled = FALSE /\ r.conn = old.conn
  BY <1>2, <1>5 DEF Records
<1> HIDE DEF r
<1>7. /\ catalog'.record = r /\ catalog'.rev \in Nat /\ proc'[p].pc = "observe"
      /\ proc'[p].op = "disable" /\ lock = p
      /\ \E x : proc' = [proc EXCEPT ![p] = x]
  BY <1>1, <1>3, <1>4, CommitOutcome
<1>8. FilesTyped'
  BY <1>1, <1>6, <1>7 DEF FilesInv, FilesTyped
<1>9. RecordFits(catalog.record)'
  BY <1>4, <1>5, <1>6, <1>7 DEF RecordFits, Prepared
<1>10. TargetFits'
  BY <1>1, <1>4, <1>5, <1>6, <1>7 DEF FilesInv, TargetFits, Others
<1>11. SettledIsTrue'
  BY <1>4, <1>5, <1>6, <1>7 DEF SettledIsTrue, Settled
<1>12. ReadStage(p)' /\ SeenStage(p)' /\ FileStage(p)'
  BY <1>7 DEF ReadStage, SeenStage, FileStage, Publishing
<1>13. RecordStage(p)'
  BY <1>4, <1>5, <1>6, <1>7 DEF RecordStage, Changes, Installing, Changing
<1> QED
  BY <1>7, <1>8, <1>9, <1>10, <1>11, <1>12, <1>13, StepOf DEF Stages

\* What the captured files tell, when they lead on.
LEMMA Decided ==
  ASSUME HcInv, FilesInv, NEW p \in Procs, Observe(p)
  PROVE  LET r == catalog.record IN
         \/ decision(p) = "complete" /\ Prepared(r)
         \/ /\ decision(p) = "revert" /\ Prepared(r) /\ proc[p].op = "enable"
            /\ target.inst # r.inst /\ artifact = "exact"
         \/ decision(p) = "intent" /\ ~Partial(r, target)
<1>1. proc[p].pc \notin Free
  BY DEF Observe, Holds, Free
<1>2. Record(p) = catalog.record
  BY <1>1, CurrentRecord
<1>3. decision(p) \notin {"refused", "unchanged"}
  BY DEF Observe
<1>4. observe_owned_ok(Record(p), target) /\ (artifact = "exact" \/ removed_artifact(p))
  BY <1>3 DEF decision
<1>5. decision(p) \in {"complete", "revert", "intent"}
  BY <1>3 DEF decision
<1>6. decision(p) = "complete" => Applied(p)
  BY DEF decision
<1>7. decision(p) = "revert" => Prepared(Record(p)) /\ proc[p].op = "enable" /\ ~Owned(Record(p), target)
  BY DEF decision
<1>8. ~Partial(Record(p), target)
  BY <1>4 DEF observe_owned_ok
<1> QED
  BY <1>2, <1>4, <1>5, <1>6, <1>7, <1>8 DEF Applied, removed_artifact, Owned, Partial

\* A step that records what is captured.
LEMMA SeesOutcome ==
  ASSUME HcInv, NEW p \in Procs, NEW to, proc' = [proc EXCEPT ![p].pc = to, ![p].seen = target]
  PROVE  /\ proc'[p].pc = to /\ proc'[p].op = proc[p].op /\ proc'[p].seen = target
         /\ \E x : proc' = [proc EXCEPT ![p] = x]
<1> DEFINE y == [proc[p] EXCEPT !.pc = to]
           x == [y EXCEPT !.seen = target]
<1>1. IsProc(proc[p])
  BY DEF HcInv, Shaped
<1>2. IsProc(y) /\ y.pc = to /\ y.op = proc[p].op
  BY <1>1 DEF IsProc
<1>3. proc' = [proc EXCEPT ![p] = x]
  OBVIOUS
<1> HIDE DEF y
<1>4. x.pc = to /\ x.op = proc[p].op /\ x.seen = target
  BY <1>2 DEF IsProc
<1> HIDE DEF x
<1>5. proc'[p] = x
  BY <1>3 DEF HcInv, Shaped
<1> QED
  BY <1>3, <1>4, <1>5

LEMMA ObserveFiles ==
  ASSUME HcInv, FilesInv, NEW p \in Procs, Observe(p)
  PROVE  FilesInv'
<1> DEFINE r == catalog.record
           to == decision(p)
<1>1. /\ proc[p].pc = "observe" /\ proc[p].pc \notin Free
      /\ proc' = [proc EXCEPT ![p].pc = to, ![p].seen = target]
      /\ dirty' = [dirty EXCEPT ![p] = {}] /\ UNCHANGED <<catalog, files, drift, late, loose, binary>>
  BY DEF Observe, Holds, Free, Same
<1>2. \/ to = "complete" /\ Prepared(r)
      \/ to = "revert" /\ Prepared(r) /\ proc[p].op = "enable" /\ target.inst # r.inst /\ artifact = "exact"
      \/ to = "intent" /\ ~Partial(r, target)
  BY Decided
<1> HIDE DEF to
<1>3. /\ proc'[p].pc = to /\ proc'[p].op = proc[p].op /\ proc'[p].seen = target
      /\ \E x : proc' = [proc EXCEPT ![p] = x]
  BY <1>1, SeesOutcome
<1>4. /\ proc[p].op \in Changes /\ r.inst # 0 /\ r.pend.op \in {"none", proc[p].op} /\ RecordFits(r)
      /\ target \in Targets /\ TargetFits
  BY <1>1 DEF FilesInv, Stages, RecordStage, FilesTyped
<1>5. Prepared(r) => r.pend.op = proc[p].op
  BY <1>4 DEF RecordFits, Prepared
<1>6. Quiet(p)
  BY <1>1, QuietStep
<1>7. ReadStage(p)'
  BY <1>2, <1>3 DEF ReadStage
<1>8. RecordStage(p)'
  BY <1>1, <1>2, <1>3, <1>4, <1>5 DEF RecordStage, Prepared, Installing, Changing
<1>9. SeenStage(p)'
  BY <1>1, <1>2, <1>3, <1>4 DEF SeenStage, files, Partial, Publishing, TargetFits, Others
<1>10. FileStage(p)'
  BY <1>1, <1>2, <1>3 DEF FileStage, files
<1> QED
  BY <1>3, <1>6, <1>7, <1>8, <1>9, <1>10, NoWrite DEF Stages

LEMMA RevertFiles ==
  ASSUME HcInv, FilesInv, NEW p \in Procs, RevertEnable(p)
  PROVE  FilesInv'
<1> DEFINE old == catalog.record
           n == NextRev(p)
           conn == [known |-> TRUE, fp |-> proc[p].seen, owned |-> FALSE]
           r == [old EXCEPT !.pend = NoPend, !.rev = n, !.conn = conn]
<1>1. /\ proc[p].pc = "revert" /\ proc[p].pc \notin Free
      /\ drift' = (drift \ {"target", "artifact"}) \cup (dirty[p] \cap {"target", "artifact"})
      /\ UNCHANGED <<target, artifact, dirty, loose, binary>>
  BY DEF RevertEnable, Holds, Free, files, Same, Verified
<1>2. n = catalog.rev + 1 /\ n \in Nat /\ old \in Records /\ RecordFits(old) /\ Record(p) = old
  BY <1>1, CurrentRecord
<1>3. CommitRecord(p, r, "verify")
  BY <1>2 DEF RevertEnable
<1>4. old.inst # 0 /\ old.pend.op = "enable" /\ proc[p].seen \in Targets
  BY <1>1 DEF FilesInv, Stages, RecordStage, SeenStage, Changing
<1>5. drift' = {} => target.inst # old.inst /\ artifact = "exact"
  BY <1>1 DEF FilesInv, Stages, SeenStage, FileStage
<1>6. conn \in Conns
  BY <1>4 DEF Conns
<1>7. ~old.enabled
  BY <1>2, <1>4 DEF RecordFits
<1> HIDE DEF n, conn
<1>8. /\ r \in Records /\ r.inst = old.inst /\ r.pend = NoPend /\ r.enabled = old.enabled
  BY <1>2, <1>6, EmptyTyped DEF Records
<1> HIDE DEF r
<1>9. /\ catalog'.record = r /\ catalog'.rev \in Nat /\ proc'[p].pc = "verify" /\ lock = p
      /\ \E x : proc' = [proc EXCEPT ![p] = x]
  BY <1>1, <1>3, CommitOutcome
<1>10. FilesTyped'
  BY <1>1, <1>8, <1>9 DEF FilesInv, FilesTyped
<1>11. RecordFits(catalog.record)'
  BY <1>4, <1>8, <1>9, EmptyTyped DEF RecordFits, Prepared
<1>12. TargetFits'
  BY <1>1, <1>4, <1>8, <1>9, EmptyTyped DEF FilesInv, TargetFits, Others
<1>13. SettledIsTrue'
  BY <1>1, <1>4, <1>5, <1>7, <1>8, <1>9 DEF SettledIsTrue
<1>14. Stages(p)'
  BY <1>9, CarelessStages DEF Careless
<1> QED
  BY <1>9, <1>10, <1>11, <1>12, <1>13, <1>14, StepOf

\* A plan from settings whose callbacks are not a part of ours.
LEMMA PlannedFits ==
  ASSUME NEW r \in Records, NEW op \in Changes, NEW t \in Targets, r.inst # 0, ~Partial(r, t)
  PROVE  /\ planned(r, op, t) \in Targets /\ planned(r, op, t).note = t.note
         /\ planned(r, op, t).inst \in {0, t.inst, r.inst}
         /\ op # "enable" => planned(r, op, t).inst # r.inst
<1>1. r.inst \in Nat
  BY DEF Records
<1> QED
  BY <1>1 DEF planned, Targets, Owned, Partial

LEMMA PrepareFiles ==
  ASSUME HcInv, FilesInv, NEW p \in Procs, PrepareIntent(p)
  PROVE  FilesInv'
<1> DEFINE old == catalog.record
           n == NextRev(p)
           op == proc[p].op
           was == proc[p].seen
           after == planned(old, op, was)
           pend == [op |-> op, phase |-> "prepared",
                    base |-> IF Settled(old) THEN old.rev ELSE old.pend.base,
                    before |-> was, after |-> after,
                    ownedBefore |-> Owned(old, was), ownedAfter |-> op = "enable"]
           r == [old EXCEPT !.enabled = FALSE, !.rev = n, !.pend = pend]
<1>1. /\ proc[p].pc = "intent" /\ proc[p].pc \notin Free
      /\ UNCHANGED <<target, artifact, dirty, drift, loose, binary>>
  BY DEF PrepareIntent, Holds, Free, files, Same
<1>2. n = catalog.rev + 1 /\ n \in Nat /\ old \in Records /\ RecordFits(old) /\ Record(p) = old
  BY <1>1, CurrentRecord
<1>3. /\ was \in Targets /\ ~Partial(old, was) /\ was.inst \in Others \cup {old.inst}
      /\ "target" \in dirty[p] \/ was = target
      /\ op \in Changes /\ old.inst # 0 /\ TargetFits
  BY <1>1 DEF FilesInv, Stages, SeenStage, RecordStage
<1>4. CommitRecord(p, r, "replace")
  BY <1>2 DEF PrepareIntent
<1>5. /\ after \in Targets /\ after.note = was.note /\ after.inst \in {0, was.inst, old.inst}
      /\ op # "enable" => after.inst # old.inst
  BY <1>2, <1>3, PlannedFits
<1> HIDE DEF after, n
<1>6. old.rev \in Nat /\ old.pend.base \in Nat /\ Owned(old, was) \in BOOLEAN
  BY <1>2 DEF Records, Pends, Owned
<1>7. (IF Settled(old) THEN old.rev ELSE old.pend.base) \in Nat
  BY <1>6
<1> HIDE DEF was
<1>8. /\ pend \in Pends /\ pend.op = op /\ pend.phase = "prepared" /\ pend.before = was
      /\ pend.after = after /\ pend.ownedAfter = (op = "enable")
  BY <1>3, <1>5, <1>6, <1>7 DEF Pends, Changes, Lifecycle
<1> HIDE DEF pend
<1>9. /\ r \in Records /\ r.inst = old.inst /\ r.pend = pend /\ r.enabled = FALSE
  BY <1>2, <1>8 DEF Records
<1> HIDE DEF r
<1>10. /\ catalog'.record = r /\ catalog'.rev \in Nat /\ proc'[p].pc = "replace" /\ lock = p
       /\ proc'[p].op = op /\ proc'[p].seen = was
       /\ \E x : proc' = [proc EXCEPT ![p] = x]
  BY <1>1, <1>4, CommitOutcome DEF was
<1>11. FilesTyped'
  BY <1>1, <1>9, <1>10 DEF FilesInv, FilesTyped
<1>12. after.inst \in Others \cup {old.inst}
  BY <1>3, <1>5 DEF Others
<1>13. RecordFits(catalog.record)'
  BY <1>1, <1>3, <1>5, <1>8, <1>9, <1>10, <1>12 DEF RecordFits, Changes, Others
<1>14. op # "install" /\ op # "none"
  BY <1>3 DEF Changes
<1>15. TargetFits'
  BY <1>1, <1>3, <1>8, <1>9, <1>10, <1>14 DEF TargetFits, Others
<1>16. SettledIsTrue'
  BY <1>3, <1>8, <1>9, <1>10, <1>14 DEF SettledIsTrue, Settled
<1>17. RecordStage(p)'
  BY <1>3, <1>8, <1>9, <1>10 DEF RecordStage, Prepared, Installing, Changing
<1>18. SeenStage(p)'
  BY <1>1, <1>3, <1>8, <1>9, <1>10 DEF SeenStage, Publishing, Others
<1>19. ReadStage(p)' /\ FileStage(p)'
  BY <1>10 DEF ReadStage, FileStage
<1> QED
  BY <1>10, <1>11, <1>13, <1>15, <1>16, <1>17, <1>18, <1>19, StepOf DEF Stages

\* What a command may rely on whose intent is prepared.
LEMMA ChangeAt ==
  ASSUME HcInv, FilesInv, NEW p \in Procs, proc[p].pc \in Changing
  PROVE  LET r == catalog.record IN
         /\ proc[p].pc \notin Free /\ proc[p].op \in Changes /\ target \in Targets /\ TargetFits
         /\ r.inst # 0 /\ r.pend.op = proc[p].op /\ r.pend.op # "install" /\ Prepared(r)
         /\ ~Settled(r) /\ Record(p) = r
         /\ r.pend.after \in Targets /\ r.pend.after.inst \in Others \cup {r.inst}
         /\ r.pend.after.note = r.pend.before.note /\ r.pend.ownedAfter = (r.pend.op = "enable")
         /\ r.pend.op # "enable" => r.pend.after.inst # r.inst
<1>1. proc[p].pc \notin Free
  BY DEF Changing, Free
<1>2. Record(p) = catalog.record /\ catalog.record \in Records /\ RecordFits(catalog.record)
  BY <1>1, CurrentRecord
<1>3. /\ catalog.record.inst # 0 /\ catalog.record.pend.op = proc[p].op /\ Prepared(catalog.record)
      /\ proc[p].op \in Changes /\ target \in Targets /\ TargetFits
  BY DEF FilesInv, FilesTyped, Stages, RecordStage
<1>4. catalog.record.pend.op # "install" /\ catalog.record.pend.op # "none"
  BY <1>3 DEF Changes
<1>5. catalog.record.pend.after \in Targets
  BY <1>2 DEF Records, Pends
<1> QED
  BY <1>1, <1>2, <1>3, <1>4, <1>5 DEF RecordFits, Settled

\* ... and that goes on.
LEMMA ChangeGoesOn ==
  ASSUME HcInv, FilesInv, NEW p \in Procs, proc[p].pc \in Changing,
         NEW to \in {"publish", "complete", "unlink", "remove", "recheck", "commit"}, Goto(p, to),
         UNCHANGED <<catalog, loose, binary>>,
         dirty' \in [Procs -> SUBSET {"target", "artifact"}],
         target' \in {target, catalog.record.pend.after},
         to \in {"remove", "recheck"} => proc[p].op = "uninstall",
         SeenStage(p)', FileStage(p)'
  PROVE  FilesInv'
<1>1. proc'[p].pc = to /\ proc'[p].op = proc[p].op
  BY GotoOutcome
<1>2. ReadStage(p)'
  BY <1>1 DEF ReadStage
<1>3. RecordStage(p)'
  BY <1>1, ChangeAt DEF RecordStage, Installing, Changing, Prepared
<1>4. target' \in Targets
  BY ChangeAt
<1>5. TargetFits'
  BY ChangeAt DEF TargetFits, Others
<1> QED
  BY <1>2, <1>3, <1>4, <1>5, ChangeAt, WriteFiles DEF Stages

LEMMA RemoveTemporaryFiles ==
  ASSUME HcInv, FilesInv, NEW p \in Procs, RemoveTemporary(p)
  PROVE  FilesInv'
<1> DEFINE to == IF proc[p].op = "install" THEN "finish_install" ELSE "complete"
<1>1. /\ proc[p].pc = "unlink" /\ proc[p].pc \notin Free /\ Goto(p, to)
      /\ UNCHANGED <<catalog, target, artifact, dirty, drift, late, loose, binary>>
  BY DEF RemoveTemporary, Holds, Free, Same
<1>2. /\ catalog.record.inst # 0 /\ catalog.record.pend.op = proc[p].op
      /\ proc[p].op = "install" \/ (proc[p].op \in Changes /\ Prepared(catalog.record))
      /\ target \in Targets /\ TargetFits /\ dirty \in [Procs -> SUBSET {"target", "artifact"}]
  <2>1. RecordStage(p) /\ FilesTyped /\ TargetFits
    BY DEF FilesInv, Stages
  <2> QED
    BY <1>1, <2>1 DEF FilesTyped, RecordStage
<1>3. proc[p].op \in Changes => proc[p].op # "install" /\ proc[p].op # "none"
  BY DEF Changes
<1>4. ~Settled(catalog.record)
  BY <1>2, <1>3 DEF Settled
<1>5. proc'[p].pc = to /\ proc'[p].op = proc[p].op
  BY <1>1, GotoOutcome
<1>6. RecordStage(p)'
  BY <1>1, <1>2, <1>3, <1>5 DEF RecordStage, Installing, Changing, Prepared
<1>7. ReadStage(p)' /\ SeenStage(p)' /\ FileStage(p)'
  BY <1>5 DEF ReadStage, SeenStage, FileStage, Publishing
<1>8. TargetFits'
  BY <1>1, <1>2 DEF TargetFits, Others
<1> QED
  BY <1>1, <1>2, <1>4, <1>6, <1>7, <1>8, WriteFiles DEF Stages

LEMMA ReplaceFiles ==
  ASSUME HcInv, FilesInv, NEW p \in Procs, ReplaceTarget(p)
  PROVE  FilesInv'
<1>1. /\ proc[p].pc = "replace" /\ proc[p].pc \in Changing
      /\ UNCHANGED <<catalog, target, artifact, dirty, drift, late, loose, binary>>
  BY DEF ReplaceTarget, Holds, Changing, Same, files
<1>2. PICK to \in {"publish", "complete"} : Goto(p, to) /\ (to = "publish" => "target" \notin dirty[p])
  BY DEF ReplaceTarget
<1>3. proc'[p].pc = to /\ proc'[p].op = proc[p].op /\ proc'[p].seen = proc[p].seen
  BY <1>2, GotoOutcome
<1>4. SeenStage(p) /\ dirty \in [Procs -> SUBSET {"target", "artifact"}]
  BY DEF FilesInv, FilesTyped, Stages
<1>5. SeenStage(p)'
  BY <1>1, <1>2, <1>3, <1>4 DEF SeenStage, Publishing, Others
<1>6. FileStage(p)'
  BY <1>3 DEF FileStage
<1> QED
  BY <1>1, <1>2, <1>4, <1>5, <1>6, ChangeGoesOn

\* Only what was written behind the last look at the settings may be lost.
LEMMA PublishFiles ==
  ASSUME HcInv, FilesInv, NEW p \in Procs, Publish(p)
  PROVE  FilesInv' /\ (target'.note = target.note \/ p \in late)
<1> DEFINE r == catalog.record
<1>1. /\ proc[p].pc = "publish" /\ proc[p].pc \in Changing
      /\ target' = Record(p).pend.after /\ Touched(p, "target")
      /\ UNCHANGED <<catalog, loose, binary>>
  BY DEF Publish, Holds, Changing, Same
<1>2. PICK to \in {"complete", "unlink"} : Goto(p, to)
  BY DEF Publish
<1>3. /\ target' = r.pend.after /\ r.pend.after.note = r.pend.before.note
  BY <1>1, ChangeAt
<1>4. proc'[p].pc = to /\ proc'[p].op = proc[p].op
  BY <1>2, GotoOutcome
<1>5. SeenStage(p)' /\ FileStage(p)'
  BY <1>4 DEF SeenStage, FileStage, Publishing
<1>6. dirty' \in [Procs -> SUBSET {"target", "artifact"}]
  BY <1>1, TouchedTyped
<1>7. FilesInv'
  BY <1>1, <1>2, <1>3, <1>5, <1>6, ChangeGoesOn
<1>8. r.pend.before = proc[p].seen /\ (p \in late \/ proc[p].seen = target)
  BY <1>1 DEF FilesInv, Stages, SeenStage, Publishing
<1> QED
  BY <1>3, <1>7, <1>8

LEMMA BeforeCompletionFiles ==
  ASSUME HcInv, FilesInv, NEW p \in Procs, BeforeCompletion(p)
  PROVE  FilesInv'
<1> DEFINE r == catalog.record
           to == IF proc[p].op = "uninstall" THEN "remove" ELSE "commit"
<1>1. /\ proc[p].pc = "complete" /\ proc[p].pc \in Changing /\ Goto(p, to) /\ Completable(p)
      /\ UNCHANGED <<catalog, target, artifact, dirty, loose, binary>>
  BY DEF BeforeCompletion, Holds, Changing, Same, files
<1>2. /\ r.pend.op = proc[p].op /\ Record(p) = r /\ r.pend.ownedAfter = (r.pend.op = "enable")
  BY <1>1, ChangeAt
<1>3. /\ target = r.pend.after /\ Owned(r, target) = r.pend.ownedAfter
      /\ proc[p].op = "enable" => compatible(r, target)
      /\ proc[p].op # "uninstall" => artifact = "exact"
  BY <1>1, <1>2 DEF Completable, Applied
<1>4. proc[p].op = "enable" => connected(r, target)
  BY <1>2, <1>3 DEF connected
<1>5. proc'[p].pc = to /\ proc'[p].op = proc[p].op
  BY <1>1, GotoOutcome
<1>6. SeenStage(p)'
  BY <1>5 DEF SeenStage, Publishing
<1>7. FileStage(p)'
  BY <1>1, <1>3, <1>4, <1>5 DEF FileStage, connected, compatible, Owned
<1>8. dirty \in [Procs -> SUBSET {"target", "artifact"}]
  BY DEF FilesInv, FilesTyped
<1> QED
  BY <1>1, <1>6, <1>7, <1>8, ChangeGoesOn

LEMMA RemoveArtifactFiles ==
  ASSUME HcInv, FilesInv, NEW p \in Procs, RemoveArtifact(p)
  PROVE  FilesInv'
<1>1. /\ proc[p].pc = "remove" /\ proc[p].pc \in Changing /\ Goto(p, "recheck")
      /\ Touched(p, "artifact") /\ artifact' = "absent"
      /\ UNCHANGED <<catalog, target, loose, binary>>
  BY DEF RemoveArtifact, Holds, Changing, Same
<1>2. /\ dirty' \in [Procs -> SUBSET {"target", "artifact"}]
      /\ dirty'[p] = dirty[p] \ {"artifact"}
  BY <1>1, TouchedTyped
<1>3. proc'[p].pc = "recheck" /\ proc'[p].op = proc[p].op
  BY <1>1, GotoOutcome
<1>4. SeenStage(p)'
  BY <1>3 DEF SeenStage, Publishing
<1>5. FileStage(p) /\ proc[p].op = "uninstall"
  BY <1>1 DEF FilesInv, Stages, RecordStage
<1>6. FileStage(p)'
  BY <1>1, <1>2, <1>3, <1>5 DEF FileStage, connected, compatible, Owned
<1> QED
  BY <1>1, <1>2, <1>4, <1>5, <1>6, ChangeGoesOn

LEMMA RecheckFiles ==
  ASSUME HcInv, FilesInv, NEW p \in Procs, Recheck(p)
  PROVE  FilesInv'
<1>1. /\ proc[p].pc = "recheck" /\ proc[p].pc \in Changing /\ Goto(p, "commit")
      /\ UNCHANGED <<catalog, target, artifact, dirty, loose, binary>>
  BY DEF Recheck, Holds, Changing, Same, files
<1>2. proc'[p].pc = "commit" /\ proc'[p].op = proc[p].op
  BY <1>1, GotoOutcome
<1>3. SeenStage(p)'
  BY <1>2 DEF SeenStage, Publishing
<1>4. FileStage(p) /\ proc[p].op = "uninstall" /\ dirty \in [Procs -> SUBSET {"target", "artifact"}]
  BY <1>1 DEF FilesInv, FilesTyped, Stages, RecordStage
<1>5. FileStage(p)'
  BY <1>1, <1>2, <1>4 DEF FileStage, connected, compatible, Owned
<1> QED
  BY <1>1, <1>3, <1>4, <1>5, ChangeGoesOn

LEMMA CompletionFiles ==
  ASSUME HcInv, FilesInv, NEW p \in Procs, Completion(p)
  PROVE  FilesInv'
<1> DEFINE old == catalog.record
           n == NextRev(p)
           enabled == proc[p].op = "enable"
           conn == [known |-> TRUE, fp |-> old.pend.after, owned |-> enabled]
           kept == [old EXCEPT !.enabled = enabled, !.pend = NoPend, !.rev = n, !.conn = conn]
           r == IF proc[p].op = "uninstall" THEN NoRecord ELSE kept
<1>1. /\ proc[p].pc = "commit" /\ proc[p].pc \in Changing
      /\ drift' = (drift \ {"target", "artifact"}) \cup (dirty[p] \cap {"target", "artifact"})
      /\ loose' = IF proc[p].op = "uninstall" /\ "target" \in dirty[p]
                  THEN loose \cup {Record(p).inst} ELSE loose
      /\ UNCHANGED <<target, artifact, dirty, binary>>
  BY DEF Completion, Holds, Changing, files, Verified
<1>2. /\ old.inst # 0 /\ old.pend.op = proc[p].op /\ proc[p].op \in Changes /\ proc[p].pc \notin Free
      /\ target \in Targets /\ TargetFits /\ old.pend.after \in Targets
      /\ old.pend.after.inst \in Others \cup {old.inst}
      /\ old.pend.op # "enable" => old.pend.after.inst # old.inst
  BY <1>1, ChangeAt
<1>3. n = catalog.rev + 1 /\ n \in Nat /\ old \in Records /\ Record(p) = old
  BY <1>2, CurrentRecord
<1>4. CommitRecord(p, r, "verify")
  BY <1>3 DEF Completion
<1>5. /\ "target" \notin dirty[p] => target = old.pend.after /\ (enabled => connected(old, target))
      /\ "artifact" \notin dirty[p] => artifact = IF proc[p].op = "uninstall" THEN "absent" ELSE "exact"
  BY <1>1 DEF FilesInv, Stages, FileStage
<1>6. CASE proc[p].op = "uninstall"
  <2>1. CommitRecord(p, NoRecord, "verify")
    BY <1>4, <1>6
  <2>2. target.inst \in Others'
    <3>1. CASE "target" \in dirty[p]
      BY <1>1, <1>2, <1>3, <1>6, <3>1 DEF TargetFits, Others
    <3>2. CASE "target" \notin dirty[p]
      BY <1>1, <1>2, <1>5, <1>6, <3>2 DEF Others
    <3> QED
      BY <3>1, <3>2
  <2>3. drift' = {} => artifact = "absent"
    BY <1>1, <1>5, <1>6
  <2> QED
    BY <1>1, <1>2, <2>1, <2>2, <2>3, RecordGone
<1>7. CASE proc[p].op # "uninstall"
  <2>1. conn \in Conns /\ enabled \in BOOLEAN
    BY <1>2 DEF Conns
  <2> HIDE DEF n, conn
  <2>2. /\ kept \in Records /\ kept.inst = old.inst /\ kept.pend = NoPend /\ kept.enabled = enabled
    <3> HIDE DEF enabled
    <3> QED
      BY <1>3, <2>1, EmptyTyped DEF Records
  <2> HIDE DEF kept
  <2>3. CommitRecord(p, kept, "verify") /\ loose' = loose
    BY <1>1, <1>4, <1>7
  <2>4. /\ catalog'.record = kept /\ catalog'.rev \in Nat /\ proc'[p].pc = "verify" /\ lock = p
        /\ \E x : proc' = [proc EXCEPT ![p] = x]
    BY <1>2, <2>3, CommitOutcome
  <2>5. FilesTyped'
    BY <1>1, <2>2, <2>4 DEF FilesInv, FilesTyped
  <2>6. RecordFits(catalog.record)'
    BY <1>2, <2>2, <2>4, EmptyTyped DEF RecordFits, Prepared
  <2>7. TargetFits'
    BY <1>1, <1>2, <2>2, <2>3, <2>4, EmptyTyped DEF TargetFits, Others
  <2>8. drift' = {} =>
          /\ artifact = "exact" /\ (enabled => connected(kept, target))
          /\ ~enabled => target.inst # old.inst
    BY <1>1, <1>2, <1>5, <1>7, <2>2 DEF connected, compatible, Owned
  <2>9. SettledIsTrue'
    <3>1. /\ drift' = {} => artifact' = "exact" /\ (kept.enabled => connected(kept, target'))
          /\ drift' = {} => (~kept.enabled => target'.inst # kept.inst)
      <4>1. UNCHANGED <<target, artifact>> /\ kept.enabled = enabled /\ kept.inst = old.inst
        BY <1>1, <2>2
      <4> HIDE DEF enabled, old
      <4> QED
        BY <2>8, <4>1
    <3>2. catalog'.record.inst # 0 /\ catalog'.record = kept
      BY <1>2, <2>2, <2>4
    <3> HIDE DEF enabled
    <3> QED
      BY <3>1, <3>2 DEF SettledIsTrue, connected, compatible, Owned
  <2>10. Stages(p)'
    BY <2>4, CarelessStages DEF Careless
  <2> QED
    BY <2>4, <2>5, <2>6, <2>7, <2>9, <2>10, StepOf
<1> QED
  BY <1>6, <1>7

LEMMA LegacyFiles ==
  ASSUME HcInv, FilesInv, NEW p \in Procs, LegacyAction(p)
  PROVE  FilesInv'
<1>1. /\ proc[p].pc = "legacy" /\ proc' = [proc EXCEPT ![p].pc = "legacy_publish", ![p].seen = target]
      /\ UNCHANGED <<catalog, files, dirty, drift, late, loose, binary>>
  BY DEF LegacyAction, Holds, Same
<1>2. /\ proc'[p].pc = "legacy_publish" /\ proc'[p].op = proc[p].op /\ proc'[p].seen = target
      /\ \E x : proc' = [proc EXCEPT ![p] = x]
  BY <1>1, SeesOutcome
<1>3. target \in Targets /\ TargetFits /\ RecordStage(p)
  BY DEF FilesInv, FilesTyped, Stages
<1>4. RecordStage(p)'
  BY <1>1, <1>2, <1>3 DEF RecordStage, Installing, Changing
<1>5. SeenStage(p)'
  BY <1>1, <1>2, <1>3 DEF SeenStage, Publishing, TargetFits, Others, files
<1>6. ReadStage(p)' /\ FileStage(p)'
  BY <1>2 DEF ReadStage, FileStage
<1>7. Quiet(p)
  BY <1>1, QuietStep
<1> QED
  BY <1>2, <1>4, <1>5, <1>6, <1>7, NoWrite DEF Stages

LEMMA LegacyPublishFiles ==
  ASSUME HcInv, FilesInv, NEW p \in Procs, LegacyPublish(p)
  PROVE  FilesInv' /\ (target'.note = target.note \/ p \in late)
<1> DEFINE r == catalog.record
           was == proc[p].seen
           on == proc[p].op = "legacy_on"
<1>1. /\ proc[p].pc = "legacy_publish" /\ lock = p /\ proc' = [proc EXCEPT ![p] = Idle]
      /\ target' = [was EXCEPT !.legacy = on, !.exists = TRUE] /\ Touched(p, "target")
      /\ UNCHANGED <<catalog, artifact, drift, loose, binary>>
  BY DEF LegacyPublish, Holds, Done, Same
<1>2. on => r.inst = 0
  BY <1>1 DEF FilesInv, Stages, RecordStage
<1>3. /\ was \in Targets /\ was.inst \in Others \cup {r.inst}
      /\ p \in late \/ was = target
      /\ "target" \in drift \/ was = target
      /\ r.inst = 0 \/ r.pend.op = "install" => was.inst \in Others
  <2>1. SeenStage(p)
    BY DEF FilesInv, Stages
  <2> QED
    BY <1>1, <2>1 DEF SeenStage, Publishing
<1>0. on \in BOOLEAN
  OBVIOUS
<1> HIDE DEF on, was
<1>4. /\ target' \in Targets /\ target'.inst = was.inst /\ target'.part = was.part
      /\ target'.note = was.note /\ target'.legacy = on
  BY <1>0, <1>1, <1>3 DEF Targets
<1>5. dirty' \in [Procs -> SUBSET {"target", "artifact"}]
  BY <1>1, TouchedTyped
<1>6. FilesTyped'
  BY <1>1, <1>4, <1>5 DEF FilesInv, FilesTyped
<1>7. RecordFits(catalog.record)' /\ TargetFits'
  BY <1>1, <1>3, <1>4 DEF FilesInv, RecordFits, Prepared, TargetFits, Others
<1>8. SettledIsTrue'
  <2>1. CASE "target" \in drift
    BY <1>1, <2>1 DEF SettledIsTrue
  <2>2. CASE was = target
    BY <1>1, <1>2, <1>4, <2>2 DEF FilesInv, SettledIsTrue, Settled, connected, compatible, Owned
  <2> QED
    BY <1>3, <2>1, <2>2
<1>9. proc'[p] = Idle
  BY <1>1 DEF HcInv, Shaped
<1>10. Stages(p)'
  BY <1>9, CarelessStages DEF Careless, Idle
<1>11. FilesInv'
  BY <1>1, <1>6, <1>7, <1>8, <1>10, StepOf
<1> QED
  BY <1>3, <1>4, <1>11

LEMMA AdmitFiles ==
  ASSUME HcInv, FilesInv, NEW p \in Procs, AdmitVerify(p) \/ AdmitFinal(p)
  PROVE  FilesInv'
<1>1. PICK to \in {"final", "admitted"} : proc' = [proc EXCEPT ![p].pc = to]
  BY DEF AdmitVerify, AdmitFinal, Goto
<1>2. Quiet(p)
  BY QuietStep DEF AdmitVerify, AdmitFinal, Same
<1> DEFINE x == [proc[p] EXCEPT !.pc = to]
<1>3. IsProc(proc[p])
  BY DEF HcInv, Shaped
<1>4. x.pc \in Careless
  BY <1>3 DEF IsProc, Careless
<1>5. proc' = [proc EXCEPT ![p] = x]
  BY <1>1
<1> HIDE DEF x
<1> QED
  BY <1>2, <1>4, <1>5, CarelessStep

LEMMA EndsFiles ==
  ASSUME HcInv, FilesInv, NEW p \in Procs, HandlerEnds(p) \/ Ends(p) \/ HcFail(p) \/ HcBeginRefused(p)
  PROVE  FilesInv'
<1>1. /\ proc' = [proc EXCEPT ![p] = Idle] /\ Forgets(p)
      /\ UNCHANGED <<catalog, files, binary, drift, loose>>
  BY DEF HandlerEnds, Ends, HcFail, HcBeginRefused, End, Fail, Done, BeginRefused, Same
<1>2. Quiet(p)
  BY <1>1, QuietStep
<1> QED
  BY <1>1, <1>2, DoneFiles

\* Commands of the catalog leave the record of the installation alone.
LEMMA CandidateKeepsRecord ==
  ASSUME NEW p \in Procs, proc[p].op \in RegistryOps, IsDoc(proc[p].doc),
         NEW document \in Candidates(p)
  PROVE  IsDoc(document) /\ document.record = proc[p].doc.record
<1> DEFINE doc == proc[p].doc
<1>1. ASSUME NEW trust, document = [doc EXCEPT !.trust = trust]
      PROVE  IsDoc(document) /\ document.record = doc.record
  BY <1>1 DEF IsDoc
<1>3. CASE proc[p].op = "register"
  <2>1. document \in registration_candidate(doc)
    BY <1>3 DEF Candidates
  <2>2. document = [doc EXCEPT !.reg = doc.rev + 1, !.trust = NoTrust]
    BY <2>1 DEF registration_candidate
  <2> QED
    BY <2>2 DEF IsDoc
<1>4. CASE proc[p].op = "unregister"
  <2>1. document \in unregistration_candidate(doc)
    BY <1>4 DEF Candidates
  <2>2. document = [doc EXCEPT !.reg = 0, !.trust = NoTrust]
    BY <2>1 DEF unregistration_candidate
  <2> QED
    BY <2>2 DEF IsDoc
<1>5. CASE proc[p].op = "confirm"
  <2>1. document \in trust_candidate(doc)
    BY <1>5 DEF Candidates
  <2>2. document = [doc EXCEPT !.trust = [reg |-> doc.reg, code |-> code, rev |-> doc.rev + 1]]
    BY <2>1 DEF trust_candidate
  <2> QED
    BY <1>1, <2>2
<1>6. CASE proc[p].op = "clear"
  BY <1>1, <1>6 DEF Candidates, clear_candidate
<1> QED
  BY <1>3, <1>4, <1>5, <1>6 DEF RegistryOps

LEMMA ApplyFiles ==
  ASSUME HcInv, FilesInv, NEW p \in Procs, RegistryApply(p), UNCHANGED hostVars
  PROVE  FilesInv'
<1>1. /\ lock = p /\ proc[p].doc = catalog /\ IsDoc(catalog) /\ proc[p].op \in RegistryOps
      /\ proc' = [proc EXCEPT ![p] = Idle]
  BY DEF HcInv, HolderIsCurrent, AppliesItsOwn, Shaped, RegistryApply, Free, Done
<1>2. CASE UNCHANGED catalog
  <2>1. Quiet(p)
    BY <1>2, QuietStep DEF hostVars
  <2> QED
    BY <1>1, <2>1, DoneFiles
<1>3. ASSUME NEW document \in Candidates(p), Commits(p, document)
      PROVE  FilesInv'
  <2>1. IsDoc(document) /\ document.record = catalog.record
    BY <1>1, CandidateKeepsRecord
  <2>2. catalog' = [document EXCEPT !.rev = catalog.rev + 1]
    BY <1>1, <1>3 DEF Commits
  <2>3. catalog'.record = catalog.record /\ catalog'.rev = catalog.rev + 1
    BY <2>1, <2>2 DEF IsDoc
  <2>4. FilesTyped' /\ RecordFits(catalog.record)' /\ TargetFits' /\ SettledIsTrue'
    BY <2>3 DEF FilesInv, FilesTyped, TargetFits, RecordFits, Prepared, Others, SettledIsTrue, hostVars, files,
                Settled, connected, compatible, Owned
  <2>5. proc'[p] = Idle
    BY <1>1 DEF HcInv, Shaped
  <2>6. Stages(p)'
    BY <2>5, CarelessStages DEF Careless, Idle
  <2> QED
    BY <1>1, <2>4, <2>6, StepOf
<1> QED
  BY <1>2, <1>3 DEF RegistryApply

LEMMA RegistryFiles ==
  ASSUME HcInv, FilesInv, NEW p \in Procs, RegistryNext(p), UNCHANGED hostVars
  PROVE  FilesInv'
<1>0. UNCHANGED catalog => Quiet(p)
  BY QuietStep DEF hostVars
<1>1. ASSUME NEW x, proc' = [proc EXCEPT ![p] = x], x.pc \in Careless, UNCHANGED catalog
      PROVE  FilesInv'
  BY <1>0, <1>1, CarelessStep
<1>2. ASSUME NEW to \in {"apply", "accept", "accepted"}, proc' = [proc EXCEPT ![p].pc = to], UNCHANGED catalog
      PROVE  FilesInv'
  <2> DEFINE x == [proc[p] EXCEPT !.pc = to]
  <2>1. IsProc(proc[p])
    BY DEF HcInv, Shaped
  <2>2. x.pc \in Careless
    BY <2>1 DEF IsProc, Careless
  <2>3. proc' = [proc EXCEPT ![p] = x]
    BY <1>2
  <2> HIDE DEF x
  <2> QED
    BY <1>1, <1>2, <2>2, <2>3
<1>3. CASE RegistrySnapshot(p)
  <2>1. PICK op \in RegistryOps : Snapshot(p, op) /\ UNCHANGED catalog
    BY <1>3 DEF RegistrySnapshot
  <2>2. op \notin Lifecycle /\ op # "legacy_on" /\ Quiet(p)
    BY <1>0, <2>1 DEF RegistryOps, Lifecycle
  <2> QED
    BY <2>1, <2>2, SnapshotFiles
<1>4. CASE RegistryBegin(p)
  BY <1>2, <1>4 DEF RegistryBegin, Begin
<1>5. CASE DiagnosticPrepare(p)
  <2> DEFINE launch == [pc |-> "launch", op |-> "diagnose", doc |-> "none",
                        seen |-> [reg |-> catalog.reg, trust |-> catalog.trust, code |-> code]]
  <2>1. launch.pc \in Careless
    BY DEF Careless
  <2>2. proc' = [proc EXCEPT ![p] = launch] /\ UNCHANGED catalog
    BY <1>5 DEF DiagnosticPrepare
  <2> HIDE DEF launch
  <2> QED
    BY <1>1, <2>1, <2>2
<1>6. CASE DiagnosticLaunch(p) \/ DiagnosticAccept(p)
  BY <1>2, <1>6 DEF DiagnosticLaunch, DiagnosticAccept
<1>7. CASE DiagnosticEnd(p)
  BY <1>0, <1>7, DoneFiles DEF DiagnosticEnd, Done
<1> QED
  BY <1>3, <1>4, <1>5, <1>6, <1>7, ApplyFiles DEF RegistryNext

\* The user may write anything but callbacks no installation ever had.
LEMMA EditFiles ==
  ASSUME HcInv, FilesInv, UserEdits
  PROVE  FilesInv'
<1> DEFINE r == catalog.record
<1>1. /\ UNCHANGED <<catalog, proc, lock, loose, binary>> /\ drift' # {} /\ drift \subseteq drift'
      /\ target' = target \/ target' \in EditedTargets
  BY DEF UserEdits, Edited, registryVars
<1>2. r \in Records /\ RecordFits(r) /\ TargetFits /\ target \in Targets
  BY DEF FilesInv, FilesTyped
<1>3. r.conn.known => r.inst # 0 /\ r.pend.op # "install"
  BY <1>2, EmptyTyped DEF RecordFits
<1>4. Elsewhere \in Nat /\ r.inst \in Nat
  BY <1>2, HostConfigAssumption DEF Records
<1>5. target' \in Targets /\ (target'.inst \in {target.inst, 0, Elsewhere} \/ (r.conn.known /\ target'.inst = r.inst))
  <2>1. ASSUME NEW i \in {0, Elsewhere, r.inst},
               target' = [target EXCEPT !.inst = i, !.part = FALSE, !.exists = TRUE]
        PROVE  target' \in Targets /\ target'.inst = i
    <3>1. i \in Nat
      BY <1>4
    <3> QED
      BY <1>2, <2>1, <3>1 DEF Targets
  <2>2. ASSUME NEW i \in {0, Elsewhere} \cup (IF r.conn.known THEN {r.inst} ELSE {}),
               target' = [target EXCEPT !.inst = i, !.part = FALSE, !.exists = TRUE]
        PROVE  target' \in Targets /\ (target'.inst \in {0, Elsewhere} \/ (r.conn.known /\ target'.inst = r.inst))
    <3>1. i \in {0, Elsewhere} \/ (r.conn.known /\ i = r.inst)
      <4>1. CASE r.conn.known
        BY <4>1
      <4>2. CASE ~r.conn.known
        BY <4>2
      <4> QED
        BY <4>1, <4>2
    <3> QED
      BY <2>1, <2>2, <3>1
  <2>3. ASSUME NEW n \in Notes, target' = [target EXCEPT !.note = n, !.exists = TRUE]
        PROVE  target' \in Targets /\ target'.inst = target.inst
    BY <1>2, <2>3 DEF Targets
  <2>4. ASSUME NEW b \in BOOLEAN, \/ target' = [target EXCEPT !.legacy = b, !.exists = TRUE]
                                 \/ target' = [target EXCEPT !.part = b, !.exists = TRUE]
        PROVE  target' \in Targets /\ target'.inst = target.inst
    BY <1>2, <2>4 DEF Targets
  <2>5. CASE target' \in EditedTargets
    <3> DEFINE insts == {0, Elsewhere} \cup (IF r.conn.known THEN {r.inst} ELSE {})
               noted == {[target EXCEPT !.note = n, !.exists = TRUE] : n \in Notes}
               moved == {[target EXCEPT !.inst = i, !.part = FALSE, !.exists = TRUE] : i \in insts}
    <3>1. EditedTargets = noted \cup {[target EXCEPT !.legacy = ~target.legacy, !.exists = TRUE]}
                            \cup moved \cup {[target EXCEPT !.part = (target.inst # 0), !.exists = TRUE]}
      BY DEF EditedTargets
    <3>2. CASE target' \in noted
      BY <2>3, <3>2
    <3>3. CASE target' \in moved
      <4>1. PICK i \in insts : target' = [target EXCEPT !.inst = i, !.part = FALSE, !.exists = TRUE]
        <5> HIDE DEF insts
        <5> QED
          BY <3>3, Zenon
      <4>2. i \in {0, Elsewhere} \cup (IF r.conn.known THEN {r.inst} ELSE {})
        BY Zenon
      <4> QED
        BY <2>2, <4>1, <4>2, Zenon
    <3>4. CASE target' = [target EXCEPT !.legacy = ~target.legacy, !.exists = TRUE]
      <4>1. (~target.legacy) \in BOOLEAN
        OBVIOUS
      <4> QED
        BY <2>4, <3>4, <4>1
    <3>5. CASE target' = [target EXCEPT !.part = (target.inst # 0), !.exists = TRUE]
      <4>1. (target.inst # 0) \in BOOLEAN
        OBVIOUS
      <4> QED
        BY <2>4, <3>5, <4>1
    <3> HIDE DEF noted, moved
    <3> QED
      BY <2>5, <3>1, <3>2, <3>3, <3>4, <3>5
  <2>6. CASE target' = target
    BY <1>2, <2>6
  <2> QED
    BY <1>1, <2>5, <2>6
<1>6. dirty' \in [Procs -> SUBSET {"target", "artifact"}]
  BY DEF FilesInv, FilesTyped, UserEdits, Edited
<1>7. FilesTyped'
  BY <1>1, <1>2, <1>5, <1>6 DEF FilesInv, FilesTyped
<1>8. RecordFits(r)' /\ TargetFits' /\ SettledIsTrue'
  BY <1>1, <1>2, <1>3, <1>5 DEF TargetFits, SettledIsTrue, RecordFits, Prepared, Others
<1>9. ASSUME NEW p \in Procs
      PROVE  Stages(p)'
  <2>1. Stages(p) /\ (proc[p].pc \notin Free => lock = p)
    BY DEF FilesInv, HcInv, HolderIsCurrent
  <2>2. /\ dirty[p] \subseteq dirty'[p]
        /\ lock = p => "target" \in dirty'[p] \/ target' = target
        /\ lock = p => "artifact" \in dirty'[p] \/ artifact' = artifact
        /\ "target" \in drift' \/ target' = target
        /\ p \in late => p \in late'
        /\ proc[p].pc \in Publishing => p \in late' \/ target' = target
    BY DEF FilesInv, FilesTyped, UserEdits, Edited, Capturing
  <2>3. ReadStage(p)' /\ RecordStage(p)'
    BY <1>1, <2>1 DEF Stages, ReadStage, RecordStage, Record, admissible, Settled, Prepared
  <2>4. CASE proc[p].pc \in Free
    <3>1. SeenStage(p)' /\ FileStage(p)'
      BY <1>1, <2>4 DEF SeenStage, FileStage, Free, Publishing
    <3> QED
      BY <2>3, <3>1 DEF Stages
  <2>5. CASE proc[p].pc \notin Free
    <3>1. SeenStage(p)'
      BY <1>1, <2>1, <2>2, <2>5 DEF Stages, SeenStage, Others, Partial
    <3>2. FileStage(p)'
      BY <1>1, <2>1, <2>2, <2>5 DEF Stages, FileStage, connected, compatible, Owned
    <3> QED
      BY <2>3, <3>1, <3>2 DEF Stages
  <2> QED
    BY <2>4, <2>5
<1> QED
  BY <1>1, <1>7, <1>8, <1>9 DEF FilesInv

\* A second name removed, another executable, a review, other code, or nothing:
\* what the files hold stays.
LEMMA ElsewhereFiles ==
  ASSUME FilesInv, UNCHANGED <<catalog, proc, target, artifact, drift, late, loose>>,
         binary' \in {0, 1}, dirty' \in [Procs -> SUBSET {"target", "artifact"}],
         \A p \in Procs : dirty[p] \subseteq dirty'[p]
  PROVE  FilesInv'
<1>1. FilesTyped' /\ RecordFits(catalog.record)' /\ TargetFits' /\ SettledIsTrue'
  BY DEF FilesInv, FilesTyped, TargetFits, SettledIsTrue, RecordFits, Prepared, Others,
         Settled, connected, compatible, Owned
<1>2. ASSUME NEW p \in Procs
      PROVE  Stages(p)'
  <2>1. Stages(p)
    BY DEF FilesInv
  <2>2. ReadStage(p)' /\ RecordStage(p)'
    BY <2>1 DEF Stages, ReadStage, RecordStage, Record, admissible, Settled, Prepared
  <2>3. SeenStage(p)' /\ FileStage(p)'
    BY <2>1 DEF Stages, SeenStage, FileStage, Others, Partial, connected, compatible, Owned
  <2> QED
    BY <2>2, <2>3 DEF Stages
<1> QED
  BY <1>1, <1>2 DEF FilesInv

LEMMA FilesStep ==
  ASSUME HcInv, FilesInv, [HcNext]_hcVars
  PROVE  FilesInv'
<1>1. ASSUME NEW p \in Procs, HcStep(p)
      PROVE  FilesInv'
  <2>1. CASE \/ InstallIntent(p) \/ CreateArtifact(p) \/ finish_install(p) \/ ReconcileInstall(p)
             \/ InstallCompletion(p) \/ WithdrawInstall(p) \/ RemoveTemporary(p)
    BY <2>1, InstallIntentFiles, CreateFiles, CheckInstallFiles, InstallCompletionFiles, WithdrawFiles,
       RemoveTemporaryFiles
  <2>2. CASE CloseGate(p) \/ Observe(p) \/ RevertEnable(p) \/ PrepareIntent(p)
    BY <2>2, CloseGateFiles, ObserveFiles, RevertFiles, PrepareFiles
  <2>3. CASE \/ ReplaceTarget(p) \/ Publish(p) \/ BeforeCompletion(p) \/ RemoveArtifact(p)
             \/ Recheck(p) \/ Completion(p)
    BY <2>3, ReplaceFiles, PublishFiles, BeforeCompletionFiles, RemoveArtifactFiles, RecheckFiles,
       CompletionFiles
  <2>4. CASE \/ HcBegin(p) \/ HcBeginRefused(p) \/ AdmitVerify(p) \/ AdmitFinal(p) \/ HandlerEnds(p)
             \/ LegacyAction(p) \/ LegacyPublish(p) \/ Ends(p)
    BY <2>4, BeginFiles, EndsFiles, AdmitFiles, LegacyFiles, LegacyPublishFiles
  <2> QED
    BY <1>1, <2>1, <2>2, <2>3, <2>4 DEF HcStep
<1>2. dirty \in [Procs -> SUBSET {"target", "artifact"}] /\ binary \in {0, 1}
  BY DEF FilesInv, FilesTyped
<1>3. CASE ((review_trust \/ CodeChanges) /\ UNCHANGED hostVars) \/ UNCHANGED hcVars
  BY <1>2, <1>3, ElsewhereFiles DEF review_trust, CodeChanges, hcVars, hostVars, registryVars, files
<1>4. CASE UserTidies
  <2>1. PICK file \in {"target", "artifact"} :
          dirty' = [p \in Procs |-> IF Capturing(p) THEN dirty[p] \cup {file} ELSE dirty[p]]
    BY <1>2, <1>4 DEF UserTidies, Edited
  <2>2. /\ dirty' \in [Procs -> SUBSET {"target", "artifact"}]
        /\ \A p \in Procs : dirty[p] \subseteq dirty'[p]
    BY <1>2, <2>1
  <2> QED
    BY <1>2, <1>4, <2>2, ElsewhereFiles DEF UserTidies, Edited, registryVars
<1>5. CASE BinaryChanges
  BY <1>2, <1>5, ElsewhereFiles DEF BinaryChanges, registryVars, files
<1> QED
  BY <1>1, <1>3, <1>4, <1>5, RegistryFiles, SnapshotsFiles, EndsFiles, EditFiles DEF HcNext

LEMMA FilesInitially ==
  ASSUME HcInit
  PROVE  FilesInv
<1>1. /\ catalog.rev = 0 /\ catalog.record = NoRecord /\ artifact = "absent" /\ binary = 0
      /\ target \in {Clean, [Clean EXCEPT !.exists = TRUE]}
      /\ dirty = [p \in Procs |-> {}] /\ \A p \in Procs : proc[p].pc = "idle"
  BY DEF HcInit, RegInit, Idle
<1>2. target \in Targets /\ target.inst = 0
  <2>1. Clean \in Targets /\ Clean.inst = 0
    BY EmptyTyped DEF Clean
  <2> QED
    BY <1>1, <2>1 DEF Targets
<1>3. FilesTyped
  BY <1>1, <1>2, EmptyTyped DEF FilesTyped
<1>4. RecordFits(catalog.record) /\ TargetFits /\ SettledIsTrue
  BY <1>1, <1>2, EmptyTyped DEF RecordFits, Prepared, TargetFits, SettledIsTrue, Others
<1>5. ASSUME NEW p \in Procs
      PROVE  Stages(p)
  BY <1>1 DEF Stages, ReadStage, RecordStage, SeenStage, FileStage, Installing, Changing, Publishing
<1> QED
  BY <1>3, <1>4, <1>5 DEF FilesInv

\* Who changes the settings, and who counts what happens outside.
LEMMA WhoWrites ==
  ASSUME [HcNext]_hcVars
  PROVE  \/ target' = target /\ edits' = edits
         \/ edits' = edits + 1
         \/ \E p \in Procs : (Publish(p) \/ LegacyPublish(p)) /\ edits' = edits
<1>1. ASSUME NEW p \in Procs, HcStep(p), ~Publish(p), ~LegacyPublish(p)
      PROVE  target' = target /\ edits' = edits
  <2>1. CASE \/ HcBegin(p) \/ HcBeginRefused(p) \/ InstallIntent(p) \/ CreateArtifact(p)
             \/ RemoveTemporary(p) \/ finish_install(p) \/ InstallCompletion(p)
             \/ ReconcileInstall(p) \/ WithdrawInstall(p)
    BY <2>1 DEF HcBegin, HcBeginRefused, InstallIntent, CreateArtifact, RemoveTemporary, finish_install,
                InstallCompletion, ReconcileInstall, WithdrawInstall, Same, files, hostVars
  <2>2. CASE \/ CloseGate(p) \/ Observe(p) \/ RevertEnable(p) \/ PrepareIntent(p) \/ ReplaceTarget(p)
             \/ BeforeCompletion(p) \/ RemoveArtifact(p) \/ Recheck(p) \/ Completion(p)
    BY <2>2 DEF CloseGate, Observe, RevertEnable, PrepareIntent, ReplaceTarget, BeforeCompletion,
                RemoveArtifact, Recheck, Completion, Same, files
  <2>3. CASE AdmitVerify(p) \/ AdmitFinal(p) \/ HandlerEnds(p) \/ LegacyAction(p) \/ Ends(p)
    BY <2>3 DEF AdmitVerify, AdmitFinal, HandlerEnds, LegacyAction, Ends, End, Same, files
  <2> QED
    BY <1>1, <2>1, <2>2, <2>3 DEF HcStep
<1>2. ASSUME NEW p \in Procs, Publish(p) \/ LegacyPublish(p)
      PROVE  edits' = edits
  BY <1>2 DEF Publish, LegacyPublish, Same
<1>3. ASSUME NEW p \in Procs, LifecycleSnapshot(p) \/ AdmitSnapshot(p) \/ LegacySnapshot(p) \/ HcFail(p)
      PROVE  target' = target /\ edits' = edits
  BY <1>3 DEF LifecycleSnapshot, AdmitSnapshot, LegacySnapshot, HcFail, files, hostVars
<1>4. CASE UNCHANGED hcVars \/ UNCHANGED hostVars
  BY <1>4 DEF hcVars, hostVars, files
<1>5. CASE UserEdits \/ UserTidies \/ BinaryChanges
  BY <1>5 DEF UserEdits, UserTidies, BinaryChanges, Edited
<1>6. CASE HcNext
  BY <1>1, <1>2, <1>3, <1>4, <1>5, <1>6 DEF HcNext
<1> QED
  BY <1>4, <1>6
-----------------------------------------------------------------------------
LEMMA HcInitially ==
  ASSUME HcInit
  PROVE  HcInv
<1>1. Shaped
  BY DEF HcInit, RegInit, Shaped, IsDoc, IsProc, Idle
<1>2. \A p \in Procs : proc[p].pc = "idle"
  BY DEF HcInit, RegInit, Idle
<1>3. catalog.trust = NoTrust
  BY DEF HcInit
<1> QED
  BY <1>1, <1>2, <1>3 DEF HcInv, HolderIsCurrent, AppliesItsOwn, TrustWasReviewed, Free

LEMMA HcInvariance == HcSpec => []HcInv
<1>1. HcInit => HcInv
  BY HcInitially
<1>2. HcInv /\ [HcNext]_hcVars => HcInv'
  BY HcNextStep
<1> QED
  BY <1>1, <1>2, PTL DEF HcSpec

\* For any number of processes and versions of the code: trust that is recorded was
\* confirmed for what an operator was shown of this very registration
\* (review_trust, trust_candidate), whatever was registered, unregistered, changed
\* on disk or recovered in between.
THEOREM TrustIsReviewed == HcSpec => []TrustWasReviewed
<1>1. HcInv => TrustWasReviewed
  BY DEF HcInv
<1> QED
  BY <1>1, HcInvariance, PTL

\* For any number of processes: each change of registry.json advances the revision
\* of the catalog it replaces by one, though the writer read it before it held the
\* reservation (begin_with_creation, commit_observed); so no commit is lost.
THEOREM NoUpdateIsLost == HcSpec => NoLostUpdate
<1>1. HcInv /\ [HcNext]_hcVars => [catalog' # catalog => catalog'.rev = catalog.rev + 1]_catalog
  BY HcNextStep
<1> QED
  BY <1>1, HcInvariance, PTL DEF HcSpec, NoLostUpdate

LEMMA FilesInvariance == HcSpec => [](HcInv /\ FilesInv /\ edits \in Nat)
<1>1. HcInit => HcInv /\ FilesInv /\ edits \in Nat
  BY HcInitially, FilesInitially DEF HcInit
<1>2. HcInv /\ FilesInv /\ edits \in Nat /\ [HcNext]_hcVars => (HcInv /\ FilesInv /\ edits \in Nat)'
  BY HcNextStep, FilesStep, WhoWrites
<1> QED
  BY <1>1, <1>2, PTL DEF HcSpec

\* For any number of processes, commands, failures and edits: a settled record tells
\* the truth about files nobody edited since a command verified them.  Enabled means
\* all three callbacks, the artifact and no legacy hooks; disabled means none of
\* ours; and a record that is gone leaves neither its artifact nor its callbacks
\* behind, but for callbacks the user put back behind the last look at the settings
\* (complete_connection, reconcile_install), wherever commands died and whoever
\* recovered them.
THEOREM SettledRecordIsTrue == HcSpec => []SettledIsTrue
<1>1. FilesInv => SettledIsTrue
  BY DEF FilesInv
<1> QED
  BY <1>1, FilesInvariance, PTL

\* For any number of processes: what the user wrote into the settings file is
\* changed by a command, which writes the whole file from what it captured, only if
\* it was written between the command's last look at the file and its rename
\* (FileObservation::replace, the legacy writer), wherever other commands died.
THEOREM UserEditsSurvive == HcSpec => EditsSurvive
<1>1. HcInv /\ FilesInv /\ edits \in Nat /\ [HcNext]_hcVars =>
        [target'.note # target.note /\ edits' = edits =>
           \E p \in late : lock = p /\ proc[p].pc \in Publishing]_hcVars
  <2> SUFFICES ASSUME HcInv, FilesInv, edits \in Nat, [HcNext]_hcVars,
                      target'.note # target.note, edits' = edits
               PROVE  \E p \in late : lock = p /\ proc[p].pc \in Publishing
    OBVIOUS
  <2>1. PICK p \in Procs : Publish(p) \/ LegacyPublish(p)
    BY WhoWrites
  <2>2. p \in late
    BY <2>1, PublishFiles, LegacyPublishFiles
  <2>3. lock = p /\ proc[p].pc \in Publishing
    BY <2>1 DEF Publish, LegacyPublish, Holds, Publishing
  <2> QED
    BY <2>2, <2>3
<1> QED
  BY <1>1, FilesInvariance, PTL DEF HcSpec, EditsSurvive
=============================================================================
