------------------------------ MODULE EventDaemon ------------------------------
(***************************************************************************)
(* The daemon processes of DaemonStart with the dispatcher threads of      *)
(* Delivery inside them: a thread lives exactly as long as its process     *)
(* serves, and the queue is the ledger they all share.                     *)
(***************************************************************************)
EXTENDS DaemonStart, Delivery

ASSUME SameProcesses == Dispatchers = Daemons

edVars == <<startVars, deliveryVars>>

EdTypeOK == StartTypeOK /\ DeliveryTypeOK

EdInit == StartInit /\ DeliveryInit

\* serve starts the dispatcher after the bind and the pid record.
StartServing(p) ==
    /\ RecordPid(p)
    /\ DispatcherStart(p)
    /\ UNCHANGED <<rows, created, seen>>

DaemonEnds(p) == DispatcherEnd(p) /\ UNCHANGED <<rows, created, seen>>

\* The handler of a request at the socket enqueues an event.
Enqueue(e) ==
    /\ Reachable /\ pc[path] = "serving"
    /\ enqueue_delivery(e)
    /\ UNCHANGED startVars

LoseMark(p) ==
    /\ faults < MaxFaults
    /\ faults' = faults + 1
    /\ MarkLost(p)
    /\ UNCHANGED <<pc, listening, path, pidFile, stop, raced, reused>>

Dispatch(p) == Poll(p) \/ post_signed(p) \/ Mark(p)

EdNext ==
    \/ \E p \in Daemons :
          \/ (Spawn(p) \/ Bind(p) \/ Probe(p) \/ Unlink(p) \/ Rebind(p)
              \/ Listen(p) \/ Harden(p))
             /\ UNCHANGED deliveryVars
          \/ StartServing(p)
          \/ (Crash(p) \/ NewerClient(p)) /\ DaemonEnds(p)
          \/ Dispatch(p) /\ UNCHANGED startVars
          \/ LoseMark(p)
    \/ (StopRead \/ StopIdentity \/ StopSocket) /\ UNCHANGED deliveryVars
    \/ StopKill /\ DaemonEnds(stop.pid)
    \/ \E e \in Events : Enqueue(e)
    \/ Tick /\ UNCHANGED startVars

\* A started process and its threads run on, time passes, an operator's stop
\* command finishes, and hooks keep arriving, one of which spawns a daemon
\* whenever none is reachable. Nothing is assumed about the receiver, and
\* nothing forces an event, a crash or a stop.
EdFairness ==
    /\ \A p \in Daemons :
          /\ WF_edVars((Bind(p) \/ Probe(p) \/ Unlink(p) \/ Rebind(p)
                          \/ Listen(p) \/ Harden(p)) /\ UNCHANGED deliveryVars)
          /\ WF_edVars(StartServing(p))
          /\ WF_edVars(Dispatch(p) /\ UNCHANGED startVars)
    /\ WF_edVars(HookSpawn /\ UNCHANGED deliveryVars)
    /\ WF_edVars(StopIdentity /\ UNCHANGED deliveryVars)
    /\ WF_edVars(StopSocket /\ UNCHANGED deliveryVars)
    /\ WF_edVars(StopKill /\ DaemonEnds(stop.pid))
    /\ WF_edVars(Tick /\ UNCHANGED startVars)

EdSpec == EdInit /\ [][EdNext]_edVars /\ EdFairness
================================================================================
