------------------------------ MODULE DaemonStart ------------------------------
(***************************************************************************)
(* Which process is the daemon: the Unix socket path, the pid record, and  *)
(* the processes that start, serve, are stopped and crash around them.     *)
(* Translated from daemon/src/server.rs (bind_or_detect_running, serve,    *)
(* handle_connection), daemon/src/pidfile.rs, cli/src/daemon_cmd.rs (run,  *)
(* stop) and cli/src/client.rs (ensure_daemon_connection).                 *)
(*                                                                         *)
(* Nothing but the file system orders two starting processes, so every     *)
(* system call of bind_or_detect_running is a step of its own.             *)
(***************************************************************************)
EXTENDS Naturals, FiniteSets

CONSTANTS
    Daemons,      \* the process ids a daemon may run under
    NoDaemon,     \* no socket file, or no pid record
    MaxFaults     \* bound: crashes, upgrades, stops, lost writes and probes
                  \* between a bind and its listen, together

ASSUME StartAssumption ==
    /\ NoDaemon \notin Daemons
    /\ MaxFaults \in Nat

VARIABLES
    pc,           \* process -> where its `daemon run` is
    listening,    \* process -> it holds a listening socket of its own
    path,         \* whose socket the socket file is; its process may be dead
    pidFile,      \* the process daemon.pid names
    stop,         \* a running `daemon stop`: its step and the pid it read
    faults,       \* faults so far
    raced,        \* history: processes that began to listen while the file at
                  \* the path was being taken from them
    reused        \* history: process ids handed out again since the record or
                  \* a stop came to name them

startVars == <<pc, listening, path, pidFile, stop, faults, raced, reused>>

\* The steps of a start, after which the process serves or has exited.
Starting == {"bind", "probe", "unlink", "rebind", "listen", "harden", "record"}

StartTypeOK ==
    /\ pc \in [Daemons -> {"down", "serving"} \cup Starting]
    /\ listening \in [Daemons -> BOOLEAN]
    /\ path \in Daemons \cup {NoDaemon}
    /\ pidFile \in Daemons \cup {NoDaemon}
    /\ stop \in [step : {"idle", "identity", "socket", "kill"},
                 pid : Daemons \cup {NoDaemon}]
    /\ faults \in 0..MaxFaults
    /\ raced \in SUBSET Daemons
    /\ reused \in SUBSET Daemons

\* What connecting to the socket path finds out: a listener behind the file.
Reachable == path \in Daemons /\ listening[path]

IdleStop == [step |-> "idle", pid |-> NoDaemon]

StartInit ==
    /\ pc = [p \in Daemons |-> "down"]
    /\ listening = [p \in Daemons |-> FALSE]
    /\ path = NoDaemon
    /\ pidFile = NoDaemon
    /\ stop = IdleStop
    /\ faults = 0
    /\ raced = {}
    /\ reused = {}

(* Starting: daemon_cmd.rs run, then bind_or_detect_running.               *)

\* A process id may be handed out again while the record or a stop names it.
Spawn(p) ==
    /\ pc[p] = "down"
    /\ pc' = [pc EXCEPT ![p] = "bind"]
    /\ reused' = IF p \in {pidFile, stop.pid} THEN reused \cup {p} ELSE reused
    /\ UNCHANGED <<listening, path, pidFile, stop, faults, raced>>

\* UnixListener::bind is two system calls: the file is there after the first,
\* and answers after the second.
Bound(p) ==
    /\ path' = p
    /\ pc' = [pc EXCEPT ![p] = "listen"]

Bind(p) ==
    /\ pc[p] = "bind"
    /\ \/ path = NoDaemon /\ Bound(p)
       \/ /\ path # NoDaemon
          /\ pc' = [pc EXCEPT ![p] = "probe"]
          /\ UNCHANGED path
    /\ UNCHANGED <<listening, pidFile, stop, faults, raced, reused>>

\* Some start found nobody behind the path and is about to unlink it.
Condemned == \E q \in Daemons : pc[q] = "unlink"

Listen(p) ==
    /\ pc[p] = "listen"
    /\ pc' = [pc EXCEPT ![p] = "harden"]
    /\ listening' = [listening EXCEPT ![p] = TRUE]
    /\ raced' = IF path # p \/ Condemned THEN raced \cup {p} ELSE raced
    /\ UNCHANGED <<path, pidFile, stop, faults, reused>>

\* Mutant: a file at the path is unlinked without asking who listens.
ProbeUnlinksAnyway(p) ==
    /\ pc[p] = "probe"
    /\ pc' = [pc EXCEPT ![p] = "unlink"]
    /\ UNCHANGED <<listening, path, pidFile, stop, faults, raced, reused>>

\* Mutant: a file at the path counts as a running daemon.
ProbeBelievesFile(p) ==
    /\ pc[p] = "probe"
    /\ pc' = [pc EXCEPT ![p] = "down"]
    /\ UNCHANGED <<listening, path, pidFile, stop, faults, raced, reused>>

\* Bound, and not yet listening: whoever connects is refused.
Deaf == path \in Daemons /\ pc[path] = "listen"

\* AddrInUse: a listener that answers makes this process leave, otherwise
\* the file is taken for stale. A probe between another's bind and listen is
\* a fault: the two calls follow each other at once.
Probe(p) ==
    /\ pc[p] = "probe"
    /\ pc' = [pc EXCEPT ![p] = IF Reachable THEN "down" ELSE "unlink"]
    /\ \/ ~Deaf /\ UNCHANGED faults
       \/ Deaf /\ faults < MaxFaults /\ faults' = faults + 1
    /\ UNCHANGED <<listening, path, pidFile, stop, raced, reused>>

\* remove_file on the path, whatever is there by now; a missing file fails
\* the start.
Unlink(p) ==
    /\ pc[p] = "unlink"
    /\ pc' = [pc EXCEPT ![p] = IF path = NoDaemon THEN "down" ELSE "rebind"]
    /\ path' = NoDaemon
    /\ UNCHANGED <<listening, pidFile, stop, faults, raced, reused>>

Rebind(p) ==
    /\ pc[p] = "rebind"
    /\ \/ path = NoDaemon /\ Bound(p)
       \/ /\ path # NoDaemon
          /\ pc' = [pc EXCEPT ![p] = "down"]
          /\ UNCHANGED path
    /\ UNCHANGED <<listening, pidFile, stop, faults, raced, reused>>

\* A process that ends closes its socket; the file stays.
Gone(p) ==
    /\ pc' = [pc EXCEPT ![p] = "down"]
    /\ listening' = [listening EXCEPT ![p] = FALSE]
    /\ raced' = raced \ {p}

\* set_permissions follows the path, whosever file is there by now; with no
\* file the start fails. That it fails otherwise is a Crash at this step.
Harden(p) ==
    /\ pc[p] = "harden"
    /\ \/ path = NoDaemon /\ Gone(p)
       \/ /\ path # NoDaemon
          /\ pc' = [pc EXCEPT ![p] = "record"]
          /\ UNCHANGED <<listening, raced>>
    /\ UNCHANGED <<path, pidFile, stop, faults, reused>>

\* The pid record is overwritten after the bind; a failed write only logs.
RecordPid(p) ==
    /\ pc[p] = "record"
    /\ pc' = [pc EXCEPT ![p] = "serving"]
    /\ \/ pidFile' = p /\ reused' = reused \ {p} /\ UNCHANGED faults
       \/ faults < MaxFaults /\ faults' = faults + 1 /\ UNCHANGED <<pidFile, reused>>
    /\ UNCHANGED <<listening, path, stop, raced>>

(* Leaving. Nothing removes the socket file or the pid record.             *)

Crash(p) ==
    /\ pc[p] # "down"
    /\ faults < MaxFaults
    /\ Gone(p)
    /\ faults' = faults + 1
    /\ UNCHANGED <<path, pidFile, stop, reused>>

\* A client that speaks a newer protocol ends the accept loop, and with it
\* the process, after its one reply.
NewerClient(p) ==
    /\ pc[p] = "serving"
    /\ path = p
    /\ faults < MaxFaults
    /\ Gone(p)
    /\ faults' = faults + 1
    /\ UNCHANGED <<path, pidFile, stop, reused>>

(* daemon stop: the record, three checks, one signal.                      *)

StopRead ==
    /\ stop.step = "idle"
    /\ pidFile # NoDaemon
    /\ faults < MaxFaults
    /\ stop' = [step |-> "identity", pid |-> pidFile]
    /\ faults' = faults + 1
    /\ UNCHANGED <<pc, listening, path, pidFile, raced, reused>>

\* The pid is alive and runs the recorded executable.
StopIdentity ==
    /\ stop.step = "identity"
    /\ stop' = IF pc[stop.pid] # "down" THEN [stop EXCEPT !.step = "socket"]
                                        ELSE IdleStop
    /\ UNCHANGED <<pc, listening, path, pidFile, faults, raced, reused>>

\* Some daemon answers Request::Doctor at the path: a serving one.
StopSocket ==
    /\ stop.step = "socket"
    /\ stop' = IF Reachable /\ pc[path] = "serving"
                 THEN [stop EXCEPT !.step = "kill"] ELSE IdleStop
    /\ UNCHANGED <<pc, listening, path, pidFile, faults, raced, reused>>

\* SIGTERM; the signal to a pid that died in between fails.
StopKill ==
    /\ stop.step = "kill"
    /\ Gone(stop.pid)
    /\ stop' = IdleStop
    /\ UNCHANGED <<path, pidFile, faults, reused>>

\* A hook that finds no daemon spawns one.
HookSpawn == ~Reachable /\ \E p \in Daemons : Spawn(p)

(* The properties.                                                         *)

\* A process that listens holds the socket file, so that no second one does,
\* whatever the order of binds, probes, unlinks and crashes of starting
\* processes: what bind_or_detect_running is for. The exception is a process
\* that began to listen while another start, whose probe had found nobody,
\* had removed its file or was about to: that one goes on without it.
ListenerKeepsSocket ==
    \A p \in Daemons : listening[p] => path = p \/ p \in raced

\* Whom the signal of `daemon stop` can reach, whatever happened since it
\* read the pid and checked: the daemon at the path, one that lost its file
\* as above, or, under a process id handed out again since it was recorded,
\* a process that is starting.
StopHitsTheDaemon ==
    stop.step = "kill" /\ pc[stop.pid] # "down" =>
        \/ path = stop.pid
        \/ stop.pid \in raced
        \/ stop.pid \in reused /\ pc[stop.pid] \in Starting

\* A socket left behind by a crash, a stop or an upgrade never keeps the
\* daemon away for good: while hooks keep arriving some process is reachable
\* again, even when starters race and unlink each other's sockets.
ReachableAgain == ~Reachable ~> Reachable

\* There is one daemon: outside the window between another start's probe and
\* its unlink the process that listens is the one at the path, and a stop
\* signals that one or a start under its recycled process id.
OneDaemon == ListenerKeepsSocket /\ StopHitsTheDaemon
================================================================================
