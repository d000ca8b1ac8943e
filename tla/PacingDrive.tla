---------------------------- MODULE PacingDrive ----------------------------
(***************************************************************************)
(* The closed loop of the pacing gate: the driver's event queue            *)
(* (crates/pacing-gate/src/drive.rs), the world it keeps as ground truth   *)
(* (world.rs) and the Paced strategy around the controller (strategy.rs).  *)
(* The strategy learns of the world only through what the driver tells it, *)
(* and the driver of the strategy's wishes only through what it answers.   *)
(*                                                                         *)
(* A frozen trace says how long each task takes, what it overruns to, and  *)
(* when the daemon restarts or the preference changes.  What other         *)
(* sessions spend and what providers claim never reaches the controller,   *)
(* and is left out.                                                        *)
(***************************************************************************)
EXTENDS Pacer

CONSTANTS
  Durations,      \* how long a task may take
  EventTimes,     \* when a trace may have an event
  Changes,        \* preferences a trace may change to
  MaxEvents       \* bound: events of a trace

ASSUME DriveAssumption ==
  /\ Durations \subseteq Nat \ {0} /\ EventTimes \subseteq Nat /\ MaxEvents \in Nat
  /\ Changes \subseteq Preferences

VARIABLES
  trace,      \* TraceSpec: [duration, overrun] of each task
  world,      \* World: [active: task -> what it reported, completed, usage, lastStart]
  queue,      \* QueueItems: [at, kind, task, preference]
  lastWake,   \* last_scheduled_wake
  cut         \* history: tasks that ran when the daemon restarted

drVars == <<pcVars, trace, world, queue, lastWake, cut>>

Item(at, kind, task, preference) ==
  [at |-> at, kind |-> kind, task |-> task, preference |-> preference]

Exogenous ==
  {Item(at, "restart", None, None) : at \in EventTimes}
  \cup {Item(at, "preference", None, preference) : at \in EventTimes, preference \in Changes}

DrInit ==
  /\ PcInit
  /\ trace \in [Tasks -> [duration : Durations, overrun : Spends \cup {None}]]
  /\ world = [active |-> <<>>, completed |-> {}, usage |-> {}, lastStart |-> None]
  /\ \E events \in kSubset(MaxEvents, Exogenous) \cup {{}} :
       queue = events \cup {Item(0, "poll", None, None)}
  /\ lastWake = None
  /\ cut = {}
-----------------------------------------------------------------------------
(* The world. *)

ReadyTasks(w) == {t \in Tasks \ (DOMAIN w.active \cup w.completed) : Deps[t] \subseteq w.completed}

\* A task's open claim: what it was declared to take, or has reported if that is more.
Claim(w, t) == Larger(Estimate[t], w.active[t])

StartTasks(w, started, at) ==
  [w EXCEPT !.active = With(@, started, 0), !.lastStart = IF started = {} THEN @ ELSE at]

ReportSpend(w, t, amount) == [w EXCEPT !.active[t] = Larger(@, amount)]

CompleteTask(w, t, at) ==
  [w EXCEPT !.active = Without(@, t), !.completed = @ \cup {t},
            !.usage = @ \cup {[id |-> t, at |-> at, amount |-> Claim(w, t)]}]
-----------------------------------------------------------------------------
(* The driver: pop an item, tell the strategy, start what it answers, and  *)
(* ask when to look again.                                                 *)

Priority == [restart |-> 0, preference |-> 0, spend |-> 1, completed |-> 2, poll |-> 3]

First(item) ==
  \A other \in queue \ {item} :
    \/ item.at < other.at
    \/ item.at = other.at /\ Priority[item.kind] <= Priority[other.kind]

\* The items a start pushes.
Follow(started, at) ==
  {Item(at + trace[t].duration, "completed", t, None) : t \in started}
  \cup {Item(at + trace[t].duration \div 2, "spend", t, None) :
          t \in {u \in started : trace[u].overrun # None}}

\* Mutant: nobody is told when to look again.
WakeNever(s, at) == {}

\* next_wake
Wake(s, at) ==
  IF s.timer # None /\ s.timer > at /\ s.timer # lastWake
  THEN {Item(s.timer, "poll", None, None)} ELSE {}

\* Mutant: what a notification makes the controller start is not reported.
DecidedOnly(told, notified, asked) == DOMAIN asked.active \ DOMAIN notified.active

\* Starts on a notification are drained, starts when asked are the answer.
Decided(told, notified, asked) == DOMAIN asked.active \ DOMAIN told.active

\* The controller after the event, and after its pass if it is an event of the
\* controller; then it is asked, if the world has a task that is ready.
Serve(item, told, notified, w, preference) ==
  \E ready \in {ReadyTasks(w)} :
  \E asked \in {IF ready = {} THEN notified ELSE TryAdmit(notified, preference, item.at)} :
    LET started == Decided(told, notified, asked) \cap ready
        wake    == Wake(asked, item.at)
    IN  /\ p' = asked
        /\ world' = StartTasks(w, started, item.at)
        /\ queue' = (queue \ {item}) \cup Follow(started, item.at) \cup wake
        /\ lastWake' = IF wake = {} THEN lastWake ELSE asked.timer
        /\ now' = item.at
        /\ pref' = preference
        /\ UNCHANGED <<begun, trace>>

Pop(item, kind) == item.kind = kind /\ First(item)

Notify(item, event, w, preference) ==
  /\ \E told \in {event} : \E notified \in {TryAdmit(told, preference, item.at)} :
       Serve(item, told, notified, w, preference)
  /\ UNCHANGED cut

Poll(item) == Pop(item, "poll") /\ Serve(item, p, p, world, pref) /\ UNCHANGED cut

SpendReport(item) ==
  /\ Pop(item, "spend")
  /\ LET amount == trace[item.task].overrun
     IN  Notify(item, OnSpend(p, item.task, amount), ReportSpend(world, item.task, amount), pref)

Completion(item) ==
  /\ Pop(item, "completed")
  /\ Notify(item, OnCompleted(p, item.task, item.at), CompleteTask(world, item.task, item.at), pref)

PreferenceChanged(item) ==
  Pop(item, "preference") /\ Notify(item, p, world, item.preference)

DaemonRestart(item) ==
  /\ Pop(item, "restart")
  /\ \E told \in {Restarted(p)} : Serve(item, told, told, world, pref)
  /\ cut' = cut \cup DOMAIN world.active

DrNext ==
  \E item \in queue :
    Poll(item) \/ SpendReport(item) \/ Completion(item) \/ PreferenceChanged(item) \/ DaemonRestart(item)

\* The loop runs until the queue is empty: weak fairness of DrNext, which is
\* enabled exactly while the queue is not and changes it in every step.
DrFairness == []<>(queue = {}) \/ []<><<queue' # queue>>_queue

DrSpec == DrInit /\ [][DrNext]_drVars /\ DrFairness
-----------------------------------------------------------------------------
(* Properties *)

\* The controller's books are the world's: what it believes to run runs, what it
\* believes to be done is done, and nothing else, whatever was started on a
\* notification and whenever it restarted.  Excepted are the tasks that ran when
\* the daemon restarted, which a restart cannot know of.
BeliefMatchesWorld ==
  /\ p.completed \subseteq world.completed
  /\ world.completed \ cut \subseteq p.completed
  /\ DOMAIN p.active \ cut = DOMAIN world.active \ cut

\* The verifier's hard-limit check: every real start leaves every window with
\* something, counting what completed tasks took and what runs holds or has
\* reported, restarts between tasks included.
LimitsRespected ==
  [][LET new == DOMAIN world'.active \ DOMAIN world.active
         open == SumFunction([t \in DOMAIN world'.active |-> Max({Estimate[t], world'.active[t]})])
     IN  new # {} /\ cut' = {} => \A w \in Windows : ~Blocks(w, world'.usage, open, now')
    ]_drVars

\* A restart or a change of preference does not let a paced task start sooner after
\* the last real start than the slowest window's rate allows.
SpacingSurvives ==
  [][\A t \in DOMAIN world'.active \ DOMAIN world.active :
       pref'.mode = "sustain" /\ world.lastStart # None =>
         now' >= world.lastStart + Spacing(Estimate[t])
    ]_drVars

\* Real starts keep to the limits and to the spacing, whatever happened between.
RealStartsFit == LimitsRespected /\ SpacingSurvives

\* The first instant at which a task would fit, on what it is told to need, lies past
\* a cutoff of the preference, or an entitlement ends before.
ShutOut(t) ==
  LET estimate == EstimateOf(p, t)
      need     == Need(estimate, p.backoff[Principal[t]])
      earliest == EarliestPaced(p, estimate, pref, now)
      at       == EarliestSafeAdmit(p, need, pref, earliest)
  IN  IF at = None THEN RunsOut(p, need, pref, earliest) ELSE PastCutoff(pref, at, now)

\* The loop ends with every task of the trace completed, restarts and changes of
\* preference notwithstanding, unless a restart cut a task short or every task that
\* is ready is shut out: a backoff alone, or an event the controller was not told of,
\* never strands a task.
EveryTaskCompletes ==
  <>(\/ world.completed = Tasks \/ cut # {}
     \/ queue = {} /\ ReadyTasks(world) # {} /\ \A t \in ReadyTasks(world) : ShutOut(t))
=============================================================================
