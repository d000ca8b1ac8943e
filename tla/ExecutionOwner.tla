--------------------------- MODULE ExecutionOwner ---------------------------
(***************************************************************************)
(* Which task an execution belongs to (crates/daemon/src/execution_owner.rs *)
(* over crates/ledger/src/execution_owner.rs).                             *)
(*                                                                         *)
(* A lane is one agent of one session of one host; its turns are named by  *)
(* the host.  Prompts, tool calls and stops arrive late, again, or out of  *)
(* order, from several connections: any request may be served at any time. *)
(* A request is one immediate transaction, so one action.  One that fails, *)
(* and one that is refused, leaves nothing and has no action.              *)
(*                                                                         *)
(* A lane's task never changes, so a lane stands for it.  What the effects *)
(* do to budgets and envelopes is in TaskRuntime.tla; here a prompt makes  *)
(* a plan, a tool call may replace it, a stop gives it its receipt.        *)
(***************************************************************************)
EXTENDS Naturals, Sequences, FiniteSets

CONSTANTS
  Lanes,      \* host, tool, session and agent
  Turns,      \* names of turns
  Contexts,   \* the dimensions of an identity besides lane and turn
  Calls,      \* native ids of tool calls
  NoRow,
  MaxTurnPlans  \* bound: plans ever made

VARIABLES
  lanes,      \* execution_lanes: the current turn and the context
  turns,      \* execution_turns
  replays,    \* execution_replays
  bound,      \* session_tasks: the lane's session has a task
  turnPlans,  \* plans: the turn that made each (history: attribution)
  flying,     \* session_preflights: plans in flight
  turnReceipts, \* plans that have a receipt
  applied,    \* history: effects that were applied, with how often
  named       \* history: turns that a successor replaced by name

xoVars == <<lanes, turns, replays, bound, turnPlans, flying, turnReceipts, applied, named>>

\* from_identity: lane, turn, and the rest, which exact carries as well.
Position == [lane: Lanes, turn: Turns, context: Contexts]
Effects == [lane: Lanes, op: {"prompt"}, ref: Turns] \cup [lane: Lanes, op: {"stop"}, ref: Turns]
           \cup [lane: Lanes, op: {"tool"}, ref: Calls]

\* Rows of before the owner tables bind a session and own no lane.
XoInit ==
  /\ lanes = [l \in Lanes |-> NoRow]
  /\ turns = [l \in Lanes |-> [t \in Turns |-> NoRow]]
  /\ replays = {}
  /\ bound \in [Lanes -> BOOLEAN]
  /\ turnPlans = <<>>
  /\ flying = {}
  /\ turnReceipts = {}
  /\ applied = [e \in Effects |-> 0]
  /\ named = {}
-----------------------------------------------------------------------------
\* execution_lane_context_matches: a lane keeps the context it was made with.
ContextMatches(p) == lanes[p.lane] # NoRow => lanes[p.lane].context = p.context

TurnState(l, t) == IF turns[l][t] = NoRow THEN NoRow ELSE turns[l][t].state

FlyingIn(l) == {q \in flying : turnPlans[q].lane = l}

\* resolve_execution finds the lane's one plan in flight.
Found(p) ==
  /\ TurnState(p.lane, p.turn) = "active"
  /\ lanes[p.lane].current = p.turn
  /\ turns[p.lane][p.turn].context = p.context
  /\ Cardinality(FlyingIn(p.lane)) = 1

\* resolve_execution = Ambiguous: the row is current but does not fit.
Ambiguous(p) ==
  /\ turns[p.lane][p.turn] # NoRow
  /\ lanes[p.lane].current = p.turn
  /\ \/ turns[p.lane][p.turn].context # p.context
     \/ TurnState(p.lane, p.turn) = "active" /\ Cardinality(FlyingIn(p.lane)) # 1

Replayed(l, op, ref) == \E r \in replays : r.lane = l /\ r.op = op /\ r.ref = ref

\* The checks every operation but a query passes, in the transaction.
Admissible(p, op, ref) ==
  /\ ContextMatches(p)
  /\ TurnState(p.lane, p.turn) # NoRow => turns[p.lane][p.turn].context = p.context
  /\ TurnState(p.lane, p.turn) # "superseded"
  /\ ~Ambiguous(p)
  /\ ~Replayed(p.lane, op, ref)

\* Mutant: a tool call is not remembered.
RecordPromptsAndStops(p, op, ref) ==
  /\ replays' = IF op = "tool" THEN replays
                ELSE replays \cup {[lane |-> p.lane, op |-> op, ref |-> ref, turn |-> p.turn]}
  /\ applied' = [applied EXCEPT ![[lane |-> p.lane, op |-> op, ref |-> ref]] = @ + 1]

\* record_execution_replay, under the key (lane, operation, native_ref).
RecordReplay(p, op, ref) ==
  /\ replays' = replays \cup {[lane |-> p.lane, op |-> op, ref |-> ref, turn |-> p.turn]}
  /\ applied' = [applied EXCEPT ![[lane |-> p.lane, op |-> op, ref |-> ref]] = @ + 1]
-----------------------------------------------------------------------------
\* The plan a prompt or a replan puts in flight in place of the lane's others.
PlanInFlight(p) ==
  /\ Len(turnPlans) < MaxTurnPlans
  /\ turnPlans' = Append(turnPlans, [lane |-> p.lane, turn |-> p.turn])
  /\ flying' = (flying \ FlyingIn(p.lane)) \cup {Len(turnPlans) + 1}

\* The successor names the turn it replaces, or that turn was finalized.
Succeeds(l, supersedes) ==
  LET current == IF lanes[l] = NoRow THEN NoRow ELSE lanes[l].current IN
  \/ supersedes = current
  \/ current # NoRow /\ supersedes = NoRow /\ TurnState(l, current) = "finalized"

\* bind_execution_turn: the turn it replaces is superseded, the lane moves on.
Bind(p) ==
  LET l == p.lane
      old == IF lanes[l] = NoRow THEN [t \in Turns |-> NoRow]
             ELSE [turns[l] EXCEPT ![lanes[l].current].state = "superseded"]
  IN
  /\ lanes' = [lanes EXCEPT ![l] =
       [current |-> p.turn, context |-> IF @ = NoRow THEN p.context ELSE @.context]]
  /\ turns' = [turns EXCEPT ![l] = [old EXCEPT ![p.turn] = [context |-> p.context, state |-> "active"]]]

\* A lane nobody owns yet whose session has a task is not taken over.
Prompt(p, supersedes) ==
  /\ Admissible(p, "prompt", p.turn)
  /\ TurnState(p.lane, p.turn) = NoRow
  /\ lanes[p.lane] = NoRow => ~bound[p.lane]
  /\ Succeeds(p.lane, supersedes)
  /\ PlanInFlight(p)
  /\ bound' = [bound EXCEPT ![p.lane] = TRUE]
  /\ Bind(p)
  /\ RecordReplay(p, "prompt", p.turn)
  /\ named' = named \cup {<<p.lane, t>> : t \in {supersedes} \ {NoRow}}
  /\ UNCHANGED turnReceipts

\* handle_tool_invoked may replace the plan; the turn resolves again after it.
Tool(p, call, replan) ==
  /\ Admissible(p, "tool", call)
  /\ Found(p)
  /\ IF replan THEN PlanInFlight(p) ELSE UNCHANGED <<turnPlans, flying>>
  /\ RecordReplay(p, "tool", call)
  /\ UNCHANGED <<lanes, turns, bound, turnReceipts, named>>

\* Mutant: a finalized turn leaves its plan in flight.
FinalizeTurnOnly(p) ==
  /\ turns' = [turns EXCEPT ![p.lane][p.turn].state = "finalized"]
  /\ UNCHANGED flying

\* finalize_execution_turn closes the turn and its plan.
FinalizeTurn(p) ==
  /\ turns' = [turns EXCEPT ![p.lane][p.turn].state = "finalized"]
  /\ flying' = flying \ FlyingIn(p.lane)

\* finalize_with_usage writes the receipt of the plan in flight, once.
Stop(p) ==
  /\ Admissible(p, "stop", p.turn)
  /\ Found(p)
  /\ turnReceipts' = turnReceipts \cup FlyingIn(p.lane)
  /\ FinalizeTurn(p)
  /\ RecordReplay(p, "stop", p.turn)
  /\ UNCHANGED <<lanes, bound, turnPlans, named>>

XoNext ==
  \E p \in Position :
    \/ \E s \in Turns \cup {NoRow} : Prompt(p, s)
    \/ \E c \in Calls, replan \in BOOLEAN : Tool(p, c, replan)
    \/ Stop(p)

XoSpec == XoInit /\ [][XoNext]_xoVars
-----------------------------------------------------------------------------
LaneRow == [current: Turns, context: Contexts]
TurnRow == [context: Contexts, state: {"active", "superseded", "finalized"}]

\* An absent row is none of the rows, turns and states.
NoRowIsApart == NoRow \notin LaneRow \cup TurnRow \cup Turns \cup {"active", "superseded", "finalized"}

ASSUME OwnerAssumption == NoRowIsApart

\* Every table is well typed.
XoTypeOK ==
  /\ lanes \in [Lanes -> LaneRow \cup {NoRow}]
  /\ turns \in [Lanes -> [Turns -> TurnRow \cup {NoRow}]]
  /\ turnPlans \in Seq([lane: Lanes, turn: Turns])
  /\ flying \cup turnReceipts \subseteq DOMAIN turnPlans

\* Whatever is sent again, late or under another turn, a prompt, a tool call and
\* a stop of the host take effect at most once in a lane.
AppliedOnce == \A e \in Effects : applied[e] <= 1

\* A lane is never wedged: its current turn, if active, resolves to exactly one
\* plan, made by that very turn and not yet settled, so its stop goes through;
\* once finalized nothing of it is in flight, so the next prompt does.
LaneNeverWedged ==
  \A l \in Lanes : lanes[l] # NoRow =>
    LET current == lanes[l].current IN
    \/ /\ TurnState(l, current) = "active"
       /\ Cardinality(FlyingIn(l)) = 1
       /\ \A q \in FlyingIn(l) : turnPlans[q].turn = current /\ q \notin turnReceipts
    \/ TurnState(l, current) = "finalized" /\ FlyingIn(l) = {}

\* No turn is dropped in silence: a turn that another replaced has its receipt,
\* for the one stop it was sent, or its successor named it.
ReplacedTurnAccounted ==
  \A l \in Lanes, t \in Turns : TurnState(l, t) = "superseded" =>
    \/ <<l, t>> \in named
    \/ Cardinality({q \in turnReceipts : turnPlans[q] = [lane |-> l, turn |-> t]}) = 1

\* The host's requests count exactly once: none takes effect twice, and a turn that
\* another replaced was settled once or replaced by name.
RequestsCountOnce == AppliedOnce /\ ReplacedTurnAccounted
=============================================================================
