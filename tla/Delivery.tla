-------------------------------- MODULE Delivery --------------------------------
(***************************************************************************)
(* The webhook queue of the extension surface and the dispatcher threads   *)
(* that drain it. Translated from extension/src/dispatcher.rs, queue.rs    *)
(* and client.rs (post_signed), daemon/src/extension_authority.rs and the  *)
(* webhook_deliveries part of ledger/src/extension.rs.                     *)
(*                                                                         *)
(* A row is read, sent with no transaction open, and written back by a     *)
(* second statement that does not look at the row's state. The clock is    *)
(* kept as the time each row has left to wait.                             *)
(***************************************************************************)
EXTENDS Naturals, Sequences, FiniteSets

CONSTANTS
    Dispatchers,   \* one dispatcher thread per daemon process
    Events,        \* the (event_kind, dedupe_key) pairs that get enqueued
    MaxAttempts,   \* events.max_attempts
    Ladder,        \* BACKOFF_LADDER_SECS, scaled down
    BatchLimit     \* BATCH_LIMIT

ASSUME DeliveryAssumption ==
    /\ MaxAttempts \in Nat \ {0}
    /\ BatchLimit \in Nat \ {0}
    /\ Ladder \in Seq(Nat \ {0}) /\ Ladder # <<>>

VARIABLES
    rows,      \* webhook_deliveries: event -> row
    created,   \* the enqueued events in created_at order
    disp,      \* dispatcher -> its thread
    seen       \* the events the receiver has got

deliveryVars == <<rows, created, disp, seen>>

States == {"none", "pending", "delivered", "abandoned"}

\* What one POST comes back with: a 2xx, another status, or no answer.
Answers == {"success", "status", "error"}

NoRow == [state |-> "none", attempts |-> 0, wait |-> 0]

\* A thread that does not run, and one between two polls.
Off == [on |-> FALSE, batch |-> <<>>, answer |-> "none"]
Polling == [on |-> TRUE, batch |-> <<>>, answer |-> "none"]

LadderMax == CHOOSE d \in {Ladder[i] : i \in DOMAIN Ladder} :
                \A i \in DOMAIN Ladder : Ladder[i] <= d

QueuedDelivery == [event : Events, attempts : Nat]

DeliveryTypeOK ==
    /\ rows \in [Events -> [state : States, attempts : Nat, wait : 0..LadderMax]]
    /\ created \in Seq(Events)
    /\ disp \in [Dispatchers -> [on : BOOLEAN, batch : Seq(QueuedDelivery),
                                 answer : Answers \cup {"none"}]]
    /\ seen \subseteq Events

DeliveryInit ==
    /\ rows = [e \in Events |-> NoRow]
    /\ created = <<>>
    /\ disp = [d \in Dispatchers |-> Off]
    /\ seen = {}

\* INSERT OR IGNORE on (event_kind, dedupe_key).
enqueue_delivery(e) ==
    /\ rows[e].state = "none"
    /\ rows' = [rows EXCEPT ![e].state = "pending"]
    /\ created' = Append(created, e)
    /\ UNCHANGED <<disp, seen>>

DispatcherStart(d) == disp' = [disp EXCEPT ![d] = Polling]

DispatcherEnd(d) == disp' = [disp EXCEPT ![d] = Off]

\* The pending rows whose next_attempt_at has passed, oldest first.
due_deliveries ==
    LET due == SelectSeq(created, LAMBDA e :
                   rows[e].state = "pending" /\ rows[e].wait = 0)
    IN [i \in 1..(IF Len(due) < BatchLimit THEN Len(due) ELSE BatchLimit) |->
           [event |-> due[i], attempts |-> rows[due[i]].attempts]]

Poll(d) ==
    /\ disp[d].on
    /\ disp[d].batch = <<>>
    /\ due_deliveries # <<>>
    /\ disp' = [disp EXCEPT ![d].batch = due_deliveries]
    /\ UNCHANGED <<rows, created, seen>>

\* One POST of the first item. A send that fails or times out may have
\* reached the receiver all the same.
post_signed(d) ==
    /\ disp[d].batch # <<>>
    /\ disp[d].answer = "none"
    /\ \E answer \in Answers, got \in BOOLEAN :
          /\ got \/ answer = "error"
          /\ disp' = [disp EXCEPT ![d].answer = answer]
          /\ seen' = IF got THEN seen \cup {Head(disp[d].batch).event} ELSE seen
    /\ UNCHANGED <<rows, created>>

\* The delay before the next attempt; none once max_attempts are used up.
\* Beyond its end the ladder repeats its last delay.
GivesUp(attempts) == attempts >= MaxAttempts

next_attempt_delay(attempts) ==
    Ladder[IF attempts < Len(Ladder) THEN attempts ELSE Len(Ladder)]

NextItem(d) ==
    disp' = [disp EXCEPT ![d].batch = Tail(disp[d].batch), ![d].answer = "none"]

\* Mutant: any end of the send counts as a delivery.
MarkedWhateverCame(item, answer) ==
    rows' = [rows EXCEPT ![item.event].state = "delivered",
                         ![item.event].attempts = @ + 1]

\* Mutant: a failed attempt is rescheduled without being counted.
MarkedUncounted(item, answer) ==
    \E left \in 0..next_attempt_delay(item.attempts + 1) :
        rows' = [rows EXCEPT ![item.event] =
            [state |-> IF answer = "success" THEN "delivered" ELSE "pending",
             attempts |-> rows[item.event].attempts, wait |-> left]]

\* The update by event_id alone: success, or a failed attempt that waits or
\* gives up by the attempts the poll read. The delay counts from before the
\* send, so part of it, or all, may have passed.
Marked(item, answer) ==
    LET after == item.attempts + 1
        row   == rows[item.event]
    IN  \/ /\ answer = "success"
           /\ rows' = [rows EXCEPT ![item.event] =
                  [row EXCEPT !.state = "delivered", !.attempts = @ + 1]]
        \/ /\ answer # "success"
           /\ GivesUp(after)
           /\ rows' = [rows EXCEPT ![item.event] =
                  [state |-> "abandoned", attempts |-> row.attempts + 1, wait |-> 0]]
        \/ /\ answer # "success"
           /\ ~GivesUp(after)
           /\ \E left \in 0..next_attempt_delay(after) :
                 rows' = [rows EXCEPT ![item.event] =
                    [state |-> "pending", attempts |-> row.attempts + 1, wait |-> left]]

Mark(d) ==
    /\ disp[d].answer # "none"
    /\ Marked(Head(disp[d].batch), disp[d].answer)
    /\ NextItem(d)
    /\ UNCHANGED <<created, seen>>

\* The result of the update is dropped: a busy database loses the mark.
MarkLost(d) ==
    /\ disp[d].answer # "none"
    /\ NextItem(d)
    /\ UNCHANGED <<rows, created, seen>>

Tick ==
    /\ \E e \in Events : rows[e].wait > 0
    /\ rows' = [e \in Events |->
          [rows[e] EXCEPT !.wait = IF @ > 0 THEN @ - 1 ELSE 0]]
    /\ UNCHANGED <<created, disp, seen>>

(* The properties.                                                         *)

\* A row says delivered only when the receiver really got the event, however
\* many crashes, timeouts and lost marks lie in between.
DeliveredWasReceived ==
    \A e \in Events : rows[e].state = "delivered" => e \in seen

\* Every enqueued event is in the end delivered or given up.
EveryEventSettles ==
    \A e \in Events :
        rows[e].state = "pending" ~> rows[e].state \in {"delivered", "abandoned"}
================================================================================
