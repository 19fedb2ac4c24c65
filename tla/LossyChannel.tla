---------------------------- MODULE LossyChannel ----------------------------
(***************************************************************************)
(* What the event bus promises one subscriber (the wire contract of the    *)
(* JSON tail, of Connect TailEvents and of a plugin's on-event).           *)
(*                                                                         *)
(* The channel is bounded and lossy, but honest: an offered event is       *)
(* either delivered or dropped, it is dropped only when the channel is     *)
(* full, every delivered message carries in "skipped" the exact number of  *)
(* events dropped since the previously delivered one, and durable rows are *)
(* offered in increasing order of their event_log id, each at most once.   *)
(*                                                                         *)
(* EventBus implements one LossyChannel per subscription.                  *)
(***************************************************************************)
EXTENDS Naturals, Sequences

CONSTANTS Capacity,     \* slots in the subscriber's queue
          Topics,       \* what an event is about
          Rows,         \* event_log row ids, and NoRow
          NoRow         \* the row of an event that was never persisted: 0

VARIABLES alive,        \* the subscription's receiver exists
          chan,         \* messages delivered and not yet received
          missing,      \* events dropped since the last delivered message
          offered       \* durable rows offered so far

vars == <<alive, chan, missing, offered>>

Init ==
  /\ alive = FALSE
  /\ chan = <<>>
  /\ missing = 0
  /\ offered = {}

Subscribe ==
  /\ ~alive
  /\ alive' = TRUE
  /\ UNCHANGED <<chan, missing, offered>>

(* A row offered now is newer than every row offered before it. *)
InOrder(row) == row = NoRow \/ \A r \in offered : r < row

Note(row) == offered' = offered \cup ({row} \ {NoRow})

Deliver(topic, row) ==
  /\ alive
  /\ InOrder(row)
  /\ Len(chan) < Capacity
  /\ chan' = Append(chan, [topic |-> topic, row |-> row, skipped |-> missing])
  /\ missing' = 0
  /\ Note(row)
  /\ UNCHANGED alive

Drop(row) ==
  /\ alive
  /\ InOrder(row)
  /\ Len(chan) = Capacity
  /\ missing' = missing + 1
  /\ Note(row)
  /\ UNCHANGED <<alive, chan>>

Receive ==
  /\ alive
  /\ chan # <<>>
  /\ chan' = Tail(chan)
  /\ UNCHANGED <<alive, missing, offered>>

Close ==
  /\ alive
  /\ alive' = FALSE
  /\ chan' = <<>>
  /\ missing' = 0
  /\ UNCHANGED offered

Next ==
  \/ Subscribe
  \/ \E topic \in Topics, row \in Rows : Deliver(topic, row)
  \/ \E row \in Rows : Drop(row)
  \/ Receive
  \/ Close

Spec == Init /\ [][Next]_vars
=============================================================================
