------------------------------ MODULE EventBus ------------------------------
(***************************************************************************)
(* The live event bus (state/events.rs) together with its only production  *)
(* publisher, PluginState::publish_event (runtime/state.rs), and its two   *)
(* kinds of consumer: the supervisor of a plugin that subscribed           *)
(* (runtime/lifecycle.rs, runtime/instance.rs) and the tail streams of the *)
(* API (api/server.rs, api/connect_rpc.rs).                                *)
(*                                                                         *)
(* Publishers are processes.  One in Sequenced runs publish_event: it      *)
(* takes the publish_sequence gate, commits a row to the event log,        *)
(* updates the device-state projection, fans the event out and wakes the   *)
(* supervisors.  The others call EventBus::publish directly (the host-side *)
(* simulators), with no gate and no row.  Every lock section is one step,  *)
(* so steps of several publishers, consumers and unsubscribing owners      *)
(* interleave exactly where the code holds no common lock.                 *)
(*                                                                         *)
(* Abstracted: the payload is its topic; the rate limiter and the size     *)
(* checks refuse an event before anything here happens.                    *)
(***************************************************************************)
EXTENDS Naturals, Sequences, FiniteSets

CONSTANTS Publishers,   \* tasks that publish
          Sequenced,    \* the ones that go through publish_event
          Subs,         \* subscription ids; an id is never reused
          Plugins,      \* supervised instances that may subscribe
          Tail_,        \* owner of the subscriptions of the API's streams
          Owner,        \* [Subs -> Plugins \cup {Tail_}]
          Topics,
          StateTopics,  \* topics of the state-changed events
          Accepts,      \* [Subs -> SUBSET Topics], the filter
          Capacity,     \* SUBSCRIBER_CAPACITY
          MaxPublishes, \* bound on the events published in a behaviour
          None

ASSUME ConstantsAssumption ==
  /\ Sequenced \subseteq Publishers
  /\ Tail_ \notin Plugins
  /\ Owner \in [Subs -> Plugins \cup {Tail_}]
  /\ StateTopics \subseteq Topics
  /\ Accepts \in [Subs -> SUBSET Topics]
  /\ Capacity \in Nat \ {0}
  /\ MaxPublishes \in Nat
  /\ None \notin Publishers \cup Subs

VARIABLES
  eventLog,     \* topics of the committed rows; the row id is the index
  projected,    \* rows of state-changed events applied to the projection
  published,    \* events published so far (bounded by MaxPublishes)
  seqHolder,    \* holder of publish_sequence
  pc, ev, targets, cur, claimed,    \* the publishers
  stage,        \* life of a subscription
  queue,        \* its mpsc queue
  lag,          \* pending_lag
  dropped,      \* cumulative drop counter
  gate,         \* holder of send_gate
  permit,       \* plugins whose Notify stores a permit
  sup, todo,    \* the supervisors' loops
  since,        \* history: rows committed when it was inserted
  offered       \* history: rows fan-out attempted on it

pubVars == <<pc, ev, targets, cur, claimed>>
logVars == <<eventLog, projected, published, seqHolder>>
subVars == <<stage, queue, lag, dropped, gate>>
supVars == <<permit, sup, todo>>
histVars == <<since, offered>>
vars == <<logVars, pubVars, subVars, supVars, histVars>>

-----------------------------------------------------------------------------
NoRow == 0
NoEvent == [topic |-> None, row |-> NoRow]
Rows == 0..MaxPublishes

Message == [topic : Topics, row : Rows, skipped : Nat]

Stages == {"unused", "waking", "live", "closed", "unwoken", "gone"}

(* The subscribers map: an entry is inserted by subscribe_labeled and      *)
(* removed by the drop of its SubscriberToken, the last field dropped.     *)
InMap(s) == stage[s] \in {"live", "closed", "unwoken"}

(* The wake registrations: inserted before the map entry, removed between  *)
(* the receiver and the map entry.                                         *)
WakeRegistered(s) == Owner[s] \in Plugins /\ stage[s] \in {"waking", "live", "closed"}

(* The receiver exists. *)
Open(s) == stage[s] = "live"

Matching(topic) == {s \in Subs : topic \in Accepts[s]}

(* A subscribe or an unsubscribe of v's subscriptions is under way. *)
Busy(v) == \E s \in Subs : Owner[s] = v /\ stage[s] \in {"waking", "closed", "unwoken"}

OpenOf(v) == {s \in Subs : Owner[s] = v /\ Open(s)}

-----------------------------------------------------------------------------
Init ==
  /\ eventLog = <<>>
  /\ projected = {}
  /\ published = 0
  /\ seqHolder = None
  /\ pc = [p \in Publishers |-> "idle"]
  /\ ev = [p \in Publishers |-> NoEvent]
  /\ targets = [p \in Publishers |-> {}]
  /\ cur = [p \in Publishers |-> None]
  /\ claimed = [p \in Publishers |-> 0]
  /\ stage = [s \in Subs |-> "unused"]
  /\ queue = [s \in Subs |-> <<>>]
  /\ lag = [s \in Subs |-> 0]
  /\ dropped = [s \in Subs |-> 0]
  /\ gate = [s \in Subs |-> None]
  /\ permit = {}
  /\ sup = [v \in Plugins |-> "handler"]
  /\ todo = [v \in Plugins |-> {}]
  /\ since = [s \in Subs |-> 0]
  /\ offered = [s \in Subs |-> {}]

-----------------------------------------------------------------------------
(* Publishing. *)

Goto(p, label) == pc' = [pc EXCEPT ![p] = label]

(* The publisher is past its last lock section and returns; the guard of   *)
(* publish_sequence, if it holds it, is dropped with the frame.            *)
Released_NotOnError(p) ==
  IF seqHolder = p /\ pc[p] # "record" THEN None ELSE seqHolder

Released(p) == IF seqHolder = p THEN None ELSE seqHolder

Return(p) ==
  /\ Goto(p, "idle")
  /\ ev' = [ev EXCEPT ![p] = NoEvent]
  /\ seqHolder' = Released(p)

(* An admitted event: publish_event goes on to the gate, EventBus::publish *)
(* straight to the fan-out.                                                *)
Begin(p, topic) ==
  /\ pc[p] = "idle"
  /\ published < MaxPublishes
  /\ published' = published + 1
  /\ ev' = [ev EXCEPT ![p] = [topic |-> topic, row |-> NoRow]]
  /\ Goto(p, IF p \in Sequenced THEN "gate" ELSE "snapshot")
  /\ UNCHANGED <<eventLog, projected, seqHolder, targets, cur, claimed,
                 subVars, supVars, histVars>>

GateFree == seqHolder = None

Acquire(p) ==
  /\ pc[p] = "gate"
  /\ GateFree
  /\ seqHolder' = p
  /\ Goto(p, "record")
  /\ UNCHANGED <<eventLog, projected, published, ev, targets, cur, claimed,
                 subVars, supVars, histVars>>

(* event_log.record_prepared commits the row on a blocking thread while    *)
(* the publisher waits, and its id is stamped on the event.  (The bound on *)
(* the rows restates the one on the publishes and never binds.)            *)
Record(p) ==
  /\ pc[p] = "record"
  /\ Len(eventLog) < MaxPublishes
  /\ eventLog' = Append(eventLog, ev[p].topic)
  /\ ev' = [ev EXCEPT ![p] = [topic |-> @.topic, row |-> Len(eventLog) + 1]]
  /\ Goto(p, "project")
  /\ UNCHANGED <<projected, published, seqHolder, targets, cur, claimed,
                 subVars, supVars, histVars>>

(* The write failed: the publish is refused and nobody hears of it. *)
LogAfterFailure_Committed(p) == Append(eventLog, ev[p].topic)

LogAfterFailure(p) == eventLog

RecordFail(p) ==
  /\ pc[p] = "record"
  /\ eventLog' = LogAfterFailure(p)
  /\ Return(p)
  /\ UNCHANGED <<projected, published, targets, cur, claimed,
                 subVars, supVars, histVars>>

(* apply_delta, before the fan-out and still under the gate. *)
WithRow_NotYet(p) == projected

WithRow(p) == projected \cup {ev[p].row}

Project(p) ==
  /\ pc[p] = "project"
  /\ projected' = IF ev[p].topic \in StateTopics THEN WithRow(p) ELSE projected
  /\ Goto(p, "snapshot")
  /\ UNCHANGED <<eventLog, published, seqHolder, ev, targets, cur, claimed,
                 subVars, supVars, histVars>>

(* The matching part of the map, cloned under its read lock; subscriptions *)
(* that come or go afterwards do not change it.                            *)
Snapshot(p) ==
  /\ pc[p] = "snapshot"
  /\ targets' = [targets EXCEPT ![p] = {s \in Matching(ev[p].topic) : InMap(s)}]
  /\ Goto(p, "fanout")
  /\ UNCHANGED <<logVars, ev, cur, claimed, subVars, supVars, histVars>>

SendGateFree_NoGate(s) == TRUE

SendGateFree(s) == gate[s] = None

(* Under the subscriber's send_gate: claimed = pending_lag.swap(0). *)
Claim(p, s) ==
  /\ pc[p] = "fanout"
  /\ s \in targets[p]
  /\ SendGateFree(s)
  /\ gate' = [gate EXCEPT ![s] = p]
  /\ claimed' = [claimed EXCEPT ![p] = lag[s]]
  /\ lag' = [lag EXCEPT ![s] = 0]
  /\ cur' = [cur EXCEPT ![p] = s]
  /\ targets' = [targets EXCEPT ![p] = @ \ {s}]
  /\ Goto(p, "send")
  /\ UNCHANGED <<logVars, ev, stage, queue, dropped, supVars, histVars>>

(* The send_gate guard is dropped at the end of the loop body. *)
EndOfTarget(p, s) ==
  /\ gate' = [gate EXCEPT ![s] = None]
  /\ cur' = [cur EXCEPT ![p] = None]
  /\ claimed' = [claimed EXCEPT ![p] = 0]
  /\ Goto(p, "fanout")

Offer(p, s) ==
  offered' = [offered EXCEPT ![s] = @ \cup ({ev[p].row} \ {NoRow})]

MessageOf(p) == [topic |-> ev[p].topic, row |-> ev[p].row, skipped |-> claimed[p]]

SlotFree(s) == Len(queue[s]) < Capacity

SendOk(p) ==
  LET s == cur[p] IN
  /\ pc[p] = "send"
  /\ Open(s)
  /\ SlotFree(s)
  /\ queue' = [queue EXCEPT ![s] = Append(@, MessageOf(p))]
  /\ Offer(p, s)
  /\ EndOfTarget(p, s)
  /\ UNCHANGED <<logVars, ev, targets, stage, lag, dropped, supVars, since>>

(* try_send = Full: the consumer may free a slot before the claim and this *)
(* drop are put back, but no other publisher passes the send_gate.         *)
SendFull(p) ==
  LET s == cur[p] IN
  /\ pc[p] = "send"
  /\ Open(s)
  /\ ~SlotFree(s)
  /\ Offer(p, s)
  /\ Goto(p, "reinject")
  /\ UNCHANGED <<logVars, ev, targets, cur, claimed, subVars, supVars, since>>

Reinjected(p, s) == lag[s] + claimed[p] + 1

Reinject(p) ==
  LET s == cur[p] IN
  /\ pc[p] = "reinject"
  /\ lag' = [lag EXCEPT ![s] = Reinjected(p, s)]
  /\ dropped' = [dropped EXCEPT ![s] = @ + 1]
  /\ EndOfTarget(p, s)
  /\ UNCHANGED <<logVars, ev, targets, stage, queue, supVars, histVars>>

(* try_send = Closed: a stale snapshot; the claim is lost with the         *)
(* subscription it was owed to.                                            *)
SendClosed(p) ==
  LET s == cur[p] IN
  /\ pc[p] = "send"
  /\ ~Open(s)
  /\ EndOfTarget(p, s)
  /\ UNCHANGED <<logVars, ev, targets, stage, queue, lag, dropped, supVars, histVars>>

(* signal_wakes, after the last try_send: notify_one for every matching    *)
(* registration; Notify keeps at most one permit.                          *)
ReadyToSignal(p) == pc[p] = "fanout" /\ targets[p] = {}

Signalled_WaitersOnly(p) ==
  {v \in Plugins : /\ sup[v] = "waiting"
                   /\ \E s \in Matching(ev[p].topic) : Owner[s] = v /\ WakeRegistered(s)}

Signalled(p) == {Owner[s] : s \in {t \in Matching(ev[p].topic) : WakeRegistered(t)}}

Signal(p) ==
  /\ ReadyToSignal(p)
  /\ permit' = permit \cup Signalled(p)
  /\ Return(p)
  /\ UNCHANGED <<eventLog, projected, published, targets, cur, claimed,
                 subVars, sup, todo, histVars>>

PublisherStep(p) ==
  \/ Acquire(p) \/ Record(p) \/ RecordFail(p) \/ Project(p) \/ Snapshot(p)
  \/ \E s \in Subs : Claim(p, s)
  \/ SendOk(p) \/ SendFull(p) \/ Reinject(p) \/ SendClosed(p) \/ Signal(p)

-----------------------------------------------------------------------------
(* Subscribing and unsubscribing. *)

SetStage(s, label) == stage' = [stage EXCEPT ![s] = label]

(* The guest of v is running and its previous host call has returned. *)
GuestRuns(v) == sup[v] \in {"handler", "dispatch"} /\ ~Busy(v)

(* The tail handlers subscribe before they answer the request. *)
TailSubscribe(s) ==
  /\ Owner[s] = Tail_
  /\ stage[s] = "unused"
  /\ SetStage(s, "live")
  /\ since' = [since EXCEPT ![s] = Len(eventLog)]
  /\ UNCHANGED <<logVars, pubVars, queue, lag, dropped, gate, supVars, offered>>

(* subscribe_with_wake: the wake first, the map entry second. *)
RegisterWake(s) ==
  /\ Owner[s] \in Plugins
  /\ stage[s] = "unused"
  /\ GuestRuns(Owner[s])
  /\ SetStage(s, "waking")
  /\ UNCHANGED <<logVars, pubVars, queue, lag, dropped, gate, supVars, histVars>>

InsertSubscriber(s) ==
  /\ stage[s] = "waking"
  /\ SetStage(s, "live")
  /\ since' = [since EXCEPT ![s] = Len(eventLog)]
  /\ UNCHANGED <<logVars, pubVars, queue, lag, dropped, gate, supVars, offered>>

(* The receiver is the first field of EventSubscription to be dropped, and *)
(* what it still queues is dropped with it.                                *)
CloseReceiver(s) ==
  /\ Open(s)
  /\ SetStage(s, "closed")
  /\ queue' = [queue EXCEPT ![s] = <<>>]

(* A client disconnects: the stream drops its subscription. *)
TailClose(s) ==
  /\ Owner[s] = Tail_
  /\ CloseReceiver(s)
  /\ UNCHANGED <<logVars, pubVars, lag, dropped, gate, supVars, histVars>>

(* host-events.unsubscribe. *)
Unsubscribe(s) ==
  /\ Owner[s] \in Plugins
  /\ GuestRuns(Owner[s])
  /\ CloseReceiver(s)
  /\ UNCHANGED <<logVars, pubVars, lag, dropped, gate, supVars, histVars>>

DropWake(s) ==
  /\ stage[s] = "closed"
  /\ SetStage(s, "unwoken")
  /\ UNCHANGED <<logVars, pubVars, queue, lag, dropped, gate, supVars, histVars>>

DropSlot(s) ==
  /\ stage[s] = "unwoken"
  /\ SetStage(s, "gone")
  /\ UNCHANGED <<logVars, pubVars, queue, lag, dropped, gate, supVars, histVars>>

SubscriptionStep(s) == InsertSubscriber(s) \/ DropWake(s) \/ DropSlot(s)

-----------------------------------------------------------------------------
(* Consuming. *)

(* receiver.recv / try_recv. *)
Take(s) ==
  /\ Open(s)
  /\ queue[s] # <<>>
  /\ queue' = [queue EXCEPT ![s] = Tail(@)]

TailRecv(s) ==
  /\ Owner[s] = Tail_
  /\ Take(s)
  /\ UNCHANGED <<logVars, pubVars, stage, lag, dropped, gate, supVars, histVars>>

SetSup(v, label) == sup' = [sup EXCEPT ![v] = label]

(* The wake arm of serve_loop's select: consume the permit and drain. *)
Wake(v) ==
  /\ sup[v] = "waiting"
  /\ v \in permit
  /\ permit' = permit \ {v}
  /\ SetSup(v, "collect")
  /\ todo' = [todo EXCEPT ![v] = OpenOf(v)]
  /\ UNCHANGED <<logVars, pubVars, subVars, histVars>>

(* A tick or a control command runs the guest instead; the permit stays. *)
OtherArm(v) ==
  /\ sup[v] = "waiting"
  /\ SetSup(v, "handler")
  /\ UNCHANGED <<logVars, pubVars, subVars, permit, todo, histVars>>

(* The handler (or init) returned: drain_events follows it. *)
DrainAfterHandler(v) ==
  /\ sup[v] = "handler"
  /\ ~Busy(v)
  /\ SetSup(v, "collect")
  /\ todo' = [todo EXCEPT ![v] = OpenOf(v)]
  /\ UNCHANGED <<logVars, pubVars, subVars, permit, histVars>>

(* collect_pending_events: try_recv on each subscription until it is empty.*)
Collect(v, s) ==
  /\ sup[v] = "collect"
  /\ s \in todo[v]
  /\ Take(s)
  /\ UNCHANGED <<logVars, pubVars, stage, lag, dropped, gate, supVars, histVars>>

DoneCollecting(s) == queue[s] = <<>>

NextSubscription(v, s) ==
  /\ sup[v] = "collect"
  /\ s \in todo[v]
  /\ DoneCollecting(s)
  /\ todo' = [todo EXCEPT ![v] = @ \ {s}]
  /\ UNCHANGED <<logVars, pubVars, subVars, permit, sup, histVars>>

(* The collected events go to on-event one by one. *)
Dispatch(v) ==
  /\ sup[v] = "collect"
  /\ todo[v] = {}
  /\ SetSup(v, "dispatch")
  /\ UNCHANGED <<logVars, pubVars, subVars, permit, todo, histVars>>

(* Back to the select, without another drain. *)
BackToSelect(v) ==
  /\ sup[v] = "dispatch"
  /\ ~Busy(v)
  /\ SetSup(v, "waiting")
  /\ UNCHANGED <<logVars, pubVars, subVars, permit, todo, histVars>>

(* The guest traps: the instance and its subscriptions are dropped, one    *)
(* after the other.                                                        *)
Trap(v) ==
  /\ GuestRuns(v)
  /\ SetSup(v, "dropping")
  /\ UNCHANGED <<logVars, pubVars, subVars, permit, todo, histVars>>

DropSubscription(v, s) ==
  /\ sup[v] = "dropping"
  /\ Owner[s] = v
  /\ ~Busy(v)
  /\ CloseReceiver(s)
  /\ UNCHANGED <<logVars, pubVars, lag, dropped, gate, supVars, histVars>>

(* The next life is a new PluginState, with a Notify of its own. *)
Restart(v) ==
  /\ sup[v] = "dropping"
  /\ ~Busy(v)
  /\ OpenOf(v) = {}
  /\ SetSup(v, "handler")
  /\ permit' = permit \ {v}
  /\ UNCHANGED <<logVars, pubVars, subVars, todo, histVars>>

SupervisorStep(v) ==
  \/ Wake(v) \/ DrainAfterHandler(v) \/ Dispatch(v) \/ BackToSelect(v) \/ Restart(v)
  \/ \E s \in Subs : Collect(v, s) \/ NextSubscription(v, s) \/ DropSubscription(v, s)

-----------------------------------------------------------------------------
Next ==
  \/ \E p \in Publishers, topic \in Topics : Begin(p, topic)
  \/ \E p \in Publishers : PublisherStep(p)
  \/ \E s \in Subs :
       \/ TailSubscribe(s) \/ TailRecv(s) \/ TailClose(s)
       \/ RegisterWake(s) \/ Unsubscribe(s) \/ SubscriptionStep(s)
  \/ \E v \in Plugins : SupervisorStep(v) \/ OtherArm(v) \/ Trap(v)

Spec == Init /\ [][Next]_vars

(***************************************************************************)
(* Tokio polls every runnable task, publishers hold their locks for a      *)
(* bounded time, the log write returns, and the watchdog ends a guest call *)
(* that does not return, so started work is finished.  Nothing makes a     *)
(* plugin tick, publish, trap, subscribe or unsubscribe, nor a client read.*)
(***************************************************************************)
Fairness ==
  /\ \A p \in Publishers : WF_vars(PublisherStep(p))
  /\ \A s \in Subs : WF_vars(SubscriptionStep(s))
  /\ \A v \in Plugins : WF_vars(SupervisorStep(v))

FairSpec == Spec /\ Fairness

-----------------------------------------------------------------------------
(* Properties. *)

PublisherLabels ==
  {"idle", "gate", "record", "project", "snapshot", "fanout", "send", "reinject"}

(* Types, and the bound of every queue. *)
TypeOK ==
  /\ eventLog \in Seq(Topics) /\ Len(eventLog) \in Rows
  /\ projected \subseteq Rows
  /\ published \in 0..MaxPublishes
  /\ seqHolder \in Publishers \cup {None}
  /\ pc \in [Publishers -> PublisherLabels]
  /\ ev \in [Publishers -> [topic : Topics, row : Rows] \cup {NoEvent}]
  /\ targets \in [Publishers -> SUBSET Subs]
  /\ cur \in [Publishers -> Subs \cup {None}]
  /\ claimed \in [Publishers -> Nat]
  /\ stage \in [Subs -> Stages]
  /\ queue \in [Subs -> Seq(Message)]
  /\ \A s \in Subs : Len(queue[s]) <= Capacity
  /\ lag \in [Subs -> Nat]
  /\ dropped \in [Subs -> Nat]
  /\ gate \in [Subs -> Publishers \cup {None}]
  /\ permit \subseteq Plugins
  /\ sup \in [Plugins -> {"handler", "collect", "dispatch", "waiting", "dropping"}]
  /\ todo \in [Plugins -> SUBSET Subs]
  /\ since \in [Subs -> Rows]
  /\ offered \in [Subs -> SUBSET Rows]

(* Events s lost since the last one enqueued for it: the pending notice,   *)
(* or the claim of the publisher inside its send_gate.                     *)
Missing(s) ==
  IF ~Open(s) THEN 0
  ELSE IF gate[s] = None THEN lag[s]
  ELSE lag[s] + claimed[gate[s]] + (IF pc[gate[s]] = "reinject" THEN 1 ELSE 0)

Channel(s) ==
  INSTANCE LossyChannel WITH alive <- Open(s), chan <- queue[s],
                             missing <- Missing(s), offered <- offered[s]

(* publish_with_id keeps, for every subscriber at once and whatever the    *)
(* interleaving of publishers, the promise of LossyChannel: exact          *)
(* skipped_before counts, drops only on a full queue, durable rows in      *)
(* increasing order and never twice.  (This is Channel(s)!Spec for every   *)
(* s, the quantifier moved inside the box.)                                *)
HonestChannels ==
  /\ \A s \in Subs : Channel(s)!Init
  /\ [][\A s \in Subs : [Channel(s)!Next]_(Channel(s)!vars)]_vars

(* The reconciliation contract of a tail and of a history query: a row     *)
(* committed after a subscription was inserted is offered to it or still   *)
(* carried by a publisher that will, so what a history query after the     *)
(* subscribe does not return is not lost silently.                         *)
OnItsWay(s, r) ==
  \E p \in Publishers :
    /\ ev[p].row = r
    /\ pc[p] \in {"project", "snapshot"} \/ s \in targets[p] \/ cur[p] = s

NoRowMissed ==
  \A s \in Subs : Open(s) =>
    \A r \in (since[s] + 1)..Len(eventLog) :
      eventLog[r] \in Accepts[s] => r \in offered[s] \/ OnItsWay(s, r)

(* A consumer that reads the device state after it received a              *)
(* state-changed event finds that event in the projection: apply_delta     *)
(* precedes the fan-out.                                                   *)
ProjectedFirst ==
  \A s \in Subs : \A r \in offered[s] :
    eventLog[r] \in StateTopics => r \in projected

(* No lost wake-up: while an event waits in a plugin's queue its           *)
(* supervisor still has a reason to drain it: it is in the guest before a  *)
(* drain, it is draining and has not passed this queue, a permit is        *)
(* stored, or the publisher has not signalled yet.                         *)
WillDrain(s) ==
  LET v == Owner[s] IN
  \/ sup[v] \in {"handler", "dropping"}
  \/ sup[v] = "collect" /\ s \in todo[v]
  \/ v \in permit
  \/ \E p \in Publishers : pc[p] \in {"fanout", "send", "reinject"} /\ s \in Matching(ev[p].topic)

NoLostWake ==
  \A s \in Subs : Owner[s] \in Plugins /\ queue[s] # <<>> => WillDrain(s)

(* Every event enqueued for a plugin reaches it (or its subscription ends):*)
(* the queue is drained again and again although the supervisor sleeps.    *)
QueuesDrained ==
  \A s \in Subs : Owner[s] \in Plugins => (queue[s] # <<>> ~> queue[s] = <<>>)

(* Publishers never block one another for good: neither the awaited        *)
(* publish_sequence gate nor the per-subscriber send_gate is leaked on any *)
(* path, the failed log write included.                                    *)
EveryPublishReturns ==
  \A p \in Publishers : pc[p] # "idle" ~> pc[p] = "idle"

=============================================================================
