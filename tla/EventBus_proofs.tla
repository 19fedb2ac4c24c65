--------------------------- MODULE EventBus_proofs ---------------------------
(***************************************************************************)
(* Proofs about EventBus: its types, the implementation of one             *)
(* LossyChannel per subscription, and what is delivered of the rows the    *)
(* event log commits.                                                      *)
(*                                                                         *)
(* The inductive invariant IInv has five parts.  Types is TypeOK with the  *)
(* two facts that make it inductive.  GateInv and EntryInv are the         *)
(* discipline of send_gate: between a claim and its re-injection the       *)
(* subscriber's pending count is with exactly one publisher.  HolderInv is *)
(* that of publish_sequence: the row a publisher carries is the last one   *)
(* committed, and nobody commits another before the fan-out ends.          *)
(* OfferInv turns both into the order in which rows reach a subscriber.    *)
(*                                                                         *)
(* Steps are grouped as in Next: Begin, the publishers' steps, and         *)
(* OtherStep, whose effect on what the invariant reads is summed up once   *)
(* in Frame.                                                               *)
(*                                                                         *)
(* The theorems on delivery rest on IInv and on CarryInv: what a publisher *)
(* carries is the row it committed, on its way to matching subscriptions   *)
(* only.  NoRowMissed and NoLostWake are themselves inductive relative to  *)
(* these; ProjectedInv extends ProjectedFirst from the rows already        *)
(* offered to the ones being carried.                                      *)
(***************************************************************************)
EXTENDS EventBus, TLAPS

(* A publisher inside the send_gate of cur[p].                             *)
Sending(p) == pc[p] \in {"send", "reinject"}

Event == [topic : Topics, row : Rows]

(* The type invariant, with the two facts that make it inductive: a        *)
(* publisher on its way carries an event, and one at try_send has a        *)
(* target.                                                                 *)
Types ==
  /\ TypeOK
  /\ \A p \in Publishers :
       /\ pc[p] # "idle" => ev[p] \in Event
       /\ Sending(p) => cur[p] \in Subs

(* The steps of everybody but the publishers: owners, consumers,           *)
(* supervisors.                                                            *)
OtherStep ==
  \/ \E s \in Subs :
       \/ TailSubscribe(s) \/ TailRecv(s) \/ TailClose(s)
       \/ RegisterWake(s) \/ Unsubscribe(s) \/ SubscriptionStep(s)
  \/ \E v \in Plugins : SupervisorStep(v) \/ OtherArm(v) \/ Trap(v)

-----------------------------------------------------------------------------
(* Types holds of the freshly built bus.                                   *)
LEMMA TypesInit == Init => Types
BY ConstantsAssumption
   DEF Init, NoEvent, Message, ConstantsAssumption, Types, TypeOK, PublisherLabels,
       Stages, Rows, NoRow, Sending

(* A publish call starts with a well-formed event and no row.              *)
LEMMA TypesBegin ==
  ASSUME Types, NEW p \in Publishers, NEW topic \in Topics, Begin(p, topic)
  PROVE  Types'
<1> DEFINE e == [topic |-> topic, row |-> NoRow]
<1>1. e \in Event
  BY ConstantsAssumption DEF Event, Rows, NoRow, ConstantsAssumption
<1>2. ev' = [ev EXCEPT ![p] = e]
  BY DEF Begin
<1> HIDE DEF e
<1>3. QED
  BY <1>1, <1>2, ConstantsAssumption DEF ConstantsAssumption, Begin, Goto, Types, TypeOK, Event, Sending, PublisherLabels, subVars, supVars, histVars, Stages

(* Every lock section of publish_event and publish_with_id keeps the       *)
(* types; the queue bound rests on try_send refusing when the queue is     *)
(* full.                                                                   *)
LEMMA TypesPublisher ==
  ASSUME Types, NEW p \in Publishers, PublisherStep(p)
  PROVE  Types'
<1> USE ConstantsAssumption
    DEF ConstantsAssumption, subVars, supVars, histVars, logVars, NoEvent,
        Types, Sending, TypeOK, PublisherLabels, Stages, Rows, NoRow, Goto, Event
<1>1. CASE Acquire(p) BY <1>1 DEF Acquire
<1>2. CASE Record(p)
  <2>1. /\ eventLog' \in Seq(Topics)
        /\ Len(eventLog') = Len(eventLog) + 1
        /\ Len(eventLog') \in Rows
    BY <1>2 DEF Record
  <2>2. /\ ev' = [ev EXCEPT ![p] = [topic |-> ev[p].topic, row |-> Len(eventLog')]]
        /\ pc' = [pc EXCEPT ![p] = "project"]
        /\ pc[p] = "record"
        /\ UNCHANGED <<projected, published, seqHolder, targets, cur, claimed,
                       subVars, supVars, histVars>>
    BY <1>2, <2>1 DEF Record
  <2>3. [topic |-> ev[p].topic, row |-> Len(eventLog')] \in Event
    BY <2>1, <2>2
  <2> QED BY <2>1, <2>2, <2>3
<1>3. CASE RecordFail(p) BY <1>3 DEF RecordFail, Return, Released, LogAfterFailure
<1>4. CASE Project(p) BY <1>4 DEF Project, WithRow
<1>5. CASE Snapshot(p) BY <1>5 DEF Snapshot, Matching
<1>6. ASSUME NEW s \in Subs, Claim(p, s) PROVE Types'
  BY <1>6 DEF Claim
<1>7. CASE SendOk(p)
  <2> DEFINE s == cur[p]
  <2>1. s \in Subs /\ ev[p] \in Event /\ claimed[p] \in Nat
    BY <1>7 DEF SendOk
  <2>2. MessageOf(p) \in Message
    BY <2>1 DEF MessageOf, Message
  <2>3. offered' \in [Subs -> SUBSET Rows]
    BY <1>7, <2>1 DEF SendOk, Offer
  <2>4. /\ queue' \in [Subs -> Seq(Message)]
        /\ \A t \in Subs : Len(queue'[t]) <= Capacity
    <3>1. queue' = [queue EXCEPT ![s] = Append(@, MessageOf(p))] /\ Len(queue[s]) < Capacity
      BY <1>7 DEF SendOk, SlotFree
    <3> HIDE DEF s
    <3>2. Append(queue[s], MessageOf(p)) \in Seq(Message)
      BY <2>1, <2>2
    <3>3. Len(Append(queue[s], MessageOf(p))) <= Capacity
      BY <2>1, <2>2, <3>1
    <3> QED BY <2>1, <3>1, <3>2, <3>3
  <2> QED BY <1>7, <2>1, <2>3, <2>4 DEF SendOk, EndOfTarget
<1>8. CASE SendFull(p) BY ZenonT(30), <1>8 DEF SendFull, Offer
<1>9. CASE Reinject(p)
  <2> DEFINE s == cur[p]
  <2>1. s \in Subs /\ Reinjected(p, s) \in Nat /\ dropped[s] + 1 \in Nat
    BY <1>9 DEF Reinject, Reinjected
  <2>2. lag' = [lag EXCEPT ![s] = Reinjected(p, s)] /\ dropped' = [dropped EXCEPT ![s] = dropped[s] + 1]
    BY <1>9 DEF Reinject
  <2>3. lag' \in [Subs -> Nat] /\ dropped' \in [Subs -> Nat]
    BY <2>1, <2>2
  <2>4. /\ gate' = [gate EXCEPT ![s] = None]
        /\ cur' = [cur EXCEPT ![p] = None]
        /\ claimed' = [claimed EXCEPT ![p] = 0]
        /\ pc' = [pc EXCEPT ![p] = "fanout"] /\ pc[p] = "reinject"
        /\ UNCHANGED <<logVars, ev, targets, stage, queue, supVars, histVars>>
    BY <1>9 DEF Reinject, EndOfTarget
  <2> QED BY <2>1, <2>3, <2>4
<1>10. CASE SendClosed(p) BY <1>10 DEF SendClosed, EndOfTarget
<1>11. CASE Signal(p) BY <1>11 DEF Signal, Return, Released, Signalled, Matching, WakeRegistered, ReadyToSignal
<1> QED BY <1>1, <1>2, <1>3, <1>4, <1>5, <1>6, <1>7, <1>8, <1>9, <1>10, <1>11 DEF PublisherStep

-----------------------------------------------------------------------------
(* What a step of anyone but a publisher may do to a subscription. *)
SubChange(s) ==
  \/ stage'[s] = stage[s] /\ queue'[s] = queue[s]
  \/ stage[s] \in {"unused", "waking"} /\ stage'[s] \in {"waking", "live"} /\ queue'[s] = queue[s]
  \/ Open(s) /\ stage'[s] = "live" /\ queue[s] # <<>> /\ queue'[s] = Tail(queue[s])
  \/ Open(s) /\ stage'[s] = "closed" /\ queue'[s] = <<>>
  \/ stage[s] \in {"closed", "unwoken"} /\ stage'[s] \in {"unwoken", "gone"} /\ queue'[s] = queue[s]

Frame ==
  /\ UNCHANGED <<logVars, pubVars, lag, dropped, gate, offered>>
  /\ \A s \in Subs : SubChange(s)
  /\ stage' = [s \in Subs |-> stage'[s]]
  /\ queue' = [s \in Subs |-> queue'[s]]

(* Subscribing, unsubscribing and draining touch no counter, gate, log row *)
(* or publisher, and change a subscription in the five ways of SubChange   *)
(* only.                                                                   *)
LEMMA OtherSteps ==
  ASSUME Types, OtherStep
  PROVE  Frame
<1> USE DEF Types, TypeOK, Frame, SubChange, Stages, subVars, supVars, histVars,
            Open, SetStage, SetSup, CloseReceiver, Take
<1>1. ASSUME NEW s \in Subs,
             TailSubscribe(s) \/ TailRecv(s) \/ TailClose(s) \/ RegisterWake(s) \/ Unsubscribe(s)
      PROVE  Frame
  BY <1>1 DEF TailSubscribe, TailRecv, TailClose, RegisterWake, Unsubscribe
<1>2. ASSUME NEW s \in Subs, SubscriptionStep(s)
      PROVE  Frame
  BY <1>2 DEF SubscriptionStep, InsertSubscriber, DropWake, DropSlot
<1>3. ASSUME NEW v \in Plugins, SupervisorStep(v)
      PROVE  Frame
  <2>1. CASE Wake(v) \/ DrainAfterHandler(v) \/ Dispatch(v) \/ BackToSelect(v) \/ Restart(v)
    BY <2>1 DEF Wake, DrainAfterHandler, Dispatch, BackToSelect, Restart
  <2>2. ASSUME NEW s \in Subs, Collect(v, s) \/ NextSubscription(v, s) \/ DropSubscription(v, s)
        PROVE  Frame
    BY <2>2 DEF Collect, NextSubscription, DropSubscription
  <2> QED BY <1>3, <2>1, <2>2 DEF SupervisorStep
<1>4. ASSUME NEW v \in Plugins, OtherArm(v) \/ Trap(v)
      PROVE  Frame
  BY <1>4 DEF OtherArm, Trap
<1> QED BY <1>1, <1>2, <1>3, <1>4 DEF OtherStep

(* The part of the type invariant Frame says nothing about.                *)
RestTypes ==
  /\ permit \subseteq Plugins
  /\ todo \in [Plugins -> SUBSET Subs]
  /\ sup \in [Plugins -> {"handler", "collect", "dispatch", "waiting", "dropping"}]
  /\ since \in [Subs -> Rows]

(* Consumers and owners keep the types: a queue only shrinks under them.   *)
LEMMA TypesOther ==
  ASSUME Types, OtherStep
  PROVE  Types'
<1>1. Frame
  BY OtherSteps
<1>2. /\ stage' \in [Subs -> Stages]
      /\ queue' \in [Subs -> Seq(Message)]
      /\ \A s \in Subs : Len(queue'[s]) <= Capacity
  <2>0. /\ stage \in [Subs -> Stages]
        /\ queue \in [Subs -> Seq(Message)]
        /\ \A s \in Subs : Len(queue[s]) <= Capacity
    BY DEF Types, TypeOK
  <2>1. ASSUME NEW s \in Subs
        PROVE  stage'[s] \in Stages /\ queue'[s] \in Seq(Message) /\ Len(queue'[s]) <= Capacity
    <3>1. CASE queue'[s] = queue[s]
      BY <1>1, <2>0, <3>1 DEF Frame, SubChange, Open, Stages
    <3>2. CASE queue'[s] = <<>>
      BY <1>1, <2>0, <3>2, ConstantsAssumption DEF Frame, SubChange, Open, ConstantsAssumption, Stages
    <3>3. CASE queue[s] # <<>> /\ queue'[s] = Tail(queue[s])
      <4>1. queue[s] \in Seq(Message) /\ queue[s] # <<>> /\ Len(queue[s]) <= Capacity
        BY <2>0, <3>3
      <4>2. Tail(queue[s]) \in Seq(Message) /\ Len(Tail(queue[s])) <= Capacity
        BY <4>1, ConstantsAssumption DEF ConstantsAssumption
      <4>3. stage'[s] \in Stages
        BY <1>1, <2>0 DEF Frame, SubChange, Open, Stages
      <4> QED BY <3>3, <4>2, <4>3
    <3> QED BY <1>1, <3>1, <3>2, <3>3 DEF Frame, SubChange
  <2>2. stage' = [s \in Subs |-> stage'[s]]
    BY <1>1 DEF Frame
  <2>3. queue' = [s \in Subs |-> queue'[s]]
    BY <1>1 DEF Frame
  <2>4. stage' \in [Subs -> Stages]
    BY <2>1, <2>2
  <2>5. queue' \in [Subs -> Seq(Message)]
    BY <2>1, <2>3
  <2> QED BY <2>1, <2>4, <2>5
<1>3. RestTypes'
  <2> USE DEF SetStage, SetSup, supVars, histVars, OpenOf, RestTypes
  <2>0. RestTypes /\ Len(eventLog) \in Rows
    BY DEF Types, TypeOK
  <2>1. ASSUME NEW s \in Subs,
               TailSubscribe(s) \/ TailRecv(s) \/ TailClose(s) \/ RegisterWake(s) \/ Unsubscribe(s)
        PROVE  RestTypes'
    BY <2>0, <2>1 DEF TailSubscribe, TailRecv, TailClose, RegisterWake, Unsubscribe
  <2>2. ASSUME NEW s \in Subs, SubscriptionStep(s)
        PROVE  RestTypes'
    BY <2>0, <2>2 DEF SubscriptionStep, InsertSubscriber, DropWake, DropSlot
  <2>3. ASSUME NEW v \in Plugins, SupervisorStep(v)
        PROVE  RestTypes'
    <3>1. CASE Wake(v) BY <2>0, <3>1 DEF Wake
    <3>2. CASE DrainAfterHandler(v) BY <2>0, <3>2 DEF DrainAfterHandler
    <3>3. CASE Dispatch(v) \/ BackToSelect(v) BY <2>0, <3>3 DEF Dispatch, BackToSelect
    <3>4. CASE Restart(v) BY <2>0, <3>4 DEF Restart
    <3>5. ASSUME NEW s \in Subs, Collect(v, s) \/ NextSubscription(v, s) \/ DropSubscription(v, s)
          PROVE  RestTypes'
      BY <2>0, <3>5 DEF Collect, NextSubscription, DropSubscription
    <3> QED BY <2>3, <3>1, <3>2, <3>3, <3>4, <3>5 DEF SupervisorStep
  <2>4. ASSUME NEW v \in Plugins, OtherArm(v) \/ Trap(v)
        PROVE  RestTypes'
    BY <2>0, <2>4 DEF OtherArm, Trap
  <2> QED BY <2>1, <2>2, <2>3, <2>4 DEF OtherStep
<1> QED
  BY <1>1, <1>2, <1>3 DEF Frame, RestTypes, Types, TypeOK, logVars, pubVars, Sending, Event

-----------------------------------------------------------------------------
(* The send_gate: it is held exactly by a publisher between claim and re-  *)
(* injection, and while it is held pending_lag is zero, the claimed part   *)
(* being with the holder.                                                  *)
GateInv ==
  /\ \A p \in Publishers :
       IF Sending(p)
       THEN cur[p] \in Subs /\ gate[cur[p]] = p /\ cur[p] \notin targets[p]
       ELSE cur[p] = None /\ claimed[p] = 0
  /\ \A s \in Subs : gate[s] # None =>
       Sending(gate[s]) /\ cur[gate[s]] = s /\ lag[s] = 0

(* Before a subscription is inserted nobody has it in a snapshot. *)
EntryInv ==
  \A s \in Subs :
    /\ ~Open(s) => queue[s] = <<>>
    /\ stage[s] \in {"unused", "waking"} =>
         /\ lag[s] = 0
         /\ gate[s] = None
         /\ \A p \in Publishers : s \notin targets[p]

(* Publishers respect the gate discipline of publish_with_id on every      *)
(* path: delivered, full, closed.                                          *)
LEMMA GatePublisher ==
  ASSUME Types, GateInv, EntryInv, NEW p \in Publishers, PublisherStep(p)
  PROVE  GateInv' /\ EntryInv'
<1> USE DEF Types, TypeOK, GateInv, EntryInv, Sending, Goto, Open, subVars, supVars, histVars, logVars
<1>1. CASE Acquire(p) BY <1>1 DEF Acquire
<1>2. CASE Record(p) BY <1>2 DEF Record
<1>3. CASE RecordFail(p) BY <1>3 DEF RecordFail, Return
<1>4. CASE Project(p) BY <1>4 DEF Project
<1>5. CASE Snapshot(p) BY <1>5 DEF Snapshot, InMap, Matching
<1>6. ASSUME NEW s \in Subs, Claim(p, s) PROVE GateInv' /\ EntryInv'
  BY <1>6, ConstantsAssumption DEF Claim, SendGateFree, ConstantsAssumption
<1>7. CASE SendOk(p) BY <1>7, ConstantsAssumption DEF SendOk, EndOfTarget, ConstantsAssumption
<1>8. CASE SendFull(p) BY <1>8 DEF SendFull
<1>9. CASE Reinject(p) BY <1>9, ConstantsAssumption DEF Reinject, EndOfTarget, ConstantsAssumption
<1>10. CASE SendClosed(p) BY <1>10, ConstantsAssumption DEF SendClosed, EndOfTarget, ConstantsAssumption
<1>11. CASE Signal(p) BY <1>11 DEF Signal, Return, ReadyToSignal
<1> QED BY <1>1, <1>2, <1>3, <1>4, <1>5, <1>6, <1>7, <1>8, <1>9, <1>10, <1>11 DEF PublisherStep

(* Nobody but a publisher touches gate or pending_lag, and an entry is     *)
(* inserted into the map before any publisher can snapshot it.             *)
LEMMA GateOther ==
  ASSUME Types, GateInv, EntryInv, OtherStep
  PROVE  GateInv' /\ EntryInv'
<1>1. Frame
  BY OtherSteps
<1>2. GateInv'
  BY <1>1 DEF Frame, GateInv, Sending, pubVars
<1>3. EntryInv'
  BY <1>1 DEF Frame, SubChange, EntryInv, Open, pubVars
<1> QED BY <1>2, <1>3

-----------------------------------------------------------------------------
Carrying(p) == pc[p] \in {"project", "snapshot", "fanout", "send", "reinject"}

(* publish_sequence is held from before the commit to after the fan-out.   *)
HolderInv ==
  \A p \in Publishers :
    /\ pc[p] \in {"record", "project"} => seqHolder = p
    /\ ev[p].row # NoRow => seqHolder = p /\ Carrying(p) /\ ev[p].row = Len(eventLog)

(* p has yet to offer its event to s. *)
Ahead(p, s) ==
  pc[p] \in {"project", "snapshot"} \/ s \in targets[p] \/ (pc[p] = "send" /\ cur[p] = s)

OfferInv ==
  /\ \A s \in Subs : \A r \in offered[s] : r <= Len(eventLog)
  /\ \A p \in Publishers, s \in Subs :
       ev[p].row # NoRow /\ Ahead(p, s) => \A r \in offered[s] : r < ev[p].row
  /\ \A p \in Publishers :
       pc[p] \in {"idle", "gate", "record", "project", "snapshot"} => targets[p] = {}

(* publish_sequence is exclusive from the commit of a row to the end of    *)
(* its fan-out, so the row a publisher carries is the last one committed.  *)
LEMMA HolderPublisher ==
  ASSUME Types, HolderInv, NEW p \in Publishers, PublisherStep(p)
  PROVE  HolderInv'
<1> USE ConstantsAssumption
    DEF Types, TypeOK, Event, HolderInv, Carrying, Goto, subVars, supVars, histVars, logVars,
        NoEvent, NoRow, Rows, ConstantsAssumption
<1>1. CASE Acquire(p) BY <1>1 DEF Acquire, GateFree
<1>2. CASE Record(p) BY <1>2 DEF Record
<1>3. CASE RecordFail(p) BY <1>3 DEF RecordFail, Return, Released, LogAfterFailure
<1>4. CASE Project(p) BY <1>4 DEF Project
<1>5. CASE Snapshot(p) BY <1>5 DEF Snapshot
<1>6. ASSUME NEW s \in Subs, Claim(p, s) PROVE HolderInv'
  BY <1>6 DEF Claim
<1>7. CASE SendOk(p) BY <1>7 DEF SendOk, EndOfTarget
<1>8. CASE SendFull(p) BY <1>8 DEF SendFull
<1>9. CASE Reinject(p) BY <1>9 DEF Reinject, EndOfTarget
<1>10. CASE SendClosed(p) BY <1>10 DEF SendClosed, EndOfTarget
<1>11. CASE Signal(p) BY <1>11 DEF Signal, Return, ReadyToSignal, Released
<1> QED BY <1>1, <1>2, <1>3, <1>4, <1>5, <1>6, <1>7, <1>8, <1>9, <1>10, <1>11 DEF PublisherStep

(* Offered rows are committed ones, and a publisher that has yet to offer  *)
(* its row to s finds only older rows there.                               *)
LEMMA OfferPublisher ==
  ASSUME Types, GateInv, HolderInv, OfferInv, NEW p \in Publishers, PublisherStep(p)
  PROVE  OfferInv'
<1> USE ConstantsAssumption
    DEF Types, TypeOK, Event, OfferInv, Ahead, Goto, subVars, supVars, histVars, logVars,
        NoEvent, NoRow, Rows, ConstantsAssumption
<1>1. CASE Acquire(p) BY <1>1 DEF Acquire
<1>2. CASE Record(p) BY <1>2 DEF Record, HolderInv
<1>3. CASE RecordFail(p) BY <1>3 DEF RecordFail, Return, LogAfterFailure
<1>4. CASE Project(p) BY <1>4 DEF Project
<1>5. CASE Snapshot(p) BY <1>5 DEF Snapshot
<1>6. ASSUME NEW s \in Subs, Claim(p, s) PROVE OfferInv'
  BY <1>6 DEF Claim
<1>7. CASE SendOk(p)
  <2> DEFINE s == cur[p]
  <2>1. s \in Subs /\ s \notin targets[p] /\ pc[p] = "send" /\ ev[p] \in Event
    BY <1>7 DEF SendOk, GateInv, Sending
  <2>2. /\ pc' = [pc EXCEPT ![p] = "fanout"]
        /\ cur' = [cur EXCEPT ![p] = None]
        /\ offered' = [offered EXCEPT ![s] = @ \cup ({ev[p].row} \ {0})]
        /\ UNCHANGED <<eventLog, ev, targets>>
    BY <1>7 DEF SendOk, EndOfTarget, Offer
  <2>3. ASSUME NEW q \in Publishers, NEW t \in Subs, ev'[q].row # 0, Ahead(q, t)'
        PROVE  \A r \in offered'[t] : r < ev'[q].row
    <3>1. Ahead(q, t)
      BY <2>1, <2>2, <2>3
    <3>2. CASE t = s /\ ev[p].row # 0
      <4>1. q = p
        BY <2>2, <2>3, <3>2 DEF HolderInv
      <4> QED BY <2>1, <2>2, <2>3, <3>2, <4>1
    <3>3. CASE t # s \/ ev[p].row = 0
      <4>1. offered'[t] = offered[t]
        BY <2>1, <2>2, <3>3
      <4> QED BY <2>2, <2>3, <3>1, <4>1
    <3> QED BY <3>2, <3>3
  <2>4. \A t \in Subs : \A r \in offered'[t] : r <= Len(eventLog')
    <3> TAKE t \in Subs
    <3> TAKE r \in offered'[t]
    <3>1. r \in offered[t] \/ (r = ev[p].row /\ r # 0)
      BY <2>1, <2>2
    <3> QED BY <2>2, <3>1 DEF HolderInv
  <2>5. \A q \in Publishers :
          pc'[q] \in {"idle", "gate", "record", "project", "snapshot"} => targets'[q] = {}
    BY <2>1, <2>2
  <2> QED BY <2>3, <2>4, <2>5
<1>8. CASE SendFull(p) BY SMTT(30), <1>8 DEF SendFull, Offer, HolderInv, GateInv, Sending
<1>9. CASE Reinject(p) BY <1>9 DEF Reinject, EndOfTarget
<1>10. CASE SendClosed(p) BY <1>10 DEF SendClosed, EndOfTarget
<1>11. CASE Signal(p) BY <1>11 DEF Signal, Return, ReadyToSignal
<1> QED BY <1>1, <1>2, <1>3, <1>4, <1>5, <1>6, <1>7, <1>8, <1>9, <1>10, <1>11 DEF PublisherStep

-----------------------------------------------------------------------------
IInv == Types /\ GateInv /\ EntryInv /\ HolderInv /\ OfferInv

(* The inductive invariant holds of the freshly built bus.                 *)
LEMMA InvInit == Init => IInv
<1> SUFFICES ASSUME Init PROVE IInv
  OBVIOUS
<1>1. Types
  BY TypesInit
<1>2. GateInv /\ EntryInv /\ HolderInv /\ OfferInv
  BY ConstantsAssumption
     DEF Init, GateInv, EntryInv, HolderInv, OfferInv, Ahead, Sending, Open, NoEvent, NoRow, ConstantsAssumption
<1> QED BY <1>1, <1>2 DEF IInv

(* It survives the start of a publish,                                     *)
LEMMA InvBegin ==
  ASSUME IInv, NEW p \in Publishers, NEW topic \in Topics, Begin(p, topic)
  PROVE  IInv'
<1>1. Types'
  BY TypesBegin DEF IInv
<1>0. PICK label \in {"gate", "snapshot"} : pc' = [pc EXCEPT ![p] = label]
  BY DEF Begin, Goto
<1>2. /\ pc[p] = "idle"
      /\ pc' = [pc EXCEPT ![p] = label]
      /\ ev' = [ev EXCEPT ![p] = [topic |-> topic, row |-> 0]]
      /\ UNCHANGED <<eventLog, projected, seqHolder, targets, cur, claimed, subVars, supVars, histVars>>
  BY <1>0 DEF Begin, NoRow
<1>3. GateInv' /\ EntryInv'
  <2>1. \A q \in Publishers : Sending(q)' <=> Sending(q)
    BY <1>2 DEF IInv, Types, TypeOK, Sending
  <2>2. GateInv'
    BY <1>2, <2>1 DEF IInv, Types, TypeOK, GateInv, subVars
  <2>3. EntryInv'
    BY <1>2 DEF IInv, EntryInv, Open, subVars
  <2> QED BY <2>2, <2>3
<1>4. HolderInv'
  BY <1>2 DEF IInv, Types, TypeOK, HolderInv, Carrying, NoRow
<1>5. OfferInv'
  BY <1>2 DEF IInv, Types, TypeOK, OfferInv, Ahead, NoRow, histVars
<1> QED BY <1>1, <1>3, <1>4, <1>5 DEF IInv

(* every lock section of a publish,                                        *)
LEMMA InvPublisher ==
  ASSUME IInv, NEW p \in Publishers, PublisherStep(p)
  PROVE  IInv'
BY TypesPublisher, GatePublisher, HolderPublisher, OfferPublisher DEF IInv

(* every step of an owner, a consumer or a supervisor,                     *)
LEMMA InvOther ==
  ASSUME IInv, OtherStep
  PROVE  IInv'
<1>1. Types' /\ GateInv' /\ EntryInv' /\ Frame
  BY TypesOther, GateOther, OtherSteps DEF IInv
<1>2. UNCHANGED <<logVars, pubVars, offered>>
  BY <1>1 DEF Frame
<1>3. HolderInv' /\ OfferInv'
  BY <1>2 DEF IInv, HolderInv, OfferInv, Carrying, Ahead, logVars, pubVars
<1> QED BY <1>1, <1>3 DEF IInv

(* and a stuttering step.                                                  *)
LEMMA InvStutter ==
  ASSUME IInv, UNCHANGED vars
  PROVE  IInv'
BY DEF IInv, Types, TypeOK, GateInv, EntryInv, HolderInv, OfferInv, Carrying, Ahead, Sending, Open,
       vars, logVars, pubVars, subVars, supVars, histVars

-----------------------------------------------------------------------------
(* A step of the abstract channel of s, or a stuttering of it.             *)
ChannelStep(s) == [Channel(s)!Next]_(Channel(s)!vars)

(* Owners and consumers open, drain and close the channel and do no more.  *)
LEMMA ChannelOther ==
  ASSUME IInv, OtherStep, NEW s \in Subs
  PROVE  ChannelStep(s)
<1>1. Frame
  BY OtherSteps DEF IInv
<1>2. offered' = offered /\ lag' = lag /\ gate' = gate /\ pc' = pc /\ claimed' = claimed /\ SubChange(s)
  BY <1>1 DEF Frame, pubVars
<1>3. CASE Open(s) /\ Open(s)'
  <2>1. Missing(s)' = Missing(s)
    BY <1>2, <1>3 DEF Missing
  <2>2. CASE queue'[s] = queue[s]
    BY <1>2, <1>3, <2>1, <2>2 DEF ChannelStep, Channel!vars, Open
  <2>3. CASE queue[s] # <<>> /\ queue'[s] = Tail(queue[s])
    BY <1>2, <1>3, <2>1, <2>3 DEF ChannelStep, Channel!Next, Channel!Receive
  <2> QED BY <1>2, <1>3, <2>2, <2>3 DEF SubChange, Open
<1>4. CASE Open(s) /\ ~Open(s)'
  <2>1. Missing(s)' = 0 /\ queue'[s] = <<>>
    BY <1>2, <1>4 DEF Missing, SubChange, Open
  <2> QED BY <1>2, <1>4, <2>1 DEF ChannelStep, Channel!Next, Channel!Close
<1>5. CASE ~Open(s) /\ Open(s)'
  <2>1. stage[s] \in {"unused", "waking"} /\ queue'[s] = queue[s]
    BY <1>2, <1>5 DEF SubChange, Open
  <2>2. Missing(s) = 0 /\ Missing(s)' = 0
    BY <1>2, <1>5, <2>1 DEF Missing, IInv, EntryInv
  <2> QED BY <1>2, <1>5, <2>1, <2>2 DEF ChannelStep, Channel!Next, Channel!Subscribe
<1>6. CASE ~Open(s) /\ ~Open(s)'
  <2>1. Missing(s) = 0 /\ Missing(s)' = 0
    BY <1>6 DEF Missing
  <2>2. queue'[s] = queue[s]
    BY <1>2, <1>6 DEF SubChange, Open
  <2>3. Open(s)' = Open(s)
    BY <1>6 DEF Open
  <2> QED BY <1>2, <2>1, <2>2, <2>3 DEF ChannelStep, Channel!vars
<1> QED BY <1>3, <1>4, <1>5, <1>6

(* A step of p that does not touch queue, gate or counters of s. *)
LEMMA ChannelUntouched ==
  ASSUME IInv, NEW p \in Publishers, NEW s \in Subs,
         stage' = stage, queue'[s] = queue[s], lag'[s] = lag[s], gate'[s] = gate[s],
         offered'[s] = offered[s], gate[s] # p,
         \A q \in Publishers \ {p} : pc'[q] = pc[q] /\ claimed'[q] = claimed[q]
  PROVE  ChannelStep(s)
<1>1. Open(s)' = Open(s)
  BY DEF Open
<1>2. gate[s] = None \/ gate[s] \in Publishers \ {p}
  BY DEF IInv, Types, TypeOK
<1>3. Missing(s)' = Missing(s)
  BY <1>1, <1>2 DEF Missing
<1> QED BY <1>1, <1>3 DEF ChannelStep, Channel!vars

(* Claiming pending_lag moves the pending notice from the counter to the   *)
(* publisher: the channel does not notice.                                 *)
LEMMA ChannelClaim ==
  ASSUME IInv, NEW p \in Publishers, NEW s \in Subs, Claim(p, s)
  PROVE  ChannelStep(s)
<1>1. /\ gate[s] = None /\ gate'[s] = p /\ lag'[s] = 0 /\ claimed'[p] = lag[s] /\ pc'[p] = "send"
      /\ stage' = stage /\ queue' = queue /\ offered' = offered
  BY DEF Claim, SendGateFree, Goto, IInv, Types, TypeOK, histVars
<1>2. Missing(s)' = Missing(s)
  <2>1. lag[s] \in Nat /\ p # None
    BY ConstantsAssumption DEF IInv, Types, TypeOK, ConstantsAssumption
  <2> QED BY <1>1, <2>1 DEF Missing, Open
<1>3. Open(s)' = Open(s)
  BY <1>1 DEF Open
<1> QED BY <1>1, <1>2, <1>3 DEF ChannelStep, Channel!vars

(* What the invariant says of a publisher about to try_send. *)
LEMMA Sender ==
  ASSUME IInv, NEW p \in Publishers, Sending(p)
  PROVE  /\ cur[p] \in Subs /\ gate[cur[p]] = p /\ p # None
         /\ lag[cur[p]] = 0
         /\ claimed[p] \in Nat
         /\ ev[p] \in Event
         /\ pc[p] = "send" => Channel(cur[p])!InOrder(ev[p].row)
<1>1. /\ cur[p] \in Subs /\ gate[cur[p]] = p /\ p # None /\ lag[cur[p]] = 0
      /\ claimed[p] \in Nat /\ ev[p] \in Event
  BY ConstantsAssumption DEF IInv, Types, TypeOK, GateInv, Sending, ConstantsAssumption
<1>2. ASSUME pc[p] = "send", ev[p].row # NoRow
      PROVE  \A r \in offered[cur[p]] : r < ev[p].row
  BY <1>1, <1>2 DEF IInv, OfferInv, Ahead
<1> QED BY <1>1, <1>2 DEF Channel!InOrder

(* A successful try_send is one Deliver: the notice on the message is the  *)
(* exact number of events dropped since the last one delivered.            *)
LEMMA ChannelDeliver ==
  ASSUME IInv, NEW p \in Publishers, SendOk(p),
         NEW s \in Subs, s = cur[p]
  PROVE  ChannelStep(s)
<1>1. pc[p] = "send" /\ Sending(p)
  BY DEF SendOk, Sending
<1>2. /\ s \in Subs /\ gate[s] = p /\ p # None /\ lag[s] = 0 /\ claimed[p] \in Nat
      /\ ev[p] \in Event /\ Channel(s)!InOrder(ev[p].row)
  BY <1>1, Sender
<1>3. /\ Open(s) /\ Len(queue[s]) < Capacity
      /\ queue'[s] = Append(queue[s], MessageOf(p))
      /\ gate'[s] = None /\ lag' = lag /\ stage' = stage
      /\ offered'[s] = offered[s] \cup ({ev[p].row} \ {NoRow})
  BY <1>2 DEF SendOk, SlotFree, EndOfTarget, Offer, IInv, Types, TypeOK
<1>4. Missing(s) = claimed[p] /\ Missing(s)' = 0 /\ Open(s)'
  BY <1>1, <1>2, <1>3 DEF Missing, Open
<1>5. PICK topic \in Topics, row \in Rows : topic = ev[p].topic /\ row = ev[p].row
  BY <1>2 DEF Event
<1>6. Channel(s)!Deliver(topic, row)
  BY <1>2, <1>3, <1>4, <1>5 DEF Channel!Deliver, Channel!Note, Channel!InOrder, MessageOf
<1> QED BY <1>6 DEF ChannelStep, Channel!Next

(* A try_send that finds the queue full is one Drop, whatever the consumer *)
(* does between it and the re-injection.                                   *)
LEMMA ChannelDrop ==
  ASSUME IInv, NEW p \in Publishers, SendFull(p),
         NEW s \in Subs, s = cur[p]
  PROVE  ChannelStep(s)
<1>1. pc[p] = "send" /\ Sending(p)
  BY DEF SendFull, Sending
<1>2. /\ s \in Subs /\ gate[s] = p /\ p # None /\ lag[s] = 0 /\ claimed[p] \in Nat
      /\ ev[p] \in Event /\ Channel(s)!InOrder(ev[p].row)
  BY <1>1, Sender
<1>3. /\ Open(s) /\ ~(Len(queue[s]) < Capacity) /\ pc'[p] = "reinject"
      /\ queue' = queue /\ gate' = gate /\ lag' = lag /\ stage' = stage /\ claimed' = claimed
      /\ offered'[s] = offered[s] \cup ({ev[p].row} \ {NoRow})
  BY <1>2 DEF SendFull, SlotFree, Offer, Goto, IInv, Types, TypeOK, subVars
<1>4. Len(queue[s]) = Capacity
  BY <1>2, <1>3, ConstantsAssumption DEF IInv, Types, TypeOK, ConstantsAssumption
<1>5. Missing(s)' = Missing(s) + 1 /\ Open(s)'
  BY <1>1, <1>2, <1>3 DEF Missing, Open
<1>6. PICK row \in Rows : row = ev[p].row
  BY <1>2 DEF Event
<1>7. Channel(s)!Drop(row)
  BY <1>2, <1>3, <1>4, <1>5, <1>6 DEF Channel!Drop, Channel!Note, Channel!InOrder, Open
<1> QED BY <1>7 DEF ChannelStep, Channel!Next

(* Re-injecting the claim, and giving up on a closed receiver, change      *)
(* nothing the subscriber can see.                                         *)
LEMMA ChannelSettle ==
  ASSUME IInv, NEW p \in Publishers, Reinject(p) \/ SendClosed(p),
         NEW s \in Subs, s = cur[p]
  PROVE  ChannelStep(s)
<1>1. Sending(p)
  BY DEF Reinject, SendClosed, Sending
<1>2. s \in Subs /\ gate[s] = p /\ p # None /\ lag[s] = 0 /\ claimed[p] \in Nat
  BY <1>1, Sender
<1>3. gate'[s] = None /\ stage' = stage /\ queue' = queue /\ offered' = offered
  BY <1>2 DEF Reinject, SendClosed, EndOfTarget, IInv, Types, TypeOK, histVars
<1>4. Open(s)' = Open(s)
  BY <1>3 DEF Open
<1>5. Missing(s)' = Missing(s)
  <2>1. CASE Reinject(p)
    <3>1. lag'[s] = 0 + claimed[p] + 1 /\ pc[p] = "reinject"
      BY <1>2, <2>1 DEF Reinject, Reinjected, IInv, Types, TypeOK
    <3> QED BY <1>2, <1>3, <1>4, <3>1 DEF Missing
  <2>2. CASE SendClosed(p)
    BY <1>4, <2>2 DEF Missing, SendClosed
  <2> QED BY <2>1, <2>2
<1> QED BY <1>3, <1>4, <1>5 DEF ChannelStep, Channel!vars

(* Every step of a publisher is a step of every channel, or a stuttering   *)
(* of it.                                                                  *)
LEMMA ChannelPublisher ==
  ASSUME IInv, NEW p \in Publishers, PublisherStep(p), NEW s \in Subs
  PROVE  ChannelStep(s)
<1>0. gate[s] = p => Sending(p) /\ cur[p] = s
  BY ConstantsAssumption DEF IInv, GateInv, ConstantsAssumption
<1> USE DEF Types, TypeOK, Goto, subVars, supVars, histVars, logVars
<1>1. CASE Acquire(p) \/ Record(p) \/ RecordFail(p) \/ Project(p) \/ Snapshot(p) \/ Signal(p)
  <2>1. UNCHANGED <<stage, queue, lag, gate, offered, claimed>> /\ ~Sending(p)
    BY <1>1 DEF Acquire, Record, RecordFail, Project, Snapshot, Signal, ReadyToSignal, Return, Sending
  <2>2. PICK label \in PublisherLabels : pc' = [pc EXCEPT ![p] = label]
    BY <1>1 DEF Acquire, Record, RecordFail, Project, Snapshot, Signal, Return, PublisherLabels
  <2>3. \A q \in Publishers \ {p} : pc'[q] = pc[q]
    BY <2>2 DEF IInv
  <2> QED BY <1>0, <2>1, <2>3, ChannelUntouched
<1>2. ASSUME NEW t \in Subs, Claim(p, t) PROVE ChannelStep(s)
  <2>1. CASE t = s
    BY <1>2, <2>1, ChannelClaim
  <2>2. CASE t # s
    <3>1. /\ stage' = stage /\ queue' = queue /\ offered' = offered
          /\ lag'[s] = lag[s] /\ gate'[s] = gate[s] /\ ~Sending(p)
          /\ \A q \in Publishers \ {p} : pc'[q] = pc[q] /\ claimed'[q] = claimed[q]
      BY <1>2, <2>2 DEF Claim, Sending, IInv
    <3> QED BY <1>0, <3>1, ChannelUntouched
  <2> QED BY <2>1, <2>2
<1>3. CASE SendOk(p) \/ SendFull(p) \/ Reinject(p) \/ SendClosed(p)
  <2>1. CASE cur[p] = s
    BY <1>3, <2>1, ChannelDeliver, ChannelDrop, ChannelSettle
  <2>2. CASE cur[p] # s
    <3>0. Sending(p) /\ cur[p] \in Subs
      BY <1>3, Sender DEF SendOk, SendFull, Reinject, SendClosed, Sending
    <3>1. /\ stage' = stage /\ queue'[s] = queue[s] /\ offered'[s] = offered[s]
          /\ lag'[s] = lag[s] /\ gate'[s] = gate[s]
          /\ \A q \in Publishers \ {p} : pc'[q] = pc[q] /\ claimed'[q] = claimed[q]
      BY <1>3, <2>2, <3>0 DEF SendOk, SendFull, Reinject, SendClosed, EndOfTarget, Offer, IInv
    <3> QED BY <1>0, <2>2, <3>1, ChannelUntouched
  <2> QED BY <2>1, <2>2
<1> QED BY <1>1, <1>2, <1>3 DEF PublisherStep

-----------------------------------------------------------------------------
(* The inductive invariant behind both theorems below: types, the          *)
(* discipline of the two gates (publish_sequence held from event_log       *)
(* commit to the end of the fan-out, send_gate from claim to re-injection) *)
(* and the order in which rows are offered.                                *)
THEOREM Invariant == Spec => []IInv
<1>1. IInv /\ [Next]_vars => IInv'
  <2> SUFFICES ASSUME IInv, [Next]_vars PROVE IInv'
    OBVIOUS
  <2>1. ASSUME NEW p \in Publishers, NEW topic \in Topics, Begin(p, topic) PROVE IInv'
    BY <2>1, InvBegin
  <2>2. ASSUME NEW p \in Publishers, PublisherStep(p) PROVE IInv'
    BY <2>2, InvPublisher
  <2>3. CASE OtherStep
    BY <2>3, InvOther
  <2>4. CASE UNCHANGED vars
    BY <2>4, InvStutter
  <2> QED BY <2>1, <2>2, <2>3, <2>4 DEF Next, OtherStep
<1> QED BY InvInit, <1>1, PTL DEF Spec

(* TypeOK holds of every reachable state of the bus, for any number of     *)
(* publishers, subscriptions and plugins: in particular no queue ever      *)
(* exceeds SUBSCRIBER_CAPACITY.                                            *)
THEOREM TypeCorrect == Spec => []TypeOK
<1>1. IInv => TypeOK
  BY DEF IInv, Types
<1> QED BY <1>1, Invariant, PTL

(* publish_with_id implements one LossyChannel per subscription, for every *)
(* set of publishers, subscriptions and topics: skipped_before counts are  *)
(* exact, an event is dropped only on a full queue, and the durable rows   *)
(* of publish_event arrive in increasing order, each at most once.         *)
THEOREM Refinement == Spec => HonestChannels
<1>1. Init => \A s \in Subs : Channel(s)!Init
  BY DEF Init, Channel!Init, Open, Missing
<1>2. IInv /\ [Next]_vars => [\A s \in Subs : ChannelStep(s)]_vars
  <2> SUFFICES ASSUME IInv, Next, NEW s \in Subs PROVE ChannelStep(s)
    OBVIOUS
  <2>1. ASSUME NEW p \in Publishers, NEW topic \in Topics, Begin(p, topic) PROVE ChannelStep(s)
    <3>1. /\ UNCHANGED <<stage, queue, lag, gate, offered, claimed>>
          /\ ~Sending(p)
          /\ \A q \in Publishers \ {p} : pc'[q] = pc[q]
      BY <2>1 DEF Begin, Goto, Sending, IInv, Types, TypeOK, subVars, histVars
    <3>2. gate[s] # p
      BY <3>1, ConstantsAssumption DEF IInv, GateInv, ConstantsAssumption
    <3> QED BY <3>1, <3>2, ChannelUntouched
  <2>2. ASSUME NEW p \in Publishers, PublisherStep(p) PROVE ChannelStep(s)
    BY <2>2, ChannelPublisher
  <2>3. CASE OtherStep
    BY <2>3, ChannelOther
  <2> QED BY <2>1, <2>2, <2>3 DEF Next, OtherStep
<1> QED BY <1>1, <1>2, Invariant, PTL DEF Spec, HonestChannels, ChannelStep

-----------------------------------------------------------------------------
(* Delivery: no committed row is missed, the projection leads the fan-out, *)
(* and no wake-up is lost.                                                 *)

(* What a publisher carries is the row it committed, its snapshot holds    *)
(* matching subscriptions only, and a full queue was offered the row.      *)
CarryInv ==
  /\ \A p \in Publishers :
       /\ ev[p].row # NoRow => eventLog[ev[p].row] = ev[p].topic
       /\ targets[p] \subseteq Matching(ev[p].topic)
       /\ Sending(p) => cur[p] \in Matching(ev[p].topic)
       /\ pc[p] = "reinject" /\ ev[p].row # NoRow => ev[p].row \in offered[cur[p]]
  /\ \A s \in Subs : NoRow \notin offered[s]

(* A publisher past apply_delta has the row in the projection. *)
ProjectedInv ==
  /\ \A p \in Publishers :
       ev[p].row # NoRow /\ pc[p] # "project" /\ ev[p].topic \in StateTopics => ev[p].row \in projected
  /\ ProjectedFirst

(* record_prepared stamps the row id it committed on the event, and the    *)
(* snapshot of the map is filtered by topic.                               *)
LEMMA CarryPublisher ==
  ASSUME IInv, CarryInv, NEW p \in Publishers, PublisherStep(p)
  PROVE  CarryInv'
<1> USE ConstantsAssumption
    DEF IInv, Types, TypeOK, Event, CarryInv, Sending, Goto, subVars, supVars, histVars, logVars,
        NoEvent, NoRow, Rows, ConstantsAssumption, Matching
<1>1. CASE Acquire(p) BY <1>1 DEF Acquire
<1>2. CASE Record(p)
  <2>1. targets[p] = {}
    BY <1>2 DEF Record, OfferInv
  <2>2. \A q \in Publishers \ {p} : ev[q].row = 0
    BY <1>2 DEF Record, HolderInv
  <2>3. eventLog'[Len(eventLog) + 1] = ev[p].topic
    BY <1>2 DEF Record
  <2> QED BY <1>2, <2>1, <2>2, <2>3 DEF Record
<1>3. CASE RecordFail(p) BY <1>3 DEF RecordFail, Return, LogAfterFailure, OfferInv
<1>4. CASE Project(p) BY <1>4 DEF Project
<1>5. CASE Snapshot(p) BY <1>5 DEF Snapshot
<1>6. ASSUME NEW s \in Subs, Claim(p, s) PROVE CarryInv'
  BY <1>6 DEF Claim
<1>7. CASE SendOk(p) BY SMTT(30), <1>7 DEF SendOk, EndOfTarget, Offer
<1>8. CASE SendFull(p) BY SMTT(30), <1>8 DEF SendFull, Offer
<1>9. CASE Reinject(p) BY <1>9 DEF Reinject, EndOfTarget
<1>10. CASE SendClosed(p) BY <1>10 DEF SendClosed, EndOfTarget
<1>11. CASE Signal(p) BY <1>11 DEF Signal, Return, ReadyToSignal
<1> QED BY <1>1, <1>2, <1>3, <1>4, <1>5, <1>6, <1>7, <1>8, <1>9, <1>10, <1>11 DEF PublisherStep

(* apply_delta runs before the snapshot, so every row offered to anybody   *)
(* is in the projection.                                                   *)
LEMMA ProjectedPublisher ==
  ASSUME IInv, CarryInv, ProjectedInv, NEW p \in Publishers, PublisherStep(p)
  PROVE  ProjectedInv'
<1> USE ConstantsAssumption
    DEF IInv, Types, TypeOK, Event, ProjectedInv, ProjectedFirst, Goto, subVars, supVars, histVars,
        logVars, NoEvent, NoRow, Rows, ConstantsAssumption
<1>1. CASE Acquire(p) BY <1>1 DEF Acquire
<1>2. CASE Record(p)
  <2>1. \A s \in Subs : \A r \in offered[s] : eventLog'[r] = eventLog[r]
    BY <1>2 DEF Record, OfferInv, CarryInv
  <2> QED BY <1>2, <2>1 DEF Record
<1>3. CASE RecordFail(p) BY <1>3 DEF RecordFail, Return, LogAfterFailure
<1>4. CASE Project(p) BY <1>4 DEF Project, WithRow
<1>5. CASE Snapshot(p) BY <1>5 DEF Snapshot
<1>6. ASSUME NEW s \in Subs, Claim(p, s) PROVE ProjectedInv'
  BY <1>6 DEF Claim
<1>7. CASE SendOk(p) BY SMTT(30), <1>7 DEF SendOk, EndOfTarget, Offer, CarryInv
<1>8. CASE SendFull(p)
  <2>1. cur[p] \in Subs /\ offered' = [offered EXCEPT ![cur[p]] = @ \cup ({ev[p].row} \ {0})]
    BY <1>8 DEF SendFull, Offer, GateInv, Sending
  <2>2. UNCHANGED <<eventLog, ev, projected>> /\ pc[p] = "send" /\ pc' = [pc EXCEPT ![p] = "reinject"]
    BY <1>8 DEF SendFull
  <2>3. \A s \in Subs : \A r \in offered'[s] : r \in offered[s] \/ (r # 0 /\ r = ev[p].row)
    BY <2>1
  <2>4. ASSUME NEW s \in Subs, NEW r \in offered'[s], eventLog'[r] \in StateTopics
        PROVE  r \in projected'
    <3>1. CASE r \in offered[s]
      BY <2>2, <2>4, <3>1
    <3>2. CASE r # 0 /\ r = ev[p].row
      <4>1. eventLog[r] = ev[p].topic
        BY <3>2 DEF CarryInv
      <4> QED BY <2>2, <2>4, <3>2, <4>1
    <3> QED BY <2>3, <3>1, <3>2
  <2> QED BY <2>2, <2>4
<1>9. CASE Reinject(p) BY <1>9 DEF Reinject, EndOfTarget
<1>10. CASE SendClosed(p) BY <1>10 DEF SendClosed, EndOfTarget
<1>11. CASE Signal(p) BY <1>11 DEF Signal, Return, ReadyToSignal
<1> QED BY <1>1, <1>2, <1>3, <1>4, <1>5, <1>6, <1>7, <1>8, <1>9, <1>10, <1>11 DEF PublisherStep

(* q has committed r and s is yet to be offered it, or being offered it.   *)
Carries(q, s, r) ==
  ev[q].row = r /\ (pc[q] \in {"project", "snapshot"} \/ s \in targets[q] \/ cur[q] = s)

(* A step other than a commit misses no row when the publishers keep       *)
(* carrying theirs until they offer it.                                    *)
LEMMA MissedFrame ==
  ASSUME Types, NoRowMissed, UNCHANGED <<eventLog, since, stage>>,
         \A s \in Subs : offered[s] \subseteq offered'[s],
         \A q \in Publishers, s \in Subs, r \in 1..Len(eventLog) :
           Open(s) /\ eventLog[r] \in Accepts[s] /\ Carries(q, s, r) /\ r \notin offered'[s]
           => Carries(q, s, r)'
  PROVE  NoRowMissed'
<1> SUFFICES ASSUME NEW s \in Subs, Open(s), NEW r \in (since[s] + 1)..Len(eventLog),
                    eventLog[r] \in Accepts[s], r \notin offered'[s]
             PROVE  OnItsWay(s, r)'
  BY DEF NoRowMissed, Open
<1>1. PICK q \in Publishers : Carries(q, s, r)
  BY DEF NoRowMissed, OnItsWay, Carries
<1>2. r \in 1..Len(eventLog)
  BY DEF Types, TypeOK, Rows
<1>3. Carries(q, s, r)'
  BY <1>1, <1>2
<1> QED BY <1>3 DEF OnItsWay, Carries

(* From the commit of a row to its last try_send some publisher carries it *)
(* towards every subscription that was in the map when it was committed:   *)
(* the snapshot cannot miss one, a claim keeps it, a full queue counts as  *)
(* offered.                                                                *)
LEMMA MissedPublisher ==
  ASSUME IInv, CarryInv, NoRowMissed, NEW p \in Publishers, PublisherStep(p)
  PROVE  NoRowMissed'
<1> USE ConstantsAssumption
    DEF IInv, Types, TypeOK, Event, Carries, Open, Goto, subVars, supVars, histVars,
        logVars, NoEvent, NoRow, Rows, ConstantsAssumption
<1>1. CASE Acquire(p) BY <1>1, MissedFrame DEF Acquire
<1>2. CASE Record(p)
  <2>0. ev[p].row = 0
    BY <1>2 DEF Record, HolderInv, Carrying
  <2>1. \A q \in Publishers, s \in Subs, r \in 1..Len(eventLog) : Carries(q, s, r) => Carries(q, s, r)'
    BY <1>2, <2>0 DEF Record
  <2> SUFFICES ASSUME NEW s \in Subs, Open(s), NEW r \in (since[s] + 1)..(Len(eventLog) + 1),
                      eventLog'[r] \in Accepts[s]
               PROVE  r \in offered[s] \/ OnItsWay(s, r)'
    BY <1>2 DEF Record, NoRowMissed
  <2>2. CASE r = Len(eventLog) + 1
    <3>1. Carries(p, s, r)'
      BY <1>2, <2>2 DEF Record
    <3> QED BY <3>1 DEF OnItsWay
  <2>3. CASE r # Len(eventLog) + 1
    <3>0. since[s] \in Nat /\ Len(eventLog) \in Nat /\ eventLog' = Append(eventLog, ev[p].topic)
      BY <1>2 DEF Record
    <3>1. r \in (since[s] + 1)..Len(eventLog) /\ r \in 1..Len(eventLog)
      BY SMTT(20), <2>3, <3>0
    <3>3. eventLog'[r] = eventLog[r]
      BY <3>0, <3>1
    <3>2. CASE r \notin offered[s]
      <4>1. PICK q \in Publishers : Carries(q, s, r)
        BY <3>1, <3>2, <3>3 DEF NoRowMissed, OnItsWay
      <4>2. Carries(q, s, r)'
        BY <2>1, <3>1, <4>1
      <4> QED BY <4>2 DEF OnItsWay
    <3> QED BY <3>2
  <2> QED BY <2>2, <2>3
<1>3. CASE RecordFail(p)
  <2>1. ev[p].row = 0
    BY <1>3 DEF RecordFail, HolderInv, Carrying
  <2> QED BY <1>3, <2>1, MissedFrame DEF RecordFail, Return, LogAfterFailure
<1>4. CASE Project(p) BY <1>4, MissedFrame DEF Project
<1>5. CASE Snapshot(p)
  <2>1. /\ UNCHANGED <<eventLog, since, stage, offered, ev, cur>> /\ pc' = [pc EXCEPT ![p] = "fanout"]
        /\ targets' = [targets EXCEPT ![p] = {s \in Matching(ev[p].topic) : InMap(s)}]
    BY <1>5 DEF Snapshot
  <2>2. ASSUME NEW q \in Publishers, NEW s \in Subs, NEW r \in 1..Len(eventLog),
               Open(s), eventLog[r] \in Accepts[s], Carries(q, s, r)
        PROVE  Carries(q, s, r)'
    <3>1. CASE q = p
      <4>1. ev[p].row = r
        BY <2>2, <3>1
      <4>2. r # 0
        OBVIOUS
      <4>3. eventLog[r] = ev[p].topic
        <5> HIDE DEF IInv, Types, TypeOK, Event
        <5> QED BY <4>1, <4>2 DEF CarryInv
      <4>4. s \in targets'[p]
        BY <2>1, <2>2, <4>3 DEF Matching, InMap
      <4> QED BY <2>1, <3>1, <4>1, <4>4
    <3>2. CASE q # p BY <2>1, <2>2, <3>2
    <3> QED BY <3>1, <3>2
  <2>3. \A s \in Subs : offered[s] \subseteq offered'[s]
    BY <2>1
  <2> HIDE DEF IInv, Types, TypeOK, Carries, Open
  <2>4. \A q \in Publishers, s \in Subs, r \in 1..Len(eventLog) :
          Open(s) /\ eventLog[r] \in Accepts[s] /\ Carries(q, s, r) /\ r \notin offered'[s]
          => Carries(q, s, r)'
    BY <2>2
  <2>5. Types
    BY DEF IInv
  <2> QED BY <2>1, <2>3, <2>4, <2>5, MissedFrame
<1>6. ASSUME NEW t \in Subs, Claim(p, t) PROVE NoRowMissed'
  <2>1. /\ UNCHANGED <<eventLog, since, stage, offered, ev>>
        /\ pc[p] = "fanout" /\ pc' = [pc EXCEPT ![p] = "send"]
        /\ cur' = [cur EXCEPT ![p] = t] /\ targets' = [targets EXCEPT ![p] = @ \ {t}]
    BY <1>6 DEF Claim
  <2>2. cur[p] = None
    BY <2>1 DEF GateInv, Sending
  <2>3. ASSUME NEW q \in Publishers, NEW s \in Subs, NEW r \in 1..Len(eventLog), Carries(q, s, r)
        PROVE  Carries(q, s, r)'
    BY <2>1, <2>2, <2>3
  <2> QED BY <2>1, <2>3, MissedFrame
<1>7. CASE SendOk(p)
  <2>1. cur[p] \in Subs /\ offered' = [offered EXCEPT ![cur[p]] = @ \cup ({ev[p].row} \ {0})]
    BY <1>7 DEF SendOk, Offer, Sending
  <2> QED BY SMTT(30), <1>7, <2>1, MissedFrame DEF SendOk, EndOfTarget
<1>8. CASE SendFull(p)
  <2>1. cur[p] \in Subs /\ offered' = [offered EXCEPT ![cur[p]] = @ \cup ({ev[p].row} \ {0})]
    BY <1>8 DEF SendFull, Offer, Sending
  <2> QED BY <1>8, <2>1, MissedFrame DEF SendFull
<1>9. CASE Reinject(p)
  <2>1. /\ UNCHANGED <<eventLog, since, stage, offered, ev, targets>>
        /\ pc[p] = "reinject" /\ pc' = [pc EXCEPT ![p] = "fanout"] /\ cur' = [cur EXCEPT ![p] = None]
    BY <1>9 DEF Reinject, EndOfTarget
  <2>2. ASSUME NEW q \in Publishers, NEW s \in Subs, NEW r \in 1..Len(eventLog),
               Carries(q, s, r), r \notin offered[s]
        PROVE  Carries(q, s, r)'
    BY <2>1, <2>2 DEF CarryInv
  <2> QED BY <2>1, <2>2, MissedFrame
<1>10. CASE SendClosed(p) BY <1>10, MissedFrame DEF SendClosed, EndOfTarget
<1>11. CASE Signal(p)
  <2>1. /\ UNCHANGED <<eventLog, since, stage, offered, targets, cur>>
        /\ pc[p] = "fanout" /\ targets[p] = {} /\ pc' = [pc EXCEPT ![p] = "idle"]
        /\ ev' = [ev EXCEPT ![p] = NoEvent]
    BY <1>11 DEF Signal, Return, ReadyToSignal
  <2>2. cur[p] = None
    BY <2>1 DEF GateInv, Sending
  <2>3. ASSUME NEW q \in Publishers, NEW s \in Subs, NEW r \in 1..Len(eventLog), Carries(q, s, r)
        PROVE  Carries(q, s, r)'
    BY <2>1, <2>2, <2>3
  <2> QED BY <2>1, <2>3, MissedFrame
<1> QED BY <1>1, <1>2, <1>3, <1>4, <1>5, <1>6, <1>7, <1>8, <1>9, <1>10, <1>11 DEF PublisherStep

(* A publisher that has enqueued something has still to run signal_wakes,  *)
(* and signal_wakes stores a permit for the owner of every queue that      *)
(* holds a message: an open receiver implies a registered wake.            *)
LEMMA WakePublisher ==
  ASSUME IInv, CarryInv, NoLostWake, NEW p \in Publishers, PublisherStep(p)
  PROVE  NoLostWake'
<1> USE ConstantsAssumption
    DEF IInv, Types, TypeOK, Event, NoLostWake, WillDrain, Goto, subVars, supVars, histVars,
        logVars, NoEvent, NoRow, Rows, ConstantsAssumption, Matching
<1>1. CASE Acquire(p) BY <1>1 DEF Acquire
<1>2. CASE Record(p) BY <1>2 DEF Record
<1>3. CASE RecordFail(p) BY <1>3 DEF RecordFail, Return
<1>4. CASE Project(p) BY <1>4 DEF Project
<1>5. CASE Snapshot(p) BY <1>5 DEF Snapshot
<1>6. ASSUME NEW s \in Subs, Claim(p, s) PROVE NoLostWake'
  BY <1>6 DEF Claim
<1>7. CASE SendOk(p) BY ZenonT(30), <1>7 DEF SendOk, EndOfTarget, CarryInv, Sending
<1>8. CASE SendFull(p) BY <1>8 DEF SendFull
<1>9. CASE Reinject(p) BY <1>9 DEF Reinject, EndOfTarget
<1>10. CASE SendClosed(p) BY <1>10 DEF SendClosed, EndOfTarget
<1>11. CASE Signal(p)
  BY ZenonT(30), <1>11 DEF Signal, Signalled, WakeRegistered, EntryInv, Open, Return, ReadyToSignal
<1> QED BY <1>1, <1>2, <1>3, <1>4, <1>5, <1>6, <1>7, <1>8, <1>9, <1>10, <1>11 DEF PublisherStep

-----------------------------------------------------------------------------
(* Consumers and owners change nothing of log, projection or publishers.   *)
LEMMA CarryOther ==
  ASSUME IInv, CarryInv, ProjectedInv, OtherStep
  PROVE  CarryInv' /\ ProjectedInv'
<1>1. UNCHANGED <<logVars, pubVars, offered>>
  BY OtherSteps DEF IInv, Frame
<1> QED BY <1>1 DEF CarryInv, ProjectedInv, ProjectedFirst, Sending, logVars, pubVars

(* Rows committed before a subscription was inserted are not owed to it. *)
SinceChange(s) ==
  \/ since'[s] = since[s] /\ (Open(s)' => Open(s))
  \/ since'[s] = Len(eventLog)

(* Inserting a subscription is the only step that moves its starting row,  *)
(* and it moves it to the end of the log.                                  *)
LEMMA SinceOther ==
  ASSUME Types, OtherStep, NEW s \in Subs
  PROVE  SinceChange(s)
<1> USE DEF Types, TypeOK, SinceChange, SetStage, SetSup, CloseReceiver, Take, Open,
            subVars, supVars, histVars
<1>1. ASSUME NEW t \in Subs,
             TailSubscribe(t) \/ TailRecv(t) \/ TailClose(t) \/ RegisterWake(t) \/ Unsubscribe(t)
      PROVE  SinceChange(s)
  BY <1>1 DEF TailSubscribe, TailRecv, TailClose, RegisterWake, Unsubscribe
<1>2. ASSUME NEW t \in Subs, SubscriptionStep(t)
      PROVE  SinceChange(s)
  BY <1>2 DEF SubscriptionStep, InsertSubscriber, DropWake, DropSlot
<1>3. ASSUME NEW v \in Plugins, SupervisorStep(v)
      PROVE  SinceChange(s)
  <2>1. CASE Wake(v) \/ DrainAfterHandler(v) \/ Dispatch(v) \/ BackToSelect(v) \/ Restart(v)
    BY <2>1 DEF Wake, DrainAfterHandler, Dispatch, BackToSelect, Restart
  <2>2. ASSUME NEW t \in Subs, Collect(v, t) \/ NextSubscription(v, t) \/ DropSubscription(v, t)
        PROVE  SinceChange(s)
    BY <2>2 DEF Collect, NextSubscription, DropSubscription
  <2> QED BY <1>3, <2>1, <2>2 DEF SupervisorStep
<1>4. ASSUME NEW v \in Plugins, OtherArm(v) \/ Trap(v)
      PROVE  SinceChange(s)
  BY <1>4 DEF OtherArm, Trap
<1> QED BY <1>1, <1>2, <1>3, <1>4 DEF OtherStep

(* Subscribing, receiving and closing miss no row.                         *)
LEMMA MissedOther ==
  ASSUME IInv, NoRowMissed, OtherStep
  PROVE  NoRowMissed'
<1>1. UNCHANGED <<logVars, pubVars, offered>> /\ Types /\ Len(eventLog) \in Nat
  BY OtherSteps DEF IInv, Frame, Types, TypeOK, Rows
<1>2. \A s \in Subs : SinceChange(s)
  BY <1>1, SinceOther
<1> SUFFICES ASSUME NEW s \in Subs, Open(s)', NEW r \in (since'[s] + 1)..Len(eventLog),
                    eventLog[r] \in Accepts[s]
             PROVE  r \in offered[s] \/ OnItsWay(s, r)
  BY <1>1 DEF NoRowMissed, OnItsWay, logVars, pubVars
<1>3. since'[s] # Len(eventLog)
  BY <1>1
<1>4. since'[s] = since[s] /\ Open(s)
  BY <1>2, <1>3 DEF SinceChange
<1> QED BY <1>4 DEF NoRowMissed

(* The supervisor never gives up a permit, a drain or a handler with a     *)
(* message left behind: it consumes the permit and lists its subscriptions *)
(* in one step, and leaves a queue only when it found it empty.            *)
LEMMA WakeOther ==
  ASSUME IInv, NoLostWake, OtherStep
  PROVE  NoLostWake'
<1>1. Frame
  BY OtherSteps DEF IInv
<1> USE DEF IInv, Types, TypeOK, EntryInv, NoLostWake, WillDrain, SetStage, SetSup, CloseReceiver,
            Take, Open, OpenOf, subVars, supVars, histVars, pubVars
<1>2. ASSUME NEW s \in Subs,
             TailSubscribe(s) \/ TailRecv(s) \/ TailClose(s) \/ RegisterWake(s) \/ Unsubscribe(s)
      PROVE  NoLostWake'
  <2>1. CASE TailSubscribe(s) \/ TailRecv(s) \/ TailClose(s)
    BY ZenonT(30), <2>1, ConstantsAssumption DEF TailSubscribe, TailRecv, TailClose, ConstantsAssumption
  <2>2. CASE RegisterWake(s) \/ Unsubscribe(s)
    BY ZenonT(30), <2>2, ConstantsAssumption DEF RegisterWake, Unsubscribe, ConstantsAssumption
  <2> QED
    BY <1>2, <2>1, <2>2
<1>3. ASSUME NEW s \in Subs, SubscriptionStep(s)
      PROVE  NoLostWake'
  BY <1>3 DEF SubscriptionStep, InsertSubscriber, DropWake, DropSlot
<1>4. ASSUME NEW v \in Plugins, SupervisorStep(v)
      PROVE  NoLostWake'
  <2>1. CASE Wake(v) BY <2>1 DEF Wake
  <2>2. CASE DrainAfterHandler(v) BY <2>2 DEF DrainAfterHandler
  <2>3. CASE Dispatch(v) BY <2>3 DEF Dispatch
  <2>4. CASE BackToSelect(v) BY <2>4 DEF BackToSelect
  <2>5. CASE Restart(v) BY <2>5 DEF Restart
  <2>6. ASSUME NEW s \in Subs, Collect(v, s) PROVE NoLostWake'
    BY <2>6 DEF Collect
  <2>7. ASSUME NEW s \in Subs, NextSubscription(v, s) PROVE NoLostWake'
    BY <2>7 DEF NextSubscription, DoneCollecting
  <2>8. ASSUME NEW s \in Subs, DropSubscription(v, s) PROVE NoLostWake'
    BY <2>8 DEF DropSubscription
  <2> QED BY <1>4, <2>1, <2>2, <2>3, <2>4, <2>5, <2>6, <2>7, <2>8 DEF SupervisorStep
<1>5. ASSUME NEW v \in Plugins, OtherArm(v) \/ Trap(v)
      PROVE  NoLostWake'
  BY <1>5 DEF OtherArm, Trap
<1> QED BY <1>2, <1>3, <1>4, <1>5 DEF OtherStep

-----------------------------------------------------------------------------
(* The inductive invariant of this module, relative to IInv.               *)
DInv == CarryInv /\ ProjectedInv /\ NoRowMissed /\ NoLostWake

(* DInv holds of the freshly built bus                                     *)
LEMMA DeliveryInit == Init => DInv
BY ConstantsAssumption
   DEF Init, DInv, CarryInv, ProjectedInv, ProjectedFirst, NoRowMissed, NoLostWake, Sending, Open,
       NoEvent, NoRow, ConstantsAssumption

(* and survives the start of a publish                                     *)
LEMMA DeliveryBegin ==
  ASSUME IInv, DInv, NEW p \in Publishers, NEW topic \in Topics, Begin(p, topic)
  PROVE  DInv'
<1>1. PICK label \in {"gate", "snapshot"} : pc' = [pc EXCEPT ![p] = label]
  BY DEF Begin, Goto
<1>2. /\ pc[p] = "idle"
      /\ ev' = [ev EXCEPT ![p] = [topic |-> topic, row |-> 0]]
      /\ ev[p].row = 0 /\ targets[p] = {} /\ Types
      /\ UNCHANGED <<eventLog, projected, targets, cur, subVars, supVars, histVars>>
  BY DEF Begin, NoRow, IInv, HolderInv, Carrying, OfferInv, Types, TypeOK
<1> USE DEF DInv, Types, TypeOK, subVars, supVars, histVars
<1>3. CarryInv' BY <1>1, <1>2 DEF CarryInv, Sending, NoRow
<1>4. ProjectedInv' BY <1>1, <1>2 DEF ProjectedInv, ProjectedFirst, NoRow
<1>5. NoRowMissed'
  <2>1. \A q \in Publishers, s \in Subs, r \in 1..Len(eventLog) : Carries(q, s, r) => Carries(q, s, r)'
    BY <1>1, <1>2 DEF Carries
  <2> QED BY <1>2, <2>1, MissedFrame
<1>6. NoLostWake' BY <1>1, <1>2 DEF NoLostWake, WillDrain
<1> QED BY <1>3, <1>4, <1>5, <1>6

(* and a stuttering step.                                                  *)
LEMMA DeliveryStutter ==
  ASSUME DInv, UNCHANGED vars
  PROVE  DInv'
BY DEF DInv, CarryInv, ProjectedInv, ProjectedFirst, NoRowMissed, OnItsWay, NoLostWake, WillDrain,
       Sending, Open, vars, logVars, pubVars, subVars, supVars, histVars

(* DInv is an invariant of the bus: what the three theorems below say,     *)
(* with what makes it inductive.                                           *)
THEOREM Delivery == Spec => []DInv
<1>1. IInv /\ DInv /\ [Next]_vars => DInv'
  <2> SUFFICES ASSUME IInv, DInv, [Next]_vars PROVE DInv'
    OBVIOUS
  <2>1. ASSUME NEW p \in Publishers, NEW topic \in Topics, Begin(p, topic) PROVE DInv'
    BY <2>1, DeliveryBegin
  <2>2. ASSUME NEW p \in Publishers, PublisherStep(p) PROVE DInv'
    BY <2>2, CarryPublisher, ProjectedPublisher, MissedPublisher, WakePublisher DEF DInv
  <2>3. CASE OtherStep
    BY <2>3, CarryOther, MissedOther, WakeOther DEF DInv
  <2>4. CASE UNCHANGED vars
    BY <2>4, DeliveryStutter
  <2> QED BY <2>1, <2>2, <2>3, <2>4 DEF Next, OtherStep
<1> QED BY DeliveryInit, <1>1, Invariant, PTL DEF Spec

(* A row committed by publish_event after a subscription was inserted is   *)
(* offered to it, or a publisher is on its way to offer it: a tail that    *)
(* subscribes before it queries the history misses nothing silently.       *)
THEOREM RowsReach == Spec => []NoRowMissed
<1>1. DInv => NoRowMissed
  BY DEF DInv
<1> QED BY <1>1, Delivery, PTL

(* No subscriber is offered a state-changed event before apply_delta put   *)
(* it in the device-state projection.                                      *)
THEOREM ProjectionLeads == Spec => []ProjectedFirst
<1>1. DInv => ProjectedFirst
  BY DEF DInv, ProjectedInv
<1> QED BY <1>1, Delivery, PTL

(* No lost wake-up: a message in a plugin's queue always leaves its        *)
(* supervisor a reason to drain, whatever the interleaving of signal_wakes *)
(* with the drain and with the select of serve_loop.                       *)
THEOREM WakesKept == Spec => []NoLostWake
<1>1. DInv => NoLostWake
  BY DEF DInv
<1> QED BY <1>1, Delivery, PTL
=============================================================================
