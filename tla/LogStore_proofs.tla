---------------------------- MODULE LogStore_proofs ----------------------------
(***************************************************************************)
(* Proofs about LogStore, for any finite set of events, any number of      *)
(* threads that flush, trim or drop, and any capacity.  LogInv has two     *)
(* layers: what ties the stages of the events to the channel, the writer   *)
(* and the counters (Places, Counts), and what each call of flush may      *)
(* conclude from the numbers it has read (FlushOf).                        *)
(***************************************************************************)
EXTENDS LogStore, FiniteSetTheorems, TLAPS

Stages == {"new", "counted", "refused", "dropped", "queued", "held", "stored", "spoiled",
           "written", "failed", "lost"}
InHand == {"held", "stored", "spoiled"}
Over == {"written", "failed"}
Polls == {"written", "errors", "dropped", "late", "drained", "gave_up"}
Calls == [step : {"idle"} \cup Polls, kind : Kinds \cup {None}, target : Nat, seen : Nat,
          before : SUBSET Events, counted : SUBSET Events, overtaken : BOOLEAN]

Types ==
  /\ stage \in [Events -> Stages]
  /\ queue \in Seq(Events) /\ Len(queue) <= Capacity
  /\ held \in Events \cup {None}
  /\ alive \in BOOLEAN
  /\ rows \subseteq At({"stored", "written"})
  /\ flush \in [Flushers -> Calls]

(* Where the events are that are neither new nor over.                     *)
Places ==
  /\ \A i \in 1..Len(queue) : stage[queue[i]] = "queued"
  /\ \A i, j \in 1..Len(queue) : queue[i] = queue[j] => i = j
  /\ \A e \in Events : stage[e] = "queued" => \E i \in 1..Len(queue) : queue[i] = e
  /\ \A e \in Events : stage[e] \in InHand <=> held = e
  /\ ~alive => queue = <<>> /\ held = None
  /\ \A e \in Events : stage[e] = "lost" => ~alive

(* Every counter is the number of events that have been counted in it.     *)
Counts ==
  /\ sent = Cardinality(Events \ At({"new"}))
  /\ dropped = Cardinality(At({"dropped"}))
  /\ written = Cardinality(At({"written"}))
  /\ write_errors = Cardinality(At({"failed"}))

(* The channel keeps its order: what was in it at the snapshot is before   *)
(* what came later, so as long as some of it is left, nothing else has     *)
(* been received.                                                          *)
FirstIn(before) ==
  /\ before \subseteq At(InChannel \cup Taken \cup {"lost"})
  /\ \A i, j \in 1..Len(queue) : i < j /\ queue[j] \in before => queue[i] \in before
  /\ before \subseteq At(Over) \/ At(InHand \cup Over) \subseteq before

(* What the call has read is not more than what has been counted by now.   *)
SeenOf(f) ==
  /\ flush[f].step = "errors" => flush[f].seen <= written
  /\ flush[f].step \in {"dropped", "late"} => flush[f].seen <= written + write_errors

FlushOf(f) ==
  flush[f].step # "idle" =>
    /\ flush[f].before \subseteq flush[f].counted
    /\ flush[f].counted \cap At({"new"}) = {}
    /\ flush[f].target = Cardinality(flush[f].counted)
    /\ FirstIn(flush[f].before)
    /\ SeenOf(f)
    /\ flush[f].step = "drained" /\ ~flush[f].overtaken => flush[f].before \subseteq At(Over)

Trims == trimmed \subseteq At(Over) /\ trimmed \cap rows = {}

LogInv == Types /\ Places /\ Counts /\ (\A f \in Flushers : FlushOf(f)) /\ Trims

-----------------------------------------------------------------------------
(* Sets of events and their sizes.                                         *)

LEMMA AtSubset == ASSUME NEW S PROVE At(S) \subseteq Events
  BY DEF At

LEMMA EventsFinite == ASSUME NEW S \in SUBSET Events PROVE IsFiniteSet(S) /\ Cardinality(S) \in Nat
  BY LogAssumption, FS_Subset, FS_CardinalityType

(* One event changes its stage.                                            *)
LEMMA Move ==
  ASSUME Types, NEW e \in Events, NEW s, stage' = [stage EXCEPT ![e] = s], NEW S
  PROVE  At(S)' = IF s \in S THEN At(S) \cup {e} ELSE At(S) \ {e}
  BY DEF Types, At

LEMMA MoveCounts ==
  ASSUME Types, NEW e \in Events, NEW s, stage' = [stage EXCEPT ![e] = s], NEW S,
         stage[e] \notin S
  PROVE  Cardinality(At(S)') = Cardinality(At(S)) + (IF s \in S THEN 1 ELSE 0)
<1>1. e \notin At(S) /\ IsFiniteSet(At(S))
  BY AtSubset, EventsFinite DEF At
<1>2. CASE s \in S
  <2>1. At(S)' = At(S) \cup {e}
    BY <1>2, Move
  <2> QED
    BY <1>1, <1>2, <2>1, FS_AddElement
<1>3. CASE s \notin S
  <2>0. At(S)' = At(S) \ {e}
    BY <1>3, Move
  <2>1. At(S)' = At(S)
    BY <1>1, <2>0
  <2>2. Cardinality(At(S)) \in Nat
    BY AtSubset, EventsFinite
  <2> QED
    BY <1>3, <2>1, <2>2
<1> QED
  BY <1>2, <1>3

-----------------------------------------------------------------------------
(* Types.                                                                  *)

LEMMA TypesInit == Init => Types
  BY LogAssumption DEF Init, Types, At, Stages, Calls, Idle, Kinds

(* A step that leaves events and channel alone.                            *)
LEMMA CallTyped ==
  ASSUME Types, UNCHANGED <<stage, channelVars>>, rows' \subseteq rows,
         flush' \in [Flushers -> Calls]
  PROVE  Types'
  BY DEF Types, channelVars, At

LEMMA SnapshotTyped ==
  ASSUME Types, Counts, NEW f \in Flushers, NEW kind \in Kinds, Snapshot(f, kind)
  PROVE  flush' \in [Flushers -> Calls]
<1>1. sent \in Nat
  BY EventsFinite DEF Counts
<1> QED
  BY <1>1, AtSubset DEF Types, Snapshot, Calls, Polls

LEMMA CountersNat ==
  Counts => sent \in Nat /\ dropped \in Nat /\ written \in Nat /\ write_errors \in Nat
  BY AtSubset, EventsFinite DEF Counts

LEMMA TypesStep == Types /\ Places /\ Counts /\ [Next]_vars => Types'
<1> SUFFICES ASSUME Types, Places, Counts, [Next]_vars PROVE Types'
  OBVIOUS
<1> USE DEF channelVars, storeVars, counters
<1>1. ASSUME NEW e \in Events, Emitting(e) PROVE Types'
  <2>1. CASE Observe(e)
    BY <2>1 DEF Observe, Types, At, Stages
  <2>2. CASE TrySend(e)
    <3>1. stage' \in [Events -> Stages] /\ stage[e] = "counted"
      BY <2>2 DEF TrySend, Types, Stages
    <3>2. queue' \in Seq(Events) /\ Len(queue') <= Capacity
      <4>1. CASE alive /\ Len(queue) < Capacity
        <5>1. queue \in Seq(Events) /\ queue' = Append(queue, e)
          BY <2>2, <4>1 DEF TrySend, Types
        <5>2. queue' \in Seq(Events) /\ Len(queue') = Len(queue) + 1 /\ Len(queue) \in Nat
          BY <5>1
        <5> QED
          BY <4>1, <5>2, LogAssumption
      <4>2. CASE ~(alive /\ Len(queue) < Capacity)
        BY <2>2, <4>2 DEF TrySend, Types
      <4> QED
        BY <4>1, <4>2
    <3>3. rows \subseteq At({"stored", "written"})'
      BY <2>2 DEF TrySend, Types, At
    <3> QED
      BY <2>2, <3>1, <3>2, <3>3 DEF TrySend, Types
  <2>3. CASE CountDropped(e)
    BY <2>3 DEF CountDropped, Types, At, Stages
  <2> QED
    BY <1>1, <2>1, <2>2, <2>3 DEF Emitting
<1>2. CASE Receive
  <2>1. Head(queue) \in Events /\ queue' \in Seq(Events) /\ Len(queue') = Len(queue) - 1
    BY <1>2 DEF Receive, Types
  <2>2. stage[Head(queue)] = "queued"
    BY <1>2 DEF Receive, Places, Types
  <2>3. rows \subseteq At({"stored", "written"})'
    BY <1>2, <2>1, <2>2 DEF Receive, Types, At
  <2>4. Len(queue') <= Capacity
    BY <2>1, LogAssumption DEF Types
  <2> QED
    BY <1>2, <2>1, <2>3, <2>4 DEF Receive, Types, Stages
<1>3. CASE Insert
  <2>1. held \in Events
    BY <1>3 DEF Insert, Types
  <2>2. rows' \subseteq At({"stored", "written"})'
    BY <1>3, <2>1 DEF Insert, Types, At
  <2> QED
    BY <1>3, <2>1, <2>2 DEF Insert, Types, Stages
<1>4. CASE CountRow
  <2>1. held \in Events
    BY <1>4 DEF CountRow, Types
  <2>2. rows' \subseteq At({"stored", "written"})'
    BY <1>4, <2>1 DEF CountRow, Types, At
  <2> QED
    BY <1>4, <2>1, <2>2 DEF CountRow, Types, Stages
<1>5. CASE WriterPanics
  <2>1. rows' \subseteq At({"stored", "written"})'
    BY <1>5 DEF WriterPanics, Types, At, InChannel
  <2>2. queue' \in Seq(Events) /\ Len(queue') <= Capacity
    BY <1>5, LogAssumption DEF WriterPanics
  <2> QED
    BY <1>5, <2>1, <2>2 DEF WriterPanics, Types, Stages
<1>6. ASSUME NEW f \in Flushers, NEW kind \in Kinds, Begin(f, kind) PROVE Types'
  BY <1>6, SnapshotTyped, CallTyped DEF Begin
<1>7. ASSUME NEW f \in Flushers, Polling(f) \/ GiveUp(f) PROVE Types'
  <2>1. flush' \in [Flushers -> Calls]
    <3>1. flush \in [Flushers -> Calls] /\ flush[f] \in Calls
      BY DEF Types
    <3>2. PICK c \in Calls : flush' = [flush EXCEPT ![f] = c]
      <4>1. CASE LoadWritten(f)
        <5>1. [flush[f] EXCEPT !.step = "errors", !.seen = written] \in Calls
          BY <3>1, CountersNat DEF Calls, Polls
        <5> QED
          BY <4>1, <5>1 DEF LoadWritten
      <4>2. CASE LoadErrors(f)
        <5>0. flush[f].seen + write_errors \in Nat
          BY <3>1, CountersNat DEF Calls
        <5>1. [flush[f] EXCEPT !.step = "dropped", !.seen = @ + write_errors] \in Calls
          BY <3>1, <5>0 DEF Calls, Polls
        <5> QED
          BY <4>2, <5>1 DEF LoadErrors
      <4>3. CASE Drained(f)
        <5>1. [flush[f] EXCEPT !.step = "drained",
                 !.overtaken = ~(At({"dropped"}) \subseteq flush[f].counted)] \in Calls
          BY <3>1 DEF Calls, Polls
        <5> QED
          BY <4>3, <5>1 DEF Drained
      <4>4. ASSUME NEW s \in Polls, flush' = [flush EXCEPT ![f].step = s]
            PROVE  \E c \in Calls : flush' = [flush EXCEPT ![f] = c]
        <5>1. [flush[f] EXCEPT !.step = s] \in Calls
          BY <3>1 DEF Calls
        <5> QED
          BY <4>4, <5>1
      <4>5. CASE NotYet(f) \/ Again(f) \/ GiveUp(f)
        BY <4>4, <4>5 DEF NotYet, Again, GiveUp, Polls
      <4>6. CASE Return(f) \/ Delete(f)
        <5>1. Idle \in Calls
          BY DEF Idle, Calls
        <5> QED
          BY <4>6, <5>1 DEF Return, Delete
      <4> QED
        BY <1>7, <4>1, <4>2, <4>3, <4>5, <4>6 DEF Polling
    <3> QED
      BY <3>1, <3>2
  <2>2. UNCHANGED <<stage, channelVars>> /\ rows' \subseteq rows
    BY <1>7 DEF Polling, LoadWritten, LoadErrors, Drained, NotYet, Again, GiveUp, Return, Delete
  <2> QED
    BY <2>1, <2>2, CallTyped
<1>8. ASSUME NEW f \in Flushers, Drop(f) PROVE Types'
  <2>1. flush' \in [Flushers -> Calls]
    BY <1>8, SnapshotTyped DEF Drop, Kinds, Types
  <2> QED
    BY <1>8, <2>1, CallTyped DEF Drop
<1>9. CASE UNCHANGED vars
  BY <1>9 DEF vars, Types, At
<1> QED
  BY <1>1, <1>2, <1>3, <1>4, <1>5, <1>6, <1>7, <1>8, <1>9 DEF Next, Writing

-----------------------------------------------------------------------------
(* Places: the channel is a queue without repetitions, and the writer has  *)
(* one event at a time.                                                    *)

LEMMA Appended ==
  ASSUME Types, NEW e \in Events, queue' = Append(queue, e)
  PROVE  /\ Len(queue) \in Nat /\ Len(queue') = Len(queue) + 1
         /\ \A i \in 1..Len(queue) : queue'[i] = queue[i] /\ queue[i] \in Events
         /\ queue'[Len(queue) + 1] = e
  BY DEF Types

LEMMA Received ==
  ASSUME Types, queue # <<>>, queue' = Tail(queue)
  PROVE  /\ Len(queue) \in Nat \ {0} /\ Len(queue') = Len(queue) - 1
         /\ Head(queue) = queue[1] /\ queue[1] \in Events
         /\ \A i \in 1..Len(queue') : queue'[i] = queue[i + 1] /\ queue'[i] \in Events
  BY DEF Types

LEMMA PlacesInit == Init => Places
  BY LogAssumption DEF Init, Places, InHand

LEMMA TrySendPlaces ==
  ASSUME Types, Places, NEW e \in Events, TrySend(e)
  PROVE  Places'
<1>1. CASE alive /\ Len(queue) < Capacity
  <2>1. queue' = Append(queue, e) /\ stage' = [stage EXCEPT ![e] = "queued"] /\ stage[e] = "counted"
        /\ held' = held /\ alive' = alive
    BY <1>1 DEF TrySend
  <2>2. \A i \in 1..Len(queue) : queue[i] # e
    BY <2>1 DEF Places, Types
  <2>3. /\ Len(queue) \in Nat /\ Len(queue') = Len(queue) + 1
        /\ \A i \in 1..Len(queue) : queue'[i] = queue[i] /\ queue[i] \in Events
        /\ queue'[Len(queue) + 1] = e
    BY <2>1, Appended
  <2>4. 1..Len(queue') = 1..Len(queue) \cup {Len(queue) + 1}
    BY <2>3
  <2>5. /\ \A i \in 1..Len(queue') : stage'[queue'[i]] = "queued"
        /\ \A i, j \in 1..Len(queue') : queue'[i] = queue'[j] => i = j
    BY <2>1, <2>2, <2>3, <2>4 DEF Places, Types
  <2>6. \A x \in Events : stage'[x] = "queued" => \E i \in 1..Len(queue') : queue'[i] = x
    BY <2>1, <2>3, <2>4 DEF Places, Types
  <2>7. /\ \A x \in Events : stage'[x] \in InHand <=> held' = x
        /\ ~alive' => queue' = <<>> /\ held' = None
        /\ \A x \in Events : stage'[x] = "lost" => ~alive'
    BY <1>1, <2>1 DEF Places, Types, InHand
  <2> QED
    BY <2>5, <2>6, <2>7 DEF Places
<1>2. CASE ~(alive /\ Len(queue) < Capacity)
  BY <1>2 DEF TrySend, Places, Types, InHand
<1> QED
  BY <1>1, <1>2

LEMMA ReceivePlaces ==
  ASSUME Types, Places, Receive
  PROVE  Places'
<1>1. /\ alive /\ held = None /\ queue # <<>> /\ queue' = Tail(queue) /\ alive' = alive
      /\ held' = Head(queue) /\ stage' = [stage EXCEPT ![Head(queue)] = "held"]
  BY DEF Receive
<1>2. /\ Len(queue) \in Nat \ {0} /\ Len(queue') = Len(queue) - 1
      /\ Head(queue) = queue[1] /\ queue[1] \in Events
      /\ \A i \in 1..Len(queue') : queue'[i] = queue[i + 1] /\ queue'[i] \in Events
  BY <1>1, Received
<1>3. \A i \in 1..Len(queue') : i + 1 \in 1..Len(queue) /\ queue'[i] # queue[1]
  BY <1>2 DEF Places
<1>4. /\ \A i \in 1..Len(queue') : stage'[queue'[i]] = "queued"
      /\ \A i, j \in 1..Len(queue') : queue'[i] = queue'[j] => i = j
  BY <1>1, <1>2, <1>3 DEF Places, Types
<1>5. ASSUME NEW x \in Events, stage'[x] = "queued" PROVE \E i \in 1..Len(queue') : queue'[i] = x
  <2>1. x # queue[1] /\ stage[x] = "queued"
    BY <1>1, <1>2, <1>5 DEF Types
  <2>2. PICK i \in 1..Len(queue) : queue[i] = x
    BY <2>1 DEF Places
  <2>3. i - 1 \in 1..Len(queue') /\ queue'[i - 1] = x
    BY <1>2, <2>1, <2>2
  <2> QED
    BY <2>3
<1>6. /\ \A x \in Events : stage'[x] \in InHand <=> held' = x
      /\ \A x \in Events : stage'[x] = "lost" => ~alive'
  BY <1>1, <1>2, LogAssumption DEF Places, Types, InHand
<1> QED
  BY <1>1, <1>4, <1>5, <1>6 DEF Places

(* An event that is neither in the channel nor received moves on, or the   *)
(* received one does.                                                      *)
LEMMA ElsewherePlaces ==
  ASSUME Types, Places, NEW e \in Events, NEW s \in Stages, stage' = [stage EXCEPT ![e] = s],
         stage[e] # "queued", s \notin {"queued", "lost"}, queue' = queue, alive' = alive,
         \/ held' = held /\ (s \in InHand <=> stage[e] \in InHand)
         \/ held = e /\ held' = None /\ s \notin InHand
  PROVE  Places'
<1>1. \A i \in 1..Len(queue) : queue[i] # e /\ queue[i] \in Events
  BY DEF Places, Types
<1>2. \A x \in Events : stage'[x] = IF x = e THEN s ELSE stage[x]
  BY DEF Types
<1>3. \A x \in Events : stage'[x] \in InHand <=> held' = x
  BY <1>2, LogAssumption DEF Places
<1> QED
  BY <1>1, <1>2, <1>3 DEF Places

LEMMA PanicPlaces ==
  ASSUME Types, Places, WriterPanics
  PROVE  Places'
<1>1. \A x \in Events : stage'[x] \notin {"queued", "held"}
  BY DEF WriterPanics, At, InChannel
<1>2. \A x \in Events : stage'[x] \notin InHand
  BY <1>1, LogAssumption DEF WriterPanics, Places, InHand, At, InChannel
<1> QED
  BY <1>1, <1>2, LogAssumption DEF WriterPanics, Places

LEMMA PlacesStep == Types /\ Places /\ [Next]_vars => Places'
<1> SUFFICES ASSUME Types, Places, [Next]_vars PROVE Places'
  OBVIOUS
<1> USE DEF channelVars, storeVars, counters
<1>1. ASSUME NEW e \in Events, Emitting(e) PROVE Places'
  <2>1. CASE Observe(e)
    BY <2>1, ElsewherePlaces DEF Observe, Stages, InHand
  <2>2. CASE CountDropped(e)
    BY <2>2, ElsewherePlaces DEF CountDropped, Stages, InHand
  <2> QED
    BY <1>1, <2>1, <2>2, TrySendPlaces DEF Emitting
<1>2. CASE Insert
  <2>1. held \in Events
    BY <1>2 DEF Insert, Types
  <2> QED
    BY <1>2, <2>1, ElsewherePlaces DEF Insert, Stages, InHand
<1>3. CASE CountRow
  <2>1. held \in Events
    BY <1>3 DEF CountRow, Types
  <2> QED
    BY <1>3, <2>1, ElsewherePlaces DEF CountRow, Stages, InHand
<1>4. ASSUME UNCHANGED <<stage, channelVars>> PROVE Places'
  BY <1>4 DEF Places
<1>5. ASSUME NEW f \in Flushers,
             (\E kind \in Kinds : Begin(f, kind)) \/ Polling(f) \/ GiveUp(f) \/ Drop(f)
      PROVE  UNCHANGED <<stage, channelVars>>
  BY <1>5 DEF Begin, Polling, LoadWritten, LoadErrors, Drained, NotYet, Again, GiveUp, Return, Delete, Drop
<1> QED
  BY <1>1, <1>2, <1>3, <1>4, <1>5, ReceivePlaces, PanicPlaces DEF Next, Writing, vars

-----------------------------------------------------------------------------
(* Counts: every counter is a number of events.                            *)

LEMMA CountsInit == Init => Counts
<1> SUFFICES ASSUME Init PROVE Counts
  OBVIOUS
<1>1. At({"dropped"}) = {} /\ At({"written"}) = {} /\ At({"failed"}) = {} /\ Events \ At({"new"}) = {}
  BY DEF Init, At
<1> QED
  BY <1>1, FS_EmptySet DEF Init, Counts

(* A step that counts an event in one counter, or in none.                 *)
LEMMA CountsMove ==
  ASSUME Types, Counts, NEW e \in Events, NEW s \in Stages \ {"new"}, stage[e] # s,
         stage' = [stage EXCEPT ![e] = s],
         stage[e] \notin {"dropped", "written", "failed"},
         sent' = IF stage[e] = "new" THEN sent + 1 ELSE sent,
         dropped' = IF s = "dropped" THEN dropped + 1 ELSE dropped,
         written' = IF s = "written" THEN written + 1 ELSE written,
         write_errors' = IF s = "failed" THEN write_errors + 1 ELSE write_errors
  PROVE  Counts'
<1>1. /\ Cardinality(At({"dropped"})') = Cardinality(At({"dropped"})) + (IF s = "dropped" THEN 1 ELSE 0)
      /\ Cardinality(At({"written"})') = Cardinality(At({"written"})) + (IF s = "written" THEN 1 ELSE 0)
      /\ Cardinality(At({"failed"})') = Cardinality(At({"failed"})) + (IF s = "failed" THEN 1 ELSE 0)
  <2>1. ASSUME NEW c \in {"dropped", "written", "failed"}
        PROVE  Cardinality(At({c})') = Cardinality(At({c})) + (IF s \in {c} THEN 1 ELSE 0)
    BY <2>1, MoveCounts
  <2> QED
    BY <2>1
<1>2. (Events \ At({"new"}))' = (Events \ At({"new"})) \cup {e}
  BY DEF Types, At
<1>3. e \in Events \ At({"new"}) <=> stage[e] # "new"
  BY DEF At
<1>4. Cardinality((Events \ At({"new"}))')
        = Cardinality(Events \ At({"new"})) + (IF stage[e] = "new" THEN 1 ELSE 0)
  <2>1. IsFiniteSet(Events \ At({"new"})) /\ Cardinality(Events \ At({"new"})) \in Nat
    BY EventsFinite
  <2>2. Cardinality((Events \ At({"new"})) \cup {e})
          = IF e \in Events \ At({"new"}) THEN Cardinality(Events \ At({"new"}))
            ELSE Cardinality(Events \ At({"new"})) + 1
    BY <2>1, FS_AddElement
  <2> QED
    BY <1>2, <1>3, <2>1, <2>2
<1> QED
  BY <1>1, <1>4, CountersNat DEF Counts

LEMMA CountsStep == Types /\ Places /\ Counts /\ [Next]_vars => Counts'
<1> SUFFICES ASSUME Types, Places, Counts, [Next]_vars PROVE Counts'
  OBVIOUS
<1> USE DEF channelVars, storeVars, counters
<1>1. ASSUME NEW e \in Events, Emitting(e) PROVE Counts'
  <2>1. CASE Observe(e)
    BY <2>1, CountsMove DEF Observe, Stages
  <2>2. CASE TrySend(e)
    <3>1. PICK s \in {"queued", "refused"} : stage' = [stage EXCEPT ![e] = s]
      BY <2>2 DEF TrySend
    <3>2. stage[e] = "counted" /\ UNCHANGED counters
      BY <2>2 DEF TrySend
    <3> QED
      BY <3>1, <3>2, CountsMove DEF Stages
  <2>3. CASE CountDropped(e)
    BY <2>3, CountsMove DEF CountDropped, Stages
  <2> QED
    BY <1>1, <2>1, <2>2, <2>3 DEF Emitting
<1>2. CASE Receive
  <2>1. Head(queue) \in Events /\ stage[Head(queue)] = "queued"
    BY <1>2 DEF Receive, Types, Places
  <2>2. stage' = [stage EXCEPT ![Head(queue)] = "held"] /\ UNCHANGED counters
    BY <1>2 DEF Receive
  <2> QED
    BY <2>1, <2>2, CountsMove DEF Stages
<1>3. CASE Insert
  <2>1. held \in Events
    BY <1>3 DEF Insert, Types
  <2>2. PICK s \in {"stored", "spoiled"} : stage' = [stage EXCEPT ![held] = s]
    BY <1>3 DEF Insert
  <2>3. stage[held] = "held" /\ UNCHANGED counters
    BY <1>3 DEF Insert
  <2> QED
    BY <2>1, <2>2, <2>3, CountsMove DEF Stages
<1>4. CASE CountRow
  <2>1. held \in Events
    BY <1>4 DEF CountRow, Types
  <2>2. CASE stage[held] = "stored"
    BY <1>4, <2>1, <2>2, CountsMove DEF CountRow, Stages
  <2>3. CASE stage[held] = "spoiled"
    BY <1>4, <2>1, <2>3, CountsMove DEF CountRow, Stages
  <2> QED
    BY <1>4, <2>2, <2>3 DEF CountRow
<1>5. CASE WriterPanics
  <2>1. /\ At({"dropped"})' = At({"dropped"}) /\ At({"written"})' = At({"written"})
        /\ At({"failed"})' = At({"failed"}) /\ At({"new"})' = At({"new"})
    BY <1>5 DEF WriterPanics, At, InChannel
  <2> QED
    BY <1>5, <2>1 DEF WriterPanics, Counts
<1>6. ASSUME UNCHANGED <<stage, counters>> PROVE Counts'
  BY <1>6 DEF Counts, At
<1>7. ASSUME NEW f \in Flushers,
             (\E kind \in Kinds : Begin(f, kind)) \/ Polling(f) \/ GiveUp(f) \/ Drop(f)
      PROVE  UNCHANGED <<stage, counters>>
  BY <1>7 DEF Begin, Polling, LoadWritten, LoadErrors, Drained, NotYet, Again, GiveUp, Return, Delete, Drop
<1> QED
  BY <1>1, <1>2, <1>3, <1>4, <1>5, <1>6, <1>7 DEF Next, Writing, vars

-----------------------------------------------------------------------------
(* What a step does to the events and counters that a flush looks at.      *)

(* The steps of a call leave the events and the counters alone.            *)
LEMMA CallFrame ==
  ASSUME NEW f \in Flushers,
         (\E kind \in Kinds : Begin(f, kind)) \/ Polling(f) \/ GiveUp(f) \/ Drop(f)
  PROVE  UNCHANGED <<stage, channelVars, counters>>
  BY DEF Begin, Polling, LoadWritten, LoadErrors, Drained, NotYet, Again, GiveUp, Return, Delete, Drop,
     counters, channelVars

(* The steps of on_event and of the writer leave the calls alone.          *)
LEMMA EventFrame ==
  ASSUME (\E e \in Events : Emitting(e)) \/ Writing \/ WriterPanics
  PROVE  UNCHANGED <<flush, trimmed>>
  BY DEF Emitting, Observe, TrySend, CountDropped, Writing, Receive, Insert, CountRow, WriterPanics,
     storeVars

LEMMA Split ==
  ASSUME [Next]_vars
  PROVE  \/ (\E e \in Events : Emitting(e)) \/ Writing \/ WriterPanics
         \/ \E f \in Flushers :
              (\E kind \in Kinds : Begin(f, kind)) \/ Polling(f) \/ GiveUp(f) \/ Drop(f)
         \/ UNCHANGED vars
  BY DEF Next

LEMMA Forward ==
  ASSUME Types, Places, Counts, [Next]_vars
  PROVE  /\ At(Over) \subseteq At(Over)'
         /\ At({"new"})' \subseteq At({"new"})
         /\ written' >= written /\ write_errors' >= write_errors
<1> USE DEF At, Over
<1>0. written \in Nat /\ write_errors \in Nat
  BY CountersNat
<1>1. ASSUME NEW e \in Events, Emitting(e) 
      PROVE  /\ At(Over) \subseteq At(Over)'
             /\ At({"new"})' \subseteq At({"new"})
             /\ written' >= written /\ write_errors' >= write_errors
  BY <1>0, <1>1 DEF Emitting, Observe, TrySend, CountDropped, counters, Types
<1>2. CASE Writing
  <2>1. CASE Receive
    <3>1. Head(queue) \in Events /\ stage[Head(queue)] = "queued"
      BY <2>1 DEF Receive, Types, Places
    <3> QED
      BY <1>0, <2>1, <3>1 DEF Receive, counters, Types
  <2>2. CASE Insert
    BY <1>0, <2>2 DEF Insert, counters, Types
  <2>3. CASE CountRow
    BY <1>0, <2>3 DEF CountRow, counters, Types
  <2> QED
    BY <1>2, <2>1, <2>2, <2>3 DEF Writing
<1>3. CASE WriterPanics
  BY <1>0, <1>3 DEF WriterPanics, InChannel, counters, Types
<1>4. CASE UNCHANGED <<stage, counters>>
  BY <1>0, <1>4 DEF counters
<1> QED
  BY <1>1, <1>2, <1>3, <1>4, Split, CallFrame DEF vars

(* The channel keeps the order of events.                                  *)
LEMMA FirstInKept ==
  ASSUME Types, Places, [Next]_vars, NEW b, FirstIn(b)
  PROVE  FirstIn(b)'
<1> USE DEF InChannel, Taken, InHand, Over
<1>0. /\ b \subseteq Events
      /\ \A x \in b : stage[x] \in InChannel \cup Taken \cup {"lost"}
      /\ \A i, j \in 1..Len(queue) : i < j /\ queue[j] \in b => queue[i] \in b
      /\ \/ \A x \in b : stage[x] \in Over
         \/ \A x \in Events : stage[x] \in InHand \cup Over => x \in b
  BY DEF FirstIn, At
<1> SUFFICES /\ \A x \in b : stage'[x] \in InChannel \cup Taken \cup {"lost"}
             /\ \A i, j \in 1..Len(queue') : i < j /\ queue'[j] \in b => queue'[i] \in b
             /\ \/ \A x \in b : stage'[x] \in Over
                \/ \A x \in Events : stage'[x] \in InHand \cup Over => x \in b
  BY <1>0 DEF FirstIn, At
<1>1. ASSUME NEW e \in Events, Observe(e) \/ CountDropped(e)
      PROVE  /\ \A x \in b : stage'[x] = stage[x]
             /\ \A x \in Events : stage'[x] \in InHand \cup Over => stage[x] \in InHand \cup Over
             /\ queue' = queue
  BY <1>0, <1>1 DEF Observe, CountDropped, channelVars, Types
<1>2. ASSUME NEW e \in Events, TrySend(e)
      PROVE  /\ \A x \in b : stage'[x] = stage[x]
             /\ \A x \in Events : stage'[x] \in InHand \cup Over => stage[x] \in InHand \cup Over
             /\ \A i, j \in 1..Len(queue') : i < j /\ queue'[j] \in b => queue'[i] \in b
  <2>1. stage[e] = "counted" /\ e \notin b
    BY <1>0, <1>2 DEF TrySend
  <2>0. PICK s \in {"queued", "refused"} : \A x \in Events : stage'[x] = IF x = e THEN s ELSE stage[x]
    BY <1>2 DEF TrySend, Types
  <2>2. CASE queue' = queue
    BY <1>0, <2>0, <2>1, <2>2
  <2>3. CASE queue' = Append(queue, e)
    <3>1. /\ Len(queue) \in Nat /\ Len(queue') = Len(queue) + 1
          /\ \A i \in 1..Len(queue) : queue'[i] = queue[i] /\ queue[i] \in Events
          /\ queue'[Len(queue) + 1] = e
      BY <2>3, Appended
    <3>2. ASSUME NEW i \in 1..Len(queue'), NEW j \in 1..Len(queue'), i < j, queue'[j] \in b
          PROVE  queue'[i] \in b
      <4>1. j \in 1..Len(queue)
        BY <2>1, <3>1, <3>2
      <4>2. i \in 1..Len(queue)
        BY <3>1, <3>2, <4>1
      <4> QED
        BY <1>0, <3>1, <3>2, <4>1, <4>2
    <3> QED
      BY <1>0, <2>0, <2>1, <3>2
  <2> QED
    BY <1>2, <2>2, <2>3 DEF TrySend
<1>3. CASE Receive
  <2>1. /\ alive /\ held = None /\ queue # <<>> /\ queue' = Tail(queue)
        /\ stage' = [stage EXCEPT ![queue[1]] = "held"]
        /\ Len(queue) \in Nat \ {0} /\ Len(queue') = Len(queue) - 1 /\ queue[1] \in Events
        /\ \A i \in 1..Len(queue') : queue'[i] = queue[i + 1]
    BY <1>3, Received DEF Receive
  <2>2. \A i, j \in 1..Len(queue') : i < j /\ queue'[j] \in b => queue'[i] \in b
    <3>1. ASSUME NEW i \in 1..Len(queue'), NEW j \in 1..Len(queue'), i < j, queue'[j] \in b
          PROVE  queue'[i] \in b
      <4>1. i + 1 \in 1..Len(queue) /\ j + 1 \in 1..Len(queue) /\ i + 1 < j + 1
        BY <2>1, <3>1
      <4> QED
        BY <1>0, <2>1, <3>1, <4>1
    <3> QED
      BY <3>1
  <2>3. stage[queue[1]] = "queued"
    BY <2>1 DEF Places
  <2>4. ASSUME NEW y \in b, stage[y] \notin Over PROVE queue[1] \in b
    <3>1. stage[y] = "queued"
      BY <1>0, <2>1, <2>4, LogAssumption DEF Places
    <3>2. PICK j \in 1..Len(queue) : queue[j] = y
      BY <1>0, <3>1 DEF Places
    <3> QED
      BY <1>0, <2>1, <3>2
  <2>5. \A x \in Events : stage'[x] = IF x = queue[1] THEN "held" ELSE stage[x]
    BY <2>1 DEF Types
  <2>6. \/ \A x \in b : stage'[x] \in Over
        \/ \A x \in Events : stage'[x] \in InHand \cup Over => x \in b
    BY <1>0, <2>3, <2>4, <2>5
  <2> QED
    BY <1>0, <2>2, <2>5, <2>6
<1>4. CASE Insert
  BY <1>0, <1>4 DEF Insert, channelVars, Types
<1>5. CASE CountRow
  BY <1>0, <1>5 DEF CountRow, Types
<1>6. CASE WriterPanics
  BY <1>0, <1>6 DEF WriterPanics, At
<1>7. CASE UNCHANGED <<stage, queue>>
  BY <1>0, <1>7
<1> QED
  BY <1>0, <1>1, <1>2, <1>3, <1>4, <1>5, <1>6, <1>7, Split, CallFrame
     DEF Emitting, Writing, vars, channelVars

-----------------------------------------------------------------------------
(* What a call may conclude.                                               *)

LEMMA DisjointUnion ==
  ASSUME NEW S \in SUBSET Events, NEW T \in SUBSET Events, S \cap T = {}
  PROVE  Cardinality(S \cup T) = Cardinality(S) + Cardinality(T)
<1>1. IsFiniteSet(S) /\ IsFiniteSet(T) /\ Cardinality(S) \in Nat /\ Cardinality(T) \in Nat
  BY EventsFinite
<1>2. Cardinality(S \cup T) = Cardinality(S) + Cardinality(T) - Cardinality(S \cap T)
  BY <1>1, FS_Union
<1>3. Cardinality(S \cap T) = 0
  BY FS_EmptySet
<1> QED
  BY <1>1, <1>2, <1>3

(* What has been counted in the end.                                       *)
LEMMA DoneCounted ==
  ASSUME Counts
  PROVE  Cardinality(At(Over \cup {"dropped"})) = written + write_errors + dropped
<1> DEFINE W == At({"written"})  E == At({"failed"})  D == At({"dropped"})
<1>1. W \in SUBSET Events /\ E \in SUBSET Events /\ D \in SUBSET Events
  BY AtSubset
<1>2. W \cap E = {} /\ (W \cup E) \cap D = {} /\ At(Over \cup {"dropped"}) = (W \cup E) \cup D
  BY DEF At, Over
<1> HIDE DEF W, E, D
<1>3. Cardinality(W \cup E) = Cardinality(W) + Cardinality(E)
  BY <1>1, <1>2, DisjointUnion
<1>4. Cardinality((W \cup E) \cup D) = Cardinality(W \cup E) + Cardinality(D)
  BY <1>1, <1>2, DisjointUnion
<1> QED
  BY <1>2, <1>3, <1>4 DEF Counts, W, E, D

(* The numbers suffice although they were read one after the other: an     *)
(* event from before that is not over keeps those that are among the       *)
(* counted, and is itself missing from the sum.                            *)
LEMMA EnoughIsOver ==
  ASSUME Types, Counts, NEW f \in Flushers, FlushOf(f), flush[f].step = "dropped",
         flush[f].seen + dropped >= flush[f].target,
         At({"dropped"}) \subseteq flush[f].counted
  PROVE  flush[f].before \subseteq At(Over)
<1> SUFFICES ASSUME NEW e \in flush[f].before, e \notin At(Over) PROVE FALSE
  OBVIOUS
<1> DEFINE Counted == flush[f].counted
           Done == At(Over \cup {"dropped"})
<1>1. /\ flush[f].before \subseteq Counted
      /\ flush[f].target = Cardinality(Counted)
      /\ FirstIn(flush[f].before)
      /\ flush[f].seen <= written + write_errors
  BY DEF FlushOf, SeenOf
<1>2. flush[f] \in Calls /\ Counted \subseteq Events /\ flush[f].seen \in Nat
  BY DEF Types, Calls
<1>3. At(Over) \subseteq flush[f].before
  BY <1>1 DEF FirstIn, At
<1>4. e \notin At({"dropped"})
  BY <1>1 DEF FirstIn, At, InChannel, Taken
<1>5. Done = At(Over) \cup At({"dropped"})
  BY DEF At
<1>6. Done \subseteq Counted \ {e}
  BY <1>1, <1>3, <1>4, <1>5
<1>7. IsFiniteSet(Counted) /\ Cardinality(Counted) \in Nat /\ e \in Counted
  BY <1>1, <1>2, EventsFinite
<1>8. IsFiniteSet(Counted \ {e}) /\ Cardinality(Counted \ {e}) = Cardinality(Counted) - 1
  BY <1>7, FS_RemoveElement
<1>9. Cardinality(Done) <= Cardinality(Counted) - 1
  <2>1. Cardinality(Done) <= Cardinality(Counted \ {e})
    BY <1>6, <1>8, FS_Subset
  <2> QED
    BY <1>8, <2>1
<1> HIDE DEF Done, Counted
<1> QED
  BY <1>1, <1>2, <1>7, <1>9, DoneCounted, CountersNat DEF Done, Counted

(* A call that does not move keeps what it knows.                          *)
LEMMA FlushKept ==
  ASSUME Types, Places, Counts, [Next]_vars, NEW f \in Flushers, FlushOf(f), flush'[f] = flush[f]
  PROVE  FlushOf(f)'
<1> SUFFICES ASSUME flush[f].step # "idle" PROVE FlushOf(f)'
  BY DEF FlushOf
<1>1. /\ At(Over) \subseteq At(Over)' /\ At({"new"})' \subseteq At({"new"})
      /\ written' >= written /\ write_errors' >= write_errors
  BY Forward
<1>2. FirstIn(flush[f].before)
  BY DEF FlushOf
<1>3. PICK b : b = flush[f].before
  OBVIOUS
<1>4. FirstIn(b)'
  BY <1>2, <1>3, FirstInKept
<1>5. FirstIn(flush[f].before)'
  BY <1>3, <1>4
<1>6. SeenOf(f)'
  <2>1. flush[f].seen \in Nat /\ written \in Nat /\ write_errors \in Nat /\ written' \in Nat
        /\ write_errors' \in Nat
    <3>1. Counts'
      BY CountsStep
    <3> QED
      BY <3>1, CountersNat, EventsFinite, AtSubset DEF Types, Calls, Counts, At
  <2> QED
    BY <1>1, <2>1 DEF FlushOf, SeenOf
<1> QED
  BY <1>1, <1>5, <1>6 DEF FlushOf

LEMMA SnapshotKnows ==
  ASSUME Types, Places, Counts, NEW f \in Flushers, NEW kind \in Kinds, Snapshot(f, kind),
         UNCHANGED <<stage, queue>>
  PROVE  FlushOf(f)'
<1>1. flush'[f] = [step |-> "written", kind |-> kind, target |-> sent, seen |-> 0,
                   before |-> At(InChannel \cup Taken), counted |-> Events \ At({"new"}),
                   overtaken |-> FALSE]
  BY DEF Snapshot, Types
<1>2. PICK b : b = At(InChannel \cup Taken)
  OBVIOUS
<1>3. FirstIn(b)'
  <2>1. \A i \in 1..Len(queue) : queue[i] \in b
    BY <1>2 DEF Places, Types, At, InChannel
  <2> QED
    BY <1>2, <2>1 DEF FirstIn, At, InChannel, Taken, InHand, Over
<1>4. b \subseteq Events \ At({"new"})
  BY <1>2 DEF At, InChannel, Taken
<1>5. At({"new"})' = At({"new"})
  BY DEF At
<1>6. /\ flush'[f].before = b /\ flush'[f].counted = Events \ At({"new"})
      /\ flush'[f].target = Cardinality(Events \ At({"new"})) /\ flush'[f].step = "written"
  BY <1>1, <1>2 DEF Counts
<1>7. FirstIn(flush[f].before)'
  BY <1>3, <1>6
<1>8. SeenOf(f)'
  BY <1>6 DEF SeenOf
<1>9. flush'[f].counted \cap At({"new"})' = {}
  BY <1>5, <1>6
<1> QED
  BY <1>4, <1>6, <1>7, <1>8, <1>9 DEF FlushOf

LEMMA PollKnows ==
  ASSUME Types, Places, Counts, NEW f \in Flushers, FlushOf(f), Polling(f) \/ GiveUp(f),
         UNCHANGED <<stage, queue, counters>>
  PROVE  FlushOf(f)'
<1> USE DEF counters
<1>0. flush[f] \in Calls /\ written \in Nat /\ write_errors \in Nat /\ dropped \in Nat
  BY CountersNat DEF Types
<1>1. At({"new"})' = At({"new"}) /\ At(Over)' = At(Over)
  BY DEF At
<1>2. CASE Return(f) \/ Delete(f)
  BY <1>2 DEF Return, Delete, FlushOf, Idle, Types
<1>3. ASSUME NEW c, flush' = [flush EXCEPT ![f] = c], flush[f].step # "idle",
             c.before = flush[f].before, c.counted = flush[f].counted, c.target = flush[f].target,
             c.step = "errors" => c.seen <= written,
             c.step \in {"dropped", "late"} => c.seen <= written + write_errors,
             c.step = "drained" /\ ~c.overtaken => c.before \subseteq At(Over)
      PROVE  FlushOf(f)'
  <2>1. flush'[f] = c
    BY <1>3 DEF Types
  <2>2. PICK b : b = flush[f].before
    OBVIOUS
  <2>3. FirstIn(b)'
    BY <1>3, <2>2 DEF FlushOf, FirstIn, At
  <2> QED
    BY <1>1, <1>3, <2>1, <2>2, <2>3 DEF FlushOf, SeenOf
<1>4. CASE LoadWritten(f)
  <2> DEFINE c == [flush[f] EXCEPT !.step = "errors", !.seen = written]
  <2>1. flush' = [flush EXCEPT ![f] = c] /\ flush[f].step # "idle"
    BY <1>4 DEF LoadWritten, Types
  <2>2. /\ c.before = flush[f].before /\ c.counted = flush[f].counted /\ c.target = flush[f].target
        /\ c.step = "errors" /\ c.seen = written
    BY <1>0 DEF Calls
  <2>3. written <= written
    BY <1>0
  <2> HIDE DEF c
  <2> QED
    BY <1>3, <2>1, <2>2, <2>3
<1>5. CASE LoadErrors(f)
  <2> DEFINE c == [flush[f] EXCEPT !.step = "dropped", !.seen = @ + write_errors]
  <2>1. flush' = [flush EXCEPT ![f] = c] /\ flush[f].step = "errors"
    BY <1>5 DEF LoadErrors, Types
  <2>2. flush[f].seen + write_errors <= written + write_errors
    BY <1>0, <2>1 DEF FlushOf, SeenOf, Calls
  <2>3. /\ c.before = flush[f].before /\ c.counted = flush[f].counted /\ c.target = flush[f].target
        /\ c.step = "dropped" /\ c.seen = flush[f].seen + write_errors
    BY <1>0 DEF Calls
  <2> HIDE DEF c
  <2> QED
    BY <1>3, <2>1, <2>2, <2>3
<1>6. CASE Drained(f)
  <2> DEFINE c == [flush[f] EXCEPT !.step = "drained",
                                   !.overtaken = ~(At({"dropped"}) \subseteq flush[f].counted)]
  <2>1. flush' = [flush EXCEPT ![f] = c] /\ flush[f].step = "dropped"
        /\ flush[f].seen + dropped >= flush[f].target
    BY <1>6 DEF Drained, Types
  <2>2. At({"dropped"}) \subseteq flush[f].counted => flush[f].before \subseteq At(Over)
    BY <2>1, EnoughIsOver
  <2>3. /\ c.before = flush[f].before /\ c.counted = flush[f].counted /\ c.target = flush[f].target
        /\ c.step = "drained"
        /\ c.overtaken = ~(At({"dropped"}) \subseteq flush[f].counted)
    BY <1>0 DEF Calls
  <2> HIDE DEF c
  <2> QED
    BY <1>3, <2>1, <2>2, <2>3
<1>7. ASSUME NEW s \in {"late", "written", "gave_up"}, flush' = [flush EXCEPT ![f].step = s],
             flush[f].step \in {"dropped", "late"}
      PROVE  FlushOf(f)'
  <2> DEFINE c == [flush[f] EXCEPT !.step = s]
  <2>1. flush' = [flush EXCEPT ![f] = c] /\ flush[f].step # "idle"
    BY <1>7 DEF Types
  <2>2. flush[f].seen <= written + write_errors
    BY <1>7 DEF FlushOf, SeenOf
  <2> QED
    BY <1>0, <1>3, <1>7, <2>1, <2>2 DEF Calls
<1>8. CASE NotYet(f) \/ Again(f) \/ GiveUp(f)
  BY <1>7, <1>8 DEF NotYet, Again, GiveUp
<1> QED
  BY <1>2, <1>4, <1>5, <1>6, <1>8 DEF Polling

(* A call that is somebody else's.                                         *)
LEMMA Others ==
  ASSUME Types, [Next]_vars, NEW f \in Flushers
  PROVE  \/ flush'[f] = flush[f]
         \/ /\ Polling(f) \/ GiveUp(f)
            /\ UNCHANGED <<stage, queue, counters>>
         \/ /\ \E kind \in Kinds : Snapshot(f, kind)
            /\ UNCHANGED <<stage, queue, counters>>
<1>1. ASSUME NEW g \in Flushers, NEW kind \in Kinds, Begin(g, kind)
      PROVE  (g = f /\ Snapshot(f, kind)) \/ flush'[f] = flush[f]
  BY <1>1 DEF Begin, Snapshot, Types
<1>2. ASSUME NEW g \in Flushers, Drop(g)
      PROVE  (g = f /\ Snapshot(f, "drop")) \/ flush'[f] = flush[f]
  BY <1>2 DEF Drop, Snapshot, Types
<1>3. ASSUME NEW g \in Flushers, g # f, Polling(g) \/ GiveUp(g) PROVE flush'[f] = flush[f]
  BY <1>3 DEF Polling, LoadWritten, LoadErrors, Drained, NotYet, Again, GiveUp, Return, Delete, Types
<1>4. ASSUME NEW g \in Flushers,
             (\E kind \in Kinds : Begin(g, kind)) \/ Polling(g) \/ GiveUp(g) \/ Drop(g)
      PROVE  UNCHANGED <<stage, queue, counters>>
  BY <1>4, CallFrame DEF channelVars
<1>5. "drop" \in Kinds
  BY DEF Kinds
<1> QED
  BY <1>1, <1>2, <1>3, <1>4, <1>5, Split, EventFrame DEF vars

LEMMA FlushStep ==
  ASSUME Types, Places, Counts, [Next]_vars, NEW f \in Flushers, FlushOf(f)
  PROVE  FlushOf(f)'
<1>1. CASE flush'[f] = flush[f]
  BY <1>1, FlushKept
<1>2. CASE (Polling(f) \/ GiveUp(f)) /\ UNCHANGED <<stage, queue, counters>>
  BY <1>2, PollKnows
<1>3. ASSUME NEW kind \in Kinds, Snapshot(f, kind), UNCHANGED <<stage, queue, counters>>
      PROVE  FlushOf(f)'
  BY <1>3, SnapshotKnows
<1> QED
  BY <1>1, <1>2, <1>3, Others

-----------------------------------------------------------------------------
(* Trims: what a trim has promised to delete was in the table or had       *)
(* failed when the DELETE ran, so nothing can bring it back.               *)
LEMMA TrimsStep ==
  ASSUME Types, Places, Counts, \A f \in Flushers : FlushOf(f), Trims, [Next]_vars
  PROVE  Trims'
<1>1. At(Over) \subseteq At(Over)'
  BY Forward
<1>2. CASE Insert
  <2>1. held \in Events /\ stage[held] = "held" /\ rows' \subseteq rows \cup {held} /\ trimmed' = trimmed
    BY <1>2 DEF Insert, Types
  <2>2. held \notin trimmed
    BY <2>1 DEF Trims, At, Over
  <2> QED
    BY <1>1, <2>1, <2>2 DEF Trims
<1>3. ASSUME NEW f \in Flushers, Delete(f)
      PROVE  Trims'
  <2>1. CASE UNCHANGED <<rows, trimmed>>
    BY <1>1, <2>1 DEF Trims
  <2>2. CASE rows' = rows \ Old /\ trimmed' = trimmed \cup Promised(f)
    <3>1. Promised(f) \subseteq At(Over) \cap Old
      BY DEF Promised, FlushOf
    <3> QED
      BY <1>1, <2>2, <3>1 DEF Trims
  <2> QED
    BY <1>3, <2>1, <2>2 DEF Delete
<1>4. ASSUME rows' = rows, trimmed' = trimmed PROVE Trims'
  BY <1>1, <1>4 DEF Trims
<1>5. ASSUME NEW e \in Events, Emitting(e) PROVE UNCHANGED <<rows, trimmed>>
  BY <1>5 DEF Emitting, Observe, TrySend, CountDropped, storeVars
<1>6. ASSUME Receive \/ CountRow \/ WriterPanics PROVE UNCHANGED <<rows, trimmed>>
  BY <1>6 DEF Receive, CountRow, WriterPanics, storeVars
<1>7. ASSUME NEW f \in Flushers,
             \/ \E kind \in Kinds : Begin(f, kind)
             \/ LoadWritten(f) \/ LoadErrors(f) \/ Drained(f) \/ NotYet(f) \/ Again(f) \/ Return(f)
             \/ GiveUp(f) \/ Drop(f)
      PROVE  UNCHANGED <<rows, trimmed>>
  BY <1>7 DEF Begin, LoadWritten, LoadErrors, Drained, NotYet, Again, Return, GiveUp, Drop, storeVars
<1> QED
  BY <1>2, <1>3, <1>4, <1>5, <1>6, <1>7, Split DEF Writing, Polling, vars, storeVars

-----------------------------------------------------------------------------
(* The theorems.                                                           *)

LEMMA LogInit == Init => LogInv
<1> SUFFICES ASSUME Init PROVE LogInv
  OBVIOUS
<1>1. \A f \in Flushers : FlushOf(f)
  BY DEF Init, Idle, FlushOf
<1>2. Trims
  BY DEF Init, Trims
<1> QED
  BY <1>1, <1>2, TypesInit, PlacesInit, CountsInit DEF LogInv

LEMMA LogStep == LogInv /\ [Next]_vars => LogInv'
<1> SUFFICES ASSUME LogInv, [Next]_vars PROVE LogInv'
  OBVIOUS
<1>1. Types /\ Places /\ Counts /\ Trims /\ \A f \in Flushers : FlushOf(f)
  BY DEF LogInv
<1>2. Types' /\ Places' /\ Counts' /\ Trims'
  BY <1>1, TypesStep, PlacesStep, CountsStep, TrimsStep
<1>3. \A f \in Flushers : FlushOf(f)'
  BY <1>1, FlushStep
<1> QED
  BY <1>2, <1>3 DEF LogInv

(* Events, channel, writer and counters agree, and every call of flush     *)
(* knows what the numbers it has read mean.                                *)
THEOREM LogInvariant == Spec => []LogInv
  BY LogInit, LogStep, PTL DEF Spec

(* Every event that sent counts is in one place, and every counter counts  *)
(* what has come to its end there, for any number of events and calls.     *)
THEOREM LogTyped == Spec => []LogTypeOK
<1>1. ASSUME LogInv PROVE LogTypeOK
  <2>1. Types /\ Places /\ Counts
    BY <1>1 DEF LogInv
  <2>2. IsInjective(queue)
    BY <2>1 DEF Types, Places, IsInjective
  <2>3. At({"queued"}) = Range(queue)
    BY <2>1 DEF Types, Places, At, Range
  <2>4. At({"held", "stored", "spoiled"}) = {held} \ {None}
    BY <2>1, LogAssumption DEF Types, Places, At, InHand
  <2> QED
    BY <2>1, <2>2, <2>3, <2>4 DEF LogTypeOK, Types, Counts
<1> QED
  BY <1>1, LogInvariant, PTL

(* A flush that returned true has waited for everything that was in the    *)
(* channel when it began, unless a later event was dropped meanwhile.      *)
THEOREM FlushIsHonest == Spec => []FlushHonest
<1>1. LogInv => FlushHonest
  BY DEF LogInv, FlushOf, FlushHonest, At, Over, Taken
<1> QED
  BY <1>1, LogInvariant, PTL

(* No row from before the cutoff comes back after a trim that waited.      *)
THEOREM RetentionIsKept == Spec => []RetentionKept
<1>1. LogInv => RetentionKept
  BY DEF LogInv, Trims, RetentionKept
<1> QED
  BY <1>1, LogInvariant, PTL
=============================================================================
