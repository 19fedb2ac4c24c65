------------------------------- MODULE LogStore -------------------------------
(***************************************************************************)
(* The log store (state/log_store.rs).  Any thread that emits a tracing    *)
(* event runs SqliteLayer::on_event, which counts the event and tries to   *)
(* send it over a bounded channel; one writer thread inserts what it       *)
(* receives; flush, trim_older_than and drop wait until the counters say   *)
(* that the writer has caught up.  Nobody holds a lock: a step is one      *)
(* atomic operation, one operation on the channel or one statement.        *)
(*                                                                         *)
(* An event is one call of on_event.  Abstracted: what is in a record but  *)
(* whether its timestamp is before the cutoff of the trims.                *)
(***************************************************************************)
EXTENDS Naturals, Sequences, FiniteSets, Functions

CONSTANTS Events,     \* calls of on_event
          Old,        \* those with a timestamp before the cutoff
          Flushers,   \* threads that may be in flush, trim_older_than or drop
          Capacity,   \* of the channel
          None

ASSUME LogAssumption ==
  /\ IsFiniteSet(Events)
  /\ Old \subseteq Events
  /\ Capacity \in Nat \ {0}
  /\ None \notin Events

VARIABLES
  stage,                 \* how far each event has come
  queue,                 \* the channel
  held,                  \* the event the writer has received
  alive,                 \* the writer thread has not panicked
  rows,                  \* table log_event
  sent, dropped, written, write_errors,  \* the counters
  last_flush_timed_out,
  flush,                 \* per flusher: its call
  closed,                \* the LogStore is dropped; the layers live on
  trimmed                \* history: what trims have promised to delete

counters == <<sent, dropped, written, write_errors>>
channelVars == <<queue, held, alive>>
storeVars == <<rows, trimmed, closed, last_flush_timed_out>>
vars == <<stage, channelVars, counters, flush, storeVars>>

At(stages) == {e \in Events : stage[e] \in stages}

InChannel == {"queued", "held"}
Taken == {"stored", "spoiled", "written", "failed"}

Kinds == {"flush", "wait", "trim", "drop"}
Idle == [step |-> "idle", kind |-> None, target |-> 0, seen |-> 0,
         before |-> {}, counted |-> {}, overtaken |-> FALSE]

Init ==
  /\ stage = [e \in Events |-> "new"]
  /\ queue = <<>> /\ held = None /\ alive = TRUE
  /\ rows = {}
  /\ sent = 0 /\ dropped = 0 /\ written = 0 /\ write_errors = 0
  /\ last_flush_timed_out = FALSE
  /\ flush = [f \in Flushers |-> Idle]
  /\ closed = FALSE
  /\ trimmed = {}

-----------------------------------------------------------------------------
(* on_event.                                                               *)

(* sent.fetch_add comes before try_send.                                   *)
Observe(e) ==
  /\ stage[e] = "new"
  /\ sent' = sent + 1
  /\ stage' = [stage EXCEPT ![e] = "counted"]
  /\ UNCHANGED <<channelVars, dropped, written, write_errors, flush, storeVars>>

TrySend(e) ==
  /\ stage[e] = "counted"
  /\ IF alive /\ Len(queue) < Capacity
     THEN queue' = Append(queue, e) /\ stage' = [stage EXCEPT ![e] = "queued"]
     ELSE stage' = [stage EXCEPT ![e] = "refused"] /\ UNCHANGED queue
  /\ UNCHANGED <<held, alive, counters, flush, storeVars>>

(* Mutant: a refused event is taken out of sent, as an earlier revision    *)
(* did.                                                                    *)
CountDropped_TakesBack(e) ==
  /\ stage[e] = "refused"
  /\ sent' = sent - 1
  /\ stage' = [stage EXCEPT ![e] = "dropped"]
  /\ UNCHANGED <<channelVars, dropped, written, write_errors, flush, storeVars>>

(* Full or Disconnected.                                                   *)
CountDropped(e) ==
  /\ stage[e] = "refused"
  /\ dropped' = dropped + 1
  /\ stage' = [stage EXCEPT ![e] = "dropped"]
  /\ UNCHANGED <<channelVars, sent, written, write_errors, flush, storeVars>>

-----------------------------------------------------------------------------
(* writer_loop.                                                            *)

(* Mutant: the row counts as written when it is received.                  *)
Receive_Counts ==
  /\ alive /\ held = None /\ queue # <<>>
  /\ held' = Head(queue) /\ queue' = Tail(queue)
  /\ stage' = [stage EXCEPT ![Head(queue)] = "held"]
  /\ written' = written + 1
  /\ UNCHANGED <<alive, sent, dropped, write_errors, flush, storeVars>>

Receive ==
  /\ alive /\ held = None /\ queue # <<>>
  /\ held' = Head(queue) /\ queue' = Tail(queue)
  /\ stage' = [stage EXCEPT ![Head(queue)] = "held"]
  /\ UNCHANGED <<alive, counters, flush, storeVars>>

Insert ==
  /\ held # None /\ stage[held] = "held"
  /\ \/ rows' = rows \cup {held} /\ stage' = [stage EXCEPT ![held] = "stored"]
     \/ stage' = [stage EXCEPT ![held] = "spoiled"] /\ UNCHANGED rows
  /\ UNCHANGED <<channelVars, counters, flush, trimmed, closed, last_flush_timed_out>>

CountRow ==
  /\ held # None
  /\ \/ stage[held] = "stored" /\ written' = written + 1
        /\ stage' = [stage EXCEPT ![held] = "written"] /\ UNCHANGED write_errors
     \/ stage[held] = "spoiled" /\ write_errors' = write_errors + 1
        /\ stage' = [stage EXCEPT ![held] = "failed"] /\ UNCHANGED written
  /\ held' = None
  /\ UNCHANGED <<queue, alive, sent, dropped, flush, storeVars>>

(* The mutex of the connection was poisoned: the thread is gone, and the   *)
(* channel with what it held.                                              *)
WriterPanics ==
  /\ held # None /\ stage[held] = "held"
  /\ alive' = FALSE /\ queue' = <<>> /\ held' = None
  /\ stage' = [e \in Events |-> IF e \in At(InChannel) THEN "lost" ELSE stage[e]]
  /\ UNCHANGED <<counters, flush, storeVars>>

-----------------------------------------------------------------------------
(* flush.                                                                  *)

(* The snapshot of sent.  What was in the channel or through it then, and  *)
(* what was counted, is history.                                           *)
Snapshot(f, kind) ==
  flush' = [flush EXCEPT ![f] =
              [step |-> "written", kind |-> kind, target |-> sent, seen |-> 0,
               before |-> At(InChannel \cup Taken), counted |-> Events \ At({"new"}),
               overtaken |-> FALSE]]

Begin(f, kind) ==
  /\ flush[f].step = "idle" /\ ~closed
  /\ Snapshot(f, kind)
  /\ UNCHANGED <<stage, channelVars, counters, storeVars>>

(* The three loads of one pass of the loop.                                *)
LoadWritten(f) ==
  /\ flush[f].step = "written"
  /\ flush' = [flush EXCEPT ![f].step = "errors", ![f].seen = written]
  /\ UNCHANGED <<stage, channelVars, counters, storeVars>>

LoadErrors(f) ==
  /\ flush[f].step = "errors"
  /\ flush' = [flush EXCEPT ![f].step = "dropped", ![f].seen = @ + write_errors]
  /\ UNCHANGED <<stage, channelVars, counters, storeVars>>

(* Enough: flush returns true.  History: whether an event that came after  *)
(* the snapshot was among the dropped ones.                                *)
Drained(f) ==
  /\ flush[f].step = "dropped"
  /\ flush[f].seen + dropped >= flush[f].target
  /\ last_flush_timed_out' = FALSE
  /\ flush' = [flush EXCEPT ![f].step = "drained",
                            ![f].overtaken = ~(At({"dropped"}) \subseteq flush[f].counted)]
  /\ UNCHANGED <<stage, channelVars, counters, rows, trimmed, closed>>

NotYet(f) ==
  /\ flush[f].step = "dropped"
  /\ flush[f].seen + dropped < flush[f].target
  /\ flush' = [flush EXCEPT ![f].step = "late"]
  /\ UNCHANGED <<stage, channelVars, counters, storeVars>>

(* The deadline has passed: flush returns false.  wait_drained_for_test    *)
(* has none.                                                               *)
GiveUp(f) ==
  /\ flush[f].step = "late" /\ flush[f].kind # "wait"
  /\ last_flush_timed_out' = TRUE
  /\ flush' = [flush EXCEPT ![f].step = "gave_up"]
  /\ UNCHANGED <<stage, channelVars, counters, rows, trimmed, closed>>

Again(f) ==
  /\ flush[f].step = "late"
  /\ flush' = [flush EXCEPT ![f].step = "written"]
  /\ UNCHANGED <<stage, channelVars, counters, storeVars>>

Return(f) ==
  /\ flush[f].step \in {"drained", "gave_up"} /\ flush[f].kind # "trim"
  /\ flush' = [flush EXCEPT ![f] = Idle]
  /\ UNCHANGED <<stage, channelVars, counters, storeVars>>

-----------------------------------------------------------------------------
(* trim_older_than and drop.                                               *)

(* What a trim that flushed undisturbed has promised.                      *)
Promised(f) ==
  IF flush[f].step = "drained" /\ ~flush[f].overtaken THEN flush[f].before \cap Old ELSE {}

(* Mutant: the rows before the cutoff are the ones that stay.              *)
Delete_Newer(f) ==
  /\ flush[f].step \in {"drained", "gave_up"} /\ flush[f].kind = "trim"
  /\ \/ rows' = rows \cap Old /\ trimmed' = trimmed \cup Promised(f)
     \/ UNCHANGED <<rows, trimmed>>
  /\ flush' = [flush EXCEPT ![f] = Idle]
  /\ UNCHANGED <<stage, channelVars, counters, closed, last_flush_timed_out>>

(* The DELETE follows whatever flush returned, and may fail.               *)
Delete(f) ==
  /\ flush[f].step \in {"drained", "gave_up"} /\ flush[f].kind = "trim"
  /\ \/ rows' = rows \ Old /\ trimmed' = trimmed \cup Promised(f)
     \/ UNCHANGED <<rows, trimmed>>
  /\ flush' = [flush EXCEPT ![f] = Idle]
  /\ UNCHANGED <<stage, channelVars, counters, closed, last_flush_timed_out>>

(* The last Arc goes, so no call is under way; a flush that gave up is not *)
(* repeated.                                                               *)
Drop(f) ==
  /\ ~closed /\ \A g \in Flushers : flush[g].step = "idle"
  /\ closed' = TRUE
  /\ IF last_flush_timed_out THEN UNCHANGED flush ELSE Snapshot(f, "drop")
  /\ UNCHANGED <<stage, channelVars, counters, rows, trimmed, last_flush_timed_out>>

-----------------------------------------------------------------------------
Emitting(e) == Observe(e) \/ TrySend(e) \/ CountDropped(e)
Writing == Receive \/ Insert \/ CountRow
Polling(f) ==
  LoadWritten(f) \/ LoadErrors(f) \/ Drained(f) \/ NotYet(f) \/ Again(f) \/ Return(f) \/ Delete(f)

Next ==
  \/ \E e \in Events : Emitting(e)
  \/ Writing \/ WriterPanics
  \/ \E f \in Flushers : \/ \E kind \in Kinds \ {"drop"} : Begin(f, kind)
                         \/ Polling(f) \/ GiveUp(f) \/ Drop(f)

Spec == Init /\ [][Next]_vars

(* A thread in on_event goes on, and so do the writer and a flusher; a     *)
(* budget runs out.                                                        *)
Fairness ==
  /\ \A e \in Events : WF_vars(TrySend(e)) /\ WF_vars(CountDropped(e))
  /\ WF_vars(Writing)
  /\ \A f \in Flushers : WF_vars(Polling(f)) /\ SF_vars(GiveUp(f))

FairSpec == Spec /\ Fairness

-----------------------------------------------------------------------------
(* Properties.                                                             *)

(* The state is well formed, and every event that was counted in sent is   *)
(* in one place: counted in one of the other three, or on its way.         *)
LogTypeOK ==
  /\ queue \in Seq(Events) /\ Len(queue) <= Capacity /\ IsInjective(queue)
  /\ At({"queued"}) = Range(queue)
  /\ At({"held", "stored", "spoiled"}) = {held} \ {None}
  /\ sent = Cardinality(Events \ At({"new"}))
  /\ dropped = Cardinality(At({"dropped"}))
  /\ written = Cardinality(At({"written"}))
  /\ write_errors = Cardinality(At({"failed"}))
  /\ rows \subseteq At({"stored", "written"})

(* When flush has returned true, every event that was in the channel when  *)
(* it began has been inserted, or has failed to be: although the target is *)
(* a number and the three counters are read one after the other, while     *)
(* others send and drop.  Unless an event that came after the snapshot was *)
(* dropped meanwhile and counted in its place.                             *)
FlushHonest ==
  \A f \in Flushers :
    flush[f].step = "drained" /\ ~flush[f].overtaken => flush[f].before \subseteq At(Taken)

(* What flush says of itself, without the exception.  Violated.            *)
FlushDrains ==
  \A f \in Flushers : flush[f].step = "drained" => flush[f].before \subseteq At(Taken)

(* After a trim, no row from before the cutoff comes back out of the       *)
(* channel: what its flush has waited for is gone for good.                *)
RetentionKept == trimmed \cap rows = {}

(* Every flush returns: with a budget in any case, without one unless the  *)
(* writer is gone, because what sent counts is counted again in the end.   *)
FlushReturns ==
  \A f \in Flushers :
    flush[f].step # "idle" ~> flush[f].step = "idle" \/ (flush[f].kind = "wait" /\ ~alive)
=============================================================================
