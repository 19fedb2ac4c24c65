--------------------------- MODULE InstanceRegistry ---------------------------
(***************************************************************************)
(* Which supervised instances run (runtime/registry.rs), how they come and *)
(* go (start_instance_with_tuning in runtime.rs with its reaper), and the  *)
(* two halves of a shutdown, stop_all_supervised_instances and the drain   *)
(* of the reapers.                                                         *)
(*                                                                         *)
(* The n-th supervisor spawned is n, which is also its reaper's generation *)
(* (reaper_gen).  Of a supervisor there is left what others see of it:     *)
(* it runs, it has acknowledged a stop, it has published a terminal state  *)
(* (module Supervisor); and the devices and services that its guest has    *)
(* registered under its instance id.                                       *)
(*                                                                         *)
(* Abstracted: the manifest is the plugin id and singleton flag that the   *)
(* caller presents; a duration that runs out is a step that may happen.    *)
(***************************************************************************)
EXTENDS Naturals

CONSTANTS Ids, Plugins,
          Starters,     \* callers of start_instance
          Declared,     \* per plugin, the flag of its installed row, or None
          MaxSpawned,   \* bound: supervisors spawned
          MaxStops,     \* bound: calls of stop_all_supervised_instances
          None

Gens == 1..MaxSpawned
Nobody == 0
Stores == {"devices", "services"}

ASSUME RegistryAssumption ==
  /\ MaxSpawned \in Nat
  /\ MaxStops \in Nat
  /\ None \notin Ids \cup Plugins \cup BOOLEAN
  /\ Declared \in [Plugins -> BOOLEAN \cup {None}]

VARIABLES
  instances,     \* RegistryInner::instances
  singletons,    \* RegistryInner::singletons: plugin to instance id
  closed,        \* RegistryInner::shutting_down
  shutting_down, \* Engine::shutting_down
  reapers,       \* Engine::reapers: per instance id the tracked generation
  start,         \* per caller: idle, or reading the manifest
  spawned,       \* supervisors spawned so far
  handle,        \* per supervisor, what it was started as
  sup,           \* per supervisor: none, running, acked, terminal
  reaper,        \* per supervisor, where its reaper is
  owned,         \* per store and id, the supervisor whose guest registered there
  ctl,           \* the caller of stop_all and drain
  stopping,      \* supervisors whose stop it awaits
  timed_out,     \* StopAllReport::timed_out
  awaited,       \* reapers whose join handles the drain has taken
  stops,         \* calls of stop_all so far
  detached       \* history: a bounded drain gave up on a reaper

registryVars == <<instances, singletons, closed>>
supVars == <<spawned, handle, sup, owned>>
ctlVars == <<shutting_down, ctl, stopping, timed_out, awaited, stops, detached>>
vars == <<registryVars, reapers, start, supVars, reaper, ctlVars>>

Handle == [id : Ids, plugin : Plugins, singleton : BOOLEAN]
Alive(g) == sup[g] \in {"running", "acked"}

Init ==
  /\ instances = [i \in Ids |-> Nobody]
  /\ singletons = [p \in Plugins |-> None]
  /\ closed = FALSE /\ shutting_down = FALSE
  /\ reapers = [i \in Ids |-> Nobody]
  /\ start = [s \in Starters |-> "idle"]
  /\ spawned = 0
  /\ handle = [g \in Gens |-> None]
  /\ sup = [g \in Gens |-> "none"]
  /\ reaper = [g \in Gens |-> "none"]
  /\ owned = [st \in Stores |-> [i \in Ids |-> Nobody]]
  /\ ctl = "idle"
  /\ stopping = {} /\ timed_out = {} /\ awaited = {}
  /\ stops = 0
  /\ detached = FALSE

-----------------------------------------------------------------------------
(* A start.                                                                *)

(* The fast path; then the manifest is read, with an await.                *)
Begin(s) ==
  /\ start[s] = "idle"
  /\ ~shutting_down
  /\ start' = [start EXCEPT ![s] = "reading"]
  /\ UNCHANGED <<registryVars, reapers, supVars, reaper, ctlVars>>

(* The flag of the installed row decides, whatever the caller presents.    *)
Flag(p, presented) == IF Declared[p] = None THEN presented ELSE Declared[p]

Registered(p) == {i \in Ids : instances[i] # Nobody /\ handle[instances[i]].plugin = p}

(* Mutant: only the table of slots is consulted.                           *)
Refused_SlotOnly(i, p, singleton) ==
  closed \/ instances[i] # Nobody \/ singletons[p] # None

(* Mutant: the flag under the registry's lock is not looked at.            *)
Refused_NotClosed(i, p, singleton) ==
  \/ instances[i] # Nobody
  \/ IF singleton THEN Registered(p) # {} ELSE singletons[p] # None

(* A singleton finds no instance of its plugin, and nobody joins one.      *)
Refused(i, p, singleton) ==
  \/ closed
  \/ instances[i] # Nobody
  \/ IF singleton THEN Registered(p) # {} ELSE singletons[p] # None

(* register: check, spawn of supervisor and reaper and both insertions are *)
(* one section of the registry's lock.                                     *)
Register(s, i, p, presented) ==
  LET g == spawned + 1
      singleton == Flag(p, presented)
  IN
  /\ start[s] = "reading"
  /\ ~Refused(i, p, singleton)
  /\ spawned < MaxSpawned
  /\ spawned' = g
  /\ handle' = [handle EXCEPT ![g] = [id |-> i, plugin |-> p, singleton |-> singleton]]
  /\ sup' = [sup EXCEPT ![g] = "running"]
  /\ reaper' = [reaper EXCEPT ![g] = "waiting"]
  /\ reapers' = [reapers EXCEPT ![i] = g]
  /\ instances' = [instances EXCEPT ![i] = g]
  /\ singletons' = IF singleton THEN [singletons EXCEPT ![p] = i] ELSE singletons
  /\ start' = [start EXCEPT ![s] = "idle"]
  /\ UNCHANGED <<closed, owned, ctlVars>>

(* The manifest cannot be read, or the registry refuses.                   *)
Fails(s) ==
  /\ start[s] = "reading"
  /\ start' = [start EXCEPT ![s] = "idle"]
  /\ UNCHANGED <<registryVars, reapers, supVars, reaper, ctlVars>>

-----------------------------------------------------------------------------
(* A supervisor, from outside.                                             *)

(* The top of every load attempt: remove_by_owner in both stores.          *)
BeginLife(g) ==
  /\ sup[g] = "running"
  /\ owned' = [st \in Stores |-> [owned[st] EXCEPT ![handle[g].id] = Nobody]]
  /\ UNCHANGED <<registryVars, reapers, start, spawned, handle, sup, reaper, ctlVars>>

(* The guest registers a device or a service.                              *)
Own(g, st) ==
  /\ sup[g] = "running"
  /\ owned' = [owned EXCEPT ![st][handle[g].id] = g]
  /\ UNCHANGED <<registryVars, reapers, start, spawned, handle, sup, reaper, ctlVars>>

(* stop() of anybody returns: the guest's shutdown is over.                *)
Acknowledge(g) ==
  /\ sup[g] = "running"
  /\ sup' = [sup EXCEPT ![g] = "acked"]
  /\ UNCHANGED <<registryVars, reapers, start, spawned, handle, owned, reaper, ctlVars>>

(* Stopped or Failed is published.                                         *)
Publish(g) ==
  /\ sup[g] = "acked"
  /\ sup' = [sup EXCEPT ![g] = "terminal"]
  /\ UNCHANGED <<registryVars, reapers, start, spawned, handle, owned, reaper, ctlVars>>

(* The last crash has no stop to acknowledge.                              *)
GiveUp(g) ==
  /\ sup[g] = "running"
  /\ sup' = [sup EXCEPT ![g] = "terminal"]
  /\ UNCHANGED <<registryVars, reapers, start, spawned, handle, owned, reaper, ctlVars>>

-----------------------------------------------------------------------------
(* The reaper.                                                             *)

Moves(g, from, to) ==
  /\ reaper[g] = from
  /\ reaper' = [reaper EXCEPT ![g] = to]

(* Mutant: the registry lets go of the instance before the sweeps.         *)
Reap_Unregistered(g) ==
  /\ Moves(g, "waiting", "services")
  /\ sup[g] = "terminal"
  /\ owned' = [owned EXCEPT !["devices"][handle[g].id] = Nobody]
  /\ instances' = [instances EXCEPT ![handle[g].id] = Nobody]
  /\ UNCHANGED <<singletons, closed, reapers, start, spawned, handle, sup, ctlVars>>

(* wait_terminal returns; devices().remove_by_owner.                       *)
Reap(g) ==
  /\ Moves(g, "waiting", "services")
  /\ sup[g] = "terminal"
  /\ owned' = [owned EXCEPT !["devices"][handle[g].id] = Nobody]
  /\ UNCHANGED <<registryVars, reapers, start, spawned, handle, sup, ctlVars>>

(* services().remove_by_owner, then mark_instance_stale (DeviceState).     *)
ReapServices(g) ==
  /\ Moves(g, "services", "unregister")
  /\ owned' = [owned EXCEPT !["services"][handle[g].id] = Nobody]
  /\ UNCHANGED <<registryVars, reapers, start, spawned, handle, sup, ctlVars>>

(* Mutant: the slot stays taken.                                           *)
FreedSlots_Kept(g) == singletons

(* The slot is freed only if it names this instance.                       *)
FreedSlots(g) ==
  [singletons EXCEPT ![handle[g].plugin] = IF @ = handle[g].id THEN None ELSE @]

Unregister(g) ==
  /\ Moves(g, "unregister", "untrack")
  /\ instances' = [instances EXCEPT ![handle[g].id] = Nobody]
  /\ singletons' = FreedSlots(g)
  /\ UNCHANGED <<closed, reapers, start, supVars, ctlVars>>

(* Mutant: the entry goes by its key alone.                                *)
Untracked_ByKey(g) == [reapers EXCEPT ![handle[g].id] = Nobody]

(* Only an entry of the same generation is removed.                        *)
Untracked(g) ==
  [reapers EXCEPT ![handle[g].id] = IF @ = g THEN Nobody ELSE @]

Untrack(g) ==
  /\ Moves(g, "untrack", "done")
  /\ reapers' = Untracked(g)
  /\ UNCHANGED <<registryVars, start, supVars, ctlVars>>

-----------------------------------------------------------------------------
(* Shutdown.                                                               *)

(* stop_all_supervised_instances: the fast flag ...                        *)
BeginStop ==
  /\ ctl \in {"idle", "drained"}
  /\ stops < MaxStops
  /\ stops' = stops + 1
  /\ shutting_down' = TRUE
  /\ ctl' = "close"
  /\ UNCHANGED <<registryVars, reapers, start, supVars, reaper, stopping, timed_out,
                 awaited, detached>>

(* ... begin_shutdown, under the registry's lock ...                       *)
Close ==
  /\ ctl = "close"
  /\ closed' = TRUE
  /\ ctl' = "list"
  /\ UNCHANGED <<instances, singletons, reapers, start, supVars, reaper, shutting_down,
                 stopping, timed_out, awaited, stops, detached>>

(* ... and the snapshot; every stop is sent in parallel.                   *)
List ==
  /\ ctl = "list"
  /\ stopping' = {instances[i] : i \in Ids} \ {Nobody}
  /\ timed_out' = {}
  /\ ctl' = "stopping"
  /\ UNCHANGED <<registryVars, reapers, start, supVars, reaper, shutting_down, awaited,
                 stops, detached>>

(* stop() returns when it is acknowledged, or when the supervisor is gone. *)
StopReturns(g) ==
  /\ ctl = "stopping" /\ g \in stopping
  /\ sup[g] # "running"
  /\ stopping' = stopping \ {g}
  /\ UNCHANGED <<registryVars, reapers, start, supVars, reaper, shutting_down, ctl,
                 timed_out, awaited, stops, detached>>

StopTimesOut(g) ==
  /\ ctl = "stopping" /\ g \in stopping
  /\ stopping' = stopping \ {g}
  /\ timed_out' = timed_out \cup {g}
  /\ UNCHANGED <<registryVars, reapers, start, supVars, reaper, shutting_down, ctl,
                 awaited, stops, detached>>

Report ==
  /\ ctl = "stopping" /\ stopping = {}
  /\ ctl' = "reported"
  /\ UNCHANGED <<registryVars, reapers, start, supVars, reaper, shutting_down, stopping,
                 timed_out, awaited, stops, detached>>

AllStopped == timed_out = {}

(* take_reaper_handles.  drain_supervised_instances is for a caller whose  *)
(* report says all_stopped; the daemon always takes the bounded variant.   *)
Drain(mode) ==
  /\ ctl = "reported"
  /\ mode = "unbounded" => AllStopped
  /\ awaited' = {reapers[i] : i \in Ids} \ {Nobody}
  /\ reapers' = [i \in Ids |-> Nobody]
  /\ ctl' = mode
  /\ UNCHANGED <<registryVars, start, supVars, reaper, shutting_down, stopping, timed_out,
                 stops, detached>>

Joined == \A g \in awaited : reaper[g] = "done"

DrainReturns ==
  /\ ctl \in {"unbounded", "bounded"}
  /\ Joined
  /\ ctl' = "drained"
  /\ UNCHANGED <<registryVars, reapers, start, supVars, reaper, shutting_down, stopping,
                 timed_out, awaited, stops, detached>>

(* The deadline: the reapers that are left run on, nobody awaits them.     *)
DrainGivesUp ==
  /\ ctl = "bounded"
  /\ ~Joined
  /\ detached' = TRUE
  /\ ctl' = "drained"
  /\ UNCHANGED <<registryVars, reapers, start, supVars, reaper, shutting_down, stopping,
                 timed_out, awaited, stops>>

-----------------------------------------------------------------------------
Starting(s) ==
  \/ Begin(s)
  \/ \E i \in Ids, p \in Plugins, presented \in BOOLEAN : Register(s, i, p, presented)
  \/ Fails(s)
Supervising(g) ==
  \/ BeginLife(g) \/ (\E st \in Stores : Own(g, st))
  \/ Acknowledge(g) \/ Publish(g) \/ GiveUp(g)
Reaping(g) == Reap(g) \/ ReapServices(g) \/ Unregister(g) \/ Untrack(g)
Stopping == BeginStop \/ Close \/ List \/ Report
            \/ \E g \in Gens : StopReturns(g) \/ StopTimesOut(g)
Draining == (\E mode \in {"unbounded", "bounded"} : Drain(mode))
            \/ DrainReturns \/ DrainGivesUp

Next ==
  \/ \E s \in Starters : Starting(s)
  \/ \E g \in Gens : Supervising(g) \/ Reaping(g)
  \/ Stopping \/ Draining

Spec == Init /\ [][Next]_vars

(* A supervisor that has acknowledged a stop has only non-blocking steps   *)
(* left, and so has a reaper whose supervisor is terminal; the drain's     *)
(* await returns when its reapers have.  A running supervisor owes nothing.*)
Fairness ==
  /\ \A g \in Gens : WF_vars(Publish(g)) /\ WF_vars(Reaping(g))
  /\ WF_vars(DrainReturns)
FairSpec == Spec /\ Fairness

-----------------------------------------------------------------------------
(* Properties.                                                             *)

(* The state is well formed, and a singleton slot is held by a registered  *)
(* singleton of its plugin: one that outlived its instance would bar the   *)
(* plugin for good.                                                        *)
RegistryTypeOK ==
  /\ instances \in [Ids -> Gens \cup {Nobody}]
  /\ singletons \in [Plugins -> Ids \cup {None}]
  /\ reapers \in [Ids -> Gens \cup {Nobody}]
  /\ spawned \in 0..MaxSpawned
  /\ handle \in [Gens -> Handle \cup {None}]
  /\ sup \in [Gens -> {"none", "running", "acked", "terminal"}]
  /\ reaper \in
       [Gens -> {"none", "waiting", "services", "unregister", "untrack", "done"}]
  /\ owned \in [Stores -> [Ids -> Gens \cup {Nobody}]]
  /\ start \in [Starters -> {"idle", "reading"}]
  /\ ctl \in {"idle", "close", "list", "stopping", "reported", "unbounded", "bounded",
              "drained"}
  /\ stopping \cup timed_out \cup awaited \subseteq Gens
  /\ \A i \in Ids : instances[i] # Nobody => handle[instances[i]] \in Handle
  /\ \A p \in Plugins :
       singletons[p] # None =>
         LET g == instances[singletons[p]] IN
         g # Nobody /\ handle[g].plugin = p /\ handle[g].singleton

(* Never two supervisors under one instance id, nor a second one of a      *)
(* plugin one of whose instances is a singleton: whatever flags the        *)
(* callers present, and until the terminal state is published, not only    *)
(* until the stop.                                                         *)
Exclusive ==
  \A g, h \in Gens : g # h /\ Alive(g) /\ Alive(h) =>
    /\ handle[g].id # handle[h].id
    /\ handle[g].plugin = handle[h].plugin => ~handle[g].singleton

(* What a running instance has registered is removed by its own next life  *)
(* only: the reaper of an earlier instance of the same id is done with its *)
(* sweeps when the id is free again.                                       *)
OwnEntriesKept ==
  [][\A st \in Stores, i \in Ids :
       LET g == owned[st][i] IN
       g # Nobody /\ owned'[st][i] # g => BeginLife(g) \/ ~Alive(g)]_vars

(* all_stopped means that nothing runs any more, a start that was reading  *)
(* its manifest when the shutdown began included; when the unbounded drain *)
(* has returned after it, every reaper has swept and unregistered, unless  *)
(* an earlier bounded drain detached one.                                  *)
NothingLeftBehind ==
  /\ ctl \in {"reported", "unbounded", "bounded"} /\ AllStopped =>
       \A g \in Gens : sup[g] # "running"
  /\ ctl = "drained" /\ AllStopped /\ ~detached =>
       /\ \A i \in Ids : instances[i] = Nobody /\ \A st \in Stores : owned[st][i] = Nobody
       /\ \A g \in Gens : reaper[g] \in {"none", "untrack", "done"}

(* The unbounded drain of a caller that was told all_stopped returns, the  *)
(* advice of drain_supervised_instances_with_timeout.                      *)
DrainEnds == (ctl = "unbounded") ~> (ctl = "drained")
=============================================================================
