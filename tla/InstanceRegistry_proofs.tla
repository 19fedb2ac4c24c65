------------------------ MODULE InstanceRegistry_proofs ------------------------
(***************************************************************************)
(* The registry keeps instances apart and a shutdown cleans up, for any    *)
(* number of ids, plugins and callers.  The invariant says that an         *)
(* instance is registered from its spawn until its reaper has swept, that  *)
(* the slots are those of the registered singletons, and who has the join  *)
(* handle of a reaper.                                                     *)
(***************************************************************************)
EXTENDS InstanceRegistry, TLAPS

Holding == {"waiting", "services", "unregister"}

(* A supervisor that was spawned has a reaper, and the reaper waits while  *)
(* it is alive.                                                            *)
Spawned ==
  \A g \in Gens :
    /\ g <= spawned => handle[g] \in Handle /\ sup[g] # "none" /\ reaper[g] # "none"
    /\ g > spawned => sup[g] = "none" /\ reaper[g] = "none"
    /\ Alive(g) => reaper[g] = "waiting"

(* An instance is registered until its reaper unregisters it.              *)
Present ==
  /\ \A i \in Ids : instances[i] # Nobody =>
       /\ instances[i] <= spawned
       /\ handle[instances[i]].id = i
       /\ reaper[instances[i]] \in Holding
  /\ \A g \in Gens : reaper[g] \in Holding => instances[handle[g].id] = g

(* The slots are those of the registered singletons, which are alone.      *)
Slots ==
  /\ \A p \in Plugins : singletons[p] # None =>
       LET g == instances[singletons[p]] IN
       g # Nobody /\ handle[g].plugin = p /\ handle[g].singleton
  /\ \A i \in Ids : instances[i] # Nobody /\ handle[instances[i]].singleton =>
       /\ singletons[handle[instances[i]].plugin] = i
       /\ \A j \in Ids : j # i /\ instances[j] # Nobody =>
            handle[instances[j]].plugin # handle[instances[i]].plugin

(* Entries belong to the registered instance, until its reaper sweeps.     *)
Entries ==
  /\ \A i \in Ids : owned["devices"][i] # Nobody =>
       owned["devices"][i] = instances[i] /\ reaper[instances[i]] = "waiting"
  /\ \A i \in Ids : owned["services"][i] # Nobody =>
       owned["services"][i] = instances[i] /\ reaper[instances[i]] \in {"waiting", "services"}

(* The reaper of a registered instance is tracked, or awaited, or lost.    *)
Tracked ==
  \A g \in Gens : reaper[g] \in Holding =>
    \/ reapers[handle[g].id] = g
    \/ ctl \in {"unbounded", "bounded"} /\ g \in awaited
    \/ detached

(* What a shutdown has closed, listed and taken.                           *)
Shutdown ==
  /\ ctl \in {"list", "stopping", "reported", "unbounded", "bounded", "drained"} => closed
  /\ ctl \in {"unbounded", "bounded", "drained"} => \A i \in Ids : reapers[i] = Nobody
  /\ ctl = "stopping" => \A g \in Gens : sup[g] = "running" => g \in stopping \cup timed_out
  /\ ctl \in {"reported", "unbounded", "bounded"} =>
       \A g \in Gens : sup[g] = "running" => g \in timed_out

RegistryInv ==
  RegistryTypeOK /\ Spawned /\ Present /\ Slots /\ Entries /\ Tracked /\ Shutdown

-----------------------------------------------------------------------------
LEMMA InitRegistry == Init => RegistryInv
<1> SUFFICES ASSUME Init PROVE RegistryInv
  OBVIOUS
<1> USE RegistryAssumption DEF Init, Gens, Nobody, Alive
<1>1. RegistryTypeOK
  BY DEF RegistryTypeOK, Stores
<1>2. Spawned /\ Present
  BY DEF Spawned, Present, Holding
<1>3. Slots /\ Entries
  BY DEF Slots, Entries, Stores
<1>4. Tracked /\ Shutdown
  BY DEF Tracked, Shutdown, Holding
<1> QED
  BY <1>1, <1>2, <1>3, <1>4 DEF RegistryInv

(* What is known of a supervisor that was spawned.                         *)
LEMMA SpawnedHandles ==
  ASSUME RegistryInv, NEW g \in Gens, sup[g] # "none" \/ reaper[g] # "none"
  PROVE  /\ handle[g].id \in Ids /\ handle[g].plugin \in Plugins
         /\ sup[g] # "none" /\ reaper[g] # "none"
         /\ Alive(g) => reaper[g] = "waiting"
         /\ reaper[g] \in Holding => instances[handle[g].id] = g
<1>1. g <= spawned \/ g > spawned
  BY RegistryAssumption DEF RegistryInv, RegistryTypeOK, Gens
<1>2. handle[g] \in Handle /\ sup[g] # "none" /\ reaper[g] # "none"
  BY <1>1 DEF RegistryInv, Spawned
<1> QED
  BY <1>2 DEF RegistryInv, Spawned, Present, Handle

(* What register does, where it admits.                                    *)
LEMMA RegisterStep ==
  ASSUME RegistryInv, NEW s \in Starters, NEW i \in Ids, NEW p \in Plugins,
         NEW presented \in BOOLEAN, Register(s, i, p, presented)
  PROVE  RegistryInv'
<1> DEFINE g == spawned + 1
           single == Flag(p, presented)
<1> USE RegistryAssumption DEF Gens, Nobody, Alive
<1>1. /\ RegistryTypeOK /\ Spawned /\ Present /\ Slots /\ Entries /\ Tracked /\ Shutdown
      /\ g \in Gens /\ single \in BOOLEAN /\ g > spawned /\ spawned \in Nat
  BY DEF RegistryInv, RegistryTypeOK, Register, Flag
<1>2. /\ ~closed /\ instances[i] = Nobody
      /\ IF single THEN Registered(p) = {} ELSE singletons[p] = None
      /\ spawned' = g
      /\ handle' = [handle EXCEPT ![g] = [id |-> i, plugin |-> p, singleton |-> single]]
      /\ sup' = [sup EXCEPT ![g] = "running"]
      /\ reaper' = [reaper EXCEPT ![g] = "waiting"]
      /\ reapers' = [reapers EXCEPT ![i] = g]
      /\ instances' = [instances EXCEPT ![i] = g]
      /\ singletons' = IF single THEN [singletons EXCEPT ![p] = i] ELSE singletons
      /\ UNCHANGED <<closed, owned, ctlVars>>
  BY DEF Register, Refused
<1>3. [id |-> i, plugin |-> p, singleton |-> single] \in Handle
  BY <1>1 DEF Handle
<1>4. RegistryTypeOK'
  <2>1. singletons' \in [Plugins -> Ids \cup {None}]
    BY <1>1, <1>2 DEF RegistryTypeOK
  <2>2. \A j \in Ids : instances'[j] # Nobody => handle'[instances'[j]] \in Handle
    BY <1>1, <1>2, <1>3 DEF RegistryTypeOK, Present
  <2>3. start' \in [Starters -> {"idle", "reading"}]
    BY <1>1 DEF RegistryTypeOK, Register
  <2>4. \A q \in Plugins : singletons'[q] # None =>
          LET h == instances'[singletons'[q]] IN
          h # Nobody /\ handle'[h].plugin = q /\ handle'[h].singleton
    <3> SUFFICES ASSUME NEW q \in Plugins, singletons'[q] # None
                 PROVE  LET h == instances'[singletons'[q]] IN
                        h # Nobody /\ handle'[h].plugin = q /\ handle'[h].singleton
      OBVIOUS
    <3>1. CASE single /\ q = p
      BY <1>1, <1>2, <3>1 DEF RegistryTypeOK
    <3>2. CASE ~(single /\ q = p)
      <4>1. singletons'[q] = singletons[q] /\ singletons[q] \in Ids
        BY <1>1, <1>2, <3>2 DEF RegistryTypeOK
      <4>2. instances[singletons[q]] # Nobody /\ singletons[q] # i
        BY <1>1, <1>2, <4>1 DEF Slots
      <4>3. instances'[singletons[q]] = instances[singletons[q]] /\ instances[singletons[q]] <= spawned
        BY <1>1, <1>2, <4>1, <4>2 DEF RegistryTypeOK, Present
      <4> QED
        BY <1>1, <1>2, <4>1, <4>2, <4>3 DEF RegistryTypeOK, Slots
    <3> QED
      BY <3>1, <3>2
  <2> QED
    BY <1>1, <1>2, <1>3, <2>1, <2>2, <2>3, <2>4 DEF RegistryTypeOK, ctlVars
<1>5. Spawned'
  BY <1>1, <1>2, <1>3 DEF Spawned, RegistryTypeOK
<1>6. Present'
  <2>1. \A j \in Ids : j # i => instances'[j] = instances[j]
    BY <1>1, <1>2 DEF RegistryTypeOK
  <2>2. \A j \in Ids : instances[j] # Nobody => instances[j] <= spawned /\ instances[j] # g
    BY <1>1 DEF Present, RegistryTypeOK
  <2>3. \A j \in Ids : instances'[j] # Nobody =>
          /\ instances'[j] <= spawned'
          /\ handle'[instances'[j]].id = j
          /\ reaper'[instances'[j]] \in Holding
    BY <1>1, <1>2, <2>1, <2>2 DEF Present, RegistryTypeOK, Holding
  <2>4. \A h \in Gens : reaper'[h] \in Holding => instances'[handle'[h].id] = h
    <3> SUFFICES ASSUME NEW h \in Gens, reaper'[h] \in Holding, h # g
                 PROVE  instances'[handle'[h].id] = h
      BY <1>1, <1>2 DEF RegistryTypeOK
    <3>1. reaper'[h] = reaper[h] /\ handle'[h] = handle[h]
      BY <1>1, <1>2 DEF RegistryTypeOK
    <3>2. h <= spawned /\ instances[handle[h].id] = h /\ handle[h].id \in Ids
      BY <1>1, <3>1 DEF Present, Spawned, Holding, Handle
    <3> QED
      BY <1>2, <3>1, <3>2, <2>1
  <2> QED
    BY <2>3, <2>4 DEF Present
<1>7. Slots'
  <2>1. \A q \in Plugins : singletons'[q] # None =>
          LET h == instances'[singletons'[q]] IN
          h # Nobody /\ handle'[h].plugin = q /\ handle'[h].singleton
    BY <1>4 DEF RegistryTypeOK
  <2>2. \A j \in Ids : instances[j] # Nobody =>
          j # i /\ instances'[j] = instances[j] /\ handle'[instances[j]] = handle[instances[j]]
            /\ handle[instances[j]].plugin \in Plugins
    BY <1>1, <1>2 DEF Present, RegistryTypeOK, Handle
  <2>3. \A j \in Ids : j # i => instances'[j] = instances[j]
    BY <1>1, <1>2 DEF RegistryTypeOK
  <2>4. handle'[instances'[i]].singleton = single /\ handle'[instances'[i]].plugin = p
        /\ instances'[i] = g
    BY <1>1, <1>2 DEF RegistryTypeOK
  <2>5. \A j \in Ids : instances[j] # Nobody /\ handle[instances[j]].plugin = p =>
          ~single /\ ~handle[instances[j]].singleton
    <3> SUFFICES ASSUME NEW j \in Ids, instances[j] # Nobody, handle[instances[j]].plugin = p
                 PROVE  ~single /\ ~handle[instances[j]].singleton
      OBVIOUS
    <3>1. j \in Registered(p)
      BY DEF Registered
    <3>2. ~single /\ singletons[p] = None
      BY <1>2, <3>1
    <3>3. handle[instances[j]].singleton => singletons[p] = j
      BY <1>1 DEF Slots
    <3> QED
      BY <3>2, <3>3, <1>1
  <2>6. \A j \in Ids : instances'[j] # Nobody /\ handle'[instances'[j]].singleton =>
          /\ singletons'[handle'[instances'[j]].plugin] = j
          /\ \A k \in Ids : k # j /\ instances'[k] # Nobody =>
               handle'[instances'[k]].plugin # handle'[instances'[j]].plugin
    <3> SUFFICES ASSUME NEW j \in Ids, instances'[j] # Nobody, handle'[instances'[j]].singleton
                 PROVE  /\ singletons'[handle'[instances'[j]].plugin] = j
                        /\ \A k \in Ids : k # j /\ instances'[k] # Nobody =>
                             handle'[instances'[k]].plugin # handle'[instances'[j]].plugin
      OBVIOUS
    <3>1. CASE j = i
      <4>1. single
        BY <2>4, <3>1
      <4>2. singletons'[p] = i
        BY <1>1, <1>2, <4>1 DEF RegistryTypeOK
      <4>3. \A k \in Ids : k # i /\ instances'[k] # Nobody => handle'[instances'[k]].plugin # p
        BY <2>2, <2>3, <2>5, <4>1
      <4> QED
        BY <2>4, <3>1, <4>2, <4>3
    <3>2. CASE j # i
      <4>1. instances[j] # Nobody /\ handle[instances[j]].singleton
            /\ handle'[instances'[j]] = handle[instances[j]]
        BY <2>2, <2>3, <3>2
      <4>2. handle[instances[j]].plugin # p
        BY <2>5, <4>1
      <4>3. singletons[handle[instances[j]].plugin] = j
        BY <1>1, <4>1 DEF Slots
      <4>4. singletons'[handle[instances[j]].plugin] = j
        BY <1>1, <1>2, <4>2, <4>3, <2>2, <4>1 DEF RegistryTypeOK
      <4>5. \A k \in Ids : k # j /\ instances'[k] # Nobody =>
              handle'[instances'[k]].plugin # handle[instances[j]].plugin
        BY <1>1, <2>2, <2>3, <2>4, <4>1, <4>2 DEF Slots
      <4> QED
        BY <4>1, <4>4, <4>5
    <3> QED
      BY <3>1, <3>2
  <2> QED
    BY <2>1, <2>6 DEF Slots
<1>8. Entries'
  BY <1>1, <1>2 DEF Entries, Present, RegistryTypeOK, Stores
<1>9. Tracked'
  <2>1. \A h \in Gens : h # g /\ reaper[h] \in Holding =>
          handle[h].id # i /\ handle[h].id \in Ids
    BY <1>1, <1>2 DEF Present, Spawned, Handle, Holding
  <2> QED
    BY <1>1, <1>2, <2>1 DEF Tracked, RegistryTypeOK, ctlVars
<1>10. Shutdown'
  BY <1>1, <1>2 DEF Shutdown, ctlVars
<1> QED
  BY <1>4, <1>5, <1>6, <1>7, <1>8, <1>9, <1>10 DEF RegistryInv

(* A supervisor's own steps: it registers only while it is registered.     *)
LEMMA SupervisingStep ==
  ASSUME RegistryInv, NEW g \in Gens, Supervising(g)
  PROVE  RegistryInv'
<1> USE RegistryAssumption DEF Gens, Nobody, Alive
<1>1. /\ RegistryTypeOK /\ Spawned /\ Present /\ Slots /\ Entries /\ Tracked /\ Shutdown
      /\ UNCHANGED <<registryVars, reapers, start, spawned, handle, reaper, ctlVars>>
  BY DEF RegistryInv, Supervising, BeginLife, Own, Acknowledge, Publish, GiveUp
<1>2. Present' /\ Slots' /\ Tracked'
  BY <1>1 DEF Present, Slots, Tracked, registryVars, ctlVars
<1>3. CASE BeginLife(g) \/ \E st \in Stores : Own(g, st)
  <2>1. sup' = sup /\ sup[g] = "running"
    BY <1>3 DEF BeginLife, Own
  <2>2. handle[g].id \in Ids /\ reaper[g] = "waiting" /\ instances[handle[g].id] = g
    BY <2>1, SpawnedHandles DEF Holding
  <2>3. owned' \in [Stores -> [Ids -> Gens \cup {Nobody}]]
    <3>1. CASE BeginLife(g)
      BY <1>1, <2>2, <3>1 DEF BeginLife, RegistryTypeOK
    <3>2. ASSUME NEW st \in Stores, Own(g, st)
          PROVE  owned' \in [Stores -> [Ids -> Gens \cup {Nobody}]]
      <4>1. owned[st] \in [Ids -> Gens \cup {Nobody}]
        BY <1>1 DEF RegistryTypeOK
      <4>2. [owned[st] EXCEPT ![handle[g].id] = g] \in [Ids -> Gens \cup {Nobody}]
        BY <4>1, <2>2
      <4> QED
        BY <1>1, <3>2, <4>2 DEF Own, RegistryTypeOK
    <3> QED
      BY <1>3, <3>1, <3>2
  <2>4. Entries'
    <3>1. \A st \in Stores, j \in Ids : owned'[st][j] # Nobody =>
            owned'[st][j] = owned[st][j] \/ (j = handle[g].id /\ owned'[st][j] = g)
      <4>1. CASE BeginLife(g)
        BY <1>1, <2>2, <4>1 DEF BeginLife, RegistryTypeOK
      <4>2. ASSUME NEW st \in Stores, Own(g, st)
            PROVE  \A su \in Stores, j \in Ids :
                     \/ owned'[su][j] = owned[su][j]
                     \/ j = handle[g].id /\ owned'[su][j] = g
        <5>1. owned' = [owned EXCEPT ![st] = [owned[st] EXCEPT ![handle[g].id] = g]]
          BY <4>2 DEF Own
        <5>2. owned[st] \in [Ids -> Gens \cup {Nobody}]
          BY <1>1 DEF RegistryTypeOK
        <5>3. \A su \in Stores : owned'[su] =
                IF su = st THEN [owned[st] EXCEPT ![handle[g].id] = g] ELSE owned[su]
          BY <1>1, <5>1 DEF RegistryTypeOK
        <5> QED
          BY <2>2, <5>2, <5>3
      <4> QED
        BY <1>3, <4>1, <4>2
    <3> QED
      BY <1>1, <2>2, <3>1 DEF Entries, registryVars, Stores
  <2>5. RegistryTypeOK'
    BY <1>1, <2>1, <2>3 DEF RegistryTypeOK, registryVars, ctlVars
  <2>6. Spawned' /\ Shutdown'
    BY <1>1, <2>1 DEF Spawned, Shutdown, registryVars, ctlVars
  <2> QED
    BY <1>2, <2>4, <2>5, <2>6 DEF RegistryInv
<1>4. CASE Acknowledge(g) \/ Publish(g) \/ GiveUp(g)
  <2>1. /\ owned' = owned /\ sup[g] \in {"running", "acked"}
        /\ \E to \in {"acked", "terminal"} : sup' = [sup EXCEPT ![g] = to]
    BY <1>4 DEF Acknowledge, Publish, GiveUp
  <2>2. RegistryTypeOK' /\ Spawned' /\ Entries' /\ Shutdown'
    BY <1>1, <2>1 DEF RegistryTypeOK, Spawned, Entries, Shutdown, registryVars, ctlVars
  <2> QED
    BY <1>2, <2>2 DEF RegistryInv
<1> QED
  BY <1>3, <1>4 DEF Supervising

(* The reaper's sweeps, under the registration.                            *)
LEMMA SweepStep ==
  ASSUME RegistryInv, NEW g \in Gens, Reap(g) \/ ReapServices(g)
  PROVE  RegistryInv'
<1> USE RegistryAssumption DEF Gens, Nobody, Alive
<1> DEFINE i == handle[g].id
<1>1. /\ RegistryTypeOK /\ Spawned /\ Present /\ Slots /\ Entries /\ Tracked /\ Shutdown
      /\ UNCHANGED <<registryVars, reapers, start, spawned, handle, sup, ctlVars>>
  BY DEF RegistryInv, Reap, ReapServices
<1>2. reaper[g] \in Holding /\ i \in Ids /\ instances[i] = g /\ ~Alive(g) /\ sup[g] # "none"
  <2>1. reaper[g] \in {"waiting", "services"} /\ (reaper[g] = "waiting" => sup[g] = "terminal")
    BY DEF Reap, ReapServices, Moves
  <2> QED
    BY <2>1, SpawnedHandles DEF Holding
<1>3. \E to \in {"services", "unregister"} : reaper' = [reaper EXCEPT ![g] = to]
  BY DEF Reap, ReapServices, Moves
<1>4. RegistryTypeOK' /\ Spawned' /\ Shutdown'
  <2>1. \E st \in Stores : owned' = [owned EXCEPT ![st][i] = Nobody]
    BY DEF Reap, ReapServices, Stores
  <2>2. owned' \in [Stores -> [Ids -> Gens \cup {Nobody}]]
    <3>1. PICK st \in Stores : owned' = [owned EXCEPT ![st][i] = Nobody]
      BY <2>1
    <3>2. [owned[st] EXCEPT ![i] = Nobody] \in [Ids -> Gens \cup {Nobody}]
      BY <1>1, <1>2 DEF RegistryTypeOK
    <3> QED
      BY <1>1, <3>1, <3>2 DEF RegistryTypeOK
  <2>3. RegistryTypeOK'
    BY <1>1, <1>3, <2>2 DEF RegistryTypeOK, registryVars, ctlVars
  <2>4. Spawned'
    BY <1>1, <1>2, <1>3 DEF Spawned, RegistryTypeOK
  <2>5. Shutdown'
    BY <1>1 DEF Shutdown, registryVars, ctlVars
  <2> QED
    BY <2>3, <2>4, <2>5
<1>5. Present' /\ Slots' /\ Tracked'
  BY <1>1, <1>2, <1>3 DEF RegistryTypeOK, Present, Slots, Tracked, Holding, registryVars, ctlVars
<1>6. \A j \in Ids : j # i /\ instances[j] # Nobody => instances[j] # g
  BY <1>1, <1>2 DEF Present
<1>7. Entries'
  <2>1. CASE Reap(g)
    BY <1>1, <1>2, <1>6, <2>1 DEF Entries, Reap, Moves, RegistryTypeOK, registryVars, Stores
  <2>2. CASE ReapServices(g)
    BY <1>1, <1>2, <1>6, <2>2 DEF Entries, ReapServices, Moves, RegistryTypeOK, registryVars, Stores
  <2> QED
    BY <2>1, <2>2
<1> QED
  BY <1>4, <1>5, <1>7 DEF RegistryInv

LEMMA UnregisterStep ==
  ASSUME RegistryInv, NEW g \in Gens, Unregister(g)
  PROVE  RegistryInv'
<1> USE RegistryAssumption DEF Gens, Nobody, Alive
<1> DEFINE i == handle[g].id
           p == handle[g].plugin
<1>1. RegistryTypeOK /\ Spawned /\ Present /\ Slots /\ Entries /\ Tracked /\ Shutdown
  BY DEF RegistryInv
<1>2. /\ reaper[g] = "unregister"
      /\ reaper' = [reaper EXCEPT ![g] = "untrack"]
      /\ instances' = [instances EXCEPT ![i] = Nobody]
      /\ singletons' = [singletons EXCEPT ![p] = IF @ = i THEN None ELSE @]
      /\ UNCHANGED <<closed, reapers, start, supVars, ctlVars>>
  BY DEF Unregister, Moves, FreedSlots
<1>3. i \in Ids /\ p \in Plugins /\ instances[i] = g /\ ~Alive(g) /\ sup[g] # "none"
  BY <1>2, SpawnedHandles DEF Holding
<1>4. \A j \in Ids : instances'[j] = IF j = i THEN Nobody ELSE instances[j]
  BY <1>1, <1>2, <1>3 DEF RegistryTypeOK
<1>5. \A j \in Ids : j # i => instances[j] # g
  BY <1>1, <1>3 DEF Present
<1>6. \A q \in Plugins : singletons'[q] = IF singletons[q] = i THEN None ELSE singletons[q]
  <2> SUFFICES ASSUME NEW q \in Plugins
               PROVE  singletons'[q] = IF singletons[q] = i THEN None ELSE singletons[q]
    OBVIOUS
  <2>1. CASE q = p
    BY <1>1, <1>2, <2>1 DEF RegistryTypeOK
  <2>2. CASE q # p
    <3>1. singletons'[q] = singletons[q]
      BY <1>1, <1>2, <2>2 DEF RegistryTypeOK
    <3>2. singletons[q] # i
      BY <1>1, <1>3, <2>2 DEF Slots
    <3> QED
      BY <3>1, <3>2
  <2> QED
    BY <2>1, <2>2
<1>7. Spawned' /\ Shutdown' /\ Tracked'
  BY <1>1, <1>2, <1>3 DEF Spawned, Shutdown, Tracked, Holding, RegistryTypeOK, supVars, ctlVars
<1>8. Present'
  BY <1>1, <1>2, <1>3, <1>4, <1>5 DEF Present, Holding, RegistryTypeOK, supVars
<1>9. Slots'
  <2>1. \A q \in Plugins : singletons'[q] # None =>
          LET h == instances'[singletons'[q]] IN
          h # Nobody /\ handle'[h].plugin = q /\ handle'[h].singleton
    BY <1>1, <1>2, <1>4, <1>6 DEF Slots, RegistryTypeOK, supVars
  <2>2. \A j \in Ids : instances'[j] # Nobody =>
          j # i /\ instances'[j] = instances[j] /\ handle' = handle
            /\ handle[instances[j]].plugin \in Plugins
    BY <1>1, <1>2, <1>4 DEF Present, RegistryTypeOK, Handle, supVars
  <2>3. \A j \in Ids : instances'[j] # Nobody /\ handle'[instances'[j]].singleton =>
          /\ singletons'[handle'[instances'[j]].plugin] = j
          /\ \A k \in Ids : k # j /\ instances'[k] # Nobody =>
               handle'[instances'[k]].plugin # handle'[instances'[j]].plugin
    BY <1>1, <1>6, <2>2 DEF Slots
  <2> QED
    BY <2>1, <2>3 DEF Slots
<1>10. Entries'
  BY <1>1, <1>2, <1>3, <1>4, <1>5 DEF Entries, Holding, RegistryTypeOK, supVars, Stores
<1>11. RegistryTypeOK'
  <2>1. instances' \in [Ids -> Gens \cup {Nobody}] /\ singletons' \in [Plugins -> Ids \cup {None}]
    BY <1>1, <1>2 DEF RegistryTypeOK
  <2>2. \A j \in Ids : instances'[j] # Nobody => handle'[instances'[j]] \in Handle
    BY <1>1, <1>2, <1>4 DEF RegistryTypeOK, supVars
  <2> QED
    BY <1>1, <1>2, <1>9, <2>1, <2>2 DEF RegistryTypeOK, Slots, supVars, ctlVars
<1> QED
  BY <1>7, <1>8, <1>9, <1>10, <1>11 DEF RegistryInv

LEMMA UntrackStep ==
  ASSUME RegistryInv, NEW g \in Gens, Untrack(g)
  PROVE  RegistryInv'
<1> USE RegistryAssumption DEF Gens, Nobody, Alive
<1>1. RegistryTypeOK /\ Spawned /\ Present /\ Slots /\ Entries /\ Tracked /\ Shutdown
  BY DEF RegistryInv
<1>2. /\ reaper[g] = "untrack"
      /\ reaper' = [reaper EXCEPT ![g] = "done"]
      /\ reapers' = [reapers EXCEPT ![handle[g].id] = IF @ = g THEN Nobody ELSE @]
      /\ UNCHANGED <<registryVars, start, supVars, ctlVars>>
  BY DEF Untrack, Moves, Untracked
<1>3. ~Alive(g) /\ sup[g] # "none" /\ handle[g].id \in Ids
  BY <1>2, SpawnedHandles
<1>4. RegistryTypeOK' /\ Spawned' /\ Slots'
  <2>1. RegistryTypeOK'
    BY <1>1, <1>2, <1>3 DEF RegistryTypeOK, registryVars, supVars, ctlVars
  <2>2. Spawned'
    BY <1>1, <1>2, <1>3 DEF RegistryTypeOK, Spawned, supVars
  <2>3. Slots'
    BY <1>1, <1>2 DEF Slots, registryVars, supVars
  <2> QED
    BY <2>1, <2>2, <2>3
<1>5. Present' /\ Entries'
  BY <1>1, <1>2 DEF Present, Entries, Holding, RegistryTypeOK, registryVars, supVars
<1>6. Tracked' /\ Shutdown'
  BY <1>1, <1>2 DEF Tracked, Shutdown, Holding, RegistryTypeOK, registryVars, supVars, ctlVars
<1> QED
  BY <1>4, <1>5, <1>6 DEF RegistryInv

(* A shutdown closes, lists, waits and takes; it changes no registration.  *)
LEMMA ControlStep ==
  ASSUME RegistryInv, Stopping \/ Draining
  PROVE  RegistryInv'
<1> USE RegistryAssumption DEF Gens, Nobody, Alive
<1>1. /\ RegistryTypeOK /\ Spawned /\ Present /\ Slots /\ Entries /\ Tracked /\ Shutdown
      /\ UNCHANGED <<instances, singletons, start, supVars, reaper>>
      /\ closed => closed'
      /\ detached => detached'
  BY DEF RegistryInv, RegistryTypeOK, Stopping, Draining, BeginStop, Close, List, Report, StopReturns,
         StopTimesOut, Drain, DrainReturns, DrainGivesUp, registryVars
<1>2. Spawned' /\ Present' /\ Slots' /\ Entries'
  BY <1>1 DEF Spawned, Present, Slots, Entries, supVars
<1>3. RegistryTypeOK'
  BY <1>1 DEF RegistryTypeOK, Stopping, Draining, BeginStop, Close, List, Report, StopReturns,
              StopTimesOut, Drain, DrainReturns, DrainGivesUp, supVars, registryVars
<1>4. Tracked'
  <2>1. CASE Stopping
    BY <1>1, <2>1 DEF Tracked, Stopping, BeginStop, Close, List, Report, StopReturns,
              StopTimesOut, supVars
  <2>2. CASE \E mode \in {"unbounded", "bounded"} : Drain(mode)
    BY <1>1, <2>2 DEF Tracked, Drain, Spawned, Holding, Handle, supVars, RegistryTypeOK
  <2>3. CASE DrainReturns
    BY <1>1, <2>3 DEF Tracked, DrainReturns, Joined, Holding, supVars
  <2>4. CASE DrainGivesUp
    BY <2>4 DEF Tracked, DrainGivesUp
  <2> QED
    BY <2>1, <2>2, <2>3, <2>4 DEF Draining
<1>5. Shutdown'
  <2>1. CASE List
    <3>1. \A g \in Gens : sup[g] = "running" => g \in stopping'
      <4> SUFFICES ASSUME NEW g \in Gens, sup[g] = "running"
                   PROVE  g \in stopping'
        OBVIOUS
      <4>1. handle[g].id \in Ids /\ instances[handle[g].id] = g
        BY SpawnedHandles DEF Holding
      <4> QED
        BY <2>1, <4>1 DEF List
    <3> QED
      BY <1>1, <2>1, <3>1 DEF List, Shutdown, supVars, registryVars
  <2>2. CASE BeginStop \/ Close \/ Report \/ \E g \in Gens : StopReturns(g) \/ StopTimesOut(g)
    BY <1>1, <2>2 DEF BeginStop, Close, Report, StopReturns, StopTimesOut, Shutdown, supVars,
              registryVars
  <2>3. CASE Draining
    BY <1>1, <2>3 DEF Draining, Drain, DrainReturns, DrainGivesUp, Shutdown, supVars, registryVars
  <2> QED
    BY <2>1, <2>2, <2>3 DEF Stopping
<1> QED
  BY <1>2, <1>3, <1>4, <1>5 DEF RegistryInv

(* A start that is reading, or fails, touches nothing.                     *)
LEMMA IdleStep ==
  ASSUME RegistryInv,
         UNCHANGED vars \/ \E s \in Starters : Begin(s) \/ Fails(s)
  PROVE  RegistryInv'
<1>1. UNCHANGED <<registryVars, reapers, supVars, reaper, ctlVars>>
  BY DEF vars, Begin, Fails
<1>2. start' \in [Starters -> {"idle", "reading"}]
  BY DEF RegistryInv, RegistryTypeOK, vars, Begin, Fails
<1> QED
  BY <1>1, <1>2 DEF RegistryInv, RegistryTypeOK, Spawned, Present, Slots, Entries, Tracked, Shutdown,
     Alive, registryVars, supVars, ctlVars

-----------------------------------------------------------------------------
(* The inductive invariant.                                                *)
THEOREM RegistryInvariant == Spec => []RegistryInv
<1>1. RegistryInv /\ [Next]_vars => RegistryInv'
  BY RegisterStep, SupervisingStep, SweepStep, UnregisterStep, UntrackStep, ControlStep, IdleStep
     DEF Next, Starting, Reaping
<1> QED
  BY <1>1, InitRegistry, PTL DEF Spec

(* Types, and a slot never outlives its instance, for any ids and plugins. *)
THEOREM RegistryTypeCorrect == Spec => []RegistryTypeOK
<1>1. RegistryInv => RegistryTypeOK
  BY DEF RegistryInv
<1> QED
  BY <1>1, RegistryInvariant, PTL

(* No two supervisors under one id, none beside a singleton of its plugin. *)
THEOREM AlwaysExclusive == Spec => []Exclusive
<1>1. RegistryInv => Exclusive
  <2> SUFFICES ASSUME RegistryInv, NEW g \in Gens, NEW h \in Gens, g # h, Alive(g), Alive(h)
               PROVE  /\ handle[g].id # handle[h].id
                      /\ handle[g].plugin = handle[h].plugin => ~handle[g].singleton
    BY DEF Exclusive
  <2>1. \A k \in {g, h} : handle[k].id \in Ids /\ instances[handle[k].id] = k /\ k # Nobody
    BY SpawnedHandles DEF Holding, Gens, Nobody, Alive
  <2>2. handle[g].id # handle[h].id
    BY <2>1
  <2> QED
    BY <2>1, <2>2 DEF RegistryInv, Slots
<1> QED
  BY <1>1, RegistryInvariant, PTL

(* A reaper never sweeps what a successor under the same id registered.    *)
THEOREM OwnEntriesAlwaysKept == Spec => OwnEntriesKept
<1>1. RegistryInv /\ [Next]_vars =>
        [\A st \in Stores, i \in Ids :
           LET g == owned[st][i] IN
           g # Nobody /\ owned'[st][i] # g => BeginLife(g) \/ ~Alive(g)]_vars
  <2> SUFFICES ASSUME RegistryInv, [Next]_vars, NEW st \in Stores, NEW i \in Ids,
                      owned[st][i] # Nobody, owned'[st][i] # owned[st][i]
               PROVE  BeginLife(owned[st][i]) \/ ~Alive(owned[st][i])
    OBVIOUS
  <2> DEFINE g == owned[st][i]
  <2>1. instances[i] = g /\ handle[g].id = i /\ g \in Gens
    BY DEF RegistryInv, Entries, Present, Stores, RegistryTypeOK, Nobody
  <2>2. PICK h \in Gens : BeginLife(h) \/ (\E s \in Stores : Own(h, s)) \/ Reap(h) \/ ReapServices(h)
    BY DEF Next, Starting, Register, Begin, Fails, Supervising, Acknowledge, Publish, GiveUp, Reaping,
       Unregister, Untrack, Stopping, BeginStop, Close, List, Report, StopReturns, StopTimesOut,
       Draining, Drain, DrainReturns, DrainGivesUp, vars, supVars
  <2>3. handle[h].id \in Ids /\ instances[handle[h].id] = h
    <3>1. sup[h] = "running" \/ reaper[h] \in {"waiting", "services"}
      BY <2>2 DEF BeginLife, Own, Reap, ReapServices, Moves
    <3> QED
      BY <3>1, SpawnedHandles DEF Holding, Alive
  <2>4. handle[h].id = i
    BY <2>2 DEF BeginLife, Own, Reap, ReapServices, RegistryInv, RegistryTypeOK, Stores
  <2>5. h = g
    BY <2>1, <2>3, <2>4
  <2>6. CASE Reap(h) \/ ReapServices(h)
    BY <2>5, <2>6 DEF Reap, ReapServices, Moves, RegistryInv, Spawned, Alive
  <2>7. CASE \E s \in Stores : Own(h, s)
    BY <2>4, <2>5, <2>7 DEF Own, RegistryInv, RegistryTypeOK, Stores
  <2> QED
    BY <2>2, <2>5, <2>6, <2>7
<1> QED
  BY <1>1, RegistryInvariant, PTL DEF Spec, OwnEntriesKept

(* After all_stopped nothing runs; after the drain nothing is left.        *)
THEOREM ShutdownIsClean == Spec => []NothingLeftBehind
<1>1. RegistryInv => NothingLeftBehind
  <2> SUFFICES ASSUME RegistryInv PROVE NothingLeftBehind
    OBVIOUS
  <2>1. ctl \in {"reported", "unbounded", "bounded"} /\ AllStopped =>
          \A g \in Gens : sup[g] # "running"
    BY DEF RegistryInv, Shutdown, AllStopped
  <2>2. ASSUME ctl = "drained", ~detached
        PROVE  /\ \A g \in Gens : reaper[g] \notin Holding
               /\ \A i \in Ids : instances[i] = Nobody
    <3>1. \A g \in Gens : reaper[g] \in Holding => handle[g].id \in Ids /\ reapers[handle[g].id] = g
      BY <2>2 DEF RegistryInv, Tracked, Spawned, Handle, Holding, RegistryTypeOK, Gens, Present
    <3>2. \A g \in Gens : reaper[g] \notin Holding
      BY <2>2, <3>1 DEF RegistryInv, Shutdown, Gens, Nobody
    <3> QED
      BY <3>2 DEF RegistryInv, Present, RegistryTypeOK
  <2>3. ASSUME ctl = "drained", ~detached
        PROVE  \A i \in Ids, st \in Stores : owned[st][i] = Nobody
    BY <2>2, <2>3 DEF RegistryInv, Entries, Stores, RegistryTypeOK
  <2> QED
    BY <2>1, <2>2, <2>3 DEF NothingLeftBehind, Holding, RegistryInv, RegistryTypeOK
<1> QED
  BY <1>1, RegistryInvariant, PTL
=============================================================================
