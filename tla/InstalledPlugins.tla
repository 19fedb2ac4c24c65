--------------------------- MODULE InstalledPlugins ---------------------------
(***************************************************************************)
(* The installed plugins (state/installed_plugins.rs, the uninstall and    *)
(* start paths of runtime.rs, the handlers of api/server.rs).  A plugin is *)
(* a directory under plugins_root and a row of plugin_installation: the    *)
(* two are written one after the other, and the boot scan reconciles them. *)
(* KV and blob state hang off the row's installation_uuid.                 *)
(*                                                                         *)
(* Durable: disk, staging, rows, kv, blobs.  A crash loses the rest.  While *)
(* the daemon is down an operator may edit plugins_root, and an upgrade    *)
(* may leave a row without a usable grant.                                 *)
(*                                                                         *)
(* Abstracted: a package is its manifest id, whether the manifest parses,  *)
(* and its bytes; the content digest of sound bytes is those bytes.  The   *)
(* n-th installation_uuid minted for a plugin is n; NoRow stands for the   *)
(* placeholders of a quarantine entry without a row.  A plugin runs at     *)
(* most one instance (InstanceRegistry has the registry itself).           *)
(***************************************************************************)
EXTENDS Naturals, FiniteSets

CONSTANTS Plugins,
          Dirs,       \* names under plugins_root, numbered in the scan's order
          Home,       \* plugins_root.join(plugin_id)
          Versions,   \* contents that pass validation
          Requests,   \* API requests being served
          MaxUuid,    \* bound: installations per plugin
          MaxEdits,   \* bound: edits while the daemon is down
          None

Broken == {"bad_ui", "no_wasm"}    \* validate_ui_package, read of the wasm fail
Bytes == Versions \cup Broken
Uuids == 1..MaxUuid
NoRow == 0
Placeholder == [uuid |-> NoRow, dirs |-> {}]

ASSUME PluginsAssumption ==
  /\ Dirs \subseteq Nat
  /\ IsFiniteSet(Dirs)
  /\ Home \in [Plugins -> Dirs]
  /\ \A p, q \in Plugins : Home[p] = Home[q] => p = q
  /\ Versions \cap Broken = {}
  /\ MaxUuid \in Nat
  /\ MaxEdits \in Nat
  /\ None \notin Plugins \cup Requests

ASSUME NoneAssumption ==
  /\ None \notin [uuid : Uuids, dir : Dirs, digest : Versions]
  /\ None \notin [uuid : {NoRow} \cup Uuids, dirs : SUBSET Dirs]

VARIABLES
  disk,         \* per directory its package, or None
  staging,      \* .staging-<uuid> directories
  rows,         \* plugin_installation, per plugin and uuid
  kv, blobs,    \* <<plugin, uuid>> with state in KvStore, BlobStore
  minted,       \* per plugin, the last uuid minted
  phase,        \* down, sweep or up
  sweep,        \* plugins whose orphan live row the scan will tombstone
  backfill,     \* plugins whose row the scan will insert
  entries,      \* InstalledPluginRegistry::entries
  quarantined,  \* InstalledPluginRegistry::quarantined
  req,          \* per request, what it is doing
  lock,         \* plugin_lifecycle_lock: the request that holds it
  running,      \* the plugin's instance in the InstanceRegistry
  edits,        \* edits so far
  placed,       \* history: directories the daemon did not put there
  known,        \* history: the identity a plugin was last served under
  purged,       \* history: installations whose uninstall went through
  gone          \* history: uninstalled, and neither installed nor placed since

stores == <<disk, staging, rows, kv, blobs>>
registry == <<entries, quarantined>>
boot == <<phase, sweep, backfill>>
api == <<req, lock, running>>
history == <<placed, known, purged, gone>>
vars == <<stores, minted, boot, registry, api, edits, history>>

Package == [id : Plugins, readable : BOOLEAN, bytes : Bytes]
Row == [state : {"absent", "live", "tombstoned"}, digest : Versions \cup {None}]
Idle == [pc |-> "idle"]

-----------------------------------------------------------------------------
(* The table.  The unique index keeps one live row per plugin.             *)

Live(p) == {u \in Uuids : rows[p][u].state = "live"}
LiveUuid(p) == IF Live(p) = {} THEN NoRow ELSE CHOOSE u \in Live(p) : TRUE

(* A live row whose grant or digest is NULL or does not parse.             *)
Degraded(p) == \E u \in Live(p) : rows[p][u].digest = None

SetRow(p, u, row) == rows' = [rows EXCEPT ![p][u] = row]
Tombstoned(p, u) == [rows EXCEPT ![p][u] =
                       IF @.state = "live" THEN [@ EXCEPT !.state = "tombstoned"] ELSE @]

-----------------------------------------------------------------------------
(* What the scan makes of plugins_root.                                    *)

Readable(d) == disk[d] # None /\ disk[d].readable
Sightings(p) == {d \in Dirs : Readable(d) /\ disk[d].id = p}
First(p) == CHOOSE d \in Sightings(p) : \A e \in Sightings(p) : d <= e

(* Mutant: the sweep runs although a manifest could not be read.           *)
DeferSweep_Never == FALSE

(* A directory whose plugin is not known puts off the orphan sweep.        *)
DeferSweep == \E d \in Dirs : disk[d] # None /\ ~disk[d].readable

(* The first directory seen of a plugin without a row gets a fresh one.    *)
Backfilled == {p \in Plugins : /\ Sightings(p) # {} /\ Live(p) = {}
                               /\ disk[First(p)].bytes \in Versions}

(* Minted for a backfill, else the live row's.                             *)
ScanUuid(p) == IF p \in Backfilled THEN minted[p] + 1 ELSE LiveUuid(p)

(* Served: one directory, sound, and the bytes the row vouches for.        *)
Indexed(p) ==
  /\ \E d \in Dirs : Sightings(p) = {d}
  /\ disk[First(p)].bytes \in Versions
  /\ ~Degraded(p)
  /\ Live(p) # {} => rows[p][LiveUuid(p)].digest = disk[First(p)].bytes

(* A quarantine entry made from the table first takes the directory of the *)
(* plugin's name, whatever its manifest says; a later sighting with a      *)
(* valid UI package starts the list again.                                 *)
NamedDir(p) ==
  IF Degraded(p) /\ disk[Home[p]] # None
     /\ ~(/\ Sightings(p) # {} /\ disk[First(p)].bytes # "bad_ui"
          /\ Home[p] < First(p))
  THEN {Home[p]} ELSE {}

(* Mutant: the last sighting overwrites the ones before.                   *)
Recorded_Last(p) ==
  {d \in Sightings(p) \cup NamedDir(p) : \A e \in Sightings(p) \cup NamedDir(p) : e <= d}

(* Mutant: a quarantine entry has only the directory of the plugin's name. *)
Recorded_ByName(p) == NamedDir(p)

(* Every directory of the plugin is recorded, so that one uninstall        *)
(* removes them all.                                                       *)
Recorded(p) == Sightings(p) \cup NamedDir(p)

ScanEntry(p) ==
  IF Indexed(p)
  THEN [uuid |-> ScanUuid(p), dir |-> First(p), digest |-> disk[First(p)].bytes]
  ELSE None

ScanQuarantine(p) ==
  IF ~Indexed(p) /\ (Sightings(p) # {} \/ Degraded(p))
  THEN [uuid |-> ScanUuid(p), dirs |-> Recorded(p)]
  ELSE None

(* Live rows that nothing on disk answers for.                             *)
Orphans == {p \in Plugins : Live(p) # {} /\ ~Degraded(p) /\ Sightings(p) = {}}

-----------------------------------------------------------------------------
(* Boot and crash.                                                         *)

(* The walk: leftover staging directories are deleted where that works,    *)
(* the maps are built.  Nothing else is written yet.                       *)
Scan ==
  /\ phase = "down"
  /\ \A p \in Backfilled : minted[p] < MaxUuid
  /\ staging' \in SUBSET staging
  /\ entries' = [p \in Plugins |-> ScanEntry(p)]
  /\ quarantined' = [p \in Plugins |-> ScanQuarantine(p)]
  /\ minted' = [p \in Plugins |-> IF p \in Backfilled THEN minted[p] + 1 ELSE minted[p]]
  /\ sweep' = IF DeferSweep THEN {} ELSE Orphans
  /\ backfill' = Backfilled
  /\ phase' = "sweep"
  /\ UNCHANGED <<disk, rows, kv, blobs, api, edits, history>>

(* A tombstone that fails is logged and left for the next boot.            *)
SweepOrphan(p) ==
  /\ phase = "sweep"
  /\ p \in sweep
  /\ sweep' = sweep \ {p}
  /\ rows' \in {Tombstoned(p, LiveUuid(p)), rows}
  /\ UNCHANGED <<disk, staging, kv, blobs, minted, phase, backfill, registry, api,
                 edits, history>>

(* A row that cannot be inserted fails the boot: see Crash.                *)
InsertBackfill(p) ==
  /\ phase = "sweep"
  /\ sweep = {}
  /\ p \in backfill
  /\ backfill' = backfill \ {p}
  /\ SetRow(p, minted[p], [state |-> "live", digest |-> disk[First(p)].bytes])
  /\ UNCHANGED <<disk, staging, kv, blobs, minted, phase, sweep, registry, api,
                 edits, history>>

(* The identity each plugin is served under.                               *)
Served == [p \in Plugins |-> IF entries[p] # None THEN entries[p].uuid ELSE known[p]]

ScanDone ==
  /\ phase = "sweep"
  /\ sweep = {} /\ backfill = {}
  /\ phase' = "up"
  /\ known' = Served
  /\ UNCHANGED <<stores, minted, sweep, backfill, registry, api, edits,
                 placed, purged, gone>>

Crash ==
  /\ phase # "down"
  /\ phase' = "down"
  /\ sweep' = {} /\ backfill' = {}
  /\ entries' = [p \in Plugins |-> None]
  /\ quarantined' = [p \in Plugins |-> None]
  /\ req' = [r \in Requests |-> Idle]
  /\ lock' = [p \in Plugins |-> None]
  /\ running' = [p \in Plugins |-> None]
  /\ UNCHANGED <<stores, minted, edits, history>>

(* The operator's hand: a directory is removed, put there, broken,         *)
(* repaired or changed.  A directory named after a plugin holds that       *)
(* plugin.  What is no longer on disk has no identity to keep.             *)
Edit(d, package) ==
  /\ phase = "down"
  /\ edits < MaxEdits
  /\ disk[d] # package
  /\ package # None => \A p \in Plugins : Home[p] = d => package.id = p
  /\ edits' = edits + 1
  /\ disk' = [disk EXCEPT ![d] = package]
  /\ placed' = placed \cup {d}
  /\ known' = [p \in Plugins |->
                 IF \E e \in Dirs : disk'[e] # None /\ disk'[e].id = p
                 THEN known[p] ELSE None]
  /\ gone' = IF package = None THEN gone ELSE gone \ {package.id}
  /\ UNCHANGED <<staging, rows, kv, blobs, minted, boot, registry, api, purged>>

(* A row of an older schema comes out of a migration with NULLs.           *)
Degrade(p) ==
  /\ phase = "down"
  /\ edits < MaxEdits
  /\ Live(p) # {} /\ ~Degraded(p)
  /\ edits' = edits + 1
  /\ SetRow(p, LiveUuid(p), [state |-> "live", digest |-> None])
  /\ UNCHANGED <<disk, staging, kv, blobs, minted, boot, registry, api, history>>

-----------------------------------------------------------------------------
(* Requests.                                                               *)

Goto(r, state) == req' = [req EXCEPT ![r] = state]
At(r, pc) == req[r].pc = pc
Step(r, pc) == [req[r] EXCEPT !.pc = pc]

(* Nothing is under way for the plugin.                                    *)
Quiet(p) == \A r \in Requests : At(r, "idle") \/ req[r].plugin # p

(* uninstall holds the write lock of entries from its look-up to its end.  *)
EntriesLocked == \E r \in Requests : req[r].pc \in {"remove", "drop"}

Free(r) == lock' = [p \in Plugins |-> IF lock[p] = r THEN None ELSE lock[p]]
Return(r) == Goto(r, Idle) /\ Free(r)

(* install_gated, up to its look at dest.                                  *)
Install(r, p, v) ==
  /\ phase = "up"
  /\ At(r, "idle")
  /\ disk[Home[p]] = None
  /\ minted[p] < MaxUuid
  /\ minted' = [minted EXCEPT ![p] = @ + 1]
  /\ Goto(r, [pc |-> "stage", plugin |-> p, uuid |-> minted[p] + 1, bytes |-> v])
  /\ UNCHANGED <<stores, boot, registry, lock, running, edits, history>>

Staged(r) == [plugin |-> req[r].plugin, uuid |-> req[r].uuid, bytes |-> req[r].bytes]

(* Copy and validate; what fails is removed.                               *)
Stage(r) ==
  /\ At(r, "stage")
  /\ \/ staging' = staging \cup {Staged(r)} /\ Goto(r, Step(r, "insert"))
     \/ staging' = staging /\ Goto(r, Idle)
  /\ UNCHANGED <<disk, rows, kv, blobs, minted, boot, registry, lock, running, edits,
                 history>>

(* Mutant: no unique index over the live rows.                             *)
UniqueLive_Any(p) == TRUE

(* The partial unique index plugin_installation_live.                      *)
UniqueLive(p) == Live(p) = {}

(* The unique index refuses a second live row; the database may fail.      *)
InsertRow(r) ==
  /\ At(r, "insert")
  /\ \/ /\ UniqueLive(req[r].plugin)
        /\ SetRow(req[r].plugin, req[r].uuid, [state |-> "live", digest |-> req[r].bytes])
        /\ Goto(r, Step(r, "rename"))
        /\ UNCHANGED staging
     \/ /\ staging' = staging \ {Staged(r)}
        /\ Goto(r, Idle)
        /\ UNCHANGED rows
  /\ UNCHANGED <<disk, kv, blobs, minted, boot, registry, lock, running, edits, history>>

(* The package appears at once, or not at all.                             *)
Rename(r) ==
  LET p == req[r].plugin IN
  /\ At(r, "rename")
  /\ staging' = staging \ {Staged(r)}
  /\ \/ /\ disk[Home[p]] = None
        /\ disk' = [disk EXCEPT ![Home[p]] =
                      [id |-> p, readable |-> TRUE, bytes |-> req[r].bytes]]
        /\ placed' = placed \ {Home[p]}
        /\ gone' = gone \ {p}
        /\ Goto(r, Step(r, "index"))
     \/ /\ Goto(r, Step(r, "rollback"))
        /\ UNCHANGED <<disk, placed, gone>>
  /\ UNCHANGED <<rows, kv, blobs, minted, boot, registry, lock, running, edits,
                 known, purged>>

(* The row is deleted, or stays as an orphan when that fails too.          *)
Rollback(r) ==
  /\ At(r, "rollback")
  /\ \/ SetRow(req[r].plugin, req[r].uuid, [state |-> "absent", digest |-> None])
     \/ UNCHANGED rows
  /\ Goto(r, Idle)
  /\ UNCHANGED <<disk, staging, kv, blobs, minted, boot, registry, lock, running, edits,
                 history>>

Index(r) ==
  LET p == req[r].plugin IN
  /\ At(r, "index")
  /\ ~EntriesLocked
  /\ entries' = [entries EXCEPT ![p] =
                   [uuid |-> req[r].uuid, dir |-> Home[p], digest |-> req[r].bytes]]
  /\ known' = [known EXCEPT ![p] = IF disk[Home[p]] = None THEN None ELSE req[r].uuid]
  /\ Goto(r, Idle)
  /\ UNCHANGED <<stores, minted, boot, quarantined, lock, running, edits, placed,
                 purged, gone>>

(* The handler of DELETE: under the plugin's lock, no instance runs.       *)
Uninstall(r, p) ==
  /\ phase = "up"
  /\ At(r, "idle")
  /\ lock[p] = None
  /\ running[p] = None
  /\ lock' = [lock EXCEPT ![p] = r]
  /\ Goto(r, [pc |-> "purge_kv", plugin |-> p])
  /\ UNCHANGED <<stores, minted, boot, registry, running, edits, history>>

(* installation_uuid_for, and what uninstall resolves: entries first.      *)
Resolved(p) ==
  IF entries[p] # None THEN [uuid |-> entries[p].uuid, dirs |-> {entries[p].dir}]
  ELSE IF quarantined[p] # None THEN quarantined[p] ELSE Placeholder
Installed(p) == entries[p] # None \/ quarantined[p] # None

PurgeKv(r) ==
  LET p == req[r].plugin IN
  /\ At(r, "purge_kv")
  /\ ~EntriesLocked
  /\ \/ /\ kv' = kv \ {<<p, Resolved(p).uuid>>}
        /\ Goto(r, [pc |-> "purge_blobs", plugin |-> p, uuid |-> Resolved(p).uuid])
        /\ UNCHANGED lock
     \/ UNCHANGED kv /\ Return(r)
  /\ UNCHANGED <<disk, staging, rows, blobs, minted, boot, registry, running, edits,
                 history>>

PurgeBlobs(r) ==
  LET p == req[r].plugin IN
  /\ At(r, "purge_blobs")
  /\ \/ /\ blobs' = blobs \ {<<p, req[r].uuid>>}
        /\ Goto(r, [pc |-> "resolve", plugin |-> p])
        /\ UNCHANGED lock
     \/ UNCHANGED blobs /\ Return(r)
  /\ UNCHANGED <<disk, staging, rows, kv, minted, boot, registry, running, edits,
                 history>>

(* InstalledPluginRegistry::uninstall: the look-up.                        *)
Resolve(r) ==
  LET p == req[r].plugin IN
  /\ At(r, "resolve")
  /\ ~EntriesLocked
  /\ IF Installed(p)
     THEN /\ Goto(r, [pc |-> "remove", plugin |-> p, uuid |-> Resolved(p).uuid,
                      dirs |-> Resolved(p).dirs])
          /\ UNCHANGED lock
     ELSE Return(r)
  /\ UNCHANGED <<stores, minted, boot, registry, running, edits, history>>

(* remove_dir_all of one directory.  When it fails, or is cut short, the   *)
(* directory may have lost its manifest or its wasm.                       *)
Damaged(package) == {package, [package EXCEPT !.readable = FALSE],
                     [package EXCEPT !.bytes = "no_wasm"]}

RemoveDir(r) ==
  /\ At(r, "remove")
  /\ \E d \in req[r].dirs :
       \/ /\ disk' = [disk EXCEPT ![d] = None]
          /\ Goto(r, [req[r] EXCEPT !.dirs = @ \ {d}])
          /\ UNCHANGED lock
       \/ /\ disk[d] # None
          /\ \E left \in Damaged(disk[d]) : disk' = [disk EXCEPT ![d] = left]
          /\ Return(r)
  /\ known' = [p \in Plugins |->
                 IF \E e \in Dirs : disk'[e] # None /\ disk'[e].id = p
                 THEN known[p] ELSE None]
  /\ UNCHANGED <<staging, rows, kv, blobs, minted, boot, registry, running, edits,
                 placed, purged, gone>>

(* Mutant: the row may be tombstoned while directories remain.             *)
AllRemoved_RowFirst(r) == TRUE

(* Directories first, the row after the last of them.                      *)
AllRemoved(r) == req[r].dirs = {}

(* When an entry and a quarantine entry of the plugin exist side by side,  *)
(* this uninstall is of the entry only.                                    *)
WholePlugin(r) ==
  LET p == req[r].plugin IN
  req[r].uuid # NoRow /\ ~(entries[p] # None /\ quarantined[p] # None)

Tombstone(r) ==
  LET p == req[r].plugin IN
  /\ At(r, "remove")
  /\ AllRemoved(r)
  /\ \/ /\ rows' = IF req[r].uuid = NoRow THEN rows ELSE Tombstoned(p, req[r].uuid)
        /\ Goto(r, Step(r, "drop"))
        /\ known' = [known EXCEPT ![p] = None]
        /\ purged' = purged \cup {<<p, req[r].uuid>>}
        /\ gone' = IF WholePlugin(r) THEN gone \cup {p} ELSE gone
        /\ UNCHANGED lock
     \/ UNCHANGED <<rows, known, purged, gone>> /\ Return(r)
  /\ UNCHANGED <<disk, staging, kv, blobs, minted, boot, registry, running, edits, placed>>

Drop(r) ==
  LET p == req[r].plugin IN
  /\ At(r, "drop")
  /\ IF entries[p] # None
     THEN entries' = [entries EXCEPT ![p] = None] /\ UNCHANGED quarantined
     ELSE quarantined' = [quarantined EXCEPT ![p] = None] /\ UNCHANGED entries
  /\ Return(r)
  /\ UNCHANGED <<stores, minted, boot, running, edits, history>>

(* The handler of POST start: look-up and registration under the lock.     *)
Start(r, p) ==
  /\ phase = "up"
  /\ At(r, "idle")
  /\ lock[p] = None
  /\ ~EntriesLocked
  /\ entries[p] # None
  /\ lock' = [lock EXCEPT ![p] = r]
  /\ Goto(r, [pc |-> "register", plugin |-> p, uuid |-> entries[p].uuid,
                dir |-> entries[p].dir])
  /\ UNCHANGED <<stores, minted, boot, registry, running, edits, history>>

(* The manifest is read in between; a taken instance id refuses.           *)
Register(r) ==
  LET p == req[r].plugin IN
  /\ At(r, "register")
  /\ IF running[p] = None /\ Readable(req[r].dir)
     THEN /\ running' = [running EXCEPT ![p] = [uuid |-> req[r].uuid, dir |-> req[r].dir,
                                              loaded |-> FALSE]]
          /\ Goto(r, Step(r, "wait"))
          /\ UNCHANGED lock
     ELSE Return(r) /\ UNCHANGED running
  /\ UNCHANGED <<stores, minted, boot, registry, edits, history>>

StartReturns(r) ==
  LET p == req[r].plugin IN
  /\ At(r, "wait")
  /\ running[p] # None => running[p].loaded
  /\ Return(r)
  /\ UNCHANGED <<stores, minted, boot, registry, running, edits, history>>

(* Mutant: the guard stays with the handler's future, so an uninstall that *)
(* goes on in its blocking task no longer holds the lock.                  *)
HangUp_BorrowedGuard(r) ==
  /\ ~At(r, "idle")
  /\ Free(r)
  /\ UNCHANGED <<req, stores, minted, boot, registry, running, edits, history>>

(* The client hangs up.  A start lets go of the lock; an uninstall keeps   *)
(* it, its guard has moved into the blocking task.                         *)
HangUp(r) ==
  /\ req[r].pc \in {"register", "wait"}
  /\ Return(r)
  /\ UNCHANGED <<stores, minted, boot, registry, running, edits, history>>

(* Mutant: the loader takes the bytes without comparing digests.           *)
LoadAdmitted_AnyBytes(p) ==
  /\ entries[p] # None
  /\ entries[p].uuid = running[p].uuid
  /\ entries[p].dir = running[p].dir
  /\ Readable(entries[p].dir)

(* The supervisor loads the plugin, the first time or again.  The row it   *)
(* was started for must be there and vouch for the bytes; kv and blob      *)
(* usage rows are made.                                                    *)
LoadAdmitted(p) ==
  /\ entries[p] # None
  /\ entries[p].uuid = running[p].uuid
  /\ entries[p].dir = running[p].dir
  /\ Readable(entries[p].dir)
  /\ disk[entries[p].dir].bytes = entries[p].digest

Load(p) ==
  /\ running[p] # None
  /\ ~running[p].loaded
  /\ ~EntriesLocked
  /\ IF LoadAdmitted(p)
     THEN /\ running' = [running EXCEPT ![p].loaded = TRUE]
          /\ kv' = kv \cup {<<p, running[p].uuid>>}
     ELSE /\ running' = [running EXCEPT ![p] = None]
          /\ UNCHANGED kv
  /\ UNCHANGED <<disk, staging, rows, blobs, minted, boot, registry, req, lock, edits,
                 history>>

WriteBlob(p) ==
  /\ running[p] # None
  /\ running[p].loaded
  /\ blobs' = blobs \cup {<<p, running[p].uuid>>}
  /\ UNCHANGED <<disk, staging, rows, kv, minted, boot, registry, api, edits, history>>

(* A crash of the guest: the supervisor loads again, or gives up.          *)
Restart(p) ==
  /\ running[p] # None
  /\ running' \in {[running EXCEPT ![p].loaded = FALSE], [running EXCEPT ![p] = None]}
  /\ UNCHANGED <<stores, minted, boot, registry, req, lock, edits, history>>

-----------------------------------------------------------------------------
Init ==
  /\ disk = [d \in Dirs |-> None]
  /\ staging = {}
  /\ rows = [p \in Plugins |-> [u \in Uuids |-> [state |-> "absent", digest |-> None]]]
  /\ kv = {} /\ blobs = {}
  /\ minted = [p \in Plugins |-> 0]
  /\ phase = "down"
  /\ sweep = {} /\ backfill = {}
  /\ entries = [p \in Plugins |-> None]
  /\ quarantined = [p \in Plugins |-> None]
  /\ req = [r \in Requests |-> Idle]
  /\ lock = [p \in Plugins |-> None]
  /\ running = [p \in Plugins |-> None]
  /\ edits = 0
  /\ placed = {}
  /\ known = [p \in Plugins |-> None]
  /\ purged = {}
  /\ gone = {}

Boot == Scan \/ ScanDone \/ Crash
        \/ \E p \in Plugins : SweepOrphan(p) \/ InsertBackfill(p)
Hand == \/ \E d \in Dirs, package \in Package \cup {None} : Edit(d, package)
        \/ \E p \in Plugins : Degrade(p)
Installing(r) == \/ \E p \in Plugins, v \in Versions : Install(r, p, v)
                 \/ Stage(r) \/ InsertRow(r) \/ Rename(r) \/ Rollback(r) \/ Index(r)
Uninstalling(r) == \/ \E p \in Plugins : Uninstall(r, p)
                   \/ PurgeKv(r) \/ PurgeBlobs(r) \/ Resolve(r) \/ RemoveDir(r)
                   \/ Tombstone(r) \/ Drop(r)
Starting(r) == \/ \E p \in Plugins : Start(r, p)
               \/ Register(r) \/ StartReturns(r) \/ HangUp(r)
Instance(p) == Load(p) \/ WriteBlob(p) \/ Restart(p)

Next == \/ Boot \/ Hand
        \/ \E r \in Requests : Installing(r) \/ Uninstalling(r) \/ Starting(r)
        \/ \E p \in Plugins : Instance(p)

Spec == Init /\ [][Next]_vars
-----------------------------------------------------------------------------
(* Properties.                                                             *)

(* The state is well formed: what memory says of a plugin is an entry, a   *)
(* quarantine entry or nothing, and no row is live twice (the unique index *)
(* plugin_installation_live).                                              *)
PluginsTypeOK ==
  /\ disk \in [Dirs -> Package \cup {None}]
  /\ rows \in [Plugins -> [Uuids -> Row]]
  /\ \A p \in Plugins : Cardinality(Live(p)) <= 1
  /\ phase \in {"down", "sweep", "up"}
  /\ sweep \subseteq Plugins /\ backfill \subseteq Plugins
  /\ entries \in [Plugins -> [uuid : Uuids, dir : Dirs, digest : Versions] \cup {None}]
  /\ quarantined \in
       [Plugins -> [uuid : {NoRow} \cup Uuids, dirs : SUBSET Dirs] \cup {None}]
  /\ minted \in [Plugins -> 0..MaxUuid]
  /\ kv \cup blobs \subseteq Plugins \X Uuids
  /\ lock \in [Plugins -> Requests \cup {None}]

(* A directory the daemon put there has its live row, at every step of an  *)
(* install, an uninstall or a boot and whatever crashes or fails: the row  *)
(* is inserted before the rename and outlives remove_dir_all.  So no scan  *)
(* takes a failed install, or a failed uninstall, for a package of unknown *)
(* origin and gives it a new identity.                                     *)
DirHasRow ==
  \A d \in Dirs : Readable(d) /\ d \notin placed => Live(disk[d].id) # {}

(* installation_uuid does not rotate while a directory of the plugin is on *)
(* disk and nobody uninstalled it: not over crashes, failed uninstalls,    *)
(* manifests that do not parse for a boot, or duplicates.                  *)
IdentityKept ==
  [][\A p \in Plugins :
       known[p] # None /\ known'[p] # None => known'[p] = known[p]]_vars

(* What was uninstalled does not come back by itself at a later boot: no   *)
(* directory of it, a duplicate one included, is left to be served.        *)
GoneStaysGone ==
  phase = "up" => \A p \in gone : Quiet(p) => entries[p] = None

(* An instance runs the bytes its grant was issued for: the row of its     *)
(* installation is live and vouches for what is on disk, however its load  *)
(* raced an uninstall of the plugin.                                       *)
RunsAsInstalled ==
  \A p \in Plugins :
    running[p] # None /\ running[p].loaded =>
      /\ running[p].uuid \in Live(p)
      /\ Readable(running[p].dir)
      /\ rows[p][running[p].uuid].digest = disk[running[p].dir].bytes

(* An uninstall that went through leaves no KV or blob state under the     *)
(* installation, for ever: the state is purged before the tombstone and    *)
(* no instance of the plugin writes in between.                            *)
UninstallPurges == purged \cap (kv \cup blobs) = {}

(* While nothing is under way for the plugin, every directory of it that   *)
(* can be read, and that makes install answer AlreadyInstalled, is one     *)
(* that uninstall resolves and removes.                                    *)
Recoverable ==
  phase = "up" =>
    \A d \in Dirs : Readable(d) /\ Quiet(disk[d].id) =>
      \/ entries[disk[d].id] # None /\ entries[disk[d].id].dir = d
      \/ quarantined[disk[d].id] # None /\ d \in quarantined[disk[d].id].dirs

(* What the comment in uninstall promises of a failed remove_dir_all: a    *)
(* retry converges.  So a directory that the daemon put there and that     *)
(* makes install answer AlreadyInstalled can be uninstalled.  Violated:    *)
(* remove_dir_all stops after the manifest is gone, the daemon restarts,   *)
(* and the scan records the directory nowhere.                             *)
RetryConverges ==
  phase = "up" =>
    \A p \in Plugins :
      Quiet(p) /\ disk[Home[p]] # None /\ Home[p] \notin placed => Installed(p)
=============================================================================
