------------------------ MODULE InstalledPlugins_proofs ------------------------
(***************************************************************************)
(* Proofs about InstalledPlugins, for any number of plugins, requests,     *)
(* directories, crashes and edits.                                         *)
(*                                                                         *)
(* First, what an uninstall purged stays purged.  The invariant, PurgeInv, *)
(* says that a request that works on a plugin's state holds its lock while *)
(* nothing of the plugin runs, that an identity on its way through an      *)
(* install is nowhere else, and that an identity that was purged is        *)
(* neither live nor served nor running.  Then, what is on disk, in the     *)
(* table and in memory agree (CatalogInv).                                 *)
(***************************************************************************)
EXTENDS InstalledPlugins, FiniteSetTheorems, TLAPS

Installs == {"stage", "insert", "rename", "rollback", "index"}
Uninstalls == {"purge_kv", "purge_blobs", "resolve", "remove", "drop"}
Starts == {"register", "wait"}
Resolves == {"remove", "drop"}

Ids == {NoRow} \cup Uuids
Entries == [uuid : Uuids, dir : Dirs, digest : Versions]
Quarantines == [uuid : Ids, dirs : SUBSET Dirs]
Instances == [uuid : Uuids, dir : Dirs, loaded : BOOLEAN]
InstallReqs == [pc : Installs, plugin : Plugins, uuid : Uuids, bytes : Versions]
PurgeReqs == [pc : {"purge_kv", "resolve"}, plugin : Plugins]
BlobReqs == [pc : {"purge_blobs"}, plugin : Plugins, uuid : Ids]
RemoveReqs == [pc : Resolves, plugin : Plugins, uuid : Ids, dirs : SUBSET Dirs]
StartReqs == [pc : Starts, plugin : Plugins, uuid : Uuids, dir : Dirs]
Reqs == {Idle} \cup InstallReqs \cup PurgeReqs \cup BlobReqs \cup RemoveReqs \cup StartReqs

Types ==
  /\ disk \in [Dirs -> Package \cup {None}]
  /\ minted \in [Plugins -> 0..MaxUuid]
  /\ rows \in [Plugins -> [Uuids -> Row]]
  /\ phase \in {"down", "sweep", "up"}
  /\ sweep \subseteq Plugins /\ backfill \subseteq Plugins
  /\ entries \in [Plugins -> Entries \cup {None}]
  /\ quarantined \in [Plugins -> Quarantines \cup {None}]
  /\ running \in [Plugins -> Instances \cup {None}]
  /\ req \in [Requests -> Reqs]
  /\ lock \in [Plugins -> Requests \cup {None}]
  /\ kv \subseteq Plugins \X Uuids /\ blobs \subseteq Plugins \X Uuids
  /\ purged \subseteq Plugins \X Ids

(* One row per plugin is live, and the scan makes rows only where none is. *)
OneLive ==
  /\ \A p \in Plugins, u, v \in Uuids :
       rows[p][u].state = "live" /\ rows[p][v].state = "live" => u = v
  /\ phase = "sweep" => \A p \in backfill :
       /\ minted[p] \in Uuids
       /\ Live(p) = {}
       /\ disk[First(p)].bytes \in Versions

(* Before the scan is done nobody serves and nothing runs.                 *)
Booting ==
  phase # "up" =>
    /\ \A r \in Requests : req[r] = Idle
    /\ \A p \in Plugins : running[p] = None

(* Who purges or starts has the plugin's lock, and an uninstall finds no   *)
(* instance for as long as it takes.                                       *)
Locked ==
  \A r \in Requests :
    /\ req[r].pc \in Uninstalls \cup Starts => lock[req[r].plugin] = r
    /\ req[r].pc \in Uninstalls => running[req[r].plugin] = None

(* No identity is ahead of the counter.                                    *)
Minted ==
  \A p \in Plugins :
    /\ \A u \in Uuids : rows[p][u].state = "live" => u <= minted[p]
    /\ entries[p] # None => entries[p].uuid <= minted[p]
    /\ quarantined[p] # None => quarantined[p].uuid <= minted[p]
    /\ running[p] # None => running[p].uuid <= minted[p]
    /\ \A u \in Ids : <<p, u>> \in kv \cup blobs \cup purged => u <= minted[p]
    /\ \A r \in Requests :
         req[r].pc \in Installs \cup Starts \cup Resolves /\ req[r].plugin = p =>
           req[r].uuid <= minted[p]

(* An identity on its way through an install is not in use elsewhere.      *)
InUse(p, u) ==
  \/ <<p, u>> \in kv \cup blobs \cup purged
  \/ entries[p] # None /\ entries[p].uuid = u
  \/ quarantined[p] # None /\ quarantined[p].uuid = u
  \/ running[p] # None /\ running[p].uuid = u

Apart ==
  \A r \in Requests : req[r].pc \in Installs =>
    /\ ~InUse(req[r].plugin, req[r].uuid)
    /\ \A q \in Requests :
         /\ q # r
         /\ req[q].pc \in Installs \cup Starts \cup Resolves
         /\ req[q].plugin = req[r].plugin
         => req[q].uuid # req[r].uuid

(* What an uninstall has purged by now.                                    *)
Purging ==
  \A r \in Requests :
    LET p == req[r].plugin
        u == Resolved(req[r].plugin).uuid
    IN /\ req[r].pc = "purge_blobs" =>
            <<p, u>> \notin kv /\ (<<p, u>> \in blobs => u = req[r].uuid)
       /\ req[r].pc \in {"resolve"} \cup Resolves => <<p, u>> \notin kv \cup blobs
       /\ req[r].pc \in Resolves => Installed(p) /\ u = req[r].uuid

(* One uninstall at a time has the write lock of the entries.              *)
OneResolves ==
  \A r, q \in Requests : req[r].pc \in Resolves /\ req[q].pc \in Resolves => q = r

(* A purged identity is not live, not minted for a backfill, served only   *)
(* until its uninstall drops the entry, and does not run.                  *)
Gone ==
  \A p \in Plugins :
    /\ \A u \in Uuids : rows[p][u].state = "live" => <<p, u>> \notin purged
    /\ phase = "sweep" /\ p \in backfill => <<p, minted[p]>> \notin purged
    /\ entries[p] # None /\ <<p, entries[p].uuid>> \in purged =>
         \E r \in Requests : req[r].pc = "drop" /\ req[r].plugin = p
    /\ running[p] # None /\ running[p].loaded => <<p, running[p].uuid>> \notin purged

PurgeInv ==
  /\ Types /\ OneLive /\ Booting /\ Locked /\ Minted /\ Apart /\ Purging /\ OneResolves /\ Gone
  /\ UninstallPurges

-----------------------------------------------------------------------------
(* What a request carries, by where it is.                                 *)
LEMMA ReqTypes ==
  ASSUME Types, NEW r \in Requests
  PROVE  /\ req[r].pc \in Installs => req[r] \in InstallReqs
         /\ req[r].pc \in {"purge_kv", "resolve"} => req[r] \in PurgeReqs
         /\ req[r].pc = "purge_blobs" => req[r] \in BlobReqs
         /\ req[r].pc \in Resolves => req[r] \in RemoveReqs
         /\ req[r].pc \in Starts => req[r] \in StartReqs
  BY DEF Types, Reqs, Idle, Installs, Uninstalls, Starts, Resolves, InstallReqs, PurgeReqs,
         BlobReqs, RemoveReqs, StartReqs

LEMMA ResolvedTypes ==
  ASSUME Types, NEW p \in Plugins
  PROVE  Resolved(p) \in Quarantines
  BY PluginsAssumption DEF Types, Resolved, Quarantines, Entries, Placeholder, Ids, NoRow

(* A tombstone makes no row live, and its own no longer.                   *)
LEMMA TombstonedRows ==
  ASSUME Types, NEW p \in Plugins, NEW u \in Ids
  PROVE  /\ Tombstoned(p, u) \in [Plugins -> [Uuids -> Row]]
         /\ \A q \in Plugins, v \in Uuids :
              Tombstoned(p, u)[q][v].state = "live" =>
                rows[q][v].state = "live" /\ ~(q = p /\ v = u)
<1> DEFINE row == IF rows[p][u].state = "live"
                  THEN [rows[p][u] EXCEPT !.state = "tombstoned"] ELSE rows[p][u]
<1>1. rows \in [Plugins -> [Uuids -> Row]]
  BY DEF Types
<1>2. Tombstoned(p, u) = [rows EXCEPT ![p] = [rows[p] EXCEPT ![u] = row]]
  BY <1>1 DEF Tombstoned
<1>3. u \in Uuids => row \in Row /\ row.state # "live"
  BY <1>1 DEF Row
<1> HIDE DEF row
<1>4. [rows[p] EXCEPT ![u] = row] \in [Uuids -> Row]
  BY <1>1, <1>3
<1>5. ASSUME NEW v \in Uuids, [rows[p] EXCEPT ![u] = row][v].state = "live"
      PROVE  rows[p][v].state = "live" /\ v # u
  BY <1>1, <1>3, <1>5
<1> QED
  BY <1>1, <1>2, <1>4, <1>5

LEMMA LiveIds == ASSUME Types, NEW p \in Plugins
                 PROVE  LiveUuid(p) \in Ids /\ (Live(p) # {} => LiveUuid(p) \in Live(p))
  BY DEF LiveUuid, Live, Ids, NoRow

LEMMA TypesBoot == ASSUME PurgeInv, Boot PROVE Types'
<1> SUFFICES ASSUME Types PROVE Types'
  BY DEF PurgeInv
<1> USE PluginsAssumption DEF Types
<1>1. CASE Scan
  <2>1. minted' \in [Plugins -> 0..MaxUuid]
    <3>1. ASSUME NEW p \in Plugins
          PROVE  (IF p \in Backfilled THEN minted[p] + 1 ELSE minted[p]) \in 0..MaxUuid
      <4>1. minted[p] \in 0..MaxUuid /\ MaxUuid \in Nat
        OBVIOUS
      <4>2. p \in Backfilled => minted[p] < MaxUuid
        BY <1>1 DEF Scan
      <4> QED
        BY <4>1, <4>2
    <3> QED
      BY <1>1, <3>1 DEF Scan
  <2>2. ASSUME NEW p \in Plugins PROVE LiveUuid(p) \in Ids /\ (Live(p) # {} => LiveUuid(p) \in Uuids)
    BY LiveIds DEF Live
  <2>3. ASSUME NEW p \in Plugins PROVE ScanUuid(p) \in Ids
    BY <1>1, <2>2 DEF Scan, ScanUuid, Ids, Uuids, NoRow
  <2>4. ASSUME NEW p \in Plugins, Indexed(p) PROVE ScanEntry(p) \in Entries
    <3>1. First(p) \in Dirs /\ Sightings(p) # {}
      BY <2>4 DEF Indexed, First, Sightings
    <3>2. ScanUuid(p) \in Uuids
      <4>1. CASE p \in Backfilled
        BY <1>1, <4>1 DEF ScanUuid, Scan, Uuids
      <4>2. CASE p \notin Backfilled
        BY <2>2, <2>4, <3>1, <4>2 DEF ScanUuid, Indexed, Backfilled
      <4> QED
        BY <4>1, <4>2
    <3> QED
      BY <2>4, <3>1, <3>2 DEF ScanEntry, Indexed, Entries
  <2>5. ASSUME NEW p \in Plugins PROVE ScanQuarantine(p) \in Quarantines \cup {None}
    <3>1. Recorded(p) \subseteq Dirs
      BY DEF Recorded, Sightings, NamedDir
    <3> QED
      BY <2>3, <3>1 DEF ScanQuarantine, Quarantines
  <2>6. sweep' \subseteq Plugins /\ backfill' \subseteq Plugins
    BY <1>1 DEF Scan, Orphans, Backfilled
  <2>7. entries' \in [Plugins -> Entries \cup {None}]
    BY <1>1, <2>4 DEF Scan, ScanEntry
  <2>8. quarantined' \in [Plugins -> Quarantines \cup {None}]
    BY <1>1, <2>5 DEF Scan
  <2> QED
    BY <1>1, <2>1, <2>6, <2>7, <2>8 DEF Scan, api, history
<1>2. ASSUME NEW p \in Plugins, SweepOrphan(p) PROVE Types'
  <2>1. Tombstoned(p, LiveUuid(p)) \in [Plugins -> [Uuids -> Row]]
    BY TombstonedRows, LiveIds
  <2> QED
    BY <1>2, <2>1 DEF SweepOrphan, registry, api, history
<1>3. ASSUME NEW p \in Plugins, InsertBackfill(p) PROVE Types'
  <2>1. [state |-> "live", digest |-> disk[First(p)].bytes] \in Row
    BY <1>3 DEF PurgeInv, OneLive, InsertBackfill, Row
  <2>2. rows' \in [Plugins -> [Uuids -> Row]]
    BY <1>3, <2>1 DEF InsertBackfill, SetRow
  <2> QED
    BY <1>3, <2>2 DEF InsertBackfill, registry, api, history
<1>4. CASE ScanDone
  BY <1>4 DEF ScanDone, stores, registry, api
<1>5. CASE Crash
  BY <1>5 DEF Crash, stores, history, Reqs
<1> QED
  BY <1>1, <1>2, <1>3, <1>4, <1>5 DEF Boot

LEMMA GotoTypes ==
  ASSUME Types, NEW r \in Requests
  PROVE  /\ \A s \in Reqs : Goto(r, s) => req' \in [Requests -> Reqs]
         /\ Return(r) => req' \in [Requests -> Reqs] /\ lock' \in [Plugins -> Requests \cup {None}]
<1>1. Idle \in Reqs
  BY DEF Reqs
<1> QED
  BY <1>1 DEF Types, Goto, Return, Free

LEMMA StepTypes ==
  ASSUME Types, NEW r \in Requests
  PROVE  /\ At(r, "stage") => Step(r, "insert") \in Reqs
         /\ At(r, "insert") => Step(r, "rename") \in Reqs
         /\ At(r, "rename") => Step(r, "index") \in Reqs /\ Step(r, "rollback") \in Reqs
         /\ At(r, "remove") => Step(r, "drop") \in Reqs
         /\ At(r, "register") => Step(r, "wait") \in Reqs
<1>1. ASSUME NEW pc \in Installs, req[r].pc \in Installs PROVE Step(r, pc) \in Reqs
  BY <1>1, ReqTypes DEF Step, Reqs, InstallReqs
<1>2. ASSUME NEW pc \in Resolves, req[r].pc \in Resolves PROVE Step(r, pc) \in Reqs
  BY <1>2, ReqTypes DEF Step, Reqs, RemoveReqs
<1>3. ASSUME NEW pc \in Starts, req[r].pc \in Starts PROVE Step(r, pc) \in Reqs
  BY <1>3, ReqTypes DEF Step, Reqs, StartReqs
<1> QED
  BY <1>1, <1>2, <1>3 DEF At, Installs, Resolves, Starts

LEMMA TypesHand == ASSUME PurgeInv, Hand PROVE Types'
<1> SUFFICES ASSUME Types PROVE Types'
  BY DEF PurgeInv
<1> USE PluginsAssumption DEF Types
<1>1. ASSUME NEW d \in Dirs, NEW package \in Package \cup {None}, Edit(d, package) PROVE Types'
  BY <1>1 DEF Edit, boot, registry, api
<1>2. ASSUME NEW p \in Plugins, Degrade(p) PROVE Types'
  <2>1. [state |-> "live", digest |-> None] \in Row
    BY DEF Row
  <2>2. rows' \in [Plugins -> [Uuids -> Row]]
    BY <1>2, <2>1 DEF Degrade, SetRow
  <2> QED
    BY <1>2, <2>2 DEF Degrade, boot, registry, api, history
<1> QED
  BY <1>1, <1>2 DEF Hand

LEMMA TypesInstalling == ASSUME PurgeInv, NEW r \in Requests, Installing(r) PROVE Types'
<1> SUFFICES ASSUME Types PROVE Types'
  BY DEF PurgeInv
<1> USE PluginsAssumption DEF Types
<1>1. ASSUME NEW p \in Plugins, NEW v \in Versions, Install(r, p, v) PROVE Types'
  <2>1. minted[p] + 1 \in Uuids /\ minted' \in [Plugins -> 0..MaxUuid]
    BY <1>1 DEF Install, Uuids
  <2>2. [pc |-> "stage", plugin |-> p, uuid |-> minted[p] + 1, bytes |-> v] \in Reqs
    BY <2>1 DEF Reqs, InstallReqs, Installs
  <2>3. req' \in [Requests -> Reqs]
    BY <1>1, <2>2, GotoTypes DEF Install
  <2> QED
    BY <1>1, <2>1, <2>3 DEF Install, stores, boot, registry, history
<1>2. CASE Stage(r)
  <2>1. req' \in [Requests -> Reqs]
    BY <1>2, GotoTypes, StepTypes DEF Stage, Reqs
  <2> QED
    BY <1>2, <2>1 DEF Stage, boot, registry, history
<1>3. CASE InsertRow(r)
  <2>1. req' \in [Requests -> Reqs]
    BY <1>3, GotoTypes, StepTypes DEF InsertRow, Reqs
  <2>2. CASE UNCHANGED rows
    BY <1>3, <2>1, <2>2 DEF InsertRow, boot, registry, history
  <2>3. CASE SetRow(req[r].plugin, req[r].uuid, [state |-> "live", digest |-> req[r].bytes])
    <3>1. req[r] \in InstallReqs
      BY <1>3, ReqTypes DEF InsertRow, At, Installs
    <3>2. [state |-> "live", digest |-> req[r].bytes] \in Row
      BY <3>1 DEF InstallReqs, Row
    <3>3. rows' \in [Plugins -> [Uuids -> Row]]
      BY <2>3, <3>2 DEF SetRow
    <3> QED
      BY <1>3, <2>1, <3>3 DEF InsertRow, boot, registry, history
  <2> QED
    BY <1>3, <2>2, <2>3 DEF InsertRow
<1>4. CASE Rename(r)
  <2>1. req' \in [Requests -> Reqs]
    BY <1>4, GotoTypes, StepTypes DEF Rename
  <2>2. req[r] \in InstallReqs
    BY <1>4, ReqTypes DEF Rename, At, Installs
  <2>3. [id |-> req[r].plugin, readable |-> TRUE, bytes |-> req[r].bytes] \in Package
    BY <2>2 DEF InstallReqs, Package, Bytes
  <2>4. disk' \in [Dirs -> Package \cup {None}]
    BY <1>4, <2>3 DEF Rename
  <2> QED
    BY <1>4, <2>1, <2>4 DEF Rename, boot, registry
<1>5. CASE Rollback(r)
  <2>1. req' \in [Requests -> Reqs]
    BY <1>5, GotoTypes DEF Rollback, Reqs
  <2>2. [state |-> "absent", digest |-> None] \in Row
    BY DEF Row
  <2>3. rows' \in [Plugins -> [Uuids -> Row]]
    <3>1. CASE SetRow(req[r].plugin, req[r].uuid, [state |-> "absent", digest |-> None])
      BY <2>2, <3>1 DEF SetRow
    <3> QED
      BY <1>5, <3>1 DEF Rollback
  <2> QED
    BY <1>5, <2>1, <2>3 DEF Rollback, boot, registry, history
<1>6. CASE Index(r)
  <2>1. req' \in [Requests -> Reqs]
    BY <1>6, GotoTypes DEF Index, Reqs
  <2>2. req[r] \in InstallReqs
    BY <1>6, ReqTypes DEF Index, At, Installs
  <2>3. [uuid |-> req[r].uuid, dir |-> Home[req[r].plugin], digest |-> req[r].bytes] \in Entries
    BY <2>2 DEF InstallReqs, Entries
  <2>4. entries' \in [Plugins -> Entries \cup {None}]
    BY <1>6, <2>3 DEF Index
  <2> QED
    BY <1>6, <2>1, <2>4 DEF Index, stores, boot
<1> QED
  BY <1>1, <1>2, <1>3, <1>4, <1>5, <1>6 DEF Installing

LEMMA TypesUninstalling == ASSUME PurgeInv, NEW r \in Requests, Uninstalling(r) PROVE Types'
<1> SUFFICES ASSUME Types PROVE Types'
  BY DEF PurgeInv
<1> USE PluginsAssumption DEF Types
<1>1. ASSUME NEW p \in Plugins, Uninstall(r, p) PROVE Types'
  <2>1. [pc |-> "purge_kv", plugin |-> p] \in Reqs
    BY DEF Reqs, PurgeReqs
  <2>2. req' \in [Requests -> Reqs]
    BY <1>1, <2>1, GotoTypes DEF Uninstall
  <2> QED
    BY <1>1, <2>2 DEF Uninstall, stores, boot, registry, history
<1>2. CASE PurgeKv(r)
  <2>1. req[r].plugin \in Plugins
    BY <1>2, ReqTypes DEF PurgeKv, At, PurgeReqs
  <2>2. Resolved(req[r].plugin).uuid \in Ids
    BY <2>1, ResolvedTypes DEF Quarantines
  <2>3. [pc |-> "purge_blobs", plugin |-> req[r].plugin, uuid |-> Resolved(req[r].plugin).uuid]
          \in Reqs
    BY <2>1, <2>2 DEF Reqs, BlobReqs
  <2>4. req' \in [Requests -> Reqs] /\ lock' \in [Plugins -> Requests \cup {None}]
    BY <1>2, <2>3, GotoTypes DEF PurgeKv
  <2> QED
    BY <1>2, <2>4 DEF PurgeKv, boot, registry, history
<1>3. CASE PurgeBlobs(r)
  <2>1. req[r].plugin \in Plugins
    BY <1>3, ReqTypes DEF PurgeBlobs, At, BlobReqs
  <2>2. [pc |-> "resolve", plugin |-> req[r].plugin] \in Reqs
    BY <2>1 DEF Reqs, PurgeReqs
  <2>3. req' \in [Requests -> Reqs] /\ lock' \in [Plugins -> Requests \cup {None}]
    BY <1>3, <2>2, GotoTypes DEF PurgeBlobs
  <2> QED
    BY <1>3, <2>3 DEF PurgeBlobs, boot, registry, history
<1>4. CASE Resolve(r)
  <2>1. req[r].plugin \in Plugins
    BY <1>4, ReqTypes DEF Resolve, At, PurgeReqs
  <2>2. [pc |-> "remove", plugin |-> req[r].plugin, uuid |-> Resolved(req[r].plugin).uuid,
         dirs |-> Resolved(req[r].plugin).dirs] \in Reqs
    BY <2>1, ResolvedTypes DEF Quarantines, Reqs, RemoveReqs, Resolves
  <2>3. req' \in [Requests -> Reqs] /\ lock' \in [Plugins -> Requests \cup {None}]
    BY <1>4, <2>2, GotoTypes DEF Resolve
  <2> QED
    BY <1>4, <2>3 DEF Resolve, stores, boot, registry, history
<1>5. CASE RemoveDir(r)
  <2>1. req[r] \in RemoveReqs
    BY <1>5, ReqTypes DEF RemoveDir, At, Resolves
  <2>2. ASSUME NEW d \in req[r].dirs PROVE [req[r] EXCEPT !.dirs = @ \ {d}] \in Reqs
    BY <2>1 DEF Reqs, RemoveReqs
  <2>3. req' \in [Requests -> Reqs] /\ lock' \in [Plugins -> Requests \cup {None}]
    BY <1>5, <2>2, GotoTypes DEF RemoveDir
  <2>4. ASSUME NEW d \in Dirs, disk[d] # None PROVE Damaged(disk[d]) \subseteq Package
    <3>1. disk[d] \in Package
      BY <2>4
    <3>2. [disk[d] EXCEPT !.readable = FALSE] \in Package
      BY <3>1 DEF Package
    <3>3. [disk[d] EXCEPT !.bytes = "no_wasm"] \in Package
      BY <3>1 DEF Package, Bytes, Broken
    <3> QED
      BY <3>1, <3>2, <3>3 DEF Damaged
  <2>5. PICK d \in Dirs : \/ disk' = [disk EXCEPT ![d] = None]
                          \/ /\ disk[d] # None
                             /\ \E left \in Damaged(disk[d]) : disk' = [disk EXCEPT ![d] = left]
    BY <1>5, <2>1 DEF RemoveDir, RemoveReqs
  <2>6. disk' \in [Dirs -> Package \cup {None}]
    BY <2>4, <2>5
  <2> QED
    BY <1>5, <2>3, <2>6 DEF RemoveDir, boot, registry
<1>6. CASE Tombstone(r)
  <2>1. req[r].plugin \in Plugins /\ req[r].uuid \in Ids
    BY <1>6, ReqTypes DEF Tombstone, At, Resolves, RemoveReqs
  <2>2. req' \in [Requests -> Reqs] /\ lock' \in [Plugins -> Requests \cup {None}]
    BY <1>6, GotoTypes, StepTypes DEF Tombstone
  <2>3. rows' \in [Plugins -> [Uuids -> Row]]
    BY <1>6, <2>1, TombstonedRows DEF Tombstone
  <2>4. purged' \subseteq Plugins \X Ids
    BY <1>6, <2>1 DEF Tombstone
  <2> QED
    BY <1>6, <2>2, <2>3, <2>4 DEF Tombstone, boot, registry
<1>7. CASE Drop(r)
  <2>1. req' \in [Requests -> Reqs] /\ lock' \in [Plugins -> Requests \cup {None}]
    BY <1>7, GotoTypes DEF Drop
  <2>2. entries' \in [Plugins -> Entries \cup {None}]
    BY <1>7 DEF Drop
  <2>3. quarantined' \in [Plugins -> Quarantines \cup {None}]
    BY <1>7 DEF Drop
  <2> QED
    BY <1>7, <2>1, <2>2, <2>3 DEF Drop, stores, boot, history
<1> QED
  BY <1>1, <1>2, <1>3, <1>4, <1>5, <1>6, <1>7 DEF Uninstalling

LEMMA TypesStarting == ASSUME PurgeInv, NEW r \in Requests, Starting(r) PROVE Types'
<1> SUFFICES ASSUME Types PROVE Types'
  BY DEF PurgeInv
<1> USE PluginsAssumption DEF Types
<1>1. ASSUME NEW p \in Plugins, Start(r, p) PROVE Types'
  <2>1. [pc |-> "register", plugin |-> p, uuid |-> entries[p].uuid, dir |-> entries[p].dir]
          \in Reqs
    BY <1>1 DEF Start, Entries, Reqs, StartReqs, Starts
  <2>2. req' \in [Requests -> Reqs]
    BY <1>1, <2>1, GotoTypes DEF Start
  <2> QED
    BY <1>1, <2>2 DEF Start, stores, boot, registry, history
<1>2. CASE Register(r)
  <2>1. req[r] \in StartReqs
    BY <1>2, ReqTypes DEF Register, At, Starts
  <2>2. req' \in [Requests -> Reqs] /\ lock' \in [Plugins -> Requests \cup {None}]
    BY <1>2, GotoTypes, StepTypes DEF Register
  <2>3. [uuid |-> req[r].uuid, dir |-> req[r].dir, loaded |-> FALSE] \in Instances
    BY <2>1 DEF StartReqs, Instances
  <2>4. running' \in [Plugins -> Instances \cup {None}]
    BY <1>2, <2>3 DEF Register
  <2> QED
    BY <1>2, <2>2, <2>4 DEF Register, stores, boot, registry, history
<1>3. CASE StartReturns(r) \/ HangUp(r)
  <2>1. req' \in [Requests -> Reqs] /\ lock' \in [Plugins -> Requests \cup {None}]
    BY <1>3, GotoTypes DEF StartReturns, HangUp
  <2> QED
    BY <1>3, <2>1 DEF StartReturns, HangUp, stores, boot, registry, history
<1> QED
  BY <1>1, <1>2, <1>3 DEF Starting

LEMMA TypesInstance == ASSUME PurgeInv, NEW p \in Plugins, Instance(p) PROVE Types'
<1> SUFFICES ASSUME Types PROVE Types'
  BY DEF PurgeInv
<1> USE PluginsAssumption DEF Types
<1>1. running[p] \in Instances
  BY DEF Instance, Load, WriteBlob, Restart
<1>2. ASSUME NEW b \in BOOLEAN PROVE [running EXCEPT ![p].loaded = b] \in [Plugins -> Instances \cup {None}]
  BY <1>1 DEF Instances
<1>3. running' \in [Plugins -> Instances \cup {None}]
  BY <1>2 DEF Instance, Load, WriteBlob, Restart, api
<1>4. kv' \subseteq Plugins \X Uuids /\ blobs' \subseteq Plugins \X Uuids
  BY <1>1 DEF Instance, Load, WriteBlob, Restart, stores, Instances
<1> QED
  BY <1>3, <1>4 DEF Instance, Load, WriteBlob, Restart, stores, boot, registry, api, history

LEMMA TypesStep == ASSUME PurgeInv, [Next]_vars PROVE Types'
<1>1. CASE UNCHANGED vars
  BY <1>1 DEF PurgeInv, Types, vars, stores, boot, registry, api, history
<1> QED
  BY <1>1, TypesBoot, TypesHand, TypesInstalling, TypesUninstalling, TypesStarting, TypesInstance
  DEF Next

(* Requests are served, and leave the boot alone.                          *)
LEMMA RequestsUp ==
  ASSUME Booting, NEW r \in Requests, Installing(r) \/ Uninstalling(r) \/ Starting(r)
  PROVE  phase = "up" /\ UNCHANGED boot
<1>1. phase = "up"
  <2>1. CASE req[r] = Idle
    <3>1. req[r].pc = "idle"
      BY <2>1 DEF Idle
    <3> QED
      BY <3>1 DEF At, Installing, Uninstalling, Starting, Install, Stage, InsertRow,
         Rename, Rollback, Index, Uninstall, PurgeKv, PurgeBlobs, Resolve, RemoveDir,
         Tombstone, Drop, Start, Register, StartReturns, HangUp
  <2>2. CASE req[r] # Idle
    BY <2>2 DEF Booting
  <2> QED
    BY <2>1, <2>2
<1>2. UNCHANGED boot
  BY DEF Installing, Uninstalling, Starting, Install, Stage, InsertRow,
     Rename, Rollback, Index, Uninstall, PurgeKv, PurgeBlobs, Resolve, RemoveDir,
     Tombstone, Drop, Start, Register, StartReturns, HangUp
<1> QED
  BY <1>1, <1>2

-----------------------------------------------------------------------------
(* One live row per plugin, and what a backfill may insert.                *)
LEMMA SameFirst == ASSUME disk' = disk, NEW p \in Plugins PROVE First(p)' = First(p)
<1>1. Sightings(p)' = Sightings(p)
  BY DEF Sightings, Readable
<1> QED
  BY <1>1 DEF First

LEMMA OneLiveKept ==
  ASSUME OneLive, backfill \subseteq Plugins,
         \A q \in Plugins, u \in Uuids : rows'[q][u].state = "live" => rows[q][u].state = "live",
         phase' = "sweep" => /\ phase = "sweep" /\ minted' = minted /\ disk' = disk
                             /\ backfill' \subseteq backfill
  PROVE  OneLive'
<1>1. ASSUME phase' = "sweep", NEW p \in backfill'
      PROVE  minted'[p] \in Uuids /\ Live(p)' = {} /\ disk'[First(p)'].bytes \in Versions
  <2>1. /\ p \in backfill /\ p \in Plugins
        /\ minted[p] \in Uuids /\ Live(p) = {} /\ disk[First(p)].bytes \in Versions
    BY <1>1 DEF OneLive
  <2>2. Live(p)' = {}
    BY <2>1 DEF Live
  <2>3. First(p)' = First(p)
    BY <1>1, <2>1, SameFirst
  <2> QED
    BY <1>1, <2>1, <2>2, <2>3
<1> QED
  BY <1>1 DEF OneLive

LEMMA OneLiveStep == ASSUME PurgeInv, [Next]_vars PROVE OneLive'
<1> SUFFICES ASSUME Types, Types', OneLive, Booting PROVE OneLive'
  BY TypesStep DEF PurgeInv
<1>0. backfill \subseteq Plugins
  BY DEF Types
<1>1. CASE UNCHANGED <<rows, phase, backfill, minted, disk>>
  BY <1>0, <1>1, OneLiveKept
<1>2. CASE Scan
  <2>1. ASSUME NEW p \in Backfilled
        PROVE  minted'[p] \in Uuids /\ Live(p)' = {} /\ disk'[First(p)'].bytes \in Versions
    <3>1. p \in Plugins /\ Live(p) = {} /\ disk[First(p)].bytes \in Versions
      BY DEF Backfilled
    <3>2. minted'[p] = minted[p] + 1 /\ minted[p] < MaxUuid
      BY <1>2, <3>1 DEF Scan
    <3>3. Live(p)' = {}
      BY <1>2, <3>1 DEF Scan, Live
    <3>4. First(p)' = First(p)
      BY <1>2, <3>1, SameFirst DEF Scan
    <3>5. minted'[p] \in Uuids
      BY <3>1, <3>2, PluginsAssumption DEF Types, Uuids
    <3> QED
      BY <1>2, <3>1, <3>3, <3>4, <3>5 DEF Scan
  <2> QED
    BY <1>2, <2>1 DEF Scan, OneLive
<1>3. ASSUME NEW p \in Plugins, SweepOrphan(p) PROVE OneLive'
  <2>1. ASSUME NEW q \in Plugins, NEW u \in Uuids, rows'[q][u].state = "live"
        PROVE  rows[q][u].state = "live"
    BY <1>3, <2>1, LiveIds, TombstonedRows DEF SweepOrphan
  <2>2. UNCHANGED <<phase, minted, disk, backfill>>
    BY <1>3 DEF SweepOrphan
  <2> QED
    BY <1>0, <2>1, <2>2, OneLiveKept
<1>4. ASSUME NEW p \in Plugins, InsertBackfill(p) PROVE OneLive'
  <2>1. minted[p] \in Uuids /\ Live(p) = {}
    BY <1>4 DEF InsertBackfill, OneLive
  <2>2. ASSUME NEW q \in Plugins, NEW u \in Uuids, rows'[q][u].state = "live"
        PROVE  IF q = p THEN u = minted[p] ELSE rows[q][u].state = "live"
    BY <1>4, <2>1, <2>2 DEF InsertBackfill, SetRow, Types, Live
  <2>3. ASSUME NEW q \in backfill'
        PROVE  minted'[q] \in Uuids /\ Live(q)' = {} /\ disk'[First(q)'].bytes \in Versions
    <3>1. q \in Plugins /\ q \in backfill /\ q # p
      BY <1>0, <1>4 DEF InsertBackfill
    <3>2. minted[q] \in Uuids /\ Live(q) = {} /\ disk[First(q)].bytes \in Versions
      BY <1>4, <3>1 DEF InsertBackfill, OneLive
    <3>3. Live(q)' = {}
      BY <2>2, <3>1, <3>2 DEF Live
    <3>4. First(q)' = First(q)
      BY <1>4, <3>1, SameFirst DEF InsertBackfill
    <3> QED
      BY <1>4, <3>2, <3>3, <3>4 DEF InsertBackfill
  <2> QED
    BY <2>2, <2>3 DEF OneLive
<1>5. CASE ScanDone \/ Crash
  BY <1>0, <1>5, OneLiveKept DEF ScanDone, Crash, stores
<1>6. ASSUME NEW p \in Plugins, Degrade(p) PROVE OneLive'
  <2>1. LiveUuid(p) \in Live(p)
    BY <1>6, LiveIds DEF Degrade
  <2>2. ASSUME NEW q \in Plugins, NEW u \in Uuids, rows'[q][u].state = "live"
        PROVE  rows[q][u].state = "live"
    BY <1>6, <2>1, <2>2 DEF Degrade, SetRow, Types, Live
  <2>3. phase' # "sweep"
    BY <1>6 DEF Degrade, boot
  <2> QED
    BY <1>0, <2>2, <2>3, OneLiveKept
<1>7. ASSUME NEW d \in Dirs, NEW package \in Package \cup {None}, Edit(d, package) PROVE OneLive'
  BY <1>0, <1>7, OneLiveKept DEF Edit, boot
<1>8. ASSUME NEW r \in Requests, Installing(r) \/ Uninstalling(r) \/ Starting(r) PROVE OneLive'
  <2>1. phase' # "sweep"
    BY <1>8, RequestsUp DEF boot
  <2>2. CASE InsertRow(r) /\ rows' # rows
    <3>1. req[r].plugin \in Plugins /\ req[r].uuid \in Uuids
      BY <2>2, ReqTypes DEF InsertRow, At, Installs, InstallReqs
    <3>2. /\ Live(req[r].plugin) = {}
          /\ SetRow(req[r].plugin, req[r].uuid, [state |-> "live", digest |-> req[r].bytes])
      BY <2>2 DEF InsertRow, UniqueLive
    <3>3. ASSUME NEW q \in Plugins, NEW u \in Uuids, rows'[q][u].state = "live"
          PROVE  IF q = req[r].plugin THEN u = req[r].uuid ELSE rows[q][u].state = "live"
      BY <3>1, <3>2, <3>3 DEF SetRow, Types, Live
    <3> QED
      BY <2>1, <3>3 DEF OneLive
  <2>3. CASE Rollback(r)
    <3>1. req[r].plugin \in Plugins /\ req[r].uuid \in Uuids
      BY <2>3, ReqTypes DEF Rollback, At, Installs, InstallReqs
    <3>2. ASSUME NEW q \in Plugins, NEW u \in Uuids, rows'[q][u].state = "live"
          PROVE  rows[q][u].state = "live"
      <4>1. CASE SetRow(req[r].plugin, req[r].uuid, [state |-> "absent", digest |-> None])
        BY <3>1, <3>2, <4>1 DEF SetRow, Types
      <4> QED
        BY <2>3, <3>2, <4>1 DEF Rollback
    <3> QED
      BY <1>0, <2>1, <3>2, OneLiveKept
  <2>4. CASE Tombstone(r)
    <3>1. req[r].plugin \in Plugins /\ req[r].uuid \in Ids
      BY <2>4, ReqTypes DEF Tombstone, At, Resolves, RemoveReqs
    <3>2. ASSUME NEW q \in Plugins, NEW u \in Uuids, rows'[q][u].state = "live"
          PROVE  rows[q][u].state = "live"
      BY <2>4, <3>1, <3>2, TombstonedRows DEF Tombstone
    <3> QED
      BY <1>0, <2>1, <3>2, OneLiveKept
  <2>5. CASE UNCHANGED rows
    BY <1>0, <2>1, <2>5, OneLiveKept
  <2> QED
    BY <1>8, <2>2, <2>3, <2>4, <2>5 DEF stores, Installing, Uninstalling, Starting, Install, Stage,
       Rename, Index, Uninstall, PurgeKv, PurgeBlobs, Resolve, RemoveDir,
       Drop, Start, Register, StartReturns, HangUp
<1>9. ASSUME NEW p \in Plugins, Instance(p) PROVE OneLive'
  BY <1>1, <1>9 DEF Instance, Load, WriteBlob, Restart, stores, boot
<1> QED
  BY <1>1, <1>2, <1>3, <1>4, <1>5, <1>6, <1>7, <1>8, <1>9
  DEF Next, Boot, Hand, vars, stores, boot

-----------------------------------------------------------------------------
(* How requests move.                                                      *)
LEMMA StepKeeps ==
  ASSUME Types, NEW r \in Requests, req[r].pc \in Installs \cup Resolves \cup Starts, NEW pc
  PROVE  /\ Step(r, pc).pc = pc
         /\ Step(r, pc).plugin = req[r].plugin
         /\ Step(r, pc).uuid = req[r].uuid
  BY ReqTypes DEF Step, InstallReqs, RemoveReqs, StartReqs

LEMMA Moves ==
  ASSUME Types, NEW r \in Requests, NEW s, Goto(r, s)
  PROVE  req'[r] = s /\ \A q \in Requests : q # r => req'[q] = req[q]
  BY DEF Types, Goto

LEMMA Frees ==
  ASSUME Types, NEW r \in Requests, Return(r)
  PROVE  /\ req'[r] = Idle /\ \A q \in Requests : q # r => req'[q] = req[q]
         /\ \A p \in Plugins : lock[p] # r => lock'[p] = lock[p]
  BY Moves DEF Types, Return, Free

(* What the step of an install does to its request.                        *)
LEMMA InstallMoves ==
  ASSUME Types, NEW r \in Requests, Installing(r)
  PROVE  /\ \A q \in Requests : q # r => req'[q] = req[q]
         /\ UNCHANGED lock
         /\ \/ req'[r] = Idle
            \/ /\ req[r].pc \in Installs /\ req'[r].pc \in Installs
               /\ req'[r].plugin = req[r].plugin /\ req'[r].uuid = req[r].uuid
            \/ \E p \in Plugins, v \in Versions : Install(r, p, v)
<1>1. ASSUME NEW p \in Plugins, NEW v \in Versions, Install(r, p, v)
      PROVE  (\A q \in Requests : q # r => req'[q] = req[q]) /\ UNCHANGED lock
  BY <1>1, Moves DEF Install
<1>2. ASSUME NEW from \in Installs, NEW to \in Installs, At(r, from), Goto(r, Step(r, to))
      PROVE  /\ \A q \in Requests : q # r => req'[q] = req[q]
             /\ req[r].pc \in Installs /\ req'[r].pc \in Installs
             /\ req'[r].plugin = req[r].plugin /\ req'[r].uuid = req[r].uuid
  <2>1. req[r].pc \in Installs
    BY <1>2 DEF At
  <2>2. req'[r] = Step(r, to) /\ \A q \in Requests : q # r => req'[q] = req[q]
    BY <1>2, Moves
  <2> QED
    BY <2>1, <2>2, StepKeeps
<1>3. ASSUME Goto(r, Idle)
      PROVE  req'[r] = Idle /\ \A q \in Requests : q # r => req'[q] = req[q]
  BY <1>3, Moves
<1>4. CASE Stage(r)
  BY <1>2, <1>3, <1>4 DEF Stage, Installs
<1>5. CASE InsertRow(r)
  BY <1>2, <1>3, <1>5 DEF InsertRow, Installs
<1>6. CASE Rename(r)
  BY <1>2, <1>6 DEF Rename, Installs
<1>7. CASE Rollback(r) \/ Index(r)
  BY <1>3, <1>7 DEF Rollback, Index
<1> QED
  BY <1>1, <1>4, <1>5, <1>6, <1>7 DEF Installing

(* What the step of an uninstall does to its request and its lock.         *)
LEMMA UninstallMoves ==
  ASSUME Types, NEW r \in Requests, Uninstalling(r)
  PROVE  \/ Return(r) /\ req[r].pc \in Uninstalls
         \/ \E p \in Plugins : Uninstall(r, p)
         \/ /\ UNCHANGED lock
            /\ \A q \in Requests : q # r => req'[q] = req[q]
            /\ req[r].pc \in Uninstalls /\ req'[r].pc \in Uninstalls
            /\ req'[r].plugin = req[r].plugin
            /\ req'[r].pc \in Resolves =>
                 \/ req[r].pc \in Resolves /\ req'[r].uuid = req[r].uuid
                 \/ /\ req[r].pc = "resolve" /\ ~EntriesLocked /\ Installed(req[r].plugin)
                    /\ req'[r].uuid = Resolved(req[r].plugin).uuid
<1>1. CASE PurgeKv(r)
  BY <1>1, Moves DEF PurgeKv, At, Uninstalls, Resolves
<1>2. CASE PurgeBlobs(r)
  BY <1>2, Moves DEF PurgeBlobs, At, Uninstalls, Resolves
<1>3. CASE Resolve(r)
  BY <1>3, Moves DEF Resolve, At, Uninstalls, Resolves
<1>4. CASE RemoveDir(r)
  <2>1. req[r] \in RemoveReqs /\ req[r].pc = "remove"
    BY <1>4, ReqTypes DEF RemoveDir, At, Resolves
  <2>2. ASSUME NEW d, Goto(r, [req[r] EXCEPT !.dirs = @ \ {d}])
        PROVE  /\ \A q \in Requests : q # r => req'[q] = req[q]
               /\ req'[r].pc = "remove" /\ req'[r].plugin = req[r].plugin
               /\ req'[r].uuid = req[r].uuid
    <3>1. req'[r] = [req[r] EXCEPT !.dirs = @ \ {d}] /\ \A q \in Requests : q # r => req'[q] = req[q]
      BY <2>2, Moves
    <3> QED
      BY <2>1, <3>1 DEF RemoveReqs
  <2> QED
    BY <1>4, <2>1, <2>2 DEF RemoveDir, Uninstalls, Resolves
<1>5. CASE Tombstone(r)
  <2>1. req[r].pc = "remove"
    BY <1>5 DEF Tombstone, At
  <2>2. ASSUME Goto(r, Step(r, "drop"))
        PROVE  /\ \A q \in Requests : q # r => req'[q] = req[q]
               /\ req'[r].pc = "drop" /\ req'[r].plugin = req[r].plugin
               /\ req'[r].uuid = req[r].uuid
    <3>1. req'[r] = Step(r, "drop") /\ \A q \in Requests : q # r => req'[q] = req[q]
      BY <2>2, Moves
    <3> QED
      BY <2>1, <3>1, StepKeeps DEF Resolves
  <2> QED
    BY <1>5, <2>1, <2>2 DEF Tombstone, Uninstalls, Resolves
<1>6. CASE Drop(r)
  BY <1>6 DEF Drop, At, Uninstalls
<1> QED
  BY <1>1, <1>2, <1>3, <1>4, <1>5, <1>6 DEF Uninstalling

(* What the step of a start does to its request and its lock.              *)
LEMMA StartMoves ==
  ASSUME Types, NEW r \in Requests, Starting(r)
  PROVE  \/ Return(r) /\ req[r].pc \in Starts
         \/ \E p \in Plugins : Start(r, p)
         \/ /\ UNCHANGED lock
            /\ \A q \in Requests : q # r => req'[q] = req[q]
            /\ req[r].pc \in Starts /\ req'[r].pc \in Starts
            /\ req'[r].plugin = req[r].plugin /\ req'[r].uuid = req[r].uuid
<1>1. CASE Register(r)
  <2>1. req[r].pc \in Starts
    BY <1>1 DEF Register, At, Starts
  <2>2. CASE Goto(r, Step(r, "wait"))
    <3>1. req'[r] = Step(r, "wait") /\ \A q \in Requests : q # r => req'[q] = req[q]
      BY <2>2, Moves
    <3>2. /\ req'[r].pc = "wait" /\ req'[r].plugin = req[r].plugin
          /\ req'[r].uuid = req[r].uuid
      BY <2>1, <3>1, StepKeeps
    <3> QED
      BY <1>1, <2>1, <3>1, <3>2 DEF Register, Starts, Return, Goto
  <2> QED
    BY <1>1, <2>1, <2>2 DEF Register
<1>2. CASE StartReturns(r) \/ HangUp(r)
  BY <1>2 DEF StartReturns, HangUp, At, Starts
<1> QED
  BY <1>1, <1>2 DEF Starting

(* Only a request's own step moves it, and it lets go of its own locks only. *)
LEMMA OthersStay ==
  ASSUME Types, NEW r \in Requests, Installing(r) \/ Uninstalling(r) \/ Starting(r)
  PROVE  /\ \A q \in Requests : q # r => req'[q] = req[q]
         /\ \A p \in Plugins, q \in Requests : q # r /\ lock[p] = q => lock'[p] = q
<1>1. CASE Return(r)
  BY <1>1, Frees
<1>2. ASSUME NEW p \in Plugins, Uninstall(r, p) \/ Start(r, p)
      PROVE  /\ \A q \in Requests : q # r => req'[q] = req[q]
             /\ \A o \in Plugins, q \in Requests : q # r /\ lock[o] = q => lock'[o] = q
  <2>1. lock[p] = None /\ lock' = [lock EXCEPT ![p] = r]
    BY <1>2 DEF Uninstall, Start
  <2>2. \A q \in Requests : q # r => req'[q] = req[q]
    BY <1>2, Moves DEF Uninstall, Start
  <2> QED
    BY <2>1, <2>2, PluginsAssumption DEF Types
<1>3. CASE UNCHANGED lock /\ \A q \in Requests : q # r => req'[q] = req[q]
  BY <1>3
<1> QED
  BY <1>1, <1>2, <1>3, InstallMoves, UninstallMoves, StartMoves

(* Which step of a request may change what.                                *)
RequestFrame(r) ==
  /\ UNCHANGED rows \/ InsertRow(r) \/ Rollback(r) \/ Tombstone(r)
  /\ UNCHANGED entries \/ Index(r) \/ Drop(r)
  /\ UNCHANGED quarantined \/ Drop(r)
  /\ UNCHANGED running \/ Register(r)
  /\ UNCHANGED purged \/ Tombstone(r)
  /\ kv' \subseteq kv /\ blobs' \subseteq blobs

LEMMA RequestFrames ==
  ASSUME NEW r \in Requests, Installing(r) \/ Uninstalling(r) \/ Starting(r)
  PROVE  RequestFrame(r)
<1> USE DEF RequestFrame, stores, registry, history
<1>1. ASSUME NEW p \in Plugins, NEW v \in Versions, Install(r, p, v) PROVE RequestFrame(r)
  BY <1>1 DEF Install
<1>2. CASE Stage(r) \/ InsertRow(r)
  BY <1>2 DEF Stage, InsertRow
<1>3. CASE Rename(r) \/ Rollback(r) \/ Index(r)
  BY <1>3 DEF Rename, Rollback, Index
<1>4. ASSUME NEW p \in Plugins, Uninstall(r, p) PROVE RequestFrame(r)
  BY <1>4 DEF Uninstall
<1>5. CASE PurgeKv(r) \/ PurgeBlobs(r) \/ Resolve(r)
  BY <1>5 DEF PurgeKv, PurgeBlobs, Resolve
<1>6. CASE RemoveDir(r) \/ Tombstone(r) \/ Drop(r)
  BY <1>6 DEF RemoveDir, Tombstone, Drop
<1>7. CASE Starting(r)
  BY <1>7 DEF Starting, Start, Register, StartReturns, HangUp
<1> QED
  BY <1>1, <1>2, <1>3, <1>4, <1>5, <1>6, <1>7 DEF Installing, Uninstalling

-----------------------------------------------------------------------------
LEMMA BootingStep == ASSUME PurgeInv, [Next]_vars PROVE Booting'
<1> SUFFICES ASSUME Types, Booting PROVE Booting'
  BY DEF PurgeInv
<1> USE DEF Booting
<1>1. CASE UNCHANGED <<phase, req, running>>
  BY <1>1
<1>2. CASE Boot
  BY <1>2 DEF Boot, Scan, SweepOrphan, InsertBackfill, ScanDone, Crash, api
<1>3. CASE Hand
  BY <1>1, <1>3 DEF Hand, Edit, Degrade, boot, api
<1>4. ASSUME NEW r \in Requests, Installing(r) \/ Uninstalling(r) \/ Starting(r) PROVE Booting'
  BY <1>4, RequestsUp DEF boot
<1>5. ASSUME NEW p \in Plugins, Instance(p) PROVE Booting'
  <2>1. phase = "up"
    BY <1>5 DEF Instance, Load, WriteBlob, Restart
  <2> QED
    BY <1>5, <2>1 DEF Instance, Load, WriteBlob, Restart, boot
<1> QED
  BY <1>1, <1>2, <1>3, <1>4, <1>5 DEF Next, vars, boot, api

LEMMA OneResolvesStep == ASSUME PurgeInv, [Next]_vars PROVE OneResolves'
<1> SUFFICES ASSUME Types, Booting, OneResolves PROVE OneResolves'
  BY DEF PurgeInv
<1>1. CASE UNCHANGED req
  BY <1>1 DEF OneResolves
<1>2. CASE Crash
  BY <1>2 DEF OneResolves, Crash, Idle, Resolves
<1>3. ASSUME NEW r \in Requests, Installing(r) \/ Uninstalling(r) \/ Starting(r) PROVE OneResolves'
  <2>1. \A q \in Requests : q # r => req'[q] = req[q]
    BY <1>3, OthersStay
  <2>2. CASE req'[r].pc \in Resolves => req[r].pc \in Resolves
    BY <2>1, <2>2 DEF OneResolves
  <2>3. CASE \A q \in Requests : req[q].pc \notin Resolves
    BY <2>1, <2>3 DEF OneResolves
  <2>4. CASE Resolve(r)
    BY <2>3, <2>4 DEF Resolve, EntriesLocked, Resolves
  <2>5. CASE RemoveDir(r) \/ Tombstone(r) \/ Drop(r)
    BY <2>2, <2>5 DEF RemoveDir, Tombstone, Drop, At, Resolves
  <2>6. CASE Installing(r)
    <3>1. ASSUME NEW p \in Plugins, NEW v \in Versions, Install(r, p, v) PROVE req'[r].pc = "stage"
      BY <3>1, Moves DEF Install
    <3>2. req'[r].pc \notin Resolves
      BY <2>6, <3>1, InstallMoves DEF Installs, Resolves, Idle
    <3> QED
      BY <2>2, <3>2
  <2>7. CASE Starting(r)
    <3>1. ASSUME NEW p \in Plugins, Start(r, p) PROVE req'[r].pc = "register"
      BY <3>1, Moves DEF Start
    <3>2. req'[r].pc \notin Resolves
      BY <2>7, <3>1, StartMoves, Frees DEF Starts, Resolves, Idle
    <3> QED
      BY <2>2, <3>2
  <2>8. ASSUME NEW p \in Plugins, Uninstall(r, p) PROVE OneResolves'
    <3>1. req'[r].pc = "purge_kv"
      BY <2>8, Moves DEF Uninstall
    <3> QED
      BY <2>2, <3>1 DEF Resolves
  <2>9. CASE PurgeKv(r) \/ PurgeBlobs(r)
    <3>1. req'[r].pc \notin Resolves
      BY <2>9, Moves, Frees DEF PurgeKv, PurgeBlobs, Resolves, Idle
    <3> QED
      BY <2>2, <3>1
  <2> QED
    BY <1>3, <2>4, <2>5, <2>6, <2>7, <2>8, <2>9 DEF Uninstalling
<1> QED
  BY <1>1, <1>2, <1>3 DEF Next, vars, api, Boot, Scan, SweepOrphan, InsertBackfill, ScanDone,
     Hand, Edit, Degrade, Instance, Load, WriteBlob, Restart

LEMMA LockedStep == ASSUME PurgeInv, [Next]_vars PROVE Locked'
<1> SUFFICES ASSUME Types, Booting, Locked PROVE Locked'
  BY DEF PurgeInv
<1>0. ASSUME NEW r \in Requests, req[r].pc \in Uninstalls \cup Starts PROVE req[r].plugin \in Plugins
  BY <1>0, ReqTypes DEF Uninstalls, Resolves, PurgeReqs, BlobReqs, RemoveReqs, StartReqs
<1>1. CASE UNCHANGED <<req, lock, running>>
  BY <1>1 DEF Locked
<1>2. CASE Crash
  BY <1>2 DEF Locked, Crash, Idle, Uninstalls, Starts
<1>3. ASSUME NEW r \in Requests, Installing(r) \/ Uninstalling(r) \/ Starting(r) PROVE Locked'
  <2>1. ASSUME NEW q \in Requests, q # r
        PROVE  /\ req'[q] = req[q]
               /\ req[q].pc \in Uninstalls \cup Starts => lock'[req[q].plugin] = q
    BY <1>0, <1>3, <2>1, OthersStay DEF Locked
  <2>2. ASSUME NEW q \in Requests, q # r, req[q].pc \in Uninstalls
        PROVE  running'[req[q].plugin] = None
    <3>1. CASE UNCHANGED running
      BY <2>2, <3>1 DEF Locked
    <3>2. CASE Register(r)
      <4>1. req[r].plugin # req[q].plugin
        BY <2>2, <3>2 DEF Locked, Register, At, Starts
      <4> QED
        BY <1>0, <2>2, <3>2, <4>1 DEF Register, Types, Locked
    <3> QED
      BY <1>3, <3>1, <3>2, RequestFrames DEF RequestFrame
  <2>3. /\ req'[r].pc \in Uninstalls \cup Starts => lock'[req'[r].plugin] = r
        /\ req'[r].pc \in Uninstalls => running'[req'[r].plugin] = None
    <3>1. CASE req'[r] = Idle
      BY <3>1 DEF Idle, Uninstalls, Starts
    <3>2. ASSUME NEW p \in Plugins, NEW v \in Versions, Install(r, p, v) PROVE req'[r].pc = "stage"
      BY <3>2, Moves DEF Install
    <3>3. CASE Installing(r)
      BY <3>2, <3>3, InstallMoves DEF Installs, Idle, Uninstalls, Starts
    <3>4. ASSUME NEW p \in Plugins, Uninstall(r, p)
          PROVE  lock'[req'[r].plugin] = r /\ running'[req'[r].plugin] = None
      BY <3>4, Moves DEF Uninstall, Types
    <3>5. ASSUME NEW p \in Plugins, Start(r, p)
          PROVE  lock'[req'[r].plugin] = r /\ req'[r].pc = "register"
      BY <3>5, Moves DEF Start, Types
    <3>6. CASE Uninstalling(r)
      <4>1. UNCHANGED running
        BY <3>6 DEF Uninstalling, Uninstall, PurgeKv, PurgeBlobs, Resolve, RemoveDir, Tombstone, Drop
      <4> QED
        BY <3>1, <3>4, <3>6, <4>1, UninstallMoves, Frees DEF Locked
    <3>7. CASE Starting(r)
      BY <3>1, <3>5, <3>7, StartMoves, Frees DEF Locked, Uninstalls, Starts
    <3> QED
      BY <1>3, <3>3, <3>6, <3>7
  <2> QED
    BY <2>1, <2>2, <2>3 DEF Locked
<1>4. ASSUME NEW p \in Plugins, Instance(p) PROVE Locked'
  <2>1. \A q \in Plugins : running[q] = None => running'[q] = None
    BY <1>4 DEF Instance, Load, WriteBlob, Restart, Types, api
  <2>2. UNCHANGED <<req, lock>>
    BY <1>4 DEF Instance, Load, WriteBlob, Restart, api
  <2> QED
    BY <1>0, <2>1, <2>2 DEF Locked
<1> QED
  BY <1>1, <1>2, <1>3, <1>4 DEF Next, vars, api, Boot, Scan, SweepOrphan, InsertBackfill, ScanDone,
     Hand, Edit, Degrade

(* An instance keeps its identity while it loads, runs and restarts.       *)
LEMMA InstanceKeeps ==
  ASSUME Types, NEW p \in Plugins, Instance(p), NEW q \in Plugins, running'[q] # None
  PROVE  running[q] # None /\ running'[q].uuid = running[q].uuid
<1>1. running[p] # None /\ running[p] \in Instances
  BY DEF Instance, Load, WriteBlob, Restart, Types
<1>2. CASE UNCHANGED running
  BY <1>2
<1>3. ASSUME NEW b \in BOOLEAN, running' = [running EXCEPT ![p].loaded = b]
      PROVE  running[q] # None /\ running'[q].uuid = running[q].uuid
  BY <1>1, <1>3 DEF Types, Instances
<1>4. CASE running' = [running EXCEPT ![p] = None]
  BY <1>4 DEF Types
<1> QED
  BY <1>2, <1>3, <1>4 DEF Instance, Load, WriteBlob, Restart, api

LEMMA MintMore ==
  ASSUME Types, Minted, NEW p \in Plugins, NEW n \in Nat, minted[p] <= n
  PROVE  /\ \A u \in Uuids : rows[p][u].state = "live" => u <= n
         /\ entries[p] # None => entries[p].uuid <= n
         /\ quarantined[p] # None => quarantined[p].uuid <= n
         /\ running[p] # None => running[p].uuid <= n
         /\ \A u \in Ids : <<p, u>> \in kv \cup blobs \cup purged => u <= n
         /\ \A r \in Requests :
              req[r].pc \in Installs \cup Starts \cup Resolves /\ req[r].plugin = p =>
                req[r].uuid <= n
<1>0. minted[p] \in Nat /\ Ids \subseteq Nat /\ Uuids \subseteq Nat
  BY PluginsAssumption DEF Types, Ids, Uuids, NoRow
<1>1. \A u \in Nat : u <= minted[p] => u <= n
  BY <1>0
<1>2. \A u \in Uuids : rows[p][u].state = "live" => u <= n
  BY <1>0, <1>1 DEF Minted
<1>3. /\ entries[p] # None => entries[p].uuid <= n
      /\ quarantined[p] # None => quarantined[p].uuid <= n
      /\ running[p] # None => running[p].uuid <= n
  <2>1. entries[p] # None => entries[p].uuid \in Nat
    BY <1>0 DEF Types, Entries
  <2>2. quarantined[p] # None => quarantined[p].uuid \in Nat
    BY <1>0 DEF Types, Quarantines
  <2>3. running[p] # None => running[p].uuid \in Nat
    BY <1>0 DEF Types, Instances
  <2> QED
    BY <1>1, <2>1, <2>2, <2>3 DEF Minted
<1>4. \A u \in Ids : <<p, u>> \in kv \cup blobs \cup purged => u <= n
  BY <1>0, <1>1 DEF Minted
<1>5. ASSUME NEW r \in Requests,
             req[r].pc \in Installs \cup Starts \cup Resolves, req[r].plugin = p
      PROVE  req[r].uuid <= n
  <2>1. req[r].uuid \in Nat
    BY <1>0, <1>5, ReqTypes DEF InstallReqs, StartReqs, RemoveReqs
  <2>2. req[r].uuid <= minted[p]
    BY <1>5 DEF Minted
  <2> QED
    BY <1>1, <2>1, <2>2
<1> QED
  BY <1>2, <1>3, <1>4, <1>5

LEMMA MintedStep == ASSUME PurgeInv, [Next]_vars PROVE Minted'
<1> SUFFICES ASSUME Types, Types', OneLive, Booting, Minted PROVE Minted'
  BY TypesStep DEF PurgeInv
<1> USE DEF Minted
<1>1. CASE UNCHANGED vars
  BY <1>1 DEF vars, stores, registry, api, history
<1>2. CASE Scan
  <2>1. ASSUME NEW p \in Plugins
        PROVE  minted[p] \in Nat /\ minted[p] <= minted'[p] /\ minted'[p] \in Nat
    BY <1>2, PluginsAssumption DEF Scan, Types
  <2>2. ASSUME NEW p \in Plugins PROVE ScanUuid(p) <= minted'[p]
    <3>1. CASE p \in Backfilled
      BY <1>2, <2>1, <3>1 DEF Scan, ScanUuid
    <3>2. CASE p \notin Backfilled
      BY <2>1, <3>2, LiveIds DEF ScanUuid, Live, LiveUuid, NoRow, Ids, Uuids
    <3> QED
      BY <3>1, <3>2
  <2>3. ASSUME NEW p \in Plugins
        PROVE  /\ entries'[p] # None => entries'[p].uuid <= minted'[p]
               /\ quarantined'[p] # None => quarantined'[p].uuid <= minted'[p]
    BY <1>2, <2>2 DEF Scan, ScanEntry, ScanQuarantine
  <2>4. \A r \in Requests : req'[r] = Idle
    BY <1>2 DEF Scan, Booting, api
  <2>5. UNCHANGED <<rows, running, kv, blobs, purged>>
    BY <1>2 DEF Scan, api, history
  <2>6. ASSUME NEW p \in Plugins
        PROVE  /\ \A u \in Uuids : rows'[p][u].state = "live" => u <= minted'[p]
               /\ running'[p] # None => running'[p].uuid <= minted'[p]
               /\ \A u \in Ids : <<p, u>> \in kv' \cup blobs' \cup purged' => u <= minted'[p]
    BY <2>1, <2>5, MintMore
  <2> QED
    BY <2>3, <2>4, <2>6 DEF Idle, Installs, Starts, Resolves
<1>3. ASSUME NEW p \in Plugins, SweepOrphan(p) PROVE Minted'
  <2>1. ASSUME NEW q \in Plugins, NEW u \in Uuids, rows'[q][u].state = "live"
        PROVE  rows[q][u].state = "live"
    BY <1>3, <2>1, LiveIds, TombstonedRows DEF SweepOrphan
  <2> QED
    BY <1>3, <2>1 DEF SweepOrphan, registry, api, history
<1>4. ASSUME NEW p \in Plugins, InsertBackfill(p) PROVE Minted'
  <2>1. minted[p] \in Uuids
    BY <1>4 DEF InsertBackfill, OneLive
  <2>2. ASSUME NEW q \in Plugins, NEW u \in Uuids, rows'[q][u].state = "live"
        PROVE  IF q = p /\ u = minted[p] THEN TRUE ELSE rows[q][u].state = "live"
    BY <1>4, <2>1, <2>2 DEF InsertBackfill, SetRow, Types
  <2>3. ASSUME NEW q \in Plugins, NEW u \in Uuids, rows'[q][u].state = "live" PROVE u <= minted[q]
    BY <2>1, <2>2, <2>3 DEF Uuids
  <2> QED
    BY <1>4, <2>3 DEF InsertBackfill, registry, api, history
<1>5. CASE ScanDone
  BY <1>5 DEF ScanDone, stores, registry, api
<1>6. CASE Crash
  BY <1>6 DEF Crash, stores, history, Idle, Installs, Starts, Resolves
<1>7. ASSUME NEW d \in Dirs, NEW package \in Package \cup {None}, Edit(d, package) PROVE Minted'
  BY <1>7 DEF Edit, registry, api
<1>8. ASSUME NEW p \in Plugins, Degrade(p) PROVE Minted'
  <2>1. ASSUME NEW q \in Plugins, NEW u \in Uuids, rows'[q][u].state = "live"
        PROVE  rows[q][u].state = "live"
    BY <1>8, <2>1, LiveIds DEF Degrade, SetRow, Types, Live
  <2> QED
    BY <1>8, <2>1 DEF Degrade, registry, api, history
<1>9. ASSUME NEW r \in Requests, Installing(r) PROVE Minted'
  <2>1. \A q \in Requests : q # r => req'[q] = req[q]
    BY <1>9, InstallMoves
  <2>2. ASSUME NEW p \in Plugins, NEW v \in Versions, Install(r, p, v) PROVE Minted'
    <3>1. \A q \in Plugins : minted[q] \in Nat /\ minted[q] <= minted'[q] /\ minted'[q] \in Nat
      BY <2>2, PluginsAssumption DEF Install, Types
    <3>2. req'[r].plugin = p /\ req'[r].uuid = minted'[p]
      BY <2>2, Moves DEF Install, Types
    <3>3. ASSUME NEW o \in Plugins, NEW q \in Requests,
                 req'[q].pc \in Installs \cup Starts \cup Resolves, req'[q].plugin = o
          PROVE  req'[q].uuid <= minted'[o]
      <4>1. CASE q = r
        BY <3>1, <3>2, <3>3, <4>1
      <4>2. CASE q # r
        BY <2>1, <3>1, <3>3, <4>2, MintMore
      <4> QED
        BY <4>1, <4>2
    <3>4. UNCHANGED <<rows, entries, quarantined, running, kv, blobs, purged>>
      BY <2>2 DEF Install, stores, registry, history
    <3>5. ASSUME NEW o \in Plugins
          PROVE  /\ \A u \in Uuids : rows'[o][u].state = "live" => u <= minted'[o]
                 /\ entries'[o] # None => entries'[o].uuid <= minted'[o]
                 /\ quarantined'[o] # None => quarantined'[o].uuid <= minted'[o]
                 /\ running'[o] # None => running'[o].uuid <= minted'[o]
                 /\ \A u \in Ids : <<o, u>> \in kv' \cup blobs' \cup purged' => u <= minted'[o]
      BY <3>1, <3>4, MintMore
    <3> QED
      BY <3>3, <3>5
  <2>3. ASSUME ~\E p \in Plugins, v \in Versions : Install(r, p, v) PROVE Minted'
    <3>1. /\ UNCHANGED <<minted, quarantined, running, kv, blobs, purged>>
      BY <1>9, <2>3 DEF Installing, Stage, InsertRow, Rename, Rollback, Index, stores, registry, history
    <3>2. \/ req'[r].pc \notin Installs \cup Starts \cup Resolves
          \/ /\ req[r].pc \in Installs
             /\ req'[r].plugin = req[r].plugin /\ req'[r].uuid = req[r].uuid
      BY <1>9, <2>3, InstallMoves DEF Idle, Installs, Starts, Resolves
    <3>3. CASE UNCHANGED <<rows, entries>>
      BY <2>1, <3>1, <3>2, <3>3
    <3>4. ASSUME req[r].pc \in Installs
          PROVE  /\ req[r].plugin \in Plugins /\ req[r].uuid \in Uuids
                 /\ req[r].uuid <= minted[req[r].plugin]
      BY <3>4, ReqTypes DEF InstallReqs
    <3>5. CASE InsertRow(r) /\ rows' # rows
      <4>1. SetRow(req[r].plugin, req[r].uuid, [state |-> "live", digest |-> req[r].bytes])
        BY <3>5 DEF InsertRow
      <4>2. ASSUME NEW q \in Plugins, NEW u \in Uuids, rows'[q][u].state = "live"
            PROVE  (q = req[r].plugin /\ u = req[r].uuid) \/ rows[q][u].state = "live"
        BY <4>1, <4>2 DEF SetRow, Types
      <4>3. \A q \in Plugins, u \in Uuids : rows'[q][u].state = "live" => u <= minted[q]
        BY <3>4, <3>5, <4>2 DEF InsertRow, At, Installs
      <4> QED
        BY <2>1, <3>1, <3>2, <3>5, <4>3 DEF InsertRow, registry
    <3>6. CASE Rollback(r)
      <4>1. req[r].plugin \in Plugins /\ req[r].uuid \in Uuids
        BY <3>4, <3>6 DEF Rollback, At, Installs
      <4>2. ASSUME NEW q \in Plugins, NEW u \in Uuids, rows'[q][u].state = "live"
            PROVE  rows[q][u].state = "live"
        <5>1. CASE SetRow(req[r].plugin, req[r].uuid, [state |-> "absent", digest |-> None])
          BY <4>1, <4>2, <5>1 DEF SetRow, Types
        <5> QED
          BY <3>6, <4>2, <5>1 DEF Rollback
      <4> QED
        BY <2>1, <3>1, <3>2, <3>6, <4>2 DEF Rollback, registry
    <3>7. CASE Index(r)
      <4>1. \A q \in Plugins : entries'[q] # None => entries'[q].uuid <= minted[q]
        BY <3>4, <3>7 DEF Index, At, Installs, Types
      <4> QED
        BY <2>1, <3>1, <3>2, <3>7, <4>1 DEF Index, stores
    <3> QED
      BY <1>9, <2>3, <3>3, <3>5, <3>6, <3>7 DEF Installing, Stage, InsertRow, Rename, registry
  <2> QED
    BY <2>2, <2>3
<1>10. ASSUME NEW r \in Requests, Uninstalling(r) PROVE Minted'
  <2>1. \A q \in Requests : q # r => req'[q] = req[q]
    BY <1>10, OthersStay
  <2>2. /\ UNCHANGED <<minted, running>> /\ kv' \subseteq kv /\ blobs' \subseteq blobs
    BY <1>10 DEF Uninstalling, Uninstall, PurgeKv, PurgeBlobs, Resolve, RemoveDir, Tombstone, Drop,
       stores
  <2>3. ASSUME req'[r].pc \in Installs \cup Starts \cup Resolves
        PROVE  req'[r].plugin \in Plugins /\ req'[r].uuid <= minted[req'[r].plugin]
    <3>1. ASSUME NEW p \in Plugins PROVE ~Uninstall(r, p)
      <4>1. Uninstall(r, p) => req'[r].pc = "purge_kv"
        BY Moves DEF Uninstall
      <4> QED
        BY <2>3, <4>1 DEF Installs, Starts, Resolves
    <3>2. ~Return(r)
      BY <2>3, Frees DEF Idle, Installs, Starts, Resolves
    <3>3. /\ req'[r].plugin = req[r].plugin
          /\ \/ req[r].pc \in Resolves /\ req'[r].uuid = req[r].uuid
             \/ /\ req[r].pc = "resolve" /\ Installed(req[r].plugin)
                /\ req'[r].uuid = Resolved(req[r].plugin).uuid
      BY <1>10, <2>3, <3>1, <3>2, UninstallMoves DEF Installs, Starts, Resolves, Uninstalls
    <3>4. req[r].plugin \in Plugins
      BY <3>3, ReqTypes DEF RemoveReqs, PurgeReqs
    <3> QED
      BY <3>3, <3>4 DEF Installed, Resolved
  <2>4. ASSUME NEW q \in Plugins, NEW u \in Ids, <<q, u>> \in purged' PROVE u <= minted[q]
    <3>1. CASE Tombstone(r)
      <4>1. req[r].pc \in Resolves /\ req[r].plugin \in Plugins
        BY <3>1, ReqTypes DEF Tombstone, At, Resolves, RemoveReqs
      <4> QED
        BY <2>4, <3>1, <4>1 DEF Tombstone
    <3>2. CASE UNCHANGED purged
      BY <2>4, <3>2
    <3> QED
      BY <1>10, <3>1, <3>2 DEF Uninstalling, Uninstall, PurgeKv, PurgeBlobs, Resolve, RemoveDir, Drop,
         history
  <2>5. ASSUME NEW q \in Plugins, NEW u \in Uuids, rows'[q][u].state = "live"
        PROVE  rows[q][u].state = "live"
    <3>1. CASE Tombstone(r)
      <4>1. req[r].plugin \in Plugins /\ req[r].uuid \in Ids
        BY <3>1, ReqTypes DEF Tombstone, At, Resolves, RemoveReqs
      <4> QED
        BY <2>5, <3>1, <4>1, TombstonedRows DEF Tombstone
    <3>2. CASE UNCHANGED rows
      BY <2>5, <3>2
    <3> QED
      BY <1>10, <3>1, <3>2 DEF Uninstalling, Uninstall, PurgeKv, PurgeBlobs, Resolve, RemoveDir, Drop,
         stores
  <2>6. ASSUME NEW q \in Plugins
        PROVE  /\ entries'[q] # None => entries'[q] = entries[q]
               /\ quarantined'[q] # None => quarantined'[q] = quarantined[q]
    BY <1>10 DEF Uninstalling, Uninstall, PurgeKv, PurgeBlobs, Resolve, RemoveDir, Tombstone, Drop,
       registry, Types
  <2> QED
    BY <2>1, <2>2, <2>3, <2>4, <2>5, <2>6
<1>11. ASSUME NEW r \in Requests, Starting(r) PROVE Minted'
  <2>1. \A q \in Requests : q # r => req'[q] = req[q]
    BY <1>11, OthersStay
  <2>2. UNCHANGED <<minted, rows, entries, quarantined, kv, blobs, purged>>
    BY <1>11 DEF Starting, Start, Register, StartReturns, HangUp, stores, registry, history
  <2>3. ASSUME req'[r].pc \in Installs \cup Starts \cup Resolves
        PROVE  req'[r].plugin \in Plugins /\ req'[r].uuid <= minted[req'[r].plugin]
    <3>1. ASSUME NEW p \in Plugins, Start(r, p)
          PROVE  req'[r].plugin = p /\ req'[r].uuid <= minted[p]
      BY <3>1, Moves DEF Start
    <3>2. ~Return(r)
      BY <2>3, Frees DEF Idle, Installs, Starts, Resolves
    <3>3. ASSUME req[r].pc \in Starts
          PROVE  req[r].plugin \in Plugins /\ req[r].uuid <= minted[req[r].plugin]
      BY <3>3, ReqTypes DEF StartReqs
    <3> QED
      BY <1>11, <3>1, <3>2, <3>3, StartMoves
  <2>4. ASSUME NEW q \in Plugins, running'[q] # None PROVE running'[q].uuid <= minted[q]
    <3>1. CASE Register(r)
      <4>1. req[r].pc \in Starts /\ req[r].plugin \in Plugins
        BY <3>1, ReqTypes DEF Register, At, Starts, StartReqs
      <4> QED
        BY <2>4, <3>1, <4>1 DEF Register, Types
    <3>2. CASE UNCHANGED running
      BY <2>4, <3>2
    <3> QED
      BY <1>11, <3>1, <3>2 DEF Starting, Start, StartReturns, HangUp
  <2> QED
    BY <2>1, <2>2, <2>3, <2>4
<1>12. ASSUME NEW p \in Plugins, Instance(p) PROVE Minted'
  <2>1. running[p] # None /\ running[p] \in Instances
    BY <1>12 DEF Instance, Load, WriteBlob, Restart, Types
  <2>2. ASSUME NEW q \in Plugins, running'[q] # None
        PROVE  running[q] # None /\ running'[q].uuid = running[q].uuid
    BY <1>12, <2>2, InstanceKeeps
  <2>3. ASSUME NEW q \in Plugins, NEW u \in Ids, <<q, u>> \in kv' \cup blobs'
        PROVE  <<q, u>> \in kv \cup blobs \/ (q = p /\ u = running[p].uuid)
    BY <1>12, <2>3 DEF Instance, Load, WriteBlob, Restart, stores
  <2>4. UNCHANGED <<rows, minted, entries, quarantined, req, purged>>
    BY <1>12 DEF Instance, Load, WriteBlob, Restart, stores, registry, api, history
  <2> QED
    BY <2>1, <2>2, <2>3, <2>4
<1> QED
  BY <1>1, <1>2, <1>3, <1>4, <1>5, <1>6, <1>7, <1>8, <1>9, <1>10, <1>11, <1>12
  DEF Next, Boot, Hand

(* A uuid minted now is nowhere yet.                                       *)
LEMMA FreshUuid ==
  ASSUME Types, Minted, NEW p \in Plugins, minted[p] < MaxUuid
  PROVE  /\ ~InUse(p, minted[p] + 1)
         /\ \A r \in Requests :
              req[r].pc \in Installs \cup Starts \cup Resolves /\ req[r].plugin = p =>
                req[r].uuid # minted[p] + 1
<1>0. minted[p] \in Nat /\ minted[p] + 1 \in Ids /\ ~(minted[p] + 1 <= minted[p])
  BY PluginsAssumption DEF Types, Ids, Uuids
<1> QED
  BY <1>0 DEF Minted, InUse

LEMMA ApartStep == ASSUME PurgeInv, [Next]_vars PROVE Apart'
<1>0. Types /\ Booting /\ Minted /\ Apart
  BY DEF PurgeInv
<1>1. CASE UNCHANGED vars
  BY <1>0, <1>1 DEF Apart, InUse, vars, stores, registry, api, history
<1>2. CASE Boot
  <2>1. \A r \in Requests : req'[r] = Idle
    BY <1>0, <1>2 DEF Boot, Scan, SweepOrphan, InsertBackfill, ScanDone, Crash, Booting, api
  <2> QED
    BY <2>1 DEF Apart, Idle, Installs
<1>3. CASE Hand
  <2>1. \A r \in Requests : req'[r] = Idle
    BY <1>0, <1>3 DEF Hand, Edit, Degrade, Booting, api
  <2> QED
    BY <2>1 DEF Apart, Idle, Installs
<1>4. ASSUME NEW q \in Requests, Installing(q) \/ Uninstalling(q) \/ Starting(q),
             NEW r \in Requests, req[r].pc \in Installs, r # q,
             NEW p \in Plugins, NEW u \in Uuids, req[r].plugin = p, req[r].uuid = u
      PROVE  /\ ~InUse(p, u)'
             /\ req'[q].pc \in Installs \cup Starts \cup Resolves /\ req'[q].plugin = p =>
                  req'[q].uuid # u
  <2>2. ~InUse(p, u) /\ u <= minted[p]
    BY <1>0, <1>4 DEF Apart, Minted
  <2>3. req[q].pc \in Installs \cup Starts \cup Resolves /\ req[q].plugin = p => req[q].uuid # u
    BY <1>0, <1>4, <2>2 DEF Apart
  <2>4. CASE Installing(q)
    <3>1. ASSUME NEW o \in Plugins, NEW v \in Versions, Install(q, o, v), o = p
          PROVE  req'[q].uuid # u
      BY <1>0, <2>2, <3>1, Moves, PluginsAssumption DEF Install, Types, Uuids
    <3>2. ASSUME NEW o \in Plugins, NEW v \in Versions, Install(q, o, v)
          PROVE  req'[q].plugin = o
      BY <1>0, <3>2, Moves DEF Install
    <3>3. req'[q].pc \in Installs \cup Starts \cup Resolves /\ req'[q].plugin = p => req'[q].uuid # u
      BY <1>0, <2>3, <2>4, <3>1, <3>2, InstallMoves DEF Idle, Installs, Starts, Resolves
    <3>4. CASE Index(q)
      <4>1. req[q].pc \in Installs /\ req[q].plugin \in Plugins
        BY <1>0, <3>4, ReqTypes DEF Index, At, Installs, InstallReqs
      <4>2. entries'[p] # None => entries'[p].uuid # u
        BY <1>0, <2>2, <2>3, <3>4, <4>1 DEF Index, Types, InUse
      <4> QED
        BY <2>2, <3>3, <3>4, <4>2 DEF Index, stores, InUse
    <3>5. CASE ~Index(q)
      <4>1. UNCHANGED <<kv, blobs, purged, entries, quarantined, running>>
        <5>1. UNCHANGED <<kv, blobs, running>>
          BY <2>4, <3>5 DEF Installing, Install, Stage, InsertRow, Rename, Rollback, stores
        <5>2. UNCHANGED <<purged, entries, quarantined>>
          BY <2>4, <3>5 DEF Installing, Install, Stage, InsertRow, Rename, Rollback, registry, history
        <5> QED
          BY <5>1, <5>2
      <4> QED
        BY <2>2, <3>3, <4>1 DEF InUse
    <3> QED
      BY <3>4, <3>5
  <2>5. CASE Uninstalling(q)
    <3>1. ASSUME req'[q].pc \in Installs \cup Starts \cup Resolves, req'[q].plugin = p
          PROVE  req'[q].uuid # u
      <4>1. ASSUME NEW o \in Plugins PROVE ~Uninstall(q, o)
        <5>1. Uninstall(q, o) => req'[q].pc = "purge_kv"
          BY <1>0, Moves DEF Uninstall
        <5> QED
          BY <3>1, <5>1 DEF Installs, Starts, Resolves
      <4>2. ~Return(q)
        BY <1>0, <3>1, Frees DEF Idle, Installs, Starts, Resolves
      <4>3. /\ req'[q].plugin = req[q].plugin
            /\ \/ req[q].pc \in Resolves /\ req'[q].uuid = req[q].uuid
               \/ Installed(req[q].plugin) /\ req'[q].uuid = Resolved(req[q].plugin).uuid
        BY <1>0, <2>5, <3>1, <4>1, <4>2, UninstallMoves DEF Installs, Starts, Resolves, Uninstalls
      <4> QED
        BY <2>2, <2>3, <3>1, <4>3 DEF Installed, Resolved, InUse
    <3>2. <<p, u>> \notin purged'
      <4>1. CASE Tombstone(q)
        <5>1. req[q].pc \in Resolves
          BY <4>1 DEF Tombstone, At, Resolves
        <5> QED
          BY <2>2, <2>3, <4>1, <5>1 DEF Tombstone, InUse
      <4>2. CASE UNCHANGED purged
        BY <2>2, <4>2 DEF InUse
      <4> QED
        BY <2>5, <4>1, <4>2 DEF Uninstalling, Uninstall, PurgeKv, PurgeBlobs, Resolve, RemoveDir, Drop,
           history
    <3>3. /\ entries'[p] # None => entries'[p] = entries[p]
          /\ quarantined'[p] # None => quarantined'[p] = quarantined[p]
          /\ kv' \subseteq kv /\ blobs' \subseteq blobs /\ UNCHANGED running
      BY <1>0, <2>2, <2>5 DEF Uninstalling, Uninstall, PurgeKv, PurgeBlobs, Resolve, RemoveDir, Tombstone,
         Drop, registry, stores, Types
    <3> QED
      BY <2>2, <3>1, <3>2, <3>3 DEF InUse
  <2>6. CASE Starting(q)
    <3>1. ASSUME NEW o \in Plugins, Start(q, o), o = p
          PROVE  req'[q].uuid # u
      BY <1>0, <2>2, <3>1, Moves DEF Start, InUse
    <3>2. ASSUME NEW o \in Plugins, Start(q, o) PROVE req'[q].plugin = o
      BY <1>0, <3>2, Moves DEF Start
    <3>3. req'[q].pc \in Installs \cup Starts \cup Resolves /\ req'[q].plugin = p => req'[q].uuid # u
      BY <1>0, <2>3, <2>6, <3>1, <3>2, StartMoves, Frees DEF Idle, Installs, Starts, Resolves
    <3>4. running'[p] # None => running'[p].uuid # u
      <4>1. CASE Register(q)
        <5>1. req[q].pc \in Starts /\ req[q].plugin \in Plugins
          BY <1>0, <4>1, ReqTypes DEF Register, At, Starts, StartReqs
        <5> QED
          BY <1>0, <2>2, <2>3, <4>1, <5>1 DEF Register, Types, InUse
      <4>2. CASE UNCHANGED running
        BY <2>2, <4>2 DEF InUse
      <4> QED
        BY <2>6, <4>1, <4>2 DEF Starting, Start, StartReturns, HangUp
    <3>5. UNCHANGED <<kv, blobs, purged, entries, quarantined>>
      BY <2>6 DEF Starting, Start, Register, StartReturns, HangUp, stores, registry, history
    <3> QED
      BY <2>2, <3>3, <3>4, <3>5 DEF InUse
  <2> QED
    BY <1>4, <2>4, <2>5, <2>6
<1>5. ASSUME NEW r \in Requests, Installing(r) \/ Uninstalling(r) \/ Starting(r),
             req'[r].pc \in Installs,
             NEW p \in Plugins, NEW u \in Uuids, req'[r].plugin = p, req'[r].uuid = u
      PROVE  /\ ~InUse(p, u)'
             /\ \A q \in Requests :
                  q # r /\ req[q].pc \in Installs \cup Starts \cup Resolves /\ req[q].plugin = p =>
                    req[q].uuid # u
  <2>1. CASE Installing(r)
    <3>1. ASSUME NEW o \in Plugins, NEW v \in Versions, Install(r, o, v)
          PROVE  /\ ~InUse(p, u)'
                 /\ \A q \in Requests :
                      req[q].pc \in Installs \cup Starts \cup Resolves /\ req[q].plugin = p =>
                        req[q].uuid # u
      <4>1. UNCHANGED <<kv, blobs, purged, entries, quarantined, running>>
        BY <3>1 DEF Install, stores, registry, history
      <4>2. p = o /\ u = minted[p] + 1 /\ minted[p] < MaxUuid
        BY <1>0, <1>5, <3>1, Moves DEF Install
      <4>3. /\ ~InUse(p, u)
            /\ \A q \in Requests :
                 req[q].pc \in Installs \cup Starts \cup Resolves /\ req[q].plugin = p =>
                   req[q].uuid # u
        BY <1>0, <4>2, FreshUuid
      <4> QED
        BY <4>1, <4>3 DEF InUse
    <3>2. ASSUME ~\E o \in Plugins, v \in Versions : Install(r, o, v)
          PROVE  ~InUse(p, u)' /\ req[r].pc \in Installs /\ req[r].plugin = p /\ req[r].uuid = u
      <4>1. req[r].pc \in Installs /\ req[r].plugin = p /\ req[r].uuid = u
        BY <1>0, <1>5, <2>1, <3>2, InstallMoves DEF Idle, Installs
      <4>2. ~Index(r)
        BY <1>0, <1>5, Moves DEF Index, Idle, Installs
      <4>3. UNCHANGED <<kv, blobs, purged, entries, quarantined, running>>
        BY <2>1, <3>2, <4>2 DEF Installing, Stage, InsertRow, Rename, Rollback, stores, registry, history
      <4>4. ~InUse(p, u)
        BY <1>0, <4>1 DEF Apart
      <4> QED
        BY <4>1, <4>3, <4>4 DEF InUse
    <3> QED
      BY <1>0, <3>1, <3>2 DEF Apart
  <2>2. CASE Uninstalling(r) \/ Starting(r)
    <3>1. ASSUME NEW o \in Plugins PROVE ~Uninstall(r, o) /\ ~Start(r, o)
      <4>1. /\ Uninstall(r, o) => req'[r].pc = "purge_kv"
            /\ Start(r, o) => req'[r].pc = "register"
        BY <1>0, Moves DEF Uninstall, Start
      <4> QED
        BY <1>5, <4>1 DEF Installs
    <3>2. ~Return(r)
      BY <1>0, <1>5, Frees DEF Idle, Installs
    <3> QED
      BY <1>0, <1>5, <2>2, <3>1, <3>2, UninstallMoves, StartMoves DEF Installs, Uninstalls, Starts
  <2> QED
    BY <1>5, <2>1, <2>2
<1>6. ASSUME NEW p \in Plugins, Instance(p) PROVE Apart'
  <2>1. running[p] # None
    BY <1>6 DEF Instance, Load, WriteBlob, Restart
  <2>2. ASSUME NEW q \in Plugins, running'[q] # None
        PROVE  running[q] # None /\ running'[q].uuid = running[q].uuid
    BY <1>0, <1>6, <2>2, InstanceKeeps
  <2>3. ASSUME NEW q \in Plugins, NEW u \in Uuids, <<q, u>> \in kv' \cup blobs'
        PROVE  <<q, u>> \in kv \cup blobs \/ (q = p /\ u = running[p].uuid)
    BY <1>6, <2>3 DEF Instance, Load, WriteBlob, Restart, stores
  <2>4. UNCHANGED <<entries, quarantined, req, purged>>
    BY <1>6 DEF Instance, Load, WriteBlob, Restart, registry, api, history
  <2>5. ASSUME NEW q \in Plugins, NEW u \in Uuids, ~InUse(q, u) PROVE ~InUse(q, u)'
    BY <2>1, <2>2, <2>3, <2>4, <2>5 DEF InUse
  <2> QED
    BY <1>0, <2>4, <2>5, ReqTypes DEF Apart, InstallReqs, InUse
<1>7. ASSUME NEW q \in Requests, Installing(q) \/ Uninstalling(q) \/ Starting(q) PROVE Apart'
  <2>1. \A o \in Requests : o # q => req'[o] = req[o]
    BY <1>0, <1>7, OthersStay
  <2>2. ASSUME NEW r \in Requests, req'[r].pc \in Installs
        PROVE  req'[r].plugin \in Plugins /\ req'[r].uuid \in Uuids
    <3>1. req'[r] \in InstallReqs
      BY <2>2, TypesStep DEF Types, Reqs, Idle, Installs, InstallReqs, PurgeReqs, BlobReqs,
         Resolves, RemoveReqs, Starts, StartReqs
    <3> QED
      BY <3>1 DEF InstallReqs
  <2>3. ASSUME NEW r \in Requests, req'[r].pc \in Installs,
               NEW p \in Plugins, NEW u \in Uuids, req'[r].plugin = p, req'[r].uuid = u
        PROVE  /\ ~InUse(p, u)'
               /\ \A o \in Requests :
                    o # r /\ req'[o].pc \in Installs \cup Starts \cup Resolves /\ req'[o].plugin = p =>
                      req'[o].uuid # u
    <3>1. CASE r = q
      BY <1>5, <1>7, <2>1, <2>3, <3>1
    <3>2. CASE r # q
      <4>1. req[r].pc \in Installs /\ req[r].plugin = p /\ req[r].uuid = u
        BY <2>1, <2>3, <3>2
      <4>2. ASSUME NEW o \in Requests, o # r, o # q, req'[o].pc \in Installs \cup Starts \cup Resolves,
                   req'[o].plugin = p
            PROVE  req'[o].uuid # u
        BY <1>0, <2>1, <4>1, <4>2 DEF Apart
      <4> QED
        BY <1>4, <1>7, <3>2, <4>1, <4>2
    <3> QED
      BY <3>1, <3>2
  <2> QED
    BY <2>2, <2>3 DEF Apart, InUse
<1> QED
  BY <1>1, <1>2, <1>3, <1>6, <1>7 DEF Next

-----------------------------------------------------------------------------
(* What is purged.                                                         *)

(* Nobody writes state of a plugin that is being uninstalled, and what it  *)
(* resolves to changes only to an installation that has no state yet.      *)
LEMMA PurgingHolds ==
  ASSUME PurgeInv, [Next]_vars, NEW r \in Requests,
         req[r].pc \in Uninstalls, req'[r] = req[r], NEW p \in Plugins, req[r].plugin = p
  PROVE  /\ \A u \in Ids : <<p, u>> \notin kv => <<p, u>> \notin kv'
         /\ \A u \in Ids : <<p, u>> \notin blobs => <<p, u>> \notin blobs'
         /\ \/ Resolved(p)' = Resolved(p) /\ (Installed(p) => Installed(p)')
            \/ /\ req[r].pc \notin Resolves
               /\ <<p, Resolved(p)'.uuid>> \notin kv' \cup blobs'
<1>0. Types /\ Booting /\ Locked /\ Apart
  BY DEF PurgeInv
<1>1. running[p] = None /\ lock[p] = r /\ phase = "up"
  BY <1>0 DEF Locked, Booting, Idle, Uninstalls
<1>2. /\ \A u \in Ids : <<p, u>> \notin kv => <<p, u>> \notin kv'
      /\ \A u \in Ids : <<p, u>> \notin blobs => <<p, u>> \notin blobs'
  <2>1. ASSUME NEW q \in Plugins, Instance(q)
        PROVE  /\ q # p
               /\ kv' \subseteq kv \cup {<<q, running[q].uuid>>}
               /\ blobs' \subseteq blobs \cup {<<q, running[q].uuid>>}
    BY <1>1, <2>1 DEF Instance, Load, WriteBlob, Restart, stores
  <2>2. CASE kv' \subseteq kv /\ blobs' \subseteq blobs
    BY <2>2
  <2>3. CASE \E q \in Plugins : Instance(q)
    BY <2>1, <2>3
  <2>4. CASE \E q \in Requests : Installing(q) \/ Uninstalling(q) \/ Starting(q)
    BY <2>2, <2>4, RequestFrames DEF RequestFrame
  <2>5. CASE Boot \/ Hand \/ UNCHANGED vars
    BY <2>2, <2>5 DEF Boot, Scan, SweepOrphan, InsertBackfill, ScanDone, Crash, Hand, Edit, Degrade,
       vars, stores
  <2> QED
    BY <2>3, <2>4, <2>5 DEF Next
<1>3. CASE entries'[p] = entries[p] /\ quarantined'[p] = quarantined[p]
  BY <1>2, <1>3 DEF Resolved, Installed
<1>4. ASSUME NEW q \in Requests, Index(q), req[q].plugin = p
      PROVE  /\ req[r].pc \notin Resolves
             /\ <<p, Resolved(p)'.uuid>> \notin kv' \cup blobs'
  <2>1. req[q].pc \in Installs /\ ~InUse(p, req[q].uuid) /\ req[q].uuid \in Uuids
    BY <1>0, <1>4, ReqTypes DEF Index, At, Installs, Apart, InstallReqs
  <2>2. [uuid |-> req[q].uuid, dir |-> Home[p], digest |-> req[q].bytes] \in Entries
    BY <1>0, <1>4, <2>1, ReqTypes, PluginsAssumption DEF InstallReqs, Entries
  <2>3. entries'[p].uuid = req[q].uuid /\ entries'[p] # None
    BY <1>0, <1>4, <2>2, NoneAssumption DEF Index, Types, Entries
  <2>4. Resolved(p)'.uuid = req[q].uuid
    BY <2>3 DEF Resolved
  <2>5. UNCHANGED <<kv, blobs>> /\ req[r].pc \notin Resolves
    BY <1>4 DEF Index, stores, EntriesLocked, Resolves
  <2> QED
    BY <2>1, <2>4, <2>5 DEF InUse
<1>5. ASSUME NEW q \in Requests, Drop(q), q # r
      PROVE  entries'[p] = entries[p] /\ quarantined'[p] = quarantined[p]
  <2>1. lock[req[q].plugin] = q
    BY <1>0, <1>5 DEF Locked, Drop, At, Uninstalls
  <2>2. req[q].plugin # p
    BY <1>1, <1>5, <2>1
  <2> QED
    BY <1>0, <1>5, <2>2 DEF Drop, Types
<1>6. ASSUME NEW q \in Requests, Installing(q) \/ Uninstalling(q) \/ Starting(q), ~Index(q), ~Drop(q)
      PROVE  UNCHANGED registry
  BY <1>6, RequestFrames DEF RequestFrame, registry
<1>7. ASSUME NEW q \in Requests, Index(q), req[q].plugin # p
      PROVE  entries'[p] = entries[p] /\ quarantined'[p] = quarantined[p]
  BY <1>0, <1>7 DEF Index, Types
<1>8. ~Drop(r)
  <2>1. ASSUME Drop(r) PROVE FALSE
    <3>1. req'[r].pc = "idle"
      BY <1>0, <2>1, Frees DEF Drop, Idle
    <3> QED
      BY <3>1 DEF Uninstalls
  <2> QED
    BY <2>1
<1>9. CASE Boot \/ Hand \/ UNCHANGED vars
  <2>1. UNCHANGED registry
    <3>1. ~Scan
      BY <1>1 DEF Scan
    <3>2. ~Crash
      <4>1. Crash => req'[r].pc = "idle"
        BY DEF Crash, Idle
      <4> QED
        BY <4>1 DEF Uninstalls
    <3> QED
      BY <1>9, <3>1, <3>2 DEF Boot, SweepOrphan, InsertBackfill, ScanDone, Hand, Edit, Degrade, vars
  <2> QED
    BY <1>3, <2>1 DEF registry
<1>10. CASE \E q \in Plugins : Instance(q)
  <2>1. UNCHANGED registry
    BY <1>10 DEF Instance, Load, WriteBlob, Restart
  <2> QED
    BY <1>3, <2>1 DEF registry
<1> QED
  BY <1>2, <1>3, <1>4, <1>5, <1>6, <1>7, <1>8, <1>9, <1>10 DEF Next, registry

LEMMA PurgingStep == ASSUME PurgeInv, [Next]_vars PROVE Purging'
<1>0. Types /\ Booting /\ Locked /\ Purging /\ Apart
  BY DEF PurgeInv
<1>1. ASSUME NEW r \in Requests, NEW p \in Plugins, req[r].pc \in Uninstalls, req[r].plugin = p
      PROVE  /\ req[r].pc = "purge_blobs" =>
                  /\ <<p, Resolved(p).uuid>> \notin kv
                  /\ <<p, Resolved(p).uuid>> \in blobs => Resolved(p).uuid = req[r].uuid
             /\ req[r].pc \in {"resolve"} \cup Resolves => <<p, Resolved(p).uuid>> \notin kv \cup blobs
             /\ req[r].pc \in Resolves => Installed(p) /\ Resolved(p).uuid = req[r].uuid
  BY <1>0, <1>1 DEF Purging
<1>2. ASSUME NEW r \in Requests, NEW p \in Plugins, req'[r].pc \in Uninstalls, req'[r].plugin = p
      PROVE  /\ req'[r].pc = "purge_blobs" =>
                  /\ <<p, Resolved(p)'.uuid>> \notin kv'
                  /\ <<p, Resolved(p)'.uuid>> \in blobs' => Resolved(p)'.uuid = req'[r].uuid
             /\ req'[r].pc \in {"resolve"} \cup Resolves =>
                  <<p, Resolved(p)'.uuid>> \notin kv' \cup blobs'
             /\ req'[r].pc \in Resolves => Installed(p)' /\ Resolved(p)'.uuid = req'[r].uuid
  <2>1. Resolved(p).uuid \in Ids
    BY <1>0, ResolvedTypes DEF Quarantines
  <2>2. CASE req'[r] = req[r]
    <3>1. req[r].pc \in Uninstalls /\ req[r].plugin = p
      BY <1>2, <2>2
    <3> QED
      BY <1>1, <2>1, <2>2, <3>1, PurgingHolds
  <2>3. CASE PurgeKv(r) /\ ~Return(r)
    <3>1. UNCHANGED <<entries, quarantined, blobs>> /\ req[r].plugin \in Plugins
      BY <1>0, <2>3, ReqTypes DEF PurgeKv, registry, At, PurgeReqs
    <3>2. /\ req'[r] = [pc |-> "purge_blobs", plugin |-> req[r].plugin,
                        uuid |-> Resolved(req[r].plugin).uuid]
          /\ kv' = kv \ {<<req[r].plugin, Resolved(req[r].plugin).uuid>>}
      BY <1>0, <2>3, Moves DEF PurgeKv
    <3>3. req[r].plugin = p /\ req'[r].uuid = Resolved(p).uuid /\ req'[r].pc = "purge_blobs"
      BY <1>2, <3>2
    <3>4. Resolved(p)' = Resolved(p)
      BY <3>1 DEF Resolved
    <3> QED
      BY <3>2, <3>3, <3>4 DEF Resolves
  <2>4. CASE PurgeBlobs(r) /\ ~Return(r)
    <3>1. UNCHANGED <<entries, quarantined, kv>> /\ req[r].pc = "purge_blobs"
      BY <2>4 DEF PurgeBlobs, registry, At
    <3>2. /\ req'[r] = [pc |-> "resolve", plugin |-> req[r].plugin]
          /\ blobs' = blobs \ {<<req[r].plugin, req[r].uuid>>}
      BY <1>0, <2>4, Moves DEF PurgeBlobs
    <3>3. req[r].plugin = p /\ req'[r].pc = "resolve"
      BY <1>2, <3>2
    <3>4. Resolved(p)' = Resolved(p)
      BY <3>1 DEF Resolved
    <3>5. <<p, Resolved(p).uuid>> \notin kv' \cup blobs'
      BY <1>1, <3>1, <3>2, <3>3 DEF Uninstalls
    <3> QED
      BY <3>3, <3>4, <3>5 DEF Resolves
  <2>5. CASE Resolve(r) /\ ~Return(r)
    <3>1. UNCHANGED <<entries, quarantined, kv, blobs>> /\ req[r].pc = "resolve"
      BY <2>5 DEF Resolve, registry, stores, At
    <3>2. /\ req'[r] = [pc |-> "remove", plugin |-> req[r].plugin,
                        uuid |-> Resolved(req[r].plugin).uuid, dirs |-> Resolved(req[r].plugin).dirs]
          /\ Installed(req[r].plugin)
      BY <1>0, <2>5, Moves DEF Resolve
    <3>3. req[r].plugin = p /\ req'[r].pc = "remove" /\ req'[r].uuid = Resolved(p).uuid
      BY <1>2, <3>2
    <3>4. Resolved(p)' = Resolved(p) /\ Installed(p)'
      BY <3>1, <3>2, <3>3 DEF Resolved, Installed
    <3>5. <<p, Resolved(p).uuid>> \notin kv \cup blobs
      BY <1>1, <3>1, <3>3 DEF Uninstalls
    <3> QED
      BY <3>1, <3>3, <3>4, <3>5 DEF Resolves
  <2>6. CASE (RemoveDir(r) \/ Tombstone(r)) /\ ~Return(r)
    <3>1. UNCHANGED <<entries, quarantined, kv, blobs>> /\ req[r].pc \in Resolves
      BY <2>6 DEF RemoveDir, Tombstone, registry, At, Resolves
    <3>2. Uninstalling(r)
      BY <2>6 DEF Uninstalling
    <3>3. ASSUME NEW o \in Plugins PROVE ~Uninstall(r, o)
      BY <3>1 DEF Uninstall, At, Resolves
    <3>4. req'[r].plugin = req[r].plugin /\ (req'[r].pc \in Resolves => req'[r].uuid = req[r].uuid)
      BY <1>0, <2>6, <3>1, <3>2, <3>3, UninstallMoves DEF Resolves
    <3>5. req'[r].pc \in Resolves
      <4>1. RemoveDir(r) \/ Tombstone(r) => req'[r].pc \in Resolves
        <5>1. CASE RemoveDir(r)
          <6>1. req[r] \in RemoveReqs /\ req[r].pc = "remove"
            BY <1>0, <5>1, ReqTypes DEF RemoveDir, At, Resolves
          <6>2. PICK d : req'[r] = [req[r] EXCEPT !.dirs = @ \ {d}]
            BY <1>0, <2>6, <5>1, Moves DEF RemoveDir
          <6> QED
            BY <6>1, <6>2 DEF RemoveReqs, Resolves
        <5>2. CASE Tombstone(r)
          BY <1>0, <2>6, <3>1, <5>2, Moves, StepKeeps DEF Tombstone, Resolves
        <5> QED
          BY <5>1, <5>2
      <4> QED
        BY <2>6, <4>1
    <3>6. Resolved(p)' = Resolved(p) /\ Installed(p)' = Installed(p)
      BY <3>1 DEF Resolved, Installed
    <3>7. req[r].plugin = p /\ req[r].pc \in Uninstalls
      BY <1>2, <3>1, <3>4 DEF Resolves, Uninstalls
    <3> QED
      BY <1>1, <3>1, <3>4, <3>5, <3>6, <3>7 DEF Resolves
  <2>7. CASE req'[r].pc = "purge_kv"
    BY <2>7 DEF Resolves
  <2>8. ~Return(r)
    <3>1. Return(r) => req'[r].pc = "idle"
      BY <1>0, Frees DEF Idle
    <3> QED
      BY <1>2, <3>1 DEF Uninstalls
  <2>9. CASE Uninstalling(r)
    <3>1. ASSUME NEW o \in Plugins, Uninstall(r, o) PROVE req'[r].pc = "purge_kv"
      BY <1>0, <3>1, Moves DEF Uninstall
    <3> QED
      BY <2>3, <2>4, <2>5, <2>6, <2>7, <2>8, <2>9, <3>1 DEF Uninstalling, Drop
  <2>10. CASE Installing(r) \/ Starting(r)
    <3>1. /\ \A o \in Plugins, v \in Versions : Install(r, o, v) => req'[r].pc = "stage"
          /\ \A o \in Plugins : Start(r, o) => req'[r].pc = "register"
      BY <1>0, Moves DEF Install, Start
    <3>2. req'[r].pc \notin Uninstalls
      BY <1>0, <2>8, <2>10, <3>1, InstallMoves, StartMoves DEF Installs, Starts, Uninstalls, Idle
    <3> QED
      BY <1>2, <3>2
  <2>11. CASE Crash
    BY <1>2, <2>11 DEF Crash, Idle, Uninstalls
  <2>12. ASSUME NEW q \in Requests, Installing(q) \/ Uninstalling(q) \/ Starting(q), q # r
         PROVE  req'[r] = req[r]
    BY <1>0, <2>12, OthersStay
  <2>13. CASE UNCHANGED req
    BY <2>2, <2>13
  <2> QED
    BY <2>2, <2>9, <2>10, <2>11, <2>12, <2>13 DEF Next, vars, api, Boot, Scan, SweepOrphan,
       InsertBackfill, ScanDone, Hand, Edit, Degrade, Instance, Load, WriteBlob, Restart
<1>3. ASSUME NEW r \in Requests, req'[r].pc \in Uninstalls PROVE req'[r].plugin \in Plugins
  BY <1>3, TypesStep DEF Types, Reqs, Idle, Installs, InstallReqs, PurgeReqs, BlobReqs,
     Resolves, RemoveReqs, Starts, StartReqs, Uninstalls
<1> QED
  BY <1>2, <1>3 DEF Purging, Uninstalls, Resolves, Resolved, Installed

-----------------------------------------------------------------------------
(* Nothing of a purged installation comes back.                            *)

(* The loader finds an entry that no uninstall is about to drop.           *)
LEMMA LoadedNotPurged ==
  ASSUME PurgeInv, NEW p \in Plugins, running[p] # None, ~EntriesLocked, LoadAdmitted(p)
  PROVE  <<p, running[p].uuid>> \notin purged
  BY DEF PurgeInv, Gone, LoadAdmitted, EntriesLocked

(* What a tombstone is for has nothing left to purge, and nothing runs.    *)
LEMMA TombstonedClean ==
  ASSUME PurgeInv, NEW r \in Requests, Tombstone(r)
  PROVE  /\ req[r].pc = "remove" /\ req[r].plugin \in Plugins /\ req[r].uuid \in Ids
         /\ <<req[r].plugin, req[r].uuid>> \notin kv \cup blobs
         /\ running[req[r].plugin] = None
         /\ phase = "up"
         /\ purged' \subseteq purged \cup {<<req[r].plugin, req[r].uuid>>}
<1>0. Types /\ Booting /\ Locked /\ Purging
  BY DEF PurgeInv
<1>1. req[r].pc = "remove" /\ req[r].plugin \in Plugins /\ req[r].uuid \in Ids
  BY <1>0, ReqTypes DEF Tombstone, At, Resolves, RemoveReqs
<1>2. <<req[r].plugin, req[r].uuid>> \notin kv \cup blobs
  BY <1>0, <1>1 DEF Purging, Resolves
<1>3. running[req[r].plugin] = None /\ phase = "up"
  BY <1>0, <1>1 DEF Locked, Booting, Idle, Uninstalls
<1> QED
  BY <1>1, <1>2, <1>3 DEF Tombstone

LEMMA PurgedOnlyByTombstone ==
  ASSUME [Next]_vars, ~\E r \in Requests : Tombstone(r)
  PROVE  UNCHANGED purged
<1>1. CASE Boot \/ Hand \/ UNCHANGED vars
  BY <1>1 DEF Boot, Scan, SweepOrphan, InsertBackfill, ScanDone, Crash, Hand, Edit, Degrade, vars, history
<1>2. CASE \E r \in Requests : Installing(r) \/ Uninstalling(r) \/ Starting(r)
  BY <1>2, RequestFrames DEF RequestFrame
<1>4. CASE \E p \in Plugins : Instance(p)
  BY <1>4 DEF Instance, Load, WriteBlob, Restart, history
<1> QED
  BY <1>1, <1>2, <1>4 DEF Next

LEMMA PurgesStep == ASSUME PurgeInv, [Next]_vars PROVE UninstallPurges'
<1>0. UninstallPurges /\ Gone
  BY DEF PurgeInv
<1>1. ASSUME NEW r \in Requests, Tombstone(r) PROVE UninstallPurges'
  <2>1. UNCHANGED <<kv, blobs>>
    BY <1>1 DEF Tombstone
  <2> QED
    BY <1>0, <1>1, <2>1, TombstonedClean DEF UninstallPurges
<1>2. ASSUME NEW p \in Plugins, Load(p) PROVE UninstallPurges'
  <2>1. CASE UNCHANGED kv
    BY <1>0, <1>2, <2>1 DEF UninstallPurges, Load, history
  <2>2. CASE LoadAdmitted(p)
    <3>1. <<p, running[p].uuid>> \notin purged
      BY <1>2, <2>2, LoadedNotPurged DEF Load
    <3> QED
      BY <1>0, <1>2, <3>1 DEF UninstallPurges, Load, history
  <2> QED
    BY <1>2, <2>1, <2>2 DEF Load
<1>3. ASSUME NEW p \in Plugins, WriteBlob(p) PROVE UninstallPurges'
  <2>1. <<p, running[p].uuid>> \notin purged
    BY <1>0, <1>3 DEF Gone, WriteBlob
  <2> QED
    BY <1>0, <1>3, <2>1 DEF UninstallPurges, WriteBlob, history
<1>4. ASSUME UNCHANGED purged, kv' \subseteq kv, blobs' \subseteq blobs PROVE UninstallPurges'
  BY <1>0, <1>4 DEF UninstallPurges
<1>5. ASSUME ~\E r \in Requests : Tombstone(r), ~\E p \in Plugins : Load(p) \/ WriteBlob(p)
      PROVE  kv' \subseteq kv /\ blobs' \subseteq blobs
  <2>1. CASE Boot \/ Hand \/ UNCHANGED vars
    BY <2>1 DEF Boot, Scan, SweepOrphan, InsertBackfill, ScanDone, Crash, Hand, Edit, Degrade, vars, stores
  <2>2. CASE \E r \in Requests : Installing(r) \/ Uninstalling(r) \/ Starting(r)
    BY <2>2, RequestFrames DEF RequestFrame
  <2>3. CASE \E p \in Plugins : Instance(p)
    BY <1>5, <2>3 DEF Instance, Restart, stores
  <2> QED
    BY <2>1, <2>2, <2>3 DEF Next
<1> QED
  BY <1>1, <1>2, <1>3, <1>4, <1>5, PurgedOnlyByTombstone

LEMMA GoneStep == ASSUME PurgeInv, [Next]_vars PROVE Gone'
<1>0. Types /\ OneLive /\ Booting /\ Locked /\ Minted /\ Apart /\ OneResolves /\ Gone
  BY DEF PurgeInv
<1>1. ASSUME NEW p \in Plugins, NEW u \in Uuids, rows'[p][u].state = "live"
      PROVE  <<p, u>> \notin purged'
  <2>1. ASSUME NEW r \in Requests, Tombstone(r) PROVE <<p, u>> \notin purged'
    <3>1. req[r].plugin \in Plugins /\ req[r].uuid \in Ids
      BY <2>1, TombstonedClean
    <3>2. CASE UNCHANGED <<rows, purged>>
      BY <1>0, <1>1, <3>2 DEF Gone
    <3>3. CASE /\ rows' = IF req[r].uuid = NoRow THEN rows ELSE Tombstoned(req[r].plugin, req[r].uuid)
               /\ purged' = purged \cup {<<req[r].plugin, req[r].uuid>>}
      <4>1. u # NoRow
        BY DEF Uuids, NoRow
      <4>2. rows[p][u].state = "live" /\ ~(p = req[r].plugin /\ u = req[r].uuid)
        BY <1>0, <1>1, <3>1, <3>3, <4>1, TombstonedRows
      <4> QED
        BY <1>0, <3>3, <4>2 DEF Gone
    <3> QED
      BY <2>1, <3>2, <3>3 DEF Tombstone
  <2>2. CASE rows[p][u].state = "live" /\ UNCHANGED purged
    BY <1>0, <2>2 DEF Gone
  <2>3. ASSUME NEW r \in Requests, InsertRow(r), rows[p][u].state # "live" PROVE <<p, u>> \notin purged
    <3>1. req[r].pc \in Installs /\ req[r].plugin \in Plugins /\ req[r].uuid \in Uuids
      BY <1>0, <2>3, ReqTypes DEF InsertRow, At, Installs, InstallReqs
    <3>2. SetRow(req[r].plugin, req[r].uuid, [state |-> "live", digest |-> req[r].bytes])
      BY <1>1, <2>3 DEF InsertRow
    <3>3. p = req[r].plugin /\ u = req[r].uuid
      BY <1>0, <1>1, <2>3, <3>1, <3>2 DEF SetRow, Types
    <3> QED
      BY <1>0, <3>1, <3>3 DEF Apart, InUse
  <2>4. ASSUME NEW q \in Plugins, InsertBackfill(q), rows[p][u].state # "live"
        PROVE  <<p, u>> \notin purged
    <3>1. p = q /\ u = minted[p]
      BY <1>0, <1>1, <2>4 DEF InsertBackfill, SetRow, Types
    <3> QED
      BY <1>0, <2>4, <3>1 DEF InsertBackfill, Gone
  <2>5. ASSUME NEW q \in Plugins, Degrade(q) PROVE rows[p][u].state = "live"
    BY <1>0, <1>1, <2>5, LiveIds DEF Degrade, SetRow, Types, Live
  <2>6. ASSUME NEW q \in Plugins, SweepOrphan(q) PROVE rows[p][u].state = "live"
    BY <1>0, <1>1, <2>6, LiveIds, TombstonedRows DEF SweepOrphan
  <2>7. ASSUME NEW r \in Requests, Rollback(r) PROVE rows[p][u].state = "live"
    <3>1. req[r].plugin \in Plugins /\ req[r].uuid \in Uuids
      BY <1>0, <2>7, ReqTypes DEF Rollback, At, Installs, InstallReqs
    <3>2. CASE SetRow(req[r].plugin, req[r].uuid, [state |-> "absent", digest |-> None])
      BY <1>0, <1>1, <3>1, <3>2 DEF SetRow, Types
    <3> QED
      BY <1>1, <2>7, <3>2 DEF Rollback
  <2>8. ASSUME ~\E r \in Requests : Tombstone(r) \/ InsertRow(r) \/ Rollback(r),
               ~\E q \in Plugins : InsertBackfill(q) \/ Degrade(q) \/ SweepOrphan(q)
        PROVE  UNCHANGED rows
    <3>1. CASE Boot \/ Hand \/ UNCHANGED vars
      BY <2>8, <3>1 DEF Boot, Scan, ScanDone, Crash, Hand, Edit, vars, stores
    <3>2. CASE \E r \in Requests : Installing(r) \/ Uninstalling(r) \/ Starting(r)
      BY <2>8, <3>2, RequestFrames DEF RequestFrame
    <3>3. CASE \E q \in Plugins : Instance(q)
      BY <3>3 DEF Instance, Load, WriteBlob, Restart, stores
    <3> QED
      BY <3>1, <3>2, <3>3 DEF Next
  <2>9. CASE ~\E r \in Requests : Tombstone(r)
    <3>1. UNCHANGED purged
      BY <2>9, PurgedOnlyByTombstone
    <3>2. rows[p][u].state = "live" \/ <<p, u>> \notin purged
      BY <1>1, <2>3, <2>4, <2>5, <2>6, <2>7, <2>8, <2>9
    <3> QED
      BY <2>2, <3>1, <3>2
  <2> QED
    BY <2>1, <2>9
<1>2. ASSUME NEW p \in Plugins, phase' = "sweep", p \in backfill'
      PROVE  <<p, minted'[p]>> \notin purged'
  <2>1. CASE Scan
    <3>1. minted[p] \in Nat /\ minted'[p] = minted[p] + 1 /\ minted'[p] \in Ids
      BY <1>0, <1>2, <2>1, PluginsAssumption DEF Scan, Types, Ids, Uuids
    <3>2. ~(minted'[p] <= minted[p])
      BY <3>1
    <3>3. UNCHANGED purged
      BY <2>1 DEF Scan, history
    <3> QED
      BY <1>0, <3>1, <3>2, <3>3 DEF Minted
  <2>2. CASE ~Scan
    <3>1. ~\E r \in Requests : Installing(r) \/ Uninstalling(r) \/ Starting(r)
      BY <1>0, <1>2, RequestsUp DEF boot
    <3>2. phase = "sweep" /\ p \in backfill /\ UNCHANGED minted
      BY <1>2, <2>2, <3>1 DEF Next, Boot, SweepOrphan, InsertBackfill, ScanDone, Crash, Hand, Edit,
         Degrade, Instance, Load, WriteBlob, Restart, vars, boot
    <3>3. UNCHANGED purged
      BY <3>1, PurgedOnlyByTombstone DEF Uninstalling
    <3> QED
      BY <1>0, <3>2, <3>3 DEF Gone
  <2> QED
    BY <2>1, <2>2
<1>3. ASSUME NEW p \in Plugins, entries'[p] # None, <<p, entries'[p].uuid>> \in purged'
      PROVE  \E r \in Requests : req'[r].pc = "drop" /\ req'[r].plugin = p
  <2>1. ASSUME NEW r \in Requests, Tombstone(r)
        PROVE  \E q \in Requests : req'[q].pc = "drop" /\ req'[q].plugin = p
    <3>1. UNCHANGED entries /\ req[r].pc = "remove"
      BY <2>1, TombstonedClean DEF Tombstone, registry
    <3>2. <<p, entries[p].uuid>> \notin purged
      BY <1>0, <1>3, <2>1, <3>1 DEF Gone, OneResolves, Resolves
    <3>3. purged' # purged /\ p = req[r].plugin
      BY <1>3, <2>1, <3>1, <3>2, TombstonedClean
    <3>4. Goto(r, Step(r, "drop"))
      BY <2>1, <3>3 DEF Tombstone
    <3>5. req'[r] = Step(r, "drop")
      BY <1>0, <3>4, Moves
    <3>6. req'[r].pc = "drop" /\ req'[r].plugin = p
      BY <1>0, <3>1, <3>3, <3>5, StepKeeps DEF Resolves
    <3> QED
      BY <3>6
  <2>2. ASSUME ~\E r \in Requests : Tombstone(r), entries'[p] = entries[p]
        PROVE  \E q \in Requests : req'[q].pc = "drop" /\ req'[q].plugin = p
    <3>1. <<p, entries[p].uuid>> \in purged
      BY <1>3, <2>2, PurgedOnlyByTombstone
    <3>2. PICK q \in Requests : req[q].pc = "drop" /\ req[q].plugin = p
      BY <1>0, <1>3, <2>2, <3>1 DEF Gone
    <3>3. ~Drop(q)
      BY <1>0, <1>3, <2>2, <3>2 DEF Drop, Types
    <3>4. ~(Installing(q) \/ Uninstalling(q) \/ Starting(q))
      <4>1. ~Installing(q) /\ ~Starting(q)
        BY <3>2 DEF Installing, Install, Stage, InsertRow, Rename, Rollback, Index, Starting, Start,
           Register, StartReturns, HangUp, At
      <4>2. ~Uninstalling(q)
        BY <3>2, <3>3 DEF Uninstalling, Uninstall, PurgeKv, PurgeBlobs, Resolve, RemoveDir, Tombstone, At
      <4> QED
        BY <4>1, <4>2
    <3>5. ~Crash /\ ~Scan /\ ~SweepOrphan(p) /\ ~ScanDone
      BY <1>0, <1>3, <3>2 DEF Crash, Booting, Idle, Scan, SweepOrphan, ScanDone
    <3>6. CASE \E r \in Requests : Installing(r) \/ Uninstalling(r) \/ Starting(r)
      BY <1>0, <3>2, <3>4, <3>6, OthersStay
    <3>7. CASE UNCHANGED req
      BY <3>2, <3>7
    <3> QED
      BY <3>5, <3>6, <3>7 DEF Next, Boot, SweepOrphan, InsertBackfill, Hand, Edit, Degrade,
         Instance, Load, WriteBlob, Restart, vars, api
  <2>3. ASSUME NEW r \in Requests, Index(r) PROVE entries'[p] = entries[p]
    <3>1. req[r].pc \in Installs /\ req[r].plugin \in Plugins
      BY <1>0, <2>3, ReqTypes DEF Index, At, Installs, InstallReqs
    <3>2. <<req[r].plugin, req[r].uuid>> \notin purged'
      BY <1>0, <2>3, <3>1 DEF Index, Apart, InUse
    <3>3. req[r].plugin # p
      BY <1>0, <1>3, <2>3, <3>1, <3>2 DEF Index, Types
    <3> QED
      BY <1>0, <2>3, <3>3 DEF Index, Types
  <2>4. ASSUME NEW r \in Requests, Drop(r) PROVE entries'[p] = entries[p]
    BY <1>0, <1>3, <2>4 DEF Drop, Types
  <2>5. ~Scan
    <3>1. ASSUME Scan PROVE <<p, entries'[p].uuid>> \notin purged
      <4>1. entries'[p].uuid = ScanUuid(p) /\ Indexed(p)
        BY <1>3, <3>1 DEF Scan, ScanEntry
      <4>2. CASE p \in Backfilled
        <5>1. minted[p] \in Nat /\ minted[p] + 1 \in Ids /\ ~(minted[p] + 1 <= minted[p])
          BY <1>0, <3>1, <4>2, PluginsAssumption DEF Scan, Types, Ids, Uuids
        <5> QED
          BY <1>0, <4>1, <4>2, <5>1 DEF Minted, ScanUuid
      <4>3. CASE p \notin Backfilled
        <5>1. Live(p) # {}
          BY <4>1, <4>3 DEF Indexed, Backfilled
        <5> QED
          BY <1>0, <4>1, <4>3, <5>1, LiveIds DEF Gone, Live, ScanUuid
      <4> QED
        BY <4>2, <4>3
    <3> QED
      BY <1>3, <3>1 DEF Scan, history
  <2>6. ~Crash
    BY <1>3 DEF Crash
  <2>7. ASSUME ~\E r \in Requests : Index(r) \/ Drop(r) PROVE UNCHANGED entries
    <3>1. CASE Boot \/ Hand \/ UNCHANGED vars
      BY <2>5, <2>6, <3>1 DEF Boot, SweepOrphan, InsertBackfill, ScanDone, Hand, Edit, Degrade, vars,
         registry
    <3>2. CASE \E r \in Requests : Installing(r) \/ Uninstalling(r) \/ Starting(r)
      BY <2>7, <3>2, RequestFrames DEF RequestFrame
    <3>3. CASE \E q \in Plugins : Instance(q)
      BY <3>3 DEF Instance, Load, WriteBlob, Restart, registry
    <3> QED
      BY <3>1, <3>2, <3>3 DEF Next
  <2> QED
    BY <2>1, <2>2, <2>3, <2>4, <2>7
<1>4. ASSUME NEW p \in Plugins, running'[p] # None, running'[p].loaded
      PROVE  <<p, running'[p].uuid>> \notin purged'
  <2>1. ASSUME running'[p] = running[p] PROVE <<p, running'[p].uuid>> \notin purged'
    <3>1. <<p, running[p].uuid>> \notin purged
      BY <1>0, <1>4, <2>1 DEF Gone
    <3>2. ASSUME NEW r \in Requests, Tombstone(r) PROVE <<p, running[p].uuid>> \notin purged'
      <4>1. req[r].plugin # p /\ purged' \subseteq purged \cup {<<req[r].plugin, req[r].uuid>>}
        BY <1>4, <2>1, <3>2, TombstonedClean
      <4> QED
        BY <3>1, <4>1
    <3>3. CASE ~\E r \in Requests : Tombstone(r)
      BY <2>1, <3>1, <3>3, PurgedOnlyByTombstone
    <3> QED
      BY <2>1, <3>2, <3>3
  <2>2. ASSUME NEW q \in Plugins, Load(q), LoadAdmitted(q), q = p PROVE <<p, running'[p].uuid>> \notin purged'
    <3>1. running'[p].uuid = running[p].uuid
      BY <1>0, <1>4, <2>2, InstanceKeeps DEF Instance
    <3>2. UNCHANGED purged
      BY <2>2 DEF Load, history
    <3> QED
      BY <2>2, <3>1, <3>2, LoadedNotPurged DEF Load
  <2>3. ASSUME NEW q \in Plugins, Instance(q), ~(Load(q) /\ LoadAdmitted(q) /\ q = p)
        PROVE  running'[p] = running[p]
    <3>1. running[q] # None
      BY <2>3 DEF Instance, Load, WriteBlob, Restart
    <3>2. CASE q # p
      BY <1>0, <2>3, <3>2 DEF Instance, Load, WriteBlob, Restart, Types, api
    <3>3. CASE q = p
      <4>1. running' = [running EXCEPT ![p] = None] => running'[p] = None
        BY <1>0 DEF Types
      <4>2. running' = [running EXCEPT ![p].loaded = FALSE] => ~running'[p].loaded
        BY <1>0, <3>1, <3>3 DEF Types, Instances
      <4> QED
        BY <1>4, <2>3, <3>3, <4>1, <4>2 DEF Instance, Load, WriteBlob, Restart, api
    <3> QED
      BY <3>2, <3>3
  <2>4. ASSUME NEW r \in Requests, Register(r) PROVE running'[p] = running[p]
    <3>1. req[r].plugin \in Plugins
      BY <1>0, <2>4, ReqTypes DEF Register, At, Starts, StartReqs
    <3> QED
      BY <1>0, <1>4, <2>4, <3>1 DEF Register, Types
  <2>5. ~Crash
    BY <1>4 DEF Crash
  <2>6. ASSUME ~\E r \in Requests : Register(r), ~\E q \in Plugins : Instance(q) PROVE UNCHANGED running
    <3>1. CASE Boot \/ Hand \/ UNCHANGED vars
      BY <2>5, <3>1 DEF Boot, Scan, SweepOrphan, InsertBackfill, ScanDone, Hand, Edit, Degrade, vars, api
    <3>2. CASE \E r \in Requests : Installing(r) \/ Uninstalling(r) \/ Starting(r)
      BY <2>6, <3>2, RequestFrames DEF RequestFrame
    <3> QED
      BY <2>6, <3>1, <3>2 DEF Next
  <2> QED
    BY <2>1, <2>2, <2>3, <2>4, <2>6
<1> QED
  BY <1>1, <1>2, <1>3, <1>4 DEF Gone

-----------------------------------------------------------------------------
LEMMA PurgeInit == Init => PurgeInv
<1> SUFFICES ASSUME Init PROVE PurgeInv
  OBVIOUS
<1> USE DEF Init
<1>1. Types
  <2>1. [state |-> "absent", digest |-> None] \in Row
    BY DEF Row
  <2>2. rows \in [Plugins -> [Uuids -> Row]]
    BY <2>1
  <2>3. 0 \in 0..MaxUuid /\ Idle \in Reqs
    BY PluginsAssumption DEF Reqs
  <2> QED
    BY <2>2, <2>3 DEF Types
<1>2. OneLive /\ Booting
  BY DEF OneLive, Booting
<1>3. Locked /\ Minted /\ Apart /\ Purging /\ OneResolves
  BY DEF Locked, Minted, Apart, Purging, OneResolves, Idle, Installs, Uninstalls, Starts, Resolves
<1>4. Gone /\ UninstallPurges
  BY DEF Gone, UninstallPurges
<1> QED
  BY <1>1, <1>2, <1>3, <1>4 DEF PurgeInv

(* The invariant holds for any number of plugins, directories, contents,   *)
(* requests, crashes and edits.                                            *)
THEOREM PurgeInvariant == Spec => []PurgeInv
<1>1. PurgeInv /\ [Next]_vars => PurgeInv'
  BY TypesStep, OneLiveStep, BootingStep, LockedStep, MintedStep, ApartStep, PurgingStep,
     OneResolvesStep, GoneStep, PurgesStep DEF PurgeInv
<1> QED
  BY <1>1, PurgeInit, PTL DEF Spec

(* An uninstall that went through leaves no KV and no blob state under the *)
(* installation, for ever: however loads, restarts, installs of the same   *)
(* plugin, hang-ups, crashes and failed removals interleave with it.       *)
THEOREM UninstallAlwaysPurges == Spec => []UninstallPurges
<1>1. PurgeInv => UninstallPurges
  BY DEF PurgeInv
<1> QED
  BY <1>1, PurgeInvariant, PTL

(* Memory and table are well formed, and no row of a plugin is live twice. *)
THEOREM PluginsTyped == Spec => []PluginsTypeOK
<1>1. ASSUME PurgeInv, NEW p \in Plugins PROVE Cardinality(Live(p)) <= 1
  <2>1. CASE Live(p) = {}
    BY <2>1, FS_EmptySet
  <2>2. ASSUME NEW u \in Live(p) PROVE Cardinality(Live(p)) = 1
    <3>1. Live(p) = {u}
      BY <1>1, <2>2 DEF PurgeInv, OneLive, Live
    <3> QED
      BY <3>1, FS_Singleton
  <2> QED
    BY <2>1, <2>2
<1>2. PurgeInv => PluginsTypeOK
  BY <1>1, PluginsAssumption DEF PurgeInv, Types, PluginsTypeOK, Entries, Quarantines, Ids
<1> QED
  BY <1>2, PurgeInvariant, PTL

-----------------------------------------------------------------------------
(***************************************************************************)
(* plugins_root, the table plugin_installation and the two maps in memory  *)
(* agree.  A directory the daemon put there has its live row, what runs is *)
(* what was installed, what can be read can be uninstalled, what was       *)
(* uninstalled stays away, and an identity does not rotate.                *)
(*                                                                         *)
(* The inductive invariant is CatalogInv, on top of PurgeInv: one formula  *)
(* CatalogOf(p) for each plugin p, in eleven parts.  A step of a request   *)
(* is about one plugin; for the others it is Undisturbed, and for the      *)
(* request's own plugin there is a lemma for each action that writes the   *)
(* disk, the table or the maps.                                            *)
(***************************************************************************)

(* An install from its row on, until its entry is in the map. *)
Landed == {"rename", "rollback", "index"}

Landing(r, p) == req[r].pc \in Landed /\ req[r].plugin = p
Removing(r, p) == req[r].pc \in Resolves /\ req[r].plugin = p

Indexing(p) == \E r \in Requests : req[r].pc = "index" /\ req[r].plugin = p
Dropping(p) == \E r \in Requests : req[r].pc = "drop" /\ req[r].plugin = p

(* The plugin's directories, readable or not; the readable ones that the   *)
(* daemon put there; those that the maps know of.                          *)
Held(p) == {d \in Dirs : disk[d] # None /\ disk[d].id = p}
Unplaced(p) == Sightings(p) \ placed
KnownDirs(p) ==
  (IF entries[p] # None THEN {entries[p].dir} ELSE {})
    \cup (IF quarantined[p] # None THEN quarantined[p].dirs ELSE {})

(* No other plugin's package is or will be in the directory.               *)
Owns(p, d) ==
  /\ disk[d] # None => disk[d].id = p
  /\ \A q \in Plugins : Home[q] = d => q = p

-----------------------------------------------------------------------------
(* The parts of the invariant.                                             *)

Owned(p) ==
  /\ Owns(p, Home[p])
  /\ \A d \in KnownDirs(p) : Owns(p, d)
  /\ \A r \in Requests : Removing(r, p) => \A d \in req[r].dirs : Owns(p, d)

(* The maps through a boot, and an entry beside a quarantine entry: that   *)
(* one was made without a row.                                             *)
Mapped(p) ==
  /\ phase = "down" => entries[p] = None /\ quarantined[p] = None
  /\ phase = "sweep" /\ p \in sweep => entries[p] = None /\ quarantined[p] = None /\ Held(p) = {}
  /\ phase = "sweep" /\ entries[p] # None => entries[p].dir \in Sightings(p)
  /\ entries[p] # None /\ quarantined[p] # None => quarantined[p].uuid = NoRow

(* An install that has its row is the only thing of the plugin that the    *)
(* daemon put on disk.                                                     *)
Landings(p) ==
  \A r \in Requests : Landing(r, p) =>
    /\ rows[p][req[r].uuid] = [state |-> "live", digest |-> req[r].bytes]
    /\ known[p] = None
    /\ \A d \in Unplaced(p) : req[r].pc = "index" /\ d = Home[p]
    /\ req[r].pc = "index" => p \notin gone

(* A row the scan is about to insert. *)
Pending(p, u) == phase = "sweep" /\ p \in backfill /\ u = minted[p]

(* What the maps serve has its live row, until an uninstall is past it.    *)
EntryVouched(p) ==
  entries[p] # None =>
    \/ Pending(p, entries[p].uuid) /\ entries[p].digest = disk[First(p)].bytes
    \/ rows[p][entries[p].uuid] = [state |-> "live", digest |-> entries[p].digest]
    \/ Dropping(p)

QuarantineVouched(p) ==
  quarantined[p] # None /\ quarantined[p].uuid # NoRow =>
    \/ Pending(p, quarantined[p].uuid)
    \/ quarantined[p].uuid \in Live(p)
    \/ Dropping(p)

(* Who would tombstone the live row knows of every directory the daemon    *)
(* put there.                                                              *)
Covered(p) ==
  /\ entries[p] # None /\ (phase = "sweep" \/ entries[p].uuid \in Live(p)) =>
       Unplaced(p) \subseteq {entries[p].dir}
  /\ quarantined[p] # None /\ (phase = "sweep" \/ quarantined[p].uuid \in Live(p)) =>
       Unplaced(p) \subseteq quarantined[p].dirs
  /\ \A r \in Requests : Removing(r, p) /\ req[r].uuid \in Live(p) =>
       Unplaced(p) \subseteq req[r].dirs

(* Every readable directory is in a map, or about to be.                   *)
Listed(p) ==
  phase # "down" =>
    \A d \in Sightings(p) : d \in KnownDirs(p) \/ (Indexing(p) /\ d = Home[p])

(* An uninstall still has before it what of its directories can be read.   *)
Removals(p) ==
  \A r \in Requests : Removing(r, p) =>
    /\ \A d \in Resolved(p).dirs \cap Sightings(p) :
         d \in req[r].dirs \/ (Indexing(p) /\ d = Home[p])
    /\ req[r].pc = "drop" => req[r].dirs = {}

(* An identity that counts is live, and something on disk has it.          *)
KnownLive(p) == known[p] # None => known[p] \in Live(p) /\ Held(p) # {}

GoneClean(p) == p \in gone => Sightings(p) = {} /\ (entries[p] # None => Dropping(p))

Backed(p) == Unplaced(p) # {} => Live(p) # {}

CatalogOf(p) ==
  /\ Owned(p) /\ Mapped(p) /\ Landings(p) /\ EntryVouched(p) /\ QuarantineVouched(p)
  /\ Covered(p) /\ Listed(p) /\ Removals(p) /\ KnownLive(p) /\ GoneClean(p) /\ Backed(p)

(* What an instance runs.                                                  *)
RunsInstalled(p) ==
  running[p] # None /\ running[p].loaded =>
    /\ running[p].uuid \in Live(p)
    /\ running[p].dir \in Sightings(p)
    /\ rows[p][running[p].uuid].digest = disk[running[p].dir].bytes

KnownTypes == known \in [Plugins -> Uuids \cup {None}] /\ gone \subseteq Plugins

CatalogInv ==
  /\ PurgeInv
  /\ KnownTypes
  /\ \A p \in Plugins : CatalogOf(p) /\ RunsInstalled(p)

-----------------------------------------------------------------------------
(* A step that is not about the plugin.                                    *)
Undisturbed(p) ==
  /\ phase = "up" /\ phase' = "up"
  /\ rows'[p] = rows[p]
  /\ entries'[p] = entries[p] /\ quarantined'[p] = quarantined[p]
  /\ known'[p] = known[p]
  /\ Held(p)' = Held(p) /\ Sightings(p)' = Sightings(p) /\ Unplaced(p)' = Unplaced(p)
  /\ \A d \in Dirs : Owns(p, d) => Owns(p, d)'
  /\ p \in gone' => p \in gone
  /\ Dropping(p) => Dropping(p)'
  /\ Indexing(p) => Indexing(p)'
  /\ \A r \in Requests :
       req'[r].pc \in Landed \cup Resolves /\ req'[r].plugin = p => req'[r] = req[r]

(* The directories the maps and the uninstalls name are directories.       *)
LEMMA DirTypes ==
  ASSUME Types, NEW p \in Plugins
  PROVE  /\ Home[p] \in Dirs /\ KnownDirs(p) \subseteq Dirs /\ Sightings(p) \subseteq Dirs
         /\ \A r \in Requests : Removing(r, p) => req[r].dirs \subseteq Dirs /\ req[r].uuid \in Ids
<1>1. Home[p] \in Dirs /\ Sightings(p) \subseteq Dirs
  BY PluginsAssumption DEF PluginsAssumption, Sightings
<1>2. KnownDirs(p) \subseteq Dirs
  BY DEF Types, KnownDirs, Entries, Quarantines
<1>3. ASSUME NEW r \in Requests, Removing(r, p) PROVE req[r].dirs \subseteq Dirs /\ req[r].uuid \in Ids
  BY <1>3, ReqTypes DEF Removing, RemoveReqs
<1> QED BY <1>1, <1>2, <1>3

(* It keeps the plugin's part of the invariant.                            *)
LEMMA UndisturbedKeeps ==
  ASSUME Types, NEW p \in Plugins, CatalogOf(p), Undisturbed(p)
  PROVE  CatalogOf(p)'
<1> USE DEF Undisturbed
<1>1. Live(p)' = Live(p) /\ Resolved(p)' = Resolved(p) /\ KnownDirs(p)' = KnownDirs(p)
  BY DEF Live, Resolved, KnownDirs
<1>2. ASSUME NEW r \in Requests
      PROVE  /\ Landing(r, p)' => Landing(r, p) /\ req'[r] = req[r]
             /\ Removing(r, p)' => Removing(r, p) /\ req'[r] = req[r]
  BY DEF Landing, Removing
<1>3. Owned(p)'
  BY <1>1, <1>2, DirTypes DEF CatalogOf, Owned
<1>4. Mapped(p)'
  BY DEF CatalogOf, Mapped
<1>5. Landings(p)'
  BY <1>2 DEF CatalogOf, Landings
<1>6. EntryVouched(p)'
  BY DEF CatalogOf, EntryVouched, Pending
<1>7. QuarantineVouched(p)'
  BY <1>1 DEF CatalogOf, QuarantineVouched, Pending
<1>8. Covered(p)'
  BY <1>1, <1>2 DEF CatalogOf, Covered
<1>9. Listed(p)'
  BY <1>1 DEF CatalogOf, Listed
<1>10. Removals(p)'
  BY <1>1, <1>2 DEF CatalogOf, Removals
<1>11. KnownLive(p)' /\ GoneClean(p)' /\ Backed(p)'
  BY <1>1 DEF CatalogOf, KnownLive, GoneClean, Backed
<1> QED BY <1>3, <1>4, <1>5, <1>6, <1>7, <1>8, <1>9, <1>10, <1>11 DEF CatalogOf

LEMMA PurgeNext == ASSUME PurgeInv, [Next]_vars PROVE PurgeInv'
  BY TypesStep, OneLiveStep, BootingStep, LockedStep, MintedStep, ApartStep, PurgingStep,
     OneResolvesStep, GoneStep, PurgesStep DEF PurgeInv

LEMMA DiskAlone ==
  ASSUME UNCHANGED <<disk, placed>>, NEW p \in Plugins
  PROVE  /\ Held(p)' = Held(p) /\ Sightings(p)' = Sightings(p) /\ Unplaced(p)' = Unplaced(p)
         /\ \A d \in Dirs : Owns(p, d) => Owns(p, d)'
  BY DEF Held, Sightings, Readable, Unplaced, Owns

(* A request on its way between two places where it says nothing of disk,  *)
(* table and maps.                                                         *)
LEMMA StillStep ==
  ASSUME phase = "up", phase' = "up",
         UNCHANGED <<disk, rows, entries, quarantined, known, placed, gone>>,
         NEW r \in Requests, \A q \in Requests : q # r => req'[q] = req[q],
         req[r].pc \notin {"index", "drop"}, req'[r].pc \notin Landed \cup Resolves,
         NEW p \in Plugins
  PROVE  Undisturbed(p)
<1>1. Dropping(p) => Dropping(p)'
  BY DEF Dropping
<1>2. Indexing(p) => Indexing(p)'
  BY DEF Indexing
<1> QED
  BY <1>1, <1>2, DiskAlone DEF Undisturbed

(* The step of a request about one plugin, seen from another.              *)
LEMMA OtherPlugin ==
  ASSUME phase = "up", phase' = "up",
         NEW r \in Requests, \A q \in Requests : q # r => req'[q] = req[q],
         req'[r] = Idle \/ req'[r].plugin = req[r].plugin,
         NEW p \in Plugins, p # req[r].plugin,
         rows'[p] = rows[p], entries'[p] = entries[p], quarantined'[p] = quarantined[p],
         known'[p] = known[p], p \in gone' => p \in gone,
         Held(p)' = Held(p), Sightings(p)' = Sightings(p), Unplaced(p)' = Unplaced(p),
         \A d \in Dirs : Owns(p, d) => Owns(p, d)'
  PROVE  Undisturbed(p)
<1>1. Dropping(p) => Dropping(p)'
  BY DEF Dropping
<1>2. Indexing(p) => Indexing(p)'
  BY DEF Indexing
<1>3. ASSUME NEW q \in Requests, req'[q].pc \in Landed \cup Resolves, req'[q].plugin = p
      PROVE  req'[q] = req[q]
  BY <1>3 DEF Idle, Landed, Resolves
<1> QED
  BY <1>1, <1>2, <1>3 DEF Undisturbed

(* An install that has its row has it alone, and nobody who serves or      *)
(* removes the plugin does so under a live row.                            *)
LEMMA Alone ==
  ASSUME PurgeInv, NEW p \in Plugins, CatalogOf(p), NEW r \in Requests, Landing(r, p)
  PROVE  /\ phase = "up"
         /\ req[r] \in InstallReqs
         /\ Live(p) = {req[r].uuid}
         /\ \A s \in Requests : Landing(s, p) => s = r
         /\ entries[p] # None => Dropping(p) /\ entries[p].uuid \notin Live(p)
         /\ quarantined[p] # None /\ quarantined[p].uuid # NoRow => Dropping(p)
         /\ quarantined[p] # None => quarantined[p].uuid \notin Live(p)
         /\ \A s \in Requests : Removing(s, p) => req[s].uuid \notin Live(p)
<1>0. Types /\ OneLive /\ Booting /\ Apart
  BY DEF PurgeInv
<1>1. req[r].pc \in Installs /\ req[r].plugin = p
  BY DEF Landing, Landed, Installs
<1>2. req[r] \in InstallReqs /\ req[r].uuid \in Uuids
  BY <1>0, <1>1, ReqTypes DEF InstallReqs
<1>3. phase = "up"
  BY <1>0, <1>1 DEF Booting, Idle, Installs
<1>4. ASSUME NEW s \in Requests, Landing(s, p) PROVE req[s].uuid \in Uuids /\ Live(p) = {req[s].uuid}
  <2>1. req[s].pc \in Installs /\ req[s].plugin = p
    BY <1>4 DEF Landing, Landed, Installs
  <2>2. req[s].uuid \in Uuids
    BY <1>0, <2>1, ReqTypes DEF InstallReqs
  <2>3. rows[p][req[s].uuid] = [state |-> "live", digest |-> req[s].bytes]
    BY <1>4 DEF CatalogOf, Landings
  <2>4. rows[p][req[s].uuid].state = "live"
    BY <2>3
  <2> QED
    BY <1>0, <2>2, <2>4 DEF OneLive, Live
<1>5. Live(p) = {req[r].uuid}
  BY <1>4
<1>6. ASSUME NEW s \in Requests, Landing(s, p) PROVE s = r
  <2>1. req[s].uuid = req[r].uuid /\ req[s].pc \in Installs /\ req[s].plugin = p
    BY <1>4, <1>5, <1>6 DEF Landing, Landed, Installs
  <2> QED
    BY <1>0, <1>1, <2>1 DEF Apart
<1>7. ~InUse(p, req[r].uuid)
  BY <1>0, <1>1 DEF Apart
<1>8. /\ entries[p] # None => entries[p].uuid \notin Live(p)
      /\ quarantined[p] # None => quarantined[p].uuid \notin Live(p)
  BY <1>5, <1>7 DEF InUse
<1>9. ~Pending(p, entries[p].uuid) /\ ~Pending(p, quarantined[p].uuid)
  BY <1>3 DEF Pending
<1>10. ASSUME entries[p] # None PROVE Dropping(p)
  <2>1. entries[p].uuid \in Uuids
    BY <1>0, <1>10 DEF Types, Entries
  <2>2. rows[p][entries[p].uuid].state # "live"
    BY <1>8, <1>10, <2>1 DEF Live
  <2> QED
    BY <1>9, <1>10, <2>2 DEF CatalogOf, EntryVouched
<1>11. quarantined[p] # None /\ quarantined[p].uuid # NoRow => Dropping(p)
  BY <1>8, <1>9 DEF CatalogOf, QuarantineVouched
<1>12. ASSUME NEW s \in Requests, Removing(s, p) PROVE req[s].uuid \notin Live(p)
  <2>1. s # r
    BY <1>1, <1>12 DEF Removing, Resolves, Installs
  <2> QED
    BY <1>0, <1>1, <1>5, <1>12, <2>1 DEF Apart, Removing
<1> QED
  BY <1>2, <1>3, <1>5, <1>6, <1>8, <1>10, <1>11, <1>12

-----------------------------------------------------------------------------
(* The steps of an install.                                                *)

(* An install that is at its row has no row and no directory beside it.    *)
LEMMA InsertRowOwn ==
  ASSUME PurgeInv, NEW r \in Requests, NEW p \in Plugins, p = req[r].plugin, CatalogOf(p),
         InsertRow(r), UniqueLive(p),
         SetRow(p, req[r].uuid, [state |-> "live", digest |-> req[r].bytes]),
         Goto(r, Step(r, "rename"))
  PROVE  CatalogOf(p)'
<1>0. Types /\ Booting
  BY DEF PurgeInv
<1>1. req[r] \in InstallReqs /\ req[r].pc = "insert" /\ req[r].uuid \in Uuids
  BY <1>0, ReqTypes DEF InsertRow, At, Installs, InstallReqs
<1>2. phase = "up" /\ UNCHANGED <<phase, disk, entries, quarantined, known, placed, gone>>
  BY <1>0, <1>1, RequestsUp DEF InsertRow, boot, registry, history, Installing
<1>3. /\ req'[r].pc = "rename" /\ req'[r].plugin = p /\ req'[r].uuid = req[r].uuid
      /\ req'[r].bytes = req[r].bytes /\ \A q \in Requests : q # r => req'[q] = req[q]
  BY <1>0, <1>1, Moves DEF Step, InstallReqs
<1>4. Live(p) = {} /\ known[p] = None /\ Unplaced(p) = {}
  BY DEF UniqueLive, CatalogOf, KnownLive, Backed
<1>5. rows'[p][req[r].uuid] = [state |-> "live", digest |-> req[r].bytes]
  BY <1>0, <1>1 DEF SetRow, Types
<1>6. ASSUME NEW s \in Requests, Landing(s, p) PROVE FALSE
  BY <1>4, <1>6, Alone
<1>7. /\ \A s \in Requests : Landing(s, p)' => s = r
      /\ \A s \in Requests : Removing(s, p)' => Removing(s, p) /\ req'[s] = req[s]
  BY <1>3, <1>6 DEF Landing, Removing, Resolves
<1>8. (Dropping(p) => Dropping(p)') /\ (Indexing(p) => Indexing(p)')
  BY <1>1, <1>3 DEF Dropping, Indexing
<1>9. /\ KnownDirs(p)' = KnownDirs(p) /\ Sightings(p)' = Sightings(p) /\ Held(p)' = Held(p)
      /\ Unplaced(p)' = {} /\ Resolved(p)' = Resolved(p)
      /\ \A d \in Dirs : Owns(p, d) => Owns(p, d)'
  BY <1>2, <1>4, DiskAlone DEF KnownDirs, Resolved
<1>10. Owned(p)'
  BY <1>0, <1>7, <1>9, DirTypes DEF CatalogOf, Owned
<1>11. Mapped(p)'
  BY <1>2 DEF CatalogOf, Mapped
<1>12. Landings(p)'
  BY <1>2, <1>3, <1>4, <1>5, <1>7, <1>9 DEF Landings
<1>13. entries[p] # None => Dropping(p)
  <2>1. entries[p] # None => entries[p].uuid \in Uuids
    BY <1>0 DEF Types, Entries
  <2>2. entries[p] # None => rows[p][entries[p].uuid].state # "live"
    BY <1>4, <2>1 DEF Live
  <2> QED
    BY <1>2, <2>2 DEF CatalogOf, EntryVouched, Pending
<1>14. quarantined[p] # None /\ quarantined[p].uuid # NoRow => Dropping(p)
  BY <1>2, <1>4 DEF CatalogOf, QuarantineVouched, Pending
<1>15. EntryVouched(p)' /\ QuarantineVouched(p)'
  BY <1>2, <1>8, <1>13, <1>14 DEF EntryVouched, QuarantineVouched
<1>16. Covered(p)' /\ Backed(p)'
  BY <1>9 DEF Covered, Backed
<1>17. Listed(p)'
  BY <1>2, <1>8, <1>9 DEF CatalogOf, Listed
<1>18. Removals(p)'
  BY <1>7, <1>8, <1>9 DEF CatalogOf, Removals
<1>19. KnownLive(p)' /\ GoneClean(p)'
  BY <1>2, <1>4, <1>8, <1>9 DEF CatalogOf, KnownLive, GoneClean
<1> QED
  BY <1>10, <1>11, <1>12, <1>15, <1>16, <1>17, <1>18, <1>19 DEF CatalogOf

(* The package appears: it has its row, and no map has the plugin yet.     *)
LEMMA RenameOwn ==
  ASSUME PurgeInv, NEW r \in Requests, NEW p \in Plugins, p = req[r].plugin, CatalogOf(p),
         Rename(r), disk[Home[p]] = None,
         disk' = [disk EXCEPT ![Home[p]] = [id |-> p, readable |-> TRUE, bytes |-> req[r].bytes]],
         placed' = placed \ {Home[p]}, gone' = gone \ {p}, Goto(r, Step(r, "index"))
  PROVE  CatalogOf(p)'
<1>0. Types /\ Booting
  BY DEF PurgeInv
<1>1. req[r] \in InstallReqs /\ req[r].pc = "rename" /\ req[r].uuid \in Uuids
  BY <1>0, ReqTypes DEF Rename, At, Installs, InstallReqs
<1>2. phase = "up" /\ UNCHANGED <<phase, rows, entries, quarantined, known>>
  BY <1>0, <1>1, RequestsUp DEF Rename, boot, registry, Installing
<1>3. /\ req'[r].pc = "index" /\ req'[r].plugin = p /\ req'[r].uuid = req[r].uuid
      /\ req'[r].bytes = req[r].bytes /\ \A q \in Requests : q # r => req'[q] = req[q]
  BY <1>0, <1>1, Moves DEF Step, InstallReqs
<1>4. Landing(r, p)
  BY <1>1 DEF Landing, Landed
<1>5. /\ Live(p) = {req[r].uuid} /\ \A s \in Requests : Landing(s, p) => s = r
      /\ entries[p] # None => Dropping(p) /\ entries[p].uuid \notin Live(p)
      /\ quarantined[p] # None /\ quarantined[p].uuid # NoRow => Dropping(p)
      /\ quarantined[p] # None => quarantined[p].uuid \notin Live(p)
      /\ \A s \in Requests : Removing(s, p) => req[s].uuid \notin Live(p)
  BY <1>4, Alone
<1>6. /\ rows[p][req[r].uuid] = [state |-> "live", digest |-> req[r].bytes]
      /\ known[p] = None /\ Unplaced(p) = {}
  BY <1>1, <1>4 DEF CatalogOf, Landings
<1>7. /\ \A s \in Requests : Landing(s, p)' => s = r
      /\ \A s \in Requests : Removing(s, p)' => Removing(s, p) /\ req'[s] = req[s]
  BY <1>3, <1>5 DEF Landing, Removing, Resolves
<1>8. (Dropping(p) => Dropping(p)') /\ Indexing(p)'
  BY <1>1, <1>3 DEF Dropping, Indexing
<1>9. Home[p] \in Dirs /\ Home[p] \notin Sightings(p)
  BY <1>0, DirTypes DEF Sightings, Readable
<1>10. /\ disk'[Home[p]] = [id |-> p, readable |-> TRUE, bytes |-> req[r].bytes]
       /\ \A d \in Dirs : d # Home[p] => disk'[d] = disk[d]
  BY <1>0, <1>9 DEF Types
<1>11. Sightings(p)' \subseteq Sightings(p) \cup {Home[p]}
  BY <1>10 DEF Sightings, Readable
<1>12. Unplaced(p)' \subseteq {Home[p]}
  <2>1. ASSUME NEW d \in Unplaced(p)', d # Home[p] PROVE d \in Unplaced(p)
    BY <1>11, <2>1 DEF Unplaced
  <2> QED
    BY <1>6, <2>1
<1>13. KnownDirs(p)' = KnownDirs(p) /\ Live(p)' = Live(p) /\ Resolved(p)' = Resolved(p)
  BY <1>2 DEF KnownDirs, Live, Resolved
<1>14. ASSUME NEW d \in Dirs, Owns(p, d) PROVE Owns(p, d)'
  BY <1>10, <1>14, PluginsAssumption DEF Owns
<1>15. Owned(p)'
  BY <1>0, <1>7, <1>13, <1>14, DirTypes DEF CatalogOf, Owned
<1>16. Mapped(p)'
  BY <1>2 DEF CatalogOf, Mapped
<1>17. Landings(p)'
  BY <1>2, <1>3, <1>6, <1>7, <1>12 DEF Landings
<1>18. EntryVouched(p)' /\ QuarantineVouched(p)'
  BY <1>2, <1>5, <1>8 DEF EntryVouched, QuarantineVouched
<1>19. Covered(p)'
  BY <1>2, <1>5, <1>7, <1>13 DEF Covered
<1>20. Backed(p)'
  BY <1>5, <1>13 DEF Backed
<1>21. Listed(p)'
  BY <1>2, <1>8, <1>11, <1>13 DEF CatalogOf, Listed
<1>22. Removals(p)'
  BY <1>7, <1>8, <1>11, <1>13 DEF CatalogOf, Removals
<1>23. KnownLive(p)' /\ GoneClean(p)'
  BY <1>2, <1>6 DEF KnownLive, GoneClean
<1> QED
  BY <1>15, <1>16, <1>17, <1>18, <1>19, <1>20, <1>21, <1>22, <1>23 DEF CatalogOf

(* A rename that fails leaves everything to the rollback.                  *)
LEMMA RenameFailsOwn ==
  ASSUME PurgeInv, NEW r \in Requests, NEW p \in Plugins, p = req[r].plugin, CatalogOf(p),
         Rename(r), UNCHANGED <<disk, placed, gone>>, Goto(r, Step(r, "rollback"))
  PROVE  CatalogOf(p)'
<1>0. Types /\ Booting
  BY DEF PurgeInv
<1>1. req[r] \in InstallReqs /\ req[r].pc = "rename"
  BY <1>0, ReqTypes DEF Rename, At, Installs
<1>2. phase = "up" /\ UNCHANGED <<phase, rows, entries, quarantined, known>>
  BY <1>0, <1>1, RequestsUp DEF Rename, boot, registry, Installing
<1>3. /\ req'[r].pc = "rollback" /\ req'[r].plugin = p /\ req'[r].uuid = req[r].uuid
      /\ req'[r].bytes = req[r].bytes /\ \A q \in Requests : q # r => req'[q] = req[q]
  BY <1>0, <1>1, Moves DEF Step, InstallReqs
<1>4. Landing(r, p) /\ \A s \in Requests : Landing(s, p) => s = r
  BY <1>1, Alone DEF Landing, Landed
<1>5. /\ \A s \in Requests : Landing(s, p)' => s = r
      /\ \A s \in Requests : Removing(s, p)' => Removing(s, p) /\ req'[s] = req[s]
  BY <1>3, <1>4 DEF Landing, Removing, Resolves
<1>6. (Dropping(p) => Dropping(p)') /\ (Indexing(p) => Indexing(p)')
  BY <1>1, <1>3 DEF Dropping, Indexing
<1>7. /\ KnownDirs(p)' = KnownDirs(p) /\ Sightings(p)' = Sightings(p) /\ Held(p)' = Held(p)
      /\ Unplaced(p)' = Unplaced(p) /\ Resolved(p)' = Resolved(p) /\ Live(p)' = Live(p)
      /\ \A d \in Dirs : Owns(p, d) => Owns(p, d)'
  BY <1>2, DiskAlone DEF KnownDirs, Resolved, Live
<1>8. Owned(p)'
  BY <1>0, <1>5, <1>7, DirTypes DEF CatalogOf, Owned
<1>9. Mapped(p)'
  BY <1>2 DEF CatalogOf, Mapped
<1>10. Landings(p)'
  BY <1>1, <1>2, <1>3, <1>4, <1>5, <1>7 DEF CatalogOf, Landings
<1>11. EntryVouched(p)' /\ QuarantineVouched(p)'
  BY <1>2, <1>6, <1>7 DEF CatalogOf, EntryVouched, QuarantineVouched, Pending
<1>12. Covered(p)' /\ Backed(p)'
  BY <1>2, <1>5, <1>7 DEF CatalogOf, Covered, Backed
<1>13. Listed(p)' /\ Removals(p)'
  BY <1>2, <1>5, <1>6, <1>7 DEF CatalogOf, Listed, Removals
<1>14. KnownLive(p)' /\ GoneClean(p)'
  BY <1>2, <1>6, <1>7 DEF CatalogOf, KnownLive, GoneClean
<1> QED
  BY <1>8, <1>9, <1>10, <1>11, <1>12, <1>13, <1>14 DEF CatalogOf

(* The row of an install that put nothing on disk is deleted.              *)
LEMMA RollbackOwn ==
  ASSUME PurgeInv, NEW r \in Requests, NEW p \in Plugins, p = req[r].plugin, CatalogOf(p),
         Rollback(r)
  PROVE  CatalogOf(p)'
<1>0. Types /\ Booting
  BY DEF PurgeInv
<1>1. req[r] \in InstallReqs /\ req[r].pc = "rollback" /\ req[r].uuid \in Uuids
  BY <1>0, ReqTypes DEF Rollback, At, Installs, InstallReqs
<1>2. phase = "up" /\ UNCHANGED <<phase, disk, entries, quarantined, known, placed, gone>>
  BY <1>0, <1>1, RequestsUp DEF Rollback, boot, registry, history, Installing
<1>3. req'[r] = Idle /\ \A q \in Requests : q # r => req'[q] = req[q]
  BY <1>0, Moves DEF Rollback
<1>4. Landing(r, p) /\ \A s \in Requests : Landing(s, p) => s = r
  BY <1>1, Alone DEF Landing, Landed
<1>5. /\ entries[p] # None => Dropping(p)
      /\ quarantined[p] # None /\ quarantined[p].uuid # NoRow => Dropping(p)
  BY <1>4, Alone
<1>6. known[p] = None /\ Unplaced(p) = {}
  BY <1>1, <1>4 DEF CatalogOf, Landings
<1>7. /\ \A s \in Requests : ~Landing(s, p)'
      /\ \A s \in Requests : Removing(s, p)' => Removing(s, p) /\ req'[s] = req[s]
  BY <1>3, <1>4 DEF Landing, Removing, Resolves, Landed, Idle
<1>8. (Dropping(p) => Dropping(p)') /\ (Indexing(p) => Indexing(p)')
  BY <1>1, <1>3 DEF Dropping, Indexing
<1>9. /\ KnownDirs(p)' = KnownDirs(p) /\ Sightings(p)' = Sightings(p) /\ Held(p)' = Held(p)
      /\ Unplaced(p)' = {} /\ Resolved(p)' = Resolved(p)
      /\ \A d \in Dirs : Owns(p, d) => Owns(p, d)'
  BY <1>2, <1>6, DiskAlone DEF KnownDirs, Resolved
<1>10. Owned(p)'
  BY <1>0, <1>7, <1>9, DirTypes DEF CatalogOf, Owned
<1>11. Mapped(p)'
  BY <1>2 DEF CatalogOf, Mapped
<1>12. Landings(p)'
  BY <1>7 DEF Landings
<1>13. EntryVouched(p)' /\ QuarantineVouched(p)'
  BY <1>2, <1>5, <1>8 DEF EntryVouched, QuarantineVouched
<1>14. Covered(p)' /\ Backed(p)'
  BY <1>9 DEF Covered, Backed
<1>15. Listed(p)' /\ Removals(p)'
  BY <1>2, <1>7, <1>8, <1>9 DEF CatalogOf, Listed, Removals
<1>16. KnownLive(p)' /\ GoneClean(p)'
  BY <1>2, <1>6, <1>8, <1>9 DEF CatalogOf, KnownLive, GoneClean
<1> QED
  BY <1>10, <1>11, <1>12, <1>13, <1>14, <1>15, <1>16 DEF CatalogOf

(* The entry is made while nobody removes the plugin, so it is the only    *)
(* one with a row.                                                         *)
LEMMA IndexOwn ==
  ASSUME PurgeInv, NEW r \in Requests, NEW p \in Plugins, p = req[r].plugin, CatalogOf(p),
         Index(r)
  PROVE  CatalogOf(p)'
<1>0. Types /\ Booting
  BY DEF PurgeInv
<1>1. req[r] \in InstallReqs /\ req[r].pc = "index" /\ req[r].uuid \in Uuids
  BY <1>0, ReqTypes DEF Index, At, Installs, InstallReqs
<1>2. phase = "up" /\ UNCHANGED <<phase, disk, rows, quarantined, placed, gone>>
  BY <1>0, <1>1, RequestsUp DEF Index, boot, stores, Installing
<1>3. req'[r] = Idle /\ \A q \in Requests : q # r => req'[q] = req[q]
  BY <1>0, Moves DEF Index
<1>4. Landing(r, p) /\ \A s \in Requests : Landing(s, p) => s = r
  BY <1>1, Alone DEF Landing, Landed
<1>5. \A s \in Requests : ~Removing(s, p)
  BY DEF Index, EntriesLocked, Removing, Resolves
<1>6. ~Dropping(p)
  BY DEF Index, EntriesLocked, Dropping
<1>7. /\ entries[p] = None /\ Live(p) = {req[r].uuid}
      /\ quarantined[p] # None => quarantined[p].uuid = NoRow
  BY <1>4, <1>6, Alone
<1>8. /\ rows[p][req[r].uuid] = [state |-> "live", digest |-> req[r].bytes]
      /\ \A d \in Unplaced(p) : d = Home[p]
      /\ p \notin gone
  BY <1>1, <1>4 DEF CatalogOf, Landings
<1>9. /\ entries'[p] = [uuid |-> req[r].uuid, dir |-> Home[p], digest |-> req[r].bytes]
      /\ entries'[p] # None
  BY <1>0, <1>1, NoneAssumption, PluginsAssumption DEF Index, Types, InstallReqs
<1>10. known'[p] = None \/ (known'[p] = req[r].uuid /\ disk[Home[p]] # None)
  <2>1. known' = [known EXCEPT ![p] = IF disk[Home[p]] = None THEN None ELSE req[r].uuid]
    BY DEF Index
  <2>2. known'[p] = known[p] \/ known'[p] = (IF disk[Home[p]] = None THEN None ELSE req[r].uuid)
    BY <2>1
  <2>3. known[p] = None
    BY <1>4 DEF CatalogOf, Landings
  <2> QED
    BY <2>2, <2>3
<1>11. /\ \A s \in Requests : ~Landing(s, p)'
       /\ \A s \in Requests : ~Removing(s, p)'
  BY <1>3, <1>4, <1>5 DEF Landing, Removing, Resolves, Landed, Idle
<1>12. /\ Sightings(p)' = Sightings(p) /\ Held(p)' = Held(p) /\ Unplaced(p)' = Unplaced(p)
       /\ Live(p)' = Live(p) /\ \A d \in Dirs : Owns(p, d) => Owns(p, d)'
  BY <1>2, DiskAlone DEF Live
<1>13. KnownDirs(p)' = KnownDirs(p) \cup {Home[p]}
  BY <1>2, <1>7, <1>9 DEF KnownDirs
<1>14. Owned(p)'
  <2>1. \A d \in KnownDirs(p) : Owns(p, d)'
    BY <1>0, <1>12, DirTypes DEF CatalogOf, Owned
  <2>2. Owns(p, Home[p])'
    BY <1>0, <1>12, DirTypes DEF CatalogOf, Owned
  <2> QED
    BY <1>11, <1>13, <2>1, <2>2 DEF Owned
<1>15. Mapped(p)'
  BY <1>2, <1>7 DEF Mapped
<1>16. Landings(p)' /\ Removals(p)'
  BY <1>11 DEF Landings, Removals
<1>17. EntryVouched(p)'
  BY <1>2, <1>8, <1>9 DEF EntryVouched
<1>18. QuarantineVouched(p)'
  BY <1>2, <1>7 DEF QuarantineVouched
<1>19. Covered(p)'
  <2>1. NoRow \notin Live(p)
    BY DEF Live, Uuids, NoRow
  <2> QED
    BY <1>2, <1>7, <1>8, <1>9, <1>11, <1>12, <2>1 DEF Covered
<1>20. Listed(p)'
  <2>1. ASSUME NEW d \in Sightings(p) PROVE d \in KnownDirs(p) \/ d = Home[p]
    BY <1>2, <2>1 DEF CatalogOf, Listed
  <2> QED
    BY <1>12, <1>13, <2>1 DEF Listed
<1>21. KnownLive(p)'
  <2>1. disk[Home[p]] # None => Home[p] \in Held(p)
    BY <1>0, DirTypes DEF CatalogOf, Owned, Owns, Held
  <2> QED
    BY <1>7, <1>10, <1>12, <2>1 DEF KnownLive
<1>22. GoneClean(p)' /\ Backed(p)'
  BY <1>2, <1>7, <1>8, <1>12 DEF GoneClean, Backed
<1> QED
  BY <1>14, <1>15, <1>16, <1>17, <1>18, <1>19, <1>20, <1>21, <1>22 DEF CatalogOf

-----------------------------------------------------------------------------
(* The steps of an uninstall.                                              *)

(* What the look-up finds is what the maps know.                           *)
LEMMA ResolveOwn ==
  ASSUME PurgeInv, NEW r \in Requests, NEW p \in Plugins, p = req[r].plugin, CatalogOf(p),
         Resolve(r), Installed(p)
  PROVE  CatalogOf(p)'
<1>0. Types /\ Booting
  BY DEF PurgeInv
<1>1. req[r].pc = "resolve"
  BY DEF Resolve, At
<1>2. /\ phase = "up"
      /\ UNCHANGED <<phase, disk, rows, entries, quarantined, known, placed, gone>>
  BY <1>0, <1>1, RequestsUp DEF Resolve, boot, stores, registry, history, Uninstalling
<1>3. /\ req'[r] = [pc |-> "remove", plugin |-> p, uuid |-> Resolved(p).uuid,
                    dirs |-> Resolved(p).dirs]
      /\ \A q \in Requests : q # r => req'[q] = req[q]
  BY <1>0, Moves DEF Resolve
<1>4. \A s \in Requests : ~Removing(s, p)
  BY DEF Resolve, EntriesLocked, Removing, Resolves
<1>5. /\ \A s \in Requests : Landing(s, p)' => Landing(s, p) /\ req'[s] = req[s]
      /\ \A s \in Requests : Removing(s, p)' => s = r
  BY <1>3, <1>4 DEF Landing, Removing, Landed, Resolves
<1>6. (Dropping(p) => Dropping(p)') /\ (Indexing(p) => Indexing(p)')
  BY <1>1, <1>3 DEF Dropping, Indexing
<1>7. /\ KnownDirs(p)' = KnownDirs(p) /\ Sightings(p)' = Sightings(p) /\ Held(p)' = Held(p)
      /\ Unplaced(p)' = Unplaced(p) /\ Resolved(p)' = Resolved(p) /\ Live(p)' = Live(p)
      /\ \A d \in Dirs : Owns(p, d) => Owns(p, d)'
  BY <1>2, DiskAlone DEF KnownDirs, Resolved, Live
<1>8. Resolved(p).dirs \subseteq KnownDirs(p)
  BY DEF Resolved, KnownDirs, Installed
<1>9. Owned(p)'
  BY <1>0, <1>3, <1>5, <1>7, <1>8, DirTypes DEF CatalogOf, Owned
<1>10. Mapped(p)'
  BY <1>2 DEF CatalogOf, Mapped
<1>11. Landings(p)'
  BY <1>2, <1>5, <1>7 DEF CatalogOf, Landings
<1>12. EntryVouched(p)' /\ QuarantineVouched(p)'
  BY <1>2, <1>6, <1>7 DEF CatalogOf, EntryVouched, QuarantineVouched, Pending
<1>13. Covered(p)'
  <2>1. Resolved(p).uuid \in Live(p) => Unplaced(p) \subseteq Resolved(p).dirs
    BY DEF CatalogOf, Covered, Resolved, Installed
  <2> QED
    BY <1>2, <1>3, <1>5, <1>7, <2>1 DEF CatalogOf, Covered
<1>14. Removals(p)'
  BY <1>3, <1>5, <1>7 DEF Removals
<1>15. Listed(p)' /\ Backed(p)'
  BY <1>2, <1>6, <1>7 DEF CatalogOf, Listed, Backed
<1>16. KnownLive(p)' /\ GoneClean(p)'
  BY <1>2, <1>6, <1>7 DEF CatalogOf, KnownLive, GoneClean
<1> QED
  BY <1>9, <1>10, <1>11, <1>12, <1>13, <1>14, <1>15, <1>16 DEF CatalogOf

(* A directory goes, or loses what made it a package.                      *)
LEMMA RemovedDir ==
  ASSUME PurgeInv, NEW r \in Requests, NEW p \in Plugins, p = req[r].plugin, CatalogOf(p),
         RemoveDir(r)
  PROVE  /\ req[r] \in RemoveReqs /\ req[r].pc = "remove" /\ phase = "up"
         /\ \A q \in Requests : q # r => req'[q] = req[q]
         /\ \A d \in Dirs : disk'[d] = disk[d] \/ Owns(p, d)
         /\ \A d \in Dirs : disk'[d] # None => disk[d] # None /\ disk'[d].id = disk[d].id
         /\ \A d \in Dirs : Readable(d)' => Readable(d)
         /\ \/ req'[r] = Idle
            \/ \E d \in req[r].dirs :
                 disk'[d] = None /\ req'[r] = [req[r] EXCEPT !.dirs = @ \ {d}]
<1>0. Types /\ Booting
  BY DEF PurgeInv
<1>1. req[r] \in RemoveReqs /\ req[r].pc = "remove"
  BY <1>0, ReqTypes DEF RemoveDir, At, Resolves
<1>2. phase = "up"
  BY <1>0, <1>1, RequestsUp DEF Uninstalling
<1>3. PICK d \in req[r].dirs :
        \/ /\ disk' = [disk EXCEPT ![d] = None]
           /\ Goto(r, [req[r] EXCEPT !.dirs = @ \ {d}])
        \/ /\ disk[d] # None
           /\ \E left \in Damaged(disk[d]) : disk' = [disk EXCEPT ![d] = left]
           /\ Return(r)
  BY DEF RemoveDir
<1>4. d \in Dirs /\ Owns(p, d)
  BY <1>1, <1>3 DEF CatalogOf, Owned, Removing, Resolves, RemoveReqs
<1>5. CASE disk' = [disk EXCEPT ![d] = None] /\ Goto(r, [req[r] EXCEPT !.dirs = @ \ {d}])
  <2>1. disk'[d] = None /\ \A e \in Dirs : e # d => disk'[e] = disk[e]
    BY <1>0, <1>4, <1>5 DEF Types
  <2>2. \A e \in Dirs : Readable(e)' => Readable(e)
    BY <2>1 DEF Readable
  <2>3. /\ req'[r] = [req[r] EXCEPT !.dirs = @ \ {d}]
        /\ \A q \in Requests : q # r => req'[q] = req[q]
    BY <1>0, <1>5, Moves
  <2> QED
    BY <1>1, <1>2, <1>3, <1>4, <2>1, <2>2, <2>3
<1>6. ASSUME disk[d] # None, NEW left \in Damaged(disk[d]), disk' = [disk EXCEPT ![d] = left], Return(r)
      PROVE  /\ \A e \in Dirs : disk'[e] = disk[e] \/ Owns(p, e)
             /\ \A e \in Dirs : disk'[e] # None => disk[e] # None /\ disk'[e].id = disk[e].id
             /\ \A e \in Dirs : Readable(e)' => Readable(e)
  <2>1. disk[d] \in Package
    BY <1>0, <1>4, <1>6 DEF Types
  <2>2. left.id = disk[d].id /\ (left.readable => disk[d].readable)
    BY <1>6, <2>1 DEF Damaged, Package
  <2>3. disk'[d] = left /\ \A e \in Dirs : e # d => disk'[e] = disk[e]
    BY <1>0, <1>4, <1>6 DEF Types
  <2>4. \A e \in Dirs : Readable(e)' => Readable(e)
    BY <1>6, <2>2, <2>3 DEF Readable
  <2> QED
    BY <1>4, <1>6, <2>2, <2>3, <2>4
<1>7. Return(r) => req'[r] = Idle /\ \A q \in Requests : q # r => req'[q] = req[q]
  BY <1>0, Frees
<1> QED
  BY <1>1, <1>2, <1>3, <1>5, <1>6, <1>7

LEMMA RemoveDirOwn ==
  ASSUME PurgeInv, NEW r \in Requests, NEW p \in Plugins, p = req[r].plugin, CatalogOf(p),
         RemoveDir(r)
  PROVE  CatalogOf(p)'
<1>0. Types /\ Booting
  BY DEF PurgeInv
<1>1. /\ req[r] \in RemoveReqs /\ req[r].pc = "remove" /\ phase = "up"
      /\ \A q \in Requests : q # r => req'[q] = req[q]
      /\ \A d \in Dirs : disk'[d] # None => disk[d] # None /\ disk'[d].id = disk[d].id
      /\ \A d \in Dirs : Readable(d)' => Readable(d)
  BY RemovedDir
<1>2. UNCHANGED <<phase, rows, entries, quarantined, placed, gone>>
  BY DEF RemoveDir, boot, registry
<1>3. known'[p] # None => known'[p] = known[p] /\ Held(p)' # {}
  BY DEF RemoveDir, Held
<1>4. /\ Held(p)' \subseteq Held(p) /\ Sightings(p)' \subseteq Sightings(p)
      /\ Unplaced(p)' \subseteq Unplaced(p)
      /\ \A d \in Dirs : Owns(p, d) => Owns(p, d)'
  <2>1. Sightings(p)' \subseteq Sightings(p)
    BY <1>1 DEF Sightings, Readable
  <2> QED
    BY <1>1, <1>2, <2>1 DEF Held, Unplaced, Owns
<1>5. KnownDirs(p)' = KnownDirs(p) /\ Resolved(p)' = Resolved(p) /\ Live(p)' = Live(p)
  BY <1>2 DEF KnownDirs, Resolved, Live
<1>6. (Dropping(p) => Dropping(p)') /\ (Indexing(p) => Indexing(p)')
  BY <1>1 DEF Dropping, Indexing
<1>7. \/ req'[r] = Idle
      \/ \E d \in req[r].dirs :
           /\ disk'[d] = None /\ d \notin Sightings(p)'
           /\ req'[r].pc = "remove" /\ req'[r].plugin = p /\ req'[r].uuid = req[r].uuid
           /\ req'[r].dirs = req[r].dirs \ {d}
  <2>1. \/ req'[r] = Idle
        \/ \E d \in req[r].dirs : disk'[d] = None /\ req'[r] = [req[r] EXCEPT !.dirs = @ \ {d}]
    BY RemovedDir
  <2>2. ASSUME NEW d \in req[r].dirs, req'[r] = [req[r] EXCEPT !.dirs = @ \ {d}]
        PROVE  /\ req'[r].pc = "remove" /\ req'[r].plugin = p /\ req'[r].uuid = req[r].uuid
               /\ req'[r].dirs = req[r].dirs \ {d}
    BY <1>1, <2>2 DEF RemoveReqs
  <2>3. ASSUME NEW d \in req[r].dirs, disk'[d] = None PROVE d \notin Sightings(p)'
    BY <2>3 DEF Sightings, Readable
  <2> QED
    BY <2>1, <2>2, <2>3
<1>8. ASSUME NEW s \in Requests, Removing(s, p)'
      PROVE  /\ Removing(s, p) /\ req'[s].uuid = req[s].uuid /\ req'[s].dirs \subseteq req[s].dirs
             /\ req[s].dirs \cap Sightings(p)' \subseteq req'[s].dirs
             /\ req'[s].pc = "drop" => req[s].pc = "drop"
  <2>1. CASE s # r
    BY <1>1, <1>8, <2>1 DEF Removing
  <2>2. CASE s = r
    BY <1>1, <1>7, <1>8, <2>2 DEF Removing, Idle, Resolves
  <2> QED
    BY <2>1, <2>2
<1>9. ASSUME NEW s \in Requests, Landing(s, p)' PROVE Landing(s, p) /\ req'[s] = req[s]
  BY <1>1, <1>7, <1>9 DEF Landing, Landed, Idle
<1>10. Owned(p)'
  <2>1. ASSUME NEW s \in Requests, Removing(s, p)', NEW d \in req'[s].dirs PROVE Owns(p, d)'
    <3>1. Removing(s, p) /\ d \in req[s].dirs /\ d \in Dirs
      BY <1>0, <1>8, <2>1, DirTypes
    <3> QED
      BY <1>4, <3>1 DEF CatalogOf, Owned
  <2>2. Owns(p, Home[p])' /\ \A d \in KnownDirs(p)' : Owns(p, d)'
    BY <1>0, <1>4, <1>5, DirTypes DEF CatalogOf, Owned
  <2> QED
    BY <2>1, <2>2 DEF Owned
<1>11. Mapped(p)'
  BY <1>1, <1>2 DEF CatalogOf, Mapped
<1>12. Landings(p)'
  BY <1>2, <1>3, <1>4, <1>9 DEF CatalogOf, Landings
<1>13. EntryVouched(p)' /\ QuarantineVouched(p)'
  BY <1>1, <1>2, <1>5, <1>6 DEF CatalogOf, EntryVouched, QuarantineVouched, Pending
<1>14. Covered(p)'
  <2>1. Unplaced(p)' \subseteq Sightings(p)'
    BY DEF Unplaced
  <2>2. ASSUME NEW s \in Requests, Removing(s, p)', req'[s].uuid \in Live(p)'
        PROVE  Unplaced(p)' \subseteq req'[s].dirs
    <3>1. Unplaced(p) \subseteq req[s].dirs
      BY <1>5, <1>8, <2>2 DEF CatalogOf, Covered
    <3> QED
      BY <1>4, <1>8, <2>1, <2>2, <3>1
  <2> QED
    BY <1>1, <1>2, <1>4, <1>5, <2>2 DEF CatalogOf, Covered
<1>15. Listed(p)'
  BY <1>1, <1>2, <1>4, <1>5, <1>6 DEF CatalogOf, Listed
<1>16. Removals(p)'
  <2>1. ASSUME NEW s \in Requests, Removing(s, p)', NEW d \in Resolved(p)'.dirs \cap Sightings(p)'
        PROVE  d \in req'[s].dirs \/ (Indexing(p)' /\ d = Home[p])
    <3>1. d \in req[s].dirs \/ (Indexing(p) /\ d = Home[p])
      BY <1>4, <1>5, <1>8, <2>1 DEF CatalogOf, Removals
    <3> QED
      BY <1>6, <1>8, <2>1, <3>1
  <2>2. ASSUME NEW s \in Requests, Removing(s, p)', req'[s].pc = "drop" PROVE req'[s].dirs = {}
    BY <1>8, <2>2 DEF CatalogOf, Removals
  <2> QED
    BY <2>1, <2>2 DEF Removals
<1>17. KnownLive(p)' /\ GoneClean(p)' /\ Backed(p)'
  BY <1>2, <1>3, <1>4, <1>5, <1>6 DEF CatalogOf, KnownLive, GoneClean, Backed
<1> QED
  BY <1>10, <1>11, <1>12, <1>13, <1>14, <1>15, <1>16, <1>17 DEF CatalogOf

(* The row goes after the last directory, so the uninstall of the whole    *)
(* plugin leaves nothing of it that could be read.                         *)
LEMMA NothingLeft ==
  ASSUME PurgeInv, NEW r \in Requests, NEW p \in Plugins, p = req[r].plugin, CatalogOf(p),
         Tombstone(r)
  PROVE  /\ req[r].uuid \in Live(p) => Unplaced(p) = {}
         /\ WholePlugin(r) => Sightings(p) = {} /\ ~\E s \in Requests : Landing(s, p)
<1>0. Types /\ Booting /\ Purging /\ OneResolves
  BY DEF PurgeInv
<1>1. req[r] \in RemoveReqs /\ req[r].pc = "remove" /\ req[r].dirs = {} /\ Removing(r, p)
  BY <1>0, ReqTypes DEF Tombstone, At, Resolves, Removing, AllRemoved
<1>2. req[r].uuid \in Live(p) => Unplaced(p) = {}
  BY <1>1 DEF CatalogOf, Covered
<1>3. phase = "up"
  BY <1>0, <1>1, RequestsUp DEF Uninstalling
<1>4. Installed(p) /\ Resolved(p).uuid = req[r].uuid
  BY <1>0, <1>1 DEF Purging, Resolves
<1>5. ~Dropping(p)
  BY <1>0, <1>1 DEF OneResolves, Dropping, Resolves
<1>6. ASSUME WholePlugin(r), NEW s \in Requests, Landing(s, p) PROVE FALSE
  <2>1. entries[p] = None
    BY <1>5, <1>6, Alone
  <2>2. quarantined[p] # None /\ quarantined[p].uuid # NoRow
    BY <1>4, <1>6, <2>1 DEF Installed, Resolved, WholePlugin
  <2> QED
    BY <1>5, <1>6, <2>2, Alone
<1>7. ASSUME WholePlugin(r), NEW d \in Sightings(p) PROVE FALSE
  <2>1. ~Indexing(p)
    BY <1>6, <1>7 DEF Indexing, Landing, Landed
  <2>2. d \in KnownDirs(p)
    BY <1>3, <1>7, <2>1 DEF CatalogOf, Listed
  <2>3. KnownDirs(p) = Resolved(p).dirs
    BY <1>4, <1>7 DEF KnownDirs, Resolved, Installed, WholePlugin
  <2> QED
    BY <1>1, <1>7, <2>1, <2>2, <2>3 DEF CatalogOf, Removals
<1> QED
  BY <1>2, <1>6, <1>7

LEMMA TombstoneOwn ==
  ASSUME PurgeInv, NEW r \in Requests, NEW p \in Plugins, p = req[r].plugin, CatalogOf(p),
         Tombstone(r),
         rows' = IF req[r].uuid = NoRow THEN rows ELSE Tombstoned(p, req[r].uuid),
         Goto(r, Step(r, "drop")), known' = [known EXCEPT ![p] = None],
         gone' = IF WholePlugin(r) THEN gone \cup {p} ELSE gone, KnownTypes
  PROVE  CatalogOf(p)'
<1>0. Types /\ Booting /\ Apart
  BY DEF PurgeInv
<1>1. req[r] \in RemoveReqs /\ req[r].pc = "remove" /\ req[r].dirs = {}
  BY <1>0, ReqTypes DEF Tombstone, At, Resolves, AllRemoved
<1>2. phase = "up" /\ UNCHANGED <<phase, disk, entries, quarantined, placed>>
  BY <1>0, <1>1, RequestsUp DEF Tombstone, boot, registry, Uninstalling
<1>3. /\ req'[r].pc = "drop" /\ req'[r].plugin = p /\ req'[r].uuid = req[r].uuid
      /\ req'[r].dirs = {} /\ \A q \in Requests : q # r => req'[q] = req[q]
  BY <1>0, <1>1, Moves DEF Step, RemoveReqs
<1>4. known'[p] = None
  BY DEF KnownTypes
<1>5. \A u \in Uuids : u # req[r].uuid => rows'[p][u] = rows[p][u]
  BY <1>0, <1>1 DEF Types, Tombstoned
<1>6. Live(p)' \subseteq Live(p) /\ \A u \in Live(p) : u # req[r].uuid => u \in Live(p)'
  <2>1. ASSUME NEW u \in Uuids, rows'[p][u].state = "live" PROVE rows[p][u].state = "live"
    BY <1>0, <1>1, <2>1, TombstonedRows DEF RemoveReqs
  <2> QED
    BY <1>5, <2>1 DEF Live
<1>7. Removing(r, p) /\ Dropping(p)' /\ (Indexing(p) => Indexing(p)')
  BY <1>1, <1>3 DEF Removing, Resolves, Dropping, Indexing
<1>8. /\ KnownDirs(p)' = KnownDirs(p) /\ Sightings(p)' = Sightings(p) /\ Held(p)' = Held(p)
      /\ Unplaced(p)' = Unplaced(p) /\ Resolved(p)' = Resolved(p)
      /\ \A d \in Dirs : Owns(p, d) => Owns(p, d)'
  BY <1>2, DiskAlone DEF KnownDirs, Resolved
<1>9. ASSUME NEW s \in Requests, Landing(s, p)'
      PROVE  /\ Landing(s, p) /\ req'[s] = req[s] /\ req[s].uuid # req[r].uuid
             /\ req[s].uuid \in Uuids
  <2>1. s # r /\ req'[s] = req[s] /\ Landing(s, p)
    BY <1>3, <1>9 DEF Landing, Landed
  <2>2. req[s].pc \in Installs /\ req[s].plugin = p
    BY <2>1 DEF Landing, Landed, Installs
  <2> QED
    BY <1>0, <1>1, <2>1, <2>2, ReqTypes DEF Apart, Resolves, InstallReqs
<1>10. ASSUME NEW s \in Requests, Removing(s, p)'
       PROVE  /\ Removing(s, p) /\ req'[s].uuid = req[s].uuid /\ req'[s].dirs = req[s].dirs
              /\ req'[s].pc = "drop" => req'[s].dirs = {}
  <2>1. CASE s # r
    BY <1>3, <1>10, <2>1 DEF Removing, CatalogOf, Removals
  <2> QED
    BY <1>1, <1>3, <1>7, <2>1
<1>11. Owned(p)'
  BY <1>0, <1>8, <1>10, DirTypes DEF CatalogOf, Owned
<1>12. Mapped(p)'
  BY <1>2 DEF CatalogOf, Mapped
<1>13. Landings(p)'
  <2>1. ASSUME NEW s \in Requests, Landing(s, p)' PROVE p \notin gone \/ req[s].pc # "index"
    BY <1>9, <2>1 DEF CatalogOf, Landings
  <2>2. ASSUME NEW s \in Requests, Landing(s, p)' PROVE ~WholePlugin(r)
    BY <1>9, <2>2, NothingLeft
  <2>3. ASSUME NEW s \in Requests, Landing(s, p)'
        PROVE  rows'[p][req'[s].uuid] = [state |-> "live", digest |-> req'[s].bytes]
    BY <1>5, <1>9, <2>3 DEF CatalogOf, Landings
  <2>4. ASSUME NEW s \in Requests, Landing(s, p)', NEW d \in Unplaced(p)'
        PROVE  req'[s].pc = "index" /\ d = Home[p]
    BY <1>8, <1>9, <2>4 DEF CatalogOf, Landings
  <2>5. ASSUME NEW s \in Requests, Landing(s, p)', req'[s].pc = "index" PROVE p \notin gone'
    BY <1>9, <2>1, <2>2, <2>5
  <2> QED
    BY <1>4, <2>3, <2>4, <2>5 DEF Landings
<1>14. EntryVouched(p)' /\ QuarantineVouched(p)'
  BY <1>7 DEF EntryVouched, QuarantineVouched
<1>15. Covered(p)'
  BY <1>2, <1>6, <1>8, <1>10 DEF CatalogOf, Covered
<1>16. Listed(p)' /\ Removals(p)'
  BY <1>2, <1>7, <1>8, <1>10 DEF CatalogOf, Listed, Removals
<1>17. KnownLive(p)'
  BY <1>4 DEF KnownLive
<1>18. GoneClean(p)'
  BY <1>7, <1>8, NothingLeft DEF CatalogOf, GoneClean
<1>19. Backed(p)'
  <2>1. ASSUME Unplaced(p) # {} PROVE \E u \in Live(p) : u # req[r].uuid
    BY <2>1, NothingLeft DEF CatalogOf, Backed
  <2> QED
    BY <1>6, <1>8, <2>1 DEF Backed
<1> QED
  BY <1>11, <1>12, <1>13, <1>14, <1>15, <1>16, <1>17, <1>18, <1>19 DEF CatalogOf

(* The map forgets the plugin when nothing that it knew of is left.        *)
LEMMA DropOwn ==
  ASSUME PurgeInv, NEW r \in Requests, NEW p \in Plugins, p = req[r].plugin, CatalogOf(p),
         Drop(r)
  PROVE  CatalogOf(p)'
<1>0. Types /\ Booting /\ OneResolves
  BY DEF PurgeInv
<1>1. req[r] \in RemoveReqs /\ req[r].pc = "drop" /\ Removing(r, p)
  BY <1>0, ReqTypes DEF Drop, At, Resolves, Removing
<1>2. phase = "up" /\ UNCHANGED <<phase, disk, rows, known, placed, gone>>
  BY <1>0, <1>1, RequestsUp DEF Drop, boot, stores, history, Uninstalling
<1>3. req'[r] = Idle /\ \A q \in Requests : q # r => req'[q] = req[q]
  BY <1>0, Frees DEF Drop
<1>4. /\ \A s \in Requests : ~Removing(s, p)'
      /\ \A s \in Requests : Landing(s, p)' => Landing(s, p) /\ req'[s] = req[s]
  BY <1>0, <1>1, <1>3 DEF OneResolves, Removing, Landing, Landed, Resolves, Idle
<1>5. Indexing(p) => Indexing(p)'
  BY <1>1, <1>3 DEF Indexing
<1>6. /\ entries'[p] = None
      /\ \/ entries[p] # None /\ quarantined'[p] = quarantined[p]
         \/ entries[p] = None /\ quarantined'[p] = None
  BY <1>0 DEF Drop, Types
<1>7. /\ Sightings(p)' = Sightings(p) /\ Held(p)' = Held(p) /\ Unplaced(p)' = Unplaced(p)
      /\ Live(p)' = Live(p) /\ \A d \in Dirs : Owns(p, d) => Owns(p, d)'
  BY <1>2, DiskAlone DEF Live
<1>8. /\ KnownDirs(p)' \subseteq KnownDirs(p)
      /\ KnownDirs(p) \subseteq KnownDirs(p)' \cup Resolved(p).dirs
  BY <1>6 DEF KnownDirs, Resolved
<1>9. quarantined'[p] # None => quarantined'[p].uuid = NoRow
  BY <1>6 DEF CatalogOf, Mapped
<1>10. Owned(p)'
  BY <1>0, <1>4, <1>7, <1>8, DirTypes DEF CatalogOf, Owned
<1>11. Mapped(p)'
  BY <1>2, <1>6 DEF Mapped
<1>12. Landings(p)'
  BY <1>2, <1>4, <1>7 DEF CatalogOf, Landings
<1>13. EntryVouched(p)' /\ QuarantineVouched(p)'
  BY <1>6, <1>9 DEF EntryVouched, QuarantineVouched
<1>14. Covered(p)'
  <2>1. NoRow \notin Live(p)
    BY DEF Live, Uuids, NoRow
  <2> QED
    BY <1>2, <1>4, <1>6, <1>7, <1>9, <2>1 DEF Covered
<1>15. Listed(p)'
  <2>1. ASSUME NEW d \in Sightings(p), d \notin KnownDirs(p)' PROVE Indexing(p) /\ d = Home[p]
    <3>1. d \in KnownDirs(p) \/ (Indexing(p) /\ d = Home[p])
      BY <1>2, <2>1 DEF CatalogOf, Listed
    <3>2. d \in Resolved(p).dirs => Indexing(p) /\ d = Home[p]
      BY <1>1, <2>1 DEF CatalogOf, Removals
    <3> QED
      BY <1>8, <2>1, <3>1, <3>2
  <2> QED
    BY <1>5, <1>7, <2>1 DEF Listed
<1>16. Removals(p)' /\ KnownLive(p)' /\ GoneClean(p)' /\ Backed(p)'
  BY <1>2, <1>4, <1>6, <1>7 DEF CatalogOf, Removals, KnownLive, GoneClean, Backed
<1> QED
  BY <1>10, <1>11, <1>12, <1>13, <1>14, <1>15, <1>16 DEF CatalogOf

-----------------------------------------------------------------------------
(* A step of a request, for every plugin.                                  *)
LEMMA CatalogInstalling ==
  ASSUME CatalogInv, NEW r \in Requests, Installing(r), NEW p \in Plugins
  PROVE  CatalogOf(p)'
<1>0. PurgeInv /\ Types /\ Booting /\ KnownTypes /\ CatalogOf(p)
  BY DEF CatalogInv, PurgeInv
<1>1. phase = "up" /\ phase' = "up"
  BY <1>0, RequestsUp DEF boot
<1> DEFINE Still == /\ UNCHANGED <<disk, rows, entries, quarantined, known, placed, gone>>
                    /\ \A q \in Requests : q # r => req'[q] = req[q]
                    /\ req[r].pc \notin {"index", "drop"}
                    /\ req'[r].pc \notin Landed \cup Resolves
<1>2. Still => CatalogOf(p)'
  BY <1>0, <1>1, StillStep, UndisturbedKeeps
<1>3. ASSUME NEW o \in Plugins, NEW v \in Versions, Install(r, o, v) PROVE CatalogOf(p)'
  <2>1. Still
    BY <1>0, <1>3, Moves DEF Install, At, stores, registry, history, Landed, Resolves
  <2> QED
    BY <1>2, <2>1
<1>4. CASE Stage(r)
  <2>1. req[r] \in InstallReqs /\ req[r].pc = "stage"
    BY <1>0, <1>4, ReqTypes DEF Stage, At, Installs
  <2>2. /\ req'[r].pc \in {"insert", "idle"}
        /\ \A q \in Requests : q # r => req'[q] = req[q]
    BY <1>0, <1>4, <2>1, Moves DEF Stage, Step, InstallReqs, Idle
  <2>3. Still
    BY <1>4, <2>1, <2>2 DEF Stage, registry, history, Landed, Resolves
  <2> QED
    BY <1>2, <2>3
<1>5. CASE InsertRow(r)
  <2>1. req[r] \in InstallReqs /\ req[r].pc = "insert"
    BY <1>0, <1>5, ReqTypes DEF InsertRow, At, Installs
  <2>2. CASE Goto(r, Idle) /\ UNCHANGED rows
    <3>1. req'[r].pc = "idle" /\ \A q \in Requests : q # r => req'[q] = req[q]
      BY <1>0, <2>2, Moves DEF Idle
    <3>2. Still
      BY <1>5, <2>1, <2>2, <3>1 DEF InsertRow, registry, history, Landed, Resolves
    <3> QED
      BY <1>2, <3>2
  <2>3. CASE /\ UniqueLive(req[r].plugin)
             /\ SetRow(req[r].plugin, req[r].uuid, [state |-> "live", digest |-> req[r].bytes])
             /\ Goto(r, Step(r, "rename"))
    <3>1. CASE p = req[r].plugin
      BY <1>0, <1>5, <2>3, <3>1, InsertRowOwn
    <3>2. CASE p # req[r].plugin
      <4>1. rows'[p] = rows[p]
        BY <1>0, <2>3, <3>2 DEF SetRow, Types
      <4>2. /\ \A q \in Requests : q # r => req'[q] = req[q]
            /\ req'[r].plugin = req[r].plugin
        BY <1>0, <2>1, <2>3, Moves, StepKeeps DEF Installs
      <4>3. UNCHANGED <<disk, entries, quarantined, known, placed, gone>>
        BY <1>5 DEF InsertRow, registry, history
      <4>4. Undisturbed(p)
        BY <1>1, <3>2, <4>1, <4>2, <4>3, OtherPlugin, DiskAlone
      <4> QED
        BY <1>0, <4>4, UndisturbedKeeps
    <3> QED
      BY <3>1, <3>2
  <2> QED
    BY <1>5, <2>2, <2>3 DEF InsertRow
<1>6. CASE Rename(r)
  <2>1. req[r] \in InstallReqs /\ req[r].pc = "rename"
    BY <1>0, <1>6, ReqTypes DEF Rename, At, Installs
  <2>2. UNCHANGED <<rows, entries, quarantined, known>>
    BY <1>6 DEF Rename, registry
  <2>3. CASE UNCHANGED <<disk, placed, gone>> /\ Goto(r, Step(r, "rollback"))
    <3>1. CASE p = req[r].plugin
      BY <1>0, <1>6, <2>3, <3>1, RenameFailsOwn
    <3>2. CASE p # req[r].plugin
      <4>1. /\ \A q \in Requests : q # r => req'[q] = req[q]
            /\ req'[r].plugin = req[r].plugin
        BY <1>0, <2>1, <2>3, Moves, StepKeeps DEF Installs
      <4>2. Undisturbed(p)
        BY <1>1, <2>2, <2>3, <3>2, <4>1, OtherPlugin, DiskAlone
      <4> QED
        BY <1>0, <4>2, UndisturbedKeeps
    <3> QED
      BY <3>1, <3>2
  <2>4. CASE /\ disk[Home[req[r].plugin]] = None
             /\ disk' = [disk EXCEPT ![Home[req[r].plugin]] =
                           [id |-> req[r].plugin, readable |-> TRUE, bytes |-> req[r].bytes]]
             /\ placed' = placed \ {Home[req[r].plugin]}
             /\ gone' = gone \ {req[r].plugin}
             /\ Goto(r, Step(r, "index"))
    <3>1. CASE p = req[r].plugin
      BY <1>0, <1>6, <2>4, <3>1, RenameOwn
    <3>2. CASE p # req[r].plugin
      <4> DEFINE o == req[r].plugin
      <4>1. /\ \A q \in Requests : q # r => req'[q] = req[q]
            /\ req'[r].plugin = o
        BY <1>0, <2>1, <2>4, Moves, StepKeeps DEF Installs
      <4>2. o \in Plugins /\ Home[o] \in Dirs
        BY <1>0, <2>1, DirTypes DEF InstallReqs
      <4>3. /\ disk'[Home[o]] # None => disk'[Home[o]].id = o
            /\ disk[Home[o]] = None
            /\ \A d \in Dirs : d # Home[o] => disk'[d] = disk[d]
        BY <1>0, <2>4, <4>2 DEF Types
      <4>4. /\ Held(p)' = Held(p) /\ Sightings(p)' = Sightings(p)
            /\ Home[o] \notin Sightings(p)
        BY <3>2, <4>2, <4>3 DEF Held, Sightings, Readable
      <4>5. Unplaced(p)' = Unplaced(p)
        BY <2>4, <4>4 DEF Unplaced
      <4>6. ASSUME NEW d \in Dirs, Owns(p, d) PROVE Owns(p, d)'
        BY <3>2, <4>2, <4>3, <4>6 DEF Owns
      <4>7. Undisturbed(p)
        BY <1>1, <2>2, <2>4, <3>2, <4>1, <4>4, <4>5, <4>6, OtherPlugin
      <4> QED
        BY <1>0, <4>7, UndisturbedKeeps
    <3> QED
      BY <3>1, <3>2
  <2> QED
    BY <1>6, <2>3, <2>4 DEF Rename
<1>7. CASE Rollback(r)
  <2>1. req[r] \in InstallReqs /\ req[r].pc = "rollback"
    BY <1>0, <1>7, ReqTypes DEF Rollback, At, Installs
  <2>2. CASE p = req[r].plugin
    BY <1>0, <1>7, <2>2, RollbackOwn
  <2>3. CASE p # req[r].plugin
    <3>1. rows'[p] = rows[p]
      BY <1>0, <1>7, <2>3 DEF Rollback, SetRow, Types
    <3>2. req'[r] = Idle /\ \A q \in Requests : q # r => req'[q] = req[q]
      BY <1>0, <1>7, Moves DEF Rollback
    <3>3. UNCHANGED <<disk, entries, quarantined, known, placed, gone>>
      BY <1>7 DEF Rollback, registry, history
    <3>4. Undisturbed(p)
      BY <1>1, <2>3, <3>1, <3>2, <3>3, OtherPlugin, DiskAlone
    <3> QED
      BY <1>0, <3>4, UndisturbedKeeps
  <2> QED
    BY <2>2, <2>3
<1>8. CASE Index(r)
  <2>1. CASE p = req[r].plugin
    BY <1>0, <1>8, <2>1, IndexOwn
  <2>2. CASE p # req[r].plugin
    <3>1. entries'[p] = entries[p] /\ known'[p] = known[p]
      BY <1>0, <1>8, <2>2 DEF Index, Types, KnownTypes
    <3>2. req'[r] = Idle /\ \A q \in Requests : q # r => req'[q] = req[q]
      BY <1>0, <1>8, Moves DEF Index
    <3>3. UNCHANGED <<disk, rows, quarantined, placed, gone>>
      BY <1>8 DEF Index, stores
    <3>4. Undisturbed(p)
      BY <1>1, <2>2, <3>1, <3>2, <3>3, OtherPlugin, DiskAlone
    <3> QED
      BY <1>0, <3>4, UndisturbedKeeps
  <2> QED
    BY <2>1, <2>2
<1> QED
  BY <1>3, <1>4, <1>5, <1>6, <1>7, <1>8 DEF Installing

LEMMA CatalogUninstalling ==
  ASSUME CatalogInv, NEW r \in Requests, Uninstalling(r), NEW p \in Plugins
  PROVE  CatalogOf(p)'
<1>0. PurgeInv /\ Types /\ Booting /\ KnownTypes /\ CatalogOf(p)
  BY DEF CatalogInv, PurgeInv
<1>1. phase = "up" /\ phase' = "up"
  BY <1>0, RequestsUp DEF boot
<1> DEFINE Still == /\ UNCHANGED <<disk, rows, entries, quarantined, known, placed, gone>>
                    /\ \A q \in Requests : q # r => req'[q] = req[q]
                    /\ req[r].pc \notin {"index", "drop"}
                    /\ req'[r].pc \notin Landed \cup Resolves
<1>2. Still => CatalogOf(p)'
  BY <1>0, <1>1, StillStep, UndisturbedKeeps
<1>3. Return(r) => req'[r].pc = "idle" /\ \A q \in Requests : q # r => req'[q] = req[q]
  BY <1>0, Frees DEF Idle
<1>4. ASSUME NEW o \in Plugins, Uninstall(r, o) PROVE CatalogOf(p)'
  <2>1. Still
    BY <1>0, <1>4, Moves DEF Uninstall, At, stores, registry, history, Landed, Resolves
  <2> QED
    BY <1>2, <2>1
<1>5. CASE PurgeKv(r)
  <2>1. req'[r].pc \in {"purge_blobs", "idle"} /\ \A q \in Requests : q # r => req'[q] = req[q]
    BY <1>0, <1>3, <1>5, Moves DEF PurgeKv
  <2>2. Still
    BY <1>5, <2>1 DEF PurgeKv, At, registry, history, Landed, Resolves
  <2> QED
    BY <1>2, <2>2
<1>6. CASE PurgeBlobs(r)
  <2>1. req'[r].pc \in {"resolve", "idle"} /\ \A q \in Requests : q # r => req'[q] = req[q]
    BY <1>0, <1>3, <1>6, Moves DEF PurgeBlobs
  <2>2. Still
    BY <1>6, <2>1 DEF PurgeBlobs, At, registry, history, Landed, Resolves
  <2> QED
    BY <1>2, <2>2
<1>7. CASE Resolve(r)
  <2>1. UNCHANGED <<disk, rows, entries, quarantined, known, placed, gone>> /\ req[r].pc = "resolve"
    BY <1>7 DEF Resolve, At, stores, registry, history
  <2>2. CASE Return(r)
    <3>1. Still
      BY <1>3, <2>1, <2>2 DEF Landed, Resolves
    <3> QED
      BY <1>2, <3>1
  <2>3. CASE Installed(req[r].plugin)
    <3>1. CASE p = req[r].plugin
      BY <1>0, <1>7, <2>3, <3>1, ResolveOwn
    <3>2. CASE p # req[r].plugin
      <4>1. req'[r].plugin = req[r].plugin /\ \A q \in Requests : q # r => req'[q] = req[q]
        BY <1>0, <1>7, <2>3, Moves DEF Resolve
      <4>2. Undisturbed(p)
        BY <1>1, <2>1, <3>2, <4>1, OtherPlugin, DiskAlone
      <4> QED
        BY <1>0, <4>2, UndisturbedKeeps
    <3> QED
      BY <3>1, <3>2
  <2> QED
    BY <1>7, <2>2, <2>3 DEF Resolve
<1>8. CASE RemoveDir(r)
  <2> DEFINE o == req[r].plugin
  <2>1. o \in Plugins /\ CatalogOf(o)
    BY <1>0, <1>8, ReqTypes DEF RemoveDir, At, Resolves, RemoveReqs, CatalogInv
  <2>2. CASE p = o
    BY <1>0, <1>8, <2>2, RemoveDirOwn
  <2>3. CASE p # o
    <3>1. /\ \A q \in Requests : q # r => req'[q] = req[q]
          /\ \A d \in Dirs : disk'[d] = disk[d] \/ Owns(o, d)
          /\ \A d \in Dirs : disk'[d] # None => disk[d] # None /\ disk'[d].id = disk[d].id
          /\ req[r] \in RemoveReqs
      BY <1>0, <1>8, <2>1, RemovedDir
    <3>2. req'[r] = Idle \/ req'[r].plugin = o
      <4>1. \/ req'[r] = Idle
            \/ \E d \in req[r].dirs :
                 disk'[d] = None /\ req'[r] = [req[r] EXCEPT !.dirs = @ \ {d}]
        BY <1>0, <1>8, <2>1, RemovedDir
      <4> QED
        BY <3>1, <4>1 DEF RemoveReqs
    <3>3. \A d \in Dirs : disk'[d] = disk[d] \/ disk[d] = None \/ disk[d].id = o
      BY <3>1 DEF Owns
    <3>4. Held(p)' = Held(p) /\ Sightings(p)' = Sightings(p)
      BY <2>3, <3>1, <3>3 DEF Held, Sightings, Readable
    <3>5. UNCHANGED <<rows, entries, quarantined, placed, gone>>
      BY <1>8 DEF RemoveDir, registry
    <3>6. Unplaced(p)' = Unplaced(p)
      BY <3>4, <3>5 DEF Unplaced
    <3>7. ASSUME NEW d \in Dirs, Owns(p, d) PROVE Owns(p, d)'
      BY <3>1, <3>7 DEF Owns
    <3>8. known'[p] = known[p]
      <4>1. known'[p] = IF Held(p)' # {} THEN known[p] ELSE None
        BY <1>8 DEF RemoveDir, Held
      <4> QED
        BY <1>0, <3>4, <4>1 DEF CatalogOf, KnownLive
    <3>9. Undisturbed(p)
      BY <1>1, <2>3, <3>1, <3>2, <3>4, <3>5, <3>6, <3>7, <3>8, OtherPlugin
    <3> QED
      BY <1>0, <3>9, UndisturbedKeeps
  <2> QED
    BY <2>2, <2>3
<1>9. CASE Tombstone(r)
  <2>1. req[r] \in RemoveReqs /\ req[r].pc = "remove"
    BY <1>0, <1>9, ReqTypes DEF Tombstone, At, Resolves
  <2>2. UNCHANGED <<disk, entries, quarantined, placed>>
    BY <1>9 DEF Tombstone, registry
  <2>3. CASE UNCHANGED <<rows, known, purged, gone>> /\ Return(r)
    <3>1. Still
      BY <1>3, <2>1, <2>2, <2>3 DEF Landed, Resolves
    <3> QED
      BY <1>2, <3>1
  <2>4. CASE /\ rows' = IF req[r].uuid = NoRow THEN rows ELSE Tombstoned(req[r].plugin, req[r].uuid)
             /\ Goto(r, Step(r, "drop"))
             /\ known' = [known EXCEPT ![req[r].plugin] = None]
             /\ gone' = IF WholePlugin(r) THEN gone \cup {req[r].plugin} ELSE gone
    <3>1. CASE p = req[r].plugin
      BY <1>0, <1>9, <2>4, <3>1, TombstoneOwn
    <3>2. CASE p # req[r].plugin
      <4>1. req'[r].plugin = req[r].plugin /\ \A q \in Requests : q # r => req'[q] = req[q]
        BY <1>0, <2>1, <2>4, Moves, StepKeeps DEF Resolves
      <4>2. rows'[p] = rows[p] /\ known'[p] = known[p] /\ (p \in gone' => p \in gone)
        BY <1>0, <2>4, <3>2 DEF Tombstoned, Types, KnownTypes
      <4>3. Undisturbed(p)
        BY <1>1, <2>2, <3>2, <4>1, <4>2, OtherPlugin, DiskAlone
      <4> QED
        BY <1>0, <4>3, UndisturbedKeeps
    <3> QED
      BY <3>1, <3>2
  <2> QED
    BY <1>9, <2>3, <2>4 DEF Tombstone
<1>10. CASE Drop(r)
  <2>1. CASE p = req[r].plugin
    BY <1>0, <1>10, <2>1, DropOwn
  <2>2. CASE p # req[r].plugin
    <3>1. entries'[p] = entries[p] /\ quarantined'[p] = quarantined[p]
      BY <1>0, <1>10, <2>2 DEF Drop, Types
    <3>2. req'[r] = Idle /\ \A q \in Requests : q # r => req'[q] = req[q]
      BY <1>0, <1>10, Frees DEF Drop
    <3>3. UNCHANGED <<disk, rows, known, placed, gone>>
      BY <1>10 DEF Drop, stores, history
    <3>4. Undisturbed(p)
      BY <1>1, <2>2, <3>1, <3>2, <3>3, OtherPlugin, DiskAlone
    <3> QED
      BY <1>0, <3>4, UndisturbedKeeps
  <2> QED
    BY <2>1, <2>2
<1> QED
  BY <1>4, <1>5, <1>6, <1>7, <1>8, <1>9, <1>10 DEF Uninstalling

LEMMA CatalogStarting ==
  ASSUME CatalogInv, NEW r \in Requests, Starting(r), NEW p \in Plugins
  PROVE  CatalogOf(p)'
<1>0. PurgeInv /\ Types /\ Booting /\ CatalogOf(p)
  BY DEF CatalogInv, PurgeInv
<1>1. phase = "up" /\ phase' = "up"
  BY <1>0, RequestsUp DEF boot
<1>2. UNCHANGED <<disk, rows, entries, quarantined, known, placed, gone>>
  BY DEF Starting, Start, Register, StartReturns, HangUp, stores, registry, history
<1>3. Return(r) => req'[r].pc = "idle" /\ \A q \in Requests : q # r => req'[q] = req[q]
  BY <1>0, Frees DEF Idle
<1>4. req[r].pc \notin {"index", "drop"}
  BY DEF Starting, Start, Register, StartReturns, HangUp, At
<1>5. /\ req'[r].pc \in {"idle", "register", "wait"}
      /\ \A q \in Requests : q # r => req'[q] = req[q]
  <2>1. ASSUME NEW o \in Plugins, Start(r, o)
        PROVE  req'[r].pc = "register" /\ \A q \in Requests : q # r => req'[q] = req[q]
    BY <1>0, <2>1, Moves DEF Start
  <2>2. CASE Register(r)
    <3>1. At(r, "register") /\ req[r].pc \in Starts
      BY <2>2 DEF Register, At, Starts
    <3>2. Step(r, "wait").pc = "wait"
      BY <1>0, <3>1, StepKeeps
    <3> QED
      BY <1>0, <1>3, <2>2, <3>2, Moves DEF Register
  <2>3. CASE StartReturns(r) \/ HangUp(r)
    BY <1>3, <2>3 DEF StartReturns, HangUp
  <2> QED
    BY <2>1, <2>2, <2>3 DEF Starting
<1>6. Undisturbed(p)
  BY <1>1, <1>2, <1>4, <1>5, StillStep DEF Landed, Resolves
<1> QED
  BY <1>0, <1>6, UndisturbedKeeps

-----------------------------------------------------------------------------
(* The boot and what happens before it.                                    *)

LEMMA NoRequests ==
  ASSUME \A r \in Requests : req[r] = Idle, NEW p \in Plugins
  PROVE  /\ ~Dropping(p) /\ ~Indexing(p)
         /\ \A r \in Requests : ~Landing(r, p) /\ ~Removing(r, p)
  BY DEF Dropping, Indexing, Landing, Removing, Landed, Resolves, Idle

(* The scan makes the maps from what it reads.                             *)
LEMMA ScanCatalog ==
  ASSUME CatalogInv, Scan, NEW p \in Plugins
  PROVE  CatalogOf(p)'
<1>0. /\ Types /\ Booting /\ OneLive
      /\ \A q \in Plugins : CatalogOf(q)
  BY DEF CatalogInv, PurgeInv
<1>1. /\ phase = "down" /\ phase' = "sweep"
      /\ UNCHANGED <<disk, rows, known, placed, gone, req>>
      /\ entries'[p] = ScanEntry(p) /\ quarantined'[p] = ScanQuarantine(p)
      /\ minted'[p] = IF p \in Backfilled THEN minted[p] + 1 ELSE minted[p]
      /\ sweep' = (IF DeferSweep THEN {} ELSE Orphans)
      /\ backfill' = Backfilled
  BY DEF Scan, history, api
<1>2. \A r \in Requests : req[r] = Idle /\ req'[r] = Idle
  BY <1>0, <1>1 DEF Booting
<1>3. \A r \in Requests : ~Landing(r, p)' /\ ~Removing(r, p)'
  BY <1>2 DEF Landing, Removing, Landed, Resolves, Idle
<1>4. /\ Sightings(p)' = Sightings(p) /\ Held(p)' = Held(p) /\ Unplaced(p)' = Unplaced(p)
      /\ Live(p)' = Live(p) /\ First(p)' = First(p)
      /\ \A d \in Dirs : Owns(p, d) => Owns(p, d)'
  BY <1>1, DiskAlone, SameFirst DEF Live
<1>5. Indexed(p) => Sightings(p) = {First(p)} /\ disk[First(p)].bytes \in Versions
  <2>1. ASSUME NEW d \in Dirs, Sightings(p) = {d} PROVE First(p) = d
    BY <2>1, PluginsAssumption DEF First
  <2> QED
    BY <2>1 DEF Indexed
<1>6. /\ entries'[p] # None =>
           /\ Indexed(p)
           /\ entries'[p] = [uuid |-> ScanUuid(p), dir |-> First(p), digest |-> disk[First(p)].bytes]
      /\ quarantined'[p] # None =>
           /\ ~Indexed(p)
           /\ quarantined'[p] = [uuid |-> ScanUuid(p), dirs |-> Recorded(p)]
  BY <1>1 DEF ScanEntry, ScanQuarantine
<1>7. \A d \in Sightings(p) : Owns(p, d)
  <2>1. ASSUME NEW d \in Sightings(p), NEW q \in Plugins, Home[q] = d PROVE q = p
    <3>1. Owns(q, d)
      BY <1>0, <2>1 DEF CatalogOf, Owned
    <3> QED
      BY <2>1, <3>1 DEF Owns, Sightings, Readable
  <2> QED
    BY <2>1 DEF Owns, Sightings
<1>8. ScanUuid(p) # NoRow => \/ p \in Backfilled /\ ScanUuid(p) = minted[p] + 1
                             \/ p \notin Backfilled /\ ScanUuid(p) \in Live(p)
  BY <1>0, LiveIds DEF ScanUuid, LiveUuid
<1>9. Owned(p)'
  <2>1. KnownDirs(p)' \subseteq Sightings(p) \cup {Home[p]}
    BY <1>5, <1>6 DEF KnownDirs, Recorded, NamedDir
  <2>2. ASSUME NEW d \in Sightings(p) \cup {Home[p]} PROVE d \in Dirs /\ Owns(p, d)
    BY <1>0, <1>7, <2>2, DirTypes DEF CatalogOf, Owned
  <2>3. Home[p] \in Dirs
    BY <1>0, DirTypes
  <2> QED
    BY <1>3, <1>4, <2>1, <2>2, <2>3 DEF Owned
<1>10. Mapped(p)'
  <2>1. ASSUME p \in sweep' PROVE entries'[p] = None /\ quarantined'[p] = None /\ Held(p)' = {}
    <3>1. ~DeferSweep /\ p \in Orphans
      BY <1>1, <2>1
    <3>2. Sightings(p) = {} /\ ~Degraded(p)
      BY <3>1 DEF Orphans
    <3>3. Held(p) = {}
      BY <3>1, <3>2 DEF DeferSweep, Held, Sightings, Readable
    <3> QED
      BY <1>1, <1>4, <1>5, <3>2, <3>3 DEF ScanEntry, ScanQuarantine
  <2> QED
    BY <1>1, <1>4, <1>5, <1>6, <2>1 DEF Mapped
<1>11. Landings(p)' /\ Removals(p)'
  BY <1>3 DEF Landings, Removals
<1>12. EntryVouched(p)'
  <2>1. ASSUME entries'[p] # None
        PROVE  \/ p \in Backfilled /\ ScanUuid(p) = minted[p] + 1
               \/ rows[p][ScanUuid(p)] = [state |-> "live", digest |-> disk[First(p)].bytes]
    <3>1. CASE p \in Backfilled
      BY <3>1 DEF ScanUuid
    <3>2. CASE p \notin Backfilled
      <4>1. Indexed(p)
        BY <1>6, <2>1
      <4>2. Live(p) # {}
        BY <3>2, <4>1 DEF Indexed, Backfilled
      <4>3. ScanUuid(p) = LiveUuid(p) /\ LiveUuid(p) \in Live(p)
        BY <1>0, <3>2, <4>2, LiveIds DEF ScanUuid
      <4>4. /\ rows[p][LiveUuid(p)].digest = disk[First(p)].bytes
            /\ rows[p][LiveUuid(p)].state = "live"
            /\ LiveUuid(p) \in Uuids
        BY <4>1, <4>2, <4>3 DEF Indexed, Live
      <4>5. rows[p][LiveUuid(p)] \in Row
        BY <1>0, <4>4 DEF Types
      <4> QED
        BY <4>3, <4>4, <4>5 DEF Row
    <3> QED
      BY <3>1, <3>2
  <2>2. ASSUME entries'[p] # None
        PROVE  /\ entries'[p].uuid = ScanUuid(p) /\ entries'[p].digest = disk[First(p)].bytes
    BY <1>6, <2>2
  <2> QED
    BY <1>1, <1>4, <2>1, <2>2 DEF EntryVouched, Pending
<1>13. QuarantineVouched(p)'
  <2>1. quarantined'[p] # None => quarantined'[p].uuid = ScanUuid(p)
    BY <1>6
  <2> QED
    BY <1>1, <1>4, <1>8, <2>1 DEF QuarantineVouched, Pending
<1>14. Covered(p)' /\ Listed(p)'
  <2>1. entries'[p] # None => entries'[p].dir = First(p) /\ Sightings(p) = {First(p)}
    BY <1>5, <1>6
  <2>2. quarantined'[p] # None => Sightings(p) \subseteq quarantined'[p].dirs
    BY <1>6 DEF Recorded
  <2>3. Covered(p)'
    BY <1>3, <1>4, <2>1, <2>2 DEF Covered, Unplaced
  <2>4. /\ ScanUuid(p) \in {NoRow} \cup Uuids
        /\ p \in Backfilled => ScanUuid(p) \in Uuids
    <3>1. ASSUME p \in Backfilled PROVE ScanUuid(p) \in Uuids
      <4>1. minted[p] \in 0..MaxUuid /\ minted[p] < MaxUuid
        BY <1>0, <3>1 DEF Scan, Types
      <4> QED
        BY <3>1, <4>1, PluginsAssumption DEF ScanUuid, Uuids
    <3> QED
      BY <1>0, <3>1, LiveIds DEF ScanUuid, Ids
  <2>5. ASSUME Indexed(p) PROVE entries'[p] # None
    <3>1. First(p) \in Dirs
      BY <1>5, <2>5 DEF Sightings
    <3>2. p \notin Backfilled => Live(p) # {}
      BY <1>5, <2>5 DEF Backfilled
    <3>3. ScanUuid(p) \in Uuids
      BY <1>0, <2>4, <3>2, LiveIds DEF ScanUuid, Live
    <3>4. ScanEntry(p) \in Entries
      BY <1>5, <2>5, <3>1, <3>3 DEF ScanEntry, Entries
    <3> QED
      BY <1>1, <3>4, NoneAssumption DEF Entries
  <2>6. ASSUME ~Indexed(p), Sightings(p) # {} PROVE quarantined'[p] # None
    <3>1. quarantined'[p] = [uuid |-> ScanUuid(p), dirs |-> Recorded(p)]
      BY <1>1, <2>6 DEF ScanQuarantine
    <3>2. Recorded(p) \subseteq Dirs
      BY PluginsAssumption DEF Recorded, Sightings, NamedDir
    <3> QED
      BY <2>4, <3>1, <3>2, NoneAssumption
  <2>7. Sightings(p) \subseteq KnownDirs(p)'
    BY <2>1, <2>2, <2>5, <2>6 DEF KnownDirs
  <2> QED
    BY <1>4, <2>3, <2>7 DEF Listed
<1>15. KnownLive(p)' /\ Backed(p)'
  BY <1>0, <1>1, <1>4 DEF CatalogOf, KnownLive, Backed
<1>16. GoneClean(p)'
  <2>1. p \in gone => Sightings(p) = {}
    BY <1>0 DEF CatalogOf, GoneClean
  <2>2. Sightings(p) = {} => entries'[p] = None
    BY <1>5, <1>6
  <2> QED
    BY <1>1, <1>4, <2>1, <2>2 DEF GoneClean
<1> QED
  BY <1>9, <1>10, <1>11, <1>12, <1>13, <1>14, <1>15, <1>16 DEF CatalogOf

(* An orphan that the scan tombstones has nothing on disk and no entry.    *)
LEMMA SweepCatalog ==
  ASSUME CatalogInv, NEW o \in Plugins, SweepOrphan(o), NEW p \in Plugins
  PROVE  CatalogOf(p)'
<1>0. Types /\ Booting /\ CatalogOf(p)
  BY DEF CatalogInv, PurgeInv
<1>1. /\ phase = "sweep" /\ phase' = "sweep" /\ o \in sweep /\ sweep' = sweep \ {o}
      /\ UNCHANGED <<disk, entries, quarantined, known, placed, gone, req, minted, backfill>>
      /\ rows' = Tombstoned(o, LiveUuid(o)) \/ rows' = rows
  BY DEF SweepOrphan, history, api, registry
<1>2. \A r \in Requests : req[r] = Idle /\ req'[r] = Idle
  BY <1>0, <1>1 DEF Booting
<1>3. /\ ~Dropping(p) /\ ~Indexing(p)
      /\ \A r \in Requests : ~Landing(r, p)' /\ ~Removing(r, p)'
  BY <1>2, NoRequests DEF Landing, Removing, Landed, Resolves, Idle
<1>4. /\ Sightings(p)' = Sightings(p) /\ Held(p)' = Held(p) /\ Unplaced(p)' = Unplaced(p)
      /\ KnownDirs(p)' = KnownDirs(p) /\ First(p)' = First(p)
      /\ \A d \in Dirs : Owns(p, d) => Owns(p, d)'
  BY <1>1, DiskAlone, SameFirst DEF KnownDirs
<1>5. Owned(p)'
  BY <1>0, <1>3, <1>4, DirTypes DEF CatalogOf, Owned
<1>6. Mapped(p)'
  BY <1>0, <1>1, <1>4 DEF CatalogOf, Mapped
<1>7. Landings(p)' /\ Removals(p)'
  BY <1>3 DEF Landings, Removals
<1>8. Covered(p)' /\ Listed(p)'
  BY <1>0, <1>1, <1>3, <1>4 DEF CatalogOf, Covered, Listed
<1>9. CASE p = o
  <2>1. entries[p] = None /\ quarantined[p] = None /\ Held(p) = {}
    BY <1>0, <1>1, <1>9 DEF CatalogOf, Mapped
  <2>2. Sightings(p) = {} /\ Unplaced(p) = {}
    BY <2>1 DEF Held, Sightings, Readable, Unplaced
  <2>3. known[p] = None
    BY <1>0, <2>1 DEF CatalogOf, KnownLive
  <2>4. EntryVouched(p)' /\ QuarantineVouched(p)' /\ KnownLive(p)' /\ GoneClean(p)' /\ Backed(p)'
    BY <1>1, <1>4, <2>1, <2>2, <2>3
       DEF EntryVouched, QuarantineVouched, KnownLive, GoneClean, Backed
  <2> QED
    BY <1>5, <1>6, <1>7, <1>8, <2>4 DEF CatalogOf
<1>10. CASE p # o
  <2>1. rows'[p] = rows[p]
    BY <1>0, <1>1, <1>10 DEF Tombstoned, Types
  <2>2. Live(p)' = Live(p)
    BY <2>1 DEF Live
  <2>3. EntryVouched(p)'
    BY <1>0, <1>1, <1>3, <1>4, <2>1 DEF CatalogOf, EntryVouched, Pending
  <2>4. QuarantineVouched(p)'
    BY <1>0, <1>1, <1>3, <2>2 DEF CatalogOf, QuarantineVouched, Pending
  <2>5. KnownLive(p)' /\ GoneClean(p)' /\ Backed(p)'
    BY <1>0, <1>1, <1>3, <1>4, <2>2 DEF CatalogOf, KnownLive, GoneClean, Backed
  <2> QED
    BY <1>5, <1>6, <1>7, <1>8, <2>3, <2>4, <2>5 DEF CatalogOf
<1> QED
  BY <1>9, <1>10

(* The row that the scan inserts is the one the maps already serve.        *)
LEMMA BackfillCatalog ==
  ASSUME CatalogInv, NEW o \in Plugins, InsertBackfill(o), NEW p \in Plugins
  PROVE  CatalogOf(p)'
<1>0. Types /\ Booting /\ OneLive /\ CatalogOf(p)
  BY DEF CatalogInv, PurgeInv
<1>1. /\ phase = "sweep" /\ phase' = "sweep" /\ sweep' = sweep
      /\ o \in backfill /\ backfill' = backfill \ {o}
      /\ UNCHANGED <<disk, entries, quarantined, known, placed, gone, req, minted>>
      /\ SetRow(o, minted[o], [state |-> "live", digest |-> disk[First(o)].bytes])
  BY DEF InsertBackfill, history, api, registry
<1>2. \A r \in Requests : req[r] = Idle /\ req'[r] = Idle
  BY <1>0, <1>1 DEF Booting
<1>3. /\ ~Dropping(p) /\ ~Indexing(p)
      /\ \A r \in Requests : ~Landing(r, p)' /\ ~Removing(r, p)'
  BY <1>2, NoRequests DEF Landing, Removing, Landed, Resolves, Idle
<1>4. /\ Sightings(p)' = Sightings(p) /\ Held(p)' = Held(p) /\ Unplaced(p)' = Unplaced(p)
      /\ KnownDirs(p)' = KnownDirs(p) /\ First(p)' = First(p)
      /\ \A d \in Dirs : Owns(p, d) => Owns(p, d)'
  BY <1>1, DiskAlone, SameFirst DEF KnownDirs
<1>5. Owned(p)'
  BY <1>0, <1>3, <1>4, DirTypes DEF CatalogOf, Owned
<1>6. Mapped(p)'
  BY <1>0, <1>1, <1>4 DEF CatalogOf, Mapped
<1>7. Landings(p)' /\ Removals(p)'
  BY <1>3 DEF Landings, Removals
<1>8. Covered(p)' /\ Listed(p)'
  BY <1>0, <1>1, <1>3, <1>4 DEF CatalogOf, Covered, Listed
<1>9. CASE p = o
  <2>1. minted[p] \in Uuids /\ Live(p) = {}
    BY <1>0, <1>1, <1>9 DEF OneLive
  <2>2. rows'[p][minted[p]] = [state |-> "live", digest |-> disk[First(p)].bytes]
    BY <1>0, <1>1, <1>9, <2>1 DEF SetRow, Types
  <2>3. minted[p] \in Live(p)'
    BY <2>1, <2>2 DEF Live
  <2>4. entries[p] # None => Pending(p, entries[p].uuid) /\ entries[p].digest = disk[First(p)].bytes
    <3>1. entries[p] # None => entries[p].uuid \in Uuids
      BY <1>0 DEF Types, Entries
    <3>2. entries[p] # None => rows[p][entries[p].uuid].state # "live"
      BY <2>1, <3>1 DEF Live
    <3> QED
      BY <1>0, <1>3, <3>2 DEF CatalogOf, EntryVouched
  <2>5. quarantined[p] # None /\ quarantined[p].uuid # NoRow => Pending(p, quarantined[p].uuid)
    BY <1>0, <1>3, <2>1 DEF CatalogOf, QuarantineVouched
  <2>6. EntryVouched(p)'
    BY <1>1, <2>2, <2>4 DEF EntryVouched, Pending
  <2>7. QuarantineVouched(p)'
    BY <1>1, <2>3, <2>5 DEF QuarantineVouched, Pending
  <2>8. KnownLive(p)' /\ Backed(p)' /\ GoneClean(p)'
    BY <1>0, <1>1, <1>3, <1>4, <2>1, <2>3 DEF CatalogOf, KnownLive, Backed, GoneClean
  <2> QED
    BY <1>5, <1>6, <1>7, <1>8, <2>6, <2>7, <2>8 DEF CatalogOf
<1>10. CASE p # o
  <2>1. rows'[p] = rows[p]
    BY <1>0, <1>1, <1>10 DEF SetRow, Types
  <2>2. Live(p)' = Live(p)
    BY <2>1 DEF Live
  <2>3. EntryVouched(p)'
    BY <1>0, <1>1, <1>3, <1>4, <1>10, <2>1 DEF CatalogOf, EntryVouched, Pending
  <2>4. QuarantineVouched(p)'
    BY <1>0, <1>1, <1>3, <1>10, <2>2 DEF CatalogOf, QuarantineVouched, Pending
  <2>5. KnownLive(p)' /\ GoneClean(p)' /\ Backed(p)'
    BY <1>0, <1>1, <1>3, <1>4, <2>2 DEF CatalogOf, KnownLive, GoneClean, Backed
  <2> QED
    BY <1>5, <1>6, <1>7, <1>8, <2>3, <2>4, <2>5 DEF CatalogOf
<1> QED
  BY <1>9, <1>10

(* Every row is there when the maps are handed over.                       *)
LEMMA ScanDoneCatalog ==
  ASSUME CatalogInv, ScanDone, NEW p \in Plugins
  PROVE  CatalogOf(p)'
<1>0. Types /\ Booting /\ CatalogOf(p)
  BY DEF CatalogInv, PurgeInv
<1>1. /\ phase = "sweep" /\ phase' = "up" /\ backfill = {}
      /\ UNCHANGED <<disk, rows, entries, quarantined, placed, gone, req>>
      /\ known'[p] = IF entries[p] # None THEN entries[p].uuid ELSE known[p]
  BY DEF ScanDone, stores, api, registry, Served
<1>2. \A r \in Requests : req[r] = Idle /\ req'[r] = Idle
  BY <1>0, <1>1 DEF Booting
<1>3. /\ ~Dropping(p) /\ ~Indexing(p)
      /\ \A r \in Requests : ~Landing(r, p)' /\ ~Removing(r, p)'
  BY <1>2, NoRequests DEF Landing, Removing, Landed, Resolves, Idle
<1>4. /\ Sightings(p)' = Sightings(p) /\ Held(p)' = Held(p) /\ Unplaced(p)' = Unplaced(p)
      /\ KnownDirs(p)' = KnownDirs(p) /\ Live(p)' = Live(p)
      /\ \A d \in Dirs : Owns(p, d) => Owns(p, d)'
  BY <1>1, DiskAlone DEF KnownDirs, Live
<1>5. Owned(p)'
  BY <1>0, <1>3, <1>4, DirTypes DEF CatalogOf, Owned
<1>6. Mapped(p)'
  BY <1>0, <1>1 DEF CatalogOf, Mapped
<1>7. Landings(p)' /\ Removals(p)'
  BY <1>3 DEF Landings, Removals
<1>8. Covered(p)' /\ Listed(p)'
  BY <1>0, <1>1, <1>3, <1>4 DEF CatalogOf, Covered, Listed
<1>9. entries[p] # None =>
        rows[p][entries[p].uuid] = [state |-> "live", digest |-> entries[p].digest]
  BY <1>0, <1>1, <1>3 DEF CatalogOf, EntryVouched, Pending
<1>10. quarantined[p] # None /\ quarantined[p].uuid # NoRow => quarantined[p].uuid \in Live(p)
  BY <1>0, <1>1, <1>3 DEF CatalogOf, QuarantineVouched, Pending
<1>11. EntryVouched(p)' /\ QuarantineVouched(p)'
  BY <1>1, <1>4, <1>9, <1>10 DEF EntryVouched, QuarantineVouched
<1>12. KnownLive(p)'
  <2>1. ASSUME entries[p] # None PROVE entries[p].uuid \in Live(p) /\ Held(p) # {}
    <3>1. entries[p].dir \in Held(p)
      BY <1>0, <1>1, <2>1 DEF CatalogOf, Mapped, Held, Sightings, Readable
    <3>2. entries[p].uuid \in Uuids /\ rows[p][entries[p].uuid].state = "live"
      BY <1>0, <1>9, <2>1 DEF Types, Entries
    <3> QED
      BY <3>1, <3>2 DEF Live
  <2> QED
    BY <1>0, <1>1, <1>4, <2>1 DEF CatalogOf, KnownLive
<1>13. GoneClean(p)' /\ Backed(p)'
  BY <1>0, <1>1, <1>3, <1>4 DEF CatalogOf, GoneClean, Backed
<1> QED
  BY <1>5, <1>6, <1>7, <1>8, <1>11, <1>12, <1>13 DEF CatalogOf

(* A daemon that is down knows nothing; what is durable agrees.            *)
LEMMA DownCatalog ==
  ASSUME Types, NEW p \in Plugins, phase' = "down", \A r \in Requests : req'[r] = Idle,
         entries'[p] = None, quarantined'[p] = None, Owns(p, Home[p])',
         KnownLive(p)', Backed(p)', p \in gone' => Sightings(p)' = {}
  PROVE  CatalogOf(p)'
<1>1. \A r \in Requests : ~Landing(r, p)' /\ ~Removing(r, p)'
  BY DEF Landing, Removing, Landed, Resolves, Idle
<1>2. KnownDirs(p)' = {}
  BY DEF KnownDirs
<1>3. Owned(p)' /\ Mapped(p)' /\ Landings(p)' /\ Removals(p)'
  BY <1>1, <1>2 DEF Owned, Mapped, Landings, Removals
<1>4. EntryVouched(p)' /\ QuarantineVouched(p)' /\ Covered(p)' /\ Listed(p)' /\ GoneClean(p)'
  BY <1>1 DEF EntryVouched, QuarantineVouched, Covered, Listed, GoneClean
<1> QED
  BY <1>3, <1>4 DEF CatalogOf

LEMMA CrashCatalog ==
  ASSUME CatalogInv, Crash, NEW p \in Plugins
  PROVE  CatalogOf(p)'
<1>0. Types /\ CatalogOf(p)
  BY DEF CatalogInv, PurgeInv
<1>1. /\ phase' = "down" /\ \A r \in Requests : req'[r] = Idle
      /\ entries'[p] = None /\ quarantined'[p] = None
      /\ UNCHANGED <<disk, rows, known, placed, gone>>
  BY DEF Crash, stores, history
<1>2. /\ Sightings(p)' = Sightings(p) /\ Held(p)' = Held(p) /\ Unplaced(p)' = Unplaced(p)
      /\ Live(p)' = Live(p) /\ \A d \in Dirs : Owns(p, d) => Owns(p, d)'
  BY <1>1, DiskAlone DEF Live
<1>3. Owns(p, Home[p])'
  BY <1>0, <1>2, DirTypes DEF CatalogOf, Owned
<1>4. KnownLive(p)' /\ Backed(p)' /\ (p \in gone' => Sightings(p)' = {})
  BY <1>0, <1>1, <1>2 DEF CatalogOf, KnownLive, Backed, GoneClean
<1> QED
  BY <1>0, <1>1, <1>3, <1>4, DownCatalog

(* What the operator puts somewhere is history's: placed, and no longer    *)
(* gone.                                                                   *)
LEMMA EditCatalog ==
  ASSUME CatalogInv, NEW d \in Dirs, NEW package \in Package \cup {None}, Edit(d, package),
         NEW p \in Plugins
  PROVE  CatalogOf(p)'
<1>0. Types /\ Booting /\ CatalogOf(p)
  BY DEF CatalogInv, PurgeInv
<1>1. /\ phase = "down" /\ phase' = "down" /\ placed' = placed \cup {d}
      /\ disk' = [disk EXCEPT ![d] = package]
      /\ UNCHANGED <<rows, entries, quarantined, req>>
      /\ gone' = IF package = None THEN gone ELSE gone \ {package.id}
      /\ package # None => \A q \in Plugins : Home[q] = d => package.id = q
  BY DEF Edit, boot, registry, api
<1>2. disk'[d] = package /\ \A e \in Dirs : e # d => disk'[e] = disk[e]
  BY <1>0, <1>1 DEF Types
<1>3. /\ \A r \in Requests : req'[r] = Idle
      /\ entries'[p] = None /\ quarantined'[p] = None
  BY <1>0, <1>1 DEF Booting, CatalogOf, Mapped
<1>4. Owns(p, Home[p])'
  <2>1. Owns(p, Home[p]) /\ Home[p] \in Dirs
    BY <1>0, DirTypes DEF CatalogOf, Owned
  <2> QED
    BY <1>1, <1>2, <2>1 DEF Owns
<1>5. Unplaced(p)' \subseteq Unplaced(p) /\ Live(p)' = Live(p)
  BY <1>1, <1>2 DEF Unplaced, Sightings, Readable, Live
<1>6. known'[p] # None => known'[p] = known[p] /\ Held(p)' # {}
  BY DEF Edit, Held
<1>7. KnownLive(p)' /\ Backed(p)'
  BY <1>0, <1>5, <1>6 DEF CatalogOf, KnownLive, Backed
<1>8. ASSUME p \in gone' PROVE Sightings(p)' = {}
  <2>1. p \in gone /\ (package # None => package.id # p)
    BY <1>1, <1>8
  <2>2. Sightings(p) = {}
    BY <1>0, <2>1 DEF CatalogOf, GoneClean
  <2>3. Sightings(p)' \subseteq Sightings(p)
    BY <1>2, <2>1 DEF Sightings, Readable
  <2> QED
    BY <2>2, <2>3
<1> QED
  BY <1>0, <1>1, <1>3, <1>4, <1>7, <1>8, DownCatalog

LEMMA DegradeCatalog ==
  ASSUME CatalogInv, NEW o \in Plugins, Degrade(o), NEW p \in Plugins
  PROVE  CatalogOf(p)'
<1>0. Types /\ Booting /\ CatalogOf(p)
  BY DEF CatalogInv, PurgeInv
<1>1. /\ phase = "down" /\ phase' = "down"
      /\ UNCHANGED <<disk, entries, quarantined, known, placed, gone, req>>
      /\ Live(o) # {} /\ SetRow(o, LiveUuid(o), [state |-> "live", digest |-> None])
  BY DEF Degrade, boot, registry, api, history
<1>2. /\ \A r \in Requests : req'[r] = Idle
      /\ entries'[p] = None /\ quarantined'[p] = None
  BY <1>0, <1>1 DEF Booting, CatalogOf, Mapped
<1>3. /\ Sightings(p)' = Sightings(p) /\ Held(p)' = Held(p) /\ Unplaced(p)' = Unplaced(p)
      /\ \A d \in Dirs : Owns(p, d) => Owns(p, d)'
  BY <1>1, DiskAlone
<1>4. Live(p) \subseteq Live(p)'
  <2>1. LiveUuid(o) \in Uuids
    BY <1>0, <1>1, LiveIds DEF Live
  <2>2. ASSUME NEW u \in Uuids, rows[p][u].state = "live" PROVE rows'[p][u].state = "live"
    BY <1>0, <1>1, <2>1, <2>2 DEF SetRow, Types
  <2> QED
    BY <2>2 DEF Live
<1>5. Owns(p, Home[p])'
  BY <1>0, <1>3, DirTypes DEF CatalogOf, Owned
<1>6. KnownLive(p)' /\ Backed(p)' /\ (p \in gone' => Sightings(p)' = {})
  <2>1. KnownLive(p)'
    BY <1>0, <1>1, <1>3, <1>4 DEF CatalogOf, KnownLive
  <2>2. Backed(p)' /\ (p \in gone' => Sightings(p)' = {})
    BY <1>0, <1>1, <1>3, <1>4 DEF CatalogOf, Backed, GoneClean
  <2> QED
    BY <2>1, <2>2
<1> QED
  BY <1>0, <1>1, <1>2, <1>5, <1>6, DownCatalog

-----------------------------------------------------------------------------
(* Instances, and every step.                                              *)
LEMMA CatalogInstance ==
  ASSUME CatalogInv, NEW o \in Plugins, Instance(o), NEW p \in Plugins
  PROVE  CatalogOf(p)'
<1>0. Types /\ Booting /\ CatalogOf(p)
  BY DEF CatalogInv, PurgeInv
<1>1. phase = "up" /\ UNCHANGED <<phase, req, disk, rows, entries, quarantined, known, placed, gone>>
  <2>1. running[o] # None
    BY DEF Instance, Load, WriteBlob, Restart
  <2>2. UNCHANGED <<phase, req, disk, rows, entries, quarantined, known, placed, gone>>
    BY DEF Instance, Load, WriteBlob, Restart, boot, stores, registry, api, history
  <2> QED
    BY <1>0, <2>1, <2>2 DEF Booting
<1>2. (Dropping(p) => Dropping(p)') /\ (Indexing(p) => Indexing(p)')
  BY <1>1 DEF Dropping, Indexing
<1>3. Undisturbed(p)
  BY <1>1, <1>2, DiskAlone DEF Undisturbed
<1> QED
  BY <1>0, <1>3, UndisturbedKeeps

LEMMA CatalogStutters ==
  ASSUME UNCHANGED vars, NEW p \in Plugins, CatalogOf(p), Types
  PROVE  CatalogOf(p)'
<1>1. UNCHANGED <<disk, rows, entries, quarantined, known, placed, gone, req, phase, sweep,
                  backfill, minted>>
  BY DEF vars, stores, boot, registry, api, history
<1>2. /\ Sightings(p)' = Sightings(p) /\ Held(p)' = Held(p) /\ Unplaced(p)' = Unplaced(p)
      /\ KnownDirs(p)' = KnownDirs(p) /\ Live(p)' = Live(p) /\ First(p)' = First(p)
      /\ Resolved(p)' = Resolved(p)
      /\ \A d \in Dirs : Owns(p, d) => Owns(p, d)'
  BY <1>1, DiskAlone, SameFirst DEF KnownDirs, Live, Resolved
<1>3. /\ Dropping(p)' = Dropping(p) /\ Indexing(p)' = Indexing(p)
      /\ \A r \in Requests : (Landing(r, p)' => Landing(r, p)) /\ (Removing(r, p)' => Removing(r, p))
  BY <1>1 DEF Dropping, Indexing, Landing, Removing
<1>4. Owned(p)'
  BY <1>1, <1>2, <1>3, DirTypes DEF CatalogOf, Owned
<1>5. Mapped(p)' /\ Landings(p)'
  BY <1>1, <1>2, <1>3 DEF CatalogOf, Mapped, Landings
<1>6. EntryVouched(p)' /\ QuarantineVouched(p)'
  BY <1>1, <1>2, <1>3 DEF CatalogOf, EntryVouched, QuarantineVouched, Pending
<1>7. Covered(p)' /\ Listed(p)' /\ Removals(p)'
  BY <1>1, <1>2, <1>3 DEF CatalogOf, Covered, Listed, Removals
<1>8. KnownLive(p)' /\ GoneClean(p)' /\ Backed(p)'
  BY <1>1, <1>2, <1>3 DEF CatalogOf, KnownLive, GoneClean, Backed
<1> QED
  BY <1>4, <1>5, <1>6, <1>7, <1>8 DEF CatalogOf

LEMMA CatalogStep == ASSUME CatalogInv, [Next]_vars PROVE \A p \in Plugins : CatalogOf(p)'
<1> SUFFICES ASSUME NEW p \in Plugins PROVE CatalogOf(p)'
  OBVIOUS
<1>1. CASE Boot
  BY <1>1, ScanCatalog, SweepCatalog, BackfillCatalog, ScanDoneCatalog, CrashCatalog DEF Boot
<1>2. CASE Hand
  BY <1>2, EditCatalog, DegradeCatalog DEF Hand
<1>3. CASE \E r \in Requests : Installing(r) \/ Uninstalling(r) \/ Starting(r)
  BY <1>3, CatalogInstalling, CatalogUninstalling, CatalogStarting
<1>4. CASE \E o \in Plugins : Instance(o)
  BY <1>4, CatalogInstance
<1>5. CASE UNCHANGED vars
  BY <1>5, CatalogStutters DEF CatalogInv, PurgeInv
<1> QED
  BY <1>1, <1>2, <1>3, <1>4, <1>5 DEF Next

-----------------------------------------------------------------------------
(* What runs.                                                              *)

(* An instance that has loaded was loaded before, or the loader has just   *)
(* admitted it.                                                            *)
LEMMA LoadedBefore ==
  ASSUME PurgeInv, [Next]_vars, NEW p \in Plugins, running'[p] # None, running'[p].loaded
  PROVE  \/ running'[p] = running[p]
         \/ /\ Load(p) /\ LoadAdmitted(p)
            /\ running'[p].uuid = running[p].uuid /\ running'[p].dir = running[p].dir
<1>0. Types
  BY DEF PurgeInv
<1>1. ASSUME NEW q \in Plugins, Instance(q)
      PROVE  \/ running'[p] = running[p]
             \/ /\ Load(p) /\ LoadAdmitted(p)
                /\ running'[p].uuid = running[p].uuid /\ running'[p].dir = running[p].dir
  <2>1. running[q] # None
    BY <1>1 DEF Instance, Load, WriteBlob, Restart
  <2>2. CASE q # p
    BY <1>0, <1>1, <2>2 DEF Instance, Load, WriteBlob, Restart, Types, api
  <2>3. CASE q = p
    <3>1. running' = [running EXCEPT ![p] = None] => running'[p] = None
      BY <1>0 DEF Types
    <3>2. running' = [running EXCEPT ![p].loaded = FALSE] => ~running'[p].loaded
      BY <1>0, <2>1, <2>3 DEF Types, Instances
    <3>3. running' = [running EXCEPT ![p].loaded = TRUE] =>
            running'[p].uuid = running[p].uuid /\ running'[p].dir = running[p].dir
      BY <1>0, <2>1, <2>3 DEF Types, Instances
    <3> QED
      BY <1>1, <2>3, <3>1, <3>2, <3>3 DEF Instance, Load, WriteBlob, Restart, api
  <2> QED
    BY <2>2, <2>3
<1>2. ASSUME NEW r \in Requests, Register(r) PROVE running'[p] = running[p]
  <2>1. req[r].plugin \in Plugins
    BY <1>0, <1>2, ReqTypes DEF Register, At, Starts, StartReqs
  <2> QED
    BY <1>0, <1>2, <2>1 DEF Register, Types
<1>3. CASE Boot \/ Hand \/ UNCHANGED vars
  BY <1>3 DEF Boot, Scan, SweepOrphan, InsertBackfill, ScanDone, Crash, Hand, Edit, Degrade, vars, api
<1>4. ASSUME NEW r \in Requests, Installing(r) \/ Uninstalling(r) \/ Starting(r)
      PROVE  running'[p] = running[p]
  BY <1>2, <1>4, RequestFrames DEF RequestFrame
<1> QED
  BY <1>1, <1>3, <1>4 DEF Next

(* The row and the directory that an instance runs from are left alone:    *)
(* an install has another identity and another directory, an uninstall     *)
(* finds no instance of its plugin, and no other plugin has the directory. *)
LEMMA RunningAlone ==
  ASSUME CatalogInv, [Next]_vars, NEW p \in Plugins, running[p] # None, running[p].loaded,
         running'[p] = running[p]
  PROVE  /\ rows'[p][running[p].uuid] = rows[p][running[p].uuid]
         /\ disk'[running[p].dir] = disk[running[p].dir]
<1> DEFINE u == running[p].uuid
           d == running[p].dir
           Same == rows'[p][u] = rows[p][u] /\ disk'[d] = disk[d]
<1>0. PurgeInv /\ Types /\ Booting /\ Locked /\ Apart /\ RunsInstalled(p)
  BY DEF CatalogInv, PurgeInv
<1>1. phase = "up" /\ u \in Uuids /\ d \in Dirs /\ disk[d] # None /\ disk[d].id = p
  BY <1>0 DEF Booting, RunsInstalled, Live, Sightings, Readable
<1>2. CASE Boot \/ Hand
  BY <1>1, <1>2 DEF Boot, Scan, SweepOrphan, InsertBackfill, ScanDone, Crash, Hand, Edit, Degrade
<1>3. ASSUME NEW r \in Requests, NEW row,
             req[r].pc \in Installs, SetRow(req[r].plugin, req[r].uuid, row)
      PROVE  rows'[p][u] = rows[p][u]
  <2>1. req[r].plugin \in Plugins /\ req[r].uuid \in Uuids
    BY <1>0, <1>3, ReqTypes DEF InstallReqs
  <2>2. ~(req[r].plugin = p /\ req[r].uuid = u)
    BY <1>0, <1>3 DEF Apart, InUse
  <2> QED
    BY <1>0, <1>1, <1>3, <2>1, <2>2 DEF SetRow, Types
<1>4. ASSUME NEW r \in Requests, Installing(r) PROVE Same
  <2>1. ASSUME NEW o \in Plugins, NEW v \in Versions, Install(r, o, v) PROVE Same
    BY <2>1 DEF Install, stores
  <2>2. CASE Stage(r) \/ Index(r)
    BY <2>2 DEF Stage, Index, stores
  <2>3. CASE InsertRow(r)
    <3>1. req[r].pc \in Installs /\ UNCHANGED disk
      BY <2>3 DEF InsertRow, At, Installs
    <3> QED
      BY <1>3, <2>3, <3>1 DEF InsertRow
  <2>4. CASE Rename(r)
    <3>1. UNCHANGED rows
      BY <2>4 DEF Rename
    <3>2. disk'[d] = disk[d]
      BY <1>0, <1>1, <2>4 DEF Rename, Types
    <3> QED
      BY <3>1, <3>2
  <2>5. CASE Rollback(r)
    <3>1. req[r].pc \in Installs /\ UNCHANGED disk
      BY <2>5 DEF Rollback, At, Installs
    <3> QED
      BY <1>3, <2>5, <3>1 DEF Rollback
  <2> QED
    BY <1>4, <2>1, <2>2, <2>3, <2>4, <2>5 DEF Installing
<1>5. ASSUME NEW r \in Requests, Uninstalling(r) PROVE Same
  <2>1. ASSUME NEW o \in Plugins, Uninstall(r, o) PROVE Same
    BY <2>1 DEF Uninstall, stores
  <2>2. CASE PurgeKv(r) \/ PurgeBlobs(r) \/ Resolve(r) \/ Drop(r)
    BY <2>2 DEF PurgeKv, PurgeBlobs, Resolve, Drop, stores
  <2>3. ASSUME RemoveDir(r) \/ Tombstone(r)
        PROVE  req[r].plugin \in Plugins /\ req[r].uuid \in Ids /\ req[r].plugin # p
    <3>1. req[r] \in RemoveReqs /\ req[r].pc \in Uninstalls
      BY <1>0, <2>3, ReqTypes DEF RemoveDir, Tombstone, At, Resolves, Uninstalls
    <3> QED
      BY <1>0, <3>1 DEF Locked, RemoveReqs
  <2>4. CASE RemoveDir(r)
    <3>1. UNCHANGED rows
      BY <2>4 DEF RemoveDir
    <3>2. disk'[d] = disk[d] \/ Owns(req[r].plugin, d)
      BY <1>0, <1>1, <2>3, <2>4, RemovedDir DEF CatalogInv
    <3> QED
      BY <1>1, <2>3, <2>4, <3>1, <3>2 DEF Owns
  <2>5. CASE Tombstone(r)
    <3>1. UNCHANGED disk
      BY <2>5 DEF Tombstone
    <3>2. \/ UNCHANGED rows
          \/ rows' = Tombstoned(req[r].plugin, req[r].uuid)
      BY <2>5 DEF Tombstone
    <3>3. rows'[p] = rows[p]
      BY <1>0, <2>3, <2>5, <3>2 DEF Tombstoned, Types
    <3> QED
      BY <3>1, <3>3
  <2> QED
    BY <1>5, <2>1, <2>2, <2>4, <2>5 DEF Uninstalling
<1>6. ASSUME NEW r \in Requests, Starting(r) PROVE Same
  BY <1>6 DEF Starting, Start, Register, StartReturns, HangUp, stores
<1>7. ASSUME NEW o \in Plugins, Instance(o) PROVE Same
  BY <1>7 DEF Instance, Load, WriteBlob, Restart, stores
<1>8. CASE UNCHANGED vars
  BY <1>8 DEF vars, stores
<1> QED
  BY <1>2, <1>4, <1>5, <1>6, <1>7, <1>8 DEF Next

LEMMA RunsStep == ASSUME CatalogInv, [Next]_vars, NEW p \in Plugins PROVE RunsInstalled(p)'
<1>0. PurgeInv /\ Types /\ Booting /\ CatalogOf(p) /\ RunsInstalled(p)
  BY DEF CatalogInv, PurgeInv
<1> SUFFICES ASSUME running'[p] # None, running'[p].loaded
             PROVE  /\ running'[p].uuid \in Live(p)'
                    /\ running'[p].dir \in Sightings(p)'
                    /\ rows'[p][running'[p].uuid].digest = disk'[running'[p].dir].bytes
  BY DEF RunsInstalled
<1>1. CASE running'[p] = running[p]
  <2>1. /\ running[p].uuid \in Live(p) /\ running[p].dir \in Sightings(p)
        /\ rows[p][running[p].uuid].digest = disk[running[p].dir].bytes
    BY <1>0, <1>1 DEF RunsInstalled
  <2>2. /\ rows'[p][running[p].uuid] = rows[p][running[p].uuid]
        /\ disk'[running[p].dir] = disk[running[p].dir]
    BY <1>1, RunningAlone
  <2> QED
    BY <1>1, <2>1, <2>2 DEF Live, Sightings, Readable
<1>2. CASE /\ Load(p) /\ LoadAdmitted(p)
           /\ running'[p].uuid = running[p].uuid /\ running'[p].dir = running[p].dir
  <2>1. /\ entries[p] # None /\ entries[p].uuid = running[p].uuid
        /\ entries[p].dir = running[p].dir /\ Readable(entries[p].dir)
        /\ disk[entries[p].dir].bytes = entries[p].digest
    BY <1>2 DEF LoadAdmitted
  <2>2. entries[p].uuid \in Uuids /\ entries[p].dir \in Dirs
    BY <1>0, <2>1 DEF Types, Entries
  <2>3. phase = "up" /\ ~Dropping(p)
    BY <1>0, <1>2 DEF Load, Booting, EntriesLocked, Dropping
  <2>4. rows[p][entries[p].uuid] = [state |-> "live", digest |-> entries[p].digest]
    BY <1>0, <2>1, <2>3 DEF CatalogOf, EntryVouched, Pending
  <2>5. disk[entries[p].dir].id = p
    BY <1>0, <2>1 DEF CatalogOf, Owned, Owns, KnownDirs, Readable
  <2>6. /\ running[p].uuid \in Live(p) /\ running[p].dir \in Sightings(p)
        /\ rows[p][running[p].uuid].digest = disk[running[p].dir].bytes
    BY <2>1, <2>2, <2>4, <2>5 DEF Live, Sightings
  <2>7. UNCHANGED <<rows, disk>>
    BY <1>2 DEF Load
  <2> QED
    BY <1>2, <2>6, <2>7 DEF Live, Sightings, Readable
<1> QED
  BY <1>0, <1>1, <1>2, LoadedBefore

-----------------------------------------------------------------------------
(* What history says of identities: who writes it.                         *)
LEMMA KnownChanges ==
  ASSUME [Next]_vars
  PROVE  \/ UNCHANGED <<known, gone>>
         \/ ScanDone
         \/ \E d \in Dirs, package \in Package \cup {None} : Edit(d, package)
         \/ \E r \in Requests : Rename(r) \/ Index(r) \/ RemoveDir(r) \/ Tombstone(r)
<1>1. ASSUME NEW r \in Requests, Installing(r), ~Rename(r), ~Index(r)
      PROVE  UNCHANGED <<known, gone>>
  BY <1>1 DEF Installing, Install, Stage, InsertRow, Rollback, history
<1>2. ASSUME NEW r \in Requests, Uninstalling(r), ~RemoveDir(r), ~Tombstone(r)
      PROVE  UNCHANGED <<known, gone>>
  BY <1>2 DEF Uninstalling, Uninstall, PurgeKv, PurgeBlobs, Resolve, Drop, history
<1>3. ASSUME NEW r \in Requests, Starting(r) PROVE UNCHANGED <<known, gone>>
  BY <1>3 DEF Starting, Start, Register, StartReturns, HangUp, history
<1>4. ASSUME NEW p \in Plugins, Instance(p) PROVE UNCHANGED <<known, gone>>
  BY <1>4 DEF Instance, Load, WriteBlob, Restart, history
<1>5. ASSUME Boot, ~ScanDone PROVE UNCHANGED <<known, gone>>
  BY <1>5 DEF Boot, Scan, SweepOrphan, InsertBackfill, Crash, history
<1>6. ASSUME NEW p \in Plugins, Degrade(p) PROVE UNCHANGED <<known, gone>>
  BY <1>6 DEF Degrade, history
<1>7. CASE UNCHANGED vars
  BY <1>7 DEF vars, history
<1> QED
  BY <1>1, <1>2, <1>3, <1>4, <1>5, <1>6, <1>7 DEF Next, Hand

LEMMA KnownTypesStep == ASSUME CatalogInv, [Next]_vars PROVE KnownTypes'
<1> SUFFICES ASSUME Types, KnownTypes PROVE KnownTypes'
  BY DEF CatalogInv, PurgeInv
<1> USE DEF KnownTypes
<1>1. CASE ScanDone
  BY <1>1 DEF ScanDone, Served, Types, Entries
<1>2. ASSUME NEW d \in Dirs, NEW package \in Package \cup {None}, Edit(d, package) PROVE KnownTypes'
  BY <1>2 DEF Edit
<1>3. ASSUME NEW r \in Requests, Rename(r) PROVE KnownTypes'
  BY <1>3 DEF Rename
<1>4. ASSUME NEW r \in Requests, Index(r) PROVE KnownTypes'
  <2>1. req[r].uuid \in Uuids
    BY <1>4, ReqTypes DEF Index, At, Installs, InstallReqs
  <2> QED
    BY <1>4, <2>1 DEF Index
<1>5. ASSUME NEW r \in Requests, RemoveDir(r) PROVE KnownTypes'
  BY <1>5 DEF RemoveDir
<1>6. ASSUME NEW r \in Requests, Tombstone(r) PROVE KnownTypes'
  <2>1. req[r].plugin \in Plugins
    BY <1>6, ReqTypes DEF Tombstone, At, Resolves, RemoveReqs
  <2> QED
    BY <1>6, <2>1 DEF Tombstone
<1> QED
  BY <1>1, <1>2, <1>3, <1>4, <1>5, <1>6, KnownChanges

LEMMA CatalogInit == Init => CatalogInv
<1> SUFFICES ASSUME Init PROVE CatalogInv
  OBVIOUS
<1>1. PurgeInv
  BY PurgeInit
<1>2. KnownTypes
  BY DEF Init, KnownTypes
<1>3. ASSUME NEW p \in Plugins PROVE CatalogOf(p) /\ RunsInstalled(p)
  <2>1. /\ phase = "down" /\ entries[p] = None /\ quarantined[p] = None /\ running[p] = None
        /\ known[p] = None /\ p \notin gone /\ \A d \in Dirs : disk[d] = None
        /\ \A r \in Requests : req[r] = Idle
    BY <1>3 DEF Init
  <2>2. \A r \in Requests : ~Landing(r, p) /\ ~Removing(r, p)
    BY <2>1, NoRequests
  <2>3. Home[p] \in Dirs /\ Sightings(p) = {} /\ KnownDirs(p) = {}
    BY <2>1, PluginsAssumption DEF Sightings, Readable, KnownDirs
  <2>4. Owned(p) /\ Mapped(p) /\ Landings(p) /\ Removals(p)
    BY <2>1, <2>2, <2>3, PluginsAssumption DEF Owned, Owns, Mapped, Landings, Removals
  <2>5. EntryVouched(p) /\ QuarantineVouched(p) /\ Covered(p) /\ Listed(p)
    BY <2>1, <2>2 DEF EntryVouched, QuarantineVouched, Covered, Listed
  <2>6. KnownLive(p) /\ GoneClean(p) /\ Backed(p) /\ RunsInstalled(p)
    BY <2>1, <2>3 DEF KnownLive, GoneClean, Backed, Unplaced, RunsInstalled
  <2> QED
    BY <2>4, <2>5, <2>6 DEF CatalogOf
<1> QED
  BY <1>1, <1>2, <1>3 DEF CatalogInv

LEMMA CatalogNext == CatalogInv /\ [Next]_vars => CatalogInv'
<1> SUFFICES ASSUME CatalogInv, [Next]_vars PROVE CatalogInv'
  OBVIOUS
<1>1. PurgeInv'
  BY PurgeNext DEF CatalogInv
<1>2. KnownTypes'
  BY KnownTypesStep
<1>3. \A p \in Plugins : CatalogOf(p)'
  BY CatalogStep
<1>4. \A p \in Plugins : RunsInstalled(p)'
  BY RunsStep
<1> QED
  BY <1>1, <1>2, <1>3, <1>4 DEF CatalogInv

(* Directories, rows and maps agree, for any number of plugins, versions,  *)
(* requests and directories, through crashes at any step, removals that    *)
(* fail half way, and whatever is done to plugins_root while the daemon is *)
(* down.                                                                   *)
THEOREM CatalogInvariant == Spec => []CatalogInv
  BY CatalogInit, CatalogNext, PTL DEF Spec

(* A directory the daemon put there has its live row: the row is inserted  *)
(* before the rename and tombstoned after the last remove_dir_all.         *)
THEOREM DirsHaveRows == Spec => []DirHasRow
<1>1. ASSUME CatalogInv, NEW d \in Dirs, Readable(d), d \notin placed PROVE Live(disk[d].id) # {}
  <2>1. disk[d].id \in Plugins
    BY <1>1 DEF CatalogInv, PurgeInv, Types, Readable, Package
  <2>2. d \in Unplaced(disk[d].id)
    BY <1>1 DEF Unplaced, Sightings
  <2> QED
    BY <1>1, <2>1, <2>2 DEF CatalogInv, CatalogOf, Backed
<1>2. CatalogInv => DirHasRow
  BY <1>1 DEF DirHasRow
<1> QED
  BY <1>2, CatalogInvariant, PTL

(* An instance runs the bytes that its live row vouches for, however its   *)
(* load raced an install, an uninstall or a removal that failed.           *)
THEOREM RunsWhatWasInstalled == Spec => []RunsAsInstalled
<1>1. CatalogInv => RunsAsInstalled
  BY DEF CatalogInv, RunsInstalled, RunsAsInstalled, Sightings
<1> QED
  BY <1>1, CatalogInvariant, PTL

(* What can be read, and refuses an install, an uninstall can resolve,     *)
(* once nothing is under way for the plugin.                               *)
THEOREM AlwaysRecoverable == Spec => []Recoverable
<1>1. ASSUME CatalogInv, phase = "up", NEW d \in Dirs, Readable(d), Quiet(disk[d].id)
      PROVE  \/ entries[disk[d].id] # None /\ entries[disk[d].id].dir = d
             \/ quarantined[disk[d].id] # None /\ d \in quarantined[disk[d].id].dirs
  <2> DEFINE p == disk[d].id
  <2>1. p \in Plugins
    BY <1>1 DEF CatalogInv, PurgeInv, Types, Readable, Package
  <2>2. d \in Sightings(p)
    BY <1>1 DEF Sightings
  <2>3. ~Indexing(p)
    BY <1>1 DEF Quiet, At, Indexing
  <2>4. d \in KnownDirs(p)
    BY <1>1, <2>1, <2>2, <2>3 DEF CatalogInv, CatalogOf, Listed
  <2> QED
    BY <2>4 DEF KnownDirs
<1>2. CatalogInv => Recoverable
  BY <1>1 DEF Recoverable
<1> QED
  BY <1>2, CatalogInvariant, PTL

(* A plugin whose uninstall went through is served again only after an     *)
(* install or an operator's hand: no boot brings a directory of it back.   *)
THEOREM GoneForGood == Spec => []GoneStaysGone
<1>1. ASSUME CatalogInv, NEW p \in gone, Quiet(p) PROVE entries[p] = None
  <2>1. ~Dropping(p) /\ p \in Plugins
    BY <1>1 DEF Quiet, At, Dropping, CatalogInv, KnownTypes
  <2> QED
    BY <1>1, <2>1 DEF CatalogInv, CatalogOf, GoneClean
<1>2. CatalogInv => GoneStaysGone
  BY <1>1 DEF GoneStaysGone
<1> QED
  BY <1>2, CatalogInvariant, PTL

(* installation_uuid does not rotate under a plugin that stays on disk: a  *)
(* boot serves the identity of the live row, and an install that is being  *)
(* indexed follows no identity that still counts.                          *)
THEOREM IdentityNeverRotates == Spec => IdentityKept
<1>1. ASSUME CatalogInv, CatalogInv', [Next]_vars, NEW p \in Plugins, known[p] # None, known'[p] # None
      PROVE  known'[p] = known[p]
  <2>0. Types /\ OneLive /\ KnownTypes /\ CatalogOf(p) /\ CatalogOf(p)'
    BY <1>1 DEF CatalogInv, PurgeInv
  <2>1. CASE ScanDone
    <3>1. UNCHANGED rows
      BY <2>1 DEF ScanDone, stores
    <3>2. known[p] \in Live(p) /\ known'[p] \in Live(p)
      BY <1>1, <2>0, <3>1 DEF CatalogOf, KnownLive, Live
    <3> QED
      BY <2>0, <3>2 DEF OneLive, Live
  <2>2. ASSUME NEW d \in Dirs, NEW package \in Package \cup {None}, Edit(d, package)
        PROVE  known'[p] = known[p]
    BY <1>1, <2>2 DEF Edit
  <2>3. ASSUME NEW r \in Requests, Index(r) PROVE known'[p] = known[p]
    <3>1. p # req[r].plugin
      BY <1>1, <2>0, <2>3 DEF Index, At, CatalogOf, Landings, Landing, Landed
    <3> QED
      BY <2>0, <2>3, <3>1 DEF Index, KnownTypes
  <2>4. ASSUME NEW r \in Requests, Rename(r) \/ RemoveDir(r) \/ Tombstone(r)
        PROVE  known'[p] = known[p]
    BY <1>1, <2>0, <2>4 DEF Rename, RemoveDir, Tombstone, KnownTypes
  <2> QED
    BY <1>1, <2>1, <2>2, <2>3, <2>4, KnownChanges
<1>2. CatalogInv /\ CatalogInv' /\ [Next]_vars =>
        [\A p \in Plugins : known[p] # None /\ known'[p] # None => known'[p] = known[p]]_vars
  BY <1>1
<1> QED
  BY <1>2, CatalogInvariant, PTL DEF Spec, IdentityKept
===============================================================================
