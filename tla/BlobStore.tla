------------------------------ MODULE BlobStore ------------------------------
(***************************************************************************)
(* The blob store (state/blobs.rs) of one instance of one installation:    *)
(* bytes in files, an index and its accounting in the database, kept       *)
(* together by the order of the steps only.                                *)
(*                                                                         *)
(* A blob is the id that its write mints, so a file's content is its id.   *)
(* A step is one critical section of the connection's mutex (Db::read,     *)
(* Db::write) or one filesystem call.  What fails, fails in that step: a   *)
(* crash of the process may come between any two, a power loss also takes  *)
(* commits that the write-ahead log has not synced (synchronous = NORMAL), *)
(* and unlinks, renames and new directories that no fsync_dir of the       *)
(* directory they are in has followed.                                     *)
(*                                                                         *)
(* Abstracted: path checks, mime types, and the sizes of files.            *)
(***************************************************************************)
EXTENDS Integers, FiniteSets, Functions

CONSTANTS Writers,     \* calls of write and delete that may be in flight
          Readers,     \* calls of read, read_by_name and read_with_info
          Names, Sizes, Quotas,
          MaxBlobs,    \* bound: ids minted
          MaxFaults,   \* bound: crashes and power losses
          None

Dirs == {"installation", "instance"}   \* the second is in the first
Blobs == 1..MaxBlobs
NoBlob == 0

ASSUME BlobAssumption ==
  /\ MaxBlobs \in Nat
  /\ MaxFaults \in Nat
  /\ Sizes \subseteq Nat
  /\ Quotas \subseteq Nat
  /\ None \notin Writers
  /\ None \notin [used : Int, quota : Int]

VARIABLES
  row,       \* table blob: name to the id of its row
  usage,     \* the instance's row of blob_usage
  tmp,       \* files under <instance_dir>/.tmp
  files,     \* files in instance_dir
  dirs,      \* install_dir and instance_dir: there, and durably so
  fresh,     \* per writer: which of the two its write has to fsync
  size,      \* size_bytes of every id minted
  minted,    \* ids minted so far
  conn,      \* the writer whose transaction holds the connection
  writer,    \* per writer: step, name, id, and the id it replaces or deletes
  reader,    \* per reader: step, call, id, and an error it was told
  loaded,    \* an instance of the installation is supervised
  purging,   \* purge_installation is between its rows and its files
  unsynced,  \* earlier states of the database a power loss may restore
  unlinked,  \* unlinked ids that no fsync of the directory has followed
  faults,    \* crashes and power losses so far
  undone,    \* history: what a power loss took back, a commit or a directory
  littered   \* history: a file may be left over by a crash or a failed call

dbVars == <<row, usage, unsynced>>
fsVars == <<tmp, files, unlinked, dirs, fresh>>
historyVars == <<faults, undone, littered>>
engineVars == <<loaded, purging>>
vars == <<dbVars, fsVars, size, minted, conn, writer, reader, engineVars, historyVars>>

Idle == [step |-> "idle", name |-> None, id |-> NoBlob, old |-> NoBlob]
Ready == [step |-> "ready", call |-> None, id |-> NoBlob, got |-> "nothing"]

Init ==
  /\ row = [n \in Names |-> NoBlob]
  /\ usage = None
  /\ tmp = {} /\ files = {} /\ unlinked = {}
  /\ dirs = [d \in Dirs |-> "none"]
  /\ fresh = [w \in Writers |-> {}]
  /\ size = [b \in Blobs |-> 0]
  /\ minted = 0
  /\ conn = None
  /\ writer = [w \in Writers |-> Idle]
  /\ reader = [r \in Readers |-> Ready]
  /\ loaded = FALSE /\ purging = FALSE
  /\ unsynced = {}
  /\ faults = 0 /\ undone = {} /\ littered = FALSE

Indexed == {row[n] : n \in Names} \ {NoBlob}
SizeOf(b) == IF b = NoBlob THEN 0 ELSE size[b]
DbFree == conn = None

(* A transaction commits: what it replaces is what a power loss restores.  *)
Commits(newRow, newUsage) ==
  /\ row' = newRow
  /\ usage' = newUsage
  /\ unsynced' = unsynced \cup {[row |-> row, usage |-> usage]}

Goto(w, step) == writer' = [writer EXCEPT ![w].step = step]
Done(w) == writer' = [writer EXCEPT ![w] = Idle]

(* std::fs::remove_file, best effort: the caller ignores a failure.        *)
Unlinks(b) ==
  \/ files' = files \ {b} /\ unlinked' = unlinked \cup (files \cap {b})
     /\ UNCHANGED littered
  \/ littered' = TRUE /\ UNCHANGED <<files, unlinked>>

-----------------------------------------------------------------------------
(* write.                                                                  *)

Makes(ds) ==
  dirs' = [d \in Dirs |-> IF d \in ds /\ dirs[d] = "none" THEN "made" ELSE dirs[d]]
Syncs(ds) == dirs' = [d \in Dirs |-> IF d \in ds THEN "durable" ELSE dirs[d]]

(* Which directories are new is looked up first ...                        *)
FindDirs(w) ==
  /\ writer[w].step = "idle"
  /\ loaded
  /\ minted < MaxBlobs
  /\ \E d \in Dirs : dirs[d] = "none"
  /\ fresh' = [fresh EXCEPT ![w] = {d \in Dirs : dirs[d] = "none"}]
  /\ Goto(w, "missing")
  /\ UNCHANGED <<dbVars, tmp, files, unlinked, dirs, size, minted, conn, reader, engineVars,
                 historyVars>>

(* ... then they are made, create_dir_all does not mind who was first ...  *)
MakeDirs(w) ==
  /\ writer[w].step = "missing"
  /\ Makes(Dirs)
  /\ Goto(w, "made")
  /\ UNCHANGED <<dbVars, tmp, files, unlinked, fresh, size, minted, conn, reader, engineVars,
                 historyVars>>

(* ... and the parents of those that were new are fsynced, by this call.   *)
SyncDirs(w) ==
  /\ writer[w].step = "made"
  /\ Syncs(fresh[w])
  /\ fresh' = [fresh EXCEPT ![w] = {}]
  /\ Goto(w, "ready")
  /\ UNCHANGED <<dbVars, tmp, files, unlinked, size, minted, conn, reader, engineVars,
                 historyVars>>

(* The early returns of these and of the staging; what was made stays.     *)
DirsFail(w) ==
  /\ \/ writer[w].step = "missing" /\ (UNCHANGED dirs \/ Makes({"installation"}))
     \/ writer[w].step = "made" /\ (UNCHANGED dirs \/ Syncs(fresh[w] \cap {"installation"}))
     \/ writer[w].step = "ready" /\ UNCHANGED dirs
  /\ fresh' = [fresh EXCEPT ![w] = {}]
  /\ Done(w)
  /\ UNCHANGED <<dbVars, tmp, files, unlinked, size, minted, conn, reader, engineVars,
                 historyVars>>

(* A fresh id, the bytes under .tmp.  The early return of a failed         *)
(* write_and_fsync leaves what it wrote.                                   *)
Stage(w, n, s) ==
  /\ \/ writer[w].step = "ready"
     \/ writer[w].step = "idle" /\ \A d \in Dirs : dirs[d] # "none"
  /\ loaded
  /\ minted < MaxBlobs
  /\ minted' = minted + 1
  /\ size' = [size EXCEPT ![minted'] = s]
  /\ tmp' = tmp \cup {minted'}
  /\ \/ writer' = [writer EXCEPT ![w] =
                     [step |-> "staged", name |-> n, id |-> minted', old |-> NoBlob]]
        /\ UNCHANGED littered
     \/ littered' = TRUE /\ Done(w)
  /\ UNCHANGED <<dbVars, files, unlinked, dirs, fresh, conn, reader, engineVars, faults,
                 undone>>

(* Mutant: the bytes in use are not counted.                               *)
Projected_NewOnly(w) == SizeOf(writer[w].id)

(* What the instance would use; the bytes of the old version are refunded. *)
Projected(w) ==
  usage.used - SizeOf(row[writer[w].name]) + SizeOf(writer[w].id)

(* BEGIN IMMEDIATE, the quota check, DELETE and INSERT: nobody else sees   *)
(* them before the commit.                                                 *)
Admit(w) ==
  /\ writer[w].step = "staged" /\ DbFree
  /\ usage # None /\ Projected(w) <= usage.quota
  /\ conn' = w
  /\ writer' = [writer EXCEPT ![w].step = "admitted", ![w].old = row[writer[w].name]]
  /\ UNCHANGED <<dbVars, fsVars, size, minted, reader, engineVars, historyVars>>

(* UnregisteredInstance, QuotaExceeded, or an error of SQLite.             *)
Refuse(w) ==
  /\ writer[w].step = "staged" /\ DbFree
  /\ Goto(w, "unstage")
  /\ UNCHANGED <<dbVars, fsVars, size, minted, conn, reader, engineVars, historyVars>>

(* The rename, inside the transaction.                                     *)
Rename(w) ==
  /\ writer[w].step = "admitted"
  /\ tmp' = tmp \ {writer[w].id}
  /\ files' = files \cup {writer[w].id}
  /\ Goto(w, "renamed")
  /\ UNCHANGED <<dbVars, unlinked, dirs, fresh, size, minted, conn, reader, engineVars,
                 historyVars>>

(* Dropping the transaction rolls it back.                                 *)
RenameFails(w) ==
  /\ writer[w].step = "admitted"
  /\ conn' = None
  /\ Goto(w, "unstage")
  /\ UNCHANGED <<dbVars, fsVars, size, minted, reader, engineVars, historyVars>>

(* fsync_dir, which settles every earlier unlink too.                      *)
Fsync(w) ==
  /\ writer[w].step = "renamed"
  /\ unlinked' = {}
  /\ Goto(w, "synced")
  /\ UNCHANGED <<dbVars, tmp, files, dirs, fresh, size, minted, conn, reader, engineVars,
                 historyVars>>

(* Its failure returns as any other error does: the cleanup looks under    *)
(* .tmp, where the file no longer is.                                      *)
FsyncFails(w) ==
  /\ writer[w].step = "renamed"
  /\ conn' = None
  /\ littered' = TRUE
  /\ Goto(w, "unstage")
  /\ UNCHANGED <<dbVars, fsVars, size, minted, reader, engineVars, faults, undone>>

(* Mutant: the refund of the old version is forgotten.                     *)
Charged_NoRefund(w) == usage.used + SizeOf(writer[w].id)

(* The triggers on DELETE and INSERT.                                      *)
Charged(w) == usage.used - SizeOf(writer[w].old) + SizeOf(writer[w].id)

Commit(w) ==
  /\ writer[w].step = "synced"
  /\ Commits([row EXCEPT ![writer[w].name] = writer[w].id],
             [used |-> Charged(w), quota |-> usage.quota])
  /\ conn' = None
  /\ Goto(w, "committed")
  /\ UNCHANGED <<fsVars, size, minted, reader, engineVars, historyVars>>

(* Mutant: the outcome of the commit is not told apart.                    *)
CommitFails_AsCommitted(w) ==
  /\ writer[w].step = "synced"
  /\ conn' = None
  /\ Goto(w, "committed")
  /\ UNCHANGED <<dbVars, fsVars, size, minted, reader, engineVars, historyVars>>

(* Mutant: an error is an error, the staged file is cleaned up.            *)
CommitFails_AsError(w) ==
  /\ writer[w].step = "synced"
  /\ conn' = None
  /\ Goto(w, "unstage")
  /\ UNCHANGED <<dbVars, fsVars, size, minted, reader, engineVars, historyVars>>

(* CommitFailedAfterRename.                                                *)
CommitFails(w) ==
  /\ writer[w].step = "synced"
  /\ conn' = None
  /\ Goto(w, "undo")
  /\ UNCHANGED <<dbVars, fsVars, size, minted, reader, engineVars, historyVars>>

(* finalize_write_outcome, outside the mutex: the version that was         *)
(* replaced, the orphan of a failed commit, or the staged file goes.       *)
FinalizeCommitted(w) ==
  /\ writer[w].step = "committed"
  /\ Unlinks(writer[w].old)
  /\ Done(w)
  /\ UNCHANGED <<dbVars, tmp, dirs, fresh, size, minted, conn, reader, engineVars, faults,
                 undone>>

FinalizeOrphan(w) ==
  /\ writer[w].step = "undo"
  /\ Unlinks(writer[w].id)
  /\ Done(w)
  /\ UNCHANGED <<dbVars, tmp, dirs, fresh, size, minted, conn, reader, engineVars, faults,
                 undone>>

FinalizeStaged(w) ==
  /\ writer[w].step = "unstage"
  /\ \/ tmp' = tmp \ {writer[w].id} /\ UNCHANGED littered
     \/ littered' = TRUE /\ UNCHANGED tmp
  /\ Done(w)
  /\ UNCHANGED <<dbVars, files, unlinked, dirs, fresh, size, minted, conn, reader, engineVars,
                 faults, undone>>

-----------------------------------------------------------------------------
(* delete.                                                                 *)

(* Its transaction: the row goes and the trigger refunds its bytes.        *)
Delete(w, n) ==
  /\ writer[w].step = "idle" /\ DbFree
  /\ loaded
  /\ row[n] # NoBlob
  /\ Commits([row EXCEPT ![n] = NoBlob],
             IF usage = None THEN None
             ELSE [used |-> usage.used - SizeOf(row[n]), quota |-> usage.quota])
  /\ writer' = [writer EXCEPT ![w] =
                  [step |-> "deleted", name |-> n, id |-> NoBlob, old |-> row[n]]]
  /\ UNCHANGED <<fsVars, size, minted, conn, reader, engineVars, historyVars>>

(* Then the file, and an fsync of the directory.                           *)
Unlink(w) ==
  /\ writer[w].step = "deleted"
  /\ Unlinks(writer[w].old)
  /\ Goto(w, "sync_unlink")
  /\ UNCHANGED <<dbVars, tmp, dirs, fresh, size, minted, conn, reader, engineVars, faults,
                 undone>>

SyncUnlink(w) ==
  /\ writer[w].step = "sync_unlink"
  /\ unlinked' \in {unlinked, {}}
  /\ Done(w)
  /\ UNCHANGED <<dbVars, tmp, files, dirs, fresh, size, minted, conn, reader, engineVars,
                 historyVars>>

-----------------------------------------------------------------------------
(* The readers.                                                            *)

Returns(r, call, b) ==
  reader' = [reader EXCEPT ![r] =
               IF b \in files THEN Ready
               ELSE [step |-> "ready", call |-> call, id |-> b, got |-> "io"]]

Opening(r, call, n) ==
  /\ reader[r].step = "ready" /\ DbFree
  /\ row[n] # NoBlob
  /\ reader' = [reader EXCEPT ![r] =
                  [step |-> "open", call |-> call, id |-> row[n], got |-> "nothing"]]
  /\ UNCHANGED <<dbVars, fsVars, size, minted, conn, writer, engineVars, historyVars>>

(* read and read_by_name: the row first ...                                *)
LookUp(r, n) == Opening(r, "read", n)

(* ... and the file after the mutex was released.                          *)
ReadFile(r) ==
  /\ reader[r].step = "open"
  /\ Returns(r, reader[r].call, reader[r].id)
  /\ UNCHANGED <<dbVars, fsVars, size, minted, conn, writer, engineVars, historyVars>>

(* Mutant: the file is opened once the mutex is released.                  *)
ReadWithInfo_OpensLater(r, n) == Opening(r, "read_with_info", n)

(* read_with_info opens under the mutex; an open file keeps its bytes.     *)
ReadWithInfo(r, n) ==
  /\ reader[r].step = "ready" /\ DbFree
  /\ row[n] # NoBlob
  /\ Returns(r, "read_with_info", row[n])
  /\ UNCHANGED <<dbVars, fsVars, size, minted, conn, writer, engineVars, historyVars>>

-----------------------------------------------------------------------------
(* The engine: a life of the instance, and an uninstall.                   *)

(* register_instance, on every load: a new quota, the same bytes used.     *)
Load(quota) ==
  /\ ~loaded /\ ~purging /\ DbFree
  /\ loaded' = TRUE
  /\ Commits(row, [used |-> IF usage = None THEN 0 ELSE usage.used, quota |-> quota])
  /\ UNCHANGED <<fsVars, size, minted, conn, writer, reader, purging, historyVars>>

(* The supervisor is gone, so no call of its guest is under way.           *)
Unload ==
  /\ loaded
  /\ \A w \in Writers : writer[w] = Idle
  /\ loaded' = FALSE
  /\ UNCHANGED <<dbVars, fsVars, size, minted, conn, writer, reader, purging, historyVars>>

(* purge_installation, under the plugin's lifecycle lock: the rows ...     *)
PurgeRows ==
  /\ ~loaded /\ ~purging /\ DbFree
  /\ Commits([n \in Names |-> NoBlob], None)
  /\ purging' = TRUE
  /\ UNCHANGED <<fsVars, size, minted, conn, writer, reader, loaded, historyVars>>

(* ... then the directory tree, and an fsync of the root, unless the tree  *)
(* is gone already.                                                        *)
PurgeFiles ==
  /\ purging
  /\ purging' = FALSE
  /\ files' = {} /\ tmp' = {}
  /\ dirs' = [d \in Dirs |-> "none"]
  /\ unlinked' = IF dirs["installation"] = "none" THEN unlinked ELSE {}
  /\ UNCHANGED <<dbVars, fresh, size, minted, conn, writer, reader, loaded, historyVars>>

(* remove_dir_all stops half-way, or the fsync fails.                      *)
PurgeFilesFails ==
  /\ purging
  /\ dirs["installation"] # "none"
  /\ purging' = FALSE
  /\ \/ files' \in SUBSET files /\ tmp' \in {tmp, {}} /\ UNCHANGED dirs
     \/ files' = {} /\ tmp' = {}
        /\ dirs' \in {[dirs EXCEPT !["instance"] = "none"], [d \in Dirs |-> "none"]}
  /\ unlinked' = unlinked \cup (files \ files')
  /\ littered' = TRUE
  /\ UNCHANGED <<dbVars, fresh, size, minted, conn, writer, reader, loaded, faults, undone>>

(* The write-ahead log is checkpointed, which syncs it.                    *)
Checkpoint ==
  /\ DbFree
  /\ unsynced # {}
  /\ unsynced' = {}
  /\ UNCHANGED <<row, usage, fsVars, size, minted, conn, writer, reader, engineVars,
                 historyVars>>

-----------------------------------------------------------------------------
(* Faults.                                                                 *)

Reboots ==
  /\ faults < MaxFaults
  /\ faults' = faults + 1
  /\ littered' = TRUE
  /\ writer' = [w \in Writers |-> Idle]
  /\ reader' = [r \in Readers |-> Ready]
  /\ fresh' = [w \in Writers |-> {}]
  /\ conn' = None
  /\ loaded' = FALSE /\ purging' = FALSE

(* The process dies: an open transaction is rolled back.                   *)
Crash ==
  /\ Reboots
  /\ UNCHANGED <<dbVars, tmp, files, unlinked, dirs, size, minted, undone>>

(* What goes with a directory.                                             *)
Tree(d) == IF d = "installation" THEN Dirs ELSE {"instance"}

(* The machine dies: unsynced commits may be gone, unsynced unlinks too,   *)
(* a rename that was not synced may have gone back, and a directory whose  *)
(* parent was not synced may be gone with all that is in it.               *)
PowerLoss ==
  /\ Reboots
  /\ \E db \in unsynced \cup {[row |-> row, usage |-> usage]},
        lost \in {{}} \cup {Tree(d) : d \in {e \in Dirs : dirs[e] = "made"}},
        back \in SUBSET unlinked,
        gone \in SUBSET {writer[w].id : w \in {x \in Writers : writer[x].step = "renamed"}} :
       /\ row' = db.row /\ usage' = db.usage
       /\ files' = IF lost = {} THEN (files \cup back) \ gone ELSE {}
       /\ tmp' = IF lost = {} THEN tmp \cup gone ELSE {}
       /\ dirs' = [d \in Dirs |-> IF d \in lost \/ (dirs[d] = "none" /\ back = {})
                                  THEN "none" ELSE "durable"]
       /\ undone' = undone
            \cup (IF db = [row |-> row, usage |-> usage] THEN {} ELSE {"commit"})
            \cup (IF lost = {} \/ files = {} THEN {} ELSE {"directory"})
  /\ unsynced' = {} /\ unlinked' = {}
  /\ UNCHANGED <<size, minted>>

-----------------------------------------------------------------------------
Writing(w) ==
  \/ FindDirs(w) \/ MakeDirs(w) \/ SyncDirs(w) \/ DirsFail(w)
  \/ \E n \in Names, s \in Sizes : Stage(w, n, s)
  \/ Admit(w) \/ Refuse(w)
  \/ Rename(w) \/ RenameFails(w) \/ Fsync(w) \/ FsyncFails(w)
  \/ Commit(w) \/ CommitFails(w)
  \/ FinalizeCommitted(w) \/ FinalizeOrphan(w) \/ FinalizeStaged(w)
  \/ (\E n \in Names : Delete(w, n)) \/ Unlink(w) \/ SyncUnlink(w)
Reading(r) ==
  \/ \E n \in Names : LookUp(r, n) \/ ReadWithInfo(r, n)
  \/ ReadFile(r)
Hosting ==
  \/ \E q \in Quotas : Load(q)
  \/ Unload \/ PurgeRows \/ PurgeFiles \/ PurgeFilesFails \/ Checkpoint

Next ==
  \/ \E w \in Writers : Writing(w)
  \/ \E r \in Readers : Reading(r)
  \/ Hosting \/ Crash \/ PowerLoss

Spec == Init /\ [][Next]_vars

-----------------------------------------------------------------------------
(* Properties.                                                             *)

(* The state is well formed, no two names share a blob, bytes_used is the  *)
(* sum of what the index holds, as the triggers keep it, and files are in  *)
(* directories that are there.                                             *)
BlobsTypeOK ==
  /\ row \in [Names -> Blobs \cup {NoBlob}]
  /\ tmp \cup files \cup unlinked \subseteq 1..minted
  /\ minted \in 0..MaxBlobs
  /\ conn \in Writers \cup {None}
  /\ \A n, m \in Names : row[n] = row[m] /\ n # m => row[n] = NoBlob
  /\ usage = None => Indexed = {}
  /\ usage # None =>
       usage.quota \in Quotas /\ usage.used = SumFunctionOnSet(size, Indexed)
  /\ dirs \in [Dirs -> {"none", "made", "durable"}]
  /\ tmp \cup files # {} => \A d \in Dirs : dirs[d] # "none"

(* No commit takes an instance over its quota, with any number of writes   *)
(* in flight; only a reload with a smaller quota leaves it there, or a     *)
(* power loss that takes commits back.                                     *)
QuotaKept ==
  [][usage # None /\ usage' # None /\ usage'.used > usage.used =>
       usage'.used <= usage'.quota \/ faults' # faults]_vars

(* A row never points at a missing file: not while its blob is replaced or *)
(* deleted, not when a step of that fails, and not after a crash of the    *)
(* process, whatever a power loss then takes; unless one has taken back a  *)
(* commit, or the directory, which the call that made it fsyncs and not    *)
(* the one that commits a row.                                             *)
RowHasFile == undone = {} => Indexed \subseteq files

(* The order of the steps is for that, the comments say, over a crash that *)
(* loses what was not synced.  Violated: the commit of a delete, or of an  *)
(* overwrite, is not synced when the old file goes.  That is apart from    *)
(* the directory, which may go too.                                        *)
RowHasFileDurably == "directory" \notin undone => Indexed \subseteq files

(* Without a crash and without a failed fsync, unlink or staging, every    *)
(* file is one of the index once the calls have returned, whatever commits *)
(* and renames failed.                                                     *)
NothingOrphaned ==
  ~littered /\ ~purging /\ (\A w \in Writers : writer[w] = Idle) =>
    files = Indexed /\ tmp = {}

(* read_with_info answers with the bytes of the row it read, and the other *)
(* reads fail only if their blob was replaced or deleted since.            *)
ReadsAnswered ==
  undone = {} => \A r \in Readers : reader[r].got = "io" =>
    reader[r].call # "read_with_info" /\ reader[r].id \notin Indexed
=============================================================================
