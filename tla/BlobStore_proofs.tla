--------------------------- MODULE BlobStore_proofs ---------------------------
(***************************************************************************)
(* The index, the files and the quota of a blob store stay together, for   *)
(* any number of calls, names, sizes and faults.  The invariant says who   *)
(* holds the connection and what the quota check promised him, that an id  *)
(* is in one place only (the index, a write on its way, or a call that     *)
(* drops it), and where its file is meanwhile.  The index and bytes_used   *)
(* agree in every state of the database that a power loss may restore.     *)
(***************************************************************************)
EXTENDS BlobStore, FiniteSetTheorems, WellFoundedInduction, TLAPS

Steps == {"idle", "missing", "made", "ready", "staged", "admitted", "renamed", "synced", "unstage", "undo",
          "committed", "deleted", "sync_unlink"}
Holding == {"admitted", "renamed", "synced"}
Carrying == Holding \cup {"staged", "undo"}
Dropping == {"committed", "deleted"}

Ids == 0..MaxBlobs
Rows == [Names -> Ids]
Usages == [used : Int, quota : Int] \cup {None}
Calls == [step : Steps, name : Names \cup {None}, id : Ids, old : Ids]
Reads == [step : {"ready", "open"}, call : {"read", "read_with_info", None}, id : Ids,
          got : {"nothing", "io"}]

Types ==
  /\ minted \in Ids /\ faults \in Nat
  /\ row \in Rows
  /\ usage \in Usages
  /\ unsynced \subseteq [row : Rows, usage : Usages]
  /\ size \in [Blobs -> Nat]
  /\ conn \in Writers \cup {None}
  /\ writer \in [Writers -> Calls]
  /\ reader \in [Readers -> Reads]

(* No id is ahead of the counter, so a fresh one is nowhere yet.           *)
Minted ==
  /\ \A n \in Names : row[n] <= minted
  /\ \A db \in unsynced, n \in Names : db.row[n] <= minted
  /\ \A w \in Writers : writer[w].id <= minted /\ writer[w].old <= minted
  /\ \A r \in Readers : reader[r].id <= minted

(* The connection has one holder; what it was promised stays true.         *)
Transactions ==
  \A w \in Writers :
    /\ writer[w].step # "idle" => loaded
    /\ writer[w].step \in Carrying => writer[w].name \in Names /\ writer[w].id # NoBlob
    /\ writer[w].step \in Holding =>
         /\ conn = w
         /\ writer[w].old = row[writer[w].name]
         /\ usage # None /\ Charged(w) <= usage.quota

(* An id is in the index once, or carried by one write, or dropped.        *)
Distinct ==
  /\ \A n, m \in Names : row[n] = row[m] /\ n # m => row[n] = NoBlob
  /\ \A w \in Writers : writer[w].step \in Carrying => writer[w].id \notin Indexed
  /\ \A w \in Writers : writer[w].step \in Dropping => writer[w].old \notin Indexed
  /\ \A w, v \in Writers : writer[w].step \in Carrying =>
       /\ writer[v].step \in Carrying /\ w # v => writer[v].id # writer[w].id
       /\ writer[v].step \in Dropping => writer[v].old # writer[w].id

(* Where the files are.                                                    *)
Placed ==
  /\ Indexed \subseteq files
  /\ \A w \in Writers : writer[w].step \in {"renamed", "synced"} => writer[w].id \in files
  /\ purging => Indexed = {}

(* What readers hold is no write's id, and what they missed is gone.       *)
Readings ==
  \A r \in Readers :
    /\ \A w \in Writers : writer[w].step \in Carrying => writer[w].id # reader[r].id
    /\ reader[r].step = "open" => reader[r].call = "read"
    /\ reader[r].got = "io" => reader[r].call = "read" /\ reader[r].id \notin Indexed

(* Every file belongs to the index or to a call.                           *)
Owned ==
  /\ undone # {} => littered
  /\ ~littered /\ ~purging =>
       /\ \A b \in files : \/ b \in Indexed
                           \/ \E w \in Writers : \/ writer[w].step \in {"renamed", "synced", "undo"}
                                                    /\ writer[w].id = b
                                                 \/ writer[w].step \in Dropping
                                                    /\ writer[w].old = b
       /\ \A b \in tmp : \E w \in Writers : /\ writer[w].step \in {"staged", "admitted", "unstage"}
                                            /\ writer[w].id = b

Engine == purging => ~loaded

BlobInv ==
  /\ Types /\ Minted /\ Transactions /\ Engine /\ Owned
  /\ undone = {} => Distinct /\ Placed /\ Readings

(* What the triggers keep up, of a state of the two tables: no two names   *)
(* share a blob, and bytes_used is the sum over the index.                 *)
IndexOf(r) == {r[n] : n \in Names} \ {NoBlob}
Balanced(r, u, sz) ==
  /\ \A n, m \in Names : r[n] = r[m] /\ n # m => r[n] = NoBlob
  /\ u = None => IndexOf(r) = {}
  /\ u # None => u.quota \in Quotas /\ u.used = SumFunctionOnSet(sz, IndexOf(r))

(* They keep it up in every state a power loss may go back to; Distinct    *)
(* in what it says of writes on their way, with no exception for one.      *)
Accounted ==
  /\ Balanced(row, usage, size)
  /\ \A db \in unsynced : Balanced(db.row, db.usage, size)
  /\ \A w \in Writers : writer[w].step \in Carrying => writer[w].id \notin Indexed
  /\ \A w, v \in Writers :
       writer[w].step \in Carrying /\ writer[v].step \in Carrying /\ w # v =>
         writer[v].id # writer[w].id
  /\ tmp \cup files \cup unlinked \subseteq 1..minted

-----------------------------------------------------------------------------
(* The types.                                                              *)
LEMMA IdleTypes == Idle \in Calls /\ Ready \in Reads
  BY BlobAssumption DEF Idle, Ready, Calls, Reads, Steps, Ids, NoBlob

LEMMA TypesStep == ASSUME BlobInv, [Next]_vars PROVE Types'
<1> SUFFICES ASSUME Types PROVE Types'
  BY DEF BlobInv
<1> USE BlobAssumption DEF Types, Blobs, NoBlob, Ids, historyVars
<1>1. CASE UNCHANGED vars
  BY <1>1 DEF vars, dbVars, fsVars, engineVars, historyVars
<1>2. ASSUME NEW w \in Writers, NEW n \in Names, NEW s \in Sizes, Stage(w, n, s) PROVE Types'
  <2>1. minted' \in Ids /\ minted' = minted + 1 /\ size' \in [Blobs -> Nat]
    <3>1. minted < MaxBlobs /\ minted' = minted + 1 /\ size' = [size EXCEPT ![minted'] = s]
      BY <1>2 DEF Stage
    <3> QED
      BY <3>1
  <2>2. [step |-> "staged", name |-> n, id |-> minted', old |-> NoBlob] \in Calls
    BY <2>1 DEF Calls, Steps
  <2>3. writer' \in [Writers -> Calls]
    BY <1>2, <2>2, IdleTypes DEF Stage, Done
  <2> QED
    BY <1>2, <2>1, <2>3 DEF Stage, dbVars
<1>3. ASSUME NEW w \in Writers, Commit(w) PROVE Types'
  <2>1. usage # None /\ writer[w].name \in Names
    BY <1>3 DEF BlobInv, Commit, Transactions, Holding, Carrying
  <2>2. row' \in Rows
    BY <1>3, <2>1 DEF Commit, Commits, Rows, Calls
  <2>3. Charged(w) \in Int
    BY <2>1 DEF Charged, Usages, SizeOf, Calls
  <2>4. usage' \in Usages
    BY <1>3, <2>1, <2>3 DEF Commit, Commits, Usages
  <2>5. writer' \in [Writers -> Calls]
    BY <1>3 DEF Commit, Goto, Calls, Steps
  <2> QED
    BY <1>3, <2>2, <2>4, <2>5 DEF Commit, Commits
<1>4. ASSUME NEW w \in Writers,
             \/ Admit(w) \/ Refuse(w) \/ Rename(w) \/ RenameFails(w) \/ Fsync(w) \/ FsyncFails(w)
             \/ CommitFails(w) \/ FindDirs(w) \/ MakeDirs(w) \/ SyncDirs(w)
      PROVE  Types'
  <2>1. CASE Admit(w)
    <3>1. writer[w].name \in Names
      BY <2>1 DEF BlobInv, Admit, Transactions, Carrying
    <3>2. row[writer[w].name] \in Ids
      BY <3>1 DEF Rows
    <3>3. writer' \in [Writers -> Calls]
      BY ZenonT(30), <2>1, <3>2 DEF Admit, Calls, Steps
    <3> QED
      BY <2>1, <3>3 DEF Admit, dbVars
  <2>2. ASSUME NEW s \in Steps, Goto(w, s) PROVE writer' \in [Writers -> Calls]
    BY <2>2 DEF Goto, Calls
  <2>3. CASE ~Admit(w)
    <3>1. writer' \in [Writers -> Calls]
      BY <1>4, <2>2, <2>3 DEF FindDirs, MakeDirs, SyncDirs, Refuse, Rename, RenameFails, Fsync, FsyncFails,
         CommitFails, Steps
    <3> QED
      BY <1>4, <2>3, <3>1 DEF FindDirs, MakeDirs, SyncDirs, Refuse, Rename, RenameFails, Fsync,
         FsyncFails, CommitFails, dbVars
  <2> QED
    BY <2>1, <2>3
<1>5. ASSUME NEW w \in Writers,
             \/ FinalizeCommitted(w) \/ FinalizeOrphan(w) \/ FinalizeStaged(w)
             \/ Unlink(w) \/ SyncUnlink(w) \/ DirsFail(w)
      PROVE  Types'
  <2>1. CASE FinalizeCommitted(w) \/ FinalizeOrphan(w) \/ FinalizeStaged(w) \/ SyncUnlink(w) \/ DirsFail(w)
    BY <2>1, IdleTypes DEF DirsFail, FinalizeCommitted, FinalizeOrphan, FinalizeStaged, SyncUnlink,
       Done, dbVars
  <2>2. CASE Unlink(w)
    BY <2>2 DEF Unlink, Goto, Calls, Steps, dbVars
  <2> QED
    BY <1>5, <2>1, <2>2
<1>6. ASSUME NEW w \in Writers, NEW n \in Names, Delete(w, n) PROVE Types'
  <2>1. usage' \in Usages
    BY <1>6 DEF Delete, Commits, SizeOf, Usages, Rows
  <2>2. row' \in Rows
    BY <1>6 DEF Delete, Commits, Rows
  <2>3. writer' \in [Writers -> Calls]
    BY <1>6 DEF Delete, Calls, Steps, Rows
  <2> QED
    BY <1>6, <2>1, <2>2, <2>3 DEF Delete, Commits
<1>7. ASSUME NEW r \in Readers, Reading(r) PROVE Types'
  <2>1. ASSUME NEW n \in Names, LookUp(r, n) \/ ReadWithInfo(r, n) PROVE Types'
    <3>1. row[n] \in Ids
      BY DEF Rows
    <3>2. /\ [step |-> "open", call |-> "read", id |-> row[n], got |-> "nothing"] \in Reads
          /\ [step |-> "ready", call |-> "read_with_info", id |-> row[n], got |-> "io"] \in Reads
      BY <3>1 DEF Reads
    <3>3. reader' \in [Readers -> Reads]
      BY <2>1, <3>2, IdleTypes DEF LookUp, ReadWithInfo, Opening, Returns
    <3> QED
      BY <2>1, <3>3 DEF LookUp, ReadWithInfo, Opening, dbVars
  <2>2. CASE ReadFile(r)
    BY <2>2, IdleTypes DEF ReadFile, Returns, Reads, dbVars
  <2> QED
    BY <1>7, <2>1, <2>2 DEF Reading
<1>8. CASE Hosting
  <2>1. ASSUME NEW q \in Quotas, Load(q) PROVE Types'
    BY <2>1 DEF Load, Commits, Usages
  <2>2. CASE PurgeRows
    BY <2>2 DEF PurgeRows, Commits, Usages, Rows
  <2> QED
    BY <1>8, <2>1, <2>2 DEF Hosting, Unload, PurgeFiles, PurgeFilesFails, Checkpoint, dbVars
<1>9. CASE Crash \/ PowerLoss
  BY <1>9, IdleTypes DEF Crash, PowerLoss, Reboots, dbVars
<1> QED
  BY <1>1, <1>2, <1>3, <1>4, <1>5, <1>6, <1>7, <1>8, <1>9 DEF Next, Writing

-----------------------------------------------------------------------------
(* What a step of a call leaves as it was.                                 *)
LEMMA GotoFields ==
  ASSUME Types, NEW w \in Writers, NEW s \in Steps, Goto(w, s)
  PROVE  /\ writer'[w].step = s /\ writer'[w].name = writer[w].name
         /\ writer'[w].id = writer[w].id /\ writer'[w].old = writer[w].old
         /\ \A v \in Writers : v # w => writer'[v] = writer[v]
  BY DEF Types, Goto, Calls

LEMMA DoneFields ==
  ASSUME Types, NEW w \in Writers, Done(w)
  PROVE  /\ writer'[w].step = "idle" /\ writer'[w].id = NoBlob /\ writer'[w].old = NoBlob
         /\ \A v \in Writers : v # w => writer'[v] = writer[v]
  BY DEF Types, Done, Idle

LEMMA StageFields ==
  ASSUME BlobInv, NEW w \in Writers, NEW n \in Names, NEW s \in Sizes, Stage(w, n, s)
  PROVE  /\ minted' = minted + 1 /\ minted' \in Blobs
         /\ \A b \in Ids : b <= minted => SizeOf(b)' = SizeOf(b)
         /\ \/ writer'[w] = Idle
            \/ writer'[w] = [step |-> "staged", name |-> n, id |-> minted', old |-> NoBlob]
         /\ \A v \in Writers : v # w => writer'[v] = writer[v]
  BY BlobAssumption DEF BlobInv, Types, Stage, Done, SizeOf, Blobs, Ids, NoBlob

LEMMA AdmitFields ==
  ASSUME BlobInv, NEW w \in Writers, Admit(w)
  PROVE  /\ writer'[w].step = "admitted" /\ writer'[w].name = writer[w].name
         /\ writer'[w].id = writer[w].id /\ writer'[w].old = row[writer[w].name]
         /\ \A v \in Writers : v # w => writer'[v] = writer[v]
  BY DEF BlobInv, Types, Admit, Calls

LEMMA DeleteFields ==
  ASSUME BlobInv, NEW w \in Writers, NEW n \in Names, Delete(w, n)
  PROVE  /\ writer'[w] = [step |-> "deleted", name |-> n, id |-> NoBlob, old |-> row[n]]
         /\ \A v \in Writers : v # w => writer'[v] = writer[v]
  BY DEF BlobInv, Types, Delete

Answered(r) ==
  \/ reader'[r] = Ready
  \/ \E n \in Names : /\ row[n] # NoBlob
                       /\ reader'[r] = [step |-> "open", call |-> "read",
                                        id |-> row[n], got |-> "nothing"]
  \/ \E n \in Names : /\ row[n] # NoBlob /\ row[n] \notin files
                       /\ reader'[r] = [step |-> "ready", call |-> "read_with_info",
                                        id |-> row[n], got |-> "io"]
  \/ /\ reader[r].step = "open" /\ reader[r].id \notin files
     /\ reader'[r] = [step |-> "ready", call |-> reader[r].call, id |-> reader[r].id, got |-> "io"]

LEMMA ReaderFields ==
  ASSUME BlobInv, NEW r \in Readers, Reading(r)
  PROVE  /\ \A q \in Readers : q # r => reader'[q] = reader[q]
         /\ Answered(r)
         /\ UNCHANGED <<dbVars, fsVars, size, minted, conn, writer, engineVars, historyVars>>
  BY DEF BlobInv, Types, Reading, LookUp, ReadWithInfo, ReadFile, Opening, Returns, Answered

-----------------------------------------------------------------------------
(* The parts of the invariant that hold through every power loss.          *)
LEMMA MintedStep == ASSUME BlobInv, [Next]_vars PROVE Minted'
<1> USE DEF Minted
<1> SUFFICES ASSUME Types, Minted PROVE Minted'
  BY DEF BlobInv
<1>1. CASE UNCHANGED vars
  BY <1>1 DEF vars, dbVars
<1>2. ASSUME NEW w \in Writers, NEW n \in Names, NEW s \in Sizes, Stage(w, n, s) PROVE Minted'
  <2>1. minted' = minted + 1 /\ minted \in Nat
    <3>1. minted' = minted + 1
      BY <1>2 DEF Stage
    <3> QED
      BY <3>1, BlobAssumption DEF Types, Ids
  <2>2. UNCHANGED <<row, unsynced, reader>>
    BY <1>2 DEF Stage, dbVars
  <2>3. /\ \A m \in Names : row[m] \in Nat
        /\ \A db \in unsynced, m \in Names : db.row[m] \in Nat
        /\ \A r \in Readers : reader[r].id \in Nat
        /\ \A v \in Writers : writer[v].id \in Nat /\ writer[v].old \in Nat
    BY BlobAssumption DEF Types, Rows, Reads, Calls, Ids
  <2>4. \A v \in Writers : v # w => writer'[v] = writer[v]
    BY <1>2, StageFields
  <2>5. writer'[w].id <= minted' /\ writer'[w].old <= minted'
    <3>1. \/ writer'[w] = Idle
          \/ writer'[w] = [step |-> "staged", name |-> n, id |-> minted', old |-> NoBlob]
      BY <1>2, StageFields
    <3> QED
      BY <2>1, <3>1 DEF NoBlob, Idle
  <2> QED
    BY <2>1, <2>2, <2>3, <2>4, <2>5
<1>3. ASSUME NEW w \in Writers, Commit(w) PROVE Minted'
  <2>1. \A v \in Writers : writer'[v].id = writer[v].id /\ writer'[v].old = writer[v].old
    BY <1>3, GotoFields DEF Commit, Steps
  <2>2. \A n \in Names : row'[n] <= minted
    BY <1>3 DEF Commit, Commits, Types, Rows
  <2>3. \A db \in unsynced', n \in Names : db.row[n] <= minted
    BY <1>3 DEF Commit, Commits
  <2> QED
    BY <1>3, <2>1, <2>2, <2>3 DEF Commit
<1>4. ASSUME NEW w \in Writers,
             \/ Refuse(w) \/ Rename(w) \/ RenameFails(w) \/ Fsync(w) \/ FsyncFails(w)
             \/ CommitFails(w) \/ Unlink(w) \/ FindDirs(w) \/ MakeDirs(w) \/ SyncDirs(w)
      PROVE  Minted'
  <2>1. \E s \in Steps : Goto(w, s)
    BY <1>4 DEF FindDirs, MakeDirs, SyncDirs, Refuse, Rename, RenameFails, Fsync, FsyncFails,
       CommitFails, Unlink, Steps
  <2>2. UNCHANGED <<row, unsynced, minted, reader>>
    BY <1>4 DEF FindDirs, MakeDirs, SyncDirs, Refuse, Rename, RenameFails, Fsync, FsyncFails,
       CommitFails, Unlink, dbVars
  <2>3. \A v \in Writers : writer'[v].id = writer[v].id /\ writer'[v].old = writer[v].old
    BY <2>1, GotoFields
  <2> QED
    BY <2>2, <2>3
<1>5. ASSUME NEW w \in Writers, Admit(w) PROVE Minted'
  <2>1. writer[w].name \in Names
    BY <1>5 DEF BlobInv, Admit, Transactions, Carrying
  <2>2. UNCHANGED <<row, unsynced, minted, reader>>
    BY <1>5 DEF Admit, dbVars
  <2> QED
    BY <1>5, <2>1, <2>2, AdmitFields
<1>6. ASSUME NEW w \in Writers,
             \/ FinalizeCommitted(w) \/ FinalizeOrphan(w) \/ FinalizeStaged(w) \/ SyncUnlink(w)
             \/ DirsFail(w)
      PROVE  Minted'
  <2>1. UNCHANGED <<row, unsynced, minted, reader>> /\ Done(w)
    BY <1>6 DEF DirsFail, FinalizeCommitted, FinalizeOrphan, FinalizeStaged, SyncUnlink, dbVars
  <2> QED
    BY <2>1, DoneFields, BlobAssumption DEF Types, Ids, NoBlob
<1>7. ASSUME NEW w \in Writers, NEW n \in Names, Delete(w, n) PROVE Minted'
  <2>1. \A m \in Names : row'[m] <= minted
    BY <1>7, BlobAssumption DEF Delete, Commits, Types, Rows, Ids, NoBlob
  <2>2. \A db \in unsynced', m \in Names : db.row[m] <= minted
    BY <1>7 DEF Delete, Commits
  <2>3. \A v \in Writers : writer'[v].id <= minted /\ writer'[v].old <= minted
    <3>1. writer'[w].id <= minted /\ writer'[w].old <= minted
      <4>1. writer'[w] = [step |-> "deleted", name |-> n, id |-> NoBlob, old |-> row[n]]
        BY <1>7, DeleteFields
      <4> QED
        BY <4>1, BlobAssumption DEF Types, Ids, NoBlob
    <3> QED
      BY <1>7, <3>1, DeleteFields
  <2> QED
    BY <1>7, <2>1, <2>2, <2>3 DEF Delete
<1>8. ASSUME NEW r \in Readers, Reading(r) PROVE Minted'
  <2>1. UNCHANGED <<row, unsynced, minted, writer>> /\ minted >= 0
    <3>1. UNCHANGED <<dbVars, minted, writer>>
      BY <1>8, ReaderFields
    <3> QED
      BY <3>1, BlobAssumption DEF Types, Ids, dbVars
  <2>2. reader'[r].id <= minted
    <3>1. Answered(r)
      BY <1>8, ReaderFields
    <3> QED
      <4>1. CASE reader'[r] = Ready
        BY <2>1, <4>1 DEF NoBlob, Ready
      <4>2. ASSUME NEW b, b <= minted, NEW step, NEW call, NEW got,
                   reader'[r] = [step |-> step, call |-> call, id |-> b, got |-> got]
            PROVE  reader'[r].id <= minted
        BY <4>2
      <4> QED
        BY <3>1, <4>1, <4>2 DEF Answered
  <2>3. \A q \in Readers : q # r => reader'[q] = reader[q]
    BY <1>8, ReaderFields
  <2> QED
    BY <2>1, <2>2, <2>3
<1>9. CASE Hosting
  <2>1. UNCHANGED <<minted, writer, reader>>
    BY <1>9 DEF Hosting, Load, Unload, PurgeRows, PurgeFiles, PurgeFilesFails, Checkpoint
  <2>2. \A n \in Names : row'[n] <= minted
    BY <1>9, BlobAssumption DEF Hosting, Load, Unload, PurgeRows, PurgeFiles, PurgeFilesFails, Checkpoint,
       Commits, dbVars, Types, Ids, NoBlob
  <2>3. unsynced' = unsynced \/ unsynced' = {} \/ unsynced' = unsynced \cup {[row |-> row, usage |-> usage]}
    BY <1>9 DEF Hosting, Load, Unload, PurgeRows, PurgeFiles, PurgeFilesFails, Checkpoint, Commits, dbVars
  <2> QED
    BY <2>1, <2>2, <2>3
<1>10. CASE Crash \/ PowerLoss
  <2>1. /\ \A w \in Writers : writer'[w] = Idle
        /\ \A r \in Readers : reader'[r] = Ready
        /\ minted' = minted /\ minted \in Nat
    BY <1>10, BlobAssumption DEF Crash, PowerLoss, Reboots, Types, Ids
  <2>2. row' = row \/ \E db \in unsynced : row' = db.row
    BY <1>10 DEF Crash, PowerLoss, dbVars
  <2>3. unsynced' = unsynced \/ unsynced' = {}
    BY <1>10 DEF Crash, PowerLoss, dbVars
  <2> QED
    BY <2>1, <2>2, <2>3 DEF Idle, Ready, NoBlob
<1> QED
  BY <1>1, <1>2, <1>3, <1>4, <1>5, <1>6, <1>7, <1>8, <1>9, <1>10 DEF Next, Writing

(* A call leaves every other call alone, and the holder of the connection  *)
(* all that its transaction has read.                                      *)
LEMMA OthersKept ==
  ASSUME BlobInv, NEW w \in Writers, Writing(w), NEW v \in Writers, v # w
  PROVE  /\ writer'[v] = writer[v]
         /\ loaded' = loaded
         /\ writer[v].step \in Holding => UNCHANGED <<conn, row, usage>>
<1>1. writer'[v] = writer[v]
  <2>1. \/ \E n \in Names, s \in Sizes : Stage(w, n, s)
        \/ Admit(w)
        \/ \E s \in Steps : Goto(w, s)
        \/ Done(w)
        \/ \E n \in Names : Delete(w, n)
    BY DEF Writing, FindDirs, MakeDirs, SyncDirs, DirsFail, Refuse, Rename, RenameFails, Fsync, FsyncFails,
           Commit, CommitFails, FinalizeCommitted, FinalizeOrphan, FinalizeStaged, Unlink, SyncUnlink, Steps
  <2> QED
    BY ZenonT(30), <2>1, StageFields, AdmitFields, GotoFields, DoneFields, DeleteFields DEF BlobInv
<1>2. loaded' = loaded
  BY DEF Writing, FindDirs, MakeDirs, SyncDirs, DirsFail, Stage, Admit, Refuse, Rename, RenameFails,
     Fsync, FsyncFails, Commit, CommitFails,
         FinalizeCommitted, FinalizeOrphan, FinalizeStaged, Delete, Unlink, SyncUnlink, engineVars
<1>3. ASSUME writer[v].step \in Holding PROVE UNCHANGED <<conn, row, usage>>
  <2>1. conn = v /\ writer[w].step \notin Holding /\ ~DbFree
    BY <1>3, BlobAssumption DEF BlobInv, Transactions, DbFree
  <2> QED
    BY <2>1 DEF Writing, FindDirs, MakeDirs, SyncDirs, DirsFail, Stage, Admit, Refuse, Rename,
       RenameFails, Fsync, FsyncFails, Commit, CommitFails,
         FinalizeCommitted, FinalizeOrphan, FinalizeStaged, Delete, Unlink, SyncUnlink, dbVars, Holding
<1> QED
  BY <1>1, <1>2, <1>3

(* Only an id that was not minted yet gets a size.                         *)
LEMMA SizeStays ==
  ASSUME BlobInv, [Next]_vars, NEW b \in Blobs, b <= minted
  PROVE  size'[b] = size[b]
<1>1. CASE \E w \in Writers, n \in Names, s \in Sizes : Stage(w, n, s)
  <2>1. minted' = minted + 1 /\ minted \in Nat /\ minted' \in Blobs
    BY <1>1, BlobAssumption DEF Stage, BlobInv, Types, Ids, Blobs
  <2>2. \E s \in Sizes : size' = [size EXCEPT ![minted'] = s]
    BY <1>1 DEF Stage
  <2> QED
    BY <2>1, <2>2, BlobAssumption DEF BlobInv, Types, Ids, Blobs
<1>2. CASE ~\E w \in Writers, n \in Names, s \in Sizes : Stage(w, n, s)
  BY <1>2 DEF Next, Writing, FindDirs, MakeDirs, SyncDirs, DirsFail, Admit, Refuse, Rename,
     RenameFails, Fsync, FsyncFails, Commit,
     CommitFails, FinalizeCommitted, FinalizeOrphan, FinalizeStaged, Delete, Unlink, SyncUnlink,
     Reading, LookUp, ReadWithInfo, ReadFile, Opening, Hosting, Load, Unload, PurgeRows, PurgeFiles,
     PurgeFilesFails, Checkpoint, Crash, PowerLoss, vars
<1> QED
  BY <1>1, <1>2

LEMMA SizesKept ==
  ASSUME BlobInv, [Next]_vars, NEW v \in Writers, writer'[v] = writer[v], usage' = usage
  PROVE  Charged(v)' = Charged(v)
<1>1. \A b \in Ids : b <= minted => size'[b] = size[b] \/ b = NoBlob
  BY SizeStays, BlobAssumption DEF Ids, Blobs, NoBlob
<1>2. writer[v].id \in Ids /\ writer[v].id <= minted /\ writer[v].old \in Ids /\ writer[v].old <= minted
  BY DEF BlobInv, Types, Minted, Calls
<1> QED
  BY <1>1, <1>2 DEF Charged, SizeOf

LEMMA TransactionsStep == ASSUME BlobInv, [Next]_vars PROVE Transactions'
<1> SUFFICES ASSUME NEW v \in Writers
             PROVE  /\ writer'[v].step # "idle" => loaded'
                    /\ writer'[v].step \in Carrying =>
                         writer'[v].name \in Names /\ writer'[v].id # NoBlob
                    /\ writer'[v].step \in Holding =>
                         /\ conn' = v
                         /\ writer'[v].old = row'[writer'[v].name]
                         /\ usage' # None /\ Charged(v)' <= usage'.quota
  BY DEF Transactions
<1> DEFINE Good == /\ writer'[v].step # "idle" => loaded'
                   /\ writer'[v].step \in Carrying =>
                        writer'[v].name \in Names /\ writer'[v].id # NoBlob
                   /\ writer'[v].step \in Holding =>
                        /\ conn' = v
                        /\ writer'[v].old = row'[writer'[v].name]
                        /\ usage' # None /\ Charged(v)' <= usage'.quota
<1>0. /\ writer[v].step # "idle" => loaded
      /\ writer[v].step \in Carrying => writer[v].name \in Names /\ writer[v].id # NoBlob
      /\ writer[v].step \in Holding =>
           /\ conn = v
           /\ writer[v].old = row[writer[v].name]
           /\ usage # None /\ Charged(v) <= usage.quota
  BY DEF BlobInv, Transactions
<1>1. ASSUME writer'[v] = writer[v], writer[v].step # "idle" => loaded',
             writer[v].step \in Holding => UNCHANGED <<conn, row, usage>>
      PROVE  Good
  BY <1>0, <1>1, SizesKept
<1>2. CASE UNCHANGED vars
  BY <1>0, <1>1, <1>2 DEF vars, dbVars, engineVars
<1>3. ASSUME NEW w \in Writers, Writing(w), w # v PROVE Good
  BY <1>0, <1>1, <1>3, OthersKept
<1>4. CASE Writing(v)
  <2>1. loaded' = loaded
    BY <1>4 DEF Writing, FindDirs, MakeDirs, SyncDirs, DirsFail, Stage, Admit, Refuse, Rename,
       RenameFails, Fsync, FsyncFails, Commit, CommitFails,
       FinalizeCommitted, FinalizeOrphan, FinalizeStaged, Delete, Unlink, SyncUnlink, engineVars
  <2>2. ASSUME NEW n \in Names, NEW s \in Sizes, Stage(v, n, s) PROVE Good
    <3>1. minted' \in Blobs /\ loaded
      BY <2>2, StageFields DEF Stage
    <3>2. \/ writer'[v] = Idle
          \/ writer'[v] = [step |-> "staged", name |-> n, id |-> minted', old |-> NoBlob]
      BY <2>2, StageFields
    <3> QED
      BY <2>1, <3>1, <3>2, BlobAssumption DEF Carrying, Holding, Blobs, NoBlob, Idle
  <2>3. CASE Admit(v)
    <3>1. /\ writer'[v].name = writer[v].name /\ writer'[v].id = writer[v].id
          /\ writer'[v].old = row[writer[v].name]
      BY <2>3, AdmitFields
    <3>2. /\ loaded /\ writer[v].name \in Names /\ writer[v].id # NoBlob
          /\ conn' = v /\ UNCHANGED <<row, usage, size>>
          /\ usage # None /\ Projected(v) <= usage.quota
      BY <1>0, <2>3 DEF Admit, Carrying, dbVars
    <3>3. Charged(v)' = Projected(v)
      BY <3>1, <3>2 DEF Charged, Projected, SizeOf
    <3> QED
      BY <2>1, <3>1, <3>2, <3>3
  <2>4. CASE Rename(v) \/ Fsync(v)
    <3>1. /\ writer[v].step \in Holding /\ UNCHANGED <<conn, row, usage, size>>
          /\ \E s \in Steps : Goto(v, s)
      BY <2>4 DEF Rename, Fsync, Holding, Steps, dbVars
    <3>2. /\ writer'[v].name = writer[v].name /\ writer'[v].id = writer[v].id
          /\ writer'[v].old = writer[v].old
      BY <3>1, GotoFields DEF BlobInv
    <3>3. Charged(v)' = Charged(v)
      BY <3>1, <3>2 DEF Charged, SizeOf
    <3>4. loaded /\ writer[v].step \in Carrying
      BY <1>0, <3>1 DEF Holding, Carrying
    <3> QED
      BY <1>0, <2>1, <3>1, <3>2, <3>3, <3>4
  <2>5. CASE CommitFails(v)
    <3>1. writer[v].step = "synced" /\ Goto(v, "undo") /\ "undo" \in Steps
      BY <2>5 DEF CommitFails, Steps
    <3>2. /\ writer'[v].step = "undo"
          /\ writer'[v].name = writer[v].name /\ writer'[v].id = writer[v].id
      BY <3>1, GotoFields DEF BlobInv
    <3> QED
      BY <1>0, <2>1, <3>1, <3>2 DEF Carrying, Holding
  <2>6. CASE \/ Refuse(v) \/ RenameFails(v) \/ FsyncFails(v) \/ Commit(v) \/ Unlink(v)
             \/ FindDirs(v) \/ MakeDirs(v) \/ SyncDirs(v)
    <3>1. /\ writer[v].step # "idle" \/ loaded
          /\ \E s \in Steps \ Carrying : Goto(v, s)
      BY <2>6 DEF FindDirs, MakeDirs, SyncDirs, Refuse, RenameFails, FsyncFails, Commit, Unlink, Steps,
         Carrying, Holding
    <3>2. writer'[v].step \notin Carrying
      BY <3>1, GotoFields DEF BlobInv
    <3> QED
      BY <1>0, <2>1, <3>1, <3>2 DEF Carrying, Holding
  <2>7. CASE FinalizeCommitted(v) \/ FinalizeOrphan(v) \/ FinalizeStaged(v) \/ SyncUnlink(v) \/ DirsFail(v)
    <3>1. Done(v)
      BY <2>7 DEF DirsFail, FinalizeCommitted, FinalizeOrphan, FinalizeStaged, SyncUnlink
    <3>2. writer'[v].step = "idle"
      BY <3>1, DoneFields DEF BlobInv
    <3> QED
      BY <3>2 DEF Carrying, Holding
  <2>8. ASSUME NEW n \in Names, Delete(v, n) PROVE Good
    <3>1. writer'[v] = [step |-> "deleted", name |-> n, id |-> NoBlob, old |-> row[n]]
      BY <2>8, DeleteFields
    <3> QED
      BY <2>1, <2>8, <3>1 DEF Delete, Carrying, Holding
  <2> QED
    BY <1>4, <2>2, <2>3, <2>4, <2>5, <2>6, <2>7, <2>8 DEF Writing
<1>5. ASSUME NEW r \in Readers, Reading(r) PROVE Good
  BY <1>0, <1>1, <1>5, ReaderFields DEF dbVars, engineVars
<1>6. CASE Hosting
  <2>1. writer' = writer
    BY <1>6 DEF Hosting, Load, Unload, PurgeRows, PurgeFiles, PurgeFilesFails, Checkpoint
  <2>2. writer[v].step \in Holding => UNCHANGED <<conn, row, usage>>
    BY <1>0, <1>6, BlobAssumption DEF Hosting, Load, Unload, PurgeRows, PurgeFiles, PurgeFilesFails,
       Checkpoint, Commits, DbFree, dbVars
  <2>3. writer[v].step # "idle" => loaded'
    <3>1. CASE Unload
      BY <3>1 DEF Unload, Idle
    <3>2. CASE ~Unload
      BY <1>0, <1>6, <3>2 DEF Hosting, Load, PurgeRows, PurgeFiles, PurgeFilesFails, Checkpoint, engineVars
    <3> QED
      BY <3>1, <3>2
  <2> QED
    BY <1>1, <2>1, <2>2, <2>3
<1>7. CASE Crash \/ PowerLoss
  <2>1. writer'[v] = Idle
    BY <1>7 DEF Crash, PowerLoss, Reboots
  <2> QED
    BY <2>1 DEF Idle, Carrying, Holding
<1> QED
  BY <1>2, <1>3, <1>4, <1>5, <1>6, <1>7 DEF Next

LEMMA EngineStep == ASSUME BlobInv, [Next]_vars PROVE Engine'
<1>1. CASE UNCHANGED <<loaded, purging>>
  BY <1>1 DEF BlobInv, Engine
<1>2. CASE ~UNCHANGED <<loaded, purging>>
  BY <1>2 DEF BlobInv, Engine, Next, Writing, FindDirs, MakeDirs, SyncDirs, DirsFail, Stage, Admit,
     Refuse, Rename, RenameFails, Fsync, FsyncFails,
     Commit, CommitFails, FinalizeCommitted, FinalizeOrphan, FinalizeStaged, Delete, Unlink, SyncUnlink,
     Reading, LookUp, ReadWithInfo, ReadFile, Opening, Hosting, Load, Unload, PurgeRows, PurgeFiles,
     PurgeFilesFails, Checkpoint, Crash, PowerLoss, Reboots, vars, engineVars
<1> QED
  BY <1>1, <1>2

-----------------------------------------------------------------------------
(* What a step does to the ids.                                            *)
LEMMA Carried ==
  ASSUME BlobInv, [Next]_vars, NEW w \in Writers, writer'[w].step \in Carrying
  PROVE  \/ writer[w].step \in Carrying /\ writer'[w].id = writer[w].id
         \/ /\ writer'[w].id = minted + 1 /\ UNCHANGED <<row, reader>>
            /\ \A v \in Writers : v # w => writer'[v] = writer[v]
<1> DEFINE Same == writer[w].step \in Carrying /\ writer'[w].id = writer[w].id
<1>1. CASE writer'[w] = writer[w]
  BY <1>1
<1>2. ASSUME NEW n \in Names, NEW s \in Sizes, Stage(w, n, s)
      PROVE  /\ writer'[w].id = minted + 1 /\ UNCHANGED <<row, reader>>
             /\ \A v \in Writers : v # w => writer'[v] = writer[v]
  <2>1. /\ minted' = minted + 1
        /\ writer'[w] = [step |-> "staged", name |-> n, id |-> minted', old |-> NoBlob]
        /\ \A v \in Writers : v # w => writer'[v] = writer[v]
    BY <1>2, StageFields DEF Idle, Carrying, Holding
  <2> QED
    BY <1>2, <2>1 DEF Stage, dbVars
<1>3. CASE Admit(w)
  BY <1>3, AdmitFields DEF Admit, Carrying
<1>4. CASE Rename(w) \/ Fsync(w) \/ CommitFails(w)
  <2>1. writer[w].step \in Carrying /\ \E s \in Steps : Goto(w, s)
    BY <1>4 DEF Rename, Fsync, CommitFails, Carrying, Holding, Steps
  <2> QED
    BY <2>1, GotoFields DEF BlobInv
<1>5. CASE \/ Refuse(w) \/ RenameFails(w) \/ FsyncFails(w) \/ Commit(w) \/ Unlink(w)
           \/ FindDirs(w) \/ MakeDirs(w) \/ SyncDirs(w)
  <2>1. \E s \in Steps \ Carrying : Goto(w, s)
    BY <1>5 DEF FindDirs, MakeDirs, SyncDirs, Refuse, RenameFails, FsyncFails, Commit, Unlink, Steps,
       Carrying, Holding
  <2> QED
    BY <2>1, GotoFields DEF BlobInv
<1>6. CASE FinalizeCommitted(w) \/ FinalizeOrphan(w) \/ FinalizeStaged(w) \/ SyncUnlink(w) \/ DirsFail(w)
  <2>1. Done(w)
    BY <1>6 DEF DirsFail, FinalizeCommitted, FinalizeOrphan, FinalizeStaged, SyncUnlink
  <2>2. writer'[w].step = "idle"
    BY <2>1, DoneFields DEF BlobInv
  <2> QED
    BY <2>2 DEF Carrying, Holding
<1>7. ASSUME NEW n \in Names, Delete(w, n) PROVE FALSE
  <2>1. writer'[w] = [step |-> "deleted", name |-> n, id |-> NoBlob, old |-> row[n]]
    BY <1>7, DeleteFields
  <2> QED
    BY <2>1 DEF Carrying, Holding
<1>8. ASSUME NEW v \in Writers, Writing(v), v # w PROVE Same
  BY <1>8, OthersKept
<1>9. CASE Crash \/ PowerLoss
  <2>1. writer'[w] = Idle
    BY <1>9 DEF Crash, PowerLoss, Reboots
  <2> QED
    BY <2>1 DEF Idle, Carrying, Holding
<1>10. ASSUME NEW r \in Readers, Reading(r) PROVE Same
  BY <1>10, ReaderFields
<1>11. CASE Hosting \/ UNCHANGED vars
  BY <1>11 DEF Hosting, Load, Unload, PurgeRows, PurgeFiles, PurgeFilesFails, Checkpoint, vars
<1> QED
  BY <1>1, <1>2, <1>3, <1>4, <1>5, <1>6, <1>7, <1>8, <1>9, <1>10, <1>11 DEF Next, Writing

LEMMA Dropped ==
  ASSUME BlobInv, [Next]_vars, NEW w \in Writers, writer'[w].step \in Dropping
  PROVE  \/ writer'[w] = writer[w]
         \/ Commit(w) /\ writer'[w].old = writer[w].old
         \/ \E n \in Names : Delete(w, n) /\ writer'[w].old = row[n]
<1>1. ASSUME NEW n \in Names, NEW s \in Sizes, Stage(w, n, s) PROVE FALSE
  <2>1. \/ writer'[w] = Idle
        \/ writer'[w] = [step |-> "staged", name |-> n, id |-> minted', old |-> NoBlob]
    BY <1>1, StageFields
  <2> QED
    BY <2>1 DEF Dropping, Idle
<1>2. CASE Admit(w)
  BY <1>2, AdmitFields DEF Dropping
<1>3. CASE Commit(w)
  <2>1. Goto(w, "committed") /\ "committed" \in Steps
    BY <1>3 DEF Commit, Steps
  <2> QED
    BY <1>3, <2>1, GotoFields DEF BlobInv
<1>4. CASE Refuse(w) \/ Rename(w) \/ RenameFails(w) \/ Fsync(w) \/ FsyncFails(w) \/ CommitFails(w)
           \/ Unlink(w) \/ FindDirs(w) \/ MakeDirs(w) \/ SyncDirs(w)
  <2>1. \E s \in Steps \ Dropping : Goto(w, s)
    BY <1>4 DEF FindDirs, MakeDirs, SyncDirs, Refuse, Rename, RenameFails, Fsync, FsyncFails,
       CommitFails, Unlink, Steps, Dropping
  <2> QED
    BY <2>1, GotoFields DEF BlobInv
<1>5. CASE FinalizeCommitted(w) \/ FinalizeOrphan(w) \/ FinalizeStaged(w) \/ SyncUnlink(w) \/ DirsFail(w)
  <2>1. Done(w)
    BY <1>5 DEF DirsFail, FinalizeCommitted, FinalizeOrphan, FinalizeStaged, SyncUnlink
  <2>2. writer'[w].step = "idle"
    BY <2>1, DoneFields DEF BlobInv
  <2> QED
    BY <2>2 DEF Dropping
<1>6. ASSUME NEW n \in Names, Delete(w, n) PROVE writer'[w].old = row[n]
  <2>1. writer'[w] = [step |-> "deleted", name |-> n, id |-> NoBlob, old |-> row[n]]
    BY <1>6, DeleteFields
  <2> QED
    BY <2>1
<1>7. ASSUME NEW v \in Writers, Writing(v), v # w PROVE writer'[w] = writer[w]
  BY <1>7, OthersKept
<1>8. CASE Crash \/ PowerLoss
  <2>1. writer'[w] = Idle
    BY <1>8 DEF Crash, PowerLoss, Reboots
  <2> QED
    BY <2>1 DEF Idle, Dropping
<1>9. ASSUME NEW r \in Readers, Reading(r) PROVE writer'[w] = writer[w]
  BY <1>9, ReaderFields
<1>10. CASE Hosting \/ UNCHANGED vars
  BY <1>10 DEF Hosting, Load, Unload, PurgeRows, PurgeFiles, PurgeFilesFails, Checkpoint, vars
<1> QED
  BY <1>1, <1>2, <1>3, <1>4, <1>5, <1>6, <1>7, <1>8, <1>9, <1>10 DEF Next, Writing

LEMMA StillDone == ASSUME BlobInv, [Next]_vars, undone' = {} PROVE undone = {}
<1>1. CASE undone' = undone
  BY <1>1
<1>2. CASE PowerLoss
  BY <1>2 DEF PowerLoss
<1> QED
  BY <1>1, <1>2 DEF Next, Writing, FindDirs, MakeDirs, SyncDirs, DirsFail, Stage, Admit, Refuse,
     Rename, RenameFails, Fsync, FsyncFails,
     Commit, CommitFails, FinalizeCommitted, FinalizeOrphan, FinalizeStaged, Delete, Unlink, SyncUnlink,
     Reading, LookUp, ReadWithInfo, ReadFile, Opening, Hosting, Load, Unload, PurgeRows, PurgeFiles,
     PurgeFilesFails, Checkpoint, Crash, vars, historyVars

LEMMA RowChange ==
  ASSUME BlobInv, [Next]_vars, undone' = {}
  PROVE  \/ row' = row
         \/ \E w \in Writers : /\ Commit(w) /\ writer[w].name \in Names
                               /\ row' = [row EXCEPT ![writer[w].name] = writer[w].id]
         \/ \E n \in Names : /\ \E w \in Writers : Delete(w, n)
                             /\ row' = [row EXCEPT ![n] = NoBlob]
         \/ row' = [n \in Names |-> NoBlob]
<1>1. ASSUME NEW w \in Writers, Commit(w)
      PROVE  writer[w].name \in Names /\ row' = [row EXCEPT ![writer[w].name] = writer[w].id]
  BY <1>1 DEF Commit, Commits, BlobInv, Transactions, Carrying, Holding
<1>2. ASSUME NEW w \in Writers, NEW n \in Names, Delete(w, n) PROVE row' = [row EXCEPT ![n] = NoBlob]
  BY <1>2 DEF Delete, Commits
<1>3. ASSUME PowerLoss PROVE row' = row
  <2>1. PICK db \in unsynced \cup {[row |-> row, usage |-> usage]} :
          /\ row' = db.row
          /\ (IF db = [row |-> row, usage |-> usage] THEN {} ELSE {"commit"}) \subseteq undone'
    BY <1>3 DEF PowerLoss
  <2>2. db = [row |-> row, usage |-> usage]
    BY <2>1
  <2> QED
    BY <2>1, <2>2
<1>4. CASE Hosting
  BY <1>4 DEF Hosting, Load, Unload, PurgeRows, PurgeFiles, PurgeFilesFails, Checkpoint, Commits, dbVars
<1>5. ASSUME NEW r \in Readers, Reading(r) PROVE row' = row
  BY <1>5, ReaderFields DEF dbVars
<1> QED
  BY <1>1, <1>2, <1>3, <1>4, <1>5 DEF Next, Writing, FindDirs, MakeDirs, SyncDirs, DirsFail, Stage,
     Admit, Refuse, Rename, RenameFails, Fsync,
     FsyncFails, CommitFails, FinalizeCommitted, FinalizeOrphan, FinalizeStaged, Unlink, SyncUnlink,
     Crash, vars, dbVars

(* Only a commit adds to the index, and only what it carried.              *)
LEMMA IndexGrows ==
  ASSUME BlobInv, [Next]_vars, undone' = {}, NEW b \in Indexed', b \notin Indexed
  PROVE  \E w \in Writers : Commit(w) /\ b = writer[w].id
<1>1. row \in [Names -> Ids]
  BY DEF BlobInv, Types, Rows
<1>2. PICK n \in Names : row'[n] = b /\ b # NoBlob
  BY DEF Indexed
<1>3. row[n] # b
  BY <1>2 DEF Indexed
<1>4. CASE \E w \in Writers : /\ Commit(w) /\ writer[w].name \in Names
                              /\ row' = [row EXCEPT ![writer[w].name] = writer[w].id]
  BY <1>1, <1>2, <1>3, <1>4
<1> QED
  BY <1>1, <1>2, <1>3, <1>4, RowChange

LEMMA DistinctStep ==
  ASSUME BlobInv, [Next]_vars, undone' = {}
  PROVE  Distinct'
<1>0. Distinct /\ Minted /\ Types
  BY StillDone DEF BlobInv
<1>1. \A n, m \in Names : row'[n] = row'[m] /\ n # m => row'[n] = NoBlob
  <2>1. row \in [Names -> Ids]
    BY <1>0 DEF Types, Rows
  <2>2. \A n, m \in Names : row[n] = row[m] /\ n # m => row[n] = NoBlob
    BY <1>0 DEF Distinct
  <2>3. ASSUME NEW w \in Writers, Commit(w), writer[w].name \in Names,
               row' = [row EXCEPT ![writer[w].name] = writer[w].id]
        PROVE  \A n, m \in Names : row'[n] = row'[m] /\ n # m => row'[n] = NoBlob
    <3>1. \A n \in Names : row[n] # writer[w].id \/ row[n] = NoBlob
      BY <1>0, <2>3 DEF Commit, Distinct, Carrying, Holding, Indexed
    <3> QED
      BY <2>1, <2>2, <2>3, <3>1
  <2> QED
    BY <2>1, <2>2, <2>3, RowChange
<1>2. ASSUME NEW w \in Writers, writer'[w].step \in Carrying PROVE writer'[w].id \notin Indexed'
  <2>1. CASE writer[w].step \in Carrying /\ writer'[w].id = writer[w].id
    <3>1. writer[w].id \notin Indexed
      BY <1>0, <2>1 DEF Distinct
    <3>2. ASSUME NEW v \in Writers, Commit(v), writer[v].id = writer[w].id PROVE FALSE
      <4>1. v = w
        BY <1>0, <2>1, <3>2 DEF Commit, Distinct, Carrying, Holding
      <4>2. Goto(w, "committed") /\ "committed" \in Steps
        BY <3>2, <4>1 DEF Commit, Steps
      <4> QED
        BY <1>0, <1>2, <4>2, GotoFields DEF Carrying, Holding
    <3> QED
      BY <2>1, <3>1, <3>2, IndexGrows
  <2>2. CASE writer'[w].id = minted + 1 /\ UNCHANGED <<row, reader>>
    BY <1>0, <2>2, BlobAssumption DEF Indexed, Minted, Types, Rows, Ids
  <2> QED
    BY <1>2, <2>1, <2>2, Carried
<1>3. ASSUME NEW w \in Writers, writer'[w].step \in Dropping PROVE writer'[w].old \notin Indexed'
  <2>1. CASE writer'[w] = writer[w]
    <3>1. writer[w].old \notin Indexed
      BY <1>0, <1>3, <2>1 DEF Distinct
    <3>2. \A v \in Writers : Commit(v) => writer[v].id # writer[w].old
      BY <1>0, <1>3, <2>1 DEF Commit, Distinct, Carrying, Holding
    <3> QED
      BY <2>1, <3>1, <3>2, IndexGrows
  <2>2. CASE Commit(w) /\ writer'[w].old = writer[w].old
    <3>1. /\ writer[w].name \in Names /\ writer[w].id \notin Indexed
          /\ writer[w].old = row[writer[w].name] /\ writer[w].id # NoBlob
          /\ row' = [row EXCEPT ![writer[w].name] = writer[w].id]
      BY <1>0, <2>2 DEF Commit, Commits, BlobInv, Distinct, Transactions, Carrying, Holding
    <3> QED
      BY <1>0, <2>2, <3>1 DEF Indexed, Types, Rows, Distinct
  <2>3. ASSUME NEW n \in Names, Delete(w, n), writer'[w].old = row[n] PROVE row[n] \notin Indexed'
    <3>1. row' = [row EXCEPT ![n] = NoBlob]
      BY <2>3 DEF Delete, Commits
    <3> QED
      BY <1>0, <3>1 DEF Indexed, Types, Rows, Distinct
  <2> QED
    BY <1>3, <2>1, <2>2, <2>3, Dropped
<1>4. ASSUME NEW w \in Writers, NEW v \in Writers,
             writer'[w].step \in Carrying, writer'[v].step \in Carrying, w # v
      PROVE  writer'[v].id # writer'[w].id
  <2>1. /\ writer[w].id <= minted /\ writer[v].id <= minted /\ minted \in Nat
        /\ writer[w].id \in Nat /\ writer[v].id \in Nat
    BY <1>0, BlobAssumption DEF Minted, Types, Calls, Ids
  <2>2. /\ \/ writer[w].step \in Carrying /\ writer'[w].id = writer[w].id
           \/ writer'[w].id = minted + 1 /\ writer'[v] = writer[v]
        /\ \/ writer[v].step \in Carrying /\ writer'[v].id = writer[v].id
           \/ writer'[v].id = minted + 1 /\ writer'[w] = writer[w]
    <3>1. \/ writer[w].step \in Carrying /\ writer'[w].id = writer[w].id
          \/ writer'[w].id = minted + 1 /\ \A u \in Writers : u # w => writer'[u] = writer[u]
      BY <1>4, Carried
    <3>2. \/ writer[v].step \in Carrying /\ writer'[v].id = writer[v].id
          \/ writer'[v].id = minted + 1 /\ \A u \in Writers : u # v => writer'[u] = writer[u]
      BY <1>4, Carried
    <3> QED
      BY <1>4, <3>1, <3>2
  <2>3. writer[w].step \in Carrying /\ writer[v].step \in Carrying => writer[v].id # writer[w].id
    BY <1>0, <1>4 DEF Distinct
  <2> QED
    BY <1>4, <2>1, <2>2, <2>3
<1>5. ASSUME NEW w \in Writers, NEW v \in Writers,
             writer'[w].step \in Carrying, writer'[v].step \in Dropping
      PROVE  writer'[v].old # writer'[w].id
  <2>1. /\ writer[w].id <= minted /\ writer[v].old <= minted /\ minted \in Nat
        /\ writer[w].id \in Nat /\ writer[v].old \in Nat
        /\ \A n \in Names : row[n] <= minted /\ row[n] \in Nat
    BY <1>0, BlobAssumption DEF Minted, Types, Calls, Rows, Ids
  <2>2. w # v
    BY <1>5 DEF Carrying, Holding, Dropping
  <2>3. writer'[v].old <= minted /\ writer'[v].old \in Nat
    <3>1. writer'[v].old = writer[v].old \/ \E n \in Names : writer'[v].old = row[n]
      BY <1>5, Dropped
    <3> QED
      BY <2>1, <3>1
  <2>4. CASE writer[w].step \in Carrying /\ writer'[w].id = writer[w].id
    <3>1. writer[w].id \notin Indexed /\ writer[w].id # NoBlob
      BY <1>0, <2>4 DEF Distinct, BlobInv, Transactions
    <3>2. CASE writer'[v] = writer[v]
      BY <1>0, <1>5, <2>4, <3>2 DEF Distinct
    <3>3. CASE Commit(v) /\ writer'[v].old = writer[v].old
      <4>1. writer[v].name \in Names /\ writer[v].old = row[writer[v].name]
        BY <3>3 DEF Commit, BlobInv, Transactions, Carrying, Holding
      <4> QED
        BY <2>4, <3>1, <3>3, <4>1 DEF Indexed
    <3>4. CASE \E n \in Names : Delete(v, n) /\ writer'[v].old = row[n]
      BY <2>4, <3>1, <3>4 DEF Indexed
    <3> QED
      BY <1>5, <3>2, <3>3, <3>4, Dropped
  <2>5. CASE writer'[w].id = minted + 1
    BY <2>1, <2>3, <2>5
  <2> QED
    BY <1>5, <2>4, <2>5, Carried
<1> QED
  BY <1>1, <1>2, <1>3, <1>4, <1>5 DEF Distinct

-----------------------------------------------------------------------------
(* The files.                                                              *)

(* A file goes with the call that drops it, with the purge, or with a      *)
(* rename that a power loss undoes; a lost directory takes them all.       *)
LEMMA FileGone ==
  ASSUME BlobInv, [Next]_vars, NEW b \in files, b \notin files'
  PROVE  \/ \E w \in Writers : FinalizeCommitted(w) /\ b = writer[w].old
         \/ \E w \in Writers : FinalizeOrphan(w) /\ b = writer[w].id
         \/ \E w \in Writers : Unlink(w) /\ b = writer[w].old
         \/ purging
         \/ \E w \in Writers : PowerLoss /\ writer[w].step = "renamed" /\ b = writer[w].id
         \/ undone' # {}
<1>1. ASSUME NEW w \in Writers, Writing(w)
      PROVE  \/ FinalizeCommitted(w) /\ b = writer[w].old
             \/ FinalizeOrphan(w) /\ b = writer[w].id
             \/ Unlink(w) /\ b = writer[w].old
  BY <1>1 DEF Writing, FindDirs, MakeDirs, SyncDirs, DirsFail, Stage, Admit, Refuse, Rename,
     RenameFails, Fsync, FsyncFails, Commit, CommitFails,
     FinalizeCommitted, FinalizeOrphan, FinalizeStaged, Delete, Unlink, SyncUnlink, Unlinks, fsVars
<1>2. CASE PowerLoss
  <2>1. PICK lost \in {{}} \cup {Tree(d) : d \in {e \in Dirs : dirs[e] = "made"}},
             gone \in SUBSET {writer[w].id : w \in {x \in Writers : writer[x].step = "renamed"}} :
          /\ lost = {} => files \ gone \subseteq files'
          /\ (IF lost = {} \/ files = {} THEN {} ELSE {"directory"}) \subseteq undone'
    BY <1>2 DEF PowerLoss
  <2>2. CASE lost = {}
    BY <1>2, <2>1, <2>2
  <2>3. CASE lost # {}
    <3>1. "directory" \in undone'
      BY <2>1, <2>3
    <3> QED
      BY <3>1
  <2> QED
    BY <2>2, <2>3
<1>3. CASE Hosting
  BY <1>3 DEF Hosting, Load, Unload, PurgeRows, PurgeFiles, PurgeFilesFails, Checkpoint, fsVars
<1>4. ASSUME NEW r \in Readers, Reading(r) PROVE FALSE
  BY <1>4, ReaderFields DEF fsVars
<1> QED
  BY <1>1, <1>2, <1>3, <1>4 DEF Next, Crash, vars, fsVars

LEMMA PlacedStep ==
  ASSUME BlobInv, [Next]_vars, undone' = {}
  PROVE  Placed'
<1>0. Distinct /\ Placed /\ Transactions /\ Engine
  BY StillDone DEF BlobInv
<1>1. purging => \A w \in Writers : writer[w].step = "idle"
  BY <1>0 DEF Engine, Transactions
<1>2. ASSUME NEW b \in Indexed' PROVE b \in files'
  <2>1. CASE b \notin Indexed
    <3>1. PICK w \in Writers : Commit(w) /\ b = writer[w].id
      BY <1>2, <2>1, IndexGrows
    <3> QED
      BY <1>0, <3>1 DEF Commit, Placed, fsVars
  <2>2. CASE b \in Indexed
    <3>1. b \in files
      BY <1>0, <2>2 DEF Placed
    <3>2. ASSUME NEW w \in Writers, FinalizeCommitted(w) \/ Unlink(w) PROVE writer[w].old # b
      BY <1>0, <2>2, <3>2 DEF FinalizeCommitted, Unlink, Distinct, Dropping
    <3>3. ASSUME NEW w \in Writers, FinalizeOrphan(w) \/ writer[w].step = "renamed" PROVE writer[w].id # b
      BY <1>0, <2>2, <3>3 DEF FinalizeOrphan, Distinct, Carrying, Holding
    <3>4. ~purging
      BY <1>0, <2>2 DEF Placed
    <3> QED
      BY <3>1, <3>2, <3>3, <3>4, FileGone
  <2> QED
    BY <2>1, <2>2
<1>3. ASSUME NEW w \in Writers, writer'[w].step \in {"renamed", "synced"} PROVE writer'[w].id \in files'
  <2>1. CASE writer'[w] = writer[w]
    <3>1. writer[w].id \in files
      BY <1>0, <1>3, <2>1 DEF Placed
    <3>2. ASSUME NEW v \in Writers, FinalizeCommitted(v) \/ Unlink(v) PROVE writer[v].old # writer[w].id
      BY <1>0, <1>3, <2>1, <3>2 DEF FinalizeCommitted, Unlink, Distinct, Dropping, Carrying, Holding
    <3>3. ASSUME NEW v \in Writers, FinalizeOrphan(v) PROVE writer[v].id # writer[w].id
      <4>1. writer[v].step = "undo" /\ writer[w].step \in {"renamed", "synced"}
        BY <1>3, <2>1, <3>3 DEF FinalizeOrphan
      <4> QED
        BY <1>0, <4>1 DEF Distinct, Carrying, Holding
    <3>4. ~purging
      BY <1>1, <1>3, <2>1
    <3>5. ~PowerLoss
      BY <1>3 DEF PowerLoss, Reboots, Idle
    <3> QED
      BY <2>1, <3>1, <3>2, <3>3, <3>4, <3>5, FileGone
  <2>2. CASE Rename(w)
    <3>1. Goto(w, "renamed") /\ "renamed" \in Steps /\ writer[w].id \in files'
      BY <2>2 DEF Rename, Steps
    <3> QED
      BY <3>1, GotoFields DEF BlobInv
  <2>3. CASE Fsync(w)
    <3>1. Goto(w, "synced") /\ "synced" \in Steps /\ writer[w].id \in files' 
      BY <1>0, <2>3 DEF Fsync, Steps, Placed
    <3> QED
      BY <3>1, GotoFields DEF BlobInv
  <2>4. writer'[w] = writer[w] \/ Rename(w) \/ Fsync(w)
    <3>1. ASSUME NEW n \in Names, NEW s \in Sizes, Stage(w, n, s) PROVE FALSE
      <4>1. \/ writer'[w] = Idle
            \/ writer'[w] = [step |-> "staged", name |-> n, id |-> minted', old |-> NoBlob]
        BY <3>1, StageFields
      <4> QED
        BY <1>3, <4>1 DEF Idle
    <3>2. ~Admit(w)
      BY <1>3, AdmitFields
    <3>3. ~(\/ Refuse(w) \/ RenameFails(w) \/ FsyncFails(w) \/ Commit(w) \/ CommitFails(w) \/ Unlink(w)
            \/ FindDirs(w) \/ MakeDirs(w) \/ SyncDirs(w))
      <4>1. (\/ Refuse(w) \/ RenameFails(w) \/ FsyncFails(w) \/ Commit(w) \/ CommitFails(w) \/ Unlink(w)
             \/ FindDirs(w) \/ MakeDirs(w) \/ SyncDirs(w)) =>
              \E s \in Steps \ {"renamed", "synced"} : Goto(w, s)
        BY DEF FindDirs, MakeDirs, SyncDirs, Refuse, RenameFails, FsyncFails, Commit, CommitFails,
           Unlink, Steps
      <4> QED
        BY <1>3, <4>1, GotoFields DEF BlobInv
    <3>4. ~(FinalizeCommitted(w) \/ FinalizeOrphan(w) \/ FinalizeStaged(w) \/ SyncUnlink(w) \/ DirsFail(w))
      <4>1. Done(w) => writer'[w].step = "idle"
        BY DoneFields DEF BlobInv
      <4> QED
        BY <1>3, <4>1 DEF DirsFail, FinalizeCommitted, FinalizeOrphan, FinalizeStaged, SyncUnlink
    <3>5. ASSUME NEW n \in Names, Delete(w, n) PROVE FALSE
      <4>1. writer'[w] = [step |-> "deleted", name |-> n, id |-> NoBlob, old |-> row[n]]
        BY <3>5, DeleteFields
      <4> QED
        BY <1>3, <4>1
    <3>6. ASSUME NEW v \in Writers, Writing(v), v # w PROVE writer'[w] = writer[w]
      BY <3>6, OthersKept
    <3>7. ~(Crash \/ PowerLoss)
      BY <1>3 DEF Crash, PowerLoss, Reboots, Idle
    <3>8. ASSUME NEW r \in Readers, Reading(r) PROVE writer'[w] = writer[w]
      BY <3>8, ReaderFields
    <3>9. Hosting \/ UNCHANGED vars => writer'[w] = writer[w]
      BY DEF Hosting, Load, Unload, PurgeRows, PurgeFiles, PurgeFilesFails, Checkpoint, vars
    <3> QED
      BY <3>1, <3>2, <3>3, <3>4, <3>5, <3>6, <3>7, <3>8, <3>9 DEF Next, Writing
  <2> QED
    BY <2>1, <2>2, <2>3, <2>4
<1>4. ASSUME purging' PROVE Indexed' = {}
  <2>1. CASE PurgeRows
    BY <2>1 DEF PurgeRows, Commits, Indexed
  <2>2. CASE purging
    <3>1. ~\E w \in Writers : Commit(w)
      BY <1>1, <2>2 DEF Commit
    <3>2. Indexed = {}
      BY <1>0, <2>2 DEF Placed
    <3> QED
      BY <3>1, <3>2, IndexGrows
  <2>3. purging \/ PurgeRows
    BY <1>4 DEF Next, Writing, FindDirs, MakeDirs, SyncDirs, DirsFail, Stage, Admit, Refuse, Rename,
       RenameFails, Fsync, FsyncFails,
       Commit, CommitFails, FinalizeCommitted, FinalizeOrphan, FinalizeStaged, Delete, Unlink, SyncUnlink,
       Reading, LookUp, ReadWithInfo, ReadFile, Opening, Hosting, Load, Unload, PurgeFiles,
       PurgeFilesFails, Checkpoint, Crash, PowerLoss, Reboots, vars, engineVars
  <2> QED
    BY <2>1, <2>2, <2>3
<1> QED
  BY <1>2, <1>3, <1>4 DEF Placed

LEMMA ReadingsStep ==
  ASSUME BlobInv, [Next]_vars, undone' = {}
  PROVE  Readings'
<1>0. Distinct /\ Placed /\ Readings /\ Minted /\ Transactions /\ Types
  BY StillDone DEF BlobInv
<1> SUFFICES ASSUME NEW r \in Readers
             PROVE  /\ \A w \in Writers : writer'[w].step \in Carrying => writer'[w].id # reader'[r].id
                    /\ reader'[r].step = "open" => reader'[r].call = "read"
                    /\ reader'[r].got = "io" => reader'[r].call = "read" /\ reader'[r].id \notin Indexed'
  BY DEF Readings
<1>1. CASE reader'[r] = reader[r]
  <2>1. ASSUME NEW w \in Writers, writer'[w].step \in Carrying PROVE writer'[w].id # reader[r].id
    <3>1. reader[r].id <= minted /\ reader[r].id \in Nat /\ minted \in Nat
      BY <1>0, BlobAssumption DEF Minted, Types, Reads, Ids
    <3> QED
      BY <1>0, <2>1, <3>1, Carried DEF Readings
  <2>2. ASSUME reader[r].got = "io", reader[r].id \in Indexed' PROVE FALSE
    <3>1. reader[r].id \notin Indexed
      BY <1>0, <2>2 DEF Readings
    <3>2. PICK w \in Writers : Commit(w) /\ reader[r].id = writer[w].id
      BY <2>2, <3>1, IndexGrows
    <3> QED
      BY <1>0, <3>2 DEF Commit, Readings, Carrying, Holding
  <2> QED
    BY <1>0, <1>1, <2>1, <2>2 DEF Readings
<1>2. CASE Reading(r)
  <2>1. Answered(r) /\ UNCHANGED <<dbVars, writer>>
    BY <1>2, ReaderFields
  <2>2. Indexed' = Indexed
    BY <2>1 DEF Indexed, dbVars
  <2>3. \A w \in Writers, n \in Names : writer[w].step \in Carrying /\ row[n] # NoBlob =>
          writer[w].id # row[n]
    BY <1>0 DEF Distinct, Indexed
  <2>4. CASE reader'[r] = Ready
    BY <1>0, <2>1, <2>4 DEF Ready, Transactions
  <2>5. ASSUME NEW n \in Names, row[n] # NoBlob,
               reader'[r] = [step |-> "open", call |-> "read", id |-> row[n], got |-> "nothing"]
        PROVE  /\ \A w \in Writers : writer'[w].step \in Carrying => writer'[w].id # reader'[r].id
               /\ reader'[r].step = "open" => reader'[r].call = "read"
               /\ reader'[r].got # "io"
    BY <2>1, <2>3, <2>5
  <2>6. ~\E n \in Names : row[n] # NoBlob /\ row[n] \notin files
    BY <1>0 DEF Placed, Indexed
  <2>7. ASSUME reader[r].step = "open", reader[r].id \notin files,
               reader'[r] = [step |-> "ready", call |-> reader[r].call, id |-> reader[r].id, got |-> "io"]
        PROVE  /\ \A w \in Writers : writer'[w].step \in Carrying => writer'[w].id # reader'[r].id
               /\ reader'[r].step # "open"
               /\ reader'[r].call = "read" /\ reader'[r].id \notin Indexed'
    <3>1. reader[r].id \notin Indexed /\ reader[r].call = "read"
      BY <1>0, <2>7 DEF Placed, Readings
    <3> QED
      BY <1>0, <2>1, <2>2, <2>7, <3>1 DEF Readings
  <2> QED
    BY <2>1, <2>4, <2>5, <2>6, <2>7 DEF Answered
<1>3. CASE reader'[r] = Ready
  <2>1. ASSUME NEW w \in Writers, writer'[w].step \in Carrying PROVE writer'[w].id # NoBlob
    BY <2>1, TransactionsStep DEF Transactions
  <2> QED
    BY <1>3, <2>1 DEF Ready
<1>4. reader'[r] = reader[r] \/ Reading(r) \/ reader'[r] = Ready
  <2>1. ASSUME NEW q \in Readers, Reading(q), q # r PROVE reader'[r] = reader[r]
    BY <2>1, ReaderFields
  <2>2. Crash \/ PowerLoss => reader'[r] = Ready
    BY DEF Crash, PowerLoss, Reboots
  <2> QED
    BY <2>1, <2>2 DEF Next, Writing, FindDirs, MakeDirs, SyncDirs, DirsFail, Stage, Admit, Refuse,
       Rename, RenameFails, Fsync, FsyncFails,
     Commit, CommitFails, FinalizeCommitted, FinalizeOrphan, FinalizeStaged, Delete, Unlink, SyncUnlink,
     Hosting, Load, Unload, PurgeRows, PurgeFiles, PurgeFilesFails, Checkpoint, vars
<1> QED
  BY <1>1, <1>2, <1>3, <1>4

-----------------------------------------------------------------------------
(* The owners of the files.                                                *)
OwnsFile(w, b) ==
  \/ writer[w].step \in {"renamed", "synced", "undo"} /\ writer[w].id = b
  \/ writer[w].step \in Dropping /\ writer[w].old = b
OwnsTmp(w, b) == writer[w].step \in {"staged", "admitted", "unstage"} /\ writer[w].id = b

LEMMA StillTidy ==
  ASSUME BlobInv, [Next]_vars, ~littered', ~purging'
  PROVE  /\ ~littered /\ ~Crash /\ ~PowerLoss
         /\ purging => files' = {} /\ tmp' = {}
<1>1. ~littered /\ ~Crash /\ ~PowerLoss
  <2>1. ~Crash /\ ~PowerLoss
    BY DEF Crash, PowerLoss, Reboots
  <2>2. ASSUME NEW w \in Writers, Writing(w) PROVE littered' = littered
    BY <2>2 DEF Writing, FindDirs, MakeDirs, SyncDirs, DirsFail, Stage, Admit, Refuse, Rename,
       RenameFails, Fsync, FsyncFails, Commit,
     CommitFails, FinalizeCommitted, FinalizeOrphan, FinalizeStaged, Delete, Unlink, SyncUnlink, Unlinks,
     historyVars
  <2>3. ASSUME NEW r \in Readers, Reading(r) PROVE littered' = littered
    BY <2>3, ReaderFields DEF historyVars
  <2>4. ASSUME Hosting \/ UNCHANGED vars PROVE littered' = littered
    BY <2>4 DEF Hosting, Load, Unload, PurgeRows, PurgeFiles, PurgeFilesFails, Checkpoint, vars, historyVars
  <2> QED
    BY <2>1, <2>2, <2>3, <2>4 DEF Next
<1>2. CASE PurgeFiles
  BY <1>1, <1>2 DEF PurgeFiles
<1>3. CASE ~PurgeFiles
  <2>1. ~purging
    BY <1>1, <1>3 DEF Next, Writing, FindDirs, MakeDirs, SyncDirs, DirsFail, Stage, Admit, Refuse,
       Rename, RenameFails, Fsync, FsyncFails, Commit,
     CommitFails, FinalizeCommitted, FinalizeOrphan, FinalizeStaged, Delete, Unlink, SyncUnlink,
     Reading, LookUp, ReadWithInfo, ReadFile, Opening, Hosting, Load, Unload, PurgeRows, PurgeFilesFails,
     Checkpoint, vars, engineVars
  <2> QED
    BY <1>1, <2>1
<1> QED
  BY <1>2, <1>3

(* An owner keeps the file, commits it, or unlinks it.                     *)
LEMMA FileKept ==
  ASSUME BlobInv, [Next]_vars, ~littered', ~purging', NEW b \in files', NEW w \in Writers, OwnsFile(w, b)
  PROVE  OwnsFile(w, b)' \/ b \in Indexed'
<1>1. CASE writer'[w] = writer[w]
  BY <1>1 DEF OwnsFile
<1>2. CASE Fsync(w) \/ CommitFails(w)
  <2>1. \E s \in {"synced", "undo"} : s \in Steps /\ Goto(w, s)
    BY <1>2 DEF Fsync, CommitFails, Steps
  <2>2. writer[w].step \in {"renamed", "synced"}
    BY <1>2 DEF Fsync, CommitFails
  <2>3. writer'[w].step \in {"synced", "undo"} /\ writer'[w].id = writer[w].id
    BY <2>1, GotoFields DEF BlobInv
  <2> QED
    BY <2>2, <2>3 DEF OwnsFile, Dropping
<1>3. CASE Commit(w)
  <2>1. /\ row \in [Names -> Ids] /\ writer[w].name \in Names /\ b = writer[w].id
        /\ b # NoBlob /\ row' = [row EXCEPT ![writer[w].name] = writer[w].id]
    BY <1>3 DEF Commit, Commits, OwnsFile, Dropping, BlobInv, Types, Rows, Transactions, Carrying, Holding
  <2> QED
    BY <2>1 DEF Indexed
<1>4. ~(FinalizeCommitted(w) \/ FinalizeOrphan(w) \/ Unlink(w))
  BY DEF FinalizeCommitted, FinalizeOrphan, Unlink, Unlinks, OwnsFile, Dropping
<1>5. ~FsyncFails(w)
  BY DEF FsyncFails
<1>6. ASSUME NEW n \in Names PROVE ~Delete(w, n) /\ \A s \in Sizes : ~Stage(w, n, s)
  BY DEF Stage, Delete, OwnsFile, Dropping
<1>7. ~(\/ Admit(w) \/ Refuse(w) \/ Rename(w) \/ RenameFails(w) \/ FinalizeStaged(w) \/ SyncUnlink(w)
        \/ FindDirs(w) \/ MakeDirs(w) \/ SyncDirs(w) \/ DirsFail(w))
  BY DEF FindDirs, MakeDirs, SyncDirs, DirsFail, Admit, Refuse, Rename, RenameFails, FinalizeStaged,
     SyncUnlink, OwnsFile, Dropping
<1>8. ASSUME NEW v \in Writers, Writing(v), v # w PROVE writer'[w] = writer[w]
  BY <1>8, OthersKept
<1>9. ASSUME NEW r \in Readers, Reading(r) PROVE writer'[w] = writer[w]
  BY <1>9, ReaderFields
<1>10. Hosting \/ UNCHANGED vars => writer'[w] = writer[w]
  BY DEF Hosting, Load, Unload, PurgeRows, PurgeFiles, PurgeFilesFails, Checkpoint, vars
<1> QED
  BY <1>1, <1>2, <1>3, <1>4, <1>5, <1>6, <1>7, <1>8, <1>9, <1>10, StillTidy DEF Next, Writing

LEMMA TmpKept ==
  ASSUME BlobInv, [Next]_vars, ~littered', ~purging', NEW b \in tmp', NEW w \in Writers, OwnsTmp(w, b)
  PROVE  OwnsTmp(w, b)'
<1>1. CASE writer'[w] = writer[w]
  BY <1>1 DEF OwnsTmp
<1>2. CASE Admit(w)
  BY <1>2, AdmitFields DEF OwnsTmp
<1>3. CASE Refuse(w) \/ RenameFails(w)
  <2>1. Goto(w, "unstage") /\ "unstage" \in Steps
    BY <1>3 DEF Refuse, RenameFails, Steps
  <2> QED
    BY <2>1, GotoFields DEF BlobInv, OwnsTmp
<1>4. ~(Rename(w) \/ FinalizeStaged(w))
  BY DEF Rename, FinalizeStaged, OwnsTmp
<1>5. ~(\/ Fsync(w) \/ FsyncFails(w) \/ Commit(w) \/ CommitFails(w) \/ FinalizeCommitted(w)
        \/ FinalizeOrphan(w) \/ Unlink(w) \/ SyncUnlink(w)
        \/ FindDirs(w) \/ MakeDirs(w) \/ SyncDirs(w) \/ DirsFail(w))
  BY DEF FindDirs, MakeDirs, SyncDirs, DirsFail, Fsync, FsyncFails, Commit, CommitFails,
     FinalizeCommitted, FinalizeOrphan, Unlink, SyncUnlink,
         OwnsTmp
<1>6. ASSUME NEW n \in Names, NEW s \in Sizes PROVE ~Stage(w, n, s)
  BY DEF Stage, OwnsTmp
<1>7. ASSUME NEW n \in Names PROVE ~Delete(w, n)
  BY DEF Delete, OwnsTmp
<1>8. ASSUME NEW v \in Writers, Writing(v), v # w PROVE writer'[w] = writer[w]
  BY <1>8, OthersKept
<1>9. ASSUME NEW r \in Readers, Reading(r) PROVE writer'[w] = writer[w]
  BY <1>9, ReaderFields
<1>10. Hosting \/ UNCHANGED vars => writer'[w] = writer[w]
  BY DEF Hosting, Load, Unload, PurgeRows, PurgeFiles, PurgeFilesFails, Checkpoint, vars
<1> QED
  BY <1>1, <1>2, <1>3, <1>4, <1>5, <1>6, <1>7, <1>8, <1>9, <1>10, StillTidy DEF Next, Writing

LEMMA OwnedStep == ASSUME BlobInv, [Next]_vars PROVE Owned'
<1>1. ASSUME undone' # {} PROVE littered'
  <2>1. CASE Crash \/ PowerLoss
    BY <2>1 DEF Crash, PowerLoss, Reboots
  <2>2. CASE ~Crash /\ ~PowerLoss
    <3>1. undone' = undone
      BY <2>2 DEF Next, Writing, FindDirs, MakeDirs, SyncDirs, DirsFail, Stage, Admit, Refuse, Rename,
         RenameFails, Fsync, FsyncFails, Commit,
         CommitFails, FinalizeCommitted, FinalizeOrphan, FinalizeStaged, Delete, Unlink, SyncUnlink,
         Reading, LookUp, ReadWithInfo, ReadFile, Opening, Hosting, Load, Unload, PurgeRows, PurgeFiles,
         PurgeFilesFails, Checkpoint, vars, historyVars
    <3>2. littered' = littered \/ littered' = TRUE
      BY <2>2 DEF Next, Writing, FindDirs, MakeDirs, SyncDirs, DirsFail, Stage, Admit, Refuse, Rename,
         RenameFails, Fsync, FsyncFails, Commit,
         CommitFails, FinalizeCommitted, FinalizeOrphan, FinalizeStaged, Delete, Unlink, SyncUnlink,
         Unlinks,
         Reading, LookUp, ReadWithInfo, ReadFile, Opening, Hosting, Load, Unload, PurgeRows, PurgeFiles,
         PurgeFilesFails, Checkpoint, vars, historyVars
    <3> QED
      BY <1>1, <3>1, <3>2 DEF BlobInv, Owned
  <2> QED
    BY <2>1, <2>2
<1>2. ASSUME ~littered', ~purging', NEW b \in files'
      PROVE  b \in Indexed' \/ \E w \in Writers : OwnsFile(w, b)'
  <2>0. ~littered /\ ~purging /\ undone' = {} /\ ~PowerLoss
    BY <1>1, <1>2, StillTidy
  <2>1. CASE \E w \in Writers : OwnsFile(w, b)
    BY <1>2, <2>1, FileKept
  <2>2. CASE b \in Indexed /\ b \notin Indexed'
    <3>1. PICK n \in Names : row[n] = b
      BY <2>2 DEF Indexed
    <3>2. row \in [Names -> Ids] /\ row'[n] # b
      BY <1>2, <2>2 DEF Indexed, BlobInv, Types, Rows
    <3>3. ASSUME NEW w \in Writers, Commit(w) PROVE OwnsFile(w, b)'
      <4>1. writer[w].name = n
        BY <3>1, <3>2, <3>3 DEF Commit, Commits
      <4>2. writer[w].old = b
        BY <3>1, <3>3, <4>1 DEF Commit, BlobInv, Transactions, Holding
      <4>3. Goto(w, "committed") /\ "committed" \in Steps
        BY <3>3 DEF Commit, Steps
      <4>4. writer'[w].step = "committed" /\ writer'[w].old = writer[w].old
        BY <4>3, GotoFields DEF BlobInv
      <4> QED
        BY <4>2, <4>4 DEF OwnsFile, Dropping
    <3>4. ASSUME NEW w \in Writers, NEW m \in Names, Delete(w, m) PROVE OwnsFile(w, b)'
      <4>1. m = n
        BY <3>1, <3>2, <3>4 DEF Delete, Commits
      <4>2. writer'[w] = [step |-> "deleted", name |-> m, id |-> NoBlob, old |-> row[m]]
        BY <3>4, DeleteFields
      <4> QED
        BY <3>1, <4>1, <4>2 DEF OwnsFile, Dropping
    <3>5. ASSUME ~\E w \in Writers : Commit(w), ~\E w \in Writers, m \in Names : Delete(w, m)
          PROVE  FALSE
      <4>1. ~PurgeRows
        BY <1>2 DEF PurgeRows
      <4>2. row' = row
        BY <2>0, <3>5, <4>1 DEF Next, Writing, FindDirs, MakeDirs, SyncDirs, DirsFail, Stage, Admit,
           Refuse, Rename, RenameFails, Fsync, FsyncFails,
           CommitFails, FinalizeCommitted, FinalizeOrphan, FinalizeStaged, Unlink, SyncUnlink,
           Reading, LookUp, ReadWithInfo, ReadFile, Opening, Hosting, Load, Unload, PurgeFiles,
           PurgeFilesFails, Checkpoint, Commits, Crash, vars, dbVars
      <4> QED
        BY <3>1, <3>2, <4>2
    <3> QED
      BY <3>3, <3>4, <3>5
  <2>3. CASE b \notin files
    <3>1. PICK w \in Writers : Rename(w) /\ b = writer[w].id
      BY <1>2, <2>0, <2>3 DEF Next, Writing, FindDirs, MakeDirs, SyncDirs, DirsFail, Stage, Admit,
         Refuse, Rename, RenameFails, Fsync, FsyncFails, Commit,
         CommitFails, FinalizeCommitted, FinalizeOrphan, FinalizeStaged, Delete, Unlink, SyncUnlink,
         Unlinks,
         Reading, LookUp, ReadWithInfo, ReadFile, Opening, Hosting, Load, Unload, PurgeRows, PurgeFiles,
         PurgeFilesFails, Checkpoint, Crash, vars, fsVars
    <3>2. Goto(w, "renamed") /\ "renamed" \in Steps
      BY <3>1 DEF Rename, Steps
    <3>3. writer'[w].step = "renamed" /\ writer'[w].id = writer[w].id
      BY <3>2, GotoFields DEF BlobInv
    <3> QED
      BY <3>1, <3>3 DEF OwnsFile
  <2>4. b \in files => b \in Indexed \/ \E w \in Writers : OwnsFile(w, b)
    BY <2>0 DEF BlobInv, Owned, OwnsFile
  <2> QED
    BY <2>1, <2>2, <2>3, <2>4
<1>3. ASSUME ~littered', ~purging', NEW b \in tmp' PROVE \E w \in Writers : OwnsTmp(w, b)'
  <2>0. ~littered /\ ~purging /\ ~PowerLoss
    BY <1>3, StillTidy
  <2>1. CASE b \in tmp
    BY <1>3, <2>0, <2>1, TmpKept DEF BlobInv, Owned, OwnsTmp
  <2>2. CASE b \notin tmp
    <3>1. PICK w \in Writers, n \in Names, s \in Sizes : Stage(w, n, s) /\ b = minted'
      BY <1>3, <2>0, <2>2 DEF Next, Writing, FindDirs, MakeDirs, SyncDirs, DirsFail, Stage, Admit,
         Refuse, Rename, RenameFails, Fsync, FsyncFails, Commit,
         CommitFails, FinalizeCommitted, FinalizeOrphan, FinalizeStaged, Delete, Unlink, SyncUnlink,
         Reading, LookUp, ReadWithInfo, ReadFile, Opening, Hosting, Load, Unload, PurgeRows, PurgeFiles,
         PurgeFilesFails, Checkpoint, Crash, vars, fsVars
    <3>2. writer'[w] = [step |-> "staged", name |-> n, id |-> minted', old |-> NoBlob]
      BY <1>3, <2>0, <3>1 DEF Stage, Done, BlobInv, Types
    <3> QED
      BY <3>1, <3>2 DEF OwnsTmp
  <2> QED
    BY <2>1, <2>2
<1> QED
  BY <1>1, <1>2, <1>3 DEF Owned, OwnsFile, OwnsTmp

-----------------------------------------------------------------------------
(* The theorems.                                                           *)
LEMMA InitInv == Init => BlobInv
<1> SUFFICES ASSUME Init PROVE BlobInv
  OBVIOUS
<1>1. Types
  BY BlobAssumption, IdleTypes DEF Init, Types, Rows, Usages, Blobs, Ids, NoBlob
<1>2. Minted
  BY DEF Init, Minted, Idle, Ready, NoBlob
<1>3. \A w \in Writers : writer[w].step = "idle"
  BY DEF Init, Idle
<1>4. Transactions
  BY <1>3 DEF Transactions, Holding, Carrying
<1>5. Engine /\ Owned
  BY DEF Init, Engine, Owned
<1>6. Distinct /\ Placed
  BY <1>3 DEF Init, Distinct, Placed, Indexed, Carrying, Holding, Dropping
<1>7. Readings
  BY <1>3 DEF Init, Readings, Ready, Carrying, Holding
<1> QED
  BY <1>1, <1>2, <1>4, <1>5, <1>6, <1>7 DEF BlobInv

(* Whatever the calls, the faults and their order, who holds the           *)
(* connection, the index and the files of a store stay accounted for.      *)
THEOREM BlobInvariant == Spec => []BlobInv
<1>1. BlobInv /\ [Next]_vars => BlobInv'
  BY TypesStep, MintedStep, TransactionsStep, EngineStep, OwnedStep, DistinctStep, PlacedStep, ReadingsStep
  DEF BlobInv
<1> QED
  BY InitInv, <1>1, PTL DEF Spec

(* blobs.rs writes the file before the row and unlinks it after: a row     *)
(* never points at a missing file, at any crash of the process, unless a   *)
(* power loss has taken back a commit or the directory.                    *)
THEOREM RowAlwaysHasFile == Spec => []RowHasFile
<1>1. BlobInv => RowHasFile
  BY DEF BlobInv, Placed, RowHasFile
<1> QED
  BY <1>1, BlobInvariant, PTL

(* read_with_info opens the file under the connection's mutex and never    *)
(* misses it; the other reads miss only a blob that is gone.               *)
THEOREM ReadsAlwaysAnswered == Spec => []ReadsAnswered
<1>1. BlobInv => ReadsAnswered
  BY DEF BlobInv, Readings, ReadsAnswered
<1> QED
  BY <1>1, BlobInvariant, PTL

(* finalize_write_outcome and delete leave no file behind that the index   *)
(* does not hold, whichever rename or commit failed.                       *)
THEOREM NothingEverOrphaned == Spec => []NothingOrphaned
<1>1. BlobInv => NothingOrphaned
  <2> SUFFICES ASSUME BlobInv, ~littered, ~purging, \A w \in Writers : writer[w] = Idle
               PROVE  files = Indexed /\ tmp = {}
    BY DEF NothingOrphaned
  <2>1. Owned /\ Placed
    BY DEF BlobInv, Owned
  <2>2. \A w \in Writers : writer[w].step = "idle"
    BY DEF Idle
  <2>3. files \subseteq Indexed /\ tmp = {}
    BY <2>1, <2>2 DEF Owned, Dropping
  <2> QED
    BY <2>1, <2>3 DEF Placed
<1> QED
  BY <1>1, BlobInvariant, PTL

(* The quota check and the triggers are in one transaction: no commit      *)
(* takes an instance over its quota, however many writes are in flight.    *)
THEOREM QuotaAlwaysKept == Spec => QuotaKept
<1>1. ASSUME BlobInv, [Next]_vars, usage # None, usage' # None, usage'.used > usage.used
      PROVE  usage'.used <= usage'.quota \/ faults' # faults
  <2>0. /\ usage.used \in Int /\ usage.quota \in Int /\ faults \in Nat
        /\ row \in [Names -> Ids] /\ size \in [Blobs -> Nat]
    BY <1>1 DEF BlobInv, Types, Usages, Rows
  <2>1. ASSUME NEW w \in Writers, Commit(w) PROVE usage'.used <= usage'.quota
    <3>1. usage' = [used |-> Charged(w), quota |-> usage.quota] /\ Charged(w) <= usage.quota
      BY <1>1, <2>1 DEF Commit, Commits, BlobInv, Transactions, Holding
    <3> QED
      BY <3>1
  <2>2. ASSUME NEW w \in Writers, NEW n \in Names, Delete(w, n) PROVE FALSE
    <3>1. usage'.used = usage.used - SizeOf(row[n])
      BY <1>1, <2>2 DEF Delete, Commits
    <3>2. SizeOf(row[n]) \in Nat
      BY <2>0, BlobAssumption DEF SizeOf, Ids, Blobs, NoBlob
    <3> QED
      BY <1>1, <2>0, <3>1, <3>2
  <2>3. CASE Crash \/ PowerLoss
    BY <2>0, <2>3 DEF Crash, PowerLoss, Reboots
  <2>4. ASSUME NEW q \in Quotas, Load(q) PROVE FALSE
    BY <1>1, <2>0, <2>4 DEF Load, Commits
  <2>5. ~PurgeRows
    BY <1>1 DEF PurgeRows, Commits
  <2>6. usage' = usage => FALSE
    BY <1>1, <2>0
  <2> QED
    BY <1>1, <2>1, <2>2, <2>3, <2>4, <2>5, <2>6 DEF Next, Writing, FindDirs, MakeDirs, SyncDirs,
       DirsFail, Stage, Admit, Refuse, Rename, RenameFails,
       Fsync, FsyncFails, CommitFails, FinalizeCommitted, FinalizeOrphan, FinalizeStaged, Unlink,
       SyncUnlink,
       Reading, LookUp, ReadWithInfo, ReadFile, Opening, Hosting, Unload, PurgeFiles, PurgeFilesFails,
       Checkpoint, vars, dbVars
<1>2. BlobInv /\ [Next]_vars =>
        [usage # None /\ usage' # None /\ usage'.used > usage.used =>
           usage'.used <= usage'.quota \/ faults' # faults]_vars
  BY <1>1
<1> QED
  BY <1>2, BlobInvariant, PTL DEF Spec, QuotaKept
-----------------------------------------------------------------------------
(* Sums over finite sets: the total that the triggers maintain.            *)

(* A non-empty set of subsets of a finite set has a smallest member: the   *)
(* form of induction that the lemmas about sums use.                       *)
LEMMA SmallestSet ==
  ASSUME NEW S, IsFiniteSet(S), NEW T \in SUBSET (SUBSET S), T # {}
  PROVE  \E x \in T : \A y \in SUBSET x : y # x => y \notin T
<1>1. FiniteSubsetsOf(S) = SUBSET S
  BY FS_FiniteSubsetsOfFinite
<1>2. IsWellFoundedOn(StrictSubsetOrdering(S), SUBSET S)
  BY <1>1, FS_StrictSubsetOrderingWellFounded
<1>3. PICK x \in T : \A y \in T : ~(<<y, x>> \in StrictSubsetOrdering(S))
  BY <1>2, WFMin
<1> QED
  BY <1>3 DEF StrictSubsetOrdering

(* The recursive function that SumFunctionOnSet is the value of, on the    *)
(* subsets of S; First is the element it takes away.                       *)
First(s) == CHOOSE x \in s : TRUE

Totals(f, S, iter) ==
  iter = [s \in SUBSET S |-> IF s = {} THEN 0 ELSE f[First(s)] + iter[s \ {First(s)}]]

LEMMA SumByTotals ==
  ASSUME NEW f, NEW S
  PROVE  SumFunctionOnSet(f, S) = (CHOOSE iter : Totals(f, S, iter))[S]
  BY DEF SumFunctionOnSet, FoldFunctionOnSet, MapThenFoldSet, Totals, First

LEMMA FirstOf == \A s : s # {} => First(s) \in s
  BY DEF First

(* Two of them agree where both are defined ...                            *)
LEMMA TotalsAgree ==
  ASSUME NEW f, NEW S, IsFiniteSet(S), NEW A \in SUBSET S, NEW B \in SUBSET S,
         NEW g, Totals(f, A, g), NEW h, Totals(f, B, h), NEW s \in (SUBSET A) \cap (SUBSET B)
  PROVE  g[s] = h[s]
<1> DEFINE T == {x \in (SUBSET A) \cap (SUBSET B) : g[x] # h[x]}
<1> SUFFICES ASSUME T # {} PROVE FALSE
  OBVIOUS
<1>1. PICK x \in T : \A y \in SUBSET x : y # x => y \notin T
  <2>1. T \in SUBSET (SUBSET S)
    OBVIOUS
  <2> HIDE DEF T
  <2> QED
    BY <2>1, SmallestSet
<1>2. x # {}
  BY DEF Totals
<1>3. First(x) \in x /\ x \ {First(x)} # x
  BY <1>2, FirstOf
<1>4. g[x \ {First(x)}] = h[x \ {First(x)}]
  BY <1>1, <1>3
<1>5. g[x] = f[First(x)] + g[x \ {First(x)}]
  BY <1>2 DEF Totals
<1>6. h[x] = f[First(x)] + h[x \ {First(x)}]
  BY <1>2 DEF Totals
<1> QED
  BY <1>4, <1>5, <1>6

(* ... and there is one on every finite set.                               *)
LEMMA TotalsExist ==
  ASSUME NEW f, NEW S, IsFiniteSet(S)
  PROVE  \E iter : Totals(f, S, iter)
<1> DEFINE T == {x \in SUBSET S : ~\E g : Totals(f, x, g)}
<1> SUFFICES ASSUME T # {} PROVE FALSE
  OBVIOUS
<1>1. PICK x \in T : \A y \in SUBSET x : y # x => y \notin T
  <2>1. T \in SUBSET (SUBSET S)
    OBVIOUS
  <2> HIDE DEF T
  <2> QED
    BY <2>1, SmallestSet
<1> DEFINE of(y) == CHOOSE g : Totals(f, y, g)
           total(y) == IF y = {} THEN 0 ELSE f[First(y)] + of(y \ {First(y)})[y \ {First(y)}]
           all == [y \in SUBSET x |-> total(y)]
<1>2. \A y \in SUBSET x : y # x => Totals(f, y, of(y))
  BY <1>1
<1>3. ASSUME NEW y \in SUBSET x, y # {} PROVE all[y \ {First(y)}] = of(y \ {First(y)})[y \ {First(y)}]
  <2> DEFINE z == y \ {First(y)}
  <2>1. z \in SUBSET x /\ z # x
    BY <1>3, FirstOf
  <2>2. Totals(f, z, of(z))
    BY <1>2, <2>1
  <2>3. CASE z = {}
    <3>1. of(z)[z] = 0
      BY <2>2, <2>3 DEF Totals
    <3>2. all[z] = 0
      BY <2>3
    <3> QED
      BY <3>1, <3>2
  <2>4. CASE z # {}
    <3> DEFINE v == z \ {First(z)}
    <3>1. v \in SUBSET z /\ v # x /\ v \in SUBSET x /\ z \in SUBSET S /\ v \in SUBSET S
      BY <2>1, <2>4, FirstOf
    <3>2. Totals(f, v, of(v))
      BY <1>2, <3>1
    <3>3. of(z)[z] = f[First(z)] + of(z)[v]
      <4> HIDE DEF of, z
      <4> QED
        BY <2>2, <2>4 DEF Totals
    <3>4. of(z)[v] = of(v)[v]
      <4> HIDE DEF of, z, v
      <4> QED
        BY <2>2, <3>1, <3>2, TotalsAgree
    <3>5. all[z] = total(z)
      BY <2>1
    <3> QED
      BY <3>3, <3>4, <3>5, <2>4
  <2> QED
    BY <2>3, <2>4
<1>4. Totals(f, x, all)
  <2>1. \A y \in SUBSET x : y # {} => total(y) = f[First(y)] + all[y \ {First(y)}]
    BY <1>3
  <2>2. \A y \in SUBSET x : y = {} => total(y) = 0
    OBVIOUS
  <2>3. all = [y \in SUBSET x |-> total(y)]
    OBVIOUS
  <2> HIDE DEF total, all
  <2>4. \A y \in SUBSET x : total(y) = IF y = {} THEN 0 ELSE f[First(y)] + all[y \ {First(y)}]
    BY <2>1, <2>2
  <2> QED
    BY <2>3, <2>4 DEF Totals
<1> QED
  BY <1>1, <1>4

(* So a sum takes one element away, and then it may be any element.        *)
LEMMA SumUnfolds ==
  ASSUME NEW f, NEW S, IsFiniteSet(S)
  PROVE  SumFunctionOnSet(f, S) =
           IF S = {} THEN 0
           ELSE f[First(S)] + SumFunctionOnSet(f, S \ {First(S)})
<1> DEFINE of(y) == CHOOSE g : Totals(f, y, g)
           z == S \ {First(S)}
<1>1. Totals(f, S, of(S))
  BY TotalsExist
<1>2. Totals(f, z, of(z)) /\ z \in SUBSET S
  BY TotalsExist, FS_Subset
<1>3. SumFunctionOnSet(f, S) = of(S)[S] /\ SumFunctionOnSet(f, z) = of(z)[z]
  BY SumByTotals
<1>4. of(S)[z] = of(z)[z]
  <2> HIDE DEF of, z
  <2> QED
    BY <1>1, <1>2, TotalsAgree
<1>5. of(S)[S] = IF S = {} THEN 0 ELSE f[First(S)] + of(S)[z]
  <2> HIDE DEF of
  <2> QED
    BY <1>1 DEF Totals
<1> QED
  BY <1>3, <1>4, <1>5

LEMMA SumEmpty == ASSUME NEW f PROVE SumFunctionOnSet(f, {}) = 0
  BY SumUnfolds, FS_EmptySet

LEMMA SumNat ==
  ASSUME NEW f, NEW S, IsFiniteSet(S), \A x \in S : f[x] \in Nat
  PROVE  SumFunctionOnSet(f, S) \in Nat
<1> DEFINE T == {x \in SUBSET S : SumFunctionOnSet(f, x) \notin Nat}
<1> SUFFICES ASSUME T # {} PROVE FALSE
  OBVIOUS
<1>1. PICK x \in T : \A y \in SUBSET x : y # x => y \notin T
  <2>1. T \in SUBSET (SUBSET S)
    OBVIOUS
  <2> HIDE DEF T
  <2> QED
    BY <2>1, SmallestSet
<1>2. x # {}
  <2>1. SumFunctionOnSet(f, {}) \in Nat
    BY SumEmpty
  <2> QED
    BY <1>1, <2>1
<1>3. First(x) \in x /\ x \ {First(x)} # x
  BY <1>2, FirstOf
<1>4. SumFunctionOnSet(f, x \ {First(x)}) \in Nat /\ f[First(x)] \in Nat
  BY <1>1, <1>3
<1>5. SumFunctionOnSet(f, x) = f[First(x)] + SumFunctionOnSet(f, x \ {First(x)})
  BY <1>2, FS_Subset, SumUnfolds
<1> QED
  BY <1>4, <1>5

LEMMA SumRemove ==
  ASSUME NEW f, NEW S, IsFiniteSet(S), \A x \in S : f[x] \in Nat, NEW e \in S
  PROVE  SumFunctionOnSet(f, S) = f[e] + SumFunctionOnSet(f, S \ {e})
<1> DEFINE Sum(s) == SumFunctionOnSet(f, s)
           T == {x \in SUBSET S : \E d \in x : Sum(x) # f[d] + Sum(x \ {d})}
<1>0. \A s \in SUBSET S : IsFiniteSet(s) /\ Sum(s) \in Nat
  BY FS_Subset, SumNat
<1> SUFFICES ASSUME T # {} PROVE FALSE
  OBVIOUS
<1>1. PICK x \in T : \A y \in SUBSET x : y # x => y \notin T
  <2>1. T \in SUBSET (SUBSET S)
    OBVIOUS
  <2> HIDE DEF T
  <2> QED
    BY <2>1, SmallestSet
<1>2. PICK d \in x : Sum(x) # f[d] + Sum(x \ {d})
  BY <1>1
<1> DEFINE p == First(x)
<1>3. p \in x /\ x \in SUBSET S
  BY <1>2, FirstOf
<1>4. Sum(x) = f[p] + Sum(x \ {p})
  BY <1>0, <1>3, SumUnfolds
<1> HIDE DEF p
<1>5. p # d
  BY <1>2, <1>4
<1>6. Sum(x \ {p}) = f[d] + Sum((x \ {p}) \ {d})
  BY <1>1, <1>3, <1>5
<1>7. Sum(x \ {d}) = f[p] + Sum((x \ {d}) \ {p})
  BY <1>1, <1>3, <1>5
<1>8. (x \ {p}) \ {d} = (x \ {d}) \ {p}
  OBVIOUS
<1>9. Sum((x \ {p}) \ {d}) \in Nat /\ f[p] \in Nat /\ f[d] \in Nat
  BY <1>0, <1>3
<1>10. Sum(x) = f[p] + (f[d] + Sum((x \ {p}) \ {d}))
  BY <1>4, <1>6
<1>11. Sum(x \ {d}) = f[p] + Sum((x \ {p}) \ {d})
  BY <1>7, <1>8
<1> HIDE DEF Sum
<1> QED
  BY <1>2, <1>9, <1>10, <1>11

LEMMA SumAdd ==
  ASSUME NEW f, NEW S, IsFiniteSet(S), \A x \in S : f[x] \in Nat,
         NEW e, e \notin S, f[e] \in Nat
  PROVE  SumFunctionOnSet(f, S \cup {e}) = f[e] + SumFunctionOnSet(f, S)
<1>1. IsFiniteSet(S \cup {e}) /\ (S \cup {e}) \ {e} = S
  BY FS_AddElement
<1> QED
  BY <1>1, SumRemove

(* A sum looks at its own elements only.                                   *)
LEMMA SumSame ==
  ASSUME NEW f, NEW g, NEW S, IsFiniteSet(S), \A x \in S : f[x] = g[x]
  PROVE  SumFunctionOnSet(f, S) = SumFunctionOnSet(g, S)
<1> DEFINE T == {x \in SUBSET S : SumFunctionOnSet(f, x) # SumFunctionOnSet(g, x)}
<1> SUFFICES ASSUME T # {} PROVE FALSE
  OBVIOUS
<1>1. PICK x \in T : \A y \in SUBSET x : y # x => y \notin T
  <2>1. T \in SUBSET (SUBSET S)
    OBVIOUS
  <2> HIDE DEF T
  <2> QED
    BY <2>1, SmallestSet
<1>2. x # {}
  BY <1>1, SumEmpty
<1>3. First(x) \in x /\ x \ {First(x)} # x /\ IsFiniteSet(x)
  BY <1>2, FirstOf, FS_Subset
<1>4. SumFunctionOnSet(f, x \ {First(x)}) = SumFunctionOnSet(g, x \ {First(x)})
  BY <1>1, <1>3
<1>5. f[First(x)] = g[First(x)]
  BY <1>3
<1>6. /\ SumFunctionOnSet(f, x) = f[First(x)] + SumFunctionOnSet(f, x \ {First(x)})
      /\ SumFunctionOnSet(g, x) = g[First(x)] + SumFunctionOnSet(g, x \ {First(x)})
  BY <1>2, <1>3, SumUnfolds
<1> QED
  BY <1>4, <1>5, <1>6

-----------------------------------------------------------------------------
(* The accounting.                                                         *)

LEMMA IndexFinite ==
  ASSUME NEW r \in Rows
  PROVE  IndexOf(r) \subseteq Blobs /\ IsFiniteSet(IndexOf(r))
<1>1. IndexOf(r) \subseteq Blobs
  BY BlobAssumption DEF IndexOf, Rows, Ids, Blobs, NoBlob
<1>2. IsFiniteSet(Blobs)
  BY FS_Interval, BlobAssumption DEF Blobs
<1> QED
  BY <1>1, <1>2, FS_Subset

(* What is balanced stays so while it is neither read nor written.         *)
LEMMA BalancedStays ==
  ASSUME BlobInv, [Next]_vars, NEW r \in Rows, NEW u, \A n \in Names : r[n] <= minted,
         Balanced(r, u, size)
  PROVE  Balanced(r, u, size')
<1>1. \A b \in IndexOf(r) : size[b] = size'[b]
  <2>1. \A b \in IndexOf(r) : b \in Blobs /\ b <= minted
    BY IndexFinite DEF IndexOf
  <2> QED
    BY <2>1, SizeStays
<1>2. SumFunctionOnSet(size, IndexOf(r)) = SumFunctionOnSet(size', IndexOf(r))
  BY <1>1, IndexFinite, SumSame
<1> QED
  BY <1>2 DEF Balanced

(* DELETE and INSERT of one name, each with its trigger.                   *)
LEMMA BalancedWithout ==
  ASSUME size \in [Blobs -> Nat], NEW r \in Rows, NEW u, NEW n \in Names,
         Balanced(r, u, size), r[n] # NoBlob
  PROVE  /\ u # None
         /\ u.quota \in Quotas
         /\ IndexOf([r EXCEPT ![n] = NoBlob]) = IndexOf(r) \ {r[n]}
         /\ u.used - SizeOf(r[n]) = SumFunctionOnSet(size, IndexOf([r EXCEPT ![n] = NoBlob]))
<1>1. r[n] \in IndexOf(r) /\ r[n] \in Blobs
  BY IndexFinite, BlobAssumption DEF IndexOf
<1>2. u # None /\ u.quota \in Quotas /\ u.used = SumFunctionOnSet(size, IndexOf(r))
  BY <1>1 DEF Balanced
<1>3. IndexOf([r EXCEPT ![n] = NoBlob]) = IndexOf(r) \ {r[n]}
  <2>1. \A m \in Names : m # n => r[m] # r[n]
    BY DEF Balanced
  <2> QED
    BY <2>1 DEF IndexOf, Rows
<1>4. /\ IsFiniteSet(IndexOf(r) \ {r[n]})
      /\ \A b \in IndexOf(r) : size[b] \in Nat
  BY IndexFinite, FS_Subset
<1>5. SumFunctionOnSet(size, IndexOf(r)) = size[r[n]] + SumFunctionOnSet(size, IndexOf(r) \ {r[n]})
  BY <1>1, <1>4, IndexFinite, SumRemove
<1>6. SumFunctionOnSet(size, IndexOf(r) \ {r[n]}) \in Nat /\ size[r[n]] \in Nat
  BY <1>1, <1>4, SumNat
<1>7. SizeOf(r[n]) = size[r[n]]
  BY DEF SizeOf
<1>8. u.used - SizeOf(r[n]) = SumFunctionOnSet(size, IndexOf(r) \ {r[n]})
  BY <1>2, <1>5, <1>6, <1>7
<1> QED
  BY <1>2, <1>3, <1>8

LEMMA BalancedWith ==
  ASSUME size \in [Blobs -> Nat], NEW r \in Rows, NEW n \in Names, NEW b \in Blobs,
         r[n] = NoBlob, b \notin IndexOf(r)
  PROVE  /\ IndexOf([r EXCEPT ![n] = b]) = IndexOf(r) \cup {b}
         /\ SumFunctionOnSet(size, IndexOf([r EXCEPT ![n] = b])) =
              SumFunctionOnSet(size, IndexOf(r)) + SizeOf(b)
         /\ SumFunctionOnSet(size, IndexOf(r)) \in Nat
<1>1. b # NoBlob
  BY BlobAssumption DEF Blobs, NoBlob
<1>2. IndexOf([r EXCEPT ![n] = b]) = IndexOf(r) \cup {b}
  BY <1>1 DEF IndexOf, Rows
<1>3. \A c \in IndexOf(r) : size[c] \in Nat
  BY IndexFinite
<1>4. SumFunctionOnSet(size, IndexOf(r)) \in Nat /\ size[b] \in Nat
  BY <1>3, IndexFinite, SumNat
<1>5. SumFunctionOnSet(size, IndexOf(r) \cup {b}) = size[b] + SumFunctionOnSet(size, IndexOf(r))
  BY <1>3, <1>4, IndexFinite, SumAdd
<1>6. SizeOf(b) = size[b]
  BY <1>1 DEF SizeOf
<1>7. SumFunctionOnSet(size, IndexOf(r) \cup {b}) = SumFunctionOnSet(size, IndexOf(r)) + SizeOf(b)
  BY <1>4, <1>5, <1>6
<1> QED
  BY <1>2, <1>4, <1>7
(* The rows a power loss may restore were all current once.                *)
LEMMA DbChange ==
  ASSUME BlobInv, [Next]_vars
  PROVE  /\ unsynced' \subseteq unsynced \cup {[row |-> row, usage |-> usage]}
         /\ \/ row' = row /\ usage' = usage
            \/ \E w \in Writers : Commit(w)
            \/ \E w \in Writers, n \in Names : Delete(w, n)
            \/ \E q \in Quotas : Load(q)
            \/ PurgeRows
            \/ \E db \in unsynced : row' = db.row /\ usage' = db.usage
<1>1. CASE PowerLoss
  BY <1>1 DEF PowerLoss
<1>2. ASSUME NEW w \in Writers, Writing(w)
      PROVE  /\ unsynced' \subseteq unsynced \cup {[row |-> row, usage |-> usage]}
             /\ (row' = row /\ usage' = usage) \/ Commit(w) \/ \E n \in Names : Delete(w, n)
  BY <1>2 DEF Writing, FindDirs, MakeDirs, SyncDirs, DirsFail, Stage, Admit, Refuse, Rename,
     RenameFails, Fsync, FsyncFails, Commit, CommitFails,
     FinalizeCommitted, FinalizeOrphan, FinalizeStaged, Delete, Unlink, SyncUnlink, Commits, dbVars
<1>3. ASSUME NEW r \in Readers, Reading(r) PROVE UNCHANGED dbVars
  BY <1>3, ReaderFields
<1>4. CASE Hosting
  BY <1>4 DEF Hosting, Load, Unload, PurgeRows, PurgeFiles, PurgeFilesFails, Checkpoint, Commits, dbVars
<1>5. CASE Crash \/ UNCHANGED vars
  BY <1>5 DEF Crash, vars, dbVars
<1> QED
  BY <1>1, <1>2, <1>3, <1>4, <1>5 DEF Next, dbVars

LEMMA IndexedIsIndexOf == Indexed = IndexOf(row)
  BY DEF Indexed, IndexOf

LEMMA BalancedStep ==
  ASSUME BlobInv, Accounted, [Next]_vars
  PROVE  Balanced(row', usage', size')
<1>0. /\ row \in Rows /\ usage \in Usages /\ size \in [Blobs -> Nat]
      /\ \A n \in Names : row[n] <= minted
      /\ Balanced(row, usage, size)
  BY DEF BlobInv, Types, Minted, Accounted
<1>1. CASE row' = row /\ usage' = usage
  BY <1>0, <1>1, BalancedStays
<1>2. ASSUME NEW w \in Writers, Commit(w) PROVE Balanced(row', usage', size')
  <2> DEFINE n == writer[w].name
             b == writer[w].id
             old == writer[w].old
             bare == [row EXCEPT ![n] = NoBlob]
  <2>1. /\ n \in Names /\ b # NoBlob /\ old = row[n] /\ usage # None
        /\ b \notin IndexOf(row)
        /\ row' = [row EXCEPT ![n] = b]
        /\ usage' = [used |-> Charged(w), quota |-> usage.quota]
        /\ size' = size
    BY <1>2, IndexedIsIndexOf DEF Commit, Commits, BlobInv, Transactions, Accounted, Carrying, Holding,
       fsVars
  <2>2. b \in Blobs /\ b \in Ids /\ n \in Names
    <3>1. b \in Ids
      BY DEF BlobInv, Types, Calls
    <3> QED
      BY <2>1, <3>1, BlobAssumption DEF Ids, Blobs, NoBlob
  <2>3. bare \in Rows /\ bare[n] = NoBlob
    BY <1>0, <2>1, BlobAssumption DEF Rows, Ids, NoBlob
  <2>4. usage.quota \in Quotas /\ usage.used - SizeOf(old) = SumFunctionOnSet(size, IndexOf(bare))
    <3>1. CASE row[n] = NoBlob
      <4>1. bare = row
        BY <1>0, <2>1, <3>1 DEF Rows
      <4>2. SizeOf(old) = 0
        BY <2>1, <3>1 DEF SizeOf
      <4>3. usage.used \in Int /\ usage.quota \in Quotas
            /\ usage.used = SumFunctionOnSet(size, IndexOf(row))
        BY <1>0, <2>1 DEF Balanced, Usages
      <4> QED
        BY <4>1, <4>2, <4>3
    <3>2. CASE row[n] # NoBlob
      BY <1>0, <2>1, <3>2, BalancedWithout
    <3> QED
      BY <3>1, <3>2
  <2>5. IndexOf(bare) \subseteq IndexOf(row)
    BY <1>0, <2>1 DEF IndexOf, Rows
  <2>6. row' = [bare EXCEPT ![n] = b]
    BY <1>0, <2>1 DEF Rows
  <2> HIDE DEF bare
  <2>7. /\ SumFunctionOnSet(size, IndexOf(row')) = SumFunctionOnSet(size, IndexOf(bare)) + SizeOf(b)
        /\ SumFunctionOnSet(size, IndexOf(bare)) \in Nat
    <3>1. b \notin IndexOf(bare)
      BY <2>1, <2>5
    <3> HIDE DEF b, n
    <3>2. SumFunctionOnSet(size, IndexOf([bare EXCEPT ![n] = b])) = SumFunctionOnSet(size, IndexOf(bare)) + SizeOf(b)
      BY <1>0, <2>2, <2>3, <3>1, BalancedWith
    <3>3. SumFunctionOnSet(size, IndexOf(bare)) \in Nat
      BY <1>0, <2>2, <2>3, <3>1, BalancedWith
    <3> QED
      BY <2>6, <3>2, <3>3
  <2>8. usage'.used = SumFunctionOnSet(size, IndexOf(row')) /\ usage'.quota \in Quotas /\ usage' # None
    <3>1. Charged(w) = usage.used - SizeOf(old) + SizeOf(b)
      BY DEF Charged
    <3>2. usage' # None
      <4>1. usage.quota \in Int
        BY <1>0, <2>1 DEF Usages
      <4>2. SizeOf(b) \in Nat
        BY <1>0, <2>2 DEF SizeOf
      <4>3. Charged(w) \in Int
        BY <2>4, <2>7, <3>1, <4>2
      <4> QED
        BY <2>1, <4>1, <4>3, BlobAssumption
    <3> QED
      BY <2>1, <2>4, <2>7, <3>1, <3>2
  <2>9. \A m, k \in Names : row'[m] = row'[k] /\ m # k => row'[m] = NoBlob
    <3>1. \A m \in Names : row[m] # b
      BY <2>1 DEF IndexOf
    <3> QED
      BY <1>0, <2>1, <3>1 DEF Balanced, Rows
  <2> QED
    BY <2>1, <2>8, <2>9 DEF Balanced
<1>3. ASSUME NEW w \in Writers, NEW n \in Names, Delete(w, n) PROVE Balanced(row', usage', size')
  <2>1. /\ row[n] # NoBlob /\ row' = [row EXCEPT ![n] = NoBlob] /\ size' = size
        /\ usage # None => usage' = [used |-> usage.used - SizeOf(row[n]), quota |-> usage.quota]
    BY <1>3 DEF Delete, Commits, fsVars
  <2>2. /\ usage # None /\ usage.quota \in Quotas
        /\ usage.used - SizeOf(row[n]) = SumFunctionOnSet(size, IndexOf(row'))
    BY <1>0, <2>1, BalancedWithout
  <2>3. \A m, k \in Names : row'[m] = row'[k] /\ m # k => row'[m] = NoBlob
    BY <1>0, <2>1 DEF Balanced, Rows
  <2>4. usage' # None
    <3>1. usage.used \in Int /\ usage.quota \in Int
      BY <1>0, <2>2 DEF Usages
    <3>2. SizeOf(row[n]) \in Nat
      BY <1>0, <2>1, BlobAssumption DEF SizeOf, Rows, Ids, Blobs, NoBlob
    <3>3. usage' \in [used : Int, quota : Int]
      BY <2>1, <2>2, <3>1, <3>2
    <3> QED
      BY <3>3, BlobAssumption
  <2> QED
    BY <2>1, <2>2, <2>3, <2>4 DEF Balanced
<1>4. ASSUME NEW q \in Quotas, Load(q) PROVE Balanced(row', usage', size')
  <2>1. /\ row' = row /\ size' = size
        /\ usage' = [used |-> IF usage = None THEN 0 ELSE usage.used, quota |-> q]
    BY <1>4 DEF Load, Commits
  <2>2. usage = None => SumFunctionOnSet(size, IndexOf(row)) = 0
    BY <1>0, SumEmpty DEF Balanced
  <2>3. usage'.used = SumFunctionOnSet(size, IndexOf(row)) /\ usage'.quota \in Quotas
    BY <1>0, <2>1, <2>2 DEF Balanced
  <2>4. usage' # None
    <3>1. q \in Int /\ (IF usage = None THEN 0 ELSE usage.used) \in Int
      BY <1>0, BlobAssumption DEF Usages
    <3>2. usage' \in [used : Int, quota : Int]
      BY <2>1, <3>1
    <3> QED
      BY <3>2, BlobAssumption
  <2> QED
    BY <1>0, <2>1, <2>3, <2>4 DEF Balanced
<1>5. ASSUME PurgeRows PROVE Balanced(row', usage', size')
  BY <1>5 DEF PurgeRows, Commits, Balanced, IndexOf
<1>6. ASSUME NEW db \in unsynced, row' = db.row, usage' = db.usage PROVE Balanced(row', usage', size')
  <2>1. db.row \in Rows /\ \A n \in Names : db.row[n] <= minted
    BY DEF BlobInv, Types, Minted
  <2>2. Balanced(db.row, db.usage, size)
    BY DEF Accounted
  <2> QED
    BY <1>6, <2>1, <2>2, BalancedStays
<1> QED
  BY <1>1, <1>2, <1>3, <1>4, <1>5, <1>6, DbChange

LEMMA UnsyncedBalanced ==
  ASSUME BlobInv, Accounted, [Next]_vars, NEW db \in unsynced'
  PROVE  Balanced(db.row, db.usage, size')
<1>1. db \in unsynced \/ db = [row |-> row, usage |-> usage]
  BY DbChange
<1>2. db.row \in Rows /\ (\A n \in Names : db.row[n] <= minted) /\ Balanced(db.row, db.usage, size)
  BY <1>1 DEF BlobInv, Types, Minted, Accounted
<1> QED
  BY <1>2, BalancedStays

(* A carried id is in no row and no other write: for any step, a power     *)
(* loss included, which leaves no write on its way.                        *)
LEMMA CarriedApart ==
  ASSUME BlobInv, Accounted, [Next]_vars
  PROVE  /\ \A w \in Writers : writer'[w].step \in Carrying => writer'[w].id \notin Indexed'
         /\ \A w, v \in Writers :
              writer'[w].step \in Carrying /\ writer'[v].step \in Carrying /\ w # v =>
                writer'[v].id # writer'[w].id
<1>1. CASE Crash \/ PowerLoss
  <2>1. \A w \in Writers : writer'[w].step = "idle"
    BY <1>1 DEF Crash, PowerLoss, Reboots, Idle
  <2> QED
    BY <2>1 DEF Carrying, Holding
<1>2. ASSUME ~(Crash \/ PowerLoss), NEW w \in Writers, writer'[w].step \in Carrying
      PROVE  writer'[w].id \notin Indexed'
  <2>1. /\ minted \in Nat /\ \A n \in Names : row[n] \in Nat /\ row[n] <= minted
        /\ row \in [Names -> Ids]
    BY BlobAssumption DEF BlobInv, Types, Minted, Rows, Ids
  <2>2. CASE writer'[w].id = minted + 1 /\ row' = row
    BY <2>1, <2>2 DEF Indexed
  <2>3. CASE writer[w].step \in Carrying /\ writer'[w].id = writer[w].id
    <3>1. writer[w].id \notin Indexed /\ writer[w].id # NoBlob
      BY <2>3 DEF Accounted, BlobInv, Transactions
    <3>2. ASSUME NEW v \in Writers, Commit(v) PROVE writer[v].id # writer[w].id
      <4>1. v # w
        <5>1. v = w => Goto(w, "committed") /\ "committed" \in Steps
          BY <3>2 DEF Commit, Steps
        <5> QED
          BY <1>2, <5>1, GotoFields DEF BlobInv, Carrying, Holding
      <4> QED
        BY <2>3, <3>2, <4>1 DEF Commit, Accounted, Carrying, Holding
    <3>3. ASSUME NEW v \in Writers, Commit(v) PROVE writer[w].id \notin Indexed'
      <4>1. row' = [row EXCEPT ![writer[v].name] = writer[v].id]
        BY <3>3 DEF Commit, Commits
      <4> QED
        BY <2>1, <3>1, <3>2, <3>3, <4>1 DEF Indexed
    <3>4. ASSUME NEW v \in Writers, NEW n \in Names, Delete(v, n) PROVE writer[w].id \notin Indexed'
      <4>1. row' = [row EXCEPT ![n] = NoBlob]
        BY <3>4 DEF Delete, Commits
      <4> QED
        BY <2>1, <3>1, <4>1 DEF Indexed
    <3>5. CASE PurgeRows
      <4>1. \A n \in Names : row'[n] = NoBlob
        BY <3>5 DEF PurgeRows, Commits
      <4>2. Indexed' = {}
        BY <4>1 DEF Indexed
      <4> QED
        BY <4>2
    <3>6. CASE row' = row
      BY <2>3, <3>1, <3>6 DEF Indexed
    <3>7. CASE \E q \in Quotas : Load(q)
      BY <3>6, <3>7 DEF Load, Commits
    <3>8. \/ row' = row \/ \E q \in Quotas : Load(q)
          \/ \E v \in Writers : Commit(v)
          \/ \E v \in Writers, n \in Names : Delete(v, n)
          \/ PurgeRows
      BY <1>2 DEF Next, Writing, FindDirs, MakeDirs, SyncDirs, DirsFail, Stage, Admit, Refuse, Rename,
         RenameFails, Fsync, FsyncFails,
         CommitFails, FinalizeCommitted, FinalizeOrphan, FinalizeStaged, Unlink, SyncUnlink, Reading,
         LookUp, ReadWithInfo, ReadFile, Opening, Hosting, Unload, PurgeFiles, PurgeFilesFails,
         Checkpoint, vars, dbVars
    <3> QED
      BY <2>3, <3>3, <3>4, <3>5, <3>6, <3>7, <3>8
  <2> QED
    BY <1>2, <2>2, <2>3, Carried
<1>3. ASSUME NEW w \in Writers, NEW v \in Writers,
             writer'[w].step \in Carrying, writer'[v].step \in Carrying, w # v
      PROVE  writer'[v].id # writer'[w].id
  <2>1. /\ writer[w].id <= minted /\ writer[v].id <= minted /\ minted \in Nat
        /\ writer[w].id \in Nat /\ writer[v].id \in Nat
    BY BlobAssumption DEF BlobInv, Minted, Types, Calls, Ids
  <2>2. \/ writer[w].step \in Carrying /\ writer'[w].id = writer[w].id
        \/ writer'[w].id = minted + 1 /\ writer'[v] = writer[v]
    <3>1. \/ writer[w].step \in Carrying /\ writer'[w].id = writer[w].id
          \/ writer'[w].id = minted + 1 /\ \A u \in Writers : u # w => writer'[u] = writer[u]
      BY <1>3, Carried
    <3> QED
      BY <1>3, <3>1
  <2>3. \/ writer[v].step \in Carrying /\ writer'[v].id = writer[v].id
        \/ writer'[v].id = minted + 1 /\ writer'[w] = writer[w]
    <3>1. \/ writer[v].step \in Carrying /\ writer'[v].id = writer[v].id
          \/ writer'[v].id = minted + 1 /\ \A u \in Writers : u # v => writer'[u] = writer[u]
      BY <1>3, Carried
    <3> QED
      BY <1>3, <3>1
  <2>4. writer[w].step \in Carrying /\ writer[v].step \in Carrying => writer[v].id # writer[w].id
    BY <1>3 DEF Accounted
  <2> QED
    BY <1>3, <2>1, <2>2, <2>3, <2>4
<1> QED
  BY <1>1, <1>2, <1>3

(* Every file was minted.                                                  *)
LEMMA FilesMinted ==
  ASSUME BlobInv, Accounted, [Next]_vars
  PROVE  tmp' \cup files' \cup unlinked' \subseteq 1..minted'
<1>0. /\ tmp \subseteq 1..minted /\ files \subseteq 1..minted /\ unlinked \subseteq 1..minted
      /\ minted \in Nat
  BY BlobAssumption DEF Accounted, BlobInv, Types, Ids
<1>1. ASSUME NEW w \in Writers, writer[w].step \in Carrying PROVE writer[w].id \in 1..minted
  BY <1>0, <1>1, BlobAssumption DEF BlobInv, Types, Calls, Ids, Minted, Transactions, NoBlob
<1>2. ASSUME NEW w \in Writers, NEW n \in Names, NEW s \in Sizes, Stage(w, n, s)
      PROVE  tmp' \cup files' \cup unlinked' \subseteq 1..minted'
  <2>1. /\ minted' = minted + 1 /\ tmp' = tmp \cup {minted'}
        /\ files' = files /\ unlinked' = unlinked
    BY <1>2 DEF Stage
  <2> QED
    BY <1>0, <2>1
<1>3. CASE PowerLoss
  <2>1. PICK back \in SUBSET unlinked,
             gone \in SUBSET {writer[w].id : w \in {x \in Writers : writer[x].step = "renamed"}} :
          files' \subseteq files \cup back /\ tmp' \subseteq tmp \cup gone
    BY <1>3 DEF PowerLoss
  <2>2. gone \subseteq 1..minted
    BY <1>1, <2>1 DEF Carrying, Holding
  <2>3. unlinked' = {} /\ minted' = minted
    BY <1>3 DEF PowerLoss
  <2> QED
    BY <1>0, <2>1, <2>2, <2>3
<1>4. ASSUME NEW w \in Writers, Rename(w) PROVE tmp' \cup files' \cup unlinked' \subseteq 1..minted'
  <2>1. writer[w].id \in 1..minted
    BY <1>1, <1>4 DEF Rename, Carrying, Holding
  <2> QED
    BY <1>0, <1>4, <2>1 DEF Rename
<1>5. ASSUME NEW b, Unlinks(b) PROVE files' \cup unlinked' \subseteq files \cup unlinked
  BY <1>5 DEF Unlinks
<1>6. ASSUME NEW w \in Writers,
             \/ Admit(w) \/ Refuse(w) \/ RenameFails(w) \/ Fsync(w) \/ FsyncFails(w) \/ Commit(w)
             \/ CommitFails(w) \/ FinalizeCommitted(w) \/ FinalizeOrphan(w) \/ FinalizeStaged(w)
             \/ (\E n \in Names : Delete(w, n)) \/ Unlink(w) \/ SyncUnlink(w)
             \/ FindDirs(w) \/ MakeDirs(w) \/ SyncDirs(w) \/ DirsFail(w)
      PROVE  minted' = minted /\ tmp' \cup files' \cup unlinked' \subseteq tmp \cup files \cup unlinked
  <2>1. CASE FinalizeCommitted(w) \/ FinalizeOrphan(w) \/ Unlink(w)
    <3>1. tmp' = tmp /\ minted' = minted /\ \E b : Unlinks(b)
      BY <2>1 DEF FinalizeCommitted, FinalizeOrphan, Unlink
    <3> QED
      BY <1>5, <3>1
  <2>2. CASE ~(FinalizeCommitted(w) \/ FinalizeOrphan(w) \/ Unlink(w))
    BY <1>6, <2>2 DEF FindDirs, MakeDirs, SyncDirs, DirsFail, Admit, Refuse, RenameFails, Fsync,
       FsyncFails, Commit, CommitFails, FinalizeStaged,
       Delete, SyncUnlink, fsVars
  <2> QED
    BY <2>1, <2>2
<1>7. CASE Hosting \/ Crash \/ UNCHANGED vars
  <2>1. minted' = minted /\ tmp' \cup files' \cup unlinked' \subseteq tmp \cup files \cup unlinked
    BY <1>7 DEF Hosting, Load, Unload, PurgeRows, PurgeFiles, PurgeFilesFails, Checkpoint, Crash, vars,
       fsVars
  <2> QED
    BY <1>0, <2>1
<1>8. ASSUME NEW r \in Readers, Reading(r) PROVE UNCHANGED <<fsVars, minted>>
  BY <1>8, ReaderFields
<1> QED
  BY <1>0, <1>2, <1>3, <1>4, <1>6, <1>7, <1>8 DEF Next, Writing, fsVars

(* Files are in directories that are there, for as long as a call is at it. *)
Housed ==
  /\ dirs \in [Dirs -> {"none", "made", "durable"}]
  /\ tmp \cup files # {} => \A d \in Dirs : dirs[d] # "none"
  /\ \A w \in Writers : writer[w].step \in {"made", "ready", "staged", "admitted", "renamed"} =>
       \A d \in Dirs : dirs[d] # "none"

LEMMA HousedStep == ASSUME BlobInv, Housed, [Next]_vars PROVE Housed'
<1> DEFINE There == \A d \in Dirs : dirs[d] # "none"
           Within == {"made", "ready", "staged", "admitted", "renamed"}
<1>0. Types /\ Transactions /\ Engine
  BY DEF BlobInv
<1>1. ASSUME NEW w \in Writers, Writing(w) PROVE Housed'
  <2>1. /\ dirs' \in [Dirs -> {"none", "made", "durable"}]
        /\ \A d \in Dirs : dirs[d] # "none" => dirs'[d] # "none"
    <3>1. CASE \/ FindDirs(w) \/ (\E n \in Names, s \in Sizes : Stage(w, n, s)) \/ Admit(w) \/ Refuse(w)
               \/ Rename(w) \/ RenameFails(w) \/ Fsync(w) \/ FsyncFails(w) \/ Commit(w) \/ CommitFails(w)
               \/ FinalizeCommitted(w) \/ FinalizeOrphan(w) \/ FinalizeStaged(w)
               \/ (\E n \in Names : Delete(w, n)) \/ Unlink(w) \/ SyncUnlink(w)
      BY <3>1 DEF Housed, FindDirs, Stage, Admit, Refuse, Rename, RenameFails, Fsync, FsyncFails, Commit,
         CommitFails, FinalizeCommitted, FinalizeOrphan, FinalizeStaged, Delete, Unlink, SyncUnlink, fsVars
    <3>2. CASE MakeDirs(w) \/ SyncDirs(w) \/ DirsFail(w)
      BY <3>2 DEF Housed, MakeDirs, SyncDirs, DirsFail, Makes, Syncs
    <3> QED
      BY <1>1, <3>1, <3>2 DEF Writing
  <2>2. writer'[w].step \in Within => \A d \in Dirs : dirs'[d] # "none"
    <3>1. CASE MakeDirs(w)
      BY <3>1 DEF Housed, MakeDirs, Makes
    <3>2. CASE SyncDirs(w)
      BY <2>1, <3>2 DEF Housed, SyncDirs
    <3>3. ASSUME NEW n \in Names, NEW s \in Sizes, Stage(w, n, s) PROVE There
      BY <3>3 DEF Housed, Stage
    <3>4. CASE Admit(w) \/ Rename(w)
      BY <2>1, <3>4 DEF Housed, Admit, Rename
    <3>5. CASE \/ FindDirs(w) \/ Refuse(w) \/ RenameFails(w) \/ Fsync(w) \/ FsyncFails(w)
               \/ Commit(w) \/ CommitFails(w) \/ Unlink(w)
      <4>1. \E s \in Steps \ Within : Goto(w, s)
        BY <3>5 DEF FindDirs, Refuse, RenameFails, Fsync, FsyncFails, Commit, CommitFails, Unlink, Steps
      <4> QED
        BY <1>0, <4>1, GotoFields
    <3>6. CASE FinalizeCommitted(w) \/ FinalizeOrphan(w) \/ FinalizeStaged(w) \/ SyncUnlink(w) \/ DirsFail(w)
      <4>1. Done(w)
        BY <3>6 DEF DirsFail, FinalizeCommitted, FinalizeOrphan, FinalizeStaged, SyncUnlink
      <4> QED
        BY <1>0, <4>1, DoneFields
    <3>7. ASSUME NEW n \in Names, Delete(w, n) PROVE writer'[w].step \notin Within
      <4>1. writer'[w] = [step |-> "deleted", name |-> n, id |-> NoBlob, old |-> row[n]]
        BY <3>7, DeleteFields
      <4> QED
        BY <4>1
    <3> QED
      BY <1>1, <2>1, <3>1, <3>2, <3>3, <3>4, <3>5, <3>6, <3>7 DEF Writing
  <2>3. ASSUME tmp' \cup files' # {} PROVE There
    <3>1. CASE tmp' \cup files' \subseteq tmp \cup files
      BY <2>3, <3>1 DEF Housed
    <3>2. ASSUME NEW n \in Names, NEW s \in Sizes, Stage(w, n, s) PROVE There
      BY <3>2 DEF Housed, Stage
    <3>3. CASE Rename(w)
      BY <3>3 DEF Housed, Rename
    <3>4. ASSUME ~Rename(w), ~\E n \in Names, s \in Sizes : Stage(w, n, s)
          PROVE  tmp' \cup files' \subseteq tmp \cup files
      BY <1>1, <3>4 DEF Writing, FindDirs, MakeDirs, SyncDirs, DirsFail, Admit, Refuse, RenameFails, Fsync,
         FsyncFails, Commit, CommitFails, FinalizeCommitted, FinalizeOrphan, FinalizeStaged, Delete, Unlink,
         SyncUnlink, Unlinks, fsVars
    <3> QED
      BY <3>1, <3>2, <3>3, <3>4
  <2>4. \A v \in Writers : v # w => writer'[v] = writer[v]
    BY <1>1, OthersKept
  <2> QED
    BY <2>1, <2>2, <2>3, <2>4 DEF Housed
<1>2. ASSUME UNCHANGED <<tmp, files, dirs, writer>> PROVE Housed'
  BY <1>2 DEF Housed
<1>3. CASE PurgeFiles \/ PurgeFilesFails
  <2>1. \A w \in Writers : writer'[w].step \notin Within
    BY <1>0, <1>3 DEF PurgeFiles, PurgeFilesFails, Engine, Transactions
  <2>2. dirs' \in [Dirs -> {"none", "made", "durable"}]
    BY <1>3 DEF Housed, PurgeFiles, PurgeFilesFails
  <2>3. tmp' \cup files' = {} \/ (tmp' \cup files' \subseteq tmp \cup files /\ dirs' = dirs)
    BY <1>3 DEF PurgeFiles, PurgeFilesFails
  <2> QED
    BY <2>1, <2>2, <2>3 DEF Housed
<1>4. CASE Crash \/ PowerLoss
  <2>1. \A w \in Writers : writer'[w].step = "idle"
    BY <1>4 DEF Crash, PowerLoss, Reboots, Idle
  <2>2. CASE Crash
    BY <2>1, <2>2 DEF Crash, Housed
  <2>3. CASE PowerLoss
    <3>1. PICK lost \in SUBSET Dirs, back \in SUBSET unlinked,
               gone \in SUBSET {writer[w].id : w \in {x \in Writers : writer[x].step = "renamed"}} :
            /\ files' = IF lost = {} THEN (files \cup back) \ gone ELSE {}
            /\ tmp' = IF lost = {} THEN tmp \cup gone ELSE {}
            /\ dirs' = [d \in Dirs |-> IF d \in lost \/ (dirs[d] = "none" /\ back = {})
                                      THEN "none" ELSE "durable"]
      <4>1. PICK lost \in {{}} \cup {Tree(d) : d \in {e \in Dirs : dirs[e] = "made"}},
                 back \in SUBSET unlinked,
                 gone \in SUBSET {writer[w].id : w \in {x \in Writers : writer[x].step = "renamed"}} :
              /\ files' = IF lost = {} THEN (files \cup back) \ gone ELSE {}
              /\ tmp' = IF lost = {} THEN tmp \cup gone ELSE {}
              /\ dirs' = [d \in Dirs |-> IF d \in lost \/ (dirs[d] = "none" /\ back = {})
                                        THEN "none" ELSE "durable"]
        BY <2>3 DEF PowerLoss
      <4>2. \A d \in Dirs : Tree(d) \subseteq Dirs
        BY DEF Tree, Dirs
      <4>3. lost \subseteq Dirs
        BY <4>1, <4>2
      <4> QED
        BY <4>1, <4>3
    <3>2. dirs' \in [Dirs -> {"none", "made", "durable"}]
      BY <3>1
    <3>3. ASSUME tmp' \cup files' # {}, NEW d \in Dirs PROVE dirs'[d] # "none"
      <4>1. lost = {}
        BY <3>1, <3>3
      <4>2. CASE back # {}
        BY <3>1, <4>1, <4>2
      <4>3. CASE back = {}
        <5>1. There
          <6>1. tmp \cup files # {} \/ gone # {}
            BY <3>1, <3>3, <4>1, <4>3
          <6>2. CASE gone # {}
            <7>1. PICK w \in Writers : writer[w].step = "renamed"
              BY <3>1, <6>2
            <7> QED
              BY <7>1 DEF Housed
          <6> QED
            BY <6>1, <6>2 DEF Housed
        <5> QED
          BY <3>1, <4>1, <5>1
      <4> QED
        BY <4>2, <4>3
    <3> QED
      BY <2>1, <3>2, <3>3 DEF Housed
  <2> QED
    BY <1>4, <2>2, <2>3
<1>5. ASSUME NEW r \in Readers, Reading(r) PROVE Housed'
  BY <1>2, <1>5, ReaderFields DEF fsVars
<1>6. CASE Hosting /\ ~PurgeFiles /\ ~PurgeFilesFails
  BY <1>2, <1>6 DEF Hosting, Load, Unload, PurgeRows, Checkpoint, fsVars
<1>7. CASE UNCHANGED vars
  BY <1>2, <1>7 DEF vars, fsVars
<1> QED
  BY <1>1, <1>3, <1>4, <1>5, <1>6, <1>7 DEF Next

LEMMA AccountedStep == ASSUME BlobInv, Accounted, [Next]_vars PROVE Accounted'
  BY BalancedStep, UnsyncedBalanced, CarriedApart, FilesMinted DEF Accounted

LEMMA AccountedInit == Init => Accounted
<1> SUFFICES ASSUME Init PROVE Accounted
  OBVIOUS
<1>1. Balanced(row, usage, size)
  BY DEF Init, Balanced, IndexOf
<1>2. \A w \in Writers : writer[w].step \notin Carrying
  BY DEF Init, Idle, Carrying, Holding
<1> QED
  BY <1>1, <1>2 DEF Init, Accounted

(* The triggers on DELETE and INSERT keep bytes_used at the sum of what    *)
(* the index holds, and no two names share a blob, in every state and in   *)
(* every one that a power loss goes back to.                               *)
THEOREM BlobsTyped == Spec => []BlobsTypeOK
<1>1. Init => BlobInv /\ Accounted /\ Housed
  BY InitInv, AccountedInit DEF Init, Housed, Idle
<1>2. BlobInv /\ Accounted /\ Housed /\ [Next]_vars => Accounted' /\ Housed'
  BY AccountedStep, HousedStep
<1>3. BlobInv /\ Accounted /\ Housed => BlobsTypeOK
  BY IndexedIsIndexOf, BlobAssumption
     DEF BlobsTypeOK, BlobInv, Types, Accounted, Balanced, Housed, Rows, Ids, Blobs, NoBlob
<1> QED
  BY <1>1, <1>2, <1>3, BlobInvariant, PTL DEF Spec
=============================================================================
