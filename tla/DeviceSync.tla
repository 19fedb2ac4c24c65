----------------------------- MODULE DeviceSync -----------------------------
(***************************************************************************)
(* A client that keeps a copy of the device state through the API:         *)
(* GET /devices/state/changes (deltas since a cursor, in pages) and, when  *)
(* it is told to resync, GET /devices/state (the whole store, in pages of  *)
(* devices under a pinned revision).  The handlers are those of            *)
(* api/server.rs over the reads of state/device_state.rs; the client       *)
(* follows the protocol their documentation prescribes and is modelled     *)
(* from it.  The store and the instances that write it are DeviceState;    *)
(* a restart of the daemon loses both, and mints a new epoch.              *)
(*                                                                         *)
(* A handler reads the store under one read lock, so a request is a step.  *)
(* The reply touches nothing but the client, which waits for it: a slow or *)
(* lost reply is a request made later.                                     *)
(***************************************************************************)
EXTENDS DeviceState

CONSTANTS DeltaLimit,  \* entries per page of changes
          PageLimit,   \* devices per page of the snapshot
          MaxEpoch     \* bound on the daemon's lives

ASSUME SyncAssumption ==
  /\ DeltaLimit \in Nat \ {0}
  /\ PageLimit \in Nat \ {0}
  /\ MaxEpoch \in Nat \ {0}

VARIABLES
  epoch,    \* the nonce of this daemon life; a number, only compared
  phase,    \* the client: "polling", "resync" or "paging"
  known,    \* the epoch its cursor belongs to, 0 before the first reply
  cursor,   \* its since_revision
  cache,    \* its copy
  page,     \* the copy being assembled by a resync
  token     \* the next_cursor of the resync: epoch, pinned revision, device

clientVars == <<phase, known, cursor, cache, page, token>>
syncVars == <<stateVars, epoch, clientVars>>

-----------------------------------------------------------------------------
(* What a reader is sent of a slot: revision and quality; the content of a *)
(* slot is a function of the epoch and the revision it was written at.     *)
View(s) == [quality |-> entries[s].quality, rev |-> entries[s].rev, epoch |-> epoch]

NothingSeen == [quality |-> "absent", rev |-> 0, epoch |-> 0]

EmptyCopy == [s \in Slots |-> NothingSeen]

NoToken == [epoch |-> 0, pin |-> 0, after |-> -1]

(* A client begins with all changes since revision 0 or with a snapshot.   *)
SyncInit ==
  /\ StateInit
  /\ epoch = 1
  /\ phase \in {"polling", "resync"}
  /\ known = 0
  /\ cursor = 0
  /\ cache = EmptyCopy
  /\ page = EmptyCopy
  /\ token = NoToken

-----------------------------------------------------------------------------
(* deltas_since_with_revision. *)

ResetRequired_AheadOnly(since) == since > rev

ResetRequired(since) == since > rev \/ since < evicted

Changed(since) == {s \in Slots : entries[s].rev > since}

(* The lowest revisions come first and the page is cut after DeltaLimit.   *)
Oldest(S) ==
  {s \in S : Cardinality({t \in S : entries[t].rev < entries[s].rev}) < DeltaLimit}

DeltaPage(since) == Oldest(Changed(since))

(* snapshot_page_with_revision: whole devices, in order, after the one the *)
(* last page ended with; a page stops early when its bytes are capped, but *)
(* holds one device at least.                                              *)
Known(d) == \E c \in Caps : entries[<<d, c>>].quality # "absent"

DevicesAfter(after) == {d \in Devices : d > after /\ Known(d)}

FirstDevices(after, n) ==
  {d \in DevicesAfter(after) : Cardinality({e \in DevicesAfter(after) : e < d}) < n}

-----------------------------------------------------------------------------
(* The client. *)

(* A cursor taken in another epoch is worthless, whatever its number; the  *)
(* first poll has none and asks for everything since revision 0.           *)
MustResync_NumberOnly(since) == ResetRequired(since)

MustResync(since) == known \notin {0, epoch} \/ ResetRequired(since)

(* The next cursor is the highest revision in the page, or, as the reply   *)
(* to an empty page suggests, the current one.                             *)
NextCursor(S) ==
  IF S = {} THEN {cursor, rev} ELSE {Highest({entries[s].rev : s \in S})}

PollChanges ==
  /\ phase = "polling"
  /\ ~MustResync(cursor)
  /\ LET S == DeltaPage(cursor) IN
       /\ cache' = [s \in Slots |-> IF s \in S THEN View(s) ELSE cache[s]]
       /\ cursor' \in NextCursor(S)
  /\ known' = epoch
  /\ UNCHANGED <<stateVars, epoch, phase, page, token>>

PollReset ==
  /\ phase = "polling"
  /\ MustResync(cursor)
  /\ phase' = "resync"
  /\ UNCHANGED <<stateVars, epoch, known, cursor, cache, page, token>>

(* One page of the snapshot: keep its devices and go on, or, on the last   *)
(* one, replace the copy and poll from the pinned revision.                *)
Collected(old, D) == [s \in Slots |-> IF s[1] \in D THEN View(s) ELSE old[s]]

TakePage(old, pin, after) ==
  \E n \in 1..PageLimit :
    LET D == FirstDevices(after, n) IN
    IF D = DevicesAfter(after)
    THEN /\ cache' = Collected(old, D)
         /\ cursor' = pin
         /\ known' = epoch
         /\ phase' = "polling"
         /\ page' = EmptyCopy
         /\ token' = NoToken
    ELSE /\ page' = Collected(old, D)
         /\ token' = [epoch |-> epoch, pin |-> pin, after |-> Highest(D)]
         /\ phase' = "paging"
         /\ UNCHANGED <<cache, cursor, known>>

FirstPage ==
  /\ phase = "resync"
  /\ TakePage(EmptyCopy, rev, -1)
  /\ UNCHANGED <<stateVars, epoch>>

PinOf_Current(t) == rev

PinOf(t) == t.pin

NextPage ==
  /\ phase = "paging"
  /\ token.epoch = epoch
  /\ TakePage(page, PinOf(token), token.after)
  /\ UNCHANGED <<stateVars, epoch>>

(* 409: the token was signed in another life of the daemon. *)
PageRefused ==
  /\ phase = "paging"
  /\ token.epoch # epoch
  /\ phase' = "resync"
  /\ page' = EmptyCopy
  /\ token' = NoToken
  /\ UNCHANGED <<stateVars, epoch, known, cursor, cache>>

ClientStep == PollChanges \/ PollReset \/ FirstPage \/ NextPage \/ PageRefused

(* The daemon is restarted: projection and registry are in memory only.    *)
DaemonRestart ==
  /\ epoch < MaxEpoch
  /\ epoch' = epoch + 1
  /\ registry' = [d \in Devices |-> Unregistered]
  /\ entries' = [s \in Slots |-> NoEntry]
  /\ rev' = 0
  /\ evicted' = 0
  /\ gens' = [i \in Instances |-> 0]
  /\ inst' = [i \in Instances |-> "off"]
  /\ op' = [i \in Instances |-> NoOp]
  /\ cut' = [s \in Slots |-> 0]
  /\ UNCHANGED clientVars

StoreStep == StateNext /\ UNCHANGED <<epoch, clientVars>>

SyncNext == StoreStep \/ ClientStep \/ DaemonRestart

SyncSpec == SyncInit /\ [][SyncNext]_syncVars

(* A client that goes on polling; nothing obliges the instances to write.  *)
FairSyncSpec == SyncSpec /\ WF_syncVars(ClientStep)

-----------------------------------------------------------------------------
(* Properties. *)

Copy == [Slots -> [quality : {"absent", "fresh", "stale"}, rev : 0..MaxRev, epoch : 0..MaxEpoch]]

(* Types; within an epoch neither a cursor nor a pinned revision is ahead  *)
(* of the store that issued it.                                            *)
SyncTypeOK ==
  /\ epoch \in 1..MaxEpoch
  /\ phase \in {"polling", "resync", "paging"}
  /\ known \in 0..epoch
  /\ cursor \in 0..MaxRev
  /\ cache \in Copy
  /\ page \in Copy
  /\ token \in [epoch : 0..epoch, pin : 0..MaxRev, after : Devices \cup {-1}]
  /\ known \in {0, epoch} => cursor <= rev
  /\ token.epoch = epoch => token.pin <= rev

(* The next poll will be answered with deltas, not with a reset. *)
Current == phase = "polling" /\ ~MustResync(cursor)

(* The copy of a client that need not resync is exact up to its cursor:    *)
(* what changed last at or below the cursor is in the copy as it is in the *)
(* store, and the copy holds nothing as fresh that the store has lost.     *)
ExactUpToCursor ==
  Current => \A s \in Slots : entries[s].rev <= cursor =>
    IF Fresh(s) THEN cache[s] = View(s) ELSE cache[s].quality # "fresh"

(* No client goes on believing that a device is live when the owner's      *)
(* restart or removal was forgotten: a copy that has nothing left to fetch *)
(* agrees with the store on every live value.                              *)
Agrees ==
  \A s \in Slots :
    IF Fresh(s) THEN cache[s] = View(s) ELSE cache[s].quality # "fresh"

(* A client that polls ends up with the store's live values, through       *)
(* coalesced pages, evictions, interrupted resyncs and daemon restarts,    *)
(* once the writers pause.                                                 *)
Converges == <>[]Agrees

=============================================================================
