-------------------------- MODULE DeviceSync_proofs --------------------------
(***************************************************************************)
(* Proofs about DeviceSync: its types, and that the copy of a client that  *)
(* need not resync is exact up to its cursor.                              *)
(*                                                                         *)
(* The inductive invariant SyncInv extends StateInv, the one of the store  *)
(* (DeviceState_proofs), by ClientInv: the same exactness of the copy a    *)
(* resync is assembling, for the devices already paged and up to the       *)
(* pinned revision, as long as nothing has been evicted above it.          *)
(*                                                                         *)
(* The store's steps keep an exact copy exact (StillExact) because they    *)
(* change no slot silently, which DeviceState_proofs shows; a page of      *)
(* changes leaves no gap because it takes the lowest revisions             *)
(* (DeltaComplete); a page of devices leaves none because it takes the     *)
(* first devices (PageComplete).                                           *)
(***************************************************************************)
EXTENDS DeviceSync, DeviceState_proofs

(* What the client holds of a slot, v, is right up to revision n, when the *)
(* store of epoch x holds entry e.                                         *)
Matches(e, x, v, n) ==
  e.rev <= n =>
    IF e.quality = "fresh" THEN v = [quality |-> e.quality, rev |-> e.rev, epoch |-> x]
                           ELSE v.quality # "fresh"

ExactIn(copy, S, n) == \A s \in S : Matches(entries[s], epoch, copy[s], n)

UpToDevice(d) == {s \in Slots : s[1] <= d}

(* A client that was never answered has nothing; the copy of one that need *)
(* not resync is exact; so is the part of a resync that has been paged,    *)
(* and the rest of it is still empty.                                      *)
ClientInv ==
  /\ known = 0 => cursor = 0 /\ cache = EmptyCopy
  /\ phase = "polling" /\ known \in {0, epoch} /\ evicted <= cursor => ExactIn(cache, Slots, cursor)
  /\ token.epoch = epoch =>
       /\ \A s \in Slots : s[1] > token.after => page[s].quality # "fresh"
       /\ evicted <= token.pin => ExactIn(page, UpToDevice(token.after), token.pin)

SyncInv == StateInv /\ SyncTypeOK /\ ClientInv

-----------------------------------------------------------------------------
(* The store under the client.                                             *)

(* Neither global_revision nor the watermark ever goes back within a life  *)
(* of the daemon.                                                          *)
LEMMA SweepGrows ==
  ASSUME StoreInv, NEW S \in SUBSET Slots, Sweep(S)
  PROVE  rev' >= rev /\ evicted' >= evicted
<1> DEFINE F == FreshIn(S)
<1>1. F \in SUBSET Slots /\ \A s \in F : Fresh(s)
  BY DEF FreshIn
<1>2. rev + Cardinality(F) >= rev /\ Watermark(Flipped(F)) >= evicted
  BY <1>1, SweepEffect DEF StoreInv, RevisionsDistinct, Distinct, Swept
<1> QED BY <1>2 DEF Sweep

(* The seeds of a registration take revisions above the flips before them. *)
LEMMA SeedGrows ==
  ASSUME StateInv, NEW i \in Instances, Seed(i)
  PROVE  rev' >= rev /\ evicted' >= evicted
<1> DEFINE F == FreshIn(SlotsOf(op[i].dev))
           S == {op[i].dev} \X op[i].caps
<1>1. op[i].kind = "seed" /\ op[i].dev \in Devices /\ op[i].caps \in SUBSET Caps
  <2>1. op[i].kind = "seed"
    BY DEF Seed, Pending
  <2> QED BY <2>1, PendingFacts
<1>2. F \in SUBSET Slots /\ S \in SUBSET Slots /\ \A s \in F : Fresh(s)
  BY <1>1 DEF FreshIn, SlotsOf, Slots
<1>3. Cardinality(S) \in Nat
  BY <1>2, PartOfSlots
<1>4. rev \in Nat /\ Cardinality(F) \in Nat
  BY <1>2, PartOfSlots, StateAssumption DEF StateInv, StoreInv, StoreTypes, StateAssumption
<1>5. Watermark(Flipped(F)) >= evicted
  BY <1>2, SweepEffect DEF StateInv, StoreInv, RevisionsDistinct, Distinct, Swept
<1>6. rev' = rev + Cardinality(F) + Cardinality(S) /\ evicted' = Watermark(Flipped(F))
  BY DEF Seed
<1> QED BY <1>3, <1>4, <1>5, <1>6

(* The same of every step of the store.                                    *)
LEMMA StoreGrows ==
  ASSUME StateInv, StateNext
  PROVE  rev' >= rev /\ evicted' >= evicted
<1>1. rev \in Nat /\ evicted \in Nat
  BY StateAssumption DEF StateInv, StoreInv, StoreTypes, StateAssumption
<1>2. PICK i \in Instances : HostCall(i) \/ SecondHalf(i) \/ LifeStep(i)
  BY DEF StateNext
<1>3. ASSUME UNCHANGED storeVars PROVE rev' >= rev /\ evicted' >= evicted
  BY <1>1, <1>3 DEF storeVars
<1>4. ASSUME NEW S \in SUBSET Slots, Sweep(S) PROVE rev' >= rev /\ evicted' >= evicted
  BY <1>4, SweepGrows DEF StateInv
<1>5. ASSUME NEW s, NEW old, NEW keys, WriteEntry(i, s, old, keys), evicted' = evicted
      PROVE  rev' >= rev /\ evicted' >= evicted
  BY <1>1, <1>5 DEF WriteEntry
<1>6. CASE HostCall(i)
  BY <1>3, <1>6 DEF HostCall, Update, Register, Remove, Publish, CommandResult
<1>7. CASE SecondHalf(i)
  <2>1. CASE Seed(i) BY <2>1, SeedGrows
  <2>2. CASE Reconcile(i)
    <3>1. op[i].dev \in Devices
      BY <2>2, PendingFacts DEF Reconcile, Pending
    <3>2. Dropped(op[i].dev, op[i].caps) \in SUBSET Slots
      BY <3>1 DEF Dropped, SlotsOf, Slots
    <3> QED BY <2>2, <3>2, <1>4 DEF Reconcile
  <2>3. CASE MarkDeviceStale(i)
    <3>1. op[i].dev \in Devices
      BY <2>3, PendingFacts DEF MarkDeviceStale, Pending
    <3>2. SlotsOf(op[i].dev) \in SUBSET Slots
      BY <3>1 DEF SlotsOf, Slots
    <3> QED BY <2>3, <3>2, <1>4 DEF MarkDeviceStale
  <2>4. CASE ApplyDelta(i) BY <2>4, <1>5 DEF ApplyDelta
  <2>5. CASE ReplaceSnapshot(i) BY <2>5, <1>5 DEF ReplaceSnapshot
  <2>6. CASE LogFails(i) BY <2>6, <1>3 DEF LogFails
  <2> QED BY <1>7, <2>1, <2>2, <2>3, <2>4, <2>5, <2>6 DEF SecondHalf
<1>8. CASE LifeStep(i)
  <2>1. OwnSlots(i) \in SUBSET Slots /\ ReapedSlots(i) \in SUBSET Slots
    BY DEF OwnSlots, ReapedSlots
  <2>2. CASE RestartGeneration(i) BY <2>1, <2>2, <1>4 DEF RestartGeneration
  <2>3. CASE ReapState(i) BY <2>1, <2>3, <1>4 DEF ReapState
  <2> QED BY <1>8, <2>2, <2>3, <1>3 DEF LifeStep, BeginLife, Crash, End, ReapDevices
<1> QED BY <1>2, <1>6, <1>7, <1>8

(* What was right of a slot up to n stays right, or the watermark passes   *)
(* n: a change takes a revision above n, and an eviction of what the       *)
(* client may believe fresh is one of a flip it has not seen.              *)
LEMMA StillExact ==
  ASSUME StateInv, StateNext, NEW s \in Slots, NEW x, NEW v, NEW n \in Nat, n <= rev,
         evicted' <= n, Matches(entries[s], x, v, n)
  PROVE  Matches(entries'[s], x, v, n)
<1>1. /\ rev \in Nat /\ evicted' \in Nat /\ entries[s].rev \in Nat
      /\ entries'[s].rev \in Nat /\ StoreInv'
  <2>1. StateInv'
    BY StateInvNext
  <2>2. rev \in Nat /\ entries[s].rev \in Nat
    BY StateAssumption DEF StateInv, StoreInv, StoreTypes, EntryAt, StateAssumption
  <2>3. StoreTypes'
    BY <2>1 DEF StateInv, StoreInv
  <2>4. rev' \in Nat /\ evicted' \in Nat /\ entries'[s].rev \in Nat
    BY <2>3, StateAssumption DEF StoreTypes, EntryAt, StateAssumption
  <2> QED BY <2>1, <2>2, <2>4 DEF StateInv
<1>2. CASE entries'[s] = entries[s] BY <1>2
<1>3. CASE entries'[s] # entries[s]
  <2>1. Announced(s)
    BY <1>3, StepGood DEF StateNext, Good
  <2>2. CASE entries'[s].rev > rev
    BY <2>2, <1>1 DEF Matches
  <2>3. CASE entries'[s] = NoEntry /\ evicted' >= entries[s].rev /\ (Fresh(s) => evicted' > rev)
    <3>1. entries[s].rev <= n /\ ~Fresh(s)
      BY <2>3, <1>1
    <3>2. v.quality # "fresh"
      BY <3>1 DEF Matches, Fresh
    <3> QED BY <2>3, <3>2 DEF Matches, NoEntry
  <2> QED BY <2>1, <2>2, <2>3 DEF Announced
<1> QED BY <1>2, <1>3

-----------------------------------------------------------------------------
(* A page of changes.                                                      *)

(* Every non-empty set of numbers has a least one: the page of changes and *)
(* the page of devices start with it.                                      *)
LEMMA LowestExists ==
  ASSUME NEW S \in SUBSET Nat, IsFiniteSet(S), S # {}
  PROVE  \E m \in S : \A k \in S : m <= k
<1> DEFINE h == Highest(S)
           R == {h - k : k \in S}
           g == Highest(R)
<1>1. h \in Nat /\ \A k \in S : k \in Nat /\ k <= h
  BY HighestIsMax
<1> HIDE DEF h
<1>2. R \in SUBSET Nat /\ R # {} /\ \A r \in R : r <= h
  BY <1>1
<1>3. IsFiniteSet(R)
  BY <1>1, <1>2, FS_BoundedSetOfNaturals
<1>4. g \in R /\ \A r \in R : r <= g
  BY <1>2, <1>3, HighestIsMax
<1>5. PICK m \in S : g = h - m
  BY <1>4
<1>6. \A k \in S : h - k <= h - m
  BY <1>4, <1>5
<1> QED BY <1>1, <1>6

(* deltas_since takes the lowest revisions: what it leaves out is above    *)
(* all it sends.                                                           *)
LEMMA OldestFirst ==
  ASSUME StoreTypes, NEW S \in SUBSET Slots, NEW s \in S, s \notin Oldest(S), NEW t \in Oldest(S)
  PROVE  entries[t].rev < entries[s].rev
<1> DEFINE Lower(u) == {v \in S : entries[v].rev < entries[u].rev}
<1>1. \A u \in S : entries[u].rev \in Nat
  BY DEF StoreTypes, EntryAt
<1>2. t \in S /\ Cardinality(Lower(t)) < DeltaLimit /\ ~(Cardinality(Lower(s)) < DeltaLimit)
  BY DEF Oldest
<1>3. Lower(t) \in SUBSET Slots /\ Lower(s) \in SUBSET Slots
  OBVIOUS
<1>4. /\ IsFiniteSet(Lower(t))
      /\ Cardinality(Lower(t)) \in Nat /\ Cardinality(Lower(s)) \in Nat
  BY <1>3, PartOfSlots
<1>5. ASSUME entries[s].rev <= entries[t].rev PROVE FALSE
  <2>1. Lower(s) \subseteq Lower(t)
    BY <1>1, <1>2, <1>5
  <2>2. Cardinality(Lower(s)) <= Cardinality(Lower(t))
    BY <2>1, <1>4, FS_Subset
  <2> QED BY <2>2, <1>2, <1>4, SyncAssumption DEF SyncAssumption
<1> QED BY <1>1, <1>2, <1>5

(* A page holds one change at least if there is one.                       *)
LEMMA OldestSome ==
  ASSUME StoreTypes, NEW S \in SUBSET Slots, S # {}
  PROVE  Oldest(S) # {}
<1> DEFINE R == {entries[s].rev : s \in S}
<1>1. rev \in Nat /\ \A s \in S : entries[s].rev \in Nat /\ entries[s].rev <= rev
  BY StateAssumption DEF StoreTypes, EntryAt, StateAssumption
<1>2. R \in SUBSET Nat /\ R # {} /\ \A r \in R : r <= rev
  BY <1>1
<1>3. IsFiniteSet(R)
  BY <1>1, <1>2, FS_BoundedSetOfNaturals
<1>4. PICK s \in S : \A r \in R : entries[s].rev <= r
  BY <1>2, <1>3, LowestExists
<1>5. {t \in S : entries[t].rev < entries[s].rev} = {}
  BY <1>1, <1>4
<1>6. Cardinality({t \in S : entries[t].rev < entries[s].rev}) = 0
  BY <1>5, FS_EmptySet
<1>7. Cardinality({t \in S : entries[t].rev < entries[s].rev}) < DeltaLimit
  BY <1>6, SyncAssumption DEF SyncAssumption
<1> QED BY <1>7 DEF Oldest

(* A slot whose last change is at or below the next cursor was at or below *)
(* the old one, or is in the page; and the next cursor was issued.         *)
LEMMA DeltaComplete ==
  ASSUME StoreTypes, cursor \in Nat, cursor <= rev, NEW n \in NextCursor(DeltaPage(cursor))
  PROVE  /\ n \in Nat /\ n <= rev
         /\ \A s \in Slots : entries[s].rev <= n =>
              entries[s].rev <= cursor \/ s \in DeltaPage(cursor)
<1> DEFINE C == Changed(cursor)
           S == DeltaPage(cursor)
           R == {entries[s].rev : s \in S}
<1>1. rev \in Nat /\ \A s \in Slots : entries[s].rev \in Nat /\ entries[s].rev <= rev
  BY StateAssumption DEF StoreTypes, EntryAt, StateAssumption
<1>2. C \in SUBSET Slots /\ S = Oldest(C) /\ S \in SUBSET C
  BY DEF Changed, DeltaPage, Oldest
<1>3. \A s \in Slots : s \notin C => entries[s].rev <= cursor
  BY <1>1 DEF Changed
<1> HIDE DEF C, S
<1>4. CASE S = {}
  <2>1. C = {}
    BY <1>2, <1>4, OldestSome
  <2>2. n \in {cursor, rev}
    BY <1>4 DEF NextCursor, S
  <2> QED BY <2>1, <2>2, <1>1, <1>3
<1>5. CASE S # {}
  <2>1. R \in SUBSET Nat /\ R # {} /\ \A r \in R : r <= rev
    BY <1>1, <1>2, <1>5
  <2>2. IsFiniteSet(R)
    BY <1>1, <2>1, FS_BoundedSetOfNaturals
  <2>3. n = Highest(R)
    BY <1>5 DEF NextCursor, S
  <2>4. n \in R /\ \A r \in R : r <= n
    BY <2>1, <2>2, <2>3, HighestIsMax
  <2>5. PICK t \in S : n = entries[t].rev
    BY <2>4
  <2>6. ASSUME NEW s \in C, s \notin S PROVE ~(entries[s].rev <= n)
    <3>1. entries[t].rev < entries[s].rev
      BY <1>2, <2>5, <2>6, OldestFirst
    <3> QED BY <3>1, <2>5, <1>1, <1>2
  <2> QED BY <1>1, <1>2, <1>3, <2>1, <2>4, <2>6 DEF S
<1> QED BY <1>4, <1>5

-----------------------------------------------------------------------------
(* A page of devices.                                                      *)

(* snapshot_page takes the first devices after the last page's: a device   *)
(* left out comes after all it sends.                                      *)
LEMMA DevicesInOrder ==
  ASSUME NEW after, NEW k \in Nat, NEW d \in DevicesAfter(after), d \notin FirstDevices(after, k),
         NEW e \in FirstDevices(after, k)
  PROVE  e < d
<1> DEFINE D == DevicesAfter(after)
           Lower(x) == {y \in D : y < x}
<1>1. D \in SUBSET Devices /\ Devices \in SUBSET Nat /\ IsFiniteSet(D)
  <2>1. D \in SUBSET Devices
    BY DEF DevicesAfter
  <2> QED BY <2>1, FS_Subset, StateAssumption DEF StateAssumption
<1>2. e \in D /\ Cardinality(Lower(e)) < k /\ ~(Cardinality(Lower(d)) < k)
  BY DEF FirstDevices
<1> HIDE DEF D
<1>3. Lower(e) \in SUBSET D /\ Lower(d) \in SUBSET D
  OBVIOUS
<1>4. /\ IsFiniteSet(Lower(e)) /\ IsFiniteSet(Lower(d))
      /\ Cardinality(Lower(e)) \in Nat /\ Cardinality(Lower(d)) \in Nat
  BY <1>1, <1>3, FS_Subset, FS_CardinalityType
<1>5. d \in Nat /\ e \in Nat /\ D \in SUBSET Nat
  BY <1>1, <1>2 DEF D
<1>6. ASSUME d <= e PROVE FALSE
  <2>1. \A y \in D : y < d => y < e
    BY <1>5, <1>6
  <2>2. Lower(d) \subseteq Lower(e)
    BY <2>1
  <2>3. Cardinality(Lower(d)) <= Cardinality(Lower(e))
    BY <2>2, <1>4, FS_Subset
  <2> QED BY <2>3, <1>2, <1>4
<1> QED BY <1>5, <1>6

(* A page holds one device at least if one is left.                        *)
LEMMA DeviceSome ==
  ASSUME NEW after, NEW k \in Nat \ {0}, DevicesAfter(after) # {}
  PROVE  FirstDevices(after, k) # {}
<1> DEFINE D == DevicesAfter(after)
<1>1. D \in SUBSET Nat /\ IsFiniteSet(D)
  <2>1. D \in SUBSET Devices
    BY DEF DevicesAfter
  <2> QED BY <2>1, FS_Subset, StateAssumption DEF StateAssumption
<1>2. PICK d \in D : \A e \in D : d <= e
  BY <1>1, LowestExists
<1>3. {e \in D : e < d} = {}
  BY <1>1, <1>2
<1>4. Cardinality({e \in D : e < d}) < k
  BY <1>3, FS_EmptySet
<1> QED BY <1>4 DEF FirstDevices

(* Once a page is collected, the copy in the making is right of all the    *)
(* devices paged so far, a device the store does not know being right as   *)
(* nothing; what comes after them is as it was.                            *)
LEMMA PageComplete ==
  ASSUME NEW old, NEW pin, NEW after \in Devices \cup {-1}, NEW k \in 1..PageLimit, NEW D,
         D = FirstDevices(after, k),
         ExactIn(old, UpToDevice(after), pin),
         \A s \in Slots : s[1] > after => old[s].quality # "fresh"
  PROVE  /\ D = DevicesAfter(after) => ExactIn(Collected(old, D), Slots, pin)
         /\ D # DevicesAfter(after) => ExactIn(Collected(old, D), UpToDevice(Highest(D)), pin)
<1>1. D \in SUBSET DevicesAfter(after) /\ DevicesAfter(after) \in SUBSET Devices
  BY DEF FirstDevices, DevicesAfter
<1>2. /\ after \in Int /\ k \in Nat \ {0} /\ Devices \in SUBSET Nat
      /\ \A s \in Slots : s[1] \in Devices /\ s[2] \in Caps /\ s = <<s[1], s[2]>>
  BY StateAssumption, SyncAssumption DEF StateAssumption, SyncAssumption, Slots
<1>3. ASSUME NEW s \in Slots, s[1] \in D PROVE Matches(entries[s], epoch, Collected(old, D)[s], pin)
  BY <1>3 DEF Collected, View, Matches
<1>4. ASSUME NEW s \in Slots, s[1] \notin D, s[1] <= after \/ s[1] \notin DevicesAfter(after)
      PROVE  Matches(entries[s], epoch, Collected(old, D)[s], pin)
  <2>1. Collected(old, D)[s] = old[s]
    BY <1>4 DEF Collected
  <2>2. CASE s[1] <= after
    BY <2>1, <2>2 DEF ExactIn, UpToDevice
  <2>3. CASE s[1] > after
    <3>1. ~Known(s[1])
      BY <1>2, <1>4, <2>3 DEF DevicesAfter
    <3>2. entries[s].quality = "absent"
      BY <3>1, <1>2 DEF Known
    <3> QED BY <2>1, <2>3, <3>2 DEF Matches
  <2> QED BY <2>2, <2>3, <1>2
<1>5. ASSUME D = DevicesAfter(after) PROVE ExactIn(Collected(old, D), Slots, pin)
  BY <1>3, <1>4, <1>5 DEF ExactIn
<1>6. ASSUME D # DevicesAfter(after) PROVE ExactIn(Collected(old, D), UpToDevice(Highest(D)), pin)
  <2>1. ASSUME NEW s \in Slots, s[1] <= Highest(D), s[1] \notin D, s[1] > after, s[1] \in DevicesAfter(after)
        PROVE  FALSE
    <3>1. D # {}
      BY <1>2, <2>1, DeviceSome
    <3>2. D \in SUBSET Nat /\ IsFiniteSet(D)
      BY <1>1, <1>2, FS_Subset, StateAssumption DEF StateAssumption
    <3>3. Highest(D) \in D
      BY <3>1, <3>2, HighestIsMax
    <3>4. Highest(D) < s[1]
      BY <2>1, <3>3, <1>2, DevicesInOrder
    <3> QED BY <2>1, <3>2, <3>3, <3>4, <1>2
  <2>2. ASSUME NEW s \in UpToDevice(Highest(D))
        PROVE  Matches(entries[s], epoch, Collected(old, D)[s], pin)
    <3>1. s \in Slots /\ s[1] <= Highest(D)
      BY DEF UpToDevice
    <3> QED BY <3>1, <2>1, <1>2, <1>3, <1>4
  <2> QED BY <2>2 DEF ExactIn
<1> QED BY <1>5, <1>6

(* The device a page ends with, which the next token names: nothing after  *)
(* it has been copied.                                                     *)
LEMMA PageEnds ==
  ASSUME NEW old, NEW after \in Devices \cup {-1}, NEW k \in 1..PageLimit, NEW D,
         D = FirstDevices(after, k), D # DevicesAfter(after),
         \A s \in Slots : s[1] > after => old[s].quality # "fresh"
  PROVE  /\ Highest(D) \in Devices
         /\ \A s \in Slots : s[1] > Highest(D) => Collected(old, D)[s].quality # "fresh"
<1>1. D \in SUBSET DevicesAfter(after) /\ DevicesAfter(after) \in SUBSET Devices
  BY DEF FirstDevices, DevicesAfter
<1>2. after \in Int /\ k \in Nat \ {0} /\ Devices \in SUBSET Nat /\ \A s \in Slots : s[1] \in Devices
  BY StateAssumption, SyncAssumption DEF StateAssumption, SyncAssumption, Slots
<1>3. D # {}
  BY <1>1, <1>2, DeviceSome
<1>4. D \in SUBSET Nat /\ IsFiniteSet(D)
  BY <1>1, <1>2, FS_Subset, StateAssumption DEF StateAssumption
<1>5. Highest(D) \in D /\ \A m \in D : m <= Highest(D)
  BY <1>3, <1>4, HighestIsMax
<1>6. Highest(D) > after
  BY <1>1, <1>5 DEF DevicesAfter
<1>7. ASSUME NEW s \in Slots, s[1] > Highest(D) PROVE Collected(old, D)[s].quality # "fresh"
  <2>1. Highest(D) \in Nat /\ s[1] \in Nat
    BY <1>2, <1>4, <1>5
  <2>2. s[1] > after
    BY <2>1, <1>2, <1>6, <1>7
  <2>3. s[1] \notin D
    BY <2>1, <1>5, <1>7
  <2> QED BY <2>2, <2>3 DEF Collected
<1> QED BY <1>1, <1>5, <1>7

-----------------------------------------------------------------------------
(* The steps.                                                              *)

(* What the invariant says of the numbers compared.                        *)
LEMMA SyncFacts ==
  ASSUME SyncInv
  PROVE  /\ StoreTypes /\ rev \in Nat /\ rev <= MaxRev /\ evicted \in Nat /\ evicted <= rev
         /\ epoch \in Nat /\ epoch >= 1 /\ cursor \in Nat /\ token.pin \in Nat
         /\ token.after \in Devices \cup {-1}
         /\ Copy = [Slots -> [quality : {"absent", "fresh", "stale"}, rev : 0..MaxRev, epoch : 0..MaxEpoch]]
<1>1. StoreTypes /\ rev \in 0..MaxRev /\ evicted \in 0..rev
  BY DEF SyncInv, StateInv, StoreInv, StoreTypes
<1>2. rev \in Nat /\ rev <= MaxRev /\ evicted \in Nat /\ evicted <= rev
  BY <1>1, StateAssumption DEF StateAssumption
<1>3. /\ epoch \in 1..MaxEpoch /\ cursor \in 0..MaxRev
      /\ token \in [epoch : 0..epoch, pin : 0..MaxRev, after : Devices \cup {-1}]
  BY DEF SyncInv, SyncTypeOK
<1> QED BY <1>1, <1>2, <1>3, StateAssumption, SyncAssumption DEF StateAssumption, SyncAssumption, Copy

(* What is sent of a slot, and so what a client copies, has its type.      *)
LEMMA ViewTypes ==
  ASSUME SyncInv, NEW old \in Copy, NEW S
  PROVE  [s \in Slots |-> IF s \in S THEN View(s) ELSE old[s]] \in Copy
<1>1. ASSUME NEW s \in Slots
      PROVE  View(s) \in [quality : {"absent", "fresh", "stale"}, rev : 0..MaxRev, epoch : 0..MaxEpoch]
  <2>1. entries[s] \in EntryAt(rev) /\ rev \in 0..MaxRev /\ epoch \in 1..MaxEpoch
    BY DEF SyncInv, StateInv, StoreInv, StoreTypes, SyncTypeOK
  <2>2. entries[s].quality \in {"absent", "fresh", "stale"} /\ entries[s].rev \in 0..rev
    BY <2>1 DEF EntryAt
  <2>3. entries[s].rev \in 0..MaxRev /\ epoch \in 0..MaxEpoch
    BY <2>1, <2>2, StateAssumption, SyncAssumption DEF StateAssumption, SyncAssumption
  <2> QED BY <2>2, <2>3 DEF View
<1> QED BY <1>1 DEF Copy

(* The empty copy is one.                                                  *)
LEMMA EmptyCopyType == EmptyCopy \in Copy
<1>1. 0 \in 0..MaxRev /\ 0 \in 0..MaxEpoch
  BY StateAssumption, SyncAssumption DEF StateAssumption, SyncAssumption
<1> QED BY <1>1 DEF EmptyCopy, NothingSeen, Copy

(* Collected(old, D) is ViewTypes' copy for the slots of D.                *)
LEMMA CollectedType ==
  ASSUME SyncInv, NEW old \in Copy, NEW D
  PROVE  Collected(old, D) \in Copy
<1> DEFINE S == {s \in Slots : s[1] \in D}
<1>1. [s \in Slots |-> IF s \in S THEN View(s) ELSE old[s]] \in Copy
  BY ViewTypes
<1>2. Collected(old, D) = [s \in Slots |-> IF s \in S THEN View(s) ELSE old[s]]
  BY DEF Collected
<1> QED BY <1>1, <1>2

(* The client starts with nothing, against an empty store.                 *)
LEMMA SyncInvInit == SyncInit => SyncInv
<1> SUFFICES ASSUME SyncInit PROVE SyncInv
  OBVIOUS
<1>1. StateInv
  BY StateInvInit DEF SyncInit
<1>2. /\ entries = [s \in Slots |-> NoEntry] /\ rev = 0 /\ evicted = 0 /\ epoch = 1
      /\ phase \in {"polling", "resync"} /\ known = 0 /\ cursor = 0
      /\ cache = EmptyCopy /\ page = EmptyCopy /\ token = NoToken
  BY DEF SyncInit, StateInit
<1>3. MaxRev \in Nat /\ MaxEpoch \in Nat /\ MaxEpoch >= 1
  BY StateAssumption, SyncAssumption DEF StateAssumption, SyncAssumption
<1>4. SyncTypeOK
  BY <1>2, <1>3, EmptyCopyType DEF SyncTypeOK, NoToken
<1>5. ASSUME NEW s \in Slots, NEW n PROVE Matches(entries[s], epoch, EmptyCopy[s], n)
  BY <1>2 DEF EmptyCopy, NothingSeen, Matches, NoEntry
<1>6. token.epoch # epoch
  BY <1>2 DEF NoToken
<1>7. ClientInv
  BY <1>2, <1>5, <1>6 DEF ClientInv, ExactIn
<1> QED BY <1>1, <1>4, <1>7 DEF SyncInv

(* A step of an instance: nothing of the client's moves.                   *)
LEMMA StoreStepKeeps ==
  ASSUME SyncInv, StoreStep
  PROVE  SyncInv'
<1>1. StateInv /\ StateNext
  BY DEF SyncInv, StoreStep
<1>2. /\ epoch' = epoch /\ phase' = phase /\ known' = known /\ cursor' = cursor
      /\ cache' = cache /\ page' = page /\ token' = token
  BY DEF StoreStep, clientVars
<1>3. StateInv'
  BY <1>1, StateInvNext
<1>4. rev \in Nat /\ rev' \in Nat /\ rev' >= rev /\ evicted \in Nat /\ evicted' \in Nat /\ evicted' >= evicted
  <2>1. StoreTypes'
    BY <1>3 DEF StateInv, StoreInv
  <2>2. rev' \in Nat /\ evicted' \in Nat
    BY <2>1, StateAssumption DEF StoreTypes, StateAssumption
  <2> QED BY <1>1, <2>2, SyncFacts, StoreGrows
<1>5. cursor \in Nat /\ token.pin \in Nat
  BY SyncFacts
<1>6. SyncTypeOK'
  <2>1. Copy' = Copy
    BY DEF Copy
  <2>2. (known \in {0, epoch} => cursor <= rev') /\ (token.epoch = epoch => token.pin <= rev')
    BY <1>4, <1>5 DEF SyncInv, SyncTypeOK
  <2> QED BY <1>2, <2>1, <2>2 DEF SyncInv, SyncTypeOK
<1>7. ASSUME phase = "polling", known \in {0, epoch}, evicted' <= cursor, NEW s \in Slots
      PROVE  Matches(entries'[s], epoch, cache[s], cursor)
  <2>1. evicted <= cursor /\ cursor <= rev
    BY <1>4, <1>5, <1>7 DEF SyncInv, SyncTypeOK
  <2>2. Matches(entries[s], epoch, cache[s], cursor)
    BY <2>1, <1>7 DEF SyncInv, ClientInv, ExactIn
  <2> QED BY <2>1, <2>2, <1>1, <1>5, <1>7, StillExact
<1>8. ASSUME token.epoch = epoch, evicted' <= token.pin, NEW s \in UpToDevice(token.after)
      PROVE  Matches(entries'[s], epoch, page[s], token.pin)
  <2>1. evicted <= token.pin /\ token.pin <= rev
    BY <1>4, <1>5, <1>8 DEF SyncInv, SyncTypeOK
  <2>2. Matches(entries[s], epoch, page[s], token.pin)
    BY <2>1, <1>8 DEF SyncInv, ClientInv, ExactIn
  <2>3. s \in Slots
    BY <1>8 DEF UpToDevice
  <2> QED BY <2>1, <2>2, <2>3, <1>1, <1>5, <1>8, StillExact
<1>9. ClientInv'
  BY <1>2, <1>7, <1>8 DEF SyncInv, ClientInv, ExactIn, UpToDevice, EmptyCopy
<1> QED BY <1>3, <1>6, <1>9 DEF SyncInv

(* A restart of the daemon: whatever the client holds belongs to an        *)
(* earlier epoch, unless it was never answered.                            *)
LEMMA DaemonRestartKeeps ==
  ASSUME SyncInv, DaemonRestart
  PROVE  SyncInv'
<1>1. /\ entries' = [s \in Slots |-> NoEntry] /\ rev' = 0 /\ evicted' = 0 /\ epoch' = epoch + 1
      /\ phase' = phase /\ known' = known /\ cursor' = cursor
      /\ cache' = cache /\ page' = page /\ token' = token
      /\ epoch < MaxEpoch
  BY DEF DaemonRestart, clientVars
<1>2. StateInit'
  BY DEF DaemonRestart, StateInit
<1>3. StateInv'
  BY <1>2, StateInvInit, PTL
<1>4. /\ epoch \in Nat /\ epoch >= 1 /\ epoch' \in 1..MaxEpoch
      /\ known \in 0..epoch /\ token.epoch \in 0..epoch
  <2>1. epoch \in 1..MaxEpoch /\ known \in 0..epoch /\ token.epoch \in 0..epoch
    BY DEF SyncInv, SyncTypeOK
  <2>2. epoch \in Nat /\ epoch >= 1
    BY SyncFacts
  <2> QED BY <2>1, <2>2, <1>1, SyncAssumption DEF SyncAssumption
<1>5. known \in 0..epoch' /\ known # epoch' /\ token.epoch # epoch'
  BY <1>1, <1>4
<1>6. SyncTypeOK'
  <2>1. Copy' = Copy /\ (known \in {0, epoch'} => cursor <= rev')
    BY <1>1, <1>5 DEF Copy, SyncInv, ClientInv
  <2>2. token \in [epoch : 0..epoch', pin : 0..MaxRev, after : Devices \cup {-1}]
    <3>1. \A n \in 0..epoch : n \in 0..epoch'
      BY <1>1, <1>4
    <3> QED BY <3>1 DEF SyncInv, SyncTypeOK
  <2> QED BY <1>1, <1>4, <1>5, <2>1, <2>2 DEF SyncInv, SyncTypeOK
<1>7. ASSUME NEW s \in Slots, NEW n PROVE Matches(entries'[s], epoch', EmptyCopy[s], n)
  BY <1>1 DEF EmptyCopy, NothingSeen, Matches, NoEntry
<1>8. ClientInv'
  BY <1>1, <1>5, <1>7 DEF SyncInv, ClientInv, ExactIn, EmptyCopy
<1> QED BY <1>3, <1>6, <1>8 DEF SyncInv

(* The client's steps leave the store and its epoch alone.                 *)
LEMMA ClientFrame ==
  ASSUME SyncInv, UNCHANGED <<stateVars, epoch>>
  PROVE  /\ entries' = entries /\ rev' = rev /\ evicted' = evicted /\ epoch' = epoch
         /\ StateInv'
<1>1. UNCHANGED stateVars
  OBVIOUS
<1>2. StateInv'
  BY <1>1, StateInvNext DEF SyncInv
<1>3. entries' = entries /\ rev' = rev /\ evicted' = evicted
  BY <1>1 DEF stateVars, storeVars
<1> QED BY <1>2, <1>3

(* A page of changes.                                                      *)
LEMMA PollChangesKeeps ==
  ASSUME SyncInv, PollChanges
  PROVE  SyncInv'
<1> DEFINE S == DeltaPage(cursor)
<1>1. /\ phase = "polling" /\ ~MustResync(cursor)
      /\ cache' = [s \in Slots |-> IF s \in S THEN View(s) ELSE cache[s]]
      /\ cursor' \in NextCursor(S)
      /\ known' = epoch /\ phase' = phase /\ page' = page /\ token' = token
      /\ UNCHANGED <<stateVars, epoch>>
  BY DEF PollChanges
<1>2. entries' = entries /\ rev' = rev /\ evicted' = evicted /\ epoch' = epoch /\ StateInv'
  BY <1>1, ClientFrame
<1>3. /\ StoreTypes /\ rev \in Nat /\ rev <= MaxRev /\ evicted \in Nat /\ cursor \in Nat
      /\ epoch \in Nat /\ epoch >= 1
  BY SyncFacts
<1>4. known \in {0, epoch} /\ evicted <= cursor /\ cursor <= rev
  BY <1>1, <1>3 DEF MustResync, ResetRequired, SyncInv, SyncTypeOK
<1>5. /\ cursor' \in Nat /\ cursor' <= rev
      /\ \A s \in Slots : entries[s].rev <= cursor' => entries[s].rev <= cursor \/ s \in S
  BY <1>1, <1>3, <1>4, DeltaComplete
<1> HIDE DEF S
<1>6. SyncTypeOK'
  <2>1. cache' \in Copy
    BY <1>1, ViewTypes DEF SyncInv, SyncTypeOK
  <2>2. Copy' = Copy /\ cursor' \in 0..MaxRev /\ epoch \in 0..epoch
    BY <1>3, <1>5, StateAssumption DEF Copy, StateAssumption
  <2> QED BY <1>1, <1>2, <1>5, <2>1, <2>2 DEF SyncInv, SyncTypeOK
<1>7. ASSUME NEW s \in Slots PROVE Matches(entries[s], epoch, cache'[s], cursor')
  <2>1. CASE s \in S BY <2>1, <1>1 DEF Matches, View
  <2>2. CASE s \notin S
    <3>1. cache'[s] = cache[s] /\ Matches(entries[s], epoch, cache[s], cursor)
      BY <2>2, <1>1, <1>4 DEF SyncInv, ClientInv, ExactIn
    <3> QED BY <3>1, <2>2, <1>5 DEF Matches
  <2> QED BY <2>1, <2>2
<1>8. ClientInv'
  <2>1. (known = 0 => cursor = 0 /\ cache = EmptyCopy)'
    BY <1>1, <1>3
  <2>2. (phase = "polling" /\ known \in {0, epoch} /\ evicted <= cursor => ExactIn(cache, Slots, cursor))'
    BY <1>2, <1>7 DEF ExactIn
  <2>3. (token.epoch = epoch =>
           /\ \A s \in Slots : s[1] > token.after => page[s].quality # "fresh"
           /\ evicted <= token.pin => ExactIn(page, UpToDevice(token.after), token.pin))'
    BY <1>1, <1>2 DEF SyncInv, ClientInv, ExactIn, UpToDevice
  <2> QED BY <2>1, <2>2, <2>3 DEF ClientInv
<1> QED BY <1>2, <1>6, <1>8 DEF SyncInv

(* A reset or a refused token: the copy stays, the resync starts over.     *)
LEMMA ResyncKeeps ==
  ASSUME SyncInv, PollReset \/ PageRefused
  PROVE  SyncInv'
<1>1. /\ phase' = "resync" /\ known' = known /\ cursor' = cursor /\ cache' = cache
      /\ (page' = page /\ token' = token) \/ (page' = EmptyCopy /\ token' = NoToken)
      /\ UNCHANGED <<stateVars, epoch>>
  BY DEF PollReset, PageRefused
<1>2. entries' = entries /\ rev' = rev /\ evicted' = evicted /\ epoch' = epoch /\ StateInv'
  BY <1>1, ClientFrame
<1>3. epoch \in Nat /\ epoch >= 1 /\ Copy' = Copy
  BY SyncFacts DEF Copy
<1>4. NoToken.epoch # epoch /\ NoToken \in [epoch : 0..epoch, pin : 0..MaxRev, after : Devices \cup {-1}]
  BY <1>3, StateAssumption DEF NoToken, StateAssumption
<1>5. SyncTypeOK'
  BY <1>1, <1>2, <1>3, <1>4, EmptyCopyType DEF SyncInv, SyncTypeOK
<1>6. ClientInv'
  <2>1. CASE page' = page /\ token' = token
    BY <2>1, <1>1, <1>2 DEF SyncInv, ClientInv, ExactIn, UpToDevice, EmptyCopy
  <2>2. CASE page' = EmptyCopy /\ token' = NoToken
    BY <2>2, <1>1, <1>2, <1>4 DEF SyncInv, ClientInv, EmptyCopy
  <2> QED BY <2>1, <2>2, <1>1
<1> QED BY <1>2, <1>5, <1>6 DEF SyncInv

(* A page of the snapshot, the first or a later one.                       *)
LEMMA TakePageKeeps ==
  ASSUME SyncInv, NEW old \in Copy, NEW pin \in Nat, pin <= rev, NEW after \in Devices \cup {-1},
         TakePage(old, pin, after), UNCHANGED <<stateVars, epoch>>,
         evicted <= pin => ExactIn(old, UpToDevice(after), pin),
         \A s \in Slots : s[1] > after => old[s].quality # "fresh"
  PROVE  SyncInv'
<1>1. PICK k \in 1..PageLimit :
        LET D == FirstDevices(after, k) IN
        IF D = DevicesAfter(after)
        THEN /\ cache' = Collected(old, D)
             /\ cursor' = pin
             /\ known' = epoch
             /\ phase' = "polling"
             /\ page' = EmptyCopy
             /\ token' = NoToken
        ELSE /\ page' = Collected(old, D)
             /\ token' = [epoch |-> epoch, pin |-> pin, after |-> Highest(D)]
             /\ phase' = "paging"
             /\ UNCHANGED <<cache, cursor, known>>
  BY DEF TakePage
<1> DEFINE D == FirstDevices(after, k)
<1>2. entries' = entries /\ rev' = rev /\ evicted' = evicted /\ epoch' = epoch /\ StateInv'
  BY ClientFrame
<1>3. /\ rev \in Nat /\ rev <= MaxRev /\ epoch \in Nat /\ epoch >= 1 /\ Copy' = Copy
      /\ pin \in 0..MaxRev /\ epoch \in 0..epoch
  BY SyncFacts, StateAssumption DEF Copy, StateAssumption
<1>4. Collected(old, D) \in Copy
  BY CollectedType
<1>5. ASSUME evicted <= pin
      PROVE  /\ D = DevicesAfter(after) => ExactIn(Collected(old, D), Slots, pin)
             /\ D # DevicesAfter(after) => ExactIn(Collected(old, D), UpToDevice(Highest(D)), pin)
  BY <1>5, PageComplete
<1>6. ASSUME D # DevicesAfter(after)
      PROVE  /\ Highest(D) \in Devices
             /\ \A s \in Slots : s[1] > Highest(D) => Collected(old, D)[s].quality # "fresh"
  BY <1>6, PageEnds
<1> HIDE DEF D
<1>7. CASE D = DevicesAfter(after)
  <2>1. /\ cache' = Collected(old, D) /\ cursor' = pin /\ known' = epoch /\ phase' = "polling"
        /\ page' = EmptyCopy /\ token' = NoToken
    BY <1>1, <1>7 DEF D
  <2>2. NoToken.epoch # epoch /\ NoToken \in [epoch : 0..epoch, pin : 0..MaxRev, after : Devices \cup {-1}]
    BY <1>3, StateAssumption DEF NoToken, StateAssumption
  <2>3. SyncTypeOK'
    BY <1>2, <1>3, <1>4, <2>1, <2>2, EmptyCopyType DEF SyncInv, SyncTypeOK
  <2>4. ClientInv'
    BY <1>2, <1>3, <1>5, <1>7, <2>1, <2>2 DEF ClientInv, ExactIn
  <2> QED BY <1>2, <2>3, <2>4 DEF SyncInv
<1>8. CASE D # DevicesAfter(after)
  <2>1. /\ cache' = cache /\ cursor' = cursor /\ known' = known /\ phase' = "paging"
        /\ page' = Collected(old, D)
        /\ token' = [epoch |-> epoch, pin |-> pin, after |-> Highest(D)]
    BY <1>1, <1>8 DEF D
  <2>2. token' \in [epoch : 0..epoch, pin : 0..MaxRev, after : Devices \cup {-1}]
    BY <1>3, <1>6, <1>8, <2>1
  <2>3. token'.pin = pin /\ token'.after = Highest(D)
    BY <2>1
  <2>4. SyncTypeOK'
    BY <1>2, <1>3, <1>4, <2>1, <2>2, <2>3 DEF SyncInv, SyncTypeOK
  <2>5. (token.epoch = epoch =>
           /\ \A s \in Slots : s[1] > token.after => page[s].quality # "fresh"
           /\ evicted <= token.pin => ExactIn(page, UpToDevice(token.after), token.pin))'
    <3>1. \A s \in Slots : s[1] > token'.after => page'[s].quality # "fresh"
      BY <1>6, <1>8, <2>1, <2>3
    <3>2. ASSUME evicted <= pin, NEW s \in UpToDevice(Highest(D))
          PROVE  Matches(entries[s], epoch, page'[s], pin)
      BY <1>5, <1>8, <2>1, <3>2 DEF ExactIn
    <3> QED BY <1>2, <2>3, <3>1, <3>2 DEF ExactIn, UpToDevice
  <2>6. ClientInv'
    BY <2>1, <2>5 DEF SyncInv, ClientInv, EmptyCopy
  <2> QED BY <1>2, <2>4, <2>6 DEF SyncInv
<1> QED BY <1>7, <1>8

(* snapshot_page pins the revision of the first page, and later pages are  *)
(* only served in the epoch the token was signed in.                       *)
LEMMA PageKeeps ==
  ASSUME SyncInv, FirstPage \/ NextPage
  PROVE  SyncInv'
<1>1. /\ rev \in Nat /\ token.pin \in Nat /\ token.after \in Devices \cup {-1} /\ page \in Copy
  BY SyncFacts DEF SyncInv, SyncTypeOK
<1>2. CASE FirstPage
  <2>1. TakePage(EmptyCopy, rev, -1) /\ UNCHANGED <<stateVars, epoch>>
    BY <1>2 DEF FirstPage
  <2>2. ExactIn(EmptyCopy, UpToDevice(-1), rev)
    <3>1. \A s \in Slots : s[1] \in Nat
      BY StateAssumption DEF Slots, StateAssumption
    <3>2. UpToDevice(-1) = {}
      BY <3>1 DEF UpToDevice
    <3> QED BY <3>2 DEF ExactIn
  <2>3. \A s \in Slots : EmptyCopy[s].quality # "fresh"
    BY DEF EmptyCopy, NothingSeen
  <2> QED BY <1>1, <2>1, <2>2, <2>3, EmptyCopyType, TakePageKeeps
<1>3. CASE NextPage
  <2>1. /\ TakePage(page, token.pin, token.after) /\ UNCHANGED <<stateVars, epoch>>
        /\ token.epoch = epoch
    BY <1>3 DEF NextPage, PinOf
  <2>2. /\ token.pin <= rev
        /\ evicted <= token.pin => ExactIn(page, UpToDevice(token.after), token.pin)
        /\ \A s \in Slots : s[1] > token.after => page[s].quality # "fresh"
    BY <2>1 DEF SyncInv, SyncTypeOK, ClientInv
  <2> QED BY <1>1, <2>1, <2>2, TakePageKeeps
<1> QED BY <1>2, <1>3

(* Nothing happens.                                                        *)
LEMMA SyncStutters ==
  ASSUME SyncInv, UNCHANGED syncVars
  PROVE  SyncInv'
<1>1. /\ UNCHANGED <<stateVars, epoch>> /\ phase' = phase /\ known' = known /\ cursor' = cursor
      /\ cache' = cache /\ page' = page /\ token' = token
  BY DEF syncVars, clientVars
<1>2. entries' = entries /\ rev' = rev /\ evicted' = evicted /\ epoch' = epoch /\ StateInv'
  BY <1>1, ClientFrame
<1>3. SyncTypeOK'
  BY <1>1, <1>2 DEF SyncInv, SyncTypeOK, Copy
<1>4. ClientInv'
  BY <1>1, <1>2 DEF SyncInv, ClientInv, ExactIn, UpToDevice, EmptyCopy
<1> QED BY <1>2, <1>3, <1>4 DEF SyncInv

-----------------------------------------------------------------------------
(* The inductive invariant of the client and the store together: whatever  *)
(* the writers, the pages, the evictions and the restarts of the daemon.   *)
THEOREM SyncInvariant == SyncSpec => []SyncInv
<1>1. SyncInit => SyncInv
  BY SyncInvInit
<1>2. SyncInv /\ [SyncNext]_syncVars => SyncInv'
  <2> SUFFICES ASSUME SyncInv, [SyncNext]_syncVars PROVE SyncInv'
    OBVIOUS
  <2>1. CASE StoreStep BY <2>1, StoreStepKeeps
  <2>2. CASE ClientStep BY <2>2, PollChangesKeeps, ResyncKeeps, PageKeeps DEF ClientStep
  <2>3. CASE DaemonRestart BY <2>3, DaemonRestartKeeps
  <2>4. CASE UNCHANGED syncVars BY <2>4, SyncStutters
  <2> QED BY <2>1, <2>2, <2>3, <2>4 DEF SyncNext
<1> QED BY <1>1, <1>2, PTL DEF SyncSpec

(* Types; within an epoch neither the client's cursor nor its pinned       *)
(* revision is ahead of the store that issued it.                          *)
THEOREM SyncTypesCorrect == SyncSpec => []SyncTypeOK
<1>1. SyncInv => SyncTypeOK
  BY DEF SyncInv
<1> QED BY <1>1, SyncInvariant, PTL

(* The copy of a client whose next poll will be answered with deltas is    *)
(* exact up to its cursor: GET /devices/state/changes skips nothing, and   *)
(* deltas_since_with_revision asks for a reset before an eviction can hide *)
(* a change.                                                               *)
THEOREM CopyExact == SyncSpec => []ExactUpToCursor
<1>1. SyncInv => ExactUpToCursor
  <2> SUFFICES ASSUME SyncInv, Current, NEW s \in Slots, entries[s].rev <= cursor
               PROVE  IF Fresh(s) THEN cache[s] = View(s) ELSE cache[s].quality # "fresh"
    BY DEF ExactUpToCursor
  <2>1. evicted \in Nat /\ cursor \in Nat
    BY SyncFacts
  <2>2. phase = "polling" /\ known \in {0, epoch} /\ evicted <= cursor
    BY <2>1 DEF Current, MustResync, ResetRequired
  <2>3. Matches(entries[s], epoch, cache[s], cursor)
    BY <2>2 DEF SyncInv, ClientInv, ExactIn
  <2> QED BY <2>3 DEF Matches, Fresh, View
<1> QED BY <1>1, SyncInvariant, PTL

(* The store keeps its invariant under a client and through restarts of    *)
(* the daemon, which StateSpec does not have.                              *)
THEOREM StoreUnderClient == SyncSpec => []StateInv
<1>1. SyncInv => StateInv
  BY DEF SyncInv
<1> QED BY <1>1, SyncInvariant, PTL
===============================================================================
