----------------------------- MODULE DeviceState -----------------------------
(***************************************************************************)
(* The device registry (state/devices.rs) and the host-owned projection of *)
(* device state (state/device_state.rs), with the code that keeps the two  *)
(* together: the host-devices and host-events calls of a guest             *)
(* (runtime/state.rs), the OkWithState result of a command                 *)
(* (runtime/instance.rs), the sweep at the top of every life               *)
(* (runtime/lifecycle.rs) and the reaper (runtime.rs).                     *)
(*                                                                         *)
(* Registry and projection have a lock each, and every operation takes one *)
(* after the other: each lock section is a step, and instances and API     *)
(* readers run between them.  A device id is derived from its owner        *)
(* (stable_device_id), so a device has one owner for ever.                 *)
(*                                                                         *)
(* Abstracted: a field's value is the revision of the write that set it;   *)
(* the byte caps are left out beside the field-count cap, which behaves    *)
(* alike; the event log and the bus are in EventBus.                       *)
(***************************************************************************)
EXTENDS Integers, FiniteSets

CONSTANTS Instances,   \* instance ids
          Devices,     \* stable device ids: numbers, in the order of the map
          Caps,        \* capability names: numbers, likewise
          Keys,        \* field keys
          SeedKeys,    \* the keys initial_state sets, for each capability;
                       \* none for one that carries no state
          Owner,       \* [Devices -> Instances]
          MaxStale,    \* MAX_STALE_ENTRIES
          MaxFields,   \* MAX_FIELDS_PER_SLOT
          MaxDevices,  \* MAX_DEVICES_PER_INSTANCE
          MaxRev,      \* bound on the revisions of one daemon life
          MaxGen,      \* bound on the lives of one instance
          None

ASSUME StateAssumption ==
  /\ Devices \subseteq Nat /\ IsFiniteSet(Devices)
  /\ Caps \subseteq Nat /\ IsFiniteSet(Caps)
  /\ Owner \in [Devices -> Instances]
  /\ IsFiniteSet(Keys)
  /\ SeedKeys \in [Caps -> SUBSET Keys]
  /\ MaxStale \in Nat /\ MaxFields \in Nat /\ MaxDevices \in Nat
  /\ MaxRev \in Nat /\ MaxGen \in Nat
  /\ None \notin Devices

VARIABLES
  registry,   \* the capabilities each device declares, or Unregistered
  entries,    \* the projection
  rev,        \* global_revision
  evicted,    \* evicted_through_revision
  gens,       \* generations
  inst,       \* where each instance's supervisor is
  op,         \* the host call of each guest between its two lock sections
  cut         \* history: the revision up to which a slot's values are void:
              \* its device was removed or registered anew, its owner began
              \* another life, or a full snapshot replaced them

storeVars == <<entries, rev, evicted, gens, cut>>
stateVars == <<registry, storeVars, inst, op>>

-----------------------------------------------------------------------------
Slots == Devices \X Caps

Unregistered == {-1}

NoFields == [k \in Keys |-> 0]

NoEntry == [quality |-> "absent", rev |-> 0, gen |-> 0, fields |-> NoFields]

NoOp == [kind |-> "none", dev |-> None, caps |-> {}, keys |-> {}]

Fresh(s) == entries[s].quality = "fresh"

Registered(d) == registry[d] # Unregistered

SlotsOf(d) == {d} \X Caps

OwnSlots(i) == {s \in Slots : Owner[s[1]] = i}

(* The order of the BTreeMap. *)
Before(s, t) == s[1] < t[1] \/ (s[1] = t[1] /\ s[2] < t[2])

Rank(S, s) == Cardinality({t \in S : Before(t, s)}) + 1

StateInit ==
  /\ registry = [d \in Devices |-> Unregistered]
  /\ entries = [s \in Slots |-> NoEntry]
  /\ rev = 0
  /\ evicted = 0
  /\ gens = [i \in Instances |-> 0]
  /\ inst = [i \in Instances |-> "off"]
  /\ op = [i \in Instances |-> NoOp]
  /\ cut = [s \in Slots |-> 0]

-----------------------------------------------------------------------------
(* Under the write lock of the projection. *)

(* next_revision must stay within the bound of the model. *)
RevisionsLeft(n) == rev + n <= MaxRev

(* stale_where_locked: every Fresh slot of S is flipped and gets a         *)
(* revision of its own, in key order.                                      *)
FreshIn(S) == {s \in S : Fresh(s)}

FlipQuality_OneRevision(S, s) ==
  [entries[s] EXCEPT !.quality = "stale", !.rev = rev + Cardinality(S)]

FlipQuality(S, s) ==
  [entries[s] EXCEPT !.quality = "stale", !.rev = rev + Rank(S, s)]

Flipped(S) ==
  [s \in Slots |-> IF s \in S THEN FlipQuality(S, s) ELSE entries[s]]

StaleIn(E) == {s \in Slots : E[s].quality = "stale"}

(* enforce_stale_cap_locked: the oldest go, until MaxStale are left. *)
Overflow_KeepsOneMore(E) ==
  {s \in StaleIn(E) :
     Cardinality({t \in StaleIn(E) : E[t].rev > E[s].rev}) > MaxStale}

Overflow(E) ==
  {s \in StaleIn(E) :
     Cardinality({t \in StaleIn(E) : E[t].rev > E[s].rev}) >= MaxStale}

Evict(E) == [s \in Slots |-> IF s \in Overflow(E) THEN NoEntry ELSE E[s]]

Highest(S) == CHOOSE n \in S : \A m \in S : m <= n

Watermark_Unmoved(E) == evicted

Watermark(E) == Highest({evicted} \cup {E[s].rev : s \in Overflow(E)})

CutAt(S, n) == [s \in Slots |-> IF s \in S THEN n ELSE cut[s]]

(* A sweep of the Fresh slots among S. *)
Sweep(S) ==
  LET F == FreshIn(S) IN
  /\ RevisionsLeft(Cardinality(F))
  /\ entries' = Evict(Flipped(F))
  /\ evicted' = Watermark(Flipped(F))
  /\ rev' = rev + Cardinality(F)
  /\ cut' = CutAt(S, rev + Cardinality(F))

Stamp(i, n, fields) ==
  [quality |-> "fresh", rev |-> n, gen |-> gens[i], fields |-> fields]

KeysOf(fields) == {k \in Keys : fields[k] # 0}

SetFields(fields, keys, n) ==
  [k \in Keys |-> IF k \in keys THEN n ELSE fields[k]]

(* What a delta is merged into: nothing that is stale, and nothing of an   *)
(* earlier generation.                                                     *)
Baseline_AnyEntry(i, s) == entries[s].fields

Baseline(i, s) ==
  IF Fresh(s) /\ entries[s].gen = gens[i] THEN entries[s].fields ELSE NoFields

(* merge_fields: an update of a present key is always taken, new keys only *)
(* up to the cap; which ones depends on their order in the guest's list.   *)
Kept(old, keys) ==
  {kept \in SUBSET keys :
     /\ keys \cap KeysOf(old) \subseteq kept
     /\ Cardinality(KeysOf(old) \cup kept) <= MaxFields
          \/ kept \subseteq KeysOf(old)
     /\ kept = keys \/ Cardinality(KeysOf(old) \cup kept) >= MaxFields}

(* write_entry. *)
WriteEntry(i, s, old, keys) ==
  /\ RevisionsLeft(1)
  /\ rev' = rev + 1
  /\ \E kept \in Kept(old, keys) :
       entries' = [entries EXCEPT ![s] = Stamp(i, rev + 1, SetFields(old, kept, rev + 1))]

-----------------------------------------------------------------------------
(* The host calls of a guest.  Each is one step on the registry, then one  *)
(* on the projection; the guest does not run in between.                   *)

Idle(i) == inst[i] = "up" /\ op[i] = NoOp

Pending(i, kind) == op[i].kind = kind

Continue(i, kind, d, caps, keys) ==
  op' = [op EXCEPT ![i] = [kind |-> kind, dev |-> d, caps |-> caps, keys |-> keys]]

Return(i) == op' = [op EXCEPT ![i] = NoOp]

SetRegistry(d, caps) == registry' = [registry EXCEPT ![d] = caps]

OwnedBy(i) == {d \in Devices : Owner[d] = i /\ Registered(d)}

(* The admission checks of the field count. *)
AdmittedInto(old, keys) == Cardinality(KeysOf(old) \cup keys) <= MaxFields

(* register-device, on a new id or on one the instance has registered;     *)
(* "seeded" are the capabilities initial_state lists.                      *)
Register(i, d, caps, seeded) ==
  /\ Idle(i)
  /\ Owner[d] = i
  /\ seeded \subseteq {c \in caps : SeedKeys[c] # {}}
  /\ \A c \in seeded : AdmittedInto(NoFields, SeedKeys[c])
  /\ Registered(d) \/ Cardinality(OwnedBy(i)) < MaxDevices
  /\ SetRegistry(d, caps)
  /\ Continue(i, "seed", d, seeded, {})
  /\ UNCHANGED <<storeVars, inst>>

(* reset_and_seed_device: flip, enforce the cap and seed under one lock.   *)
(* The seeds take their revisions in key order here, for the order of the  *)
(* guest's list; nothing tells one order from another.                     *)
Seed(i) ==
  LET d == op[i].dev
      F == FreshIn(SlotsOf(d))
      n == rev + Cardinality(F)
      S == {d} \X op[i].caps
      Seeded(s) == SetFields(NoFields, SeedKeys[s[2]], n + Rank(S, s)) IN
  /\ Pending(i, "seed")
  /\ RevisionsLeft(Cardinality(F) + Cardinality(S))
  /\ rev' = n + Cardinality(S)
  /\ evicted' = Watermark(Flipped(F))
  /\ entries' = [s \in Slots |-> IF s \in S THEN Stamp(i, n + Rank(S, s), Seeded(s))
                                           ELSE Evict(Flipped(F))[s]]
  /\ cut' = CutAt(SlotsOf(d), n)
  /\ Return(i)
  /\ UNCHANGED <<registry, gens, inst>>

(* update-device: the new capability list replaces the old one, then the   *)
(* projection is reconciled with it.                                       *)
Update(i, d, caps) ==
  /\ Idle(i)
  /\ Owner[d] = i
  /\ Registered(d)
  /\ SetRegistry(d, caps)
  /\ Continue(i, "reconcile", d, caps, {})
  /\ UNCHANGED <<storeVars, inst>>

Dropped(d, live) == {s \in SlotsOf(d) : s[2] \notin live}

Reconcile(i) ==
  /\ Pending(i, "reconcile")
  /\ Sweep(Dropped(op[i].dev, op[i].caps))
  /\ Return(i)
  /\ UNCHANGED <<registry, gens, inst>>

(* remove-device. *)
Remove(i, d) ==
  /\ Idle(i)
  /\ Owner[d] = i
  /\ Registered(d)
  /\ SetRegistry(d, Unregistered)
  /\ Continue(i, "remove", d, {}, {})
  /\ UNCHANGED <<storeVars, inst>>

MarkDeviceStale(i) ==
  /\ Pending(i, "remove")
  /\ Sweep(SlotsOf(op[i].dev))
  /\ Return(i)
  /\ UNCHANGED <<registry, gens, inst>>

(* publish-event of a state change: authorised and admitted, then recorded *)
(* under the publish gate, then applied.                                   *)
Declares(d, c) == Registered(d) /\ c \in registry[d]

DeltaAdmitted_IncomingOnly(i, s, keys) == AdmittedInto(NoFields, keys)

DeltaAdmitted(i, s, keys) == AdmittedInto(Baseline(i, s), keys)

Publish(i, d, c, keys) ==
  /\ Idle(i)
  /\ Owner[d] = i
  /\ Declares(d, c)
  /\ DeltaAdmitted(i, <<d, c>>, keys)
  /\ Continue(i, "delta", d, {c}, keys)
  /\ UNCHANGED <<registry, storeVars, inst>>

SlotOf(i) == <<op[i].dev, CHOOSE c \in op[i].caps : TRUE>>

ApplyDelta(i) ==
  /\ Pending(i, "delta")
  /\ WriteEntry(i, SlotOf(i), Baseline(i, SlotOf(i)), op[i].keys)
  /\ Return(i)
  /\ UNCHANGED <<registry, evicted, gens, inst, cut>>

(* The event log refused the row, and the guest gets an error. *)
LogFails(i) ==
  /\ Pending(i, "delta")
  /\ Return(i)
  /\ UNCHANGED <<registry, storeVars, inst>>

(* A command answered OkWithState for a capability the device declares.    *)
CommandResult(i, d, c, keys) ==
  /\ Idle(i)
  /\ Owner[d] = i
  /\ AdmittedInto(NoFields, keys)
  /\ Declares(d, c)
  /\ Continue(i, "snapshot", d, {c}, keys)
  /\ UNCHANGED <<registry, storeVars, inst>>

ReplaceSnapshot(i) ==
  /\ Pending(i, "snapshot")
  /\ WriteEntry(i, SlotOf(i), NoFields, op[i].keys)
  /\ cut' = CutAt({SlotOf(i)}, rev)
  /\ Return(i)
  /\ UNCHANGED <<registry, evicted, gens, inst>>

-----------------------------------------------------------------------------
(* The lives of an instance. *)

Goto(i, label) == inst' = [inst EXCEPT ![i] = label]

RemoveByOwner(i) ==
  registry' = [d \in Devices |-> IF Owner[d] = i THEN Unregistered ELSE registry[d]]

(* The top of a life, the first or after a crash: devices.remove_by_owner. *)
BeginLife(i) ==
  /\ inst[i] \in {"off", "down"}
  /\ gens[i] < MaxGen
  /\ RemoveByOwner(i)
  /\ Goto(i, "sweeping")
  /\ UNCHANGED <<storeVars, op>>

(* restart_generation: sweep and bump under one lock. *)
RestartGeneration(i) ==
  /\ inst[i] = "sweeping"
  /\ Sweep(OwnSlots(i))
  /\ gens' = [gens EXCEPT ![i] = @ + 1]
  /\ Goto(i, "up")
  /\ UNCHANGED <<registry, op>>

(* The guest traps, fails to load, or returns an error: the supervisor     *)
(* waits out its backoff and starts another life.  Nothing is swept yet.   *)
Crash(i) ==
  /\ Idle(i)
  /\ Goto(i, "down")
  /\ UNCHANGED <<registry, storeVars, op>>

(* Stopped, or failed with no restart left. *)
End(i) ==
  /\ Idle(i) \/ inst[i] = "down"
  /\ Goto(i, "ended")
  /\ UNCHANGED <<registry, storeVars, op>>

(* The reaper, once the state is terminal. *)
ReapDevices(i) ==
  /\ inst[i] = "ended"
  /\ RemoveByOwner(i)
  /\ Goto(i, "reaping")
  /\ UNCHANGED <<storeVars, op>>

ReapedSlots_None(i) == {}

ReapedSlots(i) == OwnSlots(i)

ReapState(i) ==
  /\ inst[i] = "reaping"
  /\ Sweep(ReapedSlots(i))
  /\ Goto(i, "off")
  /\ UNCHANGED <<registry, gens, op>>

-----------------------------------------------------------------------------
HostCall(i) ==
  \/ \E d \in Devices, caps \in SUBSET Caps :
       Update(i, d, caps) \/ \E seeded \in SUBSET caps : Register(i, d, caps, seeded)
  \/ \E d \in Devices : Remove(i, d)
  \/ \E d \in Devices, c \in Caps, keys \in (SUBSET Keys) \ {{}} :
       Publish(i, d, c, keys) \/ CommandResult(i, d, c, keys)

SecondHalf(i) ==
  Seed(i) \/ Reconcile(i) \/ MarkDeviceStale(i) \/ ApplyDelta(i) \/ LogFails(i) \/ ReplaceSnapshot(i)

LifeStep(i) ==
  BeginLife(i) \/ RestartGeneration(i) \/ Crash(i) \/ End(i) \/ ReapDevices(i) \/ ReapState(i)

StateNext == \E i \in Instances : HostCall(i) \/ SecondHalf(i) \/ LifeStep(i)

StateSpec == StateInit /\ [][StateNext]_stateVars

-----------------------------------------------------------------------------
(* Properties. *)

Entry == [quality : {"absent", "fresh", "stale"}, rev : 0..rev,
          gen : 0..MaxGen, fields : [Keys -> 0..rev]]

OpKinds == {"none", "seed", "reconcile", "remove", "delta", "snapshot"}

(* Types and bounds; no entry is ahead of the counter it is polled by.     *)
StateTypeOK ==
  /\ registry \in [Devices -> (SUBSET Caps) \cup {Unregistered}]
  /\ entries \in [Slots -> Entry]
  /\ rev \in 0..MaxRev
  /\ \A s \in Slots : Cardinality(KeysOf(entries[s].fields)) <= MaxFields
  /\ evicted \in 0..rev
  /\ gens \in [Instances -> 0..MaxGen]
  /\ inst \in [Instances -> {"off", "sweeping", "up", "down", "ended", "reaping"}]
  /\ op \in [Instances -> [kind : OpKinds, dev : Devices \cup {None},
                           caps : SUBSET Caps, keys : SUBSET Keys]]
  /\ cut \in [Slots -> 0..rev]

(* A value the API reports as fresh comes from the owner's current life    *)
(* (or the one that just ended, until the next begins or the reaper has    *)
(* run), for a device that is registered and a capability it declares:     *)
(* registry and projection disagree only inside one of the owner's own     *)
(* calls about that device, or while a new life or the reaper sweeps.      *)
Settling(i, d) ==
  \/ inst[i] \in {"sweeping", "reaping"}
  \/ op[i].dev = d /\ op[i].kind \in {"seed", "reconcile", "remove"}

FreshIsLive ==
  \A s \in Slots :
    LET d == s[1]
        i == Owner[d] IN
    Fresh(s) =>
      /\ entries[s].gen = gens[i]
      /\ inst[i] # "off"
      /\ Declares(d, s[2]) \/ Settling(i, d)

(* No value from before a restart, a removal or a re-registration comes    *)
(* back as fresh, in a merge or otherwise: every field of a fresh entry    *)
(* was written after the slot's values were last voided.                   *)
FieldsOfThisLife ==
  \A s \in Slots : Fresh(s) =>
    \A k \in KeysOf(entries[s].fields) : entries[s].fields[k] > cut[s]

(* The bound that keeps a plugin from growing the projection by churning   *)
(* device ids, kept through every sweep and every re-seeding.              *)
StaleBounded == Cardinality(StaleIn(entries)) <= MaxStale

(* What cursors rest on.  A slot changes only to an entry above every      *)
(* revision issued so far, or it is evicted; and an eviction that takes    *)
(* the news of a flip with it moves the watermark above every cursor that  *)
(* has not seen the flip.                                                  *)
NoSilentChange ==
  [][\A s \in Slots : entries'[s] # entries[s] =>
       \/ entries'[s].rev > rev /\ entries'[s].rev <= rev'
       \/ /\ entries'[s] = NoEntry
          /\ evicted' >= entries[s].rev
          /\ Fresh(s) => evicted' > rev]_stateVars

(* Revisions order the slots: no two share one. *)
RevisionsDistinct ==
  \A s, t \in Slots : s # t /\ entries[s].rev = entries[t].rev => entries[s] = NoEntry

(* The durable log and the projection do not part: a state change that was *)
(* admitted before the event log recorded it is applied whole, although    *)
(* the publisher waited for the gate and the disk in between.              *)
NothingTruncated ==
  [][\A i \in Instances :
       ApplyDelta(i) => \A k \in op[i].keys : entries'[SlotOf(i)].fields[k] = rev']_stateVars

=============================================================================
