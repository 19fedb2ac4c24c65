-------------------------- MODULE DeviceState_proofs --------------------------
(***************************************************************************)
(* DeviceState keeps its promises, whatever the instances, the devices and *)
(* the caps.                                                               *)
(*                                                                         *)
(* First the projection itself (state/device_state.rs): what a lock        *)
(* section may do to it, as lemmas.  A sweep with the stale cap            *)
(* (SweepStore), the seeding of a re-registered device (SeedStore) and the *)
(* write of one slot (WriteStore) each preserve StoreInv and change no     *)
(* slot silently.  The counting facts they rest on: the flips of a sweep   *)
(* take distinct revisions (RankRange, RankInjective), the cap keeps       *)
(* exactly the newest stale entries because revisions are distinct         *)
(* (EvictBounds), and the watermark is a maximum (HighestIsMax).           *)
(*                                                                         *)
(* Then the calls that use it.  The invariant joins the store's (StoreInv) *)
(* with what a guest between the two lock sections of a call may rely on:  *)
(* a device id has one owner, so that nothing but a sweep of another       *)
(* instance, which only evicts stale entries, touches what the call has    *)
(* checked.                                                                *)
(***************************************************************************)
EXTENDS DeviceState, FiniteSetTheorems, TLAPS

-----------------------------------------------------------------------------
(* Facts about the operators of the sweep.                                 *)

(* Devices and capabilities being finite, so are the slots of the          *)
(* projection.                                                             *)
LEMMA SlotsFinite == IsFiniteSet(Slots)
BY StateAssumption, FS_Product DEF Slots, StateAssumption

(* What FS_Subset says, of a set given by a subset.                        *)
LEMMA PartOfSlots ==
  ASSUME NEW S \in SUBSET Slots
  PROVE  IsFiniteSet(S) /\ Cardinality(S) \in Nat
BY SlotsFinite, FS_Subset, FS_CardinalityType

(* A proper part of a finite set is smaller.                               *)
LEMMA ProperPart ==
  ASSUME NEW S \in SUBSET Slots, NEW T \in SUBSET S, NEW x \in S, x \notin T
  PROVE  Cardinality(T) < Cardinality(S)
<1>1. IsFiniteSet(S) /\ Cardinality(S) \in Nat
  BY PartOfSlots
<1>2. Cardinality(T) \in Nat
  BY PartOfSlots
<1>3. Cardinality(T) <= Cardinality(S) /\ (Cardinality(S) = Cardinality(T) => S = T)
  BY <1>1, FS_Subset
<1> QED BY <1>1, <1>2, <1>3

(* The BTreeMap's order is total.                                          *)
LEMMA BeforeTotal ==
  \A s, t \in Slots : s # t => Before(s, t) \/ Before(t, s)
<1> SUFFICES ASSUME NEW s \in Slots, NEW t \in Slots, s # t PROVE Before(s, t) \/ Before(t, s)
  OBVIOUS
<1>1. PICK d \in Devices, c \in Caps : s = <<d, c>>
  BY DEF Slots
<1>2. PICK e \in Devices, b \in Caps : t = <<e, b>>
  BY DEF Slots
<1>3. d \in Nat /\ c \in Nat /\ e \in Nat /\ b \in Nat /\ (d # e \/ c # b)
  BY <1>1, <1>2, StateAssumption DEF StateAssumption
<1> QED BY <1>1, <1>2, <1>3 DEF Before

(* Before, the key order in which stale_where_locked hands out revisions,  *)
(* is a strict order.                                                      *)
LEMMA BeforeOrder ==
  \A s, t, u \in Slots : ~Before(s, s) /\ (Before(s, t) /\ Before(t, u) => Before(s, u))
<1> SUFFICES ASSUME NEW s \in Slots, NEW t \in Slots, NEW u \in Slots
             PROVE ~Before(s, s) /\ (Before(s, t) /\ Before(t, u) => Before(s, u))
  OBVIOUS
<1>1. s[1] \in Nat /\ s[2] \in Nat /\ t[1] \in Nat /\ t[2] \in Nat /\ u[1] \in Nat /\ u[2] \in Nat
  BY StateAssumption DEF Slots, StateAssumption
<1> QED BY <1>1 DEF Before

(* The flips of one lock section take the revisions that follow the        *)
(* current one, each a different one.                                      *)
LEMMA RankRange ==
  ASSUME NEW S \in SUBSET Slots, NEW s \in S
  PROVE  Rank(S, s) \in Nat /\ 1 <= Rank(S, s) /\ Rank(S, s) <= Cardinality(S)
<1> DEFINE T == {t \in S : Before(t, s)}
<1>1. T \in SUBSET S /\ s \notin T
  BY BeforeOrder
<1>2. Cardinality(T) < Cardinality(S)
  BY <1>1, ProperPart
<1>3. Cardinality(T) \in Nat /\ Cardinality(S) \in Nat
  BY PartOfSlots
<1> QED BY <1>2, <1>3 DEF Rank

(* No two flips of one sweep take the same revision.                       *)
LEMMA RankInjective ==
  ASSUME NEW S \in SUBSET Slots, NEW s \in S, NEW t \in S, s # t
  PROVE  Rank(S, s) # Rank(S, t)
<1> DEFINE T(u) == {v \in S : Before(v, u)}
<1>1. ASSUME NEW u \in S, NEW v \in S, Before(u, v) PROVE Rank(S, u) < Rank(S, v)
  <2>1. T(u) \in SUBSET T(v) /\ u \in T(v) /\ u \notin T(u) /\ T(v) \in SUBSET Slots
    BY <1>1, BeforeOrder
  <2>2. Cardinality(T(u)) < Cardinality(T(v))
    BY <2>1, ProperPart
  <2>3. Cardinality(T(u)) \in Nat /\ Cardinality(T(v)) \in Nat
    BY PartOfSlots
  <2> QED BY <2>2, <2>3 DEF Rank
<1>2. Rank(S, s) \in Nat /\ Rank(S, t) \in Nat
  BY RankRange
<1>3. CASE Before(s, t) BY <1>1, <1>2, <1>3
<1>4. CASE Before(t, s) BY <1>1, <1>2, <1>4
<1> QED BY <1>3, <1>4, BeforeTotal

(* The watermark is well defined.                                          *)
LEMMA HighestIsMax ==
  ASSUME NEW S \in SUBSET Nat, IsFiniteSet(S), S # {}
  PROVE  Highest(S) \in S /\ \A m \in S : m <= Highest(S)
<1> DEFINE Above(x) == {y \in S : y > x}
           T == {Above(x) : x \in S}
           R == StrictSubsetOrdering(S)
<1>1. T \subseteq FiniteSubsetsOf(S) /\ T # {}
  <2>1. FiniteSubsetsOf(S) = SUBSET S
    BY FS_FiniteSubsetsOfFinite
  <2>2. \A x \in S : Above(x) \in SUBSET S
    OBVIOUS
  <2>3. T \subseteq SUBSET S
    BY <2>2
  <2>4. T # {}
    <3>1. PICK x \in S : TRUE
      OBVIOUS
    <3>2. Above(x) \in T
      OBVIOUS
    <3> QED BY <3>2
  <2> QED BY <2>1, <2>3, <2>4
<1>2. IsWellFoundedOn(R, FiniteSubsetsOf(S))
  BY FS_StrictSubsetOrderingWellFounded
<1> HIDE DEF R
<1>3. \E A \in T : \A B \in T : <<B, A>> \notin R
  BY <1>1, <1>2, WFMin
<1>4. PICK x \in S : \A y \in S : <<Above(y), Above(x)>> \notin R
  BY <1>3
<1>5. Above(x) = {}
  <2> SUFFICES ASSUME NEW y \in S, y > x PROVE FALSE
    OBVIOUS
  <2>1. \A z \in S : x \in Nat /\ y \in Nat /\ z \in Nat /\ ~(y > y) /\ (z > y => z > x)
    OBVIOUS
  <2>2. Above(y) \subseteq Above(x) /\ y \in Above(x) /\ y \notin Above(y)
    BY <2>1
  <2>3. Above(y) \in SUBSET S /\ Above(x) \in SUBSET S /\ Above(y) # Above(x)
    BY <2>2
  <2> HIDE DEF Above
  <2>4. <<Above(y), Above(x)>> \in R
    BY <2>2, <2>3 DEF R, StrictSubsetOrdering
  <2> QED BY <2>4, <1>4
<1>6. \E n \in S : \A m \in S : m <= n
  BY <1>5
<1> QED BY <1>6 DEF Highest

-----------------------------------------------------------------------------
(* What one lock section of the projection may do.                         *)

EntryAt(n) ==
  [quality : {"absent", "fresh", "stale"}, rev : 0..n, gen : 0..MaxGen, fields : [Keys -> 0..n]]

(* The types of the store, the cap on fields, and that an entry that is    *)
(* there has a revision.                                                   *)
StoreTypes ==
  /\ rev \in 0..MaxRev
  /\ entries \in [Slots -> EntryAt(rev)]
  /\ \A s \in Slots : Cardinality(KeysOf(entries[s].fields)) <= MaxFields
  /\ \A s \in Slots : entries[s] = NoEntry \/ (entries[s].quality # "absent" /\ entries[s].rev > 0)
  /\ evicted \in 0..rev
  /\ gens \in [Instances -> 0..MaxGen]
  /\ cut \in [Slots -> 0..rev]

Distinct(E) ==
  \A s, t \in Slots : s # t /\ E[s].rev = E[t].rev => E[s] = NoEntry

(* What a sweep of the fresh slots F, up to revision n, makes of a slot:   *)
(* nothing, a flip, or an eviction that the watermark w records.           *)
Untouched(E, F, s) == s \notin F /\ E[s] = entries[s]

Flip(E, F, n, s) ==
  /\ s \in F
  /\ E[s].quality = "stale"
  /\ E[s].rev > rev /\ E[s].rev <= n
  /\ E[s].gen = entries[s].gen
  /\ E[s].fields = entries[s].fields

Gone(E, F, w, s) ==
  /\ E[s] = NoEntry
  /\ w >= entries[s].rev
  /\ s \in F => w > rev
  /\ s \notin F => entries[s].quality = "stale"

Swept(E, F, n, w) ==
  /\ E \in [Slots -> EntryAt(n)]
  /\ \A s \in Slots : Untouched(E, F, s) \/ Flip(E, F, n, s) \/ Gone(E, F, w, s)
  /\ w \in Nat /\ w >= evicted /\ w <= n
  /\ Distinct(E)
  /\ Cardinality(StaleIn(E)) <= MaxStale

(* Before the cap is enforced.                                             *)
LEMMA FlippedEffect ==
  ASSUME StoreTypes, Distinct(entries), NEW F \in SUBSET Slots, \A s \in F : Fresh(s)
  PROVE  LET n == rev + Cardinality(F)
             E == Flipped(F) IN
         /\ n \in Nat /\ n >= rev
         /\ E \in [Slots -> EntryAt(n)]
         /\ \A s \in Slots : Untouched(E, F, s) \/ Flip(E, F, n, s)
         /\ Distinct(E)
<1> DEFINE n == rev + Cardinality(F)
           E == Flipped(F)
<1>1. Cardinality(F) \in Nat /\ rev \in Nat
  BY PartOfSlots, StateAssumption DEF StoreTypes, StateAssumption
<1>2. n \in Nat /\ n >= rev
  BY <1>1
<1>3. \A s \in Slots : entries[s] \in EntryAt(rev) /\ entries[s] \in EntryAt(n)
  BY <1>1, <1>2 DEF StoreTypes, EntryAt
<1>4. ASSUME NEW s \in F
      PROVE  /\ FlipQuality(F, s) \in EntryAt(n)
             /\ FlipQuality(F, s).rev = rev + Rank(F, s)
             /\ FlipQuality(F, s).rev > rev /\ FlipQuality(F, s).rev <= n
             /\ FlipQuality(F, s).quality = "stale"
             /\ FlipQuality(F, s).gen = entries[s].gen
             /\ FlipQuality(F, s).fields = entries[s].fields
  <2>1. Rank(F, s) \in Nat /\ 1 <= Rank(F, s) /\ Rank(F, s) <= Cardinality(F)
    BY RankRange
  <2>2. rev + Rank(F, s) \in 0..n /\ rev + Rank(F, s) > rev /\ rev + Rank(F, s) <= n
    BY <2>1, <1>1
  <2> QED BY <2>2, <1>3 DEF FlipQuality, EntryAt
<1>5. \A s \in Slots : E[s] = IF s \in F THEN FlipQuality(F, s) ELSE entries[s]
  BY DEF Flipped
<1>6. E \in [Slots -> EntryAt(n)]
  BY <1>3, <1>4 DEF Flipped
<1>7. \A s \in Slots : Untouched(E, F, s) \/ Flip(E, F, n, s)
  BY <1>4, <1>5 DEF Untouched, Flip
<1>8. Distinct(E)
  <2> SUFFICES ASSUME NEW s \in Slots, NEW t \in Slots, s # t, E[s].rev = E[t].rev PROVE E[s] = NoEntry
    BY DEF Distinct
  <2>1. entries[s].rev \in Nat /\ entries[s].rev <= rev /\ entries[t].rev \in Nat /\ entries[t].rev <= rev
    BY <1>1, <1>3 DEF EntryAt
  <2>2. CASE s \in F /\ t \in F
    <3>1. Rank(F, s) # Rank(F, t) /\ Rank(F, s) \in Nat /\ Rank(F, t) \in Nat
      BY <2>2, RankInjective, RankRange
    <3> QED BY <2>2, <3>1, <1>1, <1>4, <1>5
  <2>3. CASE s \in F /\ t \notin F BY <2>1, <2>3, <1>1, <1>4, <1>5
  <2>4. CASE s \notin F /\ t \in F BY <2>1, <2>4, <1>1, <1>4, <1>5
  <2>5. CASE s \notin F /\ t \notin F BY <2>5, <1>5 DEF Distinct
  <2> QED BY <2>2, <2>3, <2>4, <2>5
<1> QED BY <1>2, <1>6, <1>7, <1>8

(* enforce_stale_cap_locked leaves MaxStale stale entries at most: with    *)
(* distinct revisions, the number of newer ones tells the rest apart.      *)
LEMMA EvictBounds ==
  ASSUME NEW n \in Nat, NEW E \in [Slots -> EntryAt(n)], Distinct(E),
         \A s \in Slots : E[s].quality = "stale" => E[s] # NoEntry
  PROVE  Cardinality(StaleIn(Evict(E))) <= MaxStale
<1> DEFINE R == StaleIn(E) \ Overflow(E)
           Newer(s) == {t \in StaleIn(E) : E[t].rev > E[s].rev}
           f == [s \in R |-> Cardinality(Newer(s))]
<1>1. StaleIn(Evict(E)) \subseteq R
  BY DEF StaleIn, Evict, NoEntry
<1>2. R \in SUBSET Slots /\ StaleIn(E) \in SUBSET Slots
  BY DEF StaleIn
<1>3. \A s \in R : Cardinality(Newer(s)) \in Nat /\ Cardinality(Newer(s)) < MaxStale
  <2> SUFFICES ASSUME NEW s \in R PROVE Cardinality(Newer(s)) \in Nat /\ Cardinality(Newer(s)) < MaxStale
    OBVIOUS
  <2>1. Newer(s) \in SUBSET Slots
    BY <1>2
  <2>2. Cardinality(Newer(s)) \in Nat
    BY <2>1, PartOfSlots
  <2>3. ~(Cardinality(Newer(s)) >= MaxStale)
    BY DEF Overflow
  <2> QED BY <2>2, <2>3, StateAssumption DEF StateAssumption
<1>4. \A s \in Slots : E[s].rev \in Nat
  BY DEF EntryAt
<1>5. ASSUME NEW s \in R, NEW t \in R, E[s].rev < E[t].rev PROVE f[s] # f[t]
  <2>1. Newer(t) \in SUBSET Newer(s)
    BY <1>2, <1>4, <1>5
  <2>2. t \in Newer(s) /\ t \notin Newer(t) /\ Newer(s) \in SUBSET Slots
    BY <1>2, <1>4, <1>5
  <2>3. Cardinality(Newer(t)) < Cardinality(Newer(s))
    BY <2>1, <2>2, ProperPart
  <2> QED BY <2>3, <1>3
<1>6. \A s, t \in R : s # t => f[s] # f[t]
  <2> SUFFICES ASSUME NEW s \in R, NEW t \in R, s # t PROVE f[s] # f[t]
    OBVIOUS
  <2>1. E[s].rev # E[t].rev
    BY <1>2 DEF Distinct, StaleIn
  <2>2. E[s].rev \in Nat /\ E[t].rev \in Nat
    BY <1>2, <1>4
  <2> HIDE DEF f
  <2>3. CASE E[s].rev < E[t].rev BY <2>3, <1>5
  <2>4. CASE E[t].rev < E[s].rev BY <2>4, <1>5
  <2> QED BY <2>1, <2>2, <2>3, <2>4
<1>7. MaxStale \in Nat /\ \A s \in R : f[s] \in 0..MaxStale - 1
  BY <1>3, StateAssumption DEF StateAssumption
<1>8. f \in Injection(R, 0..MaxStale - 1)
  <2>1. f \in [R -> 0..MaxStale - 1]
    BY <1>7
  <2> QED BY <2>1, <1>6 DEF Injection, IsInjective
<1>9. IsFiniteSet(0..MaxStale - 1) /\ Cardinality(0..MaxStale - 1) = MaxStale
  <2>1. 0 \in Int /\ MaxStale - 1 \in Int /\ MaxStale \in Nat
    BY <1>7
  <2>2. IsFiniteSet(0..MaxStale - 1) /\ Cardinality(0..MaxStale - 1) = IF 0 > MaxStale - 1 THEN 0 ELSE MaxStale - 1 - 0 + 1
    BY <2>1, FS_Interval
  <2> QED BY <2>1, <2>2
<1>10. IsFiniteSet(R) /\ Cardinality(R) <= MaxStale
  <2> HIDE DEF f, R
  <2>1. IsFiniteSet(R) /\ Cardinality(R) <= Cardinality(0..MaxStale - 1)
    BY <1>8, <1>9, FS_Injection
  <2> QED BY <2>1, <1>9
<1>11. Cardinality(StaleIn(Evict(E))) <= Cardinality(R)
  BY <1>1, <1>10, FS_Subset
<1>12. Cardinality(StaleIn(Evict(E))) \in Nat /\ Cardinality(R) \in Nat
  <2>1. StaleIn(Evict(E)) \in SUBSET Slots
    BY DEF StaleIn
  <2> QED BY <2>1, <1>2, PartOfSlots
<1> QED BY <1>7, <1>10, <1>11, <1>12

(* The whole of it: stale_where_locked and the cap.  Whatever the cap      *)
(* evicts was stale before, or has just been flipped; the watermark passes *)
(* what it was last seen at, and if it has just been flipped, every cursor *)
(* there can be.                                                           *)
LEMMA SweepEffect ==
  ASSUME StoreTypes, Distinct(entries), NEW F \in SUBSET Slots, \A s \in F : Fresh(s)
  PROVE  LET n == rev + Cardinality(F) IN
         /\ n \in Nat /\ n >= rev
         /\ Swept(Evict(Flipped(F)), F, n, Watermark(Flipped(F)))
<1> DEFINE n == rev + Cardinality(F)
           E == Flipped(F)
           W == {evicted} \cup {E[s].rev : s \in Overflow(E)}
           w == Watermark(E)
<1>1. /\ n \in Nat /\ n >= rev
      /\ E \in [Slots -> EntryAt(n)]
      /\ \A s \in Slots : Untouched(E, F, s) \/ Flip(E, F, n, s)
      /\ Distinct(E)
  BY FlippedEffect
<1>2. rev \in Nat /\ evicted \in Nat /\ evicted <= rev
  BY StateAssumption DEF StoreTypes, StateAssumption
<1> HIDE DEF n, E
<1>3. \A s \in Slots : E[s].rev \in Nat /\ E[s].rev <= n
  BY <1>1 DEF EntryAt
<1>4. Overflow(E) \subseteq Slots
  BY DEF Overflow, StaleIn
<1>5. W \in SUBSET Nat /\ W # {} /\ \A m \in W : m <= n
  BY <1>1, <1>2, <1>3, <1>4
<1>6. IsFiniteSet(W)
  BY <1>1, <1>5, FS_BoundedSetOfNaturals
<1>7. w \in W /\ \A m \in W : m <= w
  <2>1. w = Highest(W)
    BY DEF Watermark
  <2> QED BY <2>1, <1>5, <1>6, HighestIsMax
<1>8. w \in Nat /\ w >= evicted /\ w <= n /\ \A s \in Overflow(E) : w >= E[s].rev
  BY <1>1, <1>2, <1>3, <1>4, <1>5, <1>7
<1> HIDE DEF W, w
<1>9. \A s \in Slots : E[s].quality = "stale" => E[s] # NoEntry
  BY DEF NoEntry
<1>10. Cardinality(StaleIn(Evict(E))) <= MaxStale
  BY <1>1, <1>9, EvictBounds
<1>11. \A s \in Slots : Evict(E)[s] = IF s \in Overflow(E) THEN NoEntry ELSE E[s]
  BY DEF Evict
<1>12. NoEntry \in EntryAt(n)
  BY <1>1, StateAssumption DEF NoEntry, NoFields, EntryAt, StateAssumption
<1>13. Evict(E) \in [Slots -> EntryAt(n)]
  BY <1>1, <1>12 DEF Evict
<1>14. Distinct(Evict(E))
  <2> SUFFICES ASSUME NEW s \in Slots, NEW t \in Slots, s # t, Evict(E)[s].rev = Evict(E)[t].rev,
                      s \notin Overflow(E)
               PROVE  E[s] = NoEntry
    BY <1>11 DEF Distinct
  <2>1. CASE t \notin Overflow(E) BY <2>1, <1>1, <1>11 DEF Distinct
  <2>2. CASE t \in Overflow(E)
    <3>1. E[s].rev = 0
      BY <2>2, <1>11 DEF NoEntry
    <3>2. CASE Untouched(E, F, s) BY <3>1, <3>2 DEF Untouched, StoreTypes
    <3>3. CASE Flip(E, F, n, s) BY <3>1, <3>3, <1>2 DEF Flip
    <3> QED BY <3>2, <3>3, <1>1
  <2> QED BY <2>1, <2>2
<1>15. ASSUME NEW s \in Slots
       PROVE  Untouched(Evict(E), F, s) \/ Flip(Evict(E), F, n, s) \/ Gone(Evict(E), F, w, s)
  <2>1. CASE s \notin Overflow(E) BY <2>1, <1>1, <1>11 DEF Untouched, Flip
  <2>2. CASE s \in Overflow(E)
    <3>1. Evict(E)[s] = NoEntry /\ w >= E[s].rev /\ E[s].quality = "stale"
      BY <2>2, <1>8, <1>11 DEF Overflow, StaleIn
    <3>2. entries[s].rev \in Nat /\ entries[s].rev <= rev /\ w \in Nat
      BY <1>2, <1>5, <1>7 DEF StoreTypes, EntryAt
    <3>3. CASE Untouched(E, F, s) BY <3>1, <3>3 DEF Untouched, Gone
    <3>4. CASE Flip(E, F, n, s) BY <3>1, <3>2, <3>4, <1>2, <1>3 DEF Flip, Gone
    <3> QED BY <3>3, <3>4, <1>1
  <2> QED BY <2>1, <2>2
<1> QED BY <1>1, <1>8, <1>10, <1>13, <1>14, <1>15 DEF Swept, n, E, w

-----------------------------------------------------------------------------
(* The store's part of the invariant.                                      *)
StoreInv ==
  /\ StoreTypes
  /\ RevisionsDistinct
  /\ StaleBounded
  /\ FieldsOfThisLife

(* A changed slot is news to every cursor, or its eviction is.             *)
Announced(s) ==
  \/ entries'[s].rev > rev /\ entries'[s].rev <= rev'
  \/ /\ entries'[s] = NoEntry
     /\ evicted' >= entries[s].rev
     /\ Fresh(s) => evicted' > rev

(* NoFields holds nothing, whatever the cap on fields.                     *)
LEMMA NoKeys == KeysOf(NoFields) = {} /\ Cardinality(KeysOf(NoFields)) <= MaxFields
<1>1. KeysOf(NoFields) = {}
  BY DEF KeysOf, NoFields
<1>2. Cardinality({}) = 0
  BY FS_EmptySet
<1> QED BY <1>1, <1>2, StateAssumption DEF StateAssumption

(* mark_instance_stale, mark_device_stale, reconcile_capabilities and      *)
(* restart_generation.                                                     *)
LEMMA SweepStore ==
  ASSUME StoreInv, NEW S \in SUBSET Slots, Sweep(S), gens' \in [Instances -> 0..MaxGen]
  PROVE  /\ StoreInv'
         /\ \A s \in Slots : entries'[s].quality = "fresh" => entries'[s] = entries[s] /\ s \notin S
         /\ \A s \in Slots : Fresh(s) /\ s \notin S => entries'[s] = entries[s]
         /\ \A s \in Slots : entries'[s] # entries[s] => Announced(s)
<1> DEFINE F == FreshIn(S)
           n == rev + Cardinality(F)
<1>1. F \in SUBSET Slots /\ \A s \in F : Fresh(s)
  BY DEF FreshIn
<1>2. /\ n \in Nat /\ n >= rev
      /\ Swept(Evict(Flipped(F)), F, n, Watermark(Flipped(F)))
  BY <1>1, SweepEffect DEF StoreInv, RevisionsDistinct, Distinct
<1>3. /\ rev' = n /\ rev' <= MaxRev
      /\ entries' = Evict(Flipped(F))
      /\ evicted' = Watermark(Flipped(F))
      /\ cut' = CutAt(S, rev')
  BY DEF Sweep, RevisionsLeft
<1>4. Swept(entries', F, rev', evicted') /\ rev' \in Nat /\ rev' >= rev
  BY <1>2, <1>3
<1> HIDE DEF n
<1>5. rev \in Nat /\ rev' \in 0..MaxRev /\ evicted \in Nat /\ evicted' \in Nat /\ evicted' <= rev'
  <2>1. rev \in Nat /\ evicted \in Nat /\ MaxRev \in Nat
    BY StateAssumption DEF StoreInv, StoreTypes, StateAssumption
  <2>2. rev' \in 0..MaxRev
    BY <1>3, <1>4, <2>1
  <2> QED BY <1>4, <2>1, <2>2 DEF Swept
<1>6. ASSUME NEW s \in Slots
      PROVE  /\ entries[s] \in EntryAt(rev) /\ entries'[s] \in EntryAt(rev')
             /\ entries[s].rev \in Nat /\ entries[s].rev <= rev
             /\ entries'[s].rev \in Nat
             /\ cut[s] \in Nat /\ cut[s] <= rev
             /\ Untouched(entries', F, s) \/ Flip(entries', F, rev', s) \/ Gone(entries', F, evicted', s)
             /\ s \in F <=> s \in S /\ Fresh(s)
  BY <1>4, <1>5 DEF Swept, StoreInv, StoreTypes, EntryAt, FreshIn
<1>7. ASSUME NEW s \in Slots
      PROVE  /\ entries'[s].quality = "fresh" => entries'[s] = entries[s] /\ s \notin S
             /\ Fresh(s) /\ s \notin S => entries'[s] = entries[s]
             /\ entries'[s] # entries[s] => Announced(s)
             /\ Cardinality(KeysOf(entries'[s].fields)) <= MaxFields
             /\ entries'[s] = NoEntry \/ (entries'[s].quality # "absent" /\ entries'[s].rev > 0)
  <2>1. CASE Untouched(entries', F, s)
    BY <2>1, <1>6 DEF Untouched, Fresh, StoreInv, StoreTypes
  <2>2. CASE Flip(entries', F, rev', s)
    <3>1. s \in S /\ entries'[s].quality = "stale" /\ entries'[s].rev > 0
      BY <2>2, <1>5, <1>6 DEF Flip
    <3>2. Announced(s)
      BY <2>2 DEF Flip, Announced
    <3>3. Cardinality(KeysOf(entries'[s].fields)) <= MaxFields
      BY <2>2 DEF Flip, StoreInv, StoreTypes
    <3> QED BY <3>1, <3>2, <3>3
  <2>3. CASE Gone(entries', F, evicted', s)
    <3>1. entries'[s] = NoEntry /\ entries'[s].quality # "fresh" /\ entries'[s].fields = NoFields
      BY <2>3 DEF Gone, NoEntry
    <3>2. Fresh(s) => s \in F
      BY <2>3 DEF Gone, Fresh
    <3>3. Announced(s)
      BY <2>3, <3>2 DEF Gone, Announced
    <3> QED BY <3>1, <3>2, <3>3, <1>6, NoKeys
  <2> QED BY <2>1, <2>2, <2>3, <1>6
<1>8. cut' \in [Slots -> 0..rev']
  BY <1>3, <1>4, <1>5, <1>6 DEF CutAt
<1>9. StoreTypes'
  BY <1>4, <1>5, <1>7, <1>8 DEF StoreTypes, Swept
<1>10. RevisionsDistinct' /\ StaleBounded'
  BY <1>4 DEF Swept, RevisionsDistinct, Distinct, StaleBounded
<1>11. FieldsOfThisLife'
  <2> SUFFICES ASSUME NEW s \in Slots, Fresh(s)', NEW k \in KeysOf(entries'[s].fields)
               PROVE  entries'[s].fields[k] > cut'[s]
    BY DEF FieldsOfThisLife
  <2>1. entries'[s] = entries[s] /\ s \notin S
    BY <1>7 DEF Fresh
  <2>2. cut'[s] = cut[s]
    BY <1>3, <2>1 DEF CutAt
  <2> QED BY <2>1, <2>2 DEF StoreInv, FieldsOfThisLife, Fresh
<1> QED BY <1>7, <1>9, <1>10, <1>11 DEF StoreInv

(* What a stamped entry holds: the keys it had, and those the write set.   *)
LEMMA SetFieldsEffect ==
  ASSUME NEW n \in Nat, n > 0, NEW old \in [Keys -> 0..n], NEW keys \in SUBSET Keys
  PROVE  /\ SetFields(old, keys, n) \in [Keys -> 0..n]
         /\ KeysOf(SetFields(old, keys, n)) = KeysOf(old) \cup keys
         /\ \A k \in Keys : SetFields(old, keys, n)[k] = IF k \in keys THEN n ELSE old[k]
<1> DEFINE f == SetFields(old, keys, n)
<1>1. \A k \in Keys : f[k] = IF k \in keys THEN n ELSE old[k]
  BY DEF SetFields
<1>2. n \in 0..n /\ n # 0
  OBVIOUS
<1>3. f \in [Keys -> 0..n]
  BY <1>2 DEF SetFields
<1> HIDE DEF f
<1>4. KeysOf(f) = KeysOf(old) \cup keys
  BY <1>1, <1>2 DEF KeysOf
<1> QED BY <1>1, <1>3, <1>4 DEF f

(* write_entry keeps every key of an update that was admitted against the  *)
(* fields it is merged into.                                               *)
LEMMA KeptWhole ==
  ASSUME NEW old, NEW keys \in SUBSET Keys, AdmittedInto(old, keys), NEW kept \in Kept(old, keys)
  PROVE  kept = keys
<1> DEFINE A == KeysOf(old) \cup kept
           B == KeysOf(old) \cup keys
<1>1. kept \in SUBSET keys /\ keys \cap KeysOf(old) \subseteq kept /\ (kept = keys \/ Cardinality(A) >= MaxFields)
  BY DEF Kept
<1>2. SUFFICES ASSUME Cardinality(A) >= MaxFields PROVE kept = keys
  BY <1>1
<1>3. B \in SUBSET Keys /\ A \in SUBSET B
  BY <1>1 DEF KeysOf
<1>4. IsFiniteSet(B)
  BY <1>3, StateAssumption, FS_Subset DEF StateAssumption
<1>5. Cardinality(A) \in Nat /\ Cardinality(B) \in Nat
  BY <1>3, <1>4, FS_Subset, FS_CardinalityType
<1>6. Cardinality(A) = Cardinality(B)
  <2>1. Cardinality(A) <= Cardinality(B)
    BY <1>3, <1>4, FS_Subset
  <2>2. Cardinality(B) <= MaxFields /\ MaxFields \in Nat
    BY StateAssumption DEF AdmittedInto, StateAssumption
  <2> QED BY <1>2, <1>5, <2>1, <2>2
<1>7. A = B
  BY <1>3, <1>4, <1>6, FS_Subset
<1> QED BY <1>1, <1>7

(* apply_delta_recorded and replace_snapshot: "old" is what the write is   *)
(* merged into, with nothing in it that the slot's cut has voided.         *)
LEMMA WriteStore ==
  ASSUME StoreInv, NEW i \in Instances, NEW s \in Slots,
         NEW old \in [Keys -> 0..rev], NEW keys \in SUBSET Keys,
         Cardinality(KeysOf(old)) <= MaxFields,
         WriteEntry(i, s, old, keys), evicted' = evicted, gens' = gens,
         cut' \in [Slots -> 0..rev], \A t \in Slots \ {s} : cut'[t] = cut[t],
         \A k \in KeysOf(old) : old[k] > cut'[s]
  PROVE  /\ StoreInv'
         /\ \A t \in Slots \ {s} : entries'[t] = entries[t]
         /\ entries'[s].quality = "fresh" /\ entries'[s].gen = gens[i]
         /\ Announced(s)
         /\ AdmittedInto(old, keys) => \A k \in keys : entries'[s].fields[k] = rev'
<1>1. rev \in Nat /\ rev' = rev + 1 /\ rev' \in 0..MaxRev /\ evicted \in 0..rev'
  BY StateAssumption DEF StoreInv, StoreTypes, StateAssumption, WriteEntry, RevisionsLeft
<1>2. PICK kept \in Kept(old, keys) :
         entries' = [entries EXCEPT ![s] = Stamp(i, rev + 1, SetFields(old, kept, rev + 1))]
  BY DEF WriteEntry
<1> DEFINE f == SetFields(old, kept, rev + 1)
<1>3. kept \in SUBSET Keys /\ (Cardinality(KeysOf(old) \cup kept) <= MaxFields \/ kept \subseteq KeysOf(old))
  BY DEF Kept
<1>4. /\ f \in [Keys -> 0..rev']
      /\ KeysOf(f) = KeysOf(old) \cup kept
      /\ \A k \in Keys : f[k] = IF k \in kept THEN rev' ELSE old[k]
  <2>1. rev' \in Nat /\ rev' > 0 /\ old \in [Keys -> 0..rev']
    BY <1>1
  <2>2. f = SetFields(old, kept, rev')
    BY <1>1
  <2> HIDE DEF f
  <2> QED BY <1>3, <2>1, <2>2, SetFieldsEffect
<1>5. Cardinality(KeysOf(f)) <= MaxFields
  <2>1. CASE kept \subseteq KeysOf(old)
    <3>1. KeysOf(f) = KeysOf(old)
      BY <1>4, <2>1
    <3> QED BY <3>1
  <2> QED BY <1>3, <1>4, <2>1
<1> HIDE DEF f
<1>6. \A t \in Slots \ {s} : entries'[t] = entries[t]
  BY <1>2
<1>7. entries'[s] = [quality |-> "fresh", rev |-> rev', gen |-> gens[i], fields |-> f]
  BY <1>1, <1>2 DEF f, Stamp, StoreInv, StoreTypes
<1>8. \A t \in Slots : entries[t] \in EntryAt(rev) /\ entries[t] \in EntryAt(rev')
  BY <1>1 DEF StoreInv, StoreTypes, EntryAt
<1>9. entries'[s] \in EntryAt(rev')
  BY <1>1, <1>4, <1>7 DEF EntryAt, StoreInv, StoreTypes
<1>10. entries' \in [Slots -> EntryAt(rev')]
  BY <1>2, <1>8, <1>9 DEF StoreInv, StoreTypes
<1>11. StoreTypes'
  <2>1. cut' \in [Slots -> 0..rev']
    BY <1>1
  <2>2. \A t \in Slots : Cardinality(KeysOf(entries'[t].fields)) <= MaxFields
    BY <1>5, <1>6, <1>7 DEF StoreInv, StoreTypes
  <2>3. \A t \in Slots : entries'[t] = NoEntry \/ (entries'[t].quality # "absent" /\ entries'[t].rev > 0)
    BY <1>1, <1>6, <1>7 DEF StoreInv, StoreTypes
  <2> QED BY <1>1, <1>10, <2>1, <2>2, <2>3 DEF StoreInv, StoreTypes
<1>12. RevisionsDistinct'
  <2>1. \A t \in Slots \ {s} : entries'[t].rev # entries'[s].rev
    BY <1>1, <1>6, <1>7, <1>8 DEF EntryAt
  <2> QED BY <2>1, <1>6 DEF StoreInv, RevisionsDistinct
<1>13. StaleBounded'
  <2>1. StaleIn(entries') \in SUBSET StaleIn(entries) /\ StaleIn(entries) \in SUBSET Slots
    BY <1>6, <1>7 DEF StaleIn
  <2>2. /\ IsFiniteSet(StaleIn(entries)) /\ Cardinality(StaleIn(entries)) \in Nat
        /\ Cardinality(StaleIn(entries')) \in Nat
    BY <2>1, PartOfSlots
  <2>3. Cardinality(StaleIn(entries')) <= Cardinality(StaleIn(entries))
    BY <2>1, <2>2, FS_Subset
  <2> QED BY <2>2, <2>3, StateAssumption DEF StoreInv, StaleBounded, StateAssumption
<1>14. FieldsOfThisLife'
  <2> SUFFICES ASSUME NEW t \in Slots, Fresh(t)', NEW k \in KeysOf(entries'[t].fields)
               PROVE  entries'[t].fields[k] > cut'[t]
    BY DEF FieldsOfThisLife
  <2>1. CASE t # s
    BY <2>1, <1>6 DEF StoreInv, FieldsOfThisLife, Fresh
  <2>2. CASE t = s
    <3>1. k \in Keys /\ k \in KeysOf(old) \cup kept /\ entries'[t].fields = f
      BY <2>2, <1>4, <1>7 DEF KeysOf
    <3>2. cut'[s] \in Nat /\ cut'[s] <= rev
      BY <1>1
    <3> QED BY <3>1, <3>2, <2>2, <1>1, <1>4
  <2> QED BY <2>1, <2>2
<1>15. AdmittedInto(old, keys) => \A k \in keys : entries'[s].fields[k] = rev'
  BY <1>4, <1>7, KeptWhole
<1>16. Announced(s)
  BY <1>1, <1>7 DEF Announced
<1> QED BY <1>6, <1>7, <1>11, <1>12, <1>13, <1>14, <1>15, <1>16 DEF StoreInv

(* reset_and_seed_device of a device d: the slots of "caps" get seeds.     *)
SeedWrite(i, d, caps) ==
  LET F == FreshIn(SlotsOf(d))
      n == rev + Cardinality(F)
      S == {d} \X caps
      Seeded(s) == SetFields(NoFields, SeedKeys[s[2]], n + Rank(S, s)) IN
  /\ RevisionsLeft(Cardinality(F) + Cardinality(S))
  /\ rev' = n + Cardinality(S)
  /\ evicted' = Watermark(Flipped(F))
  /\ entries' = [s \in Slots |-> IF s \in S THEN Stamp(i, n + Rank(S, s), Seeded(s))
                                           ELSE Evict(Flipped(F))[s]]
  /\ cut' = CutAt(SlotsOf(d), n)

(* Seeds are above every flip of the same lock section, and above every    *)
(* revision a cursor has seen; the slots of the device that are not seeded *)
(* are not fresh any more.                                                 *)
LEMMA SeedStore ==
  ASSUME StoreInv, NEW i \in Instances, NEW d \in Devices, NEW caps \in SUBSET Caps,
         \A c \in caps : AdmittedInto(NoFields, SeedKeys[c]),
         SeedWrite(i, d, caps), gens' = gens
  PROVE  /\ StoreInv'
         /\ \A s \in Slots : entries'[s].quality = "fresh" =>
              \/ s \in {d} \X caps /\ entries'[s].gen = gens[i]
              \/ s \notin SlotsOf(d) /\ entries'[s] = entries[s]
         /\ \A s \in Slots : Fresh(s) /\ s \notin SlotsOf(d) => entries'[s] = entries[s]
         /\ \A s \in Slots : entries'[s] # entries[s] => Announced(s)
<1> DEFINE F == FreshIn(SlotsOf(d))
           n == rev + Cardinality(F)
           S == {d} \X caps
           E == Evict(Flipped(F))
           w == Watermark(Flipped(F))
           Seeded(s) == SetFields(NoFields, SeedKeys[s[2]], n + Rank(S, s))
<1>1. SlotsOf(d) \in SUBSET Slots /\ S \in SUBSET SlotsOf(d) /\ S \in SUBSET Slots
  BY DEF SlotsOf, Slots
<1>2. F \in SUBSET Slots /\ \A s \in F : Fresh(s) /\ s \in SlotsOf(d)
  BY <1>1 DEF FreshIn
<1>3. n \in Nat /\ n >= rev /\ Swept(E, F, n, w)
  BY <1>2, SweepEffect DEF StoreInv, RevisionsDistinct, Distinct
<1>4. Cardinality(S) \in Nat /\ Cardinality(F) \in Nat /\ rev \in Nat /\ MaxRev \in Nat
  BY <1>1, <1>2, PartOfSlots, StateAssumption DEF StoreInv, StoreTypes, StateAssumption
<1>5. \A s \in Slots : s \in F <=> s \in SlotsOf(d) /\ Fresh(s)
  BY <1>2 DEF FreshIn
<1>6. /\ rev' = n + Cardinality(S) /\ rev' <= MaxRev
      /\ evicted' = w
      /\ entries' = [s \in Slots |-> IF s \in S THEN Stamp(i, n + Rank(S, s), Seeded(s)) ELSE E[s]]
      /\ \A s \in Slots : cut'[s] = IF s \in SlotsOf(d) THEN n ELSE cut[s]
      /\ cut' \in [Slots -> Nat]
  <2>1. rev + (Cardinality(F) + Cardinality(S)) <= MaxRev /\ rev' = n + Cardinality(S)
    BY DEF SeedWrite, RevisionsLeft
  <2>2. rev' <= MaxRev
    BY <2>1, <1>4
  <2>3. cut' = CutAt(SlotsOf(d), n)
    BY DEF SeedWrite
  <2>4. \A s \in Slots : cut[s] \in Nat
    BY <1>4 DEF StoreInv, StoreTypes
  <2> QED BY <2>1, <2>2, <2>3, <2>4, <1>3 DEF SeedWrite, CutAt
<1>7. rev' \in 0..MaxRev /\ rev' >= n
  BY <1>3, <1>4, <1>6
<1> HIDE DEF n, F, w
<1>8. ASSUME NEW s \in S
      PROVE  /\ Rank(S, s) \in Nat /\ 1 <= Rank(S, s) /\ Rank(S, s) <= Cardinality(S)
             /\ entries'[s] \in EntryAt(rev')
             /\ entries'[s].quality = "fresh" /\ entries'[s].gen = gens[i]
             /\ entries'[s].rev = n + Rank(S, s) /\ entries'[s].fields = Seeded(s)
             /\ Cardinality(KeysOf(entries'[s].fields)) <= MaxFields
             /\ \A k \in KeysOf(entries'[s].fields) : entries'[s].fields[k] = n + Rank(S, s)
  <2> DEFINE m == n + Rank(S, s)
             keys == SeedKeys[s[2]]
  <2>1. Rank(S, s) \in Nat /\ 1 <= Rank(S, s) /\ Rank(S, s) <= Cardinality(S)
    BY <1>1, RankRange
  <2>2. s[2] \in caps /\ keys \in SUBSET Keys /\ AdmittedInto(NoFields, keys)
    BY StateAssumption DEF StateAssumption
  <2>3. m \in Nat /\ m > 0 /\ m \in 0..rev'
    BY <2>1, <1>3, <1>4, <1>6
  <2>4. NoFields \in [Keys -> 0..m]
    BY <2>3 DEF NoFields
  <2> HIDE DEF m, keys
  <2>5. /\ SetFields(NoFields, keys, m) \in [Keys -> 0..m]
        /\ KeysOf(SetFields(NoFields, keys, m)) = KeysOf(NoFields) \cup keys
        /\ \A k \in Keys : SetFields(NoFields, keys, m)[k] = IF k \in keys THEN m ELSE NoFields[k]
    BY <2>2, <2>3, <2>4, SetFieldsEffect
  <2>6. SetFields(NoFields, keys, m) \in [Keys -> 0..rev']
    <3>1. \A k \in 0..m : k \in 0..rev'
      BY <2>3, <1>7
    <3> QED BY <2>5, <3>1
  <2>7. /\ KeysOf(SetFields(NoFields, keys, m)) = keys
        /\ Cardinality(keys) <= MaxFields
    BY <2>2, <2>5, NoKeys DEF AdmittedInto
  <2>8. \A k \in keys : SetFields(NoFields, keys, m)[k] = m
    BY <2>2, <2>5
  <2>9. entries'[s] = [quality |-> "fresh", rev |-> m, gen |-> gens[i], fields |-> Seeded(s)]
    BY <1>1, <1>6 DEF Stamp, m
  <2>10. entries'[s] \in EntryAt(rev')
    <3>1. m \in 0..rev' /\ gens[i] \in 0..MaxGen /\ Seeded(s) \in [Keys -> 0..rev']
      BY <2>3, <2>6 DEF m, keys, StoreInv, StoreTypes
    <3> HIDE DEF Seeded
    <3> QED BY <3>1, <2>9 DEF EntryAt
  <2>11. /\ entries'[s].quality = "fresh" /\ entries'[s].gen = gens[i]
         /\ entries'[s].rev = m /\ entries'[s].fields = Seeded(s)
    <3> HIDE DEF Seeded
    <3> QED BY <2>9
  <2> QED BY <2>1, <2>7, <2>8, <2>10, <2>11 DEF m, keys
<1>9. \A s \in Slots \ S : entries'[s] = E[s]
  BY <1>6
<1> HIDE DEF Seeded, E, S
<1>10. \A s \in Slots : E[s] \in EntryAt(n) /\ E[s].rev \in 0..n
  BY <1>3 DEF Swept, EntryAt
<1>11. entries' \in [Slots -> EntryAt(rev')]
  <2> SUFFICES ASSUME NEW s \in Slots PROVE entries'[s] \in EntryAt(rev')
    BY <1>6
  <2>1. CASE s \in S BY <2>1, <1>8
  <2>2. CASE s \notin S
    BY <2>2, <1>3, <1>7, <1>9, <1>10 DEF EntryAt
  <2> QED BY <2>1, <2>2
<1>12. ASSUME NEW s \in Slots
       PROVE  /\ Cardinality(KeysOf(entries'[s].fields)) <= MaxFields
              /\ entries'[s] = NoEntry \/ (entries'[s].quality # "absent" /\ entries'[s].rev > 0)
              /\ entries'[s].quality = "fresh" =>
                   \/ s \in S /\ entries'[s].gen = gens[i]
                   \/ s \notin SlotsOf(d) /\ entries'[s] = entries[s]
              /\ Fresh(s) /\ s \notin SlotsOf(d) => entries'[s] = entries[s]
              /\ entries'[s] # entries[s] => Announced(s)
  <2>1. CASE s \in S
    <3>1. rev' = n + Cardinality(S)
      BY <1>6
    <3>2. entries'[s].rev > rev /\ entries'[s].rev <= rev' /\ entries'[s].rev > 0
      BY <2>1, <3>1, <1>3, <1>4, <1>8
    <3>3. entries'[s].quality = "fresh" /\ entries'[s].gen = gens[i] /\ s \in SlotsOf(d)
      BY <2>1, <1>1, <1>8
    <3>4. Cardinality(KeysOf(entries'[s].fields)) <= MaxFields
      BY <2>1, <1>8
    <3> QED BY <2>1, <3>2, <3>3, <3>4 DEF Announced
  <2>2. CASE s \notin S
    <3>1. Untouched(E, F, s) \/ Flip(E, F, n, s) \/ Gone(E, F, w, s)
      BY <1>3 DEF Swept
    <3>2. entries'[s] = E[s] /\ evicted' = w /\ n <= rev' /\ E[s].rev \in Nat
      BY <2>2, <1>3, <1>6, <1>7, <1>9, <1>10
    <3>3. CASE Untouched(E, F, s)
      BY <3>2, <3>3, <1>5 DEF Untouched, Fresh, StoreInv, StoreTypes
    <3>4. CASE Flip(E, F, n, s)
      <4>1. s \in SlotsOf(d) /\ entries'[s].quality = "stale" /\ entries'[s].fields = entries[s].fields
        BY <3>2, <3>4, <1>5 DEF Flip
      <4>2. entries'[s].rev > rev /\ entries'[s].rev <= rev' /\ entries'[s].rev > 0
        BY <3>2, <3>4, <1>3, <1>4, <1>7 DEF Flip
      <4> QED BY <4>1, <4>2 DEF Announced, StoreInv, StoreTypes
    <3>5. CASE Gone(E, F, w, s)
      <4>1. entries'[s] = NoEntry /\ entries'[s].quality # "fresh" /\ entries'[s].fields = NoFields
        BY <3>2, <3>5 DEF Gone, NoEntry
      <4>2. Fresh(s) => s \in F
        BY <3>5 DEF Gone, Fresh
      <4>3. Announced(s)
        BY <3>2, <3>5, <4>2 DEF Gone, Announced
      <4> QED BY <4>1, <4>2, <4>3, <1>5, NoKeys
    <3> QED BY <3>1, <3>3, <3>4, <3>5
  <2> QED BY <2>1, <2>2
<1>13. StoreTypes'
  <2>1. evicted' \in 0..rev'
    BY <1>3, <1>6, <1>7 DEF Swept
  <2>2. cut' \in [Slots -> 0..rev']
    <3>1. \A s \in Slots : cut[s] \in 0..rev /\ cut'[s] \in 0..rev'
      BY <1>3, <1>4, <1>6, <1>7 DEF StoreInv, StoreTypes
    <3> QED BY <1>6, <3>1
  <2> QED BY <1>7, <1>11, <1>12, <2>1, <2>2 DEF StoreInv, StoreTypes
<1>14. RevisionsDistinct'
  <2> SUFFICES ASSUME NEW s \in Slots, NEW t \in Slots, s # t, entries'[s].rev = entries'[t].rev
               PROVE  entries'[s] = NoEntry
    BY DEF RevisionsDistinct
  <2>1. CASE s \in S /\ t \in S
    <3>1. Rank(S, s) # Rank(S, t)
      BY <2>1, <1>1, RankInjective
    <3> QED BY <2>1, <3>1, <1>3, <1>8
  <2>2. CASE s \in S /\ t \notin S BY <2>2, <1>3, <1>8, <1>9, <1>10
  <2>3. CASE s \notin S /\ t \in S BY <2>3, <1>3, <1>8, <1>9, <1>10
  <2>4. CASE s \notin S /\ t \notin S BY <2>4, <1>3, <1>9 DEF Swept, Distinct
  <2> QED BY <2>1, <2>2, <2>3, <2>4
<1>15. StaleBounded'
  <2>1. StaleIn(entries') \in SUBSET StaleIn(E) /\ StaleIn(E) \in SUBSET Slots
    BY <1>8, <1>9 DEF StaleIn
  <2>2. /\ IsFiniteSet(StaleIn(E)) /\ Cardinality(StaleIn(E)) \in Nat
        /\ Cardinality(StaleIn(entries')) \in Nat
    BY <2>1, PartOfSlots
  <2>3. Cardinality(StaleIn(entries')) <= Cardinality(StaleIn(E))
    BY <2>1, <2>2, FS_Subset
  <2>4. Cardinality(StaleIn(E)) <= MaxStale
    BY <1>3 DEF Swept
  <2> QED BY <2>2, <2>3, <2>4, StateAssumption DEF StaleBounded, StateAssumption
<1>16. FieldsOfThisLife'
  <2> SUFFICES ASSUME NEW s \in Slots, Fresh(s)', NEW k \in KeysOf(entries'[s].fields)
               PROVE  entries'[s].fields[k] > cut'[s]
    BY DEF FieldsOfThisLife
  <2>1. CASE s \in S
    BY <2>1, <1>1, <1>3, <1>6, <1>8
  <2>2. CASE s \notin S
    <3>1. s \notin SlotsOf(d) /\ entries'[s] = entries[s] /\ cut'[s] = cut[s]
      BY <2>2, <1>6, <1>12 DEF Fresh
    <3> QED BY <3>1 DEF StoreInv, FieldsOfThisLife, Fresh
  <2> QED BY <2>1, <2>2
<1> QED BY <1>12, <1>13, <1>14, <1>15, <1>16 DEF StoreInv, S

-----------------------------------------------------------------------------
(* The calls, and what their lock sections rely on.                        *)

ControlTypes ==
  /\ registry \in [Devices -> (SUBSET Caps) \cup {Unregistered}]
  /\ inst \in [Instances -> {"off", "sweeping", "up", "down", "ended", "reaping"}]
  /\ op \in [Instances -> [kind : OpKinds, dev : Devices \cup {None},
                           caps : SUBSET Caps, keys : SUBSET Keys]]
  /\ \A i \in Instances : inst[i] = "sweeping" => gens[i] < MaxGen

(* What the first half of a call has established still holds when the      *)
(* second runs.                                                            *)
SeedReady(i) ==
  /\ Registered(op[i].dev)
  /\ op[i].caps \subseteq registry[op[i].dev]
  /\ \A c \in op[i].caps : AdmittedInto(NoFields, SeedKeys[c])

WriteReady(i) ==
  /\ \E c \in Caps : op[i].caps = {c} /\ Declares(op[i].dev, c)
  /\ op[i].kind = "delta" => DeltaAdmitted(i, SlotOf(i), op[i].keys)
  /\ op[i].kind = "snapshot" => AdmittedInto(NoFields, op[i].keys)

OpReady(i) ==
  \/ op[i] = NoOp
  \/ /\ op[i].kind # "none" /\ inst[i] = "up"
     /\ op[i].dev \in Devices /\ Owner[op[i].dev] = i
     /\ op[i].kind = "seed" => SeedReady(i)
     /\ op[i].kind = "reconcile" => Registered(op[i].dev) /\ registry[op[i].dev] = op[i].caps
     /\ op[i].kind \in {"delta", "snapshot"} => WriteReady(i)

Live(s) ==
  LET d == s[1]
      i == Owner[d] IN
  Fresh(s) =>
    /\ entries[s].gen = gens[i]
    /\ inst[i] # "off"
    /\ Declares(d, s[2]) \/ Settling(i, d)

(* The part of the invariant that is about one instance.                   *)
LiveOf(i) == \A s \in Slots : Owner[s[1]] = i => Live(s)

InstanceOK(i) == OpReady(i) /\ LiveOf(i)

StateInv ==
  /\ StoreInv
  /\ ControlTypes
  /\ \A i \in Instances : InstanceOK(i)

-----------------------------------------------------------------------------
(* A step of one instance leaves to the others what they rely on.          *)
Frame(i) ==
  /\ \A j \in Instances \ {i} : op'[j] = op[j] /\ inst'[j] = inst[j] /\ gens'[j] = gens[j]
  /\ \A d \in Devices : Owner[d] # i => registry'[d] = registry[d]
  /\ \A s \in Slots : Owner[s[1]] # i /\ (Fresh(s) \/ entries'[s].quality = "fresh") =>
       entries'[s] = entries[s]

(* A write that was admitted into a baseline is admitted into nothing.     *)
LEMMA AdmittedIntoLess ==
  ASSUME NEW old, NEW keys \in SUBSET Keys, AdmittedInto(old, keys)
  PROVE  AdmittedInto(NoFields, keys)
<1> DEFINE B == KeysOf(old) \cup keys
<1>1. B \in SUBSET Keys
  BY DEF KeysOf
<1>2. IsFiniteSet(B)
  BY <1>1, StateAssumption, FS_Subset DEF StateAssumption
<1>3. IsFiniteSet(keys) /\ Cardinality(keys) <= Cardinality(B)
  BY <1>2, FS_Subset
<1>4. Cardinality(keys) \in Nat /\ Cardinality(B) \in Nat /\ Cardinality(B) <= MaxFields /\ MaxFields \in Nat
  BY <1>2, <1>3, FS_CardinalityType, StateAssumption DEF AdmittedInto, StateAssumption
<1>5. KeysOf(NoFields) \cup keys = keys
  BY NoKeys
<1> QED BY <1>3, <1>4, <1>5 DEF AdmittedInto

(* The slot of a state change is that of its one capability.               *)
LEMMA SlotOfOne ==
  ASSUME NEW i \in Instances, NEW c \in Caps, op[i].caps = {c}
  PROVE  SlotOf(i) = <<op[i].dev, c>>
BY DEF SlotOf

(* So the invariant of another instance survives the step; a baseline that *)
(* a foreign sweep evicted was not fresh, and counts for nothing.          *)
LEMMA OthersOK ==
  ASSUME StateInv, NEW i \in Instances, NEW j \in Instances \ {i}, Frame(i)
  PROVE  InstanceOK(j)'
<1>1. op'[j] = op[j] /\ inst'[j] = inst[j] /\ gens'[j] = gens[j] /\ InstanceOK(j)
  BY DEF Frame, StateInv
<1>2. OpReady(j)'
  <2>1. CASE op[j] = NoOp BY <2>1, <1>1 DEF OpReady
  <2>2. CASE op[j] # NoOp
    <3> DEFINE d == op[j].dev
    <3>1. /\ op[j].kind # "none" /\ inst[j] = "up" /\ d \in Devices /\ Owner[d] = j
          /\ op[j].kind = "seed" => SeedReady(j)
          /\ op[j].kind = "reconcile" => Registered(d) /\ registry[d] = op[j].caps
          /\ op[j].kind \in {"delta", "snapshot"} => WriteReady(j)
      BY <2>2, <1>1 DEF InstanceOK, OpReady
    <3>2. registry'[d] = registry[d]
      BY <3>1 DEF Frame
    <3>3. op[j].kind = "seed" => SeedReady(j)'
      BY <3>1, <3>2, <1>1 DEF SeedReady, Registered, AdmittedInto
    <3>4. op[j].kind = "reconcile" => (Registered(d) /\ registry[d] = op[j].caps)'
      BY <3>1, <3>2, <1>1 DEF Registered
    <3>5. ASSUME op[j].kind \in {"delta", "snapshot"} PROVE WriteReady(j)'
      <4>1. PICK c \in Caps : op[j].caps = {c} /\ Declares(d, c)
        BY <3>1, <3>5 DEF WriteReady
      <4>2. op'[j].caps = {c} /\ Declares(op[j].dev, c)'
        BY <4>1, <3>2, <1>1 DEF Declares, Registered
      <4>3. op[j].kind = "snapshot" => AdmittedInto(NoFields, op[j].keys)'
        BY <3>1, <3>5, <1>1 DEF WriteReady, AdmittedInto
      <4>4. ASSUME op[j].kind = "delta" PROVE DeltaAdmitted(j, SlotOf(j), op[j].keys)'
        <5> DEFINE s == <<d, c>>
        <5>1. s \in Slots /\ Owner[s[1]] # i /\ SlotOf(j) = s /\ SlotOf(j)' = s
          BY <3>1, <4>1, <4>2, <1>1, SlotOfOne DEF Slots, SlotOf
        <5>2. AdmittedInto(Baseline(j, s), op[j].keys) /\ op[j].keys \in SUBSET Keys
          BY <3>1, <3>5, <4>4, <5>1 DEF WriteReady, DeltaAdmitted, StateInv, ControlTypes
        <5>3. CASE entries'[s].quality = "fresh"
          <6>1. entries'[s] = entries[s]
            BY <5>1, <5>3 DEF Frame
          <6>2. Baseline(j, s)' = Baseline(j, s)
            BY <6>1, <1>1 DEF Baseline, Fresh
          <6> QED BY <5>1, <5>2, <6>2, <1>1 DEF DeltaAdmitted, AdmittedInto
        <5>4. CASE entries'[s].quality # "fresh"
          <6>1. Baseline(j, s)' = NoFields
            BY <5>4, <1>1 DEF Baseline, Fresh, NoFields
          <6>2. AdmittedInto(NoFields, op[j].keys)
            BY <5>2, AdmittedIntoLess
          <6> QED BY <5>1, <6>1, <6>2, <1>1 DEF DeltaAdmitted, AdmittedInto
        <5> QED BY <5>3, <5>4
      <4> QED BY <4>2, <4>3, <4>4, <1>1 DEF WriteReady
    <3> QED BY <3>1, <3>3, <3>4, <3>5, <1>1 DEF OpReady
  <2> QED BY <2>1, <2>2
<1>3. LiveOf(j)'
  <2> SUFFICES ASSUME NEW s \in Slots, Owner[s[1]] = j PROVE Live(s)'
    BY DEF LiveOf
  <2>1. s[1] \in Devices
    BY DEF Slots
  <2>2. Live(s)
    BY <1>1 DEF InstanceOK, LiveOf
  <2>3. registry'[s[1]] = registry[s[1]]
    BY <2>1 DEF Frame
  <2>4. SUFFICES ASSUME entries'[s].quality = "fresh" PROVE Live(s)'
    BY DEF Live, Fresh
  <2>5. entries'[s] = entries[s]
    BY <2>1, <2>4 DEF Frame
  <2> QED BY <1>1, <2>1, <2>2, <2>3, <2>5 DEF Live, Fresh, Declares, Registered, Settling
<1> QED BY <1>2, <1>3 DEF InstanceOK

-----------------------------------------------------------------------------
(* What every step of an instance is shown to do.                          *)
Good(i) ==
  /\ StoreInv' /\ ControlTypes'
  /\ Frame(i)
  /\ InstanceOK(i)'
  /\ \A s \in Slots : entries'[s] # entries[s] => Announced(s)

(* A step that leaves the projection alone preserves what is known of it.  *)
LEMMA StoreUnchanged ==
  ASSUME StoreInv, UNCHANGED storeVars
  PROVE  StoreInv' /\ entries' = entries /\ gens' = gens
<1>1. /\ entries' = entries /\ rev' = rev /\ evicted' = evicted
      /\ gens' = gens /\ cut' = cut
  BY DEF storeVars
<1>2. StoreTypes'
  BY <1>1 DEF StoreInv, StoreTypes
<1>3. RevisionsDistinct' /\ StaleBounded' /\ FieldsOfThisLife'
  BY <1>1 DEF StoreInv, RevisionsDistinct, StaleBounded, FieldsOfThisLife, Fresh
<1> QED BY <1>1, <1>2, <1>3 DEF StoreInv

(* Unless a call about its device is between its two lock sections, or a   *)
(* life is beginning or ending, a fresh slot is of a capability declared.  *)
LEMMA SettledLive ==
  ASSUME StateInv, NEW i \in Instances, inst[i] \in {"up", "down"},
         NEW s \in Slots, Owner[s[1]] = i, Fresh(s),
         op[i].kind \in {"seed", "reconcile", "remove"} => op[i].dev # s[1]
  PROVE  entries[s].gen = gens[i] /\ Declares(s[1], s[2])
BY DEF StateInv, InstanceOK, LiveOf, Live, Settling

(* The first half of a call: the registry, if anything, and what the guest *)
(* goes on with.                                                           *)
LEMMA FirstHalf ==
  ASSUME StateInv, NEW i \in Instances, NEW d \in Devices, Owner[d] = i, Idle(i),
         NEW kind \in OpKinds, kind # "none", NEW caps \in SUBSET Caps, NEW keys \in SUBSET Keys,
         Continue(i, kind, d, caps, keys), UNCHANGED <<storeVars, inst>>,
         \/ registry' = registry
         \/ /\ kind \in {"seed", "reconcile", "remove"}
            /\ \E reg \in (SUBSET Caps) \cup {Unregistered} : SetRegistry(d, reg),
         OpReady(i)'
  PROVE  Good(i)
<1>1. /\ StoreInv' /\ entries' = entries /\ gens' = gens /\ inst' = inst
      /\ inst[i] = "up" /\ op[i] = NoOp
  BY StoreUnchanged DEF StateInv, Idle
<1>2. /\ op' = [op EXCEPT ![i] = [kind |-> kind, dev |-> d, caps |-> caps, keys |-> keys]]
      /\ op'[i] = [kind |-> kind, dev |-> d, caps |-> caps, keys |-> keys]
      /\ \A j \in Instances \ {i} : op'[j] = op[j]
  BY DEF Continue, StateInv, ControlTypes
<1>3. /\ registry' \in [Devices -> (SUBSET Caps) \cup {Unregistered}]
      /\ \A e \in Devices \ {d} : registry'[e] = registry[e]
      /\ kind \notin {"seed", "reconcile", "remove"} => registry'[d] = registry[d]
  BY DEF SetRegistry, StateInv, ControlTypes
<1>4. ControlTypes'
  <2>1. [kind |-> kind, dev |-> d, caps |-> caps, keys |-> keys] \in
          [kind : OpKinds, dev : Devices \cup {None}, caps : SUBSET Caps, keys : SUBSET Keys]
    OBVIOUS
  <2> QED BY <1>1, <1>2, <1>3, <2>1 DEF StateInv, ControlTypes
<1>5. Frame(i)
  BY <1>1, <1>2, <1>3 DEF Frame
<1>6. LiveOf(i)'
  <2> SUFFICES ASSUME NEW s \in Slots, Owner[s[1]] = i PROVE Live(s)'
    BY DEF LiveOf
  <2>1. SUFFICES ASSUME Fresh(s) PROVE Live(s)'
    BY <1>1 DEF Live, Fresh
  <2>2. entries[s].gen = gens[i] /\ Declares(s[1], s[2]) /\ s[1] \in Devices
    BY <1>1, <2>1, SettledLive DEF NoOp, Slots
  <2>3. CASE registry'[s[1]] = registry[s[1]]
    BY <2>2, <2>3, <1>1 DEF Live, Fresh, Declares, Registered
  <2>4. CASE registry'[s[1]] # registry[s[1]]
    <3>1. s[1] = d /\ kind \in {"seed", "reconcile", "remove"}
      BY <2>2, <2>4, <1>3
    <3> QED BY <2>2, <3>1, <1>1, <1>2 DEF Live, Fresh, Settling
  <2> QED BY <2>3, <2>4
<1> QED BY <1>1, <1>4, <1>5, <1>6 DEF Good, InstanceOK

(* The second half: the call returns, and what is fresh is declared.       *)
LEMMA CallReturns ==
  ASSUME StateInv, NEW i \in Instances, op[i].kind # "none",
         Return(i), UNCHANGED <<registry, gens, inst>>, StoreInv',
         \A s \in Slots : entries'[s] # entries[s] => Announced(s),
         \A s \in Slots : Owner[s[1]] # i /\ (Fresh(s) \/ entries'[s].quality = "fresh") =>
           entries'[s] = entries[s],
         \A s \in Slots : Owner[s[1]] = i /\ entries'[s].quality = "fresh" =>
           entries'[s].gen = gens[i] /\ Declares(s[1], s[2])
  PROVE  Good(i)
<1>1. op[i] # NoOp /\ inst[i] = "up"
  BY DEF StateInv, InstanceOK, OpReady, NoOp
<1>2. op' = [op EXCEPT ![i] = NoOp] /\ op'[i] = NoOp /\ \A j \in Instances \ {i} : op'[j] = op[j]
  BY DEF Return, StateInv, ControlTypes
<1>3. ControlTypes'
  <2>1. NoOp \in [kind : OpKinds, dev : Devices \cup {None}, caps : SUBSET Caps, keys : SUBSET Keys]
    BY DEF NoOp, OpKinds
  <2> QED BY <1>2, <2>1 DEF StateInv, ControlTypes
<1>4. Frame(i)
  BY <1>2 DEF Frame
<1>5. OpReady(i)'
  BY <1>2 DEF OpReady, NoOp
<1>6. LiveOf(i)'
  <2> SUFFICES ASSUME NEW s \in Slots, Owner[s[1]] = i PROVE Live(s)'
    BY DEF LiveOf
  <2>1. entries'[s].quality = "fresh" => entries'[s].gen = gens[i] /\ Declares(s[1], s[2])
    OBVIOUS
  <2> QED BY <2>1, <1>1 DEF Live, Fresh, Declares, Registered
<1> QED BY <1>3, <1>4, <1>5, <1>6 DEF Good, InstanceOK

-----------------------------------------------------------------------------
(* One lemma per kind of step.                                             *)

(* A capability list is not the mark of an unregistered device.            *)
LEMMA CapsRegister == \A caps \in SUBSET Caps : caps # Unregistered
BY StateAssumption DEF StateAssumption, Unregistered

(* register-device, update-device, remove-device, publish-event and the    *)
(* result of a command, up to where they let go of the registry's lock.    *)
LEMMA HostCallGood ==
  ASSUME StateInv, NEW i \in Instances, HostCall(i)
  PROVE  Good(i)
<1>1. ASSUME NEW d \in Devices, NEW caps \in SUBSET Caps, NEW seeded \in SUBSET caps,
             Register(i, d, caps, seeded)
      PROVE  Good(i)
  <2>1. /\ Idle(i) /\ Owner[d] = i /\ seeded \in SUBSET Caps
        /\ Continue(i, "seed", d, seeded, {}) /\ SetRegistry(d, caps) /\ UNCHANGED <<storeVars, inst>>
        /\ "seed" \in OpKinds
    BY <1>1 DEF Register, OpKinds
  <2>2. /\ op'[i] = [kind |-> "seed", dev |-> d, caps |-> seeded, keys |-> {}]
        /\ registry'[d] = caps /\ inst'[i] = "up"
    BY <2>1 DEF Continue, SetRegistry, Idle, StateInv, ControlTypes
  <2>3. \A c \in seeded : AdmittedInto(NoFields, SeedKeys[c])
    BY <1>1 DEF Register
  <2>4. SeedReady(i)'
    BY <2>2, <2>3, CapsRegister DEF SeedReady, Registered, AdmittedInto, NoFields, Unregistered
  <2>5. OpReady(i)'
    BY <2>1, <2>2, <2>4 DEF OpReady
  <2> QED BY <2>1, <2>5, FirstHalf
<1>2. ASSUME NEW d \in Devices, NEW caps \in SUBSET Caps, Update(i, d, caps)
      PROVE  Good(i)
  <2>1. /\ Idle(i) /\ Owner[d] = i
        /\ Continue(i, "reconcile", d, caps, {}) /\ SetRegistry(d, caps) /\ UNCHANGED <<storeVars, inst>>
        /\ "reconcile" \in OpKinds
    BY <1>2 DEF Update, OpKinds
  <2>2. /\ op'[i] = [kind |-> "reconcile", dev |-> d, caps |-> caps, keys |-> {}]
        /\ registry'[d] = caps /\ inst'[i] = "up"
    BY <2>1 DEF Continue, SetRegistry, Idle, StateInv, ControlTypes
  <2>3. OpReady(i)'
    BY <2>1, <2>2, CapsRegister DEF OpReady, Registered, Unregistered
  <2> QED BY <2>1, <2>3, FirstHalf
<1>3. ASSUME NEW d \in Devices, Remove(i, d)
      PROVE  Good(i)
  <2>1. /\ Idle(i) /\ Owner[d] = i
        /\ Continue(i, "remove", d, {}, {}) /\ SetRegistry(d, Unregistered) /\ UNCHANGED <<storeVars, inst>>
        /\ "remove" \in OpKinds
    BY <1>3 DEF Remove, OpKinds
  <2>2. op'[i] = [kind |-> "remove", dev |-> d, caps |-> {}, keys |-> {}] /\ inst'[i] = "up"
    BY <2>1 DEF Continue, Idle, StateInv, ControlTypes
  <2>3. OpReady(i)'
    BY <2>1, <2>2 DEF OpReady
  <2> QED BY <2>1, <2>3, FirstHalf
<1>4. ASSUME NEW d \in Devices, NEW c \in Caps, NEW keys \in SUBSET Keys, Publish(i, d, c, keys)
      PROVE  Good(i)
  <2>1. /\ Idle(i) /\ Owner[d] = i /\ {c} \in SUBSET Caps
        /\ Continue(i, "delta", d, {c}, keys) /\ UNCHANGED <<registry, storeVars, inst>>
        /\ Declares(d, c) /\ DeltaAdmitted(i, <<d, c>>, keys)
        /\ "delta" \in OpKinds
    BY <1>4 DEF Publish, OpKinds
  <2>2. /\ op'[i] = [kind |-> "delta", dev |-> d, caps |-> {c}, keys |-> keys] /\ inst'[i] = "up"
        /\ registry' = registry /\ entries' = entries /\ gens' = gens
    BY <2>1 DEF Continue, Idle, storeVars, StateInv, ControlTypes
  <2>3. SlotOf(i)' = <<d, c>>
    BY <2>2 DEF SlotOf
  <2>4. WriteReady(i)'
    BY <2>1, <2>2, <2>3 DEF WriteReady, Declares, Registered, DeltaAdmitted, Baseline, Fresh, NoFields, AdmittedInto
  <2>5. OpReady(i)'
    BY <2>1, <2>2, <2>4 DEF OpReady
  <2> QED BY <2>1, <2>5, FirstHalf
<1>5. ASSUME NEW d \in Devices, NEW c \in Caps, NEW keys \in SUBSET Keys, CommandResult(i, d, c, keys)
      PROVE  Good(i)
  <2>1. /\ Idle(i) /\ Owner[d] = i /\ {c} \in SUBSET Caps
        /\ Continue(i, "snapshot", d, {c}, keys) /\ UNCHANGED <<registry, storeVars, inst>>
        /\ Declares(d, c) /\ AdmittedInto(NoFields, keys)
        /\ "snapshot" \in OpKinds
    BY <1>5 DEF CommandResult, OpKinds
  <2>2. /\ op'[i] = [kind |-> "snapshot", dev |-> d, caps |-> {c}, keys |-> keys] /\ inst'[i] = "up"
        /\ registry' = registry
    BY <2>1 DEF Continue, Idle, StateInv, ControlTypes
  <2>3. WriteReady(i)'
    BY <2>1, <2>2 DEF WriteReady, Declares, Registered, AdmittedInto, NoFields
  <2>4. OpReady(i)'
    BY <2>1, <2>2, <2>3 DEF OpReady
  <2> QED BY <2>1, <2>4, FirstHalf
<1> QED BY <1>1, <1>2, <1>3, <1>4, <1>5 DEF HostCall

(* A sweep of slots of its own is no other instance's business.            *)
LEMMA OwnSweep ==
  ASSUME StateInv, NEW i \in Instances, NEW S \in SUBSET OwnSlots(i), Sweep(S),
         gens' \in [Instances -> 0..MaxGen]
  PROVE  /\ StoreInv'
         /\ \A s \in Slots : entries'[s] # entries[s] => Announced(s)
         /\ \A s \in Slots : Owner[s[1]] # i /\ (Fresh(s) \/ entries'[s].quality = "fresh") =>
              entries'[s] = entries[s]
         /\ \A s \in Slots : entries'[s].quality = "fresh" => entries'[s] = entries[s] /\ s \notin S
<1>1. S \in SUBSET Slots /\ \A s \in S : Owner[s[1]] = i
  BY DEF OwnSlots
<1> QED BY <1>1, SweepStore DEF StateInv

(* The slots of a device are its owner's.                                  *)
LEMMA OwnDevice ==
  ASSUME NEW i \in Instances, NEW d \in Devices, Owner[d] = i
  PROVE  SlotsOf(d) \in SUBSET OwnSlots(i) /\ \A s \in Slots : s \in SlotsOf(d) <=> s[1] = d
BY DEF SlotsOf, OwnSlots, Slots

(* What the second half of a call starts from.                             *)
LEMMA PendingFacts ==
  ASSUME StateInv, NEW i \in Instances, op[i].kind # "none"
  PROVE  /\ inst[i] = "up" /\ op[i].dev \in Devices /\ Owner[op[i].dev] = i
         /\ op[i].caps \in SUBSET Caps /\ op[i].keys \in SUBSET Keys
         /\ op[i].kind = "seed" => SeedReady(i)
         /\ op[i].kind = "reconcile" => Registered(op[i].dev) /\ registry[op[i].dev] = op[i].caps
         /\ op[i].kind \in {"delta", "snapshot"} => WriteReady(i)
         /\ gens \in [Instances -> 0..MaxGen]
BY DEF StateInv, StoreInv, StoreTypes, ControlTypes, InstanceOK, OpReady, NoOp

(* A state change or a command result: one slot of the instance is         *)
(* written, of a capability its device declares.                           *)
LEMMA WriteGood ==
  ASSUME StateInv, NEW i \in Instances, op[i].kind \in {"delta", "snapshot"},
         NEW old \in [Keys -> 0..rev], Cardinality(KeysOf(old)) <= MaxFields,
         WriteEntry(i, SlotOf(i), old, op[i].keys),
         cut' \in [Slots -> 0..rev], \A t \in Slots \ {SlotOf(i)} : cut'[t] = cut[t],
         \A k \in KeysOf(old) : old[k] > cut'[SlotOf(i)],
         Return(i), UNCHANGED <<registry, evicted, gens, inst>>
  PROVE  /\ Good(i)
         /\ AdmittedInto(old, op[i].keys) => \A k \in op[i].keys : entries'[SlotOf(i)].fields[k] = rev'
<1> DEFINE d == op[i].dev
           s == SlotOf(i)
<1>1. /\ inst[i] = "up" /\ d \in Devices /\ Owner[d] = i /\ op[i].keys \in SUBSET Keys
      /\ WriteReady(i) /\ gens \in [Instances -> 0..MaxGen]
  BY PendingFacts
<1>2. PICK c \in Caps : op[i].caps = {c} /\ Declares(d, c)
  BY <1>1 DEF WriteReady
<1>3. s = <<d, c>> /\ s \in Slots
  BY <1>1, <1>2, SlotOfOne DEF Slots
<1> HIDE DEF s
<1>4. /\ StoreInv'
      /\ \A t \in Slots \ {s} : entries'[t] = entries[t]
      /\ entries'[s].quality = "fresh" /\ entries'[s].gen = gens[i]
      /\ Announced(s)
      /\ AdmittedInto(old, op[i].keys) => \A k \in op[i].keys : entries'[s].fields[k] = rev'
  BY <1>1, <1>3, WriteStore DEF StateInv, s
<1>5. ASSUME NEW t \in Slots, Owner[t[1]] = i, entries'[t].quality = "fresh"
      PROVE  entries'[t].gen = gens[i] /\ Declares(t[1], t[2])
  <2>1. CASE t = s BY <2>1, <1>2, <1>3, <1>4
  <2>2. CASE t # s
    <3>1. entries'[t] = entries[t] /\ Fresh(t)
      BY <2>2, <1>4, <1>5 DEF Fresh
    <3> QED BY <3>1, <1>1, <1>5, SettledLive
  <2> QED BY <2>1, <2>2
<1>6. /\ op[i].kind # "none"
      /\ \A t \in Slots : entries'[t] # entries[t] => Announced(t)
      /\ \A t \in Slots : Owner[t[1]] # i /\ (Fresh(t) \/ entries'[t].quality = "fresh") =>
           entries'[t] = entries[t]
  BY <1>1, <1>3, <1>4
<1>7. Good(i)
  BY <1>4, <1>5, <1>6, CallReturns
<1> QED BY <1>4, <1>7 DEF s

(* reset_and_seed_device: only what the registration seeded is fresh.      *)
LEMMA SeedGood ==
  ASSUME StateInv, NEW i \in Instances, Seed(i)
  PROVE  Good(i)
<1> DEFINE d == op[i].dev
<1>1. op[i].kind = "seed" /\ Return(i) /\ UNCHANGED <<registry, gens, inst>>
  BY DEF Seed, Pending
<1>2. SeedWrite(i, d, op[i].caps)
  BY DEF Seed, SeedWrite
<1>3. /\ inst[i] = "up" /\ d \in Devices /\ Owner[d] = i /\ op[i].caps \in SUBSET Caps
      /\ SeedReady(i)
  BY <1>1, PendingFacts
<1>4. \A c \in op[i].caps : AdmittedInto(NoFields, SeedKeys[c])
  BY <1>3 DEF SeedReady
<1>5. /\ StoreInv'
      /\ \A s \in Slots : entries'[s].quality = "fresh" =>
           \/ s \in {d} \X op[i].caps /\ entries'[s].gen = gens[i]
           \/ s \notin SlotsOf(d) /\ entries'[s] = entries[s]
      /\ \A s \in Slots : Fresh(s) /\ s \notin SlotsOf(d) => entries'[s] = entries[s]
      /\ \A s \in Slots : entries'[s] # entries[s] => Announced(s)
  BY <1>1, <1>2, <1>3, <1>4, SeedStore DEF StateInv
<1>6. ASSUME NEW s \in Slots, Owner[s[1]] = i, entries'[s].quality = "fresh"
      PROVE  entries'[s].gen = gens[i] /\ Declares(s[1], s[2])
  <2>1. CASE s \in {d} \X op[i].caps /\ entries'[s].gen = gens[i]
    <3>1. s[1] = d /\ s[2] \in op[i].caps
      BY <2>1
    <3> QED BY <2>1, <3>1, <1>3 DEF SeedReady, Declares
  <2>2. CASE s \notin SlotsOf(d) /\ entries'[s] = entries[s]
    <3>1. s[1] # d /\ Fresh(s)
      BY <2>2, <1>3, <1>6, OwnDevice DEF Fresh
    <3> QED BY <2>2, <3>1, <1>3, <1>6, SettledLive
  <2> QED BY <2>1, <2>2, <1>5, <1>6
<1>7. ASSUME NEW s \in Slots, Owner[s[1]] # i, Fresh(s) \/ entries'[s].quality = "fresh"
      PROVE  entries'[s] = entries[s]
  <2>1. s[1] # d
    BY <1>3, <1>7
  <2>2. s \notin SlotsOf(d)
    BY <2>1, <1>3, OwnDevice
  <2>3. s \notin {d} \X op[i].caps
    BY <2>1
  <2> QED BY <2>2, <2>3, <1>5, <1>7
<1> QED BY <1>1, <1>5, <1>6, <1>7, CallReturns

(* reconcile_capabilities and mark_device_stale: nothing is fresh of a     *)
(* capability the registry no longer has.                                  *)
LEMMA SweepCallGood ==
  ASSUME StateInv, NEW i \in Instances, Reconcile(i) \/ MarkDeviceStale(i)
  PROVE  Good(i)
<1> DEFINE d == op[i].dev
           S == IF op[i].kind = "reconcile" THEN Dropped(d, op[i].caps) ELSE SlotsOf(d)
<1>1. /\ op[i].kind \in {"reconcile", "remove"} /\ op[i].kind # "none"
      /\ Return(i) /\ UNCHANGED <<registry, gens, inst>>
      /\ Sweep(S)
  BY DEF Reconcile, MarkDeviceStale, Pending
<1>2. /\ inst[i] = "up" /\ d \in Devices /\ Owner[d] = i
      /\ op[i].kind = "reconcile" => Registered(d) /\ registry[d] = op[i].caps
      /\ gens' \in [Instances -> 0..MaxGen]
  BY <1>1, PendingFacts
<1>3. S \in SUBSET OwnSlots(i)
  BY <1>2, OwnDevice DEF Dropped
<1> HIDE DEF S
<1>4. /\ StoreInv'
      /\ \A s \in Slots : entries'[s] # entries[s] => Announced(s)
      /\ \A s \in Slots : Owner[s[1]] # i /\ (Fresh(s) \/ entries'[s].quality = "fresh") =>
           entries'[s] = entries[s]
      /\ \A s \in Slots : entries'[s].quality = "fresh" => entries'[s] = entries[s] /\ s \notin S
  BY <1>1, <1>2, <1>3, OwnSweep
<1>5. ASSUME NEW s \in Slots, Owner[s[1]] = i, entries'[s].quality = "fresh"
      PROVE  entries'[s].gen = gens[i] /\ Declares(s[1], s[2])
  <2>1. entries'[s] = entries[s] /\ Fresh(s) /\ s \notin S
    BY <1>4, <1>5 DEF Fresh
  <2>2. CASE s[1] # d BY <2>1, <2>2, <1>2, <1>5, SettledLive
  <2>3. CASE s[1] = d
    <3>1. s \in SlotsOf(d)
      BY <2>3, <1>2, OwnDevice
    <3>2. op[i].kind = "reconcile" /\ s[2] \in op[i].caps
      BY <2>1, <3>1, <1>1 DEF S, Dropped
    <3>3. Declares(s[1], s[2])
      BY <2>3, <3>2, <1>2 DEF Declares
    <3>4. entries[s].gen = gens[i]
      BY <2>1, <1>5 DEF StateInv, InstanceOK, LiveOf, Live
    <3> QED BY <2>1, <3>3, <3>4
  <2> QED BY <2>2, <2>3
<1> QED BY <1>1, <1>4, <1>5, CallReturns

(* A state change that the event log refused changes nothing.              *)
LEMMA LogFailsGood ==
  ASSUME StateInv, NEW i \in Instances, LogFails(i)
  PROVE  Good(i)
<1>1. op[i].kind = "delta" /\ Return(i) /\ UNCHANGED <<registry, gens, inst>> /\ UNCHANGED storeVars
  BY DEF LogFails, Pending, storeVars
<1>2. StoreInv' /\ entries' = entries
  BY <1>1, StoreUnchanged DEF StateInv
<1>3. op[i].kind # "none" /\ inst[i] = "up"
  BY <1>1, PendingFacts
<1>4. \A s \in Slots : Owner[s[1]] = i /\ entries'[s].quality = "fresh" =>
        entries'[s].gen = gens[i] /\ Declares(s[1], s[2])
  BY <1>1, <1>2, <1>3, SettledLive DEF Fresh
<1> QED BY <1>1, <1>2, <1>3, <1>4, CallReturns

(* apply_delta_recorded: the baseline has not grown since the admission    *)
(* check, so that the whole update is taken.                               *)
LEMMA ApplyDeltaGood ==
  ASSUME StateInv, NEW i \in Instances, ApplyDelta(i)
  PROVE  Good(i) /\ \A k \in op[i].keys : entries'[SlotOf(i)].fields[k] = rev'
<1> DEFINE s == SlotOf(i)
           old == Baseline(i, s)
<1>1. /\ op[i].kind = "delta" /\ Return(i) /\ UNCHANGED <<registry, evicted, gens, inst, cut>>
      /\ WriteEntry(i, s, old, op[i].keys)
  BY DEF ApplyDelta, Pending
<1>2. op[i].dev \in Devices /\ WriteReady(i)
  BY <1>1, PendingFacts
<1>3. s \in Slots /\ AdmittedInto(old, op[i].keys)
  BY <1>1, <1>2, SlotOfOne DEF WriteReady, DeltaAdmitted, Slots
<1>4. rev \in Nat /\ NoFields \in [Keys -> 0..rev]
  BY StateAssumption DEF StateInv, StoreInv, StoreTypes, StateAssumption, NoFields
<1>5. /\ old \in [Keys -> 0..rev] /\ Cardinality(KeysOf(old)) <= MaxFields
      /\ \A k \in KeysOf(old) : old[k] > cut[s]
  <2>1. CASE old = NoFields
    BY <2>1, <1>4, NoKeys
  <2>2. CASE old # NoFields
    <3>1. Fresh(s) /\ old = entries[s].fields
      BY <2>2 DEF Baseline
    <3> QED BY <3>1, <1>3 DEF StateInv, StoreInv, StoreTypes, EntryAt, FieldsOfThisLife
  <2> QED BY <2>1, <2>2
<1>6. cut' \in [Slots -> 0..rev] /\ cut' = cut
  BY <1>1 DEF StateInv, StoreInv, StoreTypes
<1> HIDE DEF old
<1>7. /\ Good(i)
      /\ AdmittedInto(old, op[i].keys) => \A k \in op[i].keys : entries'[s].fields[k] = rev'
  BY <1>1, <1>5, <1>6, WriteGood
<1> QED BY <1>3, <1>7

(* replace_snapshot, which merges into nothing.                            *)
LEMMA ReplaceSnapshotGood ==
  ASSUME StateInv, NEW i \in Instances, ReplaceSnapshot(i)
  PROVE  Good(i)
<1> DEFINE s == SlotOf(i)
<1>1. /\ op[i].kind = "snapshot" /\ Return(i) /\ UNCHANGED <<registry, evicted, gens, inst>>
      /\ WriteEntry(i, s, NoFields, op[i].keys)
      /\ cut' = CutAt({s}, rev)
  BY DEF ReplaceSnapshot, Pending
<1>2. rev \in Nat /\ NoFields \in [Keys -> 0..rev] /\ cut \in [Slots -> 0..rev]
  BY StateAssumption DEF StateInv, StoreInv, StoreTypes, StateAssumption, NoFields
<1>3. cut' \in [Slots -> 0..rev] /\ \A t \in Slots \ {s} : cut'[t] = cut[t]
  BY <1>1, <1>2 DEF CutAt
<1> QED BY <1>1, <1>2, <1>3, NoKeys, WriteGood

(* The lives of an instance.  No call is between its lock sections.        *)
LEMMA NoCall ==
  ASSUME StateInv, NEW i \in Instances, inst[i] # "up"
  PROVE  op[i] = NoOp
BY DEF StateInv, InstanceOK, OpReady

(* A step of the supervisor or the reaper, given what it does to the       *)
(* projection.                                                             *)
LEMMA LabelGood ==
  ASSUME StateInv, NEW i \in Instances, op[i] = NoOp, op' = op,
         NEW label \in {"off", "sweeping", "up", "down", "ended", "reaping"}, Goto(i, label),
         label = "sweeping" => gens'[i] < MaxGen,
         StoreInv', \A j \in Instances \ {i} : gens'[j] = gens[j],
         registry' = registry \/ RemoveByOwner(i),
         \A s \in Slots : entries'[s] # entries[s] => Announced(s),
         \A s \in Slots : Owner[s[1]] # i /\ (Fresh(s) \/ entries'[s].quality = "fresh") =>
           entries'[s] = entries[s],
         LiveOf(i)'
  PROVE  Good(i)
<1>1. inst' = [inst EXCEPT ![i] = label] /\ inst'[i] = label /\ \A j \in Instances \ {i} : inst'[j] = inst[j]
  BY DEF Goto, StateInv, ControlTypes
<1>2. /\ registry' \in [Devices -> (SUBSET Caps) \cup {Unregistered}]
      /\ \A d \in Devices : Owner[d] # i => registry'[d] = registry[d]
  BY DEF RemoveByOwner, StateInv, ControlTypes
<1>3. ControlTypes'
  <2>1. ASSUME NEW j \in Instances, inst'[j] = "sweeping" PROVE gens'[j] < MaxGen
    <3>1. CASE j = i BY <2>1, <3>1, <1>1
    <3>2. CASE j # i BY <2>1, <3>2, <1>1 DEF StateInv, ControlTypes
    <3> QED BY <3>1, <3>2
  <2> QED BY <2>1, <1>1, <1>2 DEF StateInv, ControlTypes
<1>4. Frame(i)
  BY <1>1, <1>2 DEF Frame
<1>5. OpReady(i)'
  BY DEF OpReady, NoOp
<1> QED BY <1>3, <1>4, <1>5 DEF Good, InstanceOK

(* The supervisor's and the reaper's steps: the sweeps at the top of a     *)
(* life and at the end of an instance leave none of its slots fresh.       *)
LEMMA LifeStepGood ==
  ASSUME StateInv, NEW i \in Instances, LifeStep(i)
  PROVE  Good(i)
<1>1. CASE BeginLife(i)
  <2>1. /\ op[i] = NoOp /\ op' = op /\ Goto(i, "sweeping") /\ RemoveByOwner(i)
        /\ UNCHANGED storeVars /\ gens[i] < MaxGen
    BY <1>1, NoCall DEF BeginLife
  <2>2. StoreInv' /\ entries' = entries /\ gens' = gens
    BY <2>1, StoreUnchanged DEF StateInv
  <2>3. inst'[i] = "sweeping"
    BY <2>1 DEF Goto, StateInv, ControlTypes
  <2>4. LiveOf(i)'
    BY <2>2, <2>3 DEF StateInv, InstanceOK, LiveOf, Live, Fresh, Settling
  <2> QED BY <2>1, <2>2, <2>4, LabelGood
<1>2. CASE RestartGeneration(i)
  <2>1. /\ op[i] = NoOp /\ op' = op /\ Goto(i, "up") /\ registry' = registry
        /\ Sweep(OwnSlots(i)) /\ gens' = [gens EXCEPT ![i] = @ + 1]
    BY <1>2, NoCall DEF RestartGeneration
  <2>2. gens' \in [Instances -> 0..MaxGen]
    <3>1. gens \in [Instances -> 0..MaxGen] /\ gens[i] < MaxGen
      BY <1>2 DEF RestartGeneration, StateInv, ControlTypes, StoreInv, StoreTypes
    <3>2. gens[i] + 1 \in 0..MaxGen
      BY <3>1, StateAssumption DEF StateAssumption
    <3> QED BY <2>1, <3>1, <3>2
  <2>3. /\ StoreInv'
        /\ \A s \in Slots : entries'[s] # entries[s] => Announced(s)
        /\ \A s \in Slots : Owner[s[1]] # i /\ (Fresh(s) \/ entries'[s].quality = "fresh") =>
             entries'[s] = entries[s]
        /\ \A s \in Slots : entries'[s].quality = "fresh" => entries'[s] = entries[s] /\ s \notin OwnSlots(i)
    BY <2>1, <2>2, OwnSweep
  <2>4. LiveOf(i)'
    BY <2>3 DEF LiveOf, Live, Fresh, OwnSlots
  <2>5. \A j \in Instances \ {i} : gens'[j] = gens[j]
    BY <2>1, <2>2 DEF StateInv, StoreInv, StoreTypes
  <2> QED BY <2>1, <2>3, <2>4, <2>5, LabelGood
<1>3. CASE Crash(i)
  <2>1. /\ op[i] = NoOp /\ op' = op /\ Goto(i, "down") /\ registry' = registry
        /\ UNCHANGED storeVars /\ inst[i] = "up"
    BY <1>3 DEF Crash, Idle
  <2>2. StoreInv' /\ entries' = entries /\ gens' = gens
    BY <2>1, StoreUnchanged DEF StateInv
  <2>3. inst'[i] = "down"
    BY <2>1 DEF Goto, StateInv, ControlTypes
  <2>4. LiveOf(i)'
    <3> SUFFICES ASSUME NEW s \in Slots, Owner[s[1]] = i PROVE Live(s)'
      BY DEF LiveOf
    <3>1. Fresh(s) => entries[s].gen = gens[i] /\ Declares(s[1], s[2])
      BY <2>1, SettledLive DEF NoOp
    <3> QED BY <2>1, <2>2, <2>3, <3>1 DEF Live, Fresh, Declares, Registered
  <2> QED BY <2>1, <2>2, <2>4, LabelGood
<1>4. CASE End(i)
  <2>1. /\ op[i] = NoOp /\ op' = op /\ Goto(i, "ended") /\ registry' = registry
        /\ UNCHANGED storeVars /\ inst[i] \in {"up", "down"}
    BY <1>4, NoCall DEF End, Idle
  <2>2. StoreInv' /\ entries' = entries /\ gens' = gens
    BY <2>1, StoreUnchanged DEF StateInv
  <2>3. inst'[i] = "ended"
    BY <2>1 DEF Goto, StateInv, ControlTypes
  <2>4. LiveOf(i)'
    <3> SUFFICES ASSUME NEW s \in Slots, Owner[s[1]] = i PROVE Live(s)'
      BY DEF LiveOf
    <3>1. Fresh(s) => entries[s].gen = gens[i] /\ Declares(s[1], s[2])
      BY <2>1, SettledLive DEF NoOp
    <3> QED BY <2>1, <2>2, <2>3, <3>1 DEF Live, Fresh, Declares, Registered
  <2> QED BY <2>1, <2>2, <2>4, LabelGood
<1>5. CASE ReapDevices(i)
  <2>1. /\ op[i] = NoOp /\ op' = op /\ Goto(i, "reaping") /\ RemoveByOwner(i)
        /\ UNCHANGED storeVars
    BY <1>5, NoCall DEF ReapDevices
  <2>2. StoreInv' /\ entries' = entries /\ gens' = gens
    BY <2>1, StoreUnchanged DEF StateInv
  <2>3. inst'[i] = "reaping"
    BY <2>1 DEF Goto, StateInv, ControlTypes
  <2>4. LiveOf(i)'
    BY <2>2, <2>3 DEF StateInv, InstanceOK, LiveOf, Live, Fresh, Settling
  <2> QED BY <2>1, <2>2, <2>4, LabelGood
<1>6. CASE ReapState(i)
  <2>1. /\ op[i] = NoOp /\ op' = op /\ Goto(i, "off") /\ registry' = registry
        /\ Sweep(OwnSlots(i)) /\ gens' = gens /\ gens' \in [Instances -> 0..MaxGen]
    BY <1>6, NoCall DEF ReapState, ReapedSlots, StateInv, StoreInv, StoreTypes
  <2>2. /\ StoreInv'
        /\ \A s \in Slots : entries'[s] # entries[s] => Announced(s)
        /\ \A s \in Slots : Owner[s[1]] # i /\ (Fresh(s) \/ entries'[s].quality = "fresh") =>
             entries'[s] = entries[s]
        /\ \A s \in Slots : entries'[s].quality = "fresh" => entries'[s] = entries[s] /\ s \notin OwnSlots(i)
    BY <2>1, OwnSweep
  <2>3. LiveOf(i)'
    BY <2>2 DEF LiveOf, Live, Fresh, OwnSlots
  <2> QED BY <2>1, <2>2, <2>3, LabelGood
<1> QED BY <1>1, <1>2, <1>3, <1>4, <1>5, <1>6 DEF LifeStep

-----------------------------------------------------------------------------
(* The invariant.                                                          *)

(* The empty registry and the empty projection satisfy the invariant.      *)
LEMMA StateInvInit == StateInit => StateInv
<1> SUFFICES ASSUME StateInit PROVE StateInv
  OBVIOUS
<1>1. /\ registry = [d \in Devices |-> Unregistered] /\ entries = [s \in Slots |-> NoEntry]
      /\ rev = 0 /\ evicted = 0 /\ gens = [i \in Instances |-> 0]
      /\ inst = [i \in Instances |-> "off"] /\ op = [i \in Instances |-> NoOp]
      /\ cut = [s \in Slots |-> 0]
  BY DEF StateInit
<1>2. MaxRev \in Nat /\ MaxGen \in Nat /\ MaxStale \in Nat
  BY StateAssumption DEF StateAssumption
<1>3. \A s \in Slots : entries[s] = NoEntry /\ NoEntry.fields = NoFields /\ NoEntry.quality = "absent"
  BY <1>1 DEF NoEntry
<1>4. StoreTypes
  <2>1. NoEntry \in EntryAt(0)
    BY <1>2 DEF NoEntry, NoFields, EntryAt
  <2>2. \A s \in Slots : Cardinality(KeysOf(entries[s].fields)) <= MaxFields
    BY <1>3, NoKeys
  <2> QED BY <1>1, <1>2, <1>3, <2>1, <2>2 DEF StoreTypes
<1>5. RevisionsDistinct /\ FieldsOfThisLife
  BY <1>3 DEF RevisionsDistinct, FieldsOfThisLife, Fresh
<1>6. StaleBounded
  <2>1. StaleIn(entries) = {}
    BY <1>3 DEF StaleIn
  <2> QED BY <2>1, <1>2, FS_EmptySet DEF StaleBounded
<1>7. ControlTypes
  <2>1. NoOp \in [kind : OpKinds, dev : Devices \cup {None}, caps : SUBSET Caps, keys : SUBSET Keys]
    BY DEF NoOp, OpKinds
  <2> QED BY <1>1, <2>1 DEF ControlTypes
<1>8. \A i \in Instances : InstanceOK(i)
  BY <1>1, <1>3 DEF InstanceOK, OpReady, LiveOf, Live, Fresh
<1> QED BY <1>4, <1>5, <1>6, <1>7, <1>8 DEF StateInv, StoreInv

(* Every step of StateNext is one of those above.                          *)
LEMMA StepGood ==
  ASSUME StateInv, NEW i \in Instances, HostCall(i) \/ SecondHalf(i) \/ LifeStep(i)
  PROVE  Good(i)
<1>1. CASE HostCall(i) BY <1>1, HostCallGood
<1>2. CASE SecondHalf(i)
  BY <1>2, SeedGood, SweepCallGood, ApplyDeltaGood, LogFailsGood, ReplaceSnapshotGood DEF SecondHalf
<1>3. CASE LifeStep(i) BY <1>3, LifeStepGood
<1> QED BY <1>1, <1>2, <1>3

(* The invariant is inductive.                                             *)
LEMMA StateInvNext == StateInv /\ [StateNext]_stateVars => StateInv'
<1> SUFFICES ASSUME StateInv, [StateNext]_stateVars PROVE StateInv'
  OBVIOUS
<1>1. CASE StateNext
  <2>1. PICK i \in Instances : HostCall(i) \/ SecondHalf(i) \/ LifeStep(i)
    BY <1>1 DEF StateNext
  <2>2. Good(i)
    BY <2>1, StepGood
  <2>3. \A j \in Instances : InstanceOK(j)'
    BY <2>2, OthersOK DEF Good
  <2> QED BY <2>2, <2>3 DEF Good, StateInv
<1>2. CASE UNCHANGED stateVars
  <2>1. /\ UNCHANGED storeVars /\ registry' = registry /\ inst' = inst /\ op' = op
    BY <1>2 DEF stateVars
  <2>2. StoreInv' /\ entries' = entries /\ gens' = gens
    BY <2>1, StoreUnchanged DEF StateInv
  <2>3. ControlTypes'
    BY <2>1, <2>2 DEF StateInv, ControlTypes
  <2>4. ASSUME NEW i \in Instances PROVE InstanceOK(i)'
    <3>1. Frame(i)
      BY <2>1, <2>2 DEF Frame
    <3>2. InstanceOK(i)
      BY DEF StateInv
    <3>3. OpReady(i)'
      BY <2>1, <2>2, <3>2 DEF InstanceOK, OpReady, SeedReady, WriteReady, Registered, Declares,
                             DeltaAdmitted, Baseline, Fresh, SlotOf, AdmittedInto
    <3>4. LiveOf(i)'
      BY <2>1, <2>2, <3>2 DEF InstanceOK, LiveOf, Live, Fresh, Declares, Registered, Settling
    <3> QED BY <3>3, <3>4 DEF InstanceOK
  <2> QED BY <2>2, <2>3, <2>4 DEF StateInv
<1> QED BY <1>1, <1>2

(* StateInv holds of every reachable state: the basis of what follows.     *)
THEOREM StateInvariant == StateSpec => []StateInv
BY StateInvInit, StateInvNext, PTL DEF StateSpec

(* Types; no entry, watermark or cut is ahead of global_revision, and no   *)
(* slot holds more than MAX_FIELDS_PER_SLOT fields.                        *)
THEOREM TypeCorrect == StateSpec => []StateTypeOK
<1>1. StateInv => StateTypeOK
  BY DEF StateInv, StoreInv, StoreTypes, ControlTypes, StateTypeOK, Entry, EntryAt
<1> QED BY <1>1, StateInvariant, PTL

(* What the API reports as fresh is of its owner's current life, of a      *)
(* registered device and a declared capability, except inside one of the   *)
(* owner's own calls about that device or while its life begins or is      *)
(* reaped.                                                                 *)
THEOREM FreshIsAlwaysLive == StateSpec => []FreshIsLive
<1>1. StateInv => FreshIsLive
  <2> SUFFICES ASSUME StateInv, NEW s \in Slots PROVE Live(s)
    BY DEF FreshIsLive, Live
  <2>1. Owner[s[1]] \in Instances
    BY StateAssumption DEF Slots, StateAssumption
  <2> QED BY <2>1 DEF StateInv, InstanceOK, LiveOf
<1> QED BY <1>1, StateInvariant, PTL

(* No field of a fresh entry was written before the slot's last restart,   *)
(* removal, re-registration or full snapshot.                              *)
THEOREM FieldsAlwaysOfThisLife == StateSpec => []FieldsOfThisLife
<1>1. StateInv => FieldsOfThisLife
  BY DEF StateInv, StoreInv
<1> QED BY <1>1, StateInvariant, PTL

(* No two entries share a revision, whatever sweeps and seedings           *)
(* interleave: cursors may page by it.                                     *)
THEOREM RevisionsAlwaysDistinct == StateSpec => []RevisionsDistinct
<1>1. StateInv => RevisionsDistinct
  BY DEF StateInv, StoreInv
<1> QED BY <1>1, StateInvariant, PTL

(* MAX_STALE_ENTRIES bounds the stale entries after every lock section.    *)
THEOREM StaleAlwaysBounded == StateSpec => []StaleBounded
<1>1. StateInv => StaleBounded
  BY DEF StateInv, StoreInv
<1> QED BY <1>1, StateInvariant, PTL

(* A cursor misses no change: a slot moves above every revision issued so  *)
(* far, or its eviction moves the watermark past all who have not seen it. *)
THEOREM ChangesAnnounced == StateSpec => NoSilentChange
<1>1. StateInv /\ [StateNext]_stateVars =>
        [\A s \in Slots : entries'[s] # entries[s] => Announced(s)]_stateVars
  <2> SUFFICES ASSUME StateInv, StateNext
               PROVE  \A s \in Slots : entries'[s] # entries[s] => Announced(s)
    OBVIOUS
  <2>1. PICK i \in Instances : Good(i)
    BY StepGood DEF StateNext
  <2> QED BY <2>1 DEF Good
<1> QED BY <1>1, StateInvariant, PTL DEF StateSpec, NoSilentChange, Announced

(* A state change that was admitted before the event log recorded it is    *)
(* applied whole.                                                          *)
THEOREM DeltaNeverTruncated == StateSpec => NothingTruncated
<1> DEFINE Whole == \A i \in Instances :
                      ApplyDelta(i) => \A k \in op[i].keys : entries'[SlotOf(i)].fields[k] = rev'
<1>1. StateInv /\ [StateNext]_stateVars => [Whole]_stateVars
  BY ApplyDeltaGood
<1> QED BY <1>1, StateInvariant, PTL DEF StateSpec, NothingTruncated
===============================================================================
