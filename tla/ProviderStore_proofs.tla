------------------------ MODULE ProviderStore_proofs ------------------------
(***************************************************************************)
(* Proofs about ProviderStore, and that it implements HoldersMap, for every *)
(* set of keys, providers and pointers and every pair of limits.            *)
(***************************************************************************)
EXTENDS ProviderStore, FiniteSetTheorems, NaturalsInduction, WellFoundedInduction, TLAPS

(* The inductive invariant: the types need the flattened map to be a map    *)
(* (a refresh of a pair held twice would not be one replacement), and the   *)
(* bounds need the types.                                                   *)
Inv == TypeOK /\ OneEntryPerProvider /\ SeqsDistinct /\ WithinGlobalCeiling

(* The three ways put_at changes a store S with next number seq. *)
RefreshOf(S, seq, rec, r) ==
  \E e \in S : /\ e.key = rec.key /\ e.peer = rec.peer
               /\ r.store = (S \ {e}) \cup {Entry(rec, e.seq)}
               /\ r.seq = seq

AdditionTo(S, seq, rec, r) ==
  /\ Held(S, rec) = {}
  /\ Cardinality(S) < MaxTotalRecords
  /\ ~AtKeyCap(S, rec.key, Limits)
  /\ r.store = S \cup {Entry(rec, seq)}
  /\ r.seq = seq + 1

ReplacementIn(S, seq, rec, t, r) ==
  /\ Held(S, rec) = {}
  /\ Cardinality(S) < MaxTotalRecords
  /\ AtKeyCap(S, rec.key, Limits)
  /\ \E v \in EvictionVictims(OfKey(S, rec.key), MaxProvidersPerKey, t) :
       r.store = (S \ {v}) \cup {Entry(rec, seq)}
  /\ r.seq = seq + 1

-----------------------------------------------------------------------------
(* A victim is an entry of the pool it is taken from. *)
LEMMA VictimsAreEntries ==
  ASSUME NEW P, NEW cap, NEW t
  PROVE  EvictionVictims(P, cap, t) \subseteq P
BY DEF EvictionVictims, Soonest, EstablishedFloor

(* Adding one element enlarges a finite set by at most one. *)
LEMMA AddOne ==
  ASSUME NEW D, NEW x, IsFiniteSet(D)
  PROVE  /\ IsFiniteSet(D \cup {x})
         /\ Cardinality(D \cup {x}) \in Nat
         /\ Cardinality(D) \in Nat
         /\ Cardinality(D \cup {x}) <= Cardinality(D) + 1
<1>1. Cardinality(D) \in Nat
  BY FS_CardinalityType
<1> QED
  BY <1>1, FS_AddElement

(* An entry built from an offer and a number has the type of an entry. *)
LEMMA EntryType ==
  ASSUME NEW rec \in Offers, NEW seq \in Nat
  PROVE  /\ Entry(rec, seq) \in Entries
         /\ Entry(rec, seq).key = rec.key
         /\ Entry(rec, seq).peer = rec.peer
         /\ Entry(rec, seq).exp = rec.exp
         /\ Entry(rec, seq).seq = seq
<1>1. rec.exp \in Nat
  <2>1. rec.exp \in Expiries
    BY DEF Offers
  <2> QED  BY <2>1, BoundsAssumption
<1> QED  BY <1>1 DEF Offers, Entries, Entry

(* put_at either changes nothing, replaces one entry in place, adds one, or *)
(* exchanges a victim of the same key for the newcomer.                     *)
LEMMA PutShape ==
  ASSUME NEW S \in SUBSET Entries, NEW seq \in Nat, NEW rec \in Offers, NEW t,
         IsFiniteSet(S),
         \A e, f \in S : (e.key = f.key /\ e.peer = f.peer) => e = f,
         MaxTotalRecords \in Nat,
         NEW r \in PutResults(S, seq, rec, t, Limits)
  PROVE  \/ r.store = S /\ r.seq = seq
         \/ RefreshOf(S, seq, rec, r)
         \/ AdditionTo(S, seq, rec, r)
         \/ ReplacementIn(S, seq, rec, t, r)
<1>0. Cardinality(S) \in Nat
  BY FS_CardinalityType
<1>1. CASE Held(S, rec) # {}
  <2>1. PICK e \in S : e.key = rec.key /\ e.peer = rec.peer
    BY <1>1 DEF Held
  <2>2. Held(S, rec) = {e}
    BY <2>1 DEF Held
  <2>3. {Entry(rec, f.seq) : f \in Held(S, rec)} = {Entry(rec, e.seq)}
    BY <2>2
  <2>4. r = Result(Refreshed(S, seq, rec), seq, Accepted)
    BY <1>1 DEF PutResults
  <2>5. r.store = (S \ {e}) \cup {Entry(rec, e.seq)} /\ r.seq = seq
    BY <2>2, <2>3, <2>4 DEF Refreshed, Result
  <2> QED
    BY <2>1, <2>5 DEF RefreshOf
<1>2. CASE Held(S, rec) = {} /\ Cardinality(S) >= MaxTotalRecords
  <2>1. r = Result(S, seq, RejectedOverCapacity)
    BY <1>2 DEF PutResults, Limits
  <2> QED
    BY <2>1 DEF Result
<1>3. CASE Held(S, rec) = {} /\ ~(Cardinality(S) >= MaxTotalRecords)
  <2>1. r \in Admissions(S, seq, rec, t, Limits)
    BY <1>3 DEF PutResults, Limits
  <2>2. Cardinality(S) < MaxTotalRecords
    BY <1>0, <1>3
  <2>3. CASE ~AtKeyCap(S, rec.key, Limits)
    <3>1. r = Result(S \cup {Entry(rec, seq)}, seq + 1, Accepted)
      BY <2>1, <2>3 DEF Admissions
    <3> QED
      BY <1>3, <2>2, <2>3, <3>1 DEF AdditionTo, Result
  <2>4. CASE AtKeyCap(S, rec.key, Limits)
    <3> DEFINE victims == EvictionVictims(OfKey(S, rec.key), MaxProvidersPerKey, t)
    <3>1. CASE victims = {}
      <4>1. r = Result(S, seq, RejectedOverCapacity)
        BY <2>1, <2>4, <3>1 DEF Admissions, Limits
      <4> QED
        BY <4>1 DEF Result
    <3>2. CASE victims # {}
      <4>1. PICK v \in victims :
              r = Result((S \ {v}) \cup {Entry(rec, seq)}, seq + 1, Accepted)
        BY <2>1, <2>4, <3>2 DEF Admissions, Limits
      <4>2. r.store = (S \ {v}) \cup {Entry(rec, seq)} /\ r.seq = seq + 1
        BY <4>1 DEF Result
      <4> QED
        BY <1>3, <2>2, <2>4, <4>1, <4>2 DEF ReplacementIn
    <3> QED
      BY <3>1, <3>2
  <2> QED
    BY <2>3, <2>4
<1> QED
  BY <1>1, <1>2, <1>3

(* Whatever put_at does to a store that is a finite map with distinct       *)
(* numbers below seq, it leaves such a store, and no larger than the        *)
(* ceiling when it was no larger before.                                    *)
LEMMA PutPreserves ==
  ASSUME NEW S \in SUBSET Entries, NEW seq \in Nat, NEW rec \in Offers, NEW t,
         IsFiniteSet(S),
         \A e, f \in S : (e.key = f.key /\ e.peer = f.peer) => e = f,
         \A e \in S : e.seq < seq,
         \A e, f \in S : e.seq = f.seq => e = f,
         NEW r \in PutResults(S, seq, rec, t, Limits)
  PROVE  /\ r.store \in SUBSET Entries
         /\ r.seq \in Nat
         /\ IsFiniteSet(r.store)
         /\ \A e, f \in r.store : (e.key = f.key /\ e.peer = f.peer) => e = f
         /\ \A e \in r.store : e.seq < r.seq
         /\ \A e, f \in r.store : e.seq = f.seq => e = f
         /\ Cardinality(S) <= MaxTotalRecords => Cardinality(r.store) <= MaxTotalRecords
<1>0. MaxTotalRecords \in Nat /\ Cardinality(S) \in Nat
  BY LimitsAssumption, FS_CardinalityType
<1>1. CASE r.store = S /\ r.seq = seq
  BY <1>1
<1>2. CASE RefreshOf(S, seq, rec, r)
  <2>1. PICK e \in S : /\ e.key = rec.key /\ e.peer = rec.peer
                       /\ r.store = (S \ {e}) \cup {Entry(rec, e.seq)}
                       /\ r.seq = seq
    BY <1>2 DEF RefreshOf
  <2> DEFINE n == Entry(rec, e.seq)
  <2>2. e.seq \in Nat
    BY DEF Entries
  <2>3. n \in Entries /\ n.key = e.key /\ n.peer = e.peer /\ n.seq = e.seq
    BY <2>1, <2>2, EntryType
  <2>4. IsFiniteSet(S \ {e}) /\ Cardinality(S \ {e}) = Cardinality(S) - 1
    BY FS_RemoveElement
  <2>5. IsFiniteSet(r.store) /\ Cardinality(r.store) <= Cardinality(S)
    <3>1. /\ IsFiniteSet((S \ {e}) \cup {n})
          /\ Cardinality((S \ {e}) \cup {n}) \in Nat
          /\ Cardinality(S \ {e}) \in Nat
          /\ Cardinality((S \ {e}) \cup {n}) <= Cardinality(S \ {e}) + 1
      BY <2>4, AddOne
    <3> QED
      BY <1>0, <2>1, <2>4, <3>1
  <2>6. Cardinality(r.store) \in Nat
    BY <2>5, FS_CardinalityType
  <2>7. \A f \in r.store : f = n \/ (f \in S /\ f # e)
    BY <2>1
  <2> HIDE DEF n
  <2>8. r.store \in SUBSET Entries
    BY <2>3, <2>7
  <2>9. \A f, g \in r.store : (f.key = g.key /\ f.peer = g.peer) => f = g
    BY <2>3, <2>7
  <2>10. (\A f \in r.store : f.seq < r.seq) /\ \A f, g \in r.store : f.seq = g.seq => f = g
    BY <2>1, <2>3, <2>7
  <2>11. r.seq \in Nat
    BY <2>1
  <2> QED
    BY <1>0, <2>5, <2>6, <2>8, <2>9, <2>10, <2>11
<1>3. ASSUME NEW D \in SUBSET S,
             Held(S, rec) = {},
             r.store = D \cup {Entry(rec, seq)},
             r.seq = seq + 1,
             Cardinality(S) < MaxTotalRecords
      PROVE  /\ r.store \in SUBSET Entries
             /\ r.seq \in Nat
             /\ IsFiniteSet(r.store)
             /\ \A e, f \in r.store : (e.key = f.key /\ e.peer = f.peer) => e = f
             /\ \A e \in r.store : e.seq < r.seq
             /\ \A e, f \in r.store : e.seq = f.seq => e = f
             /\ Cardinality(r.store) <= MaxTotalRecords
  <2> DEFINE n == Entry(rec, seq)
  <2>1. n \in Entries /\ n.key = rec.key /\ n.peer = rec.peer /\ n.seq = seq
    BY EntryType
  <2>2. IsFiniteSet(D) /\ Cardinality(D) <= Cardinality(S) /\ Cardinality(D) \in Nat
    BY FS_Subset, FS_CardinalityType
  <2>3. IsFiniteSet(r.store) /\ Cardinality(r.store) <= Cardinality(D) + 1
    <3>1. IsFiniteSet(D \cup {n}) /\ Cardinality(D \cup {n}) <= Cardinality(D) + 1
      BY <2>2, AddOne
    <3> QED
      BY <1>3, <3>1
  <2>4. Cardinality(r.store) \in Nat
    BY <2>3, FS_CardinalityType
  <2>5. \A f \in r.store : f = n \/ f \in S
    BY <1>3
  <2>6. \A f \in S : ~(f.key = rec.key /\ f.peer = rec.peer)
    BY <1>3 DEF Held
  <2> HIDE DEF n
  <2>7. r.store \in SUBSET Entries
    BY <2>1, <2>5
  <2>8. \A e, f \in r.store : (e.key = f.key /\ e.peer = f.peer) => e = f
    BY <2>1, <2>5, <2>6
  <2>9. \A e \in S : e.seq \in Nat
    BY DEF Entries
  <2>10. \A e \in r.store : e.seq < r.seq
    BY <1>3, <2>1, <2>5, <2>9
  <2>11. \A e, f \in r.store : e.seq = f.seq => e = f
    BY <1>3, <2>1, <2>5, <2>9
  <2>12. r.seq \in Nat
    BY <1>3
  <2>13. Cardinality(r.store) <= MaxTotalRecords
    BY <1>0, <1>3, <2>2, <2>3, <2>4
  <2> QED
    BY <2>3, <2>7, <2>8, <2>10, <2>11, <2>12, <2>13
<1>4. CASE AdditionTo(S, seq, rec, r)
  BY <1>3, <1>4 DEF AdditionTo
<1>5. CASE ReplacementIn(S, seq, rec, t, r)
  <2>1. PICK v : r.store = (S \ {v}) \cup {Entry(rec, seq)}
    BY <1>5 DEF ReplacementIn
  <2>2. S \ {v} \in SUBSET S
    OBVIOUS
  <2> QED
    BY <1>3, <1>5, <2>1, <2>2 DEF ReplacementIn
<1> QED
  BY <1>0, <1>1, <1>2, <1>4, <1>5, PutShape

-----------------------------------------------------------------------------
LEMMA InitInv == Init => Inv
<1> SUFFICES ASSUME Init PROVE Inv
  OBVIOUS
<1>1. IsFiniteSet(entries) /\ Cardinality(entries) = 0
  BY FS_EmptySet DEF Init
<1>2. announced \in [{} -> Pointers]
  BY DEF Init
<1>3. now \in 0..MaxTime
  BY BoundsAssumption DEF Init
<1> QED
  BY <1>1, <1>2, <1>3, LimitsAssumption
     DEF Init, Inv, TypeOK, OneEntryPerProvider, SeqsDistinct, WithinGlobalCeiling

(* A step that keeps a subset of the entries, and the counter, keeps every  *)
(* part of the invariant that is about entries.                             *)
LEMMA ShrinkInv ==
  ASSUME Inv, entries' \subseteq entries, UNCHANGED <<announced, nextSeq, now>>
  PROVE  Inv'
<1>1. /\ IsFiniteSet(entries')
      /\ Cardinality(entries') <= Cardinality(entries)
      /\ Cardinality(entries') \in Nat
      /\ Cardinality(entries) \in Nat
  BY FS_Subset, FS_CardinalityType DEF Inv, TypeOK
<1>2. WithinGlobalCeiling'
  BY <1>1, LimitsAssumption DEF Inv, WithinGlobalCeiling
<1>3. TypeOK'
  BY <1>1 DEF Inv, TypeOK
<1> QED
  BY <1>2, <1>3 DEF Inv, OneEntryPerProvider, SeqsDistinct

LEMMA NextInv == Inv /\ [Next]_vars => Inv'
<1> SUFFICES ASSUME Inv, [Next]_vars PROVE Inv'
  OBVIOUS
<1>1. ASSUME NEW rec \in Offers, PutAt(rec) PROVE Inv'
  <2>1. PICK r \in PutResults(entries, nextSeq, rec, now, Limits) :
          /\ entries' = r.store
          /\ nextSeq' = r.seq
          /\ UNCHANGED <<announced, now>>
    BY <1>1 DEF PutAt, Put
  <2>2. /\ r.store \in SUBSET Entries
        /\ r.seq \in Nat
        /\ IsFiniteSet(r.store)
        /\ \A e, f \in r.store : (e.key = f.key /\ e.peer = f.peer) => e = f
        /\ \A e \in r.store : e.seq < r.seq
        /\ \A e, f \in r.store : e.seq = f.seq => e = f
        /\ Cardinality(r.store) <= MaxTotalRecords
    BY PutPreserves DEF Inv, TypeOK, OneEntryPerProvider, SeqsDistinct, WithinGlobalCeiling
  <2> QED
    BY <2>1, <2>2
       DEF Inv, TypeOK, OneEntryPerProvider, SeqsDistinct, WithinGlobalCeiling
<1>2. ASSUME NEW k \in Keys, NEW p \in Peers, Remove(k, p) PROVE Inv'
  <2>1. entries' \subseteq entries
    BY <1>2 DEF Remove, StoreRemove
  <2> QED
    BY <1>2, <2>1, ShrinkInv DEF Remove
<1>3. ASSUME NEW k \in Keys, RemoveKey(k) PROVE Inv'
  <2>1. entries' \subseteq entries
    BY <1>3 DEF RemoveKey, StoreRemoveKey
  <2> QED
    BY <1>3, <2>1, ShrinkInv DEF RemoveKey
<1>4. CASE Gc
  <2>1. entries' \subseteq entries
    BY <1>4 DEF Gc, StoreGc
  <2> QED
    BY <1>4, <2>1, ShrinkInv DEF Gc
<1>5. ASSUME announced' \in UNION {[D -> Pointers] : D \in SUBSET Keys},
             now' \in 0..MaxTime,
             UNCHANGED records
      PROVE  Inv'
  BY <1>5 DEF Inv, TypeOK, OneEntryPerProvider, SeqsDistinct, WithinGlobalCeiling, records
<1>6. PICK D \in SUBSET Keys : announced \in [D -> Pointers]
  BY DEF Inv, TypeOK
<1>7. ASSUME NEW k \in Keys, NEW coin \in Pointers, MarkAnnounced(k, coin) PROVE Inv'
  <2>1. announced' \in [D \cup {k} -> Pointers]
    BY <1>6, <1>7 DEF MarkAnnounced
  <2>2. now' \in 0..MaxTime /\ UNCHANGED records
    BY <1>7 DEF MarkAnnounced, Inv, TypeOK
  <2> QED
    BY <1>5, <1>6, <2>1, <2>2
<1>8. ASSUME NEW k \in Keys, UnmarkAnnounced(k) PROVE Inv'
  <2>1. announced' \in [D \ {k} -> Pointers]
    BY <1>6, <1>8 DEF UnmarkAnnounced
  <2>2. now' \in 0..MaxTime /\ UNCHANGED records
    BY <1>8 DEF UnmarkAnnounced, Inv, TypeOK
  <2> QED
    BY <1>5, <1>6, <2>1, <2>2
<1>9. ASSUME NEW t \in 0..MaxTime, ReadClock(t) PROVE Inv'
  BY <1>5, <1>9 DEF ReadClock, Inv, TypeOK, records
<1>10. CASE UNCHANGED vars
  BY <1>5, <1>10 DEF vars, records, Inv, TypeOK
<1> QED
  BY <1>1, <1>2, <1>3, <1>4, <1>7, <1>8, <1>9, <1>10 DEF Next

LEMMA SpecInv == Spec => []Inv
BY InitInv, NextInv, PTL DEF Spec

(* The store's variables keep their types through every operation. *)
THEOREM TypeCorrect == Spec => []TypeOK
<1>1. Inv => TypeOK
  BY DEF Inv
<1> QED
  BY <1>1, SpecInv, PTL

(* The store never holds two records of one provider for one key, for any   *)
(* interleaving of announcements, refreshes, evictions and removals.        *)
THEOREM DedupOnProvider == Spec => []OneEntryPerProvider
<1>1. Inv => OneEntryPerProvider
  BY DEF Inv
<1> QED
  BY <1>1, SpecInv, PTL

(* Establishment is a strict order at all times, so eviction is             *)
(* deterministic.                                                           *)
THEOREM EstablishmentIsStrict == Spec => []SeqsDistinct
<1>1. Inv => SeqsDistinct
  BY DEF Inv
<1> QED
  BY <1>1, SpecInv, PTL

-----------------------------------------------------------------------------
(* The per-key cap.                                                         *)

(* put_at leaves a key that was not over the cap within it; the cap must    *)
(* admit one provider (an absent key is never checked against it).          *)
LEMMA PutKeepsKeyCap ==
  ASSUME MaxProvidersPerKey >= 1,
         NEW S \in SUBSET Entries, NEW seq \in Nat, NEW rec \in Offers, NEW t,
         IsFiniteSet(S),
         \A e, f \in S : (e.key = f.key /\ e.peer = f.peer) => e = f,
         NEW r \in PutResults(S, seq, rec, t, Limits),
         NEW k, Cardinality(OfKey(S, k)) <= MaxProvidersPerKey
  PROVE  Cardinality(OfKey(r.store, k)) <= MaxProvidersPerKey
<1> DEFINE P == OfKey(S, k)
<1>2. /\ MaxProvidersPerKey \in Nat
      /\ IsFiniteSet(P)
      /\ Cardinality(P) \in Nat
      /\ Cardinality(P) <= MaxProvidersPerKey
  <2>1. P \in SUBSET S
    BY DEF OfKey
  <2> QED
    BY <2>1, LimitsAssumption, FS_Subset, FS_CardinalityType
<1>4. CASE r.store = S
  BY <1>2, <1>4
<1>5. ASSUME NEW v \in P, NEW n, OfKey(r.store, k) = (P \ {v}) \cup {n}
      PROVE  Cardinality(OfKey(r.store, k)) <= MaxProvidersPerKey
  <2>1. IsFiniteSet(P \ {v}) /\ Cardinality(P \ {v}) = Cardinality(P) - 1
    BY <1>2, FS_RemoveElement
  <2>2. /\ Cardinality((P \ {v}) \cup {n}) \in Nat
        /\ Cardinality((P \ {v}) \cup {n}) <= Cardinality(P \ {v}) + 1
    BY <2>1, AddOne
  <2> QED
    BY <1>2, <1>5, <2>1, <2>2
<1>6. CASE RefreshOf(S, seq, rec, r)
  <2>1. PICK e \in S : /\ e.key = rec.key
                       /\ r.store = (S \ {e}) \cup {Entry(rec, e.seq)}
    BY <1>6 DEF RefreshOf
  <2>2. Entry(rec, e.seq).key = rec.key
    BY DEF Entry
  <2>3. CASE k = rec.key
    <3>1. OfKey(r.store, k) = (P \ {e}) \cup {Entry(rec, e.seq)} /\ e \in P
      BY <2>1, <2>2, <2>3 DEF OfKey
    <3> QED
      BY <1>5, <3>1
  <2>4. CASE k # rec.key
    <3>1. OfKey(r.store, k) = P
      BY <2>1, <2>2, <2>4 DEF OfKey
    <3> QED
      BY <1>2, <3>1
  <2> QED
    BY <2>3, <2>4
<1>7. CASE AdditionTo(S, seq, rec, r)
  <2>1. Entry(rec, seq).key = rec.key
    BY DEF Entry
  <2>2. CASE k = rec.key
    <3>1. OfKey(r.store, k) = P \cup {Entry(rec, seq)}
      BY <1>7, <2>1, <2>2 DEF OfKey, AdditionTo
    <3>2. P = {} \/ Cardinality(P) < MaxProvidersPerKey
      BY <1>2, <1>7, <2>2 DEF AdditionTo, AtKeyCap, Limits
    <3>3. Cardinality(P) + 1 <= MaxProvidersPerKey
      BY <1>2, <3>2, FS_EmptySet
    <3>4. /\ Cardinality(P \cup {Entry(rec, seq)}) \in Nat
          /\ Cardinality(P \cup {Entry(rec, seq)}) <= Cardinality(P) + 1
      BY <1>2, AddOne
    <3> QED
      BY <1>2, <3>1, <3>3, <3>4
  <2>3. CASE k # rec.key
    <3>1. OfKey(r.store, k) = P
      BY <1>7, <2>1, <2>3 DEF OfKey, AdditionTo
    <3> QED
      BY <1>2, <3>1
  <2> QED
    BY <2>2, <2>3
<1>8. CASE ReplacementIn(S, seq, rec, t, r)
  <2>1. PICK v \in OfKey(S, rec.key) : r.store = (S \ {v}) \cup {Entry(rec, seq)}
    BY <1>8, VictimsAreEntries DEF ReplacementIn
  <2>2. Entry(rec, seq).key = rec.key /\ v.key = rec.key
    BY DEF Entry, OfKey
  <2>3. CASE k = rec.key
    <3>1. OfKey(r.store, k) = (P \ {v}) \cup {Entry(rec, seq)} /\ v \in P
      BY <2>1, <2>2, <2>3 DEF OfKey
    <3> QED
      BY <1>5, <3>1
  <2>4. CASE k # rec.key
    <3>1. OfKey(r.store, k) = P
      BY <2>1, <2>2, <2>4 DEF OfKey
    <3> QED
      BY <1>2, <3>1
  <2> QED
    BY <2>3, <2>4
<1>9. MaxTotalRecords \in Nat
  BY LimitsAssumption
<1> QED
  BY <1>4, <1>6, <1>7, <1>8, <1>9, PutShape

LEMMA NextKeyCap ==
  ASSUME MaxProvidersPerKey >= 1
  PROVE  Inv /\ WithinKeyCap /\ [Next]_vars => WithinKeyCap'
<1> SUFFICES ASSUME Inv, WithinKeyCap, [Next]_vars,
                    NEW k \in Keys
             PROVE  Cardinality(OfKey(entries, k)') <= MaxProvidersPerKey
  BY DEF WithinKeyCap, OfKey
<1>1. ASSUME entries' \subseteq entries
      PROVE  Cardinality(OfKey(entries, k)') <= MaxProvidersPerKey
  <2>1. /\ OfKey(entries, k)' \in SUBSET OfKey(entries, k)
        /\ OfKey(entries, k) \in SUBSET entries
    BY <1>1 DEF OfKey
  <2>2. IsFiniteSet(OfKey(entries, k))
    BY <2>1, FS_Subset DEF Inv, TypeOK
  <2>3. /\ Cardinality(OfKey(entries, k)') <= Cardinality(OfKey(entries, k))
        /\ Cardinality(OfKey(entries, k)') \in Nat
        /\ Cardinality(OfKey(entries, k)) \in Nat
    BY <2>1, <2>2, FS_Subset, FS_CardinalityType
  <2> QED
    BY <2>3, LimitsAssumption DEF WithinKeyCap
<1>2. CASE \E rec \in Offers : PutAt(rec)
  <2>a. PICK rec \in Offers : PutAt(rec)
    BY <1>2
  <2>1. PICK r \in PutResults(entries, nextSeq, rec, now, Limits) : entries' = r.store
    BY <2>a DEF PutAt, Put
  <2>2. /\ entries \in SUBSET Entries /\ nextSeq \in Nat /\ IsFiniteSet(entries)
        /\ \A e, f \in entries : (e.key = f.key /\ e.peer = f.peer) => e = f
        /\ Cardinality(OfKey(entries, k)) <= MaxProvidersPerKey
    BY DEF Inv, TypeOK, OneEntryPerProvider, WithinKeyCap
  <2>3. Cardinality(OfKey(r.store, k)) <= MaxProvidersPerKey
    BY <2>2, PutKeepsKeyCap
  <2>4. OfKey(entries, k)' = OfKey(r.store, k)
    BY <2>1 DEF OfKey
  <2> QED  BY <2>3, <2>4
<1>3. CASE ~\E rec \in Offers : PutAt(rec)
  <2>1. entries' \subseteq entries
    BY <1>3 DEF Next, vars, records, Remove, RemoveKey, Gc, MarkAnnounced, UnmarkAnnounced,
                ReadClock, StoreRemove, StoreRemoveKey, StoreGc
  <2> QED
    BY <1>1, <2>1
<1> QED
  BY <1>2, <1>3

(* Both of put's bounds hold after every call, whatever the clock reads and *)
(* whatever is offered, provided a key may hold at least one provider.      *)
THEOREM BoundsHold ==
  ASSUME MaxProvidersPerKey >= 1
  PROVE  Spec => []WithinCaps
<1>1. Init => WithinKeyCap
  <2> SUFFICES ASSUME Init, NEW k \in Keys
               PROVE  Cardinality(OfKey(entries, k)) <= MaxProvidersPerKey
    BY DEF WithinKeyCap
  <2>1. OfKey(entries, k) = {}
    BY DEF Init, OfKey
  <2> QED
    BY <2>1, FS_EmptySet, LimitsAssumption
<1>2. Inv /\ WithinKeyCap => WithinCaps
  BY DEF Inv, WithinCaps
<1>3. Inv /\ WithinKeyCap /\ [Next]_vars => WithinKeyCap'
  BY NextKeyCap
<1> QED
  BY <1>1, <1>2, <1>3, SpecInv, PTL DEF Spec

-----------------------------------------------------------------------------
(* The established floor.                                                   *)

Rank(P, e) == Cardinality({g \in P : g.seq < e.seq})

(* An entry that no longer has more elders than before stays in the floor.  *)
LEMMA RankBoundsFloor ==
  ASSUME NEW P, NEW Q, NEW e \in EstablishedFloor(P, MaxProvidersPerKey), NEW f \in Q,
         Rank(Q, f) \in Nat, Rank(P, e) \in Nat,
         Rank(Q, f) <= Rank(P, e)
  PROVE  f \in EstablishedFloor(Q, MaxProvidersPerKey)
<1>1. Rank(P, e) < MaxProvidersPerKey \div 2
  BY DEF EstablishedFloor, Rank
<1>2. MaxProvidersPerKey \div 2 \in Int
  BY LimitsAssumption
<1>3. Rank(Q, f) < MaxProvidersPerKey \div 2
  BY <1>1, <1>2
<1> QED
  BY <1>3 DEF EstablishedFloor, Rank

(* Losing other entries of the key, and gaining only younger ones, leaves   *)
(* an established entry established.                                        *)
LEMMA FloorSurvivesYounger ==
  ASSUME Inv, NEW e \in entries, InFloor(entries, e),
         e \in entries',
         \A g \in entries' : g \in entries \/ ~(g.seq < e.seq)
  PROVE  InFloor(entries', e)
<1> DEFINE P == OfKey(entries, e.key)
           Q == OfKey(entries', e.key)
<1>1. P \in SUBSET entries /\ IsFiniteSet(entries)
  BY DEF OfKey, Inv, TypeOK
<1>2. {g \in Q : g.seq < e.seq} \in SUBSET {g \in P : g.seq < e.seq}
  BY DEF OfKey
<1>3. IsFiniteSet({g \in P : g.seq < e.seq})
  <2>1. {g \in P : g.seq < e.seq} \in SUBSET entries
    BY <1>1
  <2> QED
    BY <1>1, <2>1, FS_Subset
<1>4. Rank(Q, e) <= Rank(P, e) /\ Rank(Q, e) \in Nat /\ Rank(P, e) \in Nat
  <2>1. IsFiniteSet({g \in Q : g.seq < e.seq})
    BY <1>2, <1>3, FS_Subset
  <2> QED
    BY <1>2, <1>3, <2>1, FS_Subset, FS_CardinalityType DEF Rank
<1>5. e \in EstablishedFloor(P, MaxProvidersPerKey) /\ e \in Q
  BY DEF InFloor, OfKey
<1>6. e \in EstablishedFloor(Q, MaxProvidersPerKey)
  BY <1>4, <1>5, RankBoundsFloor
<1> QED
  BY <1>6 DEF InFloor

(* A victim of a full key is never a live entry of its floor. *)
LEMMA VictimsSpareFloor ==
  ASSUME NEW P, NEW cap, NEW t, NEW e \in EstablishedFloor(P, cap), ~IsExpired(e, t)
  PROVE  e \notin EvictionVictims(P, cap, t)
BY DEF EvictionVictims, Soonest

(* A refresh of any provider of the key keeps every entry's establishment.  *)
LEMMA FloorSurvivesRefresh ==
  ASSUME Inv, NEW e \in entries, InFloor(entries, e),
         NEW x \in entries, NEW n,
         n.key = x.key, n.peer = x.peer, n.seq = x.seq,
         entries' = (entries \ {x}) \cup {n}
  PROVE  \E f \in entries' : /\ f.key = e.key /\ f.peer = e.peer /\ f.seq = e.seq
                             /\ InFloor(entries', f)
<1> DEFINE P == OfKey(entries, e.key)
           Q == OfKey(entries', e.key)
           Elder(T) == {g \in T : g.seq < e.seq}
<1>1. PICK f \in entries' : f.key = e.key /\ f.peer = e.peer /\ f.seq = e.seq
  OBVIOUS
<1>2. IsFiniteSet(Elder(P)) /\ Cardinality(Elder(P)) \in Nat
  <2>1. Elder(P) \in SUBSET entries
    BY DEF OfKey
  <2> QED
    BY <2>1, FS_Subset, FS_CardinalityType DEF Inv, TypeOK
<1>3. Cardinality(Elder(Q)) <= Cardinality(Elder(P)) /\ Cardinality(Elder(Q)) \in Nat
  <2>1. CASE n \in Elder(Q)
    <3>1. x \in Elder(P)
      BY <2>1 DEF OfKey
    <3>2. Elder(Q) = (Elder(P) \ {x}) \cup {n}
      BY <2>1 DEF OfKey
    <3>3. /\ IsFiniteSet(Elder(P) \ {x})
          /\ Cardinality(Elder(P) \ {x}) = Cardinality(Elder(P)) - 1
      BY <1>2, <3>1, FS_RemoveElement
    <3>4. /\ Cardinality((Elder(P) \ {x}) \cup {n}) \in Nat
          /\ Cardinality((Elder(P) \ {x}) \cup {n}) <= Cardinality(Elder(P) \ {x}) + 1
      BY <3>3, AddOne
    <3> HIDE DEF P, Q, Elder
    <3> QED
      BY <1>2, <3>2, <3>3, <3>4
  <2>2. CASE n \notin Elder(Q)
    <3>1. Elder(Q) \in SUBSET Elder(P)
      BY <2>2 DEF OfKey
    <3>2. IsFiniteSet(Elder(Q)) /\ Cardinality(Elder(Q)) <= Cardinality(Elder(P))
      BY <1>2, <3>1, FS_Subset
    <3> QED
      BY <3>2, FS_CardinalityType
  <2> QED
    BY <2>1, <2>2
<1>4. Rank(P, e) = Cardinality(Elder(P)) /\ Rank(Q, f) = Cardinality(Elder(Q))
  BY <1>1 DEF Rank
<1>5. e \in EstablishedFloor(P, MaxProvidersPerKey) /\ f \in Q
  BY <1>1 DEF InFloor, OfKey
<1> HIDE DEF P, Q, Elder
<1>6. f \in EstablishedFloor(Q, MaxProvidersPerKey)
  BY <1>2, <1>3, <1>4, <1>5, RankBoundsFloor
<1> QED
  BY <1>1, <1>6 DEF InFloor, Q

(* One step of the store: an established live holder keeps its place unless *)
(* the step removes it by name.                                             *)
LEMMA StepKeepsFloor ==
  ASSUME Inv, [Next]_vars,
         NEW e \in entries, InFloor(entries, e), ~IsExpired(e, now)
  PROVE  \/ \E f \in entries' : /\ f.key = e.key /\ f.peer = e.peer /\ f.seq = e.seq
                                /\ InFloor(entries', f)
         \/ Remove(e.key, e.peer)
         \/ RemoveKey(e.key)
<1> DEFINE Goal == \E f \in entries' : /\ f.key = e.key /\ f.peer = e.peer
                                       /\ f.seq = e.seq
                                       /\ InFloor(entries', f)
<1>1. ASSUME entries' \subseteq entries, e \in entries' PROVE Goal
  BY <1>1, FloorSurvivesYounger
<1>2. ASSUME NEW rec \in Offers, PutAt(rec) PROVE Goal
  <2>1. PICK r \in PutResults(entries, nextSeq, rec, now, Limits) : entries' = r.store
    BY <1>2 DEF PutAt, Put
  <2>2. /\ nextSeq \in Nat /\ entries \in SUBSET Entries
        /\ IsFiniteSet(entries)
        /\ \A a, b \in entries : (a.key = b.key /\ a.peer = b.peer) => a = b
        /\ MaxTotalRecords \in Nat
        /\ e.seq \in Nat /\ e.seq < nextSeq
    BY LimitsAssumption DEF Inv, TypeOK, OneEntryPerProvider, SeqsDistinct, Entries
  <2>3. CASE r.store = entries
    BY <1>1, <2>1, <2>3
  <2>4. CASE RefreshOf(entries, nextSeq, rec, r)
    <3>1. PICK x \in entries : /\ x.key = rec.key /\ x.peer = rec.peer
                               /\ r.store = (entries \ {x}) \cup {Entry(rec, x.seq)}
      BY <2>4 DEF RefreshOf
    <3>2. /\ Entry(rec, x.seq).key = x.key
          /\ Entry(rec, x.seq).peer = x.peer
          /\ Entry(rec, x.seq).seq = x.seq
      BY <3>1 DEF Entry
    <3> QED
      BY <2>1, <3>1, <3>2, FloorSurvivesRefresh
  <2>5. ASSUME NEW D \in SUBSET entries, e \in D,
               r.store = D \cup {Entry(rec, nextSeq)}
        PROVE  Goal
    <3>1. Entry(rec, nextSeq).seq = nextSeq
      BY DEF Entry
    <3>2. \A g \in entries' : g \in entries \/ ~(g.seq < e.seq)
      BY <2>1, <2>2, <2>5, <3>1
    <3>3. e \in entries'
      BY <2>1, <2>5
    <3> QED
      BY <3>2, <3>3, FloorSurvivesYounger
  <2>6. CASE AdditionTo(entries, nextSeq, rec, r)
    BY <2>5, <2>6 DEF AdditionTo
  <2>7. CASE ReplacementIn(entries, nextSeq, rec, now, r)
    <3>1. PICK v \in EvictionVictims(OfKey(entries, rec.key), MaxProvidersPerKey, now) :
            r.store = (entries \ {v}) \cup {Entry(rec, nextSeq)}
      BY <2>7 DEF ReplacementIn
    <3>2. v \in OfKey(entries, rec.key)
      BY VictimsAreEntries
    <3>3. v # e
      <4>1. CASE e.key = rec.key
        BY <4>1, VictimsSpareFloor DEF InFloor
      <4>2. CASE e.key # rec.key
        BY <3>2, <4>2 DEF OfKey
      <4> QED
        BY <4>1, <4>2
    <3>4. entries \ {v} \in SUBSET entries /\ e \in entries \ {v}
      BY <3>3
    <3> QED
      BY <2>5, <3>1, <3>4
  <2> QED
    BY <2>2, <2>3, <2>4, <2>6, <2>7, PutShape
<1>3. ASSUME NEW k \in Keys, NEW p \in Peers, Remove(k, p)
      PROVE  Goal \/ Remove(e.key, e.peer)
  <2>1. CASE k = e.key /\ p = e.peer
    BY <1>3, <2>1
  <2>2. CASE ~(k = e.key /\ p = e.peer)
    BY <1>1, <1>3, <2>2 DEF Remove, StoreRemove
  <2> QED
    BY <2>1, <2>2
<1>4. ASSUME NEW k \in Keys, RemoveKey(k) PROVE Goal \/ RemoveKey(e.key)
  <2>1. CASE k = e.key
    BY <1>4, <2>1
  <2>2. CASE k # e.key
    BY <1>1, <1>4, <2>2 DEF RemoveKey, StoreRemoveKey
  <2> QED
    BY <2>1, <2>2
<1>5. CASE Gc
  BY <1>1, <1>5 DEF Gc, StoreGc
<1>6. CASE UNCHANGED entries
  BY <1>1, <1>6
<1>7. \/ \E rec \in Offers : PutAt(rec)
      \/ \E k \in Keys, p \in Peers : Remove(k, p)
      \/ \E k \in Keys : RemoveKey(k)
      \/ Gc
      \/ UNCHANGED entries
  BY DEF Next, vars, MarkAnnounced, UnmarkAnnounced, ReadClock, records
<1>8. CASE \E rec \in Offers : PutAt(rec)
  BY <1>2, <1>8
<1>9. CASE \E k \in Keys, p \in Peers : Remove(k, p)
  BY <1>3, <1>9
<1>10. CASE \E k \in Keys : RemoveKey(k)
  BY <1>4, <1>10
<1> QED
  BY <1>5, <1>6, <1>7, <1>8, <1>9, <1>10

(* No sequence of announcements, refreshes, expiries, removals of others or *)
(* clock readings takes an established live holder's slot or its            *)
(* establishment, for any number of identities (#1434).                     *)
THEOREM EstablishmentProtected == Spec => EstablishedHolderStays
<1>1. Inv /\ [Next]_vars =>
        [\A e \in entries :
           (InFloor(entries, e) /\ ~IsExpired(e, now))
             => \/ \E f \in entries' : /\ f.key = e.key /\ f.peer = e.peer
                                       /\ f.seq = e.seq
                                       /\ InFloor(entries', f)
                \/ Remove(e.key, e.peer)
                \/ RemoveKey(e.key)]_vars
  BY StepKeepsFloor
<1> QED
  BY <1>1, SpecInv, PTL DEF Spec, EstablishedHolderStays

-----------------------------------------------------------------------------
(* put always has one result.                                               *)

LEMMA LeastNumber ==
  ASSUME NEW I \in SUBSET Nat, I # {}
  PROVE  \E i \in I : \A j \in I : i <= j
<1>1. PICK i \in I : \A j \in I : ~(<<j, i>> \in OpToRel(<, Nat))
  BY NatLessThanWellFounded, WFMin
<1>2. ASSUME NEW j \in I PROVE i <= j
  <2>1. ~(j < i)
    BY <1>1 DEF OpToRel
  <2> QED  BY <2>1
<1> QED  BY <1>2

(* Entries with distinct numbers have one that expires soonest.             *)
LEMMA OneSoonest ==
  ASSUME NEW P \in SUBSET Entries, P # {},
         \A e, f \in P : e.seq = f.seq => e = f
  PROVE  \E v \in P : Soonest(P) = {v}
<1>0. \A e \in P : e.exp \in Nat /\ e.seq \in Nat
  BY DEF Entries
<1>1. PICK m \in {e.exp : e \in P} : \A n \in {e.exp : e \in P} : m <= n
  <2>1. {e.exp : e \in P} \in SUBSET Nat /\ {e.exp : e \in P} # {}
    BY <1>0
  <2> QED  BY <2>1, LeastNumber
<1> DEFINE Q == {e \in P : e.exp = m}
<1>2. PICK n \in {e.seq : e \in Q} : \A l \in {e.seq : e \in Q} : n <= l
  <2>1. {e.seq : e \in Q} \in SUBSET Nat /\ {e.seq : e \in Q} # {}
    BY <1>0, <1>1
  <2> QED  BY <2>1, LeastNumber
<1>3. PICK v \in P : v.exp = m /\ v.seq = n
  BY <1>2
<1>4. \A f \in P : m <= f.exp /\ (f.exp = m => n <= f.seq)
  BY <1>1, <1>2
<1>5. ASSUME NEW f \in P PROVE SoonerToExpire(v, f)
  BY <1>0, <1>3, <1>4 DEF SoonerToExpire
<1>6. ASSUME NEW e \in P, SoonerToExpire(e, v) PROVE e = v
  <2>1. e.exp = m /\ e.seq <= n
    BY <1>0, <1>3, <1>4, <1>6 DEF SoonerToExpire
  <2>2. e.seq = n
    BY <1>0, <1>3, <1>4, <2>1
  <2> QED  BY <1>3, <2>2
<1>7. Soonest(P) = {v}
  BY <1>5, <1>6 DEF Soonest
<1> QED  BY <1>7

(* A full key has an entry outside its floor: the newest, which every other *)
(* entry of the key precedes.                                               *)
LEMMA FloorIsNotAll ==
  ASSUME NEW P \in SUBSET Entries, IsFiniteSet(P), P # {}, NEW cap \in Nat,
         Cardinality(P) >= cap, NEW limit \in Nat,
         \A e \in P : e.seq < limit,
         \A e, f \in P : e.seq = f.seq => e = f
  PROVE  P \ EstablishedFloor(P, cap) # {}
<1>0. \A e \in P : e.seq \in Nat
  BY DEF Entries
<1>1. PICK d \in {limit - e.seq : e \in P} : \A c \in {limit - e.seq : e \in P} : d <= c
  <2>1. {limit - e.seq : e \in P} \in SUBSET Nat /\ {limit - e.seq : e \in P} # {}
    BY <1>0
  <2> QED  BY <2>1, LeastNumber
<1>2. PICK v \in P : limit - v.seq = d
  BY <1>1
<1>3. ASSUME NEW f \in P, f # v PROVE f.seq < v.seq
  <2>1. limit - v.seq <= limit - f.seq
    BY <1>1, <1>2
  <2>2. f.seq # v.seq
    BY <1>3
  <2> QED  BY <1>0, <2>1, <2>2
<1>4. {f \in P : f.seq < v.seq} = P \ {v}
  BY <1>0, <1>3
<1>5. Cardinality(P \ {v}) = Cardinality(P) - 1 /\ Cardinality(P) \in Nat
      /\ Cardinality(P) # 0
  BY FS_RemoveElement, FS_CardinalityType, FS_EmptySet
<1>6. ~(Cardinality(P \ {v}) < cap \div 2)
  <2>1. cap \div 2 \in Nat /\ 2 * (cap \div 2) <= cap
    OBVIOUS
  <2> QED  BY <1>5, <2>1
<1>7. v \notin EstablishedFloor(P, cap)
  BY <1>4, <1>6 DEF EstablishedFloor
<1> QED  BY <1>7

(* The victim of a key at its cap is one.                                   *)
LEMMA OneVictim ==
  ASSUME NEW P \in SUBSET Entries, IsFiniteSet(P), P # {}, NEW cap \in Nat, NEW t,
         Cardinality(P) >= cap, NEW limit \in Nat,
         \A e \in P : e.seq < limit,
         \A e, f \in P : e.seq = f.seq => e = f
  PROVE  \E v \in P : EvictionVictims(P, cap, t) = {v}
<1> DEFINE dead == {e \in P : IsExpired(e, t)}
           pool == IF dead # {} THEN dead ELSE P \ EstablishedFloor(P, cap)
<1>1. pool \in SUBSET Entries /\ pool # {} /\ pool \subseteq P
  BY FloorIsNotAll
<1>2. EvictionVictims(P, cap, t) = Soonest(pool)
  BY DEF EvictionVictims
<1> HIDE DEF pool
<1>3. PICK v \in pool : Soonest(pool) = {v}
  BY <1>1, OneSoonest
<1> QED  BY <1>1, <1>2, <1>3

(* An entry made of an offer gives the offer back.                          *)
LEMMA RecordBack ==
  ASSUME NEW rec \in Offers, NEW n
  PROVE  RecordOf(Entry(rec, n)) = rec
BY DEF Offers, RecordOf, Entry, Record

(* The promise for one offer.                                               *)
LEMMA OneResult ==
  ASSUME Inv, NEW rec \in Offers
  PROVE  /\ Cardinality(Put(rec)) = 1
         /\ \A r \in Put(rec) :
              /\ r.outcome = RejectedOverCapacity <=>
                   /\ Held(entries, rec) = {}
                   /\ Cardinality(entries) >= MaxTotalRecords
              /\ r.outcome = Accepted =>
                   {RecordOf(e) : e \in Held(r.store, rec)} = {rec}
<1> DEFINE full == Cardinality(entries) >= MaxTotalRecords
<1>0. Accepted # RejectedOverCapacity
  BY DEF Accepted, RejectedOverCapacity
<1>1. SUFFICES \E r : /\ Put(rec) = {r}
                      /\ r.outcome \in {Accepted, RejectedOverCapacity}
                      /\ r.outcome = RejectedOverCapacity <=>
                           (Held(entries, rec) = {} /\ full)
                      /\ r.outcome = Accepted =>
                           {RecordOf(e) : e \in Held(r.store, rec)} = {rec}
  BY FS_Singleton
<1>2. /\ entries \in SUBSET Entries /\ IsFiniteSet(entries) /\ nextSeq \in Nat
      /\ \A e, f \in entries : (e.key = f.key /\ e.peer = f.peer) => e = f
      /\ \A e \in entries : e.seq < nextSeq
      /\ \A e, f \in entries : e.seq = f.seq => e = f
  BY DEF Inv, TypeOK, OneEntryPerProvider, SeqsDistinct
(* A store that holds the new entry for the pair and no other. *)
<1>3. ASSUME NEW S, NEW n, \A e \in S : ~(e.key = rec.key /\ e.peer = rec.peer)
      PROVE  {RecordOf(e) : e \in Held(S \cup {Entry(rec, n)}, rec)} = {rec}
  <2>1. Entry(rec, n).key = rec.key /\ Entry(rec, n).peer = rec.peer
    BY DEF Entry
  <2>2. Held(S \cup {Entry(rec, n)}, rec) = {Entry(rec, n)}
    BY <1>3, <2>1 DEF Held
  <2> QED  BY <2>2, RecordBack
<1>4. CASE Held(entries, rec) # {}
  <2>1. PICK e \in entries : e.key = rec.key /\ e.peer = rec.peer
    BY <1>4 DEF Held
  <2>2. Held(entries, rec) = {e}
    BY <1>2, <2>1 DEF Held
  <2> DEFINE s == (entries \ {e}) \cup {Entry(rec, e.seq)}
             r == Result(s, nextSeq, Accepted)
  <2>3. {Entry(rec, f.seq) : f \in Held(entries, rec)} = {Entry(rec, e.seq)}
    BY <2>2
  <2>4. Put(rec) = {r}
    BY <1>4, <2>2, <2>3 DEF Put, PutResults, Refreshed
  <2>5. {RecordOf(f) : f \in Held(s, rec)} = {rec}
    BY <1>2, <1>3, <2>1
  <2>6. r.store = s /\ r.outcome = Accepted
    BY DEF Result
  <2> QED  BY <1>0, <1>4, <2>4, <2>5, <2>6
<1>5. CASE Held(entries, rec) = {} /\ full
  <2> DEFINE r == Result(entries, nextSeq, RejectedOverCapacity)
  <2>1. Put(rec) = {r}
    BY <1>5 DEF Put, PutResults, Limits
  <2>2. r.outcome = RejectedOverCapacity
    BY DEF Result
  <2> QED  BY <1>0, <1>5, <2>1, <2>2
<1>6. CASE Held(entries, rec) = {} /\ ~full
  <2> DEFINE same == OfKey(entries, rec.key)
  <2>0. Put(rec) = Admissions(entries, nextSeq, rec, now, Limits)
    BY <1>6 DEF Put, PutResults, Limits
  <2>1. ASSUME NEW S \in SUBSET entries,
               Put(rec) = {Result(S \cup {Entry(rec, nextSeq)}, nextSeq + 1, Accepted)}
        PROVE  \E r : /\ Put(rec) = {r}
                      /\ r.outcome \in {Accepted, RejectedOverCapacity}
                      /\ r.outcome = RejectedOverCapacity <=>
                           (Held(entries, rec) = {} /\ full)
                      /\ r.outcome = Accepted =>
                           {RecordOf(e) : e \in Held(r.store, rec)} = {rec}
    <3> DEFINE s == S \cup {Entry(rec, nextSeq)}
               r == Result(s, nextSeq + 1, Accepted)
    <3>1. \A e \in S : ~(e.key = rec.key /\ e.peer = rec.peer)
      BY <1>6 DEF Held
    <3>2. {RecordOf(e) : e \in Held(s, rec)} = {rec}
      BY <1>3, <3>1
    <3>3. r.store = s /\ r.outcome = Accepted
      BY DEF Result
    <3> QED  BY <1>0, <1>6, <2>1, <3>2, <3>3
  <2>2. CASE ~AtKeyCap(entries, rec.key, Limits)
    <3>1. Put(rec) = {Result(entries \cup {Entry(rec, nextSeq)}, nextSeq + 1, Accepted)}
      BY <2>0, <2>2 DEF Admissions
    <3> QED  BY <2>1, <3>1
  <2>3. CASE AtKeyCap(entries, rec.key, Limits)
    <3>1. /\ same \in SUBSET Entries /\ IsFiniteSet(same) /\ same # {}
          /\ Cardinality(same) >= MaxProvidersPerKey /\ MaxProvidersPerKey \in Nat
          /\ same \subseteq entries
      <4>1. same \in SUBSET entries
        BY DEF OfKey
      <4> QED  BY <1>2, <2>3, <4>1, FS_Subset, LimitsAssumption DEF AtKeyCap, Limits
    <3>2. PICK v \in same : EvictionVictims(same, MaxProvidersPerKey, now) = {v}
      <4> HIDE DEF same
      <4> QED  BY <1>2, <3>1, OneVictim
    <3>3. Put(rec) = {Result((entries \ {v}) \cup {Entry(rec, nextSeq)}, nextSeq + 1, Accepted)}
      <4>1. Limits.perKey = MaxProvidersPerKey
        BY DEF Limits
      <4> QED  BY <2>0, <2>3, <3>2, <4>1 DEF Admissions
    <3>4. entries \ {v} \in SUBSET entries
      OBVIOUS
    <3> QED  BY <2>1, <3>3, <3>4
  <2> QED  BY <2>2, <2>3
<1> QED  BY <1>4, <1>5, <1>6

(* A newcomer can always be admitted below the global ceiling, and what put *)
(* does with an offer is never left to the map's order: it has one result.  *)
THEOREM OffersHaveOneOutcome == Spec => []NewcomersAdmitted
<1>1. Inv => NewcomersAdmitted
  BY OneResult DEF NewcomersAdmitted
<1> QED  BY <1>1, SpecInv, PTL

-----------------------------------------------------------------------------
(* The snapshot.                                                            *)
Alive(S, k, t) == {e \in OfKey(S, k) : ~IsExpired(e, t)}

(* The records get returns are as many as the live entries: no two entries  *)
(* of a key name one provider.                                              *)
LEMMA ServedCount ==
  ASSUME Inv, NEW k
  PROVE  /\ Cardinality(StoreGet(entries, k, now)) = Cardinality(Alive(entries, k, now))
         /\ Cardinality(Alive(entries, k, now)) \in Nat
         /\ Cardinality(Alive(entries, k, now)) > 0 <=> Alive(entries, k, now) # {}
<1> DEFINE A == Alive(entries, k, now)
           G == StoreGet(entries, k, now)
           f == [e \in A |-> RecordOf(e)]
<1>1. G = {RecordOf(e) : e \in A}
  BY DEF StoreGet, Alive
<1>2. IsFiniteSet(A) /\ Cardinality(A) \in Nat
  <2>1. A \in SUBSET entries
    BY DEF Alive, OfKey
  <2> QED  BY <2>1, FS_Subset, FS_CardinalityType DEF Inv, TypeOK
<1>3. ASSUME NEW d \in A, NEW e \in A, RecordOf(d) = RecordOf(e) PROVE d = e
  <2>1. d.key = e.key /\ d.peer = e.peer
    BY <1>3 DEF RecordOf, Record
  <2> QED  BY <2>1 DEF Alive, OfKey, Inv, OneEntryPerProvider
<1> HIDE DEF A, G
<1>4. f \in Bijection(A, G)
  BY <1>1, <1>3 DEF Bijection, Injection, Surjection, IsInjective
<1>5. Cardinality(G) = Cardinality(A)
  BY <1>2, <1>4, FS_Bijection DEF ExistsBijection
<1>6. Cardinality(A) > 0 <=> A # {}
  BY <1>2, FS_EmptySet
<1> QED  BY <1>2, <1>5, <1>6 DEF A, G

(* What is left of D when it is cut after the first max in the given order. *)
FirstOf(D, order, max) == {k \in D : Cardinality({j \in D : order[j] < order[k]}) < max}

(* Cutting a ranked finite set after max elements leaves no more than max,  *)
(* and all of them exactly when there were no more.                         *)
LEMMA CutToMax ==
  ASSUME NEW D, IsFiniteSet(D), NEW order \in [Keys -> Nat], D \subseteq Keys,
         \A j, k \in Keys : order[j] = order[k] => j = k, NEW max \in Nat
  PROVE  /\ Cardinality(FirstOf(D, order, max)) <= max
         /\ Cardinality(D) > max <=> FirstOf(D, order, max) # D
<1> DEFINE Lower(k) == {j \in D : order[j] < order[k]}
           rank == [k \in D |-> Cardinality(Lower(k))]
           shown == {k \in D : rank[k] < max}
<1>1. ASSUME NEW k \in D
      PROVE  /\ IsFiniteSet(Lower(k)) /\ rank[k] = Cardinality(Lower(k)) /\ rank[k] \in Nat
             /\ k \notin Lower(k) /\ Lower(k) \subseteq D
  <2>1. Lower(k) \in SUBSET D
    OBVIOUS
  <2>2. k \notin Lower(k)
    OBVIOUS
  <2>3. rank[k] = Cardinality(Lower(k))
    OBVIOUS
  <2> HIDE DEF Lower, rank
  <2>4. IsFiniteSet(Lower(k)) /\ Cardinality(Lower(k)) \in Nat
    BY <2>1, FS_Subset, FS_CardinalityType
  <2> QED  BY <2>1, <2>2, <2>3, <2>4
<1>2. ASSUME NEW j \in D, NEW k \in D, order[j] < order[k] PROVE rank[j] < rank[k]
  <2>1. Lower(j) \in SUBSET Lower(k) /\ j \in Lower(k)
    BY <1>2
  <2> HIDE DEF Lower, rank
  <2>2. Cardinality(Lower(j)) <= Cardinality(Lower(k)) /\ Lower(j) # Lower(k)
        /\ (Cardinality(Lower(j)) = Cardinality(Lower(k)) => Lower(j) = Lower(k))
    BY <1>1, <2>1, FS_Subset
  <2> QED  BY <1>1, <2>2
<1>3. shown \in SUBSET D /\ IsFiniteSet(shown)
      /\ Cardinality(shown) \in Nat /\ Cardinality(D) \in Nat
  <2>1. shown \in SUBSET D
    OBVIOUS
  <2> HIDE DEF shown
  <2> QED  BY <2>1, FS_Subset, FS_CardinalityType
<1> HIDE DEF Lower, rank
<1>4. Cardinality(shown) <= max
  <2> DEFINE f == [k \in shown |-> rank[k]]
             T == 0 .. max - 1
  <2>1. \A k \in shown : k \in D /\ rank[k] \in T
    BY <1>1
  <2>2. IsFiniteSet(T) /\ Cardinality(T) = max
    BY FS_Interval
  <2>3. ASSUME NEW j \in shown, NEW k \in shown, rank[j] = rank[k] PROVE j = k
    <3>1. ~(order[j] < order[k]) /\ ~(order[k] < order[j])
      BY <1>1, <1>2, <2>3
    <3>2. j \in Keys /\ k \in Keys
      OBVIOUS
    <3>3. order[j] = order[k]
      <4>1. order[j] \in Nat /\ order[k] \in Nat
        BY <3>2
      <4> QED  BY <3>1, <4>1
    <3> QED  BY <3>2, <3>3
  <2> HIDE DEF shown, T
  <2>4. f \in Injection(shown, T)
    BY <2>1, <2>3 DEF Injection, IsInjective
  <2> QED  BY <2>2, <2>4, FS_Injection
<1>5. ASSUME Cardinality(D) <= max, NEW k \in D PROVE k \in shown
  <2>1. Lower(k) \in SUBSET D /\ Lower(k) # D
    BY <1>1
  <2>2. Cardinality(Lower(k)) <= Cardinality(D)
        /\ (Cardinality(Lower(k)) = Cardinality(D) => Lower(k) = D)
    BY <2>1, FS_Subset
  <2>3. rank[k] < max
    BY <1>1, <1>3, <1>5, <2>1, <2>2
  <2> QED  BY <2>3
<1>6. Cardinality(D) > max <=> shown # D
  <2>1. ASSUME Cardinality(D) > max PROVE shown # D
    <3> HIDE DEF shown
    <3> QED  BY <1>3, <1>4, <2>1
  <2>2. ASSUME ~(Cardinality(D) > max) PROVE shown = D
    BY <1>3, <1>5, <2>2
  <2> QED  BY <2>1, <2>2
<1>7. shown = FirstOf(D, order, max)
  BY DEF rank, Lower, FirstOf
<1> QED  BY <1>4, <1>6, <1>7

(* The keys a snapshot publishes, with their counts, agree with what get    *)
(* returns for them; nothing beyond the cut is published, and the cut is    *)
(* declared exactly when it leaves something out (ProviderStore::snapshot). *)
LEMMA SnapshotAgrees ==
  ASSUME IsFiniteSet(Keys), Inv,
         NEW max \in Nat, NEW order \in [Keys -> Nat],
         \A j, k \in Keys : order[j] = order[k] => j = k
  PROVE  LET s == Snapshot(entries, now, max, order)
             served(k) == Cardinality(StoreGet(entries, k, now))
             live == {k \in Keys : served(k) > 0}
         IN  /\ DOMAIN s.entries \subseteq live
             /\ \A k \in DOMAIN s.entries : s.entries[k] = served(k)
             /\ Cardinality(DOMAIN s.entries) <= max
             /\ s.truncated <=> DOMAIN s.entries # live
             /\ s.total_keys = Cardinality(live)
<1> DEFINE s == Snapshot(entries, now, max, order)
           served(k) == Cardinality(StoreGet(entries, k, now))
           live == {k \in Keys : served(k) > 0}
           shown == FirstOf(live, order, max)
<1>2. DOMAIN order = Keys
  OBVIOUS
<1>3. live = {k \in DOMAIN order : Alive(entries, k, now) # {}}
  BY <1>2, ServedCount
<1>4. \A k : served(k) = Cardinality(Alive(entries, k, now))
  BY ServedCount
<1>5. live \subseteq Keys /\ IsFiniteSet(live)
  <2>1. live \in SUBSET Keys
    OBVIOUS
  <2> HIDE DEF live
  <2> QED  BY <2>1, FS_Subset
<1>6. s = [entries |-> [k \in shown |-> Cardinality(Alive(entries, k, now))],
           total_keys |-> Cardinality(live),
           truncated |-> Cardinality(live) > max]
  <2> HIDE DEF live
  <2> QED  BY <1>3 DEF Snapshot, Alive, FirstOf
<1> HIDE DEF live, s, served
<1>7. Cardinality(shown) <= max /\ (Cardinality(live) > max <=> shown # live)
  BY <1>5, CutToMax
<1>8. /\ DOMAIN s.entries = shown
      /\ \A k \in shown : s.entries[k] = Cardinality(Alive(entries, k, now))
      /\ s.total_keys = Cardinality(live)
      /\ s.truncated = (Cardinality(live) > max)
  <2> HIDE DEF shown
  <2> QED  BY <1>6
<1>9. shown \subseteq live
  BY DEF FirstOf
<1> HIDE DEF shown
<1>10. /\ DOMAIN s.entries \subseteq live
       /\ \A k \in DOMAIN s.entries : s.entries[k] = served(k)
       /\ Cardinality(DOMAIN s.entries) <= max
       /\ s.truncated <=> DOMAIN s.entries # live
       /\ s.total_keys = Cardinality(live)
  BY <1>4, <1>7, <1>8, <1>9
<1> QED  BY <1>10 DEF s, served, live

(* A snapshot never publishes more, less or other than get would return.    *)
THEOREM SnapshotsAreTrue ==
  ASSUME IsFiniteSet(Keys)
  PROVE  Spec => []SnapshotAgreesWithGet
<1>1. ASSUME Inv PROVE SnapshotAgreesWithGet
  <2>1. Cardinality(Keys) \in Nat
    BY FS_CardinalityType
  <2>2. 0 .. Cardinality(Keys) \subseteq Nat
        /\ [Keys -> 1 .. Cardinality(Keys)] \subseteq [Keys -> Nat]
    BY <2>1
  <2> QED  BY <1>1, <2>2, SnapshotAgrees DEF SnapshotAgreesWithGet
<1> QED  BY <1>1, SpecInv, PTL

-----------------------------------------------------------------------------
(* ProviderStore implements HoldersMap.                                     *)

Unique(S) == \A e, f \in S : (e.key = f.key /\ e.peer = f.peer) => e = f

(* Priming goes through the refinement mapping. *)
LEMMA MappingPrimed ==
  /\ Claims(entries)' = Claims(entries')
  /\ Tenured(entries)' = Tenured(entries')
BY DEF Claims, Tenured, InFloor

(* The instance's Cardinality is the usual one. *)
LEMMA CardinalityOfView == \A S : View!Cardinality(S) = Cardinality(S)
BY Zenon DEF View!Cardinality, Cardinality

(* The record of an entry names its key, provider, expiry and pointer. *)
LEMMA RecordFields ==
  ASSUME NEW e
  PROVE  /\ RecordOf(e).key = e.key /\ RecordOf(e).peer = e.peer
         /\ RecordOf(e).exp = e.exp /\ RecordOf(e).coin = e.coin
BY DEF RecordOf, Record

(* The claims of one key are the records of its entries. *)
LEMMA ClaimsOfKey ==
  ASSUME NEW S, NEW k
  PROVE  {c \in Claims(S) : c.key = k} = Claims(OfKey(S, k))
BY RecordFields DEF Claims, OfKey

(* Taking entries away takes exactly their claims away. *)
LEMMA ClaimsWithout ==
  ASSUME NEW S, NEW G \in SUBSET S, Unique(S)
  PROVE  Claims(S \ G) = Claims(S) \ Claims(G)
<1>1. ASSUME NEW e \in S, NEW f \in S, RecordOf(e) = RecordOf(f) PROVE e = f
  BY <1>1, RecordFields DEF Unique
<1> QED BY <1>1 DEF Claims

LEMMA ClaimsWith ==
  ASSUME NEW S, NEW e
  PROVE  Claims(S \cup {e}) = Claims(S) \cup {RecordOf(e)}
BY DEF Claims

(* A map with one entry per provider has as many claims as entries. *)
LEMMA SameCount ==
  ASSUME NEW S, IsFiniteSet(S), Unique(S)
  PROVE  /\ IsFiniteSet(Claims(S))
         /\ Cardinality(Claims(S)) = Cardinality(S)
<1> DEFINE f == [e \in S |-> RecordOf(e)]
<1>1. f \in [S -> Claims(S)]
  BY DEF Claims
<1>2. \A c \in Claims(S) : \E e \in S : f[e] = c
  BY DEF Claims
<1>3. \A d, e \in S : f[d] = f[e] => d = e
  BY RecordFields DEF Unique
<1>4. f \in Bijection(S, Claims(S))
  BY <1>1, <1>2, <1>3 DEF Bijection, Injection, Surjection, IsInjective
<1>5. ExistsBijection(S, Claims(S))
  BY <1>4 DEF ExistsBijection
<1> QED BY <1>5, FS_Bijection

(* Tenure is kept by every step in which the established entries of         *)
(* holders that remain are established afterwards.                          *)
LEMMA TenureStep ==
  ASSUME Inv, NEW due,
         \A e \in entries, f \in entries' :
           (InFloor(entries, e) /\ f.key = e.key /\ f.peer = e.peer)
             => InFloor(entries', f),
         \A f \in entries' :
           [key |-> f.key, peer |-> f.peer] \in due => InFloor(entries', f)
  PROVE  View!TenureKept(due)
<1>1. View!Pairs(Claims(entries')) = {[key |-> f.key, peer |-> f.peer] : f \in entries'}
  BY RecordFields DEF View!Pairs, View!PairOf, Claims
<1>2. Tenured(entries') \subseteq View!Pairs(Claims(entries'))
  BY <1>1 DEF Tenured
<1>3. ASSUME NEW x \in Tenured(entries) \cup due, x \in View!Pairs(Claims(entries'))
      PROVE  x \in Tenured(entries')
  <2>1. PICK f \in entries' : x = [key |-> f.key, peer |-> f.peer]
    BY <1>1, <1>3
  <2>2. CASE x \in due
    BY <2>1, <2>2 DEF Tenured
  <2>3. CASE x \in Tenured(entries)
    <3>1. PICK e \in entries : /\ InFloor(entries, e)
                               /\ x = [key |-> e.key, peer |-> e.peer]
      BY <2>3 DEF Tenured
    <3>2. f.key = e.key /\ f.peer = e.peer
      BY <2>1, <3>1
    <3>3. InFloor(entries', f)
      BY <3>1, <3>2
    <3> QED BY <2>1, <3>3 DEF Tenured
  <2> QED BY <1>3, <2>2, <2>3
<1>4. (Tenured(entries) \cup due) \cap View!Pairs(Claims(entries')) \subseteq Tenured(entries')
  BY <1>3
<1>5. View!Pairs(Claims(entries))' = View!Pairs(Claims(entries'))
  BY MappingPrimed DEF View!Pairs, View!PairOf, Claims
<1> QED BY <1>2, <1>4, <1>5, MappingPrimed DEF View!TenureKept

(* Losing entries, or gaining only ones younger than all, keeps the floor. *)
LEMMA FloorKept ==
  ASSUME Inv, Inv',
         \A g \in entries' : g \in entries \/ g.seq >= nextSeq,
         NEW e \in entries, NEW f \in entries',
         InFloor(entries, e), f.key = e.key, f.peer = e.peer, f \in entries
  PROVE  InFloor(entries', f)
<1>1. f = e
  BY DEF Inv, OneEntryPerProvider
<1>2. e.seq \in Nat /\ nextSeq \in Nat /\ e.seq < nextSeq
  BY DEF Inv, TypeOK, Entries, SeqsDistinct
<1>3. \A g \in entries' : g.seq \in Nat
  BY DEF Inv, TypeOK, Entries
<1>4. \A g \in entries' : g \in entries \/ ~(g.seq < e.seq)
  BY <1>2, <1>3
<1> QED BY <1>1, <1>4, FloorSurvivesYounger

(* A departure of entries is the departure of their claims. *)
LEMMA DepartStep ==
  ASSUME Inv, Inv', NEW G \in SUBSET entries, entries' = entries \ G,
         UNCHANGED <<announced, now>>
  PROVE  View!Depart(Claims(G))
<1>1. Claims(entries') = Claims(entries) \ Claims(G)
  BY ClaimsWithout DEF Inv, OneEntryPerProvider, Unique
<1>2. View!TenureKept({})
  <2>1. \A e \in entries, f \in entries' :
          (InFloor(entries, e) /\ f.key = e.key /\ f.peer = e.peer)
            => InFloor(entries', f)
    BY FloorKept
  <2> QED BY <2>1, TenureStep
<1> QED BY <1>1, <1>2, MappingPrimed DEF View!Depart

LEMMA RemoveStep ==
  ASSUME Inv, Inv', NEW k \in Keys, NEW p \in Peers, Remove(k, p)
  PROVE  View!Leave(k, p)
<1> DEFINE G == {e \in entries : e.key = k /\ e.peer = p}
<1>1. entries' = entries \ G /\ UNCHANGED <<announced, now>>
  BY DEF Remove, StoreRemove
<1>2. Claims(G) = {c \in Claims(entries) : c.key = k /\ c.peer = p}
  BY RecordFields DEF Claims
<1>3. View!Depart(Claims(G))
  BY <1>1, DepartStep
<1> QED BY <1>2, <1>3 DEF View!Leave

LEMMA RemoveKeyStep ==
  ASSUME Inv, Inv', NEW k \in Keys, RemoveKey(k)
  PROVE  View!Clear(k)
<1> DEFINE G == OfKey(entries, k)
<1>1. entries' = entries \ G /\ UNCHANGED <<announced, now>>
  BY DEF RemoveKey, StoreRemoveKey, OfKey
<1>2. Claims(G) = View!Of(k)
  BY ClaimsOfKey DEF View!Of
<1>3. G \in SUBSET entries
  BY DEF OfKey
<1>4. View!Depart(Claims(G))
  BY <1>1, <1>3, DepartStep
<1> QED BY <1>2, <1>4 DEF View!Clear

LEMMA GcStep ==
  ASSUME Inv, Inv', Gc
  PROVE  View!Sweep
<1> DEFINE G == {e \in entries : IsExpired(e, now)}
<1>1. entries' = entries \ G /\ UNCHANGED <<announced, now>>
  BY DEF Gc, StoreGc
<1>2. \A e \in entries : IsExpired(e, now) <=> ~View!Live(RecordOf(e))
  <2>1. SUFFICES ASSUME NEW e \in entries
                 PROVE  IsExpired(e, now) <=> ~View!Live(RecordOf(e))
    OBVIOUS
  <2>2. e.exp \in Nat /\ now \in Nat
    BY BoundsAssumption DEF Inv, TypeOK, Entries
  <2> QED BY <2>2, RecordFields DEF IsExpired, View!Live
<1>3. Claims(G) = {c \in Claims(entries) : ~View!Live(c)}
  BY <1>2 DEF Claims
<1>4. View!Depart(Claims(G))
  BY <1>1, DepartStep
<1> QED BY <1>3, <1>4 DEF View!Sweep

-----------------------------------------------------------------------------
(* put_at *)

(* An offer is a claim, and the record of the entry made for it. *)
LEMMA OfferIsClaim ==
  ASSUME NEW rec \in Offers, NEW n
  PROVE  /\ rec \in View!Claim
         /\ RecordOf(Entry(rec, n)) = rec
         /\ View!PairOf(rec) = [key |-> rec.key, peer |-> rec.peer]
BY BoundsAssumption DEF Offers, View!Claim, Entry, RecordOf, Record, View!PairOf

(* A live victim is outside the floor of a key that holds nothing dead. *)
LEMMA VictimIsFair ==
  ASSUME NEW P, NEW cap, NEW t, NEW v \in EvictionVictims(P, cap, t),
         ~IsExpired(v, t)
  PROVE  v \notin EstablishedFloor(P, cap) /\ \A e \in P : ~IsExpired(e, t)
BY DEF EvictionVictims, Soonest

(* A pair the store does not hold is new to the map. *)
LEMMA NotHeldIsNew ==
  ASSUME NEW rec \in Offers, Held(entries, rec) = {}
  PROVE  View!New(rec)
<1>1. SUFFICES ASSUME NEW e \in entries, View!PairOf(RecordOf(e)) = View!PairOf(rec)
               PROVE  FALSE
  BY DEF View!New, View!Pairs, Claims
<1>2. e.key = rec.key /\ e.peer = rec.peer
  BY <1>1, RecordFields DEF View!PairOf
<1> QED BY <1>2 DEF Held

LEMMA RefreshStep ==
  ASSUME Inv, Inv', NEW rec \in Offers, NEW x \in entries,
         x.key = rec.key, x.peer = rec.peer,
         entries' = (entries \ {x}) \cup {Entry(rec, x.seq)},
         UNCHANGED <<announced, now>>
  PROVE  View!Renew(rec)
<1> DEFINE n == Entry(rec, x.seq)
<1>1. n.key = x.key /\ n.peer = x.peer /\ n.seq = x.seq
  BY DEF Entry
<1>2. Claims(entries') = (Claims(entries) \ {RecordOf(x)}) \cup {rec}
  <2>1. Claims(entries \ {x}) = Claims(entries) \ Claims({x})
    <3>1. Unique(entries) /\ {x} \in SUBSET entries
      BY DEF Inv, OneEntryPerProvider, Unique
    <3> QED BY <3>1, ClaimsWithout
  <2>2. Claims({x}) = {RecordOf(x)}
    BY DEF Claims
  <2> QED BY <2>1, <2>2, ClaimsWith, OfferIsClaim
<1>3. RecordOf(x) \in Claims(entries) /\ View!PairOf(RecordOf(x)) = View!PairOf(rec)
  BY RecordFields, OfferIsClaim DEF Claims, View!PairOf
<1>4. View!TenureKept({})
  <2>1. ASSUME NEW e \in entries, NEW f \in entries',
               InFloor(entries, e), f.key = e.key, f.peer = e.peer
        PROVE  InFloor(entries', f)
    <3> HIDE DEF n
    <3>1. PICK g \in entries' : /\ g.key = e.key /\ g.peer = e.peer
                                /\ InFloor(entries', g)
      BY <1>1, <2>1, FloorSurvivesRefresh DEF n
    <3>2. f = g
      BY <2>1, <3>1 DEF Inv, OneEntryPerProvider
    <3> QED BY <3>1, <3>2
  <2> QED BY <2>1, TenureStep
<1> QED BY <1>2, <1>3, <1>4, MappingPrimed DEF View!Renew

(* The newest entry of a key that had fewer than the floor's entries is in *)
(* the floor.                                                              *)
LEMMA EarlyComersEstablished ==
  ASSUME Inv, Inv', NEW rec \in Offers,
         entries' = entries \cup {Entry(rec, nextSeq)},
         Cardinality(OfKey(entries, rec.key)) < MaxProvidersPerKey \div 2
  PROVE  InFloor(entries', Entry(rec, nextSeq))
<1> DEFINE n == Entry(rec, nextSeq)
           Elder == {g \in OfKey(entries', rec.key) : g.seq < n.seq}
<1>1. n.key = rec.key /\ n.seq = nextSeq /\ n \in entries'
  BY DEF Entry
<1>2. nextSeq \in Nat /\ IsFiniteSet(OfKey(entries, rec.key))
  <2>1. OfKey(entries, rec.key) \in SUBSET entries
    BY DEF OfKey
  <2> QED BY <2>1, FS_Subset DEF Inv, TypeOK
<1>3. Elder \in SUBSET OfKey(entries, rec.key)
  BY <1>1, <1>2 DEF OfKey
<1>4. /\ Cardinality(Elder) <= Cardinality(OfKey(entries, rec.key))
      /\ Cardinality(Elder) \in Nat
      /\ Cardinality(OfKey(entries, rec.key)) \in Nat
  BY <1>2, <1>3, FS_Subset, FS_CardinalityType
<1>5. MaxProvidersPerKey \div 2 \in Int
  BY LimitsAssumption
<1> HIDE DEF Elder
<1>6. Cardinality(Elder) < MaxProvidersPerKey \div 2
  BY <1>4, <1>5
<1> QED BY <1>1, <1>6 DEF InFloor, EstablishedFloor, OfKey, Elder

LEMMA AdditionStep ==
  ASSUME Inv, Inv', NEW rec \in Offers, Held(entries, rec) = {},
         Cardinality(entries) < MaxTotalRecords,
         ~AtKeyCap(entries, rec.key, Limits),
         entries' = entries \cup {Entry(rec, nextSeq)},
         UNCHANGED <<announced, now>>
  PROVE  View!Join(rec)
<1> DEFINE same == OfKey(entries, rec.key)
           n == Entry(rec, nextSeq)
           due == IF View!Cardinality(View!Of(rec.key)) < MaxProvidersPerKey \div 2
                    THEN {View!PairOf(rec)} ELSE {}
<1>1. Claims(entries') = Claims(entries) \cup {rec}
  BY ClaimsWith, OfferIsClaim
<1>2. Cardinality(Claims(entries)) = Cardinality(entries)
  BY SameCount DEF Inv, TypeOK, OneEntryPerProvider, Unique
<1>3. View!Of(rec.key) = Claims(same) /\ Cardinality(View!Of(rec.key)) = Cardinality(same)
  <2>1. same \in SUBSET entries /\ IsFiniteSet(same) /\ Unique(same)
    <3>1. same \in SUBSET entries
      BY DEF OfKey
    <3> QED BY <3>1, FS_Subset DEF Inv, TypeOK, OneEntryPerProvider, Unique
  <2> QED BY <2>1, SameCount, ClaimsOfKey DEF View!Of
<1>4. View!Of(rec.key) = {} \/ Cardinality(View!Of(rec.key)) < MaxProvidersPerKey
  <2>1. same = {} \/ ~(Cardinality(same) >= MaxProvidersPerKey)
    BY DEF AtKeyCap, Limits
  <2>2. same = {} => Claims(same) = {}
    BY DEF Claims
  <2>3. Cardinality(same) \in Nat
    <3>1. same \in SUBSET entries
      BY DEF OfKey
    <3> QED BY <3>1, FS_Subset, FS_CardinalityType DEF Inv, TypeOK
  <2> HIDE DEF same
  <2> QED BY <1>3, <2>1, <2>2, <2>3, LimitsAssumption
<1>5. View!TenureKept(due)
  <2>1. n.key = rec.key /\ n.peer = rec.peer /\ n.seq = nextSeq
    BY DEF Entry
  <2>2. ASSUME NEW e \in entries, NEW f \in entries',
               InFloor(entries, e), f.key = e.key, f.peer = e.peer
        PROVE  InFloor(entries', f)
    <3>1. f \in entries
      <4>1. f # n
        BY <2>1, <2>2 DEF Held
      <4> QED BY <4>1
    <3>2. \A g \in entries' : g \in entries \/ g.seq >= nextSeq
      BY <2>1 DEF Inv, TypeOK
    <3> HIDE DEF n
    <3> QED BY <2>2, <3>1, <3>2, FloorKept
  <2>3. ASSUME NEW f \in entries', [key |-> f.key, peer |-> f.peer] \in due
        PROVE  InFloor(entries', f)
    <3>1. Cardinality(same) < MaxProvidersPerKey \div 2
      BY <1>3, <2>3, CardinalityOfView
    <3>2. f.key = rec.key /\ f.peer = rec.peer
      BY <2>3, OfferIsClaim
    <3>3. f = n
      BY <2>1, <3>2 DEF Held
    <3> QED BY <3>1, <3>3, EarlyComersEstablished
  <2> HIDE DEF due, n
  <2> QED BY <2>2, <2>3, TenureStep
<1> QED BY <1>1, <1>2, <1>4, <1>5, NotHeldIsNew, MappingPrimed, CardinalityOfView
     DEF View!Join

LEMMA ReplacementStep ==
  ASSUME Inv, Inv', NEW rec \in Offers, Held(entries, rec) = {},
         Cardinality(entries) < MaxTotalRecords,
         AtKeyCap(entries, rec.key, Limits),
         NEW v \in EvictionVictims(OfKey(entries, rec.key), MaxProvidersPerKey, now),
         entries' = (entries \ {v}) \cup {Entry(rec, nextSeq)},
         UNCHANGED <<announced, now>>
  PROVE  RecordOf(v) \in View!Of(rec.key) /\ View!Supplant(rec, RecordOf(v))
<1> DEFINE same == OfKey(entries, rec.key)
           n == Entry(rec, nextSeq)
<1>1. v \in entries /\ v.key = rec.key
  BY VictimsAreEntries DEF OfKey
<1>2. Unique(entries) /\ same \in SUBSET entries /\ IsFiniteSet(same)
  <2>1. same \in SUBSET entries
    BY DEF OfKey
  <2> QED BY <2>1, FS_Subset DEF Inv, TypeOK, OneEntryPerProvider, Unique
<1>3. Claims(entries') = (Claims(entries) \ {RecordOf(v)}) \cup {rec}
  <2>1. Claims(entries \ {v}) = Claims(entries) \ Claims({v})
    BY <1>1, <1>2, ClaimsWithout
  <2>2. Claims({v}) = {RecordOf(v)}
    BY DEF Claims
  <2> QED BY <2>1, <2>2, ClaimsWith, OfferIsClaim
<1>4. Cardinality(Claims(entries)) = Cardinality(entries)
  BY <1>2, SameCount DEF Inv, TypeOK
<1>5. View!Of(rec.key) = Claims(same) /\ Cardinality(View!Of(rec.key)) = Cardinality(same)
  <2>1. Unique(same)
    BY <1>2 DEF Unique
  <2> QED BY <1>2, <2>1, SameCount, ClaimsOfKey DEF View!Of
<1>6. Cardinality(View!Of(rec.key)) >= MaxProvidersPerKey
  BY <1>5 DEF AtKeyCap, Limits
<1>7. RecordOf(v) \in View!Of(rec.key)
  BY <1>1, <1>5 DEF Claims, OfKey
<1>8. ASSUME View!Live(RecordOf(v))
      PROVE  /\ View!PairOf(RecordOf(v)) \notin Tenured(entries)
             /\ \A d \in View!Of(rec.key) : View!Live(d)
  <2>1. now \in Nat /\ \A e \in entries : e.exp \in Nat
    BY BoundsAssumption DEF Inv, TypeOK, Entries
  <2>2. \A e \in entries : View!Live(RecordOf(e)) <=> ~IsExpired(e, now)
    <3>1. SUFFICES ASSUME NEW e \in entries
                   PROVE  View!Live(RecordOf(e)) <=> ~IsExpired(e, now)
      OBVIOUS
    <3>2. e.exp \in Nat
      BY <2>1
    <3> QED BY <2>1, <3>2, RecordFields DEF View!Live, IsExpired
  <2>3. /\ v \notin EstablishedFloor(same, MaxProvidersPerKey)
        /\ \A e \in same : ~IsExpired(e, now)
    <3>1. ~IsExpired(v, now)
      BY <1>1, <1>8, <2>2
    <3> QED BY <3>1, VictimIsFair
  <2>4. \A d \in View!Of(rec.key) : View!Live(d)
    BY <1>2, <1>5, <2>2, <2>3 DEF Claims
  <2>5. ASSUME View!PairOf(RecordOf(v)) \in Tenured(entries) PROVE FALSE
    <3>1. PICK e \in entries : /\ InFloor(entries, e)
                               /\ View!PairOf(RecordOf(v)) = [key |-> e.key, peer |-> e.peer]
      BY <2>5 DEF Tenured
    <3>2. e.key = v.key /\ e.peer = v.peer
      BY <3>1, RecordFields DEF View!PairOf
    <3>3. e = v
      BY <1>1, <1>2, <3>2 DEF Unique
    <3> QED BY <1>1, <2>3, <3>1, <3>3 DEF InFloor
  <2> QED BY <2>4, <2>5
<1>9. View!TenureKept({})
  <2>1. n.key = rec.key /\ n.peer = rec.peer /\ n.seq = nextSeq
    BY DEF Entry
  <2>2. ASSUME NEW e \in entries, NEW f \in entries',
               InFloor(entries, e), f.key = e.key, f.peer = e.peer
        PROVE  InFloor(entries', f)
    <3>1. f \in entries
      <4>1. f # n
        BY <2>1, <2>2 DEF Held
      <4> QED BY <4>1
    <3>2. \A g \in entries' : g \in entries \/ g.seq >= nextSeq
      BY <2>1 DEF Inv, TypeOK
    <3> HIDE DEF n
    <3> QED BY <2>2, <3>1, <3>2, FloorKept
  <2> HIDE DEF n
  <2> QED BY <2>2, TenureStep
<1>10. View!New(rec)
  BY NotHeldIsNew
<1> QED BY <1>3, <1>4, <1>6, <1>7, <1>8, <1>9, <1>10, MappingPrimed, CardinalityOfView
        DEF View!Supplant

(* Every call of put_at is an accepted offer of the map, or a refusal, which *)
(* changes nothing.                                                          *)
LEMMA PutStep ==
  ASSUME Inv, Inv', NEW rec \in Offers, PutAt(rec)
  PROVE  (View!Accept(rec) /\ rec \in Claims(entries')) \/ entries' = entries
<1>1. PICK r \in PutResults(entries, nextSeq, rec, now, Limits) : entries' = r.store
  BY DEF PutAt, Put
<1>2. UNCHANGED <<announced, now>>
  BY DEF PutAt
<1>3. /\ nextSeq \in Nat /\ entries \in SUBSET Entries /\ IsFiniteSet(entries)
      /\ \A a, b \in entries : (a.key = b.key /\ a.peer = b.peer) => a = b
      /\ MaxTotalRecords \in Nat
  BY LimitsAssumption DEF Inv, TypeOK, OneEntryPerProvider
<1>4. ASSUME NEW D, NEW m, entries' = D \cup {Entry(rec, m)}
      PROVE  rec \in Claims(entries')
  <2>1. Entry(rec, m) \in entries'
    BY <1>4
  <2>2. rec = RecordOf(Entry(rec, m))
    BY OfferIsClaim
  <2> QED BY <2>1, <2>2 DEF Claims
<1>5. CASE r.store = entries
  BY <1>1, <1>5
<1>6. CASE RefreshOf(entries, nextSeq, rec, r)
  <2>1. PICK x \in entries : /\ x.key = rec.key /\ x.peer = rec.peer
                             /\ entries' = (entries \ {x}) \cup {Entry(rec, x.seq)}
    BY <1>1, <1>6 DEF RefreshOf
  <2> QED BY <1>2, <1>4, <2>1, RefreshStep DEF View!Accept
<1>7. CASE AdditionTo(entries, nextSeq, rec, r)
  <2>1. entries' = entries \cup {Entry(rec, nextSeq)}
    BY <1>1, <1>7 DEF AdditionTo
  <2>2. View!Join(rec)
    BY <1>2, <1>7, <2>1, AdditionStep DEF AdditionTo
  <2> QED BY <1>4, <2>1, <2>2 DEF View!Accept
<1>8. CASE ReplacementIn(entries, nextSeq, rec, now, r)
  <2>1. PICK v \in EvictionVictims(OfKey(entries, rec.key), MaxProvidersPerKey, now) :
               entries' = (entries \ {v}) \cup {Entry(rec, nextSeq)}
    BY <1>1, <1>8 DEF ReplacementIn
  <2>2. RecordOf(v) \in View!Of(rec.key) /\ View!Supplant(rec, RecordOf(v))
    BY <1>2, <1>8, <2>1, ReplacementStep DEF ReplacementIn
  <2> QED BY <1>4, <2>1, <2>2 DEF View!Accept
<1> QED BY <1>3, <1>5, <1>6, <1>7, <1>8, PutShape

-----------------------------------------------------------------------------
(* A step that leaves the entries alone leaves the map's claims and tenure *)
(* alone.                                                                  *)
LEMMA ViewUnchanged ==
  ASSUME UNCHANGED entries
  PROVE  UNCHANGED <<Claims(entries), Tenured(entries)>>
BY MappingPrimed

LEMMA StepRefines ==
  ASSUME Inv, Inv', [Next]_vars
  PROVE  [View!Next]_View!vars
<1>1. ASSUME NEW rec \in Offers, PutAt(rec) PROVE [View!Next]_View!vars
  <2>1. CASE View!Accept(rec) /\ rec \in Claims(entries')
    BY <2>1, OfferIsClaim, MappingPrimed DEF View!Next
  <2>2. CASE entries' = entries
    BY <1>1, <2>2, ViewUnchanged DEF PutAt, View!vars
  <2> QED BY <1>1, <2>1, <2>2, PutStep
<1>2. ASSUME NEW k \in Keys, NEW p \in Peers, Remove(k, p) PROVE View!Next
  BY <1>2, RemoveStep DEF View!Next
<1>3. ASSUME NEW k \in Keys, RemoveKey(k) PROVE View!Next
  BY <1>3, RemoveKeyStep DEF View!Next
<1>4. CASE Gc
  BY <1>4, GcStep DEF View!Next
<1>5. ASSUME NEW k \in Keys, NEW coin \in Pointers, MarkAnnounced(k, coin) PROVE View!Next
  <2>1. View!Announce(k, coin)
    BY <1>5, ViewUnchanged DEF MarkAnnounced, View!Announce, records
  <2> QED BY <2>1 DEF View!Next
<1>6. ASSUME NEW k \in Keys, UnmarkAnnounced(k) PROVE View!Next
  <2>1. View!Cease(k)
    BY <1>6, ViewUnchanged DEF UnmarkAnnounced, View!Cease, records
  <2> QED BY <2>1 DEF View!Next
<1>7. ASSUME NEW t \in 0..MaxTime, ReadClock(t) PROVE View!Next
  <2>1. View!ReadClock(t)
    BY <1>7, ViewUnchanged DEF ReadClock, View!ReadClock, records
  <2> QED BY <2>1 DEF View!Next
<1>8. CASE UNCHANGED vars
  BY <1>8, ViewUnchanged DEF vars, View!vars
<1> QED BY <1>1, <1>2, <1>3, <1>4, <1>5, <1>6, <1>7, <1>8 DEF Next

LEMMA InitRefines == Init => View!Init
<1> SUFFICES ASSUME Init PROVE View!Init
  OBVIOUS
<1>1. Claims(entries) = {} /\ Tenured(entries) = {}
  BY DEF Init, Claims, Tenured
<1>2. announced = [k \in {} |-> 0]
  BY DEF Init
<1> QED BY <1>1, <1>2 DEF Init, View!Init

(* The store keeps a HoldersMap's promises (provider_store.rs, put_at,      *)
(* remove, gc), for any keys, holders, limits and offers: a live claim is   *)
(* lost only by name or to a newcomer in a full key without a corpse, and   *)
(* never one with tenure.                                                   *)
THEOREM StoreImplementsHoldersMap == Spec => KeepsHolders
<1>1. Inv /\ Inv' /\ [Next]_vars => [View!Next]_View!vars
  BY StepRefines
<1> QED BY <1>1, InitRefines, SpecInv, PTL DEF Spec, View!Spec, KeepsHolders
=============================================================================
