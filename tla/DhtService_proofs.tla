-------------------------- MODULE DhtService_proofs --------------------------
(***************************************************************************)
(* Proofs about DhtService: for any keys, peers, limits, TTLs and claims,  *)
(* any number of find_providers, republish and gc calls at once, and a     *)
(* network that answers with anything.  The authoritative store is shown   *)
(* to be a ProviderStore, whose theorems then hold of it.                  *)
(***************************************************************************)
EXTENDS DhtService, FiniteSetTheorems, TLAPS

(* The authoritative store by itself: what marks the keys is no part of it, *)
(* and its records carry any payload.                                      *)
Store == INSTANCE ProviderStore_proofs
           WITH entries <- providers.entries, nextSeq <- providers.seq,
                announced <- [k \in {} |-> NoCoin], Coins <- Payloads,
                Expiries <- Times, MaxAnnounced <- 0

(* One entry per provider and key: provider_store.rs keys its maps so.     *)
OneEach(S) == \A e, f \in S : (e.key = f.key /\ e.peer = f.peer) => e = f

-----------------------------------------------------------------------------
(* What one put does to a store.                                           *)
LEMMA VictimsAreEntries ==
  ASSUME NEW P, NEW cap, NEW t
  PROVE  EvictionVictims(P, cap, t) \subseteq P
BY DEF EvictionVictims, Soonest, EstablishedFloor

LEMMA EntryFields ==
  ASSUME NEW rec, NEW seq
  PROVE  /\ Entry(rec, seq).key = rec.key /\ Entry(rec, seq).peer = rec.peer
         /\ Entry(rec, seq).exp = rec.exp /\ Entry(rec, seq).coin = rec.coin
         /\ Entry(rec, seq).seq = seq
BY DEF Entry

(* A put's result: refused, a refresh of what is held, a new entry, or one *)
(* for another of its key.                                                 *)
LEMMA PutCases ==
  ASSUME NEW S, NEW seq, NEW rec, NEW t, NEW r \in PutResults(S, seq, rec, t, Limits)
  PROVE  \/ r.store = S /\ r.seq = seq /\ Held(S, rec) = {}
         \/ /\ r.store = Refreshed(S, seq, rec) /\ r.seq = seq /\ Held(S, rec) # {}
         \/ /\ r.store = S \cup {Entry(rec, seq)} /\ r.seq = seq + 1 /\ Held(S, rec) = {}
         \/ /\ Held(S, rec) = {} /\ r.seq = seq + 1
            /\ \E v \in S : v.key = rec.key /\ r.store = (S \ {v}) \cup {Entry(rec, seq)}
<1>1. CASE Held(S, rec) # {}
  BY <1>1 DEF PutResults, Result
<1>2. CASE Held(S, rec) = {}
  <2> DEFINE same == OfKey(S, rec.key)
             victims == EvictionVictims(same, Limits.perKey, t)
  <2>1. \A v \in victims : v \in S /\ v.key = rec.key
    BY VictimsAreEntries DEF OfKey
  <2>2. \/ r = Result(S, seq, RejectedOverCapacity)
        \/ r = Result(S \cup {Entry(rec, seq)}, seq + 1, Accepted)
        \/ \E v \in victims : r = Result((S \ {v}) \cup {Entry(rec, seq)}, seq + 1, Accepted)
    BY <1>2 DEF PutResults, Admissions
  <2> HIDE DEF victims
  <2> QED  BY <1>2, <2>1, <2>2 DEF Result
<1> QED  BY <1>1, <1>2

(* Every entry of the result is an old one or carries the record put, and  *)
(* the provider put has no other.                                          *)
LEMMA PutEntries ==
  ASSUME NEW S, NEW seq, NEW rec, NEW t, NEW r \in PutResults(S, seq, rec, t, Limits)
  PROVE  /\ \A e \in r.store : e \in S \/ e = Entry(rec, e.seq)
         /\ \A e \in r.store : (e.key = rec.key /\ e.peer = rec.peer) => e = Entry(rec, e.seq)
         /\ OneEach(S) => OneEach(r.store)
<1>1. CASE r.store = S /\ Held(S, rec) = {}
  BY <1>1 DEF Held
<1>2. CASE r.store = Refreshed(S, seq, rec)
  <2>1. \A e \in r.store : \/ e \in S \ Held(S, rec)
                           \/ \E h \in Held(S, rec) : e = Entry(rec, h.seq)
    BY <1>2 DEF Refreshed
  <2>2. \A e \in r.store : \/ e \in S /\ ~(e.key = rec.key /\ e.peer = rec.peer)
                           \/ \E h \in Held(S, rec) : e = Entry(rec, h.seq) /\ e.seq = h.seq
                                                      /\ e.key = rec.key /\ e.peer = rec.peer
    BY <2>1, EntryFields DEF Held
  <2>3. OneEach(S) => \A g, h \in Held(S, rec) : g = h
    BY DEF Held, OneEach
  <2> QED  BY <2>2, <2>3 DEF OneEach
<1>3. CASE /\ Held(S, rec) = {}
           /\ \E v : r.store = (S \ {v}) \cup {Entry(rec, seq)}
  <2>1. \A e \in r.store : \/ e \in S /\ ~(e.key = rec.key /\ e.peer = rec.peer)
                           \/ e = Entry(rec, seq) /\ e.seq = seq
                              /\ e.key = rec.key /\ e.peer = rec.peer
    BY <1>3, EntryFields DEF Held
  <2> QED  BY <2>1 DEF OneEach
<1>4. CASE /\ Held(S, rec) = {}
           /\ r.store = S \cup {Entry(rec, seq)}
  <2>1. \A e \in r.store : \/ e \in S /\ ~(e.key = rec.key /\ e.peer = rec.peer)
                           \/ e = Entry(rec, seq) /\ e.seq = seq
                              /\ e.key = rec.key /\ e.peer = rec.peer
    BY <1>4, EntryFields DEF Held
  <2> QED  BY <2>1 DEF OneEach
<1> QED  BY <1>1, <1>2, <1>3, <1>4, PutCases

LEMMA PutType ==
  ASSUME NEW S \in SUBSET Entries, NEW seq \in Nat, NEW rec \in Records, NEW t,
         NEW r \in PutResults(S, seq, rec, t, Limits)
  PROVE  r.store \subseteq Entries /\ r.seq \in Nat
<1>1. ASSUME NEW n \in Nat PROVE Entry(rec, n) \in Entries
  BY DEF Records, Entries, Entry
<1>2. r.seq \in Nat
  BY PutCases
<1>3. \A h \in Held(S, rec) : h.seq \in Nat
  BY DEF Held, Entries
<1>4. ASSUME NEW e \in r.store PROVE e \in Entries
  <2>1. CASE r.store = Refreshed(S, seq, rec)
    <3>1. e \in S \/ \E h \in Held(S, rec) : e = Entry(rec, h.seq)
      BY <2>1 DEF Refreshed
    <3> QED  BY <1>1, <1>3, <3>1
  <2>2. CASE e \in S \/ e = Entry(rec, seq)
    BY <1>1, <2>2
  <2> QED  BY <2>1, <2>2, PutCases
<1> QED  BY <1>2, <1>4

-----------------------------------------------------------------------------
(* ProviderStore's operators are those used here. *)
LEMMA SameCardinality == \A S : Store!Cardinality(S) = Cardinality(S)
BY Zenon DEF Store!Cardinality, Cardinality

LEMMA SameSoonest ==
  ASSUME NEW S PROVE Store!Soonest(S) = Soonest(S)
BY DEF Store!Soonest, Soonest, Store!SoonerToExpire, SoonerToExpire

LEMMA SameFloor ==
  ASSUME NEW S, NEW n PROVE Store!EstablishedFloor(S, n) = EstablishedFloor(S, n)
BY SameCardinality DEF Store!EstablishedFloor, EstablishedFloor

LEMMA SameVictims ==
  ASSUME NEW P, NEW cap, NEW t
  PROVE  Store!EvictionVictims(P, cap, t) = EvictionVictims(P, cap, t)
BY SameSoonest, SameFloor DEF Store!EvictionVictims, EvictionVictims, Store!IsExpired, IsExpired

LEMMA SamePut ==
  ASSUME NEW S, NEW seq, NEW rec, NEW t
  PROVE  Store!PutResults(S, seq, rec, t, Store!Limits) = PutResults(S, seq, rec, t, Limits)
BY SameVictims, SameCardinality
   DEF Store!PutResults, PutResults, Store!Limits, Limits, Store!Admissions, Admissions,
       Store!Result, Result, Store!Entry, Entry, Store!OfKey, OfKey, Store!Held, Held,
       Store!Refreshed, Refreshed, Store!AtKeyCap, AtKeyCap, Store!Accepted, Accepted,
       Store!RejectedOverCapacity, RejectedOverCapacity

(* Its assumptions are met. *)
LEMMA StoreAssumptions == Store!LimitsAssumption /\ Store!BoundsAssumption
<1>1. Store!LimitsAssumption
  BY ServiceAssumption DEF Store!LimitsAssumption
<1>2. MaxTime \in Nat /\ MaxAdmissions \in Nat
  BY ServiceAssumption
<1>3. Times \subseteq Nat
  BY ServiceAssumption DEF Times
<1>4. Store!BoundsAssumption
  BY <1>2, <1>3 DEF Store!BoundsAssumption
<1> QED  BY <1>1, <1>4

(* Its offers and entries are the service's records and entries. *)
LEMMA RecordsAreOffers ==
  /\ Records \subseteq Store!Offers
  /\ Entries \subseteq Store!Entries
<1>1. Payloads \subseteq Store!Pointers
  BY DEF Store!Pointers
<1>2. Times \subseteq Nat
  BY ServiceAssumption DEF Times
<1> QED  BY <1>1, <1>2 DEF Records, Entries, Store!Offers, Store!Entries

(* A store within its bounds, as put leaves it: its entries are finitely    *)
(* many, numbered in the order of their admission, and capped per key and  *)
(* in all.                                                                 *)
WithinLimits(S) ==
  /\ Cardinality(S) <= MaxTotalRecords
  /\ \A k \in Keys : Cardinality(OfKey(S, k)) <= MaxProvidersPerKey
Bounded(c) ==
  /\ IsFiniteSet(c.entries)
  /\ \A e \in c.entries : e.seq < c.seq
  /\ \A e, f \in c.entries : e.seq = f.seq => e = f
  /\ WithinLimits(c.entries)

LEMMA PutBounded ==
  ASSUME MaxProvidersPerKey >= 1, NEW c, StoreType(c), OneEach(c.entries), Bounded(c),
         NEW rec \in Records, NEW t, NEW r \in Put(c, rec, t)
  PROVE  Bounded(Stored(r))
<1> DEFINE S == c.entries
<1>1. /\ rec \in Store!Offers /\ S \in SUBSET Store!Entries /\ c.seq \in Nat
      /\ \A e, f \in S : (e.key = f.key /\ e.peer = f.peer) => e = f
  BY RecordsAreOffers DEF StoreType, OneEach
<1>2. r \in Store!PutResults(S, c.seq, rec, t, Store!Limits)
  BY SamePut DEF Put
<1>3. Store!IsFiniteSet(S) /\ Cardinality(S) <= MaxTotalRecords
  BY DEF Bounded, WithinLimits, Store!IsFiniteSet, IsFiniteSet
<1>4. /\ Store!IsFiniteSet(r.store)
      /\ \A e \in r.store : e.seq < r.seq
      /\ \A e, f \in r.store : e.seq = f.seq => e = f
      /\ Cardinality(r.store) <= MaxTotalRecords
  BY <1>1, <1>2, <1>3, StoreAssumptions, SameCardinality, Store!PutPreserves DEF Bounded
<1>5. ASSUME NEW k \in Keys
      PROVE  Cardinality(OfKey(r.store, k)) <= MaxProvidersPerKey
  <2>1. Store!OfKey(S, k) = OfKey(S, k) /\ Store!OfKey(r.store, k) = OfKey(r.store, k)
    BY DEF Store!OfKey, OfKey
  <2>2. Cardinality(OfKey(S, k)) <= MaxProvidersPerKey
    BY DEF Bounded, WithinLimits
  <2> HIDE DEF S
  <2> QED  BY <1>1, <1>2, <1>3, <2>1, <2>2, StoreAssumptions, SameCardinality,
              Store!PutKeepsKeyCap
<1>6. IsFiniteSet(r.store)
  BY <1>4 DEF Store!IsFiniteSet, IsFiniteSet
<1> QED  BY <1>4, <1>5, <1>6 DEF Bounded, WithinLimits, Stored

-----------------------------------------------------------------------------
(* The recursion of CacheResults: its value for a finite set of records is *)
(* what its equation says.  The induction runs over the subsets, as a      *)
(* search for the least counterexample.                                    *)
Body(g, R, first, t) ==
  IF R = {} THEN first ELSE UNION {OnePut(g[R \ {rec}], rec, t) : rec \in R}
Solves(f, D, first, t) == f = [R \in SUBSET D |-> Body(f, R, first, t)]

LEMMA LeastSubset ==
  ASSUME NEW D, IsFiniteSet(D), NEW T, T \subseteq SUBSET D, T # {}
  PROVE  \E R \in T : \A Q \in SUBSET R : Q # R => Q \notin T
<1>1. IsWellFoundedOn(StrictSubsetOrdering(D), SUBSET D)
  BY FS_StrictSubsetOrderingWellFounded, FS_FiniteSubsetsOfFinite
<1>2. PICK R \in T : \A Q \in T : <<Q, R>> \notin StrictSubsetOrdering(D)
  BY <1>1, WFMin, Zenon
<1>3. ASSUME NEW Q \in SUBSET R, Q # R, Q \in T PROVE FALSE
  BY <1>2, <1>3 DEF StrictSubsetOrdering
<1> QED  BY <1>3

LEMMA BodyAgrees ==
  ASSUME NEW g, NEW h, NEW R, NEW first, NEW t,
         \A rec \in R : g[R \ {rec}] = h[R \ {rec}]
  PROVE  Body(g, R, first, t) = Body(h, R, first, t)
BY DEF Body

LEMMA SolutionsAgree ==
  ASSUME NEW D, IsFiniteSet(D), NEW E, D \subseteq E, NEW first, NEW t,
         NEW f, Solves(f, D, first, t), NEW g, Solves(g, E, first, t)
  PROVE  \A R \in SUBSET D : f[R] = g[R]
<1> DEFINE T == {R \in SUBSET D : f[R] # g[R]}
<1> SUFFICES ASSUME T # {} PROVE FALSE
  OBVIOUS
<1>1. PICK R \in T : \A Q \in SUBSET R : Q # R => Q \notin T
  <2>1. T \subseteq SUBSET D
    OBVIOUS
  <2> HIDE DEF T
  <2> QED  BY <2>1, LeastSubset
<1>2. \A rec \in R : f[R \ {rec}] = g[R \ {rec}]
  <2> SUFFICES ASSUME NEW rec \in R PROVE f[R \ {rec}] = g[R \ {rec}]
    OBVIOUS
  <2>1. R \ {rec} \in SUBSET R /\ R \ {rec} # R /\ R \ {rec} \in SUBSET D
    OBVIOUS
  <2> QED  BY <1>1, <2>1
<1>3. Body(f, R, first, t) = Body(g, R, first, t)
  BY <1>2, BodyAgrees
<1>4. f[R] = Body(f, R, first, t) /\ g[R] = Body(g, R, first, t)
  BY Zenon DEF Solves
<1> QED  BY <1>1, <1>3, <1>4

LEMMA SolutionExists ==
  ASSUME NEW D, IsFiniteSet(D), NEW first, NEW t
  PROVE  \E f : Solves(f, D, first, t)
<1> DEFINE T == {E \in SUBSET D : ~ \E f : Solves(f, E, first, t)}
<1> SUFFICES ASSUME T # {} PROVE FALSE
  BY Zenon
<1>1. PICK E \in T : \A Q \in SUBSET E : Q # E => Q \notin T
  <2>1. T \subseteq SUBSET D
    OBVIOUS
  <2> HIDE DEF T
  <2> QED  BY <2>1, LeastSubset
<1>2. E \in SUBSET D /\ ~ \E f : Solves(f, E, first, t)
  BY <1>1
<1> DEFINE F(Q) == CHOOSE f : Solves(f, Q, first, t)
           below == [R \in SUBSET E |-> F(R)[R]]
           h == [R \in SUBSET E |-> IF R = E THEN Body(below, E, first, t) ELSE F(R)[R]]
<1>3. ASSUME NEW R \in SUBSET E, R # E PROVE Solves(F(R), R, first, t)
  <2>1. \E f : Solves(f, R, first, t)
    BY <1>1, <1>2, <1>3
  <2> QED  BY <2>1
<1>4. ASSUME NEW R \in SUBSET E PROVE h[R] = Body(h, R, first, t)
  <2>1. CASE R = E
    <3>1. \A rec \in E : below[E \ {rec}] = h[E \ {rec}]
      <4> SUFFICES ASSUME NEW rec \in E PROVE below[E \ {rec}] = h[E \ {rec}]
        OBVIOUS
      <4>1. E \ {rec} \in SUBSET E /\ E \ {rec} # E
        OBVIOUS
      <4> HIDE DEF F
      <4> QED  BY <4>1
    <3>2. Body(below, E, first, t) = Body(h, E, first, t)
      <4> HIDE DEF below, h
      <4> QED  BY <3>1, BodyAgrees
    <3>3. h[R] = Body(below, E, first, t)
      BY <2>1
    <3> HIDE DEF h, below
    <3> QED  BY <2>1, <3>2, <3>3
  <2>2. CASE R # E
    <3>1. \A rec \in R : F(R)[R \ {rec}] = h[R \ {rec}]
      <4> SUFFICES ASSUME NEW rec \in R PROVE F(R)[R \ {rec}] = h[R \ {rec}]
        OBVIOUS
      <4> DEFINE Q == R \ {rec}
      <4>1. Q \in SUBSET E /\ Q # E /\ Q \subseteq R /\ IsFiniteSet(Q)
        BY <1>2, FS_Subset
      <4>2. h[Q] = F(Q)[Q]
        BY <4>1
      <4>3. Solves(F(Q), Q, first, t) /\ Solves(F(R), R, first, t)
        BY <1>3, <2>2, <4>1
      <4>4. F(Q)[Q] = F(R)[Q]
        <5> HIDE DEF F, Q
        <5> QED  BY <4>1, <4>3, SolutionsAgree
      <4> QED  BY <4>2, <4>4
    <3>2. Body(F(R), R, first, t) = Body(h, R, first, t)
      <4> HIDE DEF h, F
      <4> QED  BY <3>1, BodyAgrees
    <3>3. F(R)[R] = Body(F(R), R, first, t)
      <4>1. Solves(F(R), R, first, t)
        BY <1>3, <2>2
      <4> HIDE DEF F
      <4>2. R \in SUBSET R
        OBVIOUS
      <4> QED  BY <4>1, <4>2, Zenon DEF Solves
    <3>4. h[R] = F(R)[R]
      BY <2>2
    <3> HIDE DEF h, F
    <3> QED  BY <3>2, <3>3, <3>4
  <2> QED  BY <2>1, <2>2
<1>5. Solves(h, E, first, t)
  <2>1. h = [R \in SUBSET E |-> h[R]]
    OBVIOUS
  <2> HIDE DEF h
  <2> QED  BY <1>4, <2>1 DEF Solves
<1> QED  BY <1>2, <1>5

(* What a walk's records make of the cache: every entry is one held before  *)
(* or carries one of the records, and the bounds are kept.                 *)
Grown(c, R) ==
  /\ StoreType(c) /\ OneEach(c.entries)
  /\ (MaxProvidersPerKey >= 1 /\ Bounded(discovered)) => Bounded(c)
  /\ \A e \in c.entries : e \in discovered.entries \/ \E r \in R : e = Entry(r, e.seq)

LEMMA OnePutGrows ==
  ASSUME NEW R \in SUBSET Records, NEW rec \in R, NEW S, \A b \in S : Grown(b, R \ {rec}),
         NEW c \in OnePut(S, rec, now)
  PROVE  Grown(c, R)
<1>0. PICK b \in S : \E r \in Put(b, rec, now) : c = Stored(r)
  BY DEF OnePut
<1>1. PICK r \in Put(b, rec, now) : c = Stored(r)
  BY <1>0
<1>2. Grown(b, R \ {rec})
  BY <1>1
<1>3. r \in PutResults(b.entries, b.seq, rec, now, Limits)
  BY <1>1 DEF Put
<1>4. b.entries \in SUBSET Entries /\ b.seq \in Nat /\ OneEach(b.entries)
  BY <1>2 DEF Grown, StoreType
<1>5. r.store \subseteq Entries /\ r.seq \in Nat
  BY <1>3, <1>4, PutType
<1>6. OneEach(r.store) /\ \A e \in r.store : e \in b.entries \/ e = Entry(rec, e.seq)
  BY <1>3, <1>4, PutEntries
<1>7. c.entries = r.store /\ c.seq = r.seq
  BY <1>1 DEF Stored
<1>8. ASSUME MaxProvidersPerKey >= 1, Bounded(discovered) PROVE Bounded(c)
  <2>1. Bounded(b) /\ StoreType(b) /\ OneEach(b.entries) /\ rec \in Records
    BY <1>2, <1>8 DEF Grown
  <2> QED  BY <1>1, <1>8, <2>1, PutBounded
<1> QED  BY <1>2, <1>5, <1>6, <1>7, <1>8, Zenon DEF Grown, StoreType

LEMMA CacheGrows ==
  ASSUME NEW recs \in SUBSET Records, IsFiniteSet(recs),
         StoreType(discovered), OneEach(discovered.entries),
         NEW c \in CacheResults(recs)
  PROVE  Grown(c, recs)
<1> DEFINE after == CHOOSE f : Solves(f, recs, {discovered}, now)
<1>1. Solves(after, recs, {discovered}, now)
  BY SolutionExists, Zenon
<1>2. c \in after[recs]
  BY DEF CacheResults, Solves, Body
<1> HIDE DEF after
<1>3. \A R \in SUBSET recs : after[R] = Body(after, R, {discovered}, now)
  BY <1>1, Zenon DEF Solves
<1> DEFINE T == {R \in SUBSET recs : \E d \in after[R] : ~Grown(d, R)}
<1>4. T = {}
  <2> SUFFICES ASSUME T # {} PROVE FALSE
    OBVIOUS
  <2>1. PICK R \in T : \A Q \in SUBSET R : Q # R => Q \notin T
    <3>1. T \subseteq SUBSET recs
      OBVIOUS
    <3> HIDE DEF T
    <3> QED  BY <3>1, LeastSubset
  <2>2. PICK d \in after[R] : ~Grown(d, R)
    BY <2>1
  <2>3. R \in SUBSET recs /\ d \in Body(after, R, {discovered}, now)
    BY <1>3, <2>1, <2>2
  <2>4. CASE R = {}
    <3>1. d = discovered
      BY <2>3, <2>4 DEF Body
    <3> QED  BY <2>2, <3>1 DEF Grown
  <2>5. CASE R # {}
    <3>1. PICK rec \in R : d \in OnePut(after[R \ {rec}], rec, now)
      BY <2>3, <2>5 DEF Body
    <3>2. \A b \in after[R \ {rec}] : Grown(b, R \ {rec})
      <4>1. R \ {rec} \in SUBSET R /\ R \ {rec} # R /\ R \ {rec} \in SUBSET recs
        BY <2>3
      <4>2. R \ {rec} \notin T
        <5> HIDE DEF T
        <5> QED  BY <2>1, <4>1
      <4> QED  BY <4>1, <4>2
    <3>3. R \in SUBSET Records
      BY <2>3
    <3> QED  BY <2>2, <3>1, <3>2, <3>3, OnePutGrows
  <2> QED  BY <2>4, <2>5
<1>5. recs \notin T
  <2> HIDE DEF T
  <2> QED  BY <1>4
<1> QED  BY <1>2, <1>5

-----------------------------------------------------------------------------
(* The inductive invariant, in the parts that need one another. *)

Attributed == Pointers \cup {Verified}      \* payloads of authoritative records

(* What this node builds for a key is its own, within the TTL.              *)
OwnRecords ==
  \A r \in Republishers : \A rec \in republishes[r].rec :
    rec.peer = Self /\ rec.coin \in Pointers /\ rec.exp <= now + ProviderTtl

(* The authoritative store holds attributed records only, the cache only    *)
(* what walks collected from others; a provider once per key in each.       *)
Authoritative ==
  /\ OneEach(providers.entries)
  /\ \A e \in providers.entries : e.coin \in Attributed /\ e.exp <= now + ProviderTtl
Cached ==
  /\ OneEach(discovered.entries)
  /\ \A e \in discovered.entries :
       e.coin = Hearsay /\ e.peer # Self /\ e.exp <= now + DiscoveryCacheTtl

(* What a call carries from lock to lock: the local records it read, sound  *)
(* at the instant it read them, then its answer.                           *)
Underway == {"cache", "seeds", "walk"}
Carried ==
  \A f \in Finders :
    /\ finds[f].phase \in Underway =>
         /\ Sound(finds[f].local, finds[f].began)
         /\ \A r \in finds[f].local : r.coin \in Attributed
    /\ finds[f].phase = "returned" => Sound(finds[f].answer, finds[f].began)
    /\ \A r \in finds[f].answer : r.coin \in Attributed \cup {Hearsay}

(* A forgotten key is out of the cache, live or not, and no walk under way  *)
(* can bring it back.                                                      *)
Gone ==
  \A k \in forgotten :
    /\ OfKey(discovered.entries, k) = {}
    /\ \A f \in Finders : finds[f].phase = "walk" => finds[f].key # k

(* A retracted key that some republish call still has listed is a raced    *)
(* one, before the call puts its record back.                              *)
RetractedStays ==
  \A k \in retracted :
    /\ k \notin DOMAIN announced
    /\ (UnderRepublish(k) \/ OwnEntry(k) # {}) => k \in raced

(* The record a republish call has in hand carries the announced pointer,   *)
(* as the one in the store does.                                           *)
PointersAgree ==
  \A k \in DOMAIN announced \ raced :
    /\ \A r \in Republishers : \A rec \in republishes[r].rec :
         rec.key = k => rec.coin = announced[k]
    /\ \A e \in OwnEntry(k) : e.coin = announced[k]

Inv == /\ TypeOK /\ OwnRecords /\ Authoritative /\ Cached
       /\ Carried /\ Gone /\ RetractedStays /\ PointersAgree

-----------------------------------------------------------------------------
(* What a step may do to the authoritative store: drop the record of one    *)
(* provider or the expired ones, or put one attributed record.             *)
Drops ==
  \/ UNCHANGED providers
  \/ /\ now' = now
     /\ \E k \in Keys, p \in Peers :
          providers' = WithEntries(providers, StoreRemove(providers.entries, k, p))
  \/ /\ now' = now
     /\ providers' = WithEntries(providers, StoreGc(providers.entries, now))
Admissible(rec) ==
  rec \in Records /\ rec.coin \in Attributed /\ rec.exp <= now + ProviderTtl
PutsOne ==
  /\ now' = now
  /\ \E rec : /\ Admissible(rec)
              /\ \E r \in Put(providers, rec, now) :
                   r.seq <= MaxAdmissions /\ providers' = Stored(r)

LEMMA Instants ==
  ASSUME now \in 0..MaxTime
  PROVE  /\ now + ProviderTtl \in Times /\ now + DiscoveryCacheTtl \in Times
         /\ \A e \in Times, ttl \in {ProviderTtl, DiscoveryCacheTtl} :
              Clamped(e, ttl) \in Times /\ Clamped(e, ttl) <= now + ttl
         /\ Times \subseteq Nat
BY ServiceAssumption DEF Times, Clamped, Earlier

LEMMA LocalRecordAdmissible ==
  ASSUME now \in 0..MaxTime, NEW k \in Keys, NEW coin \in Pointers
  PROVE  /\ LocalRecord(k, coin) \in Records /\ LocalRecord(k, coin).coin = coin
         /\ LocalRecord(k, coin).key = k /\ LocalRecord(k, coin).peer = Self
         /\ LocalRecord(k, coin).exp = now + ProviderTtl
         /\ Admissible(LocalRecord(k, coin))
<1>1. LocalRecord(k, coin) = [key |-> k, peer |-> Self, exp |-> now + ProviderTtl, coin |-> coin]
  BY DEF LocalRecord, Record
<1>2. LocalRecord(k, coin) \in Records
  BY <1>1, Instants DEF Records, Peers, Payloads
<1>3. now + ProviderTtl <= now + ProviderTtl
  BY Instants
<1> QED  BY <1>1, <1>2, <1>3 DEF Admissible, Attributed

LEMMA AdmittedRecord ==
  ASSUME now \in 0..MaxTime, NEW k \in Keys, NEW p \in Remotes, NEW e \in Claims,
         NEW shape \in {Verified, RawVerified}
  PROVE  Admissible(Normalized(Record(k, p, Clamped(e, ProviderTtl), shape)))
<1> DEFINE rec == Normalized(Record(k, p, Clamped(e, ProviderTtl), shape))
<1>1. NormalizedCoin(shape) = Verified
  BY ServiceAssumption DEF NormalizedCoin
<1>2. rec = [key |-> k, peer |-> p, exp |-> Clamped(e, ProviderTtl), coin |-> Verified]
  BY <1>1 DEF Normalized, Record
<1>3. Clamped(e, ProviderTtl) \in Times /\ Clamped(e, ProviderTtl) <= now + ProviderTtl
  BY Instants DEF Times
<1> QED  BY <1>2, <1>3 DEF Admissible, Attributed, Records, Peers, Payloads

LEMMA ProvidersStep ==
  ASSUME TypeOK, OwnRecords, [Next]_vars
  PROVE  Drops \/ PutsOne
<1> USE DEF calls, history, stores
<1>t. now \in 0..MaxTime
  BY DEF TypeOK
<1>1. ASSUME NEW k \in Keys, NEW coin \in Pointers, Announce(k, coin) PROVE PutsOne
  BY <1>t, <1>1, LocalRecordAdmissible DEF Announce, PutsOne
<1>2. ASSUME NEW r \in Republishers, RepublishPut(r) PROVE PutsOne
  <2>1. PICK rec \in republishes[r].rec :
          \E res \in Put(providers, rec, now) :
            res.seq <= MaxAdmissions /\ providers' = Stored(res)
    BY <1>2 DEF RepublishPut
  <2>2. Admissible(rec)
    BY <2>1 DEF OwnRecords, Admissible, Attributed, TypeOK, RepublishCalls
  <2> QED  BY <1>2, <2>1, <2>2 DEF PutsOne, RepublishPut
<1>3. ASSUME NEW k \in Keys, NEW p \in Remotes, NEW e \in Claims,
             NEW shape \in {Verified, RawVerified}, Admit(k, p, e, shape)
      PROVE  PutsOne
  BY <1>t, <1>3, AdmittedRecord DEF Admit, PutsOne
<1>4. ASSUME NEW k \in Keys, Retract(k) PROVE Drops
  BY <1>4 DEF Retract, Drops, Peers
<1>5. ASSUME NEW k \in Keys, NEW p \in Remotes, RemoveRecord(k, p) PROVE Drops
  BY <1>5 DEF RemoveRecord, Drops, Peers
<1>6. ASSUME NEW c \in Collectors, GcProviders(c) PROVE Drops
  BY <1>6 DEF GcProviders, Drops
<1>7. CASE UNCHANGED providers
  BY <1>7 DEF Drops
<1>8. CASE Publishing
  <2>1. ASSUME NEW k \in Keys, Withdraw(k) PROVE UNCHANGED providers
    BY <2>1 DEF Withdraw
  <2>2. ASSUME NEW r \in Republishers, RepublishStart(r) PROVE UNCHANGED providers
    BY <2>2 DEF RepublishStart
  <2>3. ASSUME NEW r \in Republishers, NEW k \in Keys, RepublishRead(r, k)
        PROVE UNCHANGED providers
    BY <2>3 DEF RepublishRead
  <2> QED  BY <1>1, <1>2, <1>4, <1>7, <1>8, <2>1, <2>2, <2>3, Zenon DEF Publishing
<1>9. CASE Serving
  <2>1. ASSUME NEW p \in Remotes, Inbound(p) PROVE UNCHANGED providers
    BY <2>1 DEF Inbound
  <2> QED  BY <1>3, <1>5, <1>7, <1>9, <2>1, Zenon DEF Serving
<1>10. CASE Routing
  BY <1>7, <1>10 DEF Routing, Bootstrap, WalkOnly, Absorb, AddPeer, RemovePeer
<1>11. CASE Finding
  BY <1>7, <1>11 DEF Finding, FindStart, FindCache, FindSeeds, FindReturn, ForgetDiscovered
<1>12. CASE Sweeping
  <2>1. ASSUME NEW c \in Collectors, GcDiscovered(c) PROVE UNCHANGED providers
    BY <2>1 DEF GcDiscovered
  <2> QED  BY <1>6, <1>7, <1>12, <2>1, Zenon DEF Sweeping
<1>13. CASE Tick \/ UNCHANGED vars
  BY <1>7, <1>13 DEF Tick, vars
<1> QED  BY <1>8, <1>9, <1>10, <1>11, <1>12, <1>13 DEF Next

LEMMA DropsShrink ==
  ASSUME Drops
  PROVE  providers'.entries \subseteq providers.entries /\ providers'.seq = providers.seq
BY DEF Drops, WithEntries, StoreRemove, StoreGc

(* What a step may do to the cache: drop entries, or take in what a walk    *)
(* collected, as hearsay of others, clamped, for the key walked for.        *)
Cacheables(k) ==
  {r \in Records : /\ r.key = k /\ r.coin = Hearsay
                   /\ r.peer # Self /\ r.exp <= now + DiscoveryCacheTtl}
CachesWalk ==
  /\ now' = now
  /\ \E f \in Finders : \E recs \in SUBSET Cacheables(finds[f].key) :
       finds[f].phase = "walk" /\ Grown(discovered', recs)

LEMMA FoundRecords ==
  ASSUME NEW k \in Keys, NEW found \in Found(k)
  PROVE  /\ \A q \in found : /\ q \in Records /\ q.key = k
                            /\ q.exp \in Claims /\ q.coin \in {Hearsay, RawHearsay}
         /\ \A q \in Collected(found) : /\ q \in Records /\ q.key = k
                            /\ q.exp \in Claims /\ q.coin = Hearsay
         /\ \A r, q \in Collected(found) : r.peer = q.peer => r = q
         /\ IsFiniteSet(found) /\ IsFiniteSet(Collected(found))
<1>1. ASSUME NEW q \in found
      PROVE  /\ q \in Records /\ q.key = k /\ q.exp \in Claims /\ q.coin \in {Hearsay, RawHearsay}
             /\ Normalized(q) = [key |-> k, peer |-> q.peer, exp |-> q.exp, coin |-> Hearsay]
             /\ Normalized(q) \in Records
  <2>1. PICK p \in Peers, e \in Claims, shape \in {Hearsay, RawHearsay} : q = Record(k, p, e, shape)
    BY DEF Found
  <2>2. q = [key |-> k, peer |-> p, exp |-> e, coin |-> shape]
    BY <2>1 DEF Record
  <2>3. NormalizedCoin(shape) = Hearsay
    BY ServiceAssumption DEF NormalizedCoin
  <2>4. Normalized(q) = [key |-> k, peer |-> p, exp |-> e, coin |-> Hearsay]
    BY <2>2, <2>3 DEF Normalized, Record
  <2>5. e \in Times /\ Hearsay \in Payloads /\ shape \in Payloads
    BY DEF Times, Payloads
  <2> QED  BY <2>2, <2>4, <2>5 DEF Records
<1>2. \A r, q \in found : r.peer = q.peer => r = q
  BY DEF Found
<1>3. \A q \in Collected(found) : \E r \in found : q = Normalized(r)
  BY DEF Collected
<1>4. IsFiniteSet(found)
  BY DEF Found
<1>5. IsFiniteSet(Collected(found))
  <2> DEFINE norm == [r \in found |-> Normalized(r)]
  <2>1. norm \in Surjection(found, Collected(found))
    BY DEF Surjection, Collected
  <2> HIDE DEF norm
  <2> QED  BY <1>4, <2>1, FS_Surjection
<1>6. ASSUME NEW q \in Collected(found)
      PROVE  q \in Records /\ q.key = k /\ q.exp \in Claims /\ q.coin = Hearsay
  <2>1. PICK r \in found : q = Normalized(r)
    BY <1>3
  <2> QED  BY <1>1, <2>1
<1>7. ASSUME NEW q \in Collected(found), NEW r \in Collected(found), r.peer = q.peer
      PROVE  r = q
  <2>1. PICK a \in found, b \in found : q = Normalized(a) /\ r = Normalized(b)
    BY <1>3
  <2>2. q.peer = a.peer /\ r.peer = b.peer
    BY <1>1, <2>1
  <2> QED  BY <1>2, <1>7, <2>1, <2>2
<1>8. \A q \in found : /\ q \in Records /\ q.key = k
                     /\ q.exp \in Claims /\ q.coin \in {Hearsay, RawHearsay}
  BY <1>1
<1> QED  BY <1>4, <1>5, <1>6, <1>7, <1>8

(* What is put into the cache after a walk. *)
LEMMA WalkCaches ==
  ASSUME now \in 0..MaxTime, NEW k \in Keys, NEW found \in Found(k)
  PROVE  LET recs == {Normalized(r) : r \in Cacheable(Collected(found))}
         IN  IsFiniteSet(recs) /\ recs \subseteq Cacheables(k)
<1> DEFINE C == Collected(found)
           clamped == {CacheClamped(q) : q \in C}
           recs == {Normalized(r) : r \in Cacheable(C)}
<1>1. ASSUME NEW q \in C
      PROVE  /\ CacheClamped(q) = [key |-> k, peer |-> q.peer, coin |-> Hearsay,
                                   exp |-> Clamped(q.exp, DiscoveryCacheTtl)]
             /\ Normalized(CacheClamped(q)) = CacheClamped(q)
             /\ CacheClamped(q) \in Records
             /\ CacheClamped(q).exp <= now + DiscoveryCacheTtl
  <2>1. q \in Records /\ q.key = k /\ q.exp \in Claims /\ q.coin = Hearsay
    BY FoundRecords
  <2>2. CacheClamped(q) = [key |-> k, peer |-> q.peer, coin |-> Hearsay,
                           exp |-> Clamped(q.exp, DiscoveryCacheTtl)]
    BY <2>1 DEF CacheClamped, Record
  <2>3. NormalizedCoin(Hearsay) = Hearsay
    BY ServiceAssumption DEF NormalizedCoin
  <2>4. Clamped(q.exp, DiscoveryCacheTtl) \in Times
        /\ Clamped(q.exp, DiscoveryCacheTtl) <= now + DiscoveryCacheTtl
    BY <2>1, Instants DEF Times
  <2>5. q.peer \in Peers /\ Hearsay \in Payloads
    BY <2>1 DEF Records, Payloads
  <2> QED  BY <2>2, <2>3, <2>4, <2>5 DEF Normalized, Record, Records
<1>2. \A r \in recs : \E q \in C : r = CacheClamped(q) /\ r.peer # Self
  <2>1. ASSUME NEW r \in recs PROVE \E q \in C : r = CacheClamped(q) /\ r.peer # Self
    <3>1. PICK s \in Cacheable(C) : r = Normalized(s)
      OBVIOUS
    <3>2. PICK q \in C : s = CacheClamped(q)
      BY <3>1 DEF Cacheable
    <3>3. s.peer # Self
      BY <3>1 DEF Cacheable
    <3> QED  BY <1>1, <3>1, <3>2, <3>3
  <2> QED  BY <2>1
<1>3. recs \subseteq Cacheables(k)
  BY <1>1, <1>2 DEF Cacheables
<1>4. recs \subseteq clamped
  BY <1>2
<1>5. IsFiniteSet(clamped)
  <2> DEFINE clamp == [q \in C |-> CacheClamped(q)]
  <2>1. clamp \in Surjection(C, clamped)
    BY DEF Surjection
  <2>2. IsFiniteSet(C)
    BY FoundRecords
  <2> HIDE DEF clamp, clamped, C
  <2> QED  BY <2>1, <2>2, FS_Surjection
<1>6. IsFiniteSet(recs)
  <2> HIDE DEF clamped, recs
  <2> QED  BY <1>4, <1>5, FS_Subset
<1> QED  BY <1>3, <1>6

LEMMA DiscoveredStep ==
  ASSUME TypeOK, Cached, [Next]_vars
  PROVE  \/ /\ discovered'.entries \subseteq discovered.entries
            /\ discovered'.seq = discovered.seq
         \/ CachesWalk
<1> USE DEF calls, history, stores
<1>1. ASSUME NEW f \in Finders, NEW found \in Found(finds[f].key), NEW S \in SUBSET Remotes,
             FindReturn(f, found, S)
      PROVE  CachesWalk
  <2> DEFINE recs == {Normalized(r) : r \in Cacheable(Collected(found))}
  <2>1. finds[f].key \in Keys /\ now \in 0..MaxTime
    BY DEF TypeOK, FindCalls
  <2>2. IsFiniteSet(recs) /\ recs \subseteq Cacheables(finds[f].key)
    BY <2>1, WalkCaches
  <2>3. discovered' \in CacheResults(recs) /\ finds[f].phase = "walk" /\ now' = now
    BY <1>1 DEF FindReturn
  <2> HIDE DEF recs
  <2>4. recs \in SUBSET Records
    BY <2>2 DEF Cacheables
  <2>5. StoreType(discovered) /\ OneEach(discovered.entries)
    BY DEF TypeOK, Cached
  <2>6. Grown(discovered', recs)
    BY <2>2, <2>3, <2>4, <2>5, CacheGrows
  <2> QED  BY <2>2, <2>3, <2>6 DEF CachesWalk
<1>2. ASSUME NEW k \in Keys, ForgetDiscovered(k)
      PROVE  discovered'.entries \subseteq discovered.entries /\ discovered'.seq = discovered.seq
  BY <1>2 DEF ForgetDiscovered, Forget, WithEntries, StoreRemoveKey
<1>3. ASSUME NEW c \in Collectors, GcDiscovered(c)
      PROVE  discovered'.entries \subseteq discovered.entries /\ discovered'.seq = discovered.seq
  BY <1>3 DEF GcDiscovered, WithEntries, StoreGc
<1>4. CASE UNCHANGED discovered
  BY <1>4
<1>5. CASE Publishing
  BY <1>4, <1>5 DEF Publishing, Announce, Withdraw, Retract, RepublishStart, RepublishRead,
                    RepublishPut
<1>6. CASE Serving
  BY <1>4, <1>6 DEF Serving, Admit, Inbound, RemoveRecord
<1>7. CASE Routing
  BY <1>4, <1>7 DEF Routing, Bootstrap, WalkOnly, Absorb, AddPeer, RemovePeer
<1>8. CASE Finding
  <2>1. ASSUME NEW f \in Finders, NEW k \in Keys, FindStart(f, k) PROVE UNCHANGED discovered
    BY <2>1 DEF FindStart
  <2>2. ASSUME NEW f \in Finders, FindCache(f) \/ FindSeeds(f) PROVE UNCHANGED discovered
    BY <2>2 DEF FindCache, FindSeeds
  <2> QED  BY <1>1, <1>2, <1>4, <1>8, <2>1, <2>2, Zenon DEF Finding
<1>9. CASE Sweeping
  <2>1. ASSUME NEW c \in Collectors, GcProviders(c) PROVE UNCHANGED discovered
    BY <2>1 DEF GcProviders
  <2> QED  BY <1>3, <1>4, <1>9, <2>1, Zenon DEF Sweeping
<1>10. CASE Tick \/ UNCHANGED vars
  BY <1>4, <1>10 DEF Tick, vars
<1> QED  BY <1>5, <1>6, <1>7, <1>8, <1>9, <1>10 DEF Next

-----------------------------------------------------------------------------
(* Answers *)

(* What a store answers with, for one key: the live entries, each once.     *)
LEMMA GetRecords ==
  ASSUME NEW S \in SUBSET Entries, OneEach(S), NEW k, NEW t
  PROVE  /\ StoreGet(S, k, t) \subseteq Records
         /\ Sound(StoreGet(S, k, t), t)
         /\ \A r \in StoreGet(S, k, t) :
              r.key = k /\ \E e \in S : e.key = k /\ e.peer = r.peer /\ e.coin = r.coin
<1>1. ASSUME NEW e \in S
      PROVE  /\ RecordOf(e) \in Records
             /\ RecordOf(e) = [key |-> e.key, peer |-> e.peer, exp |-> e.exp, coin |-> e.coin]
  BY DEF RecordOf, Record, Records, Entries
<1>2. \A r \in StoreGet(S, k, t) :
        \E e \in S : e.key = k /\ ~IsExpired(e, t) /\ r = RecordOf(e)
  BY DEF StoreGet, OfKey
<1>3. ASSUME NEW r \in StoreGet(S, k, t)
      PROVE  \E e \in S : /\ e.key = k /\ e.peer = r.peer /\ e.coin = r.coin /\ r = RecordOf(e)
                          /\ r.key = k /\ r \in Records /\ ~IsExpired(r, t)
  <2>1. PICK e \in S : e.key = k /\ ~IsExpired(e, t) /\ r = RecordOf(e)
    BY <1>2
  <2> QED  BY <1>1, <2>1 DEF IsExpired
<1>4. ASSUME NEW r \in StoreGet(S, k, t), NEW q \in StoreGet(S, k, t), r.peer = q.peer
      PROVE  r = q
  BY <1>3, <1>4 DEF OneEach
<1> QED  BY <1>3, <1>4 DEF Sound

(* Two sound lists of one key merge into a sound one.                       *)
LEMMA MergeIsSound ==
  ASSUME NEW auth, NEW extra, NEW t,
         \A r, q \in auth : r.peer = q.peer => r = q,
         \A r, q \in extra : r.peer = q.peer => r = q
  PROVE  Sound(MergeDedup(auth, extra, t), t)
<1>1. \A r \in MergeDedup(auth, extra, t) : ~IsExpired(r, t)
  BY DEF MergeDedup
<1>2. ASSUME NEW r \in MergeDedup(auth, extra, t), NEW q \in MergeDedup(auth, extra, t),
             r.peer = q.peer
      PROVE  r = q
  BY <1>1, <1>2, Zenon DEF MergeDedup
<1> QED  BY <1>1, <1>2 DEF Sound

LEMMA MergeFrom ==
  ASSUME NEW auth, NEW extra, NEW t
  PROVE  MergeDedup(auth, extra, t) \subseteq auth \cup extra
BY DEF MergeDedup

-----------------------------------------------------------------------------
(* Types *)

LEMMA TypeInit == Init => TypeOK
<1> SUFFICES ASSUME Init PROVE TypeOK
  OBVIOUS
<1>1. (CHOOSE k \in Keys : TRUE) \in Keys
  BY ServiceAssumption
<1>2. StoreType(EmptyStore) /\ 0 \in 0..MaxTime
  BY ServiceAssumption DEF StoreType, EmptyStore
<1>3. IdleFind \in FindCalls /\ IdleRepublish \in RepublishCalls /\ IdleSweep \in SweepCalls
  BY <1>1, <1>2 DEF IdleFind, IdleRepublish, IdleSweep, FindCalls, RepublishCalls, SweepCalls
<1>4. announced \in UNION {[D -> Pointers] : D \in SUBSET Keys}
  <2>1. announced \in [{} -> Pointers]
    BY DEF Init
  <2> QED  BY <2>1
<1> QED  BY <1>2, <1>3, <1>4 DEF Init, TypeOK

LEMMA ProvidersType ==
  ASSUME Inv, [Next]_vars
  PROVE  StoreType(providers)'
<1>1. StoreType(providers) /\ OwnRecords /\ TypeOK
  BY DEF Inv, TypeOK
<1>2. CASE Drops
  BY <1>1, <1>2, DropsShrink DEF StoreType
<1>3. CASE PutsOne
  <2>1. PICK rec : Admissible(rec) /\ \E r \in Put(providers, rec, now) : providers' = Stored(r)
    BY <1>3 DEF PutsOne
  <2>2. PICK r \in Put(providers, rec, now) : providers' = Stored(r)
    BY <2>1
  <2>3. r.store \subseteq Entries /\ r.seq \in Nat
    BY <1>1, <2>1, PutType DEF Put, Admissible, StoreType
  <2> QED  BY <2>2, <2>3 DEF Stored, StoreType
<1> QED  BY <1>1, <1>2, <1>3, ProvidersStep

LEMMA DiscoveredType ==
  ASSUME Inv, [Next]_vars
  PROVE  StoreType(discovered)'
<1>1. StoreType(discovered) /\ Cached /\ TypeOK
  BY DEF Inv, TypeOK
<1>2. CASE discovered'.entries \subseteq discovered.entries /\ discovered'.seq = discovered.seq
  BY <1>1, <1>2 DEF StoreType
<1>3. CASE CachesWalk
  BY <1>3 DEF CachesWalk, Grown, StoreType
<1> QED  BY <1>1, <1>2, <1>3, DiscoveredStep

LEMMA MarksType ==
  ASSUME Inv, [Next]_vars
  PROVE  /\ announced' \in UNION {[D -> Pointers] : D \in SUBSET Keys}
         /\ contacts' \subseteq Remotes /\ now' \in 0..MaxTime
         /\ retracted' \subseteq Keys /\ forgotten' \subseteq Keys /\ raced' \subseteq Keys
<1> USE DEF calls, history, stores
<1>t. TypeOK
  BY DEF Inv
<1>a. PICK D \in SUBSET Keys : announced \in [D -> Pointers]
  BY <1>t DEF TypeOK
<1> DEFINE MarkType(a) == a \in UNION {[C -> Pointers] : C \in SUBSET Keys}
<1>b. ASSUME NEW C \in SUBSET Keys, NEW a \in [C -> Pointers] PROVE MarkType(a)
  OBVIOUS
<1>c. MarkType(announced)
  BY <1>a, <1>b
<1>d. ASSUME NEW k PROVE MarkType(Unmarked(k))
  <2>1. Unmarked(k) \in [D \ {k} -> Pointers]
    BY <1>a DEF Unmarked
  <2>2. D \ {k} \in SUBSET Keys
    OBVIOUS
  <2> QED  BY <1>b, <2>1, <2>2
<1> HIDE DEF MarkType
<1>e. ASSUME NEW k \in Keys PROVE RacedBy(k) \subseteq Keys /\ SettledBy(k) \subseteq Keys
  BY <1>t DEF TypeOK, RacedBy, SettledBy
<1>f. ASSUME NEW f \in Finders PROVE finds[f].key \in Keys
  BY <1>t DEF TypeOK, FindCalls
<1>s. SUFFICES /\ MarkType(announced') /\ contacts' \subseteq Remotes /\ now' \in 0..MaxTime
               /\ retracted' \subseteq Keys /\ forgotten' \subseteq Keys /\ raced' \subseteq Keys
  BY DEF MarkType
<1>1. ASSUME NEW k \in Keys, NEW coin \in Pointers, Announce(k, coin) PROVE MarkType(announced')
  <2>1. announced' \in [D \cup {k} -> Pointers]
    BY <1>a, <1>1 DEF Announce
  <2>2. D \cup {k} \in SUBSET Keys
    OBVIOUS
  <2> QED  BY <1>b, <2>1, <2>2
<1>2. CASE Publishing
  BY <1>t, <1>1, <1>2, <1>c, <1>d, <1>e
     DEF Publishing, Announce, Withdraw, Retract, RepublishStart, RepublishRead, RepublishPut,
         TypeOK
<1>3. CASE Serving
  BY <1>t, <1>3, <1>c DEF Serving, Admit, Inbound, RemoveRecord, Learn, TypeOK
<1>4. CASE Routing
  BY <1>t, <1>4, <1>c DEF Routing, Bootstrap, WalkOnly, Absorb, AddPeer, RemovePeer, Learn, TypeOK
<1>5. CASE Finding
  BY <1>t, <1>5, <1>c, <1>f
     DEF Finding, FindStart, FindCache, FindSeeds, FindReturn, ForgetDiscovered, TypeOK
<1>6. CASE Sweeping
  BY <1>t, <1>6, <1>c DEF Sweeping, GcProviders, GcDiscovered, TypeOK
<1>7. CASE Tick \/ UNCHANGED vars
  <2>1. now \in 0..MaxTime /\ MaxTime \in Nat
    BY <1>t, ServiceAssumption DEF TypeOK
  <2>2. now' \in 0..MaxTime
    BY <1>7, <2>1 DEF Tick, vars
  <2> QED  BY <1>t, <1>7, <1>c, <2>2 DEF Tick, vars, TypeOK
<1> QED  BY <1>2, <1>3, <1>4, <1>5, <1>6, <1>7 DEF Next

LEMMA FindsType ==
  ASSUME Inv, [Next]_vars
  PROVE  finds' \in [Finders -> FindCalls]
<1> USE DEF calls, history, stores
<1>t. TypeOK /\ Authoritative /\ Cached
  BY DEF Inv
<1>f. ASSUME NEW f \in Finders
      PROVE  /\ finds[f] \in FindCalls /\ finds[f].key \in Keys
             /\ finds[f].local \subseteq Records /\ finds[f].began \in 0..MaxTime
  BY <1>t DEF TypeOK, FindCalls
<1>1. ASSUME NEW f \in Finders, NEW k \in Keys, FindStart(f, k)
      PROVE  finds' \in [Finders -> FindCalls]
  <2>1. StoreGet(providers.entries, k, now) \subseteq Records
    BY <1>t, GetRecords DEF TypeOK, StoreType, Authoritative
  <2> QED  BY <1>t, <1>1, <2>1 DEF FindStart, TypeOK, FindCalls
<1>r. ASSUME NEW f \in Finders, NEW answer \in SUBSET Records, NEW t \in 0..MaxTime,
             Returns(f, answer, t)
      PROVE  finds' \in [Finders -> FindCalls]
  BY <1>t, <1>r DEF Returns, TypeOK, FindCalls
<1>2. ASSUME NEW f \in Finders, FindCache(f)
      PROVE  finds' \in [Finders -> FindCalls]
  <2> DEFINE cached == StoreGet(discovered.entries, finds[f].key, finds[f].began)
             answer == MergeDedup(finds[f].local, cached, finds[f].began)
  <2>1. cached \subseteq Records
    BY <1>t, GetRecords DEF TypeOK, StoreType, Cached
  <2>2. answer \subseteq Records
    BY <1>f, <2>1, MergeFrom
  <2>3. CASE Returns(f, answer, finds[f].began)
    <3> HIDE DEF answer
    <3> QED  BY <1>f, <1>r, <2>2, <2>3
  <2>4. CASE finds' = [finds EXCEPT ![f].phase = "seeds"]
    BY <1>t, <2>4 DEF TypeOK, FindCalls
  <2> QED  BY <1>2, <2>3, <2>4 DEF FindCache
<1>3. ASSUME NEW f \in Finders, FindSeeds(f)
      PROVE  finds' \in [Finders -> FindCalls]
  <2>1. CASE Returns(f, finds[f].local, finds[f].began)
    BY <1>f, <1>r, <2>1
  <2>2. CASE finds' = [finds EXCEPT ![f].phase = "walk"]
    BY <1>t, <2>2 DEF TypeOK, FindCalls
  <2> QED  BY <1>3, <2>1, <2>2 DEF FindSeeds
<1>4. ASSUME NEW f \in Finders, NEW found \in Found(finds[f].key), NEW S \in SUBSET Remotes,
             FindReturn(f, found, S)
      PROVE  finds' \in [Finders -> FindCalls]
  <2> DEFINE answer == MergeDedup(finds[f].local, Collected(found), now)
  <2>1. Collected(found) \subseteq Records
    BY <1>f, FoundRecords
  <2>2. answer \subseteq Records
    BY <1>f, <2>1, MergeFrom
  <2>3. Returns(f, answer, now) /\ now \in 0..MaxTime
    BY <1>t, <1>4 DEF FindReturn, TypeOK
  <2> HIDE DEF answer
  <2> QED  BY <1>r, <2>2, <2>3
<1>5. CASE UNCHANGED finds
  BY <1>t, <1>5 DEF TypeOK
<1>6. CASE Publishing
  BY <1>5, <1>6 DEF Publishing, Announce, Withdraw, Retract, RepublishStart, RepublishRead,
                    RepublishPut
<1>7. CASE Serving
  BY <1>5, <1>7 DEF Serving, Admit, Inbound, RemoveRecord
<1>8. CASE Routing
  BY <1>5, <1>8 DEF Routing, Bootstrap, WalkOnly, Absorb, AddPeer, RemovePeer
<1>9. CASE Finding
  <2>1. ASSUME NEW k \in Keys, ForgetDiscovered(k) PROVE UNCHANGED finds
    BY <2>1 DEF ForgetDiscovered
  <2> QED  BY <1>1, <1>2, <1>3, <1>4, <1>5, <1>9, <2>1, Zenon DEF Finding
<1>10. CASE Sweeping
  BY <1>5, <1>10 DEF Sweeping, GcProviders, GcDiscovered
<1>11. CASE Tick \/ UNCHANGED vars
  BY <1>5, <1>11 DEF Tick, vars
<1> QED  BY <1>6, <1>7, <1>8, <1>9, <1>10, <1>11 DEF Next

LEMMA RepublishesType ==
  ASSUME Inv, [Next]_vars
  PROVE  republishes' \in [Republishers -> RepublishCalls]
<1> USE DEF calls, history, stores
<1>t. TypeOK
  BY DEF Inv
<1>1. ASSUME NEW r \in Republishers, RepublishStart(r)
      PROVE  republishes' \in [Republishers -> RepublishCalls]
  <2>1. DOMAIN announced \subseteq Keys
    BY <1>t DEF TypeOK
  <2> QED  BY <1>t, <1>1, <2>1 DEF RepublishStart, TypeOK, RepublishCalls
<1>2. ASSUME NEW r \in Republishers, NEW k \in Keys, RepublishRead(r, k)
      PROVE  republishes' \in [Republishers -> RepublishCalls]
  <2>1. Remembered(k) \in Pointers
    BY <1>t DEF Remembered, TypeOK, Pointers
  <2>2. LocalRecord(k, Remembered(k)) \in Records
    BY <1>t, <2>1, LocalRecordAdmissible DEF TypeOK
  <2> QED  BY <1>t, <1>2, <2>2 DEF RepublishRead, TypeOK, RepublishCalls
<1>3. ASSUME NEW r \in Republishers, RepublishPut(r)
      PROVE  republishes' \in [Republishers -> RepublishCalls]
  BY <1>t, <1>3 DEF RepublishPut, IdleRepublish, TypeOK, RepublishCalls
<1>4. CASE UNCHANGED republishes
  BY <1>t, <1>4 DEF TypeOK
<1>5. CASE Publishing
  <2>1. ASSUME NEW k \in Keys, NEW coin \in Pointers,
               Announce(k, coin) \/ Withdraw(k) \/ Retract(k)
        PROVE  UNCHANGED republishes
    BY <2>1 DEF Announce, Withdraw, Retract
  <2>2. NoCoin \in Pointers
    BY DEF Pointers
  <2> QED  BY <1>1, <1>2, <1>3, <1>4, <1>5, <2>1, <2>2, Zenon DEF Publishing
<1>6. CASE Serving
  BY <1>4, <1>6 DEF Serving, Admit, Inbound, RemoveRecord
<1>7. CASE Routing
  BY <1>4, <1>7 DEF Routing, Bootstrap, WalkOnly, Absorb, AddPeer, RemovePeer
<1>8. CASE Finding
  BY <1>4, <1>8 DEF Finding, FindStart, FindCache, FindSeeds, FindReturn, ForgetDiscovered
<1>9. CASE Sweeping
  BY <1>4, <1>9 DEF Sweeping, GcProviders, GcDiscovered
<1>10. CASE Tick \/ UNCHANGED vars
  BY <1>4, <1>10 DEF Tick, vars
<1> QED  BY <1>5, <1>6, <1>7, <1>8, <1>9, <1>10 DEF Next

LEMMA SweepsType ==
  ASSUME Inv, [Next]_vars
  PROVE  sweeps' \in [Collectors -> SweepCalls]
<1> USE DEF calls, history, stores
<1>t. TypeOK
  BY DEF Inv
<1>1. CASE UNCHANGED sweeps
  BY <1>t, <1>1 DEF TypeOK
<1>2. CASE Publishing
  BY <1>1, <1>2 DEF Publishing, Announce, Withdraw, Retract, RepublishStart, RepublishRead,
                    RepublishPut
<1>3. CASE Serving
  BY <1>1, <1>3 DEF Serving, Admit, Inbound, RemoveRecord
<1>4. CASE Routing
  BY <1>1, <1>4 DEF Routing, Bootstrap, WalkOnly, Absorb, AddPeer, RemovePeer
<1>5. CASE Finding
  BY <1>1, <1>5 DEF Finding, FindStart, FindCache, FindSeeds, FindReturn, ForgetDiscovered
<1>6. CASE Sweeping
  <2>1. IdleSweep \in SweepCalls
    BY ServiceAssumption DEF IdleSweep, SweepCalls
  <2>2. ASSUME NEW c \in Collectors, GcProviders(c) PROVE sweeps' \in [Collectors -> SweepCalls]
    BY <1>t, <2>2 DEF GcProviders, TypeOK, SweepCalls
  <2>3. ASSUME NEW c \in Collectors, GcDiscovered(c) PROVE sweeps' \in [Collectors -> SweepCalls]
    BY <1>t, <2>1, <2>3 DEF GcDiscovered, TypeOK
  <2> QED  BY <1>6, <2>2, <2>3 DEF Sweeping
<1>7. CASE Tick \/ UNCHANGED vars
  BY <1>1, <1>7 DEF Tick, vars
<1> QED  BY <1>2, <1>3, <1>4, <1>5, <1>6, <1>7 DEF Next

LEMMA TypeStep ==
  ASSUME Inv, [Next]_vars PROVE TypeOK'
BY ProvidersType, DiscoveredType, MarksType, FindsType, RepublishesType, SweepsType DEF TypeOK

-----------------------------------------------------------------------------
(* The other parts, one after another *)

LEMMA ClockStep ==
  ASSUME TypeOK, [Next]_vars PROVE now \in Nat /\ now' \in Nat /\ now' >= now
<1> USE DEF calls, history, stores
<1>1. now \in Nat
  BY DEF TypeOK
<1>2. CASE now' = now
  BY <1>1, <1>2
<1>3. CASE Publishing
  BY <1>2, <1>3 DEF Publishing, Announce, Withdraw, Retract, RepublishStart, RepublishRead,
                    RepublishPut
<1>4. CASE Serving \/ Routing
  BY <1>2, <1>4 DEF Serving, Admit, Inbound, RemoveRecord,
                    Routing, Bootstrap, WalkOnly, Absorb, AddPeer, RemovePeer
<1>5. CASE Finding
  BY <1>2, <1>5 DEF Finding, FindStart, FindCache, FindSeeds, FindReturn, ForgetDiscovered
<1>6. CASE Sweeping
  BY <1>2, <1>6 DEF Sweeping, GcProviders, GcDiscovered
<1>7. CASE Tick \/ UNCHANGED vars
  BY <1>1, <1>7 DEF Tick, vars
<1> QED  BY <1>3, <1>4, <1>5, <1>6, <1>7 DEF Next

LEMMA AuthoritativeStep ==
  ASSUME Inv, [Next]_vars PROVE Authoritative'
<1>1. TypeOK /\ OwnRecords /\ Authoritative
  BY DEF Inv
<1>2. now \in Nat /\ now' \in Nat /\ now' >= now /\ ProviderTtl \in Nat
  BY <1>1, ClockStep, ServiceAssumption
<1>3. \A e \in providers.entries : e.exp \in Nat
  BY <1>1, Instants DEF TypeOK, StoreType, Entries
<1>4. CASE Drops
  BY <1>1, <1>2, <1>3, <1>4, DropsShrink DEF Authoritative, OneEach
<1>5. CASE PutsOne
  <2>1. PICK rec : Admissible(rec) /\ \E r \in Put(providers, rec, now) : providers' = Stored(r)
    BY <1>5 DEF PutsOne
  <2>2. PICK r \in Put(providers, rec, now) : providers' = Stored(r)
    BY <2>1
  <2>3. /\ OneEach(r.store)
        /\ \A e \in r.store : e \in providers.entries \/ e = Entry(rec, e.seq)
    BY <1>1, PutEntries DEF Put, Authoritative
  <2>4. ASSUME NEW e \in r.store PROVE e.coin \in Attributed /\ e.exp <= now + ProviderTtl
    BY <1>1, <2>1, <2>3, EntryFields DEF Authoritative, Admissible
  <2>5. now' = now /\ providers'.entries = r.store
    BY <1>5, <2>2 DEF PutsOne, Stored
  <2> QED  BY <2>3, <2>4, <2>5 DEF Authoritative
<1> QED  BY <1>1, <1>4, <1>5, ProvidersStep

LEMMA CachedStep ==
  ASSUME Inv, [Next]_vars PROVE Cached'
<1>1. TypeOK /\ Cached
  BY DEF Inv
<1>2. now \in Nat /\ now' \in Nat /\ now' >= now /\ DiscoveryCacheTtl \in Nat
  BY <1>1, ClockStep, ServiceAssumption
<1>3. \A e \in discovered.entries : e.exp \in Nat
  BY <1>1, Instants DEF TypeOK, StoreType, Entries
<1>4. CASE discovered'.entries \subseteq discovered.entries
  BY <1>1, <1>2, <1>3, <1>4 DEF Cached, OneEach
<1>5. CASE CachesWalk
  <2>1. PICK f \in Finders : \E recs \in SUBSET Cacheables(finds[f].key) : Grown(discovered', recs)
    BY <1>5 DEF CachesWalk
  <2>2. PICK recs \in SUBSET Cacheables(finds[f].key) : Grown(discovered', recs)
    BY <2>1
  <2>3. ASSUME NEW e \in discovered'.entries
        PROVE  e.coin = Hearsay /\ e.peer # Self /\ e.exp <= now + DiscoveryCacheTtl
    <3>1. e \in discovered.entries \/ \E r \in recs : e = Entry(r, e.seq)
      BY <2>2 DEF Grown
    <3> QED  BY <1>1, <3>1, EntryFields DEF Cached, Cacheables
  <2>4. now' = now /\ OneEach(discovered'.entries)
    BY <1>5, <2>2 DEF CachesWalk, Grown
  <2> QED  BY <2>3, <2>4 DEF Cached
<1> QED  BY <1>1, <1>4, <1>5, DiscoveredStep

(* Under a republish call, nothing appears in hand but what it reads.       *)
LEMMA HandsStep ==
  ASSUME TypeOK, [Next]_vars
  PROVE  \A r \in Republishers : \A rec \in republishes'[r].rec :
           \/ rec \in republishes[r].rec
           \/ \E k \in republishes[r].todo : RepublishRead(r, k) /\ rec = LocalRecord(k, Remembered(k))
<1> USE DEF calls, history, stores
<1> SUFFICES ASSUME NEW r \in Republishers, NEW rec \in republishes'[r].rec
             PROVE  \/ rec \in republishes[r].rec
                    \/ \E k \in republishes[r].todo :
                         RepublishRead(r, k) /\ rec = LocalRecord(k, Remembered(k))
  OBVIOUS
<1>t. republishes \in [Republishers -> RepublishCalls]
  BY DEF TypeOK
<1>1. CASE UNCHANGED republishes
  BY <1>1
<1>2. ASSUME NEW s \in Republishers, RepublishStart(s) PROVE rec \in republishes[r].rec
  BY <1>t, <1>2 DEF RepublishStart
<1>3. ASSUME NEW s \in Republishers, RepublishPut(s) PROVE rec \in republishes[r].rec
  BY <1>t, <1>3 DEF RepublishPut, IdleRepublish
<1>4. ASSUME NEW s \in Republishers, NEW k \in Keys, RepublishRead(s, k)
      PROVE  \/ rec \in republishes[r].rec
             \/ k \in republishes[r].todo /\ s = r /\ rec = LocalRecord(k, Remembered(k))
  BY <1>t, <1>4 DEF RepublishRead
<1>5. CASE Publishing
  <2>1. ASSUME NEW k \in Keys, NEW coin \in Pointers,
               Announce(k, coin) \/ Withdraw(k) \/ Retract(k)
        PROVE  UNCHANGED republishes
    BY <2>1 DEF Announce, Withdraw, Retract
  <2>2. NoCoin \in Pointers
    BY DEF Pointers
  <2> QED  BY <1>1, <1>2, <1>3, <1>4, <1>5, <2>1, <2>2 DEF Publishing
<1>6. CASE Serving
  BY <1>1, <1>6 DEF Serving, Admit, Inbound, RemoveRecord
<1>7. CASE Routing
  BY <1>1, <1>7 DEF Routing, Bootstrap, WalkOnly, Absorb, AddPeer, RemovePeer
<1>8. CASE Finding
  BY <1>1, <1>8 DEF Finding, FindStart, FindCache, FindSeeds, FindReturn, ForgetDiscovered
<1>9. CASE Sweeping
  BY <1>1, <1>9 DEF Sweeping, GcProviders, GcDiscovered
<1>10. CASE Tick \/ UNCHANGED vars
  BY <1>1, <1>10 DEF Tick, vars
<1> QED  BY <1>5, <1>6, <1>7, <1>8, <1>9, <1>10 DEF Next

LEMMA OwnRecordsStep ==
  ASSUME Inv, [Next]_vars PROVE OwnRecords'
<1>1. TypeOK /\ OwnRecords
  BY DEF Inv
<1>2. now \in Nat /\ now' \in Nat /\ now' >= now /\ ProviderTtl \in Nat
  BY <1>1, ClockStep, ServiceAssumption
<1> SUFFICES ASSUME NEW r \in Republishers, NEW rec \in republishes'[r].rec
             PROVE  rec.peer = Self /\ rec.coin \in Pointers /\ rec.exp <= now' + ProviderTtl
  BY DEF OwnRecords
<1>3. CASE rec \in republishes[r].rec
  <2>1. rec.exp \in Nat
    BY <1>1, <1>3, Instants DEF TypeOK, RepublishCalls, Records
  <2> QED  BY <1>1, <1>2, <1>3, <2>1 DEF OwnRecords
<1>4. ASSUME NEW k \in republishes[r].todo, rec = LocalRecord(k, Remembered(k))
      PROVE  rec.peer = Self /\ rec.coin \in Pointers /\ rec.exp <= now' + ProviderTtl
  <2>1. Remembered(k) \in Pointers /\ k \in Keys /\ now \in 0..MaxTime
    BY <1>1 DEF Remembered, TypeOK, Pointers, RepublishCalls
  <2> QED  BY <1>2, <1>4, <2>1, LocalRecordAdmissible
<1> QED  BY <1>1, <1>3, <1>4, HandsStep

LEMMA CarriedStep ==
  ASSUME Inv, [Next]_vars PROVE Carried'
<1> USE DEF calls, history, stores
<1>t. TypeOK /\ Authoritative /\ Cached /\ Carried
  BY DEF Inv
<1> DEFINE Good(c) ==
      /\ c.phase \in Underway =>
           Sound(c.local, c.began) /\ \A r \in c.local : r.coin \in Attributed
      /\ c.phase = "returned" => Sound(c.answer, c.began)
      /\ \A r \in c.answer : r.coin \in Attributed \cup {Hearsay}
<1>a. \A f \in Finders : finds[f] \in FindCalls /\ Good(finds[f])
  BY <1>t DEF TypeOK, Carried
<1>b. SUFFICES \A f \in Finders : Good(finds'[f])
  BY DEF Carried
<1>r. ASSUME NEW f \in Finders, NEW answer, NEW t, Returns(f, answer, t), Sound(answer, t),
             \A r \in answer : r.coin \in Attributed \cup {Hearsay}
      PROVE  \A g \in Finders : Good(finds'[g])
  <2>1. finds'[f].phase = "returned" /\ finds'[f].answer = answer /\ finds'[f].began = t
    BY <1>t, <1>r DEF Returns, TypeOK
  <2>2. \A g \in Finders \ {f} : finds'[g] = finds[g]
    BY <1>t, <1>r DEF Returns, TypeOK
  <2>3. Good(finds'[f])
    BY <1>r, <2>1, Zenon DEF Underway
  <2> HIDE DEF Good
  <2> QED  BY <1>a, <2>2, <2>3
<1>p. ASSUME NEW f \in Finders, NEW ph \in Underway, finds' = [finds EXCEPT ![f].phase = ph],
             finds[f].phase \in Underway
      PROVE  \A g \in Finders : Good(finds'[g])
  <2>1. /\ finds'[f].local = finds[f].local /\ finds'[f].began = finds[f].began
        /\ finds'[f].answer = finds[f].answer /\ finds'[f].phase = ph
    BY <1>a, <1>p, <1>t DEF TypeOK, FindCalls
  <2>2. \A g \in Finders \ {f} : finds'[g] = finds[g]
    BY <1>t, <1>p DEF TypeOK
  <2>3. Good(finds'[f])
    <3>1. ph # "returned"
      BY DEF Underway
    <3> QED  BY <1>a, <1>p, <2>1, <3>1
  <2> HIDE DEF Good
  <2> QED  BY <1>a, <2>2, <2>3
<1>1. ASSUME NEW f \in Finders, NEW k \in Keys, FindStart(f, k)
      PROVE  \A g \in Finders : Good(finds'[g])
  <2> DEFINE got == StoreGet(providers.entries, k, now)
  <2>1. /\ finds'[f].phase = "cache" /\ finds'[f].local = got /\ finds'[f].began = now
        /\ finds'[f].answer = {}
    BY <1>t, <1>1 DEF FindStart, TypeOK
  <2>2. \A g \in Finders \ {f} : finds'[g] = finds[g]
    BY <1>t, <1>1 DEF FindStart, TypeOK
  <2>3. Sound(got, now) /\ \A r \in got : r.coin \in Attributed
    BY <1>t, GetRecords DEF Authoritative, TypeOK, StoreType
  <2>4. Good(finds'[f])
    <3> HIDE DEF got
    <3> QED  BY <2>1, <2>3
  <2> HIDE DEF Good
  <2> QED  BY <1>a, <2>2, <2>4
<1>2. ASSUME NEW f \in Finders, FindCache(f)
      PROVE  \A g \in Finders : Good(finds'[g])
  <2> DEFINE cached == StoreGet(discovered.entries, finds[f].key, finds[f].began)
             answer == MergeDedup(finds[f].local, cached, finds[f].began)
  <2>1. finds[f].phase = "cache" /\ Sound(finds[f].local, finds[f].began)
        /\ \A r \in finds[f].local : r.coin \in Attributed
    BY <1>t, <1>2 DEF FindCache, Carried, Underway
  <2>2. CASE Returns(f, answer, finds[f].began)
    <3>1. Sound(cached, finds[f].began) /\ \A r \in cached : r.coin = Hearsay
      BY <1>t, GetRecords DEF Cached, TypeOK, StoreType
    <3>2. Sound(answer, finds[f].began)
      BY <2>1, <3>1, MergeIsSound DEF Sound
    <3>3. \A r \in answer : r.coin \in Attributed \cup {Hearsay}
      BY <2>1, <3>1, MergeFrom
    <3> HIDE DEF answer, Good
    <3> QED  BY <1>r, <2>2, <3>2, <3>3
  <2>3. CASE finds' = [finds EXCEPT ![f].phase = "seeds"]
    <3>1. "seeds" \in Underway /\ finds[f].phase \in Underway
      BY <2>1 DEF Underway
    <3> HIDE DEF Good
    <3> QED  BY <1>p, <2>3, <3>1
  <2> QED  BY <1>2, <2>2, <2>3 DEF FindCache
<1>3. ASSUME NEW f \in Finders, FindSeeds(f)
      PROVE  \A g \in Finders : Good(finds'[g])
  <2>1. finds[f].phase = "seeds" /\ Sound(finds[f].local, finds[f].began)
        /\ \A r \in finds[f].local : r.coin \in Attributed
    BY <1>t, <1>3 DEF FindSeeds, Carried, Underway
  <2>2. CASE Returns(f, finds[f].local, finds[f].began)
    <3> HIDE DEF Good
    <3> QED  BY <1>r, <2>1, <2>2
  <2>3. CASE finds' = [finds EXCEPT ![f].phase = "walk"]
    <3>1. "walk" \in Underway /\ finds[f].phase \in Underway
      BY <2>1 DEF Underway
    <3> HIDE DEF Good
    <3> QED  BY <1>p, <2>3, <3>1
  <2> QED  BY <1>3, <2>2, <2>3 DEF FindSeeds
<1>4. ASSUME NEW f \in Finders, NEW found \in Found(finds[f].key), NEW S \in SUBSET Remotes,
             FindReturn(f, found, S)
      PROVE  \A g \in Finders : Good(finds'[g])
  <2> DEFINE answer == MergeDedup(finds[f].local, Collected(found), now)
  <2>1. Sound(finds[f].local, finds[f].began) /\ \A r \in finds[f].local : r.coin \in Attributed
    BY <1>t, <1>4 DEF FindReturn, Carried, Underway
  <2>2. /\ \A r \in Collected(found) : r.coin = Hearsay
        /\ \A r, q \in Collected(found) : r.peer = q.peer => r = q
    BY <1>a, FoundRecords DEF FindCalls
  <2>3. Sound(answer, now)
    BY <2>1, <2>2, MergeIsSound DEF Sound
  <2>4. \A r \in answer : r.coin \in Attributed \cup {Hearsay}
    BY <2>1, <2>2, MergeFrom
  <2>5. Returns(f, answer, now)
    BY <1>4 DEF FindReturn
  <2> HIDE DEF answer, Good
  <2> QED  BY <1>r, <2>3, <2>4, <2>5
<1> HIDE DEF Good
<1>5. CASE UNCHANGED finds
  BY <1>a, <1>5
<1>6. CASE Publishing
  BY <1>5, <1>6 DEF Publishing, Announce, Withdraw, Retract, RepublishStart, RepublishRead,
                    RepublishPut
<1>7. CASE Serving
  BY <1>5, <1>7 DEF Serving, Admit, Inbound, RemoveRecord
<1>8. CASE Routing
  BY <1>5, <1>8 DEF Routing, Bootstrap, WalkOnly, Absorb, AddPeer, RemovePeer
<1>9. CASE Finding
  <2>1. ASSUME NEW k \in Keys, ForgetDiscovered(k) PROVE UNCHANGED finds
    BY <2>1 DEF ForgetDiscovered
  <2> QED  BY <1>1, <1>2, <1>3, <1>4, <1>5, <1>9, <2>1, Zenon DEF Finding
<1>10. CASE Sweeping
  BY <1>5, <1>10 DEF Sweeping, GcProviders, GcDiscovered
<1>11. CASE Tick \/ UNCHANGED vars
  BY <1>5, <1>11 DEF Tick, vars
<1> QED  BY <1>6, <1>7, <1>8, <1>9, <1>10, <1>11 DEF Next

(* A walk begins at FindSeeds, which takes its key off the forgotten ones.  *)
LEMMA WalksStep ==
  ASSUME TypeOK, [Next]_vars
  PROVE  /\ \A f \in Finders : finds'[f].phase = "walk" =>
              /\ finds'[f].key = finds[f].key
              /\ finds[f].phase = "walk" \/ finds[f].key \notin forgotten'
         /\ \A k \in forgotten' : k \in forgotten \/ ForgetDiscovered(k)
<1> USE DEF calls, history, stores
<1>t. finds \in [Finders -> FindCalls]
  BY DEF TypeOK
<1> DEFINE Ok == /\ \A f \in Finders : finds'[f].phase = "walk" =>
                      /\ finds'[f].key = finds[f].key
                      /\ finds[f].phase = "walk" \/ finds[f].key \notin forgotten'
                 /\ \A k \in forgotten' : k \in forgotten \/ ForgetDiscovered(k)
<1>s. SUFFICES Ok
  OBVIOUS
<1>1. CASE UNCHANGED <<finds, forgotten>>
  BY <1>1
<1>2. ASSUME NEW f \in Finders, NEW k \in Keys, FindStart(f, k) PROVE Ok
  BY <1>t, <1>2 DEF FindStart
<1>3. ASSUME NEW f \in Finders, FindCache(f) PROVE Ok
  <2>1. UNCHANGED forgotten
    BY <1>3 DEF FindCache
  <2>2. \/ \E answer : Returns(f, answer, finds[f].began)
        \/ finds' = [finds EXCEPT ![f].phase = "seeds"]
    BY <1>3, Zenon DEF FindCache
  <2> QED  BY <1>t, <2>1, <2>2 DEF Returns, FindCalls
<1>4. ASSUME NEW f \in Finders, FindSeeds(f) PROVE Ok
  BY <1>t, <1>4 DEF FindSeeds, Returns, FindCalls
<1>5. ASSUME NEW f \in Finders, NEW found \in Found(finds[f].key), NEW S \in SUBSET Remotes,
             FindReturn(f, found, S)
      PROVE  Ok
  BY <1>t, <1>5 DEF FindReturn, Returns
<1>6. ASSUME NEW k \in Keys, ForgetDiscovered(k) PROVE Ok
  <2>1. UNCHANGED finds /\ forgotten' \subseteq forgotten \cup {k}
    BY <1>6 DEF ForgetDiscovered
  <2> QED  BY <1>6, <2>1
<1> HIDE DEF Ok
<1>7. CASE Publishing
  BY <1>1, <1>7 DEF Publishing, Announce, Withdraw, Retract, RepublishStart, RepublishRead,
                    RepublishPut, Ok
<1>8. CASE Serving
  BY <1>1, <1>8 DEF Serving, Admit, Inbound, RemoveRecord, Ok
<1>9. CASE Routing
  BY <1>1, <1>9 DEF Routing, Bootstrap, WalkOnly, Absorb, AddPeer, RemovePeer, Ok
<1>10. CASE Finding
  BY <1>2, <1>3, <1>4, <1>5, <1>6, <1>10, Zenon DEF Finding
<1>11. CASE Sweeping
  BY <1>1, <1>11 DEF Sweeping, GcProviders, GcDiscovered, Ok
<1>12. CASE Tick \/ UNCHANGED vars
  BY <1>1, <1>12 DEF Tick, vars, Ok
<1> QED  BY <1>7, <1>8, <1>9, <1>10, <1>11, <1>12 DEF Next

LEMMA GoneStep ==
  ASSUME Inv, [Next]_vars PROVE Gone'
<1>1. TypeOK /\ Cached /\ Gone
  BY DEF Inv
<1>2. ASSUME NEW k \in forgotten PROVE OfKey(discovered.entries, k)' = {}
  <2>1. CASE discovered'.entries \subseteq discovered.entries
    BY <1>1, <2>1 DEF Gone, OfKey
  <2>2. CASE CachesWalk
    <3>1. PICK f \in Finders : \E recs \in SUBSET Cacheables(finds[f].key) :
                                  finds[f].phase = "walk" /\ Grown(discovered', recs)
      BY <2>2 DEF CachesWalk
    <3>2. finds[f].key # k /\ \A e \in discovered.entries : e.key # k
      BY <1>1, <3>1 DEF Gone, OfKey
    <3>3. ASSUME NEW e \in discovered'.entries PROVE e.key # k
      BY <3>1, <3>2, EntryFields DEF Grown, Cacheables
    <3> QED  BY <3>3 DEF OfKey
  <2> QED  BY <1>1, <2>1, <2>2, DiscoveredStep
<1>3. ASSUME NEW k \in forgotten', ForgetDiscovered(k), k \notin forgotten
      PROVE  /\ OfKey(discovered.entries, k)' = {}
             /\ \A f \in Finders : finds'[f].phase = "walk" => finds'[f].key # k
  BY <1>3 DEF ForgetDiscovered, Forget, WithEntries, StoreRemoveKey, OfKey, calls
<1>4. ASSUME NEW k \in forgotten', k \in forgotten, NEW f \in Finders, finds'[f].phase = "walk"
      PROVE  finds'[f].key # k
  BY <1>1, <1>4, WalksStep DEF Gone
<1> QED  BY <1>1, <1>2, <1>3, <1>4, WalksStep DEF Gone

-----------------------------------------------------------------------------
(* Marks, own records and what is in a republish call's hands *)

(* Marks change by announcing, withdrawing and retracting only.             *)
LEMMA MarksStep ==
  ASSUME [Next]_vars
  PROVE  \/ /\ UNCHANGED republishes
            /\ \E k \in Keys :
                 (\E coin \in Pointers : Announce(k, coin)) \/ Withdraw(k) \/ Retract(k)
         \/ UNCHANGED <<announced, retracted, raced>>
<1> USE DEF calls, history, stores
<1> SUFFICES ASSUME ~ UNCHANGED <<announced, retracted, raced>>
             PROVE  /\ UNCHANGED republishes
                    /\ \E k \in Keys : \/ \E coin \in Pointers : Announce(k, coin)
                                      \/ Withdraw(k) \/ Retract(k)
  OBVIOUS
<1>1. CASE Publishing
  <2>1. ASSUME NEW r \in Republishers, NEW k \in Keys,
               RepublishStart(r) \/ RepublishRead(r, k) \/ RepublishPut(r)
        PROVE  FALSE
    BY <2>1 DEF RepublishStart, RepublishRead, RepublishPut
  <2>2. ASSUME NEW k \in Keys, NEW coin \in Pointers,
               Announce(k, coin) \/ Withdraw(k) \/ Retract(k)
        PROVE  UNCHANGED republishes
    BY <2>2 DEF Announce, Withdraw, Retract
  <2>3. NoCoin \in Pointers /\ Keys # {}
    BY ServiceAssumption DEF Pointers
  <2> QED  BY <1>1, <2>1, <2>2, <2>3, SMTT(30) DEF Publishing
<1>2. CASE Serving
  BY <1>2 DEF Serving, Admit, Inbound, RemoveRecord
<1>3. CASE Routing
  BY <1>3 DEF Routing, Bootstrap, WalkOnly, Absorb, AddPeer, RemovePeer
<1>4. CASE Finding
  BY <1>4 DEF Finding, FindStart, FindCache, FindSeeds, FindReturn, ForgetDiscovered
<1>5. CASE Sweeping
  BY <1>5 DEF Sweeping, GcProviders, GcDiscovered
<1>6. CASE Tick \/ UNCHANGED vars
  BY <1>6 DEF Tick, vars
<1> QED  BY <1>1, <1>2, <1>3, <1>4, <1>5, <1>6 DEF Next

(* A key comes under a republish call by being announced when it starts.    *)
LEMMA UnderStep ==
  ASSUME TypeOK, [Next]_vars, NEW k, UnderRepublish(k)'
  PROVE  UnderRepublish(k) \/ k \in DOMAIN announced
<1> USE DEF calls, history, stores
<1>t. republishes \in [Republishers -> RepublishCalls]
  BY DEF TypeOK
<1>1. PICK r \in Republishers : \/ k \in republishes'[r].todo
                              \/ \E rec \in republishes'[r].rec : rec.key = k
  BY DEF UnderRepublish
<1>2. CASE \E rec \in republishes'[r].rec : rec.key = k
  <2>1. PICK rec \in republishes'[r].rec : rec.key = k
    BY <1>2
  <2>2. CASE rec \in republishes[r].rec
    BY <2>1, <2>2 DEF UnderRepublish
  <2>3. ASSUME NEW j \in republishes[r].todo, rec = LocalRecord(j, Remembered(j))
        PROVE  UnderRepublish(k)
    BY <2>1, <2>3 DEF UnderRepublish, LocalRecord, Record
  <2> QED  BY <2>1, <2>2, <2>3, HandsStep
<1>3. CASE k \in republishes'[r].todo
  <2> SUFFICES k \in republishes[r].todo \/ k \in DOMAIN announced
    BY DEF UnderRepublish
  <2>1. CASE UNCHANGED republishes
    BY <1>3, <2>1
  <2>2. ASSUME NEW s \in Republishers, RepublishStart(s)
        PROVE  k \in republishes[r].todo \/ k \in DOMAIN announced
    BY <1>t, <1>3, <2>2 DEF RepublishStart
  <2>3. ASSUME NEW s \in Republishers, NEW j \in Keys, RepublishRead(s, j)
        PROVE  k \in republishes[r].todo
    BY <1>t, <1>3, <2>3 DEF RepublishRead
  <2>4. ASSUME NEW s \in Republishers, RepublishPut(s)
        PROVE  k \in republishes[r].todo
    BY <1>t, <1>3, <2>4 DEF RepublishPut, IdleRepublish
  <2>5. CASE Publishing
    <3>1. ASSUME NEW j \in Keys, NEW coin \in Pointers,
                 Announce(j, coin) \/ Withdraw(j) \/ Retract(j)
          PROVE  UNCHANGED republishes
      BY <3>1 DEF Announce, Withdraw, Retract
    <3>2. NoCoin \in Pointers
      BY DEF Pointers
    <3> QED  BY <2>1, <2>2, <2>3, <2>4, <2>5, <3>1, <3>2 DEF Publishing
  <2>6. CASE Serving
    BY <2>1, <2>6 DEF Serving, Admit, Inbound, RemoveRecord
  <2>7. CASE Routing
    BY <2>1, <2>7 DEF Routing, Bootstrap, WalkOnly, Absorb, AddPeer, RemovePeer
  <2>8. CASE Finding
    BY <2>1, <2>8 DEF Finding, FindStart, FindCache, FindSeeds, FindReturn, ForgetDiscovered
  <2>9. CASE Sweeping
    BY <2>1, <2>9 DEF Sweeping, GcProviders, GcDiscovered
  <2>10. CASE Tick \/ UNCHANGED vars
    BY <2>1, <2>10 DEF Tick, vars
  <2> QED  BY <2>5, <2>6, <2>7, <2>8, <2>9, <2>10 DEF Next
<1> QED  BY <1>1, <1>2, <1>3

(* Own entries come from announcing their key, or from a republish call's   *)
(* hands.                                                                  *)
Republished(k, e) ==
  \E r \in Republishers : \E rec \in republishes[r].rec : rec.key = k /\ e.coin = rec.coin

LEMMA OwnPut ==
  ASSUME Inv, NEW rec, NEW res \in Put(providers, rec, now), providers' = Stored(res), NEW k
  PROVE  \A e \in OwnEntry(k)' :
           /\ e \in OwnEntry(k) \/ (rec.key = k /\ rec.peer = Self /\ e.coin = rec.coin)
           /\ (rec.key = k /\ rec.peer = Self) => e.coin = rec.coin
<1>1. /\ \A e \in res.store : e \in providers.entries \/ e = Entry(rec, e.seq)
      /\ \A e \in res.store : (e.key = rec.key /\ e.peer = rec.peer) => e = Entry(rec, e.seq)
  BY PutEntries DEF Put
<1>2. providers'.entries = res.store
  BY DEF Stored
<1> SUFFICES ASSUME NEW e \in OwnEntry(k)'
             PROVE  /\ e \in OwnEntry(k) \/ (rec.key = k /\ rec.peer = Self /\ e.coin = rec.coin)
                    /\ (rec.key = k /\ rec.peer = Self) => e.coin = rec.coin
  OBVIOUS
<1>3. e \in res.store /\ e.key = k /\ e.peer = Self
  BY <1>2 DEF OwnEntry
<1>4. e \in OwnEntry(k) \/ (rec.key = k /\ rec.peer = Self /\ e.coin = rec.coin)
  <2>1. e \in providers.entries => e \in OwnEntry(k)
    BY <1>3 DEF OwnEntry
  <2> QED  BY <1>1, <1>3, <2>1, EntryFields
<1>5. (rec.key = k /\ rec.peer = Self) => e.coin = rec.coin
  BY <1>1, <1>3, EntryFields
<1> QED  BY <1>4, <1>5

LEMMA AnnouncedPointer ==
  ASSUME Inv, NEW k \in Keys, NEW coin \in Pointers, Announce(k, coin)
  PROVE  /\ \A e \in OwnEntry(k)' : e.coin = coin
         /\ \A j : j # k => \A e \in OwnEntry(j)' : e \in OwnEntry(j)
<1>1. now \in 0..MaxTime
  BY DEF Inv, TypeOK
<1>2. PICK res \in Put(providers, LocalRecord(k, coin), now) : providers' = Stored(res)
  BY DEF Announce
<1>3. /\ LocalRecord(k, coin).coin = coin /\ LocalRecord(k, coin).key = k
      /\ LocalRecord(k, coin).peer = Self
  BY <1>1, LocalRecordAdmissible
<1> QED  BY <1>2, <1>3, OwnPut

LEMMA OwnStep ==
  ASSUME Inv, [Next]_vars, NEW k, NEW e \in OwnEntry(k)'
  PROVE  \/ e \in OwnEntry(k) \/ Republished(k, e)
         \/ k \in Keys /\ \E coin \in Pointers : Announce(k, coin)
<1> USE DEF calls, history, stores
<1>t. TypeOK /\ OwnRecords /\ now \in 0..MaxTime
  BY DEF Inv, TypeOK
<1>1. ASSUME NEW j \in Keys, NEW coin \in Pointers, Announce(j, coin)
      PROVE  e \in OwnEntry(k) \/ j = k
  BY <1>1, AnnouncedPointer
<1>2. ASSUME NEW r \in Republishers, RepublishPut(r)
      PROVE  e \in OwnEntry(k) \/ Republished(k, e)
  <2>1. PICK rec \in republishes[r].rec :
          \E res \in Put(providers, rec, now) : providers' = Stored(res)
    BY <1>2 DEF RepublishPut
  <2>2. PICK res \in Put(providers, rec, now) : providers' = Stored(res)
    BY <2>1
  <2>3. e \in OwnEntry(k) \/ (rec.key = k /\ e.coin = rec.coin)
    BY <2>2, OwnPut
  <2> QED  BY <2>1, <2>3 DEF Republished
<1>3. ASSUME NEW j \in Keys, NEW p \in Remotes, NEW x \in Claims,
             NEW shape \in {Verified, RawVerified}, Admit(j, p, x, shape)
      PROVE  e \in OwnEntry(k)
  <2> DEFINE rec == Normalized(Record(j, p, Clamped(x, ProviderTtl), shape))
  <2>1. rec.peer # Self
    BY ServiceAssumption DEF Normalized, Record
  <2>2. PICK res \in Put(providers, rec, now) : providers' = Stored(res)
    BY <1>3 DEF Admit
  <2> HIDE DEF rec
  <2> QED  BY <2>1, <2>2, OwnPut
<1>4. CASE providers'.entries \subseteq providers.entries
  BY <1>4 DEF OwnEntry
<1>5. CASE UNCHANGED providers
  BY <1>4, <1>5
<1>6. CASE Publishing
  <2>1. ASSUME NEW j \in Keys, NEW r \in Republishers, RepublishRead(r, j)
        PROVE UNCHANGED providers
    BY <2>1 DEF RepublishRead
  <2>2. ASSUME NEW j \in Keys, Withdraw(j) PROVE UNCHANGED providers
    BY <2>2 DEF Withdraw
  <2>3. ASSUME NEW r \in Republishers, RepublishStart(r) PROVE UNCHANGED providers
    BY <2>3 DEF RepublishStart
  <2>4. ASSUME NEW j \in Keys, Retract(j) PROVE providers'.entries \subseteq providers.entries
    BY <2>4 DEF Retract, WithEntries, StoreRemove
  <2> QED  BY <1>1, <1>2, <1>4, <1>5, <1>6, <2>1, <2>2, <2>3, <2>4 DEF Publishing
<1>7. CASE Serving
  <2>1. ASSUME NEW p \in Remotes, Inbound(p) PROVE UNCHANGED providers
    BY <2>1 DEF Inbound
  <2>2. ASSUME NEW j \in Keys, NEW p \in Remotes, RemoveRecord(j, p)
        PROVE  providers'.entries \subseteq providers.entries
    BY <2>2 DEF RemoveRecord, WithEntries, StoreRemove
  <2> QED  BY <1>3, <1>4, <1>5, <1>7, <2>1, <2>2, Zenon DEF Serving
<1>8. CASE Routing
  BY <1>5, <1>8 DEF Routing, Bootstrap, WalkOnly, Absorb, AddPeer, RemovePeer
<1>9. CASE Finding
  BY <1>5, <1>9 DEF Finding, FindStart, FindCache, FindSeeds, FindReturn, ForgetDiscovered
<1>10. CASE Sweeping
  <2>1. ASSUME NEW c \in Collectors, GcProviders(c)
        PROVE  providers'.entries \subseteq providers.entries
    BY <2>1 DEF GcProviders, WithEntries, StoreGc
  <2>2. ASSUME NEW c \in Collectors, GcDiscovered(c) PROVE UNCHANGED providers
    BY <2>2 DEF GcDiscovered
  <2> QED  BY <1>4, <1>5, <1>10, <2>1, <2>2, Zenon DEF Sweeping
<1>11. CASE Tick \/ UNCHANGED vars
  BY <1>5, <1>11 DEF Tick, vars
<1> QED  BY <1>6, <1>7, <1>8, <1>9, <1>10, <1>11 DEF Next

LEMMA RetractedStaysStep ==
  ASSUME Inv, [Next]_vars PROVE RetractedStays'
<1>1. TypeOK /\ RetractedStays
  BY DEF Inv
<1> SUFFICES ASSUME NEW k \in retracted'
             PROVE  /\ k \notin DOMAIN announced'
                    /\ (UnderRepublish(k)' \/ OwnEntry(k)' # {}) => k \in raced'
  BY DEF RetractedStays
<1> DEFINE Touched == UnderRepublish(k) \/ OwnEntry(k) # {}
<1>2. k \in Keys
  BY TypeStep DEF TypeOK
<1>3. CASE k \in retracted /\ \A coin \in Pointers : ~Announce(k, coin)
  <2>1. k \notin DOMAIN announced /\ (Touched => k \in raced)
    BY <1>1, <1>3 DEF RetractedStays
  <2>2. UnderRepublish(k)' => Touched
    BY <1>1, <2>1, UnderStep
  <2>3. ASSUME NEW e \in OwnEntry(k)' PROVE Touched
    BY <1>3, <2>3, OwnStep DEF Republished, UnderRepublish
  <2>4. CASE UNCHANGED <<announced, retracted, raced>>
    BY <2>1, <2>2, <2>3, <2>4
  <2>5. ASSUME NEW j \in Keys, Withdraw(j)
        PROVE  k \notin DOMAIN announced' /\ raced \subseteq raced'
    BY <2>1, <2>5 DEF Withdraw, Unmarked, RacedBy
  <2>6. ASSUME NEW j \in Keys, NEW coin \in Pointers, Announce(j, coin)
        PROVE  k \notin DOMAIN announced' /\ (k \in raced => k \in raced')
    BY <1>3, <2>1, <2>6 DEF Announce, SettledBy
  <2>7. ASSUME NEW j \in Keys, Retract(j), j # k
        PROVE  k \notin DOMAIN announced' /\ (k \in raced => k \in raced')
    BY <2>1, <2>7 DEF Retract, Unmarked, SettledBy
  <2>8. ASSUME Retract(k), UNCHANGED republishes
        PROVE  /\ k \notin DOMAIN announced' /\ OwnEntry(k)' = {}
               /\ UnderRepublish(k)' => k \in raced'
    BY <2>8 DEF Retract, Unmarked, SettledBy, OwnEntry, WithEntries, StoreRemove, UnderRepublish
  <2> HIDE DEF Touched
  <2> QED  BY <2>1, <2>2, <2>3, <2>4, <2>5, <2>6, <2>7, <2>8, MarksStep
<1>4. ASSUME NEW coin \in Pointers, Announce(k, coin) PROVE FALSE
  BY <1>4 DEF Announce
<1>5. CASE k \notin retracted
  <2>1. ASSUME NEW j \in Keys, Withdraw(j) PROVE FALSE
    BY <1>5, <2>1 DEF Withdraw
  <2>2. ASSUME NEW j \in Keys, NEW coin \in Pointers, Announce(j, coin) PROVE FALSE
    BY <1>5, <2>2 DEF Announce
  <2>3. ASSUME NEW j \in Keys, Retract(j), UNCHANGED republishes
        PROVE  /\ k \notin DOMAIN announced' /\ OwnEntry(k)' = {}
               /\ UnderRepublish(k)' => k \in raced'
    <3>1. j = k
      BY <1>5, <2>3 DEF Retract
    <3> QED  BY <2>3, <3>1 DEF Retract, Unmarked, SettledBy, OwnEntry, WithEntries, StoreRemove,
                               UnderRepublish
  <2> QED  BY <1>5, <2>1, <2>2, <2>3, MarksStep
<1> QED  BY <1>3, <1>4, <1>5

LEMMA PointersAgreeStep ==
  ASSUME Inv, [Next]_vars PROVE PointersAgree'
<1>1. TypeOK /\ PointersAgree
  BY DEF Inv
<1> SUFFICES ASSUME NEW k \in DOMAIN announced', k \notin raced'
             PROVE  /\ \A r \in Republishers : \A rec \in republishes'[r].rec :
                         rec.key = k => rec.coin = announced'[k]
                    /\ \A e \in OwnEntry(k)' : e.coin = announced'[k]
  BY DEF PointersAgree
<1> DEFINE Marked == k \in DOMAIN announced /\ k \notin raced /\ announced'[k] = announced[k]
<1>a. k \in Keys
  BY TypeStep DEF TypeOK
<1>2. CASE Marked /\ \A coin \in Pointers : ~Announce(k, coin)
  <2>1. /\ \A r \in Republishers : \A rec \in republishes[r].rec :
             rec.key = k => rec.coin = announced[k]
        /\ \A e \in OwnEntry(k) : e.coin = announced[k]
    BY <1>1, <1>2 DEF PointersAgree
  <2>2. ASSUME NEW r \in Republishers, NEW rec \in republishes'[r].rec, rec.key = k
        PROVE  rec.coin = announced[k]
    <3>1. CASE rec \in republishes[r].rec
      BY <2>1, <2>2, <3>1
    <3>2. ASSUME NEW j \in republishes[r].todo, rec = LocalRecord(j, Remembered(j))
          PROVE  rec.coin = announced[k]
      <4>1. j = k /\ rec.coin = Remembered(j)
        BY <2>2, <3>2 DEF LocalRecord, Record
      <4> QED  BY <1>2, <4>1 DEF Remembered
    <3> QED  BY <1>1, <3>1, <3>2, HandsStep
  <2>3. ASSUME NEW e \in OwnEntry(k)' PROVE e.coin = announced[k]
    <3>1. CASE e \in OwnEntry(k)
      BY <2>1, <3>1
    <3>2. CASE Republished(k, e)
      BY <2>1, <3>2 DEF Republished
    <3> QED  BY <1>2, <3>1, <3>2, OwnStep
  <2> QED  BY <1>2, <2>2, <2>3
<1>3. ASSUME NEW coin \in Pointers, Announce(k, coin), UNCHANGED republishes
      PROVE  /\ \A r \in Republishers : \A rec \in republishes'[r].rec : rec.key # k
             /\ announced'[k] = coin /\ \A e \in OwnEntry(k)' : e.coin = coin
  <2>1. ~UnderRepublish(k) /\ announced'[k] = coin
    BY <1>3 DEF Announce, SettledBy
  <2>2. \A e \in OwnEntry(k)' : e.coin = coin
    BY <1>3, <1>a, AnnouncedPointer
  <2> QED  BY <1>3, <2>1, <2>2 DEF UnderRepublish
<1>4. ASSUME NEW coin \in Pointers, Announce(k, coin) PROVE UNCHANGED republishes
  BY <1>4 DEF Announce, calls
<1>5. CASE \A coin \in Pointers : ~Announce(k, coin)
  <2>2. ASSUME NEW j \in Keys, Withdraw(j) PROVE Marked
    BY <2>2 DEF Withdraw, Unmarked, RacedBy
  <2>3. ASSUME NEW j \in Keys, NEW coin \in Pointers, Announce(j, coin) PROVE Marked
    <3>1. j # k
      BY <1>5, <2>3
    <3> QED  BY <2>3, <3>1 DEF Announce, SettledBy
  <2>4. ASSUME NEW j \in Keys, Retract(j) PROVE Marked
    BY <2>4 DEF Retract, Unmarked, SettledBy
  <2>5. Marked
    <3> HIDE DEF Marked
    <3>1. UNCHANGED <<announced, retracted, raced>> => Marked
      BY Zenon DEF Marked
    <3> QED  BY <2>2, <2>3, <2>4, <3>1, MarksStep
  <2> QED  BY <1>2, <1>5, <2>5
<1> QED  BY <1>3, <1>4, <1>5

-----------------------------------------------------------------------------
(* Theorems *)

LEMMA InvInit == Init => Inv
<1> SUFFICES ASSUME Init PROVE Inv
  OBVIOUS
<1>1. providers.entries = {} /\ discovered.entries = {}
  BY DEF Init, EmptyStore
<1>2. \A f \in Finders : finds[f].phase = "idle" /\ finds[f].answer = {}
  BY DEF Init, IdleFind
<1>3. \A r \in Republishers : republishes[r].rec = {} /\ republishes[r].todo = {}
  BY DEF Init, IdleRepublish
<1>4. DOMAIN announced = {} /\ retracted = {} /\ forgotten = {}
  BY DEF Init
<1>5. OwnRecords /\ Authoritative /\ Cached
  BY <1>1, <1>3 DEF OwnRecords, Authoritative, Cached, OneEach
<1>6. Carried /\ Gone
  BY <1>2, <1>4 DEF Carried, Gone, Underway
<1>7. RetractedStays /\ PointersAgree
  BY <1>4 DEF RetractedStays, PointersAgree
<1> QED  BY <1>5, <1>6, <1>7, TypeInit DEF Inv

LEMMA InvStep == Inv /\ [Next]_vars => Inv'
<1> SUFFICES ASSUME Inv, [Next]_vars PROVE Inv'
  OBVIOUS
<1>1. TypeOK' /\ OwnRecords' /\ Authoritative' /\ Cached'
  BY TypeStep, OwnRecordsStep, AuthoritativeStep, CachedStep
<1>2. Carried' /\ Gone' /\ RetractedStays' /\ PointersAgree'
  BY CarriedStep, GoneStep, RetractedStaysStep, PointersAgreeStep
<1> QED  BY <1>1, <1>2 DEF Inv

(* Every reachable state of a node satisfies the inductive invariant.       *)
THEOREM ServiceInvariant == Spec => []Inv
BY InvInit, InvStep, PTL DEF Spec

(* The type invariant of a node (service.rs: the state behind its mutexes   *)
(* and what its asynchronous operations carry between them).               *)
THEOREM ServiceTypes == Spec => []TypeOK
<1>1. Inv => TypeOK
  BY DEF Inv
<1> QED  BY <1>1, ServiceInvariant, PTL

(* Records collected on a walk are never served and never republished,      *)
(* whatever the network answers (the provider_store and discovery_cache of *)
(* service.rs stay apart, SPEC 6.8).                                       *)
THEOREM HearsayIsNeverServed == Spec => []HearsayStaysPrivate
<1>1. Inv => HearsayStaysPrivate
  <2> SUFFICES ASSUME Inv PROVE HearsayStaysPrivate
    OBVIOUS
  <2>1. ASSUME NEW k \in Keys, NEW rec \in Served(k)
        PROVE  rec.coin \notin {Hearsay, RawHearsay}
    <3>1. providers.entries \in SUBSET Entries /\ OneEach(providers.entries)
      BY DEF Inv, TypeOK, StoreType, Authoritative
    <3>2. rec.coin \in Attributed
      BY <3>1, GetRecords DEF Inv, Authoritative, Served
    <3> QED  BY <3>2, ServiceAssumption DEF Attributed, Pointers
  <2> QED  BY <2>1 DEF Inv, OwnRecords, HearsayStaysPrivate
<1> QED  BY <1>1, ServiceInvariant, PTL

(* Admission: whatever expiry and shape a remote node claims, what is kept  *)
(* is clamped to the store's TTL and normalised, and the cache never holds  *)
(* an echo of this node (admit_verified_record, cache_discovered).         *)
THEOREM RemoteClaimsAreClamped == Spec => []KeptAsAdmitted
<1>1. Inv => KeptAsAdmitted
  <2> SUFFICES ASSUME Inv PROVE KeptAsAdmitted
    OBVIOUS
  <2>1. TtlBounded /\ NoSelfInCache
    BY DEF Inv, Authoritative, Cached, TtlBounded, NoSelfInCache
  <2>2. \A c \in Attributed \cup {Hearsay} : c \notin {RawVerified, RawHearsay}
    BY ServiceAssumption DEF Attributed, Pointers
  <2>3. NothingRawIsKept
    BY <2>2 DEF Inv, Authoritative, Cached, Carried, NothingRawIsKept
  <2> QED  BY <2>1, <2>3 DEF KeptAsAdmitted
<1> QED  BY <1>1, ServiceInvariant, PTL

(* forget_discovered: a key forgotten while nobody walks for it stays out   *)
(* of the cache until somebody does, so the next find asks the network.    *)
THEOREM ForgettingLasts == Spec => []ForgottenUnlessWalking
<1>1. Inv => ForgottenUnlessWalking
  BY DEF Inv, Gone, ForgottenUnlessWalking, StoreGet
<1> QED  BY <1>1, ServiceInvariant, PTL

(* find_providers: the answer names every provider of which a live record   *)
(* is known exactly once, whatever expired, was put, swept or retracted     *)
(* between its locks and its awaits.                                       *)
THEOREM AnswersAreSound == Spec => []AnswersLoseNobody
<1>1. Inv => AnswersLoseNobody
  <2> SUFFICES ASSUME Inv, NEW f \in Finders, NEW recs
               PROVE  /\ finds[f].phase = "returned" => Sound(finds[f].answer, finds[f].began)
                      /\ {r.peer : r \in MergeDedup(finds[f].local, recs, now)}
                           = {r.peer : r \in {q \in finds[f].local \cup recs : ~IsExpired(q, now)}}
    BY DEF AnswersLoseNobody
  <2> DEFINE merged == MergeDedup(finds[f].local, recs, now)
             live == {q \in finds[f].local \cup recs : ~IsExpired(q, now)}
  <2>1. merged \subseteq live
    BY DEF MergeDedup
  <2>2. ASSUME NEW q \in live PROVE \E r \in merged : r.peer = q.peer
    <3>1. CASE q \in finds[f].local \/ \A a \in finds[f].local : a.peer # q.peer \/ IsExpired(a, now)
      BY <3>1 DEF MergeDedup
    <3>2. ASSUME NEW a \in finds[f].local, a.peer = q.peer, ~IsExpired(a, now)
          PROVE  a \in merged
      BY <3>2 DEF MergeDedup
    <3> HIDE DEF merged, live
    <3> QED  BY <3>1, <3>2
  <2>3. finds[f].phase = "returned" => Sound(finds[f].answer, finds[f].began)
    BY DEF Inv, Carried
  <2> HIDE DEF merged, live
  <2>4. {r.peer : r \in merged} = {r.peer : r \in live}
    BY <2>1, <2>2
  <2> QED  BY <2>3, <2>4 DEF merged, live
<1> QED  BY <1>1, ServiceInvariant, PTL

(* retract_own_provider: nothing but a republish call already under way     *)
(* puts a retracted record back.                                           *)
THEOREM OnlyRepublishUndoesARetract == Spec => []RetractStandsUnlessRaced
<1>1. Inv => RetractStandsUnlessRaced
  BY DEF Inv, RetractedStays, RetractStandsUnlessRaced
<1> QED  BY <1>1, ServiceInvariant, PTL

(* announce_provider_with_collateral: the own record carries the pointer    *)
(* last announced, unless a republish call was under way when it changed.  *)
THEOREM OnlyRepublishKeepsAnOldPointer == Spec => []PointerKeptUnlessRaced
<1>1. Inv => PointerKeptUnlessRaced
  BY DEF Inv, PointersAgree, PointerKeptUnlessRaced
<1> QED  BY <1>1, ServiceInvariant, PTL

(* A live authoritative record leaves alone: retracts, sweeps, forgetting   *)
(* and evictions reach no second holder (SPEC 6.6).                        *)
THEOREM HoldersLeaveAlone == Spec => HoldersLeaveOneAtATime
<1> DEFINE Alone(e) ==
      \/ providers'.entries = providers.entries \ {e}
      \/ /\ providers'.seq = providers.seq + 1
         /\ providers.entries \ providers'.entries = {e}
<1>1. ASSUME Inv, [Next]_vars,
             NEW e \in providers.entries, ~IsExpired(e, now),
             \A f \in providers'.entries : f.seq # e.seq
      PROVE  Alone(e)
  <2>a. OneEach(providers.entries) /\ e \notin providers'.entries
    BY <1>1 DEF Inv, Authoritative
  <2>b. TypeOK /\ OwnRecords
    BY <1>1 DEF Inv
  <2>1. CASE PutsOne
    <3>1. PICK rec : Admissible(rec) /\ \E r \in Put(providers, rec, now) : providers' = Stored(r)
      BY <2>1 DEF PutsOne
    <3>2. PICK r \in PutResults(providers.entries, providers.seq, rec, now, Limits) :
            providers' = Stored(r)
      BY <3>1 DEF Put
    <3>3. providers'.entries = r.store /\ providers'.seq = r.seq
      BY <3>2 DEF Stored
    <3>4. r.store # Refreshed(providers.entries, providers.seq, rec)
      <4> SUFFICES ASSUME r.store = Refreshed(providers.entries, providers.seq, rec) PROVE FALSE
        OBVIOUS
      <4>1. CASE e \in Held(providers.entries, rec)
        <5>1. Entry(rec, e.seq) \in r.store
          BY <4>1 DEF Refreshed
        <5> QED  BY <1>1, <3>3, <5>1, EntryFields
      <4>2. CASE e \notin Held(providers.entries, rec)
        BY <2>a, <3>3, <4>2 DEF Refreshed
      <4> QED  BY <4>1, <4>2
    <3>5. PICK v \in providers.entries :
            /\ r.seq = providers.seq + 1
            /\ r.store = (providers.entries \ {v}) \cup {Entry(rec, providers.seq)}
      BY <2>a, <3>3, <3>4, PutCases
    <3>6. e = v
      BY <2>a, <3>3, <3>5
    <3> QED  BY <2>a, <3>3, <3>5, <3>6
  <2>2. CASE Drops
    <3>1. ASSUME NEW k, NEW p,
                 providers' = WithEntries(providers, StoreRemove(providers.entries, k, p))
          PROVE  Alone(e)
      <4>1. providers'.entries = {f \in providers.entries : ~(f.key = k /\ f.peer = p)}
        BY <3>1 DEF WithEntries, StoreRemove
      <4> QED  BY <2>a, <4>1 DEF OneEach
    <3>2. CASE providers' = WithEntries(providers, StoreGc(providers.entries, now))
      BY <1>1, <2>a, <3>2 DEF WithEntries, StoreGc
    <3> QED  BY <2>2, <2>a, <3>1, <3>2 DEF Drops
  <2> QED  BY <1>1, <2>1, <2>2, <2>b, ProvidersStep
<1>2. Inv /\ [Next]_vars =>
        [\A e \in providers.entries :
           (~IsExpired(e, now) /\ \A f \in providers'.entries : f.seq # e.seq)
             => \/ providers'.entries = providers.entries \ {e}
                \/ /\ providers'.seq = providers.seq + 1
                   /\ providers.entries \ providers'.entries = {e}]_vars
  BY <1>1
<1> QED  BY <1>2, ServiceInvariant, PTL DEF Spec, HoldersLeaveOneAtATime

-----------------------------------------------------------------------------
(* The authoritative store is a ProviderStore                               *)

LEMMA NodeStep ==
  ASSUME Inv, Inv', [Next]_vars PROVE [Store!Next]_Store!vars
<1>1. TypeOK /\ OwnRecords /\ now' \in 0..MaxTime
  BY DEF Inv, TypeOK
<1>2. CASE PutsOne
  <2>1. PICK rec : /\ Admissible(rec)
                   /\ \E r \in Put(providers, rec, now) :
                        r.seq <= MaxAdmissions /\ providers' = Stored(r)
    BY <1>2 DEF PutsOne
  <2>2. PICK r \in Put(providers, rec, now) :
          r.seq <= MaxAdmissions /\ providers' = Stored(r)
    BY <2>1
  <2>3. r \in Store!Put(rec)
    BY <2>2, SamePut DEF Put, Store!Put
  <2>4. providers'.entries = r.store /\ providers'.seq = r.seq /\ now' = now
    BY <1>2, <2>2 DEF Stored, PutsOne
  <2>5. rec \in Store!Offers
    BY <2>1, RecordsAreOffers DEF Admissible
  <2>6. Store!PutAt(rec)
    BY <2>2, <2>3, <2>4 DEF Store!PutAt
  <2> QED  BY <2>5, <2>6 DEF Store!Next
<1>3. CASE Drops
  <2>1. CASE UNCHANGED providers
    <3>1. Store!ReadClock(now')
      BY <2>1 DEF Store!ReadClock, Store!records
    <3> QED  BY <1>1, <3>1 DEF Store!Next
  <2>2. ASSUME now' = now, NEW k \in Keys, NEW p \in Peers,
               providers' = WithEntries(providers, StoreRemove(providers.entries, k, p))
        PROVE  Store!Next
    <3>1. Store!Remove(k, p)
      BY <2>2 DEF WithEntries, Store!Remove, Store!StoreRemove, StoreRemove
    <3> QED  BY <3>1 DEF Store!Next
  <2>3. CASE /\ now' = now
             /\ providers' = WithEntries(providers, StoreGc(providers.entries, now))
    <3>1. Store!Gc
      BY <2>3 DEF WithEntries, Store!Gc, Store!StoreGc, StoreGc, Store!IsExpired, IsExpired
    <3> QED  BY <3>1 DEF Store!Next
  <2> QED  BY <1>3, <2>1, <2>2, <2>3 DEF Drops
<1> QED  BY <1>1, <1>2, <1>3, ProvidersStep

(* A node's authoritative store is a ProviderStore (service.rs: every lock  *)
(* of the provider_store mutex is one call of the store): whatever calls   *)
(* interleave, each step is one operation of the store with one record its *)
(* admission allows, or none.                                              *)
THEOREM NodeRunsAStore == Spec => Store!Spec
<1>1. Init => Store!Init
  BY DEF Init, EmptyStore, Store!Init
<1>2. Inv /\ Inv' /\ [Next]_vars => [Store!Next]_Store!vars
  BY NodeStep
<1> QED  BY <1>1, <1>2, ServiceInvariant, PTL DEF Spec, Store!Spec

(* So it keeps a store's promises: it implements HoldersMap, and no step of *)
(* any call but a removal that names him costs an established live holder  *)
(* his place (SPEC 6.3, 6.6).                                              *)
THEOREM NodeKeepsHolders == Spec => Store!KeepsHolders /\ Store!EstablishedHolderStays
BY NodeRunsAStore, StoreAssumptions, Store!StoreImplementsHoldersMap,
   Store!EstablishmentProtected, PTL

(* put_at bounds both stores of a node, the discovery cache too, however    *)
(* much the network returns and however often (SPEC 6.3, 6.8), provided a  *)
(* key may hold at least one provider.                                     *)
THEOREM BothStoresAreBounded ==
  ASSUME MaxProvidersPerKey >= 1
  PROVE  Spec => [](WithinLimits(providers.entries) /\ WithinLimits(discovered.entries))
<1>1. Spec => []Store!WithinCaps
  BY NodeRunsAStore, StoreAssumptions, Store!BoundsHold, PTL
<1>2. Store!WithinCaps => WithinLimits(providers.entries)
  BY SameCardinality
     DEF Store!WithinCaps, Store!WithinGlobalCeiling, Store!WithinKeyCap, WithinLimits,
         Store!OfKey, OfKey
<1>3. Init => Bounded(discovered)
  <2> SUFFICES ASSUME Init PROVE Bounded(discovered)
    OBVIOUS
  <2>1. discovered.entries = {} /\ \A k : OfKey(discovered.entries, k) = {}
    BY DEF Init, EmptyStore, OfKey
  <2>2. IsFiniteSet({}) /\ Cardinality({}) = 0
    BY FS_EmptySet
  <2> QED  BY <2>1, <2>2, ServiceAssumption DEF Bounded, WithinLimits
<1>4. Inv /\ Bounded(discovered) /\ [Next]_vars => Bounded(discovered)'
  <2> SUFFICES ASSUME Inv, Bounded(discovered), [Next]_vars PROVE Bounded(discovered)'
    OBVIOUS
  <2>1. CASE /\ discovered'.entries \subseteq discovered.entries
             /\ discovered'.seq = discovered.seq
    <3>1. IsFiniteSet(discovered.entries)
      BY DEF Bounded
    <3>2. \A S \in SUBSET discovered.entries :
            \A T \in SUBSET S : /\ IsFiniteSet(T)
                                /\ Cardinality(T) <= Cardinality(S)
                                /\ Cardinality(T) \in Nat /\ Cardinality(S) \in Nat
      BY <3>1, FS_Subset, FS_CardinalityType
    <3>3. WithinLimits(discovered'.entries)
      <4>1. Cardinality(discovered'.entries) <= MaxTotalRecords
        BY <2>1, <3>2, ServiceAssumption DEF Bounded, WithinLimits
      <4>2. ASSUME NEW k \in Keys
            PROVE  Cardinality(OfKey(discovered'.entries, k)) <= MaxProvidersPerKey
        <5>1. /\ OfKey(discovered'.entries, k) \subseteq OfKey(discovered.entries, k)
              /\ OfKey(discovered.entries, k) \subseteq discovered.entries
          BY <2>1 DEF OfKey
        <5>2. Cardinality(OfKey(discovered.entries, k)) <= MaxProvidersPerKey
          BY DEF Bounded, WithinLimits
        <5> QED  BY <3>2, <5>1, <5>2, ServiceAssumption
      <4> QED  BY <4>1, <4>2 DEF WithinLimits
    <3>4. IsFiniteSet(discovered'.entries)
      BY <2>1, <3>2
    <3> QED  BY <2>1, <3>3, <3>4 DEF Bounded
  <2>2. CASE CachesWalk
    BY <2>2 DEF CachesWalk, Grown
  <2> QED  BY <2>1, <2>2, DiscoveredStep DEF Inv
<1>5. Bounded(discovered) => WithinLimits(discovered.entries)
  BY DEF Bounded
<1> QED  BY <1>1, <1>2, <1>3, <1>4, <1>5, ServiceInvariant, PTL DEF Spec
=============================================================================
