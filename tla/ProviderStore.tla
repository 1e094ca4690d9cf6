---------------------------- MODULE ProviderStore ----------------------------
(***************************************************************************)
(* One ProviderStore (provider_store.rs) as a state machine: the provider  *)
(* records, the announced keys and the admission counter, with one action  *)
(* per operation that changes them, in any order and at any wall-clock     *)
(* reading.  Every call holds the store's mutex, so it is one step.        *)
(***************************************************************************)
EXTENDS ProviderStoreOps

CONSTANTS Keys,                 \* content keys
          Peers,                \* provider peer ids
          Coins,                \* mirror-coin pointers a record may carry
          NoCoin,               \* the absent pointer
          MaxProvidersPerKey,   \* limits.max_providers_per_key
          MaxTotalRecords,      \* limits.max_total_records
          MaxTime,              \* bound: clock readings are 0..MaxTime
          Expiries,             \* bound: expiries that callers offer
          MaxAdmissions,        \* bound: admissions made in a behaviour
          MaxAnnounced          \* bound: keys announced at a time

ASSUME LimitsAssumption == MaxProvidersPerKey \in Nat /\ MaxTotalRecords \in Nat
ASSUME BoundsAssumption ==
  /\ MaxTime \in Nat /\ MaxAdmissions \in Nat /\ MaxAnnounced \in Nat
  /\ Expiries \subseteq Nat

VARIABLES entries,      \* by_key, flattened
          announced,    \* announced: key -> pointer, for the announced keys only
          nextSeq,      \* next_admitted_seq
          now           \* the caller's clock, absolute seconds

vars == <<entries, announced, nextSeq, now>>
records == <<entries, nextSeq>>

Pointers == Coins \cup {NoCoin}
Limits == [perKey |-> MaxProvidersPerKey, total |-> MaxTotalRecords]

(* What a caller may offer, past already at some reading of the clock or    *)
(* alive at all of them.                                                    *)
Offers == [key : Keys, peer : Peers, exp : Expiries, coin : Pointers]

Entries == [key : Keys, peer : Peers, exp : Nat, coin : Pointers, seq : Nat]

Put(rec) == PutResults(entries, nextSeq, rec, now, Limits)

-----------------------------------------------------------------------------
Init == /\ entries = {}
        /\ announced = [k \in {} |-> NoCoin]
        /\ nextSeq = 0
        /\ now = 0

PutAt(rec) ==
  \E r \in Put(rec) :
    /\ r.seq <= MaxAdmissions
    /\ entries' = r.store
    /\ nextSeq' = r.seq
    /\ UNCHANGED <<announced, now>>

Remove(k, p) == /\ entries' = StoreRemove(entries, k, p)
                /\ UNCHANGED <<announced, nextSeq, now>>

RemoveKey(k) == /\ entries' = StoreRemoveKey(entries, k)
                /\ UNCHANGED <<announced, nextSeq, now>>

Gc == /\ entries' = StoreGc(entries, now)
      /\ UNCHANGED <<announced, nextSeq, now>>

MarkAnnounced(k, coin) ==
  /\ Cardinality(DOMAIN announced \cup {k}) <= MaxAnnounced
  /\ announced' = [j \in DOMAIN announced \cup {k} |->
                     IF j = k THEN coin ELSE announced[j]]
  /\ UNCHANGED <<records, now>>

UnmarkAnnounced(k) ==
  /\ announced' = [j \in DOMAIN announced \ {k} |-> announced[j]]
  /\ UNCHANGED <<records, now>>

(* SystemTime is not monotonic: the next reading may be any second. *)
ReadClock(t) == /\ now' = t
                /\ UNCHANGED <<records, announced>>

Next == \/ \E rec \in Offers : PutAt(rec)
        \/ \E k \in Keys, p \in Peers : Remove(k, p)
        \/ \E k \in Keys : RemoveKey(k)
        \/ Gc
        \/ \E k \in Keys, coin \in Pointers : MarkAnnounced(k, coin)
        \/ \E k \in Keys : UnmarkAnnounced(k)
        \/ \E t \in 0..MaxTime : ReadClock(t)

Spec == Init /\ [][Next]_vars

-----------------------------------------------------------------------------
(* The variables' types; entries are finitely many, and the announced map  *)
(* holds a pointer for each announced key.                                 *)
TypeOK == /\ entries \subseteq Entries
          /\ IsFiniteSet(entries)
          /\ announced \in UNION {[D -> Pointers] : D \in SUBSET Keys}
          /\ nextSeq \in Nat
          /\ now \in 0..MaxTime

(* The flattened set really is the nested map: at most one entry per (key, *)
(* provider), however refreshes, evictions and removals are interleaved.   *)
OneEntryPerProvider ==
  \A e, f \in entries : (e.key = f.key /\ e.peer = f.peer) => e = f

(* Establishment is a strict order: no two entries share an admission      *)
(* number and none carries a number still to be given out (a refresh never *)
(* re-issues one).  Without it eviction_victim would be hash-order         *)
(* dependent.                                                              *)
SeqsDistinct ==
  /\ \A e \in entries : e.seq < nextSeq
  /\ \A e, f \in entries : e.seq = f.seq => e = f

(* put's two capacity bounds hold after every call (SPEC 6.3): the global  *)
(* ceiling, and the per-key cap.                                           *)
WithinGlobalCeiling == Cardinality(entries) <= MaxTotalRecords
WithinKeyCap ==
  \A k \in Keys : Cardinality(OfKey(entries, k)) <= MaxProvidersPerKey
WithinCaps == WithinGlobalCeiling /\ WithinKeyCap

(* "A newcomer can ALWAYS be admitted": whatever record is offered next,   *)
(* put has exactly one result, it is Accepted unless the global ceiling is *)
(* reached by a pair not yet held, and Accepted means that the offered     *)
(* record is what the store now holds for the pair.                        *)
NewcomersAdmitted ==
  \A rec \in Offers :
    /\ Cardinality(Put(rec)) = 1
    /\ \A r \in Put(rec) :
         /\ r.outcome = RejectedOverCapacity <=>
              /\ Held(entries, rec) = {}
              /\ Cardinality(entries) >= MaxTotalRecords
         /\ r.outcome = Accepted =>
              {RecordOf(e) : e \in Held(r.store, rec)} = {rec}

InFloor(S, e) == e \in EstablishedFloor(OfKey(S, e.key), MaxProvidersPerKey)

(* An established live holder keeps its slot and stays established,        *)
(* whatever others announce, refresh, retract or let expire; only a        *)
(* removal that names it ends it (a Sybil flood cannot, #1434; a retract   *)
(* by another holder cannot, SPEC 6.6).                                    *)
EstablishedHolderStays ==
  [][\A e \in entries :
       (InFloor(entries, e) /\ ~IsExpired(e, now))
         => \/ \E f \in entries' : /\ f.key = e.key /\ f.peer = e.peer
                                   /\ f.seq = e.seq
                                   /\ InFloor(entries', f)
            \/ Remove(e.key, e.peer)
            \/ RemoveKey(e.key)]_vars

(* The abstract view of the store: admission numbers are forgotten, and     *)
(* the longest established entries of a key are those with tenure.          *)
Claims(S) == {RecordOf(e) : e \in S}
Tenured(S) == {[key |-> e.key, peer |-> e.peer] : e \in {f \in S : InFloor(S, f)}}
View == INSTANCE HoldersMap
          WITH PerKey <- MaxProvidersPerKey, Total <- MaxTotalRecords,
               Times <- 0..MaxTime \cup Expiries, today <- now,
               claims <- Claims(entries), tenured <- Tenured(entries)

(* The store keeps the promises of a HoldersMap: one claim per holder, a    *)
(* live one lost only by its name, or to a newcomer in a full key without   *)
(* a corpse, and never one with tenure; the first half of a key's places    *)
(* have tenure, whatever refreshes, expiries and departures reorder.        *)
KeepsHolders == View!Spec

(* What a snapshot publishes agrees with what get returns: a shown key has  *)
(* its live providers counted, nothing is shown past max keys, and a key    *)
(* with a live provider is missing exactly when the snapshot says so.       *)
SnapshotAgreesWithGet ==
  \A max \in 0..Cardinality(Keys) :
    \A order \in {f \in [Keys -> 1..Cardinality(Keys)] :
                    \A j, k \in Keys : f[j] = f[k] => j = k} :
      LET s == Snapshot(entries, now, max, order)
          served(k) == Cardinality(StoreGet(entries, k, now))
          live == {k \in Keys : served(k) > 0}
      IN  /\ DOMAIN s.entries \subseteq live
          /\ \A k \in DOMAIN s.entries : s.entries[k] = served(k)
          /\ Cardinality(DOMAIN s.entries) <= max
          /\ s.truncated <=> DOMAIN s.entries # live
          /\ s.total_keys = Cardinality(live)

(* The doc comment of PutOutcome::RejectedOverCapacity: a live newcomer    *)
(* that would expire no later than every record of its full key is refused. *)
SoonestNewcomerRefused ==
  \A rec \in Offers :
    (/\ Held(entries, rec) = {}
     /\ ~IsExpired(rec, now)
     /\ AtKeyCap(entries, rec.key, Limits)
     /\ \A e \in OfKey(entries, rec.key) : e.exp >= rec.exp)
      => \A r \in Put(rec) : r.outcome = RejectedOverCapacity
=============================================================================
