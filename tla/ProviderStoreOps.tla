-------------------------- MODULE ProviderStoreOps --------------------------
(***************************************************************************)
(* The algorithms of provider_store.rs as operators on a store VALUE.  The *)
(* nested map by_key: content key -> provider -> entry is a set of entry   *)
(* records; a key is present in by_key iff some entry carries it (the code *)
(* drops a key with its last provider).  A DhtService owns two stores (the *)
(* authoritative one and the discovery cache) that run this same code, so  *)
(* the operators take the store as a parameter.                            *)
(*                                                                         *)
(* An operator whose name carries an underscore is a faulty variant kept   *)
(* to show that the properties notice the fault; no specification uses it. *)
(***************************************************************************)
EXTENDS Integers, FiniteSets

Accepted == "Accepted"
RejectedOverCapacity == "RejectedOverCapacity"

(***************************************************************************)
(* A provider record and the entry the store keeps for it.  coin is the    *)
(* unverified mirror-coin pointer, standing for the whole payload a refresh *)
(* replaces (addresses included); seq is admitted_seq.                     *)
(***************************************************************************)
Record(k, p, exp, coin) == [key |-> k, peer |-> p, exp |-> exp, coin |-> coin]
Entry(rec, seq) == [key |-> rec.key, peer |-> rec.peer, exp |-> rec.exp,
                    coin |-> rec.coin, seq |-> seq]
RecordOf(e) == Record(e.key, e.peer, e.exp, e.coin)

IsExpired(rec, t) == t >= rec.exp
OfKey(S, k) == {e \in S : e.key = k}
Held(S, rec) == {e \in S : e.key = rec.key /\ e.peer = rec.peer}

-----------------------------------------------------------------------------
(* eviction_victim *)

SoonerToExpire(e, f) == e.exp < f.exp \/ (e.exp = f.exp /\ e.seq <= f.seq)
Soonest(P) == {e \in P : \A f \in P : SoonerToExpire(e, f)}

(* The cap \div 2 longest-established entries of one key. *)
EstablishedFloor(P, cap) ==
  {e \in P : Cardinality({f \in P : f.seq < e.seq}) < cap \div 2}

(* Expired entries first, wherever they sit; else the newest slots.  A set: *)
(* it is empty for None, and a singleton while sequence numbers differ.     *)
EvictionVictims_NoFloor(P, cap, t) ==
  LET dead == {e \in P : IsExpired(e, t)}
  IN  Soonest(IF dead # {} THEN dead ELSE P)
EvictionVictims_DeadFloorKept(P, cap, t) ==
  LET churn == P \ EstablishedFloor(P, cap)
      dead == {e \in churn : IsExpired(e, t)}
  IN  Soonest(IF dead # {} THEN dead ELSE churn)
EvictionVictims_FloorIsCap(P, cap, t) ==
  LET dead == {e \in P : IsExpired(e, t)}
  IN  Soonest(IF dead # {} THEN dead ELSE P \ EstablishedFloor(P, 2 * cap))
EvictionVictims(P, cap, t) ==
  LET dead == {e \in P : IsExpired(e, t)}
  IN  Soonest(IF dead # {} THEN dead ELSE P \ EstablishedFloor(P, cap))

-----------------------------------------------------------------------------
(* put_at: the set of results [store, seq, outcome] the call may have.      *)

Result(S, seq, outcome) == [store |-> S, seq |-> seq, outcome |-> outcome]

(* The provider is already held for this key: replace its record in place,  *)
(* whatever the capacity, and keep its establishment.                       *)
Refreshed_Reseq(S, seq, rec) ==
  (S \ Held(S, rec)) \cup {Entry(rec, seq)}
Refreshed(S, seq, rec) ==
  (S \ Held(S, rec)) \cup {Entry(rec, e.seq) : e \in Held(S, rec)}

AtKeyCap(S, k, lim) == OfKey(S, k) # {} /\ Cardinality(OfKey(S, k)) >= lim.perKey

(* A genuinely new (key, provider) pair once the global ceiling has passed. *)
Admissions_NumberTaken(S, seq, rec, t, lim) ==
  {Result(S \cup {Entry(rec, seq - 1)}, seq + 1, Accepted)}
Admissions(S, seq, rec, t, lim) ==
  LET same == OfKey(S, rec.key)
      victims == EvictionVictims(same, lim.perKey, t)
  IN  IF ~AtKeyCap(S, rec.key, lim)
        THEN {Result(S \cup {Entry(rec, seq)}, seq + 1, Accepted)}
      ELSE IF victims = {}
        THEN {Result(S, seq, RejectedOverCapacity)}
      ELSE {Result((S \ {v}) \cup {Entry(rec, seq)}, seq + 1, Accepted) : v \in victims}

PutResults_Appended(S, seq, rec, t, lim) ==
  IF Cardinality(S) >= lim.total THEN {Result(S, seq, RejectedOverCapacity)}
  ELSE Admissions(S, seq, rec, t, lim)
PutResults_NoCeiling(S, seq, rec, t, lim) ==
  IF Held(S, rec) # {}
    THEN {Result(Refreshed(S, seq, rec), seq, Accepted)}
    ELSE Admissions(S, seq, rec, t, lim)
PutResults(S, seq, rec, t, lim) ==
  IF Held(S, rec) # {} THEN {Result(Refreshed(S, seq, rec), seq, Accepted)}
  ELSE IF Cardinality(S) >= lim.total THEN {Result(S, seq, RejectedOverCapacity)}
  ELSE Admissions(S, seq, rec, t, lim)

-----------------------------------------------------------------------------
(* The other operations *)

StoreRemove_WholeKey(S, k, p) == {e \in S : e.key # k}
StoreRemove(S, k, p) == {e \in S : ~(e.key = k /\ e.peer = p)}
StoreRemoveKey(S, k) == {e \in S : e.key # k}
StoreGc(S, t) == {e \in S : ~IsExpired(e, t)}
StoreGet(S, k, t) == {RecordOf(e) : e \in {f \in OfKey(S, k) : ~IsExpired(f, t)}}

(***************************************************************************)
(* snapshot: live provider counts per key, in key order, cut to max keys.  *)
(* order ranks the keys as the string order of their hex form does.        *)
(***************************************************************************)
Snapshot_CountsDead(S, t, max, order) ==
  LET keys == {k \in DOMAIN order : OfKey(S, k) # {}}
      shown == {k \in keys : Cardinality({j \in keys : order[j] < order[k]}) < max}
  IN  [entries |-> [k \in shown |-> Cardinality(OfKey(S, k))],
       total_keys |-> Cardinality(keys),
       truncated |-> Cardinality(keys) > max]
Snapshot(S, t, max, order) ==
  LET live(k) == {e \in OfKey(S, k) : ~IsExpired(e, t)}
      keys == {k \in DOMAIN order : live(k) # {}}
      shown == {k \in keys : Cardinality({j \in keys : order[j] < order[k]}) < max}
  IN  [entries |-> [k \in shown |-> Cardinality(live(k))],
       total_keys |-> Cardinality(keys),
       truncated |-> Cardinality(keys) > max]
=============================================================================
