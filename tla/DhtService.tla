----------------------------- MODULE DhtService -----------------------------
(***************************************************************************)
(* One node's DhtService (service.rs): the authoritative provider store,   *)
(* the discovery cache and the routing table, each behind a mutex of its   *)
(* own, and the asynchronous operations that lock them one at a time.  A   *)
(* step is what an operation does under one lock; anything may happen at   *)
(* its awaits.  The rest of the network is the environment: a walk returns *)
(* any records for the key asked about and any contacts.                   *)
(*                                                                         *)
(* The routing table appears as the set of contacts it holds (its buckets  *)
(* are RoutingTable's subject); walks are Lookup's subject.                *)
(*                                                                         *)
(* Operators with an underscore in their name are faulty variants kept to  *)
(* show that the properties notice the fault.                              *)
(***************************************************************************)
EXTENDS ProviderStoreOps

CONSTANTS Keys, Self, Remotes,
          Coins, NoCoin,        \* this node's mirror-coin pointers; the absent one
          Verified, Hearsay,    \* payload tags: attributed, or collected on a walk,
          RawVerified, RawHearsay,  \* ... with a pointer or addresses out of bounds
          MaxProvidersPerKey, MaxTotalRecords,
          ProviderTtl, DiscoveryCacheTtl,
          Finders, Republishers, Collectors,    \* concurrent calls
          Claims,               \* bound: the expiries that remote records claim
          MaxTime,              \* bound: the clock
          MaxAdmissions,        \* bound: admissions per store
          MaxFound              \* bound: records one walk returns

ASSUME ServiceAssumption ==
  /\ Keys # {} /\ Self \notin Remotes
  /\ NoCoin \notin Coins
  /\ Verified \notin {Hearsay, RawVerified, RawHearsay}
  /\ Hearsay \notin {RawVerified, RawHearsay} /\ RawVerified # RawHearsay
  /\ {Verified, Hearsay, RawVerified, RawHearsay} \cap (Coins \cup {NoCoin}) = {}
  /\ {MaxProvidersPerKey, MaxTotalRecords, ProviderTtl, DiscoveryCacheTtl,
      MaxTime, MaxAdmissions, MaxFound} \cup Claims \subseteq Nat

VARIABLES providers,    \* the authoritative store and its admission counter
          discovered,   \* the discovery cache and its admission counter
          announced,    \* announced keys and their pointers (in providers' mutex)
          contacts,     \* peers in the routing table
          now,          \* the wall clock, running forward
          finds,        \* find_providers calls
          republishes,  \* republish calls
          sweeps,       \* gc calls
          retracted,    \* history: keys retracted and not announced since
          forgotten,    \* history: keys forgotten with no walk for them then or since
          raced         \* history: keys whose mark changed while a republish
                        \* call still had them on its list or in hand

stores == <<providers, discovered>>
calls == <<finds, republishes, sweeps>>
history == <<retracted, forgotten, raced>>
vars == <<stores, announced, contacts, now, calls, history>>

Peers == Remotes \cup {Self}
Pointers == Coins \cup {NoCoin}
Payloads == Pointers \cup {Verified, Hearsay, RawVerified, RawHearsay}
Limits == [perKey |-> MaxProvidersPerKey, total |-> MaxTotalRecords]
Times == 0..(MaxTime + ProviderTtl + DiscoveryCacheTtl) \cup Claims
Records == [key : Keys, peer : Peers, exp : Times, coin : Payloads]

(* normalize_mirror_coin_id and sort_and_cap_addresses: a pointer that is   *)
(* not 64 hex digits is dropped and the address list is cut to its bounds;  *)
(* the record itself is kept.                                              *)
NormalizedCoin(coin) == CASE coin = RawVerified -> Verified
                          [] coin = RawHearsay -> Hearsay
                          [] OTHER -> coin
Normalized(rec) == Record(rec.key, rec.peer, rec.exp, NormalizedCoin(rec.coin))

Earlier(a, b) == IF a <= b THEN a ELSE b
Put(store, rec, t) == PutResults(store.entries, store.seq, rec, t, Limits)
Stored(r) == [entries |-> r.store, seq |-> r.seq]
OwnEntry(k) == {e \in providers.entries : e.key = k /\ e.peer = Self}
WithEntries(store, S) == [entries |-> S, seq |-> store.seq]

-----------------------------------------------------------------------------
IdleFind == [phase |-> "idle", key |-> CHOOSE k \in Keys : TRUE, local |-> {},
             began |-> 0, answer |-> {}]
IdleRepublish == [phase |-> "idle", todo |-> {}, rec |-> {}]
IdleSweep == [phase |-> "idle", at |-> 0]
EmptyStore == [entries |-> {}, seq |-> 0]

Init == /\ providers = EmptyStore
        /\ discovered = EmptyStore
        /\ announced = [k \in {} |-> NoCoin]
        /\ contacts \in SUBSET Remotes
        /\ now = 0
        /\ finds = [f \in Finders |-> IdleFind]
        /\ republishes = [r \in Republishers |-> IdleRepublish]
        /\ sweeps = [c \in Collectors |-> IdleSweep]
        /\ retracted = {} /\ forgotten = {} /\ raced = {}

-----------------------------------------------------------------------------
(* Publishing *)

(* build_local_record *)
LocalRecord(k, coin) == Record(k, Self, now + ProviderTtl, coin)

(* History bookkeeping: k's mark changes, perhaps under a republish call    *)
(* that still has k on its list or in hand.  A change that also settles    *)
(* the own record, with no such call about, ends the matter.               *)
UnderRepublish(k) ==
  \E r \in Republishers : \/ k \in republishes[r].todo
                          \/ \E rec \in republishes[r].rec : rec.key = k
RacedBy(k) == IF UnderRepublish(k) THEN raced \cup {k} ELSE raced
SettledBy(k) == IF UnderRepublish(k) THEN raced \cup {k} ELSE raced \ {k}

(* The local half of announce_provider_with_collateral: one lock around    *)
(* the put, whose outcome is ignored, and the mark.  The walk and the PUTs *)
(* that follow change nothing else here but the contacts (Absorb).         *)
Announce(k, coin) ==
  /\ \E r \in Put(providers, LocalRecord(k, coin), now) :
       /\ r.seq <= MaxAdmissions
       /\ providers' = Stored(r)
  /\ announced' = [j \in DOMAIN announced \cup {k} |->
                     IF j = k THEN coin ELSE announced[j]]
  /\ retracted' = retracted \ {k}
  /\ raced' = SettledBy(k)
  /\ UNCHANGED <<discovered, contacts, now, calls, forgotten>>

Unmarked_Not(k) == announced
Unmarked(k) == [j \in DOMAIN announced \ {k} |-> announced[j]]

(* withdraw_provider: the record stays until its TTL. *)
Withdraw(k) ==
  /\ announced' = Unmarked(k)
  /\ raced' = RacedBy(k)
  /\ UNCHANGED <<stores, contacts, now, calls, retracted, forgotten>>

(* retract_own_provider: record and mark under one lock. *)
Retract(k) ==
  /\ providers' = WithEntries(providers, StoreRemove(providers.entries, k, Self))
  /\ announced' = Unmarked(k)
  /\ retracted' = retracted \cup {k}
  /\ raced' = SettledBy(k)
  /\ UNCHANGED <<discovered, contacts, now, calls, forgotten>>

(* republish: the announced keys are listed under one lock; then, key by   *)
(* key, the record is rebuilt and its pointer read under a second, and put *)
(* under a third.                                                          *)
RepublishStart(r) ==
  /\ republishes[r].phase = "idle"
  /\ DOMAIN announced # {}
  /\ republishes' = [republishes EXCEPT ![r] =
                       [phase |-> "next", todo |-> DOMAIN announced, rec |-> {}]]
  /\ UNCHANGED <<stores, announced, contacts, now, finds, sweeps, history>>

Remembered_Dropped(k) == NoCoin
Remembered(k) == IF k \in DOMAIN announced THEN announced[k] ELSE NoCoin

RepublishRead(r, k) ==
  /\ republishes[r].phase = "next"
  /\ k \in republishes[r].todo
  /\ republishes' = [republishes EXCEPT ![r] =
                       [phase |-> "put", todo |-> @.todo \ {k},
                        rec |-> {LocalRecord(k, Remembered(k))}]]
  /\ UNCHANGED <<stores, announced, contacts, now, finds, sweeps, history>>

RepublishPut(r) ==
  /\ republishes[r].phase = "put"
  /\ \E rec \in republishes[r].rec : \E res \in Put(providers, rec, now) :
       /\ res.seq <= MaxAdmissions
       /\ providers' = Stored(res)
  /\ republishes' = [republishes EXCEPT ![r] =
                       IF @.todo = {} THEN IdleRepublish
                       ELSE [phase |-> "next", todo |-> @.todo, rec |-> {}]]
  /\ UNCHANGED <<discovered, announced, contacts, now, finds, sweeps, history>>

-----------------------------------------------------------------------------
(* Serving and the holdings map *)

Learn(p) == contacts' \in {contacts, contacts \cup {p}}    \* its bucket may be full

Clamped_Relative(exp, ttl) == exp + ttl
Clamped(exp, ttl) == Earlier(exp, now + ttl)

(* admit_verified_record: an attributed record, from the AddProvider arm of *)
(* handle_request_from or from ingest_verified_provider.  Its holder is     *)
(* folded into the routing table only when the record was accepted.         *)
Admit(k, p, exp, shape) ==
  \E r \in Put(providers, Normalized(Record(k, p, Clamped(exp, ProviderTtl), shape)), now) :
    /\ r.seq <= MaxAdmissions
    /\ providers' = Stored(r)
    /\ IF r.outcome = Accepted THEN Learn(p) ELSE UNCHANGED contacts
    /\ UNCHANGED <<discovered, announced, now, calls, history>>

(* handle_request_from for a caller that announces somebody else (code 4), *)
(* and every other request: the caller is learned, nothing else changes.   *)
Inbound(caller) ==
  /\ Learn(caller)
  /\ UNCHANGED <<stores, announced, now, calls, history>>

(* remove_provider_record: a verified retract by the holder itself. *)
RemoveRecord(k, p) ==
  /\ providers' = WithEntries(providers, StoreRemove(providers.entries, k, p))
  /\ UNCHANGED <<discovered, announced, contacts, now, calls, history>>

(* absorb_contacts, of what a walk converged on; the walks of announce and  *)
(* republish, whose local part is a step of its own, end in the same way.   *)
Absorb(S) ==
  /\ contacts' = contacts \cup S
  /\ UNCHANGED <<stores, announced, now, calls, history>>

(* The peers given are inserted first, then a walk from them is absorbed.   *)
Bootstrap(S) == S # {} /\ Absorb(S)

(* find_node, and refresh_buckets bucket by bucket: nothing without seeds.  *)
WalkOnly(S) == contacts # {} /\ Absorb(S)

AddPeer(p) ==
  /\ Learn(p)
  /\ UNCHANGED <<stores, announced, now, calls, history>>

(* remove_peer, and a ping that failed. *)
RemovePeer(p) ==
  /\ contacts' = contacts \ {p}
  /\ UNCHANGED <<stores, announced, now, calls, history>>

(* The answer to an inbound find_providers, and what provider_snapshot counts. *)
Served_WithCache(k) == StoreGet(providers.entries \cup discovered.entries, k, now)
Served(k) == StoreGet(providers.entries, k, now)

-----------------------------------------------------------------------------
(* Finding *)

(* What a walk for k may bring back: hearsay for k (the wire boundary has   *)
(* dropped the rest), at most one record per provider, this node included. *)
Found(k) ==
  {S \in SUBSET {Record(k, p, e, shape) : p \in Peers, e \in Claims,
                                         shape \in {Hearsay, RawHearsay}} :
     /\ IsFiniteSet(S) /\ Cardinality(S) <= MaxFound
     /\ \A r, q \in S : r.peer = q.peer => r = q}

(* merge_dedup_by_provider: the first live record of each provider, the    *)
(* authoritative ones first.                                               *)
MergeDedup_SeenFirst(auth, extra, t) ==
  {r \in auth \cup extra :
     ~IsExpired(r, t) /\ (r \in auth \/ \A a \in auth : a.peer # r.peer)}
MergeDedup(auth, extra, t) ==
  {r \in auth \cup extra :
     /\ ~IsExpired(r, t)
     /\ r \in auth \/ \A a \in auth : a.peer # r.peer \/ IsExpired(a, t)}

(* cache_discovered: own and expired records are skipped, expiries clamped, *)
(* the rest put one by one in no particular order.                         *)
CacheClamped(r) == Record(r.key, r.peer, Clamped(r.exp, DiscoveryCacheTtl), r.coin)
Cacheable_OwnToo(recs) == {r \in {CacheClamped(q) : q \in recs} : ~IsExpired(r, now)}
Cacheable_Unclamped(recs) == {r \in recs : r.peer # Self /\ ~IsExpired(r, now)}
Cacheable(recs) ==
  {r \in {CacheClamped(q) : q \in recs} : r.peer # Self /\ ~IsExpired(r, now)}

OnePut(S, rec, t) == UNION {{Stored(r) : r \in Put(s, rec, t)} : s \in S}
CacheResults(recs) ==
  LET after[R \in SUBSET recs] ==
        IF R = {} THEN {discovered}
        ELSE UNION {OnePut(after[R \ {rec}], rec, now) : rec \in R}
  IN  after[recs]

(* find_providers: the local records and the clock are read once ... *)
FindStart(f, k) ==
  /\ finds[f].phase \in {"idle", "returned"}
  /\ finds' = [finds EXCEPT ![f] =
                 [phase |-> "cache", key |-> k, local |-> StoreGet(providers.entries, k, now),
                  began |-> now, answer |-> {}]]
  /\ UNCHANGED <<stores, announced, contacts, now, republishes, sweeps, history>>

Returns(f, answer, t) ==
  finds' = [finds EXCEPT ![f] = [phase |-> "returned", key |-> @.key, local |-> {},
                                 began |-> t, answer |-> answer]]

(* ... then the cache, which answers the call if it holds a live record    *)
(* for the key ...                                                         *)
FindCache(f) ==
  LET cached == StoreGet(discovered.entries, finds[f].key, finds[f].began)
  IN  /\ finds[f].phase = "cache"
      /\ IF cached # {}
           THEN Returns(f, MergeDedup(finds[f].local, cached, finds[f].began), finds[f].began)
           ELSE finds' = [finds EXCEPT ![f].phase = "seeds"]
      /\ UNCHANGED <<stores, announced, contacts, now, republishes, sweeps, history>>

(* ... then the routing table: with nobody to ask, the local records are   *)
(* the answer.                                                             *)
FindSeeds(f) ==
  /\ finds[f].phase = "seeds"
  /\ IF contacts = {}
       THEN Returns(f, finds[f].local, finds[f].began) /\ UNCHANGED forgotten
       ELSE /\ finds' = [finds EXCEPT ![f].phase = "walk"]
            /\ forgotten' = forgotten \ {finds[f].key}
  /\ UNCHANGED <<stores, announced, contacts, now, republishes, sweeps, retracted, raced>>

(* The walk is over: its contacts are absorbed (no step reads both the     *)
(* table and the cache), its records normalised, cached and merged into    *)
(* the answer, at one reading of the clock.                                *)
Collected_CacheOnly(found) == found
Collected(found) == {Normalized(r) : r \in found}

FindReturn(f, found, S) ==
  /\ finds[f].phase = "walk"
  /\ contacts' = contacts \cup S
  /\ \E c \in CacheResults({Normalized(r) : r \in Cacheable(Collected(found))}) :
       /\ c.seq <= MaxAdmissions
       /\ discovered' = c
  /\ Returns(f, MergeDedup(finds[f].local, Collected(found), now), now)
  /\ UNCHANGED <<providers, announced, now, republishes, sweeps, history>>

(* forget_discovered *)
Forget_Stale(k) == WithEntries(discovered, StoreGc(discovered.entries, now))
Forget(k) == WithEntries(discovered, StoreRemoveKey(discovered.entries, k))
ForgetDiscovered(k) ==
  /\ discovered' = Forget(k)
  /\ forgotten' = IF \E f \in Finders : finds[f].phase = "walk" /\ finds[f].key = k
                    THEN forgotten ELSE forgotten \cup {k}
  /\ UNCHANGED <<providers, announced, contacts, now, calls, retracted, raced>>

(* gc: both stores at one instant, one lock after the other. *)
GcProviders(c) ==
  /\ sweeps[c].phase = "idle"
  /\ providers' = WithEntries(providers, StoreGc(providers.entries, now))
  /\ sweeps' = [sweeps EXCEPT ![c] = [phase |-> "cache", at |-> now]]
  /\ UNCHANGED <<discovered, announced, contacts, now, finds, republishes, history>>

GcDiscovered(c) ==
  /\ sweeps[c].phase = "cache"
  /\ discovered' = WithEntries(discovered, StoreGc(discovered.entries, sweeps[c].at))
  /\ sweeps' = [sweeps EXCEPT ![c] = IdleSweep]
  /\ UNCHANGED <<providers, announced, contacts, now, finds, republishes, history>>

Tick ==
  /\ now < MaxTime
  /\ now' = now + 1
  /\ UNCHANGED <<stores, announced, contacts, calls, history>>

-----------------------------------------------------------------------------
Publishing ==
  \/ \E k \in Keys, coin \in Pointers : Announce(k, coin)
  \/ \E k \in Keys : Withdraw(k) \/ Retract(k)
  \/ \E r \in Republishers : RepublishStart(r) \/ RepublishPut(r)
  \/ \E r \in Republishers, k \in Keys : RepublishRead(r, k)

Serving ==
  \/ \E k \in Keys, p \in Remotes, e \in Claims, shape \in {Verified, RawVerified} :
       Admit(k, p, e, shape)
  \/ \E p \in Remotes : Inbound(p)
  \/ \E k \in Keys, p \in Remotes : RemoveRecord(k, p)

Routing ==
  \/ \E S \in SUBSET Remotes : Bootstrap(S) \/ WalkOnly(S)
  \/ \E p \in Remotes : AddPeer(p)
  \/ \E p \in Remotes : RemovePeer(p)

Finding ==
  \/ \E f \in Finders, k \in Keys : FindStart(f, k)
  \/ \E f \in Finders : FindCache(f) \/ FindSeeds(f)
  \/ \E f \in Finders : \E found \in Found(finds[f].key), S \in SUBSET Remotes :
       FindReturn(f, found, S)
  \/ \E k \in Keys : ForgetDiscovered(k)

Sweeping == \E c \in Collectors : GcProviders(c) \/ GcDiscovered(c)

Next == Publishing \/ Serving \/ Routing \/ Finding \/ Sweeping \/ Tick

Spec == Init /\ [][Next]_vars

-----------------------------------------------------------------------------
Entries == [key : Keys, peer : Peers, exp : Times, coin : Payloads, seq : Nat]
StoreType(store) == store.entries \subseteq Entries /\ store.seq \in Nat
FindCalls == [phase : {"idle", "cache", "seeds", "walk", "returned"}, key : Keys,
              local : SUBSET Records, began : 0..MaxTime, answer : SUBSET Records]
RepublishCalls == [phase : {"idle", "next", "put"}, todo : SUBSET Keys, rec : SUBSET Records]
SweepCalls == [phase : {"idle", "cache"}, at : 0..MaxTime]

TypeOK ==
  /\ StoreType(providers) /\ StoreType(discovered)
  /\ announced \in UNION {[D -> Pointers] : D \in SUBSET Keys}
  /\ contacts \subseteq Remotes
  /\ now \in 0..MaxTime
  /\ finds \in [Finders -> FindCalls]
  /\ republishes \in [Republishers -> RepublishCalls]
  /\ sweeps \in [Collectors -> SweepCalls]
  /\ retracted \subseteq Keys /\ forgotten \subseteq Keys /\ raced \subseteq Keys

(* Records collected on a walk never become this node's claim: they are    *)
(* not in an answer to an inbound find_providers, nor in what a republish  *)
(* is about to PUT (SPEC 6.8).                                             *)
HearsayStaysPrivate ==
  /\ \A k \in Keys : \A rec \in Served(k) : rec.coin \notin {Hearsay, RawHearsay}
  /\ \A r \in Republishers : \A rec \in republishes[r].rec :
       rec.coin \in Pointers /\ rec.peer = Self

(* Whatever shape a record arrived in, and by whichever way, what is kept,  *)
(* served or handed to a caller is within the bounds (SPEC 5.5, 14).        *)
NothingRawIsKept ==
  \A r \in providers.entries \cup discovered.entries \cup UNION {finds[f].answer : f \in Finders} :
    r.coin \notin {RawVerified, RawHearsay}

(* A key forgotten while no walk for it was under way has nothing in the    *)
(* cache until one begins: the next find_providers asks the network.        *)
ForgottenUnlessWalking ==
  \A k \in forgotten : StoreGet(discovered.entries, k, now) = {}

(* No echo of our own record occupies the cache, where it would suppress   *)
(* the next real walk (SPEC 6.8, admission rule 1).                        *)
NoSelfInCache == \A e \in discovered.entries : e.peer # Self

(* However a record reached a store, and whatever expiry it claimed, it is *)
(* gone within that store's TTL of now; the clock running forward, nothing *)
(* held by a remote's claim outlives it (SPEC 6.2, 6.8).                   *)
TtlBounded ==
  /\ \A e \in providers.entries : e.exp <= now + ProviderTtl
  /\ \A e \in discovered.entries : e.exp <= now + DiscoveryCacheTtl

(* A record a remote node claims, by whichever path it came, is kept as     *)
(* admission makes it: bounded in time and shape, and never as an echo.    *)
KeptAsAdmitted == TtlBounded /\ NothingRawIsKept /\ NoSelfInCache

(* No record of an answer was expired at t, and no provider is in it twice. *)
Sound(answer, t) ==
  /\ \A r \in answer : ~IsExpired(r, t)
  /\ \A r, q \in answer : r.peer = q.peer => r = q

(* An answer names every provider with a live record, authoritative or     *)
(* collected, exactly once, whatever expired while the walk was under way; *)
(* and no call, whichever way it ended, returned anything twice or expired *)
(* by its own clock reading.                                               *)
AnswersLoseNobody ==
  \A f \in Finders :
    /\ finds[f].phase = "returned" => Sound(finds[f].answer, finds[f].began)
    /\ finds[f].phase = "walk" =>
         \A recs \in Found(finds[f].key) :
           {r.peer : r \in MergeDedup(finds[f].local, recs, now)}
             = {r.peer : r \in {q \in finds[f].local \cup recs : ~IsExpired(q, now)}}

(* A live authoritative record is lost alone: to the record admitted in its *)
(* place, or to a removal of it and of no other.  Nobody's retract reaches  *)
(* another holder, and neither forgetting nor sweeping does (SPEC 6.6).     *)
HoldersLeaveOneAtATime ==
  [][\A e \in providers.entries :
       (~IsExpired(e, now) /\ \A f \in providers'.entries : f.seq # e.seq)
         => \/ providers'.entries = providers.entries \ {e}
            \/ /\ providers'.seq = providers.seq + 1
               /\ providers.entries \ providers'.entries = {e}]_vars

(* A key retracted while no republish call had it listed stays retracted:  *)
(* nothing else puts the own record back.                                  *)
RetractStandsUnlessRaced ==
  \A k \in retracted : OwnEntry(k) # {} => k \in raced

(* The own record carries the pointer last announced for its key, through  *)
(* every republish, unless the announcement raced one (SPEC 6.9).          *)
PointerKeptUnlessRaced ==
  \A k \in DOMAIN announced \ raced : \A e \in OwnEntry(k) : e.coin = announced[k]

-----------------------------------------------------------------------------
(* Statements of the documentation that the code does not keep.            *)

(* retract_own_provider removes the record and stops republishing: the own *)
(* record of a retracted key stays away until the key is announced again.  *)
RetractStands == \A k \in retracted : OwnEntry(k) = {}

(* "re-announcing the same key with a new coin id REPLACES the pointer":   *)
(* the own record of an announced key carries the announced pointer.       *)
PointerReplaced ==
  \A k \in DOMAIN announced : \A e \in OwnEntry(k) : e.coin = announced[k]

(* announce_provider stores the record locally: the local record stands.   *)
AnnouncedIsHeld ==
  [][\A k \in Keys, coin \in Pointers : Announce(k, coin) => OwnEntry(k)' # {}]_vars
=============================================================================
