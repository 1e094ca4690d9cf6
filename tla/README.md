# A TLA+ model of dig-dht

dig-dht is the Kademlia DHT of a DIG node: provider records under content keys,
a routing table of peers, iterative lookups, and the service that joins them.
These modules model its state and operations and a small network of its nodes,
TLC checks them on small instances, and TLAPS proves, for all values of their
constants, every safety property the passing runs check.
Paths below are relative to `src/` of the crate; `SPEC.md` is the repository's
specification.

## The system

| component | code | state | operations |
| --- | --- | --- | --- |
| provider store | `provider_store.rs` | records by key and provider, each with an admission number; announced keys with pointers; next admission number | `put_at`, `remove`, `remove_key`, `gc`, `mark_announced…`, `unmark_announced`; queries `get`, `snapshot` |
| routing table | `routing.rs` | 256 buckets, each a list of contacts, least-recently-seen first | `insert`, `remove`, `replace`; query `closest` |
| iterative lookup | `lookup.rs` | one call's shortlist, seen set, collected providers, round counter | `iterative_find` |
| service, publishing | `service.rs` | the authoritative store | `announce…`, `withdraw_provider`, `retract_own_provider`, `republish` |
| service, finding | `service.rs` | the discovery cache, a second store | `find_providers`, `cached_providers`, `forget_discovered`, `holders_of`, `gc` |
| service, serving and holdings | `service.rs` | both of the above | `handle_request_from`, `ingest_verified_provider`, `remove_provider_record`, `provider_snapshot` |
| service, routing maintenance | `service.rs` | the routing table | `bootstrap`, `add_peer`, `remove_peer`, `find_node`, `refresh_buckets`, `ping` |
| network of nodes | `service.rs` over `transport.rs` | each node's record of a key; PUTs and retracts under way | the PUTs of `announce…` and `republish`; the flooded retract |
| records | `record.rs` | a candidate list, public | `sort_and_cap_addresses`, `dial_candidates`, `best_address`, pointer normalisation |
| keyspace, content ids | `key.rs`, `content.rs` | none | XOR distance, order, bucket index; canonical bytes |
| wire, transport, config, errors, clock | the other files | none of their own | types, I/O, one clock reading |

The service keeps the store, the cache and the table behind a mutex each, takes
them one at a time and awaits the network between them; any of its calls may
therefore run between two lock acquisitions of another. Components interact only
through the service: a walk's contacts go to the table, its records to the
cache, inbound records to the store, callers and accepted holders to the table.

What makes each part correct, and what is hard about it:

* **store** - its bounds, and who is evicted: a live record never for a dead one,
  an established live holder never at all. Hard: the floor is recomputed after
  every departure, expired records linger until `gc`, and the wall clock may
  step either way.
* **routing table** - capacity, one entry per peer, recency order, that newcomers
  displace nobody, and that buckets and distances agree. Hard: ping-and-replace
  spans a network round trip; bit and byte boundaries.
* **lookup** - it ends, asks the right peers once, and the shortlist cap costs it
  nothing. Hard: answers in any order, failures, panics, untrusted responders.
* **service** - hearsay stays in the cache, an answer loses nobody, a retract and
  a new pointer take effect. Hard: every await.
* **network** - a holder that republishes is findable, one that stopped is gone
  within a TTL. Hard: clocks apart, PUTs that fail, come late or are undone by a
  restart, all overlapping republish passes.
* **records** - all nodes hold the same list, and what is dialed is the best of it
  with a fallback. Hard: two caps and a dedup, applied one after another.

`PROJECT.json` lists all components and, line by line, the hazards, with the
properties that watch each of them or the reason none does yet.

## Modules

| module | models | proved about |
| --- | --- | --- |
| `HoldersMap` | what a provider store promises: a bounded map of holders, some with tenure | implemented, see below |
| `ProviderStoreOps` | the store's algorithms as operators on a store value | through its users |
| `ProviderStore` | one store as a state machine | `ProviderStore_proofs` |
| `Arranging` | what the code gets from `retain`, `dedup` and a stable sort | `Arranging_proofs` |
| `Keyspace` | keys, XOR distance and its order, buckets, refresh targets | `RoutingTable_proofs` |
| `RoutingTable` | the table (on `Keyspace` and `Arranging`); as the service uses it, and with ping-and-replace | `RoutingTable_proofs` |
| `Lookup` | one `iterative_find` | `Lookup_proofs` |
| `DialCandidates` | a holder's candidate addresses, from collection to dial list (on `Arranging`) | `DialCandidates_proofs` |
| `DhtService` | one node: two stores (by `ProviderStoreOps`), the contact set, concurrent calls | `DhtService_proofs` |
| `DhtNetwork` | one key across holder, replicas and finders | `DhtNetwork_proofs` |
| `ContentKeys` | content ids and the bytes hashed into their keys | in the module |
| `MC…` | constants, symmetries and answer sets for TLC | |

The levels meet through what one promises the next. `Lookup` takes peers for the
ranks of their distances, which `DistanceUnidirectional` and
`CloserIsStrictAndTotal` justify; `DhtService` takes the table for its contacts
and a walk for any outcome, and its authoritative store is shown to be a `ProviderStore`; `DhtNetwork` takes a walk for a set of nodes reached
and a store for one record, its evictions being faults.

**Faulty variants.** A definition with an underscore in its name is a wrong
version of the definition it stands before (a dropped guard, a check in the wrong
place). No specification uses it; substituted for the right one, it makes the
property it is listed with in `PROJECT.json` fail.

### ProviderStoreOps and ProviderStore

The nested map `by_key` is flattened into a set of entries `[key, peer, exp,
coin, seq]`; `OneEntryPerProvider` says that nothing is lost by that. `coin`
stands for everything in a record that a refresh replaces, addresses included.
`PutResults` is `put_at`: refresh in place before any bound, the global ceiling,
then the per-key cap with `EvictionVictims`, the expired entry that expired first or else
the soonest to expire outside the `cap \div 2` longest established. It yields a *set* of results,
so that determinism (one result, whatever the hash order) is a statement that
can fail: it is part of `NewcomersAdmitted`. In `ProviderStore` the clock may
read any second at any time (`ReadClock`).

`HoldersMap` says what this amounts to for somebody who sees only records:
holders `Join`, `Renew`, `Leave` or are swept when dead; in a full key a newcomer
may `Supplant` one, yet never a live one while a dead one is listed, and never a
live one with tenure, which the first `cap \div 2` places of a key confer. Whom
it supplants, and to whom tenure passes, it leaves open. `View` in
`ProviderStore` is the mapping: admission numbers are forgotten, and those in the
floor have tenure; `KeepsHolders` is that `View!Spec` holds. A refused offer maps
to a stutter, so when offers are refused is for `NewcomersAdmitted` to say.

### Keyspace and RoutingTable

A key is a string of `Bytes * ByteBits` bits. `Offer`, `Replaces` and `RemovePeer`
are `KBucket::offer`, `replace` and `remove`; peers are filed by
`BucketIndex(Distance(Local, p))`. The service calls `insert` and `remove` only:
that is `ServiceSpec`. `Spec` adds `Maintainers` that act on a `Full` report
after a ping, which the public interface is made for but no code in the crate
does; `service.ping` removes the silent contact itself, after which a `replace`
naming it does nothing. `sightings`, `overtaken` and `seenSince` are history.
Recency is stated pair by pair: of two peers of a bucket, neither of them held
twice, the one in front was seen longer ago. About a peer that an overtaken
replace has entered twice it says nothing, as the code has two places for it.
`Closest` arranges the places of the buckets as they are by the distance of what they
hold and cuts at `K`; `RefreshTargets` is what `random_key_in_bucket` may draw.
`BucketIndex` goes byte by byte, as `bucket_index` does: first the byte that is not
zero, then its leading zeros.

### Arranging

`retain`, `dedup_by_key` and a stable `sort_by_key` each return the elements of a list
at some of its indices, in some order. `Arranged(s, earlier)` is that list, where
`earlier` gives for each chosen index the set of those that come before it: an element's
place is one more than their number. `Selected` keeps the order of the list. A definition
of this kind says what a sort returns without saying how, and can be reasoned about
without an induction over the list.

### Lookup

A peer is the rank of its distance to the target: distances to one target are
distinct, so the sorted shortlist is a set of ranks. Each query is a task of its
own; `Answered`, `Errored` and `Panicked` join it, in any order. The code folds
a round's results once all tasks are joined, in join order; the fold touches
locals nobody else reads, so folding at each join is the same, and `EndRound`
does the rest: sort, cap, early exits. A lookup starts from at most `MaxSeeds`
contacts, of which its callers have k. `Answers(p)` is what a peer may return;
`honest`, history, says that every answer so far named somebody closer than its sender.

### DhtService

One action per lock acquisition. A `find_providers` call is four: local records
and the clock (`FindStart`), the cache (`FindCache`), the seeds (`FindSeeds`), and
after the walk its contacts, its records and the answer (`FindReturn`).
`republish` is the key list, then two steps per key: record and pointer, then put.
`gc` is two steps at one instant. `Announce` and `Retract` each hold the lock
throughout. A clock reading taken just before a lock is part of the step.
The table is the set of its contacts, and an insert may fail to keep a
contact (a full bucket). The network is the environment: a walk returns any hearsay
for the key and any contacts. Learning a caller (`Inbound`) and admitting its record
(`Admit`) are separate steps, as their locks are. Records arrive in and out of bounds:
`RawVerified` and `RawHearsay` stand for a pointer or an address list that
`Normalized` has yet to mend. `retracted`, `forgotten` and `raced` are history.

### DialCandidates

A candidate is a spelling of a host with its port, and a kind; `FamilyRank`,
`Endpoint` and `Overlong` say of a spelling what parsing it would. A holder
`Collect`s candidates, the list is `Admit`ted by the one function that
constructors, decoding, stores and cache all call (`sort_and_cap_addresses`), and
whoever holds the record may `Rewrite` it, since the field is public. `DialList`
is `dial_candidates`: sort, dedup by endpoint, cap with the reserved slot.

### DhtNetwork

One content key, one holder. `Announce` and `Republish` store the record at the
holder, unless its store is full (`OwnPutRefused`, an outcome nobody looks at), and
begin a pass of PUTs to the replicas, each of which succeeds (`Put`),
fails (`PutFails`: lost, refused, or the walk did not come upon that node) or
times out and arrives later (`PutTimesOut`, `Arrives`). Requests are not repeated:
a PUT is one call and nothing retries. `HolderRestarts` and `LosesRecord` forget
what was in memory; the latter also stands for an eviction. `Retract` removes the
holder's own record, the embedding node floods the retract, and each
`RetractArrives` in its own time or never. `Find` reads one node and caches what
it returns. Every node's clock has an offset of its own; expiries are kept
relative to a clock that runs behind all others, so the state needs no absolute
time, and an expired record is 0, which is all a read can tell (`gc` then changes
nothing that is read and has no action). The three locks of one republished key
are one step here; their races are `DhtService`'s. `kept` (nodes that took this
announcement's record and had no fault since), `silent` (ticks since the holder
built a record) and `dark` (ticks since anybody served it) are history.

### ContentKeys

An identifier is one, two or three hashes of 32 bytes; a capsule is a root by
another name. `CanonicalBytes` is the tag and the bytes in order.


## Runs

Bounds of every run are in its `.cfg`; all passing runs are exhaustive.
`MaxTime`, `MaxAdmissions`, `MaxAnnounced`, `Expiries`, `Claims`, `MaxFound`, `MaxSeeds`,
`MaxCloser`, `MaxCollected`, `MaxFaults`, `PassTime`, `Lead` and `Skew` are bounds of the
models, the rest are parameters of the code.

| run | instance | what it shows |
| --- | --- | --- |
| `store` | 2 keys, 4 peers, cap 3 (floor 1), ceiling 4 | both bounds, one entry per provider, distinct establishment; a newcomer is refused at the ceiling and nowhere else, with one outcome; established live holders stay; the store implements `HoldersMap`; snapshot agrees with get |
| `routing_replace` | 4-bit keys, 3 peers for a bucket of 2, one elsewhere, 2 maintainers | filing, capacity, recency order; a peer is held twice only if a replace was overtaken; newcomers displace nobody; walks and refreshes start in their bucket |
| `lookup_answers` | 7 peers, 1 holder, k = α = 2, cap 6, 3 seeds, 4 rounds; any answers of up to one contact, failures, panics | the cap is harmless unless most of the list failed, the k closest are asked, nobody twice; honest answers lead to the closest peer; the first record is kept and ends the lookup; every lookup ends |
| `service_finding` | 1 key, 1 remote, 1 finder, 1 collector, walks of up to 2 records | hearsay stays private, every kept record went through all admission rules, forgetting lasts until the next walk, answers lose nobody, holders are lost one at a time |
| `service_publishing` | 2 keys, 1 republish pass | a retract or a pointer is undone only if it overtook a pass |
| `dial_candidates` | 8 candidates with double spellings, caps 3 and 2 | admission drops the least preferred only, is idempotent, and what is dialed is the best of what there is, with a fallback if there is one |
| `network` | 2 replicas, 1 finder, 1 announce beside 1 republish, clocks one tick apart either way, 1 fault | kept records are served while announced; gone from a node once its clock is past the last expiry written; caches follow; republishing refills every replica |

Why the bounds suffice: the store's decisions depend on one key's entries and the
total, so one peer more than the cap, and keys whose caps add up to more than the
ceiling, meet every case (empty, room, full, full with dead inside and outside the
floor, at the ceiling with a key below its cap); one admission more than the
ceiling would show an overrun. Two clock readings give each record all its orders
of expiry. A bucket of 2 with 3 peers has a front, a back and a newcomer, which another's
removal lets in on its own between a `Full` report and its replace; two
bytes of two bits have a bit boundary and a byte boundary. Seven peers exceed the
shortlist cap of 6, so it really cuts, and four rounds are enough for a peer to be
asked, cut and named again; with one contact per answer a shortlist grows as it
would with more, only over more rounds. The claims 1 and 4 are an expiry within the
run and one beyond every clamp. The two peers of `service_finding` just fill a key, so
that run neither evicts nor refuses and calls no `republish`; what its properties say of
those is proved for all instances, and evictions are the subject of `store`. With caps 3 and 2, four collected candidates
overflow both, and three that were admitted overflow the second. In `network` the
holder's clock is ahead of one replica's, whose clamp then decides, and behind
another's, where the record's own expiry does; the finder's is the farthest
ahead. One fault is enough for each of PUT lost, PUT late, replica emptied,
against a pass of either kind. Deadlock is checked everywhere; a finished lookup
repeats `Done`.

**Fairness.** `Terminates` needs weak fairness of the lookup's own steps: every
query returns (the transport's duty: `rpc_timeout` is configuration that this
crate never reads) and the runtime schedules the task. `Refills` needs it of
`Tick` (time passes), of `RepublishDue` (the embedding node runs `republish`, as
SPEC 9.3 requires of it) and of each pass's `Replication` (every call of it returns). No fairness is
asked of late PUTs, retracts, finders or restarts.

**Cadence.** `DhtNetwork` assumes
`Ttl > Interval + PassTime + Skew + Most(PassTime, Lead)`, where `PassTime` is the
longest from building a record to its last PUT, and `Interval` the longest from one
record built for the key to the next: `republish` may run at any time, at the latest
then. (It builds a node's keys one after another, so a key that one pass comes to
early and the next one late is built `republish_interval` and most of a pass apart;
announces of the same key are not counted on.) A replica's record must last until
the last PUT of the next round (`Interval + PassTime`), by the clock of the finder
farthest ahead (`Skew`). What shortens it is one of two things: it was a
pass old when it was put, announce and republish passes being under way side by
side; or the replica's clock is behind the holder's by `Lead`, and its clamp, `Ttl`
from its own reading, cuts the record short. The instance is the least that
satisfies it: with `Ttl` one lower `KeptIsServed` fails. The code and SPEC 9.3 ask
only that `republish_interval` be shorter than `provider_ttl`, and nothing checks
even that; the defaults (1 h, 2 h) leave room.

### Where the code and its documentation differ

Each of these runs checks one documented statement and finds it violated; the
lines and quotations are under `findings` in `PROJECT.json`.

| run | statement | what happens |
| --- | --- | --- |
| `routing_double_count` | the table never double-counts a peer | candidate inserted on its own, then again by `replace` |
| `routing_refresh` | a refresh target's lower bits are random | only its lower bytes are: most of the fullest bucket's region is never a target |
| `lookup_cap_costs` | the cap discards no contact that could still be in the top k | it counts failed contacts: three generations of closer ones that then fail push out a contact that answered, and the result is one contact short |
| `lookup_unqueried_result` | the k closest returned have been queried | a failure among them promotes one that was not |
| `service_retract_race` | retract stops republishing | a pass under way puts the record back |

Other documented statements the models contradict. Those with a name are stated in
the module and can be checked by adding them to one of its configurations:

* with a per-key cap of zero a key's first record is stored all the same;
* `SoonestNewcomerRefused` - a newcomer expiring before all others of a full key is
  admitted and another evicted (`PutOutcome::RejectedOverCapacity` says refused);
* `SeenAgainIsSpared` - replace evicts a reported contact that was refreshed meanwhile
  if it has come to the front again;
* `ReaddingMergesAddresses` - re-adding a contact replaces its addresses;
* `PointerReplaced` - a republish pass that read the old mirror-coin pointer puts it back;
* `AnnouncedIsHeld` - at the global ceiling the own record is refused and the key
  announced all the same;
* `CollectedFallbackIsDialed` - eight IPv6 candidates fill an admitted list, and no
  fallback is left for the slot `dial_candidates` reserves; a holder with one
  address per kind and family does not get there;
* `forget_discovered` during a walk for the key: the walk refills the cache, and the
  next find is answered from it (`ForgottenUnlessWalking` is what does hold).

And two things nobody documents: a PUT that arrives late overwrites a newer record
of the same holder, expiry and all (`Arrives`; the next republish mends it), and
may be expired when it is admitted.

`lookup_cap_costs` has k = 3, α = 1 and a cap of 9. The same pattern, generations of
k contacts each of which fails once its successor has been named, fits the defaults
(k = 20, α = 3, cap 60) within their 64 rounds. `CapIsHarmlessUnlessManyFail` is
what does hold: nothing is lost as long as no more than cap - k of the contacts
listed have failed.

The double count and the stale replace need a caller that carries out
ping-and-replace; the service itself does not.

## Proofs

All theorems hold for any values of the constants, under the named assumptions of
the modules that declare them: sets and naturals; `Bytes`, `ByteBits`, k and α
positive; the own id no peer; clocks within `Lead` and `Skew` and the cadence above
for `DhtNetwork`. The bounds of the models (`MaxTime`, `MaxRounds`, `MaxFaults` and
the like) are constants too, so that the theorems hold for every choice of them.
Five theorems assume more and say so: `BoundsHold` and `BothStoresAreBounded` a per-key cap
of at least one,
`SnapshotsAreTrue` that there are finitely many keys, `FirstIsBest` a dial cap above one
(`MAX_DIAL_CANDIDATES` is 4), and `FewAddressesAllReachTheDialer`, which is about such
holders, that no more addresses are collected than a record may carry.

For each component one invariant is shown inductive (`ProviderStore_proofs!SpecInv`,
`TableInvariant`, `LookupInvariant`, `ListInvariant`, `ServiceInvariant`, `NetworkInvariant`): it holds
initially and every action preserves it. Each invariant the runs check follows from
it, and each action property from it and the step.

**The store.** `ProviderStore_proofs`:

* `TypeCorrect`, `DedupOnProvider`, `EstablishmentIsStrict` - `TypeOK`,
  `OneEntryPerProvider`, `SeqsDistinct`;
* `BoundsHold` - `WithinCaps`, assuming a per-key cap of at least one (with zero
  it is false: a key's first record is stored);
* `EstablishmentProtected` - the action property `EstablishedHolderStays`;
* `OffersHaveOneOutcome` - `NewcomersAdmitted`;
* `SnapshotsAreTrue` - `SnapshotAgreesWithGet`, for finitely many keys.

The inductive invariant is the conjunction of the three state invariants and the
global ceiling: counting needs finiteness, and the victim's uniqueness and the
floor need distinct admission numbers. The per-key cap is a second invariant on
top of it, since it alone needs the assumption about the cap: an eviction removes
exactly one entry of the full key before adding one. For the floor, the argument
is by rank: an entry is in the floor if fewer than `cap \div 2` entries of its
key are older. A departure can only lower that count, a refresh keeps it
(`FloorSurvivesRefresh`), a newcomer is younger than everything (`FloorSurvivesYounger`), and
the victim lies outside the floor or is expired (`VictimsSpareFloor`). That a put has
one outcome needs a victim, which is an entry outside the floor or a dead one (the
newest of a full key is outside), and no second one, as ties in expiry are broken by
admission numbers. For snapshots, records of a key and its live entries are in
bijection, and the cut keeps the first `max` keys of an order by an injection into
`1..max`.

**The refinement.** `StoreImplementsHoldersMap` in the same module is
`Spec => KeepsHolders`, on the same invariant: each operation of the store is one
step of the map or none. Since a pair is held once, entries and claims are in
bijection (`SameCount`), so the map's counts are the store's. The steps of
`put_at` are taken apart (`RefreshStep`, `AdditionStep`, `ReplacementStep`); a new
entry of a key with fewer than `cap \div 2` others is in the floor
(`EarlyComersEstablished`), and tenure is kept by every step because the floor is
(`TenureStep`, from the lemmas above).

**The key space.** First part of `RoutingTable_proofs`, for keys of any width: `DistanceSymmetric`,
`DistanceUnidirectional` and `CloserIsStrictAndTotal` are the laws lookups rely on;
`BucketIsTopBit` is that the byte arithmetic of `bucket_index` finds the most significant
set bit, `OwnBucketIsCloser` that bucket and metric agree, `RefreshStaysInBucket` that a drawn
key falls into the bucket it was drawn for. The argument is the first bit in which two distances differ.

**Content keys.** `DistinctContentHasDistinctBytes`: the tag gives the number of
hashes, and byte `32 (j - 1) + p` is byte `p` of the `j`-th.

**The routing table.** `RoutingTable_proofs`, for `Spec`, that is with any number of
callers doing ping-and-replace, and so for `ServiceSpec`:

* `TableTypes`, `BucketsStayBounded` - `TypeOK` (filing included), `WithinCapacity`;
* `HeldTwiceOnlyIfOvertaken` - `NoDoubleCountUnlessOvertaken`;
* `FrontIsLeastRecentlySeen` - `LeastRecentlySeenFirst`;
* `NoNewcomerDisplaces` - the action property `NewcomersDisplaceNobody`;
* `WalksStartAtHome` - `WalksStartInTheirBucket`;
* `ServiceNeverDoubleCounts` - `NoDoubleCount`, of `ServiceSpec`: only `replace` can enter a
  peer twice, so what the code does differs from what SPEC 7.2 says for its callers alone.

The invariant (`Good` with the reports' shape) says that buckets and `sightings` hold the
same peers, the sightings each once, and that they order every pair alike unless one
of it was overtaken. Order within a bucket gives uniqueness: a peer at two places of
one would stand before itself in the sightings. Every operation is at most one removal
and one append on both sides, and both keep the order of what remains
(`WithoutFirst`, `WithoutPeerShape` and the lemmas after them).

`WalksStartAtHome` needs no more of the invariant than its types and capacity. `ByDistance`
orders the places of the table strictly and totally, by distance and, at equal distance,
by place, as a stable sort does (`PlaceOrder`). By `OwnBucketIsCloser` whatever
comes before a place of the target's own bucket is in that bucket (`OwnPlaces`), so
its contacts are the first of the arrangement (`Foremost`, a lemma of `Arranging_proofs`),
and being at most k they survive the cut. For refreshes, a drawn key's own bucket is the
one it was drawn for.

**The lookup.** `Lookup_proofs`, for any answers, failures and panics:

* `LookupTypes`, `ClosestWereAsked`, `HonestLookupsArrive` - `TypeOK`,
  `KClosestWereAsked`, `FindsTheClosest`;
* `CapSparesTheResult` - `CapIsHarmlessUnlessManyFail`;
* `AskedAtMostOnce`, `FirstRecordStays` - `NeverAskedAgain`, `FirstRecordWins`;
* `CommentsHoldIfNoneFails` - while no query has failed, `CapIsHarmless` and
  `ReturnedWereQueried`, the two statements the runs refute, do hold: it takes failures
  to make the cap cost something or a lookup return what it has not asked.

The core of the invariant is `CutIsFar`: whatever was seen and is no longer listed has
`ShortlistCap` listed contacts before it. A merge only adds to them, a cap keeps the
nearest, so it is inductive; it puts the k closest ever seen on the list
(convergence is then about them) and, once failures are counted off, the k closest
that did not fail. `HonestLookupsArrive` takes the nearest contact ever seen: it is among
the k closest, so it has been asked, and has named a nearer one unless it is the first.

**The service.** `DhtService_proofs`, for any number of `find_providers`, `republish` and
`gc` calls interleaved at their locks and awaits, and a network that answers anything:

* `ServiceTypes`, `HearsayIsNeverServed`, `RemoteClaimsAreClamped` - `TypeOK`,
  `HearsayStaysPrivate`, `KeptAsAdmitted`;
* `ForgettingLasts`, `AnswersAreSound` - `ForgottenUnlessWalking`, `AnswersLoseNobody`;
* `OnlyRepublishUndoesARetract`, `OnlyRepublishKeepsAnOldPointer` -
  `RetractStandsUnlessRaced`, `PointerKeptUnlessRaced`;
* `HoldersLeaveAlone` - the action property `HoldersLeaveOneAtATime`;
* `NodeRunsAStore` - a node's authoritative store is a `ProviderStore`;
* `NodeKeepsHolders` - hence it keeps `KeepsHolders` and `EstablishedHolderStays`;
* `BothStoresAreBounded` - per-key cap and global ceiling of both stores, the cache too.

The invariant says what the runs' properties do not: what each call carries from lock to
lock. A record in a republish call's hands is the node's own with the announced pointer
or its key is raced (`OwnRecords`, `PointersAgree`), as is a retracted key still on its list
(`RetractedStays`); what a find has read was sound when it was read (`Carried`); a
forgotten key is gone from the cache, dead entries included, and no walk for it is
under way (`Gone`). The steps on the authoritative store reduce to two
(`Drops`, `PutsOne`), so the invariant is preserved by those rather than by each
action anew. `cache_discovered` puts a walk's records one after another,
in no particular order; that the cache keeps its properties through all of
them is shown by a least counterexample: among the finite sets of records after
which one of them fails, take a smallest, and remove the record put last.

**From the node to the map.** `Store` in the same module is `ProviderStore_proofs` over a node's
authoritative store: no key marked as announced, and any payload and expiry on offer
(`RecordsAreOffers`). Every lock of that store's mutex is one call of it, which the two
steps above have become: `Drops` is a `Remove` or a `Gc`, `PutsOne` a `Put` (`NodeStep`), all else
leaves it alone or lets the clock be read. The assumptions of the store's theorems
are shown of that instance (`StoreAssumptions`), so they hold of the node, and with them
the chain `DhtService`, `ProviderStore`, `HoldersMap`. A walk is many puts in one step,
so the cache is no such instance: its bounds are shown by the same least counterexample,
on the store's lemmas about one put (`PutPreserves`, `PutKeepsKeyCap`).

**The network.** `DhtNetwork_proofs`, for any number of replicas, finders, faults and announce
calls under way at once:

* `NetworkTypes` - `TypeOK`;
* `KeptStaysServed` - `KeptIsServed`, which needs all of the cadence assumption;
* `StoppedIsGone`, `CachesFollow` - `GoneInTime`, `CacheFollows`.

No record anywhere expires later than the last one built (`AgesOut`: at most `Top - silent`,
late PUTs and passes included); nothing expired is kept (`HeldLive`); a cached record
is at most `dark` ticks behind the last node that served it (`CacheAges`); a pass is as old
as its record (`PassAges`); and a kept record is at most `Since(n)` ticks and one pass old,
or clamped no earlier than that (`KeptLasts`), with `Since(n)` the ticks since the republish
before the one that has yet to reach `n`.

**Arrangements.** `Arranging_proofs`: an arrangement by a finite strict total order lists
each chosen element once and in that order (`Arrangement`), because the number of those that
come earlier is injective into `1..N`, hence onto. From it: what is closed downwards in the
order comes first (`Foremost`); a list's arrangement is a list of its elements
(`ArrangedList`); what is in order already is left as it is (`ArrangedAlready`).

**Records.** `DialCandidates_proofs`, for candidates with any spellings, ranks and caps,
collected and rewritten in any order:

* `Types`, `BestAreKept` - `TypeOK`, `AdmissionKeepsTheBest`;
* `Agreement` - the action property `HopsAgree`;
* `BestAreDialed`, `FallbacksAreDialed` - `DialListIsBest`, `FallbackIsDialed`;
* `FirstIsBest` - `BestIsDialedFirst`, for a dial cap above one (with one, the reserved
  place is the only one);
* `FewAddressesAllReachTheDialer` - `CollectedFallbackIsDialed` of holders below the
  admission cap.

The invariant adds to the first two that an admitted list that nobody rewrote stands in the order
of preference, and that nothing is missing before the first admission. Admission is a
selection, an arrangement by rank and a cut: what the cut takes away has the whole cap of
preferred candidates before it, and a later admission of what remains keeps that; a list in order
and within the cap is returned as it came. The dial list is an arrangement of the
dialable ones, less those with an endpoint listed before, cut with a place reserved:
the first of its fallbacks either is within the cut or takes that place.

Model-checked only are the liveness properties, `Terminates` and `Refills`, which the prover
does not reach, and the five statements the runs above refute, which have
counterexamples.

## Not modelled

* Wire framing, error texts, SHA-256, hex parsing: no state of their own, and no
  property here tells their outcomes apart beyond "value or error".
* Calls without an authenticated caller (`handle_request`; `Admit` takes records of
  remotes, which with a caller is what `handle_request_from` and the contract of
  `ingest_verified_provider` leave), malformed requests and
  ids (answered with an error or skipped, changing nothing).
* The in-memory transport of the tests; requests delivered twice (the transport is
  a call with one answer and nothing retries).
* Several holders or keys at once in `DhtNetwork`: records of different holders meet
  only in a store's caps, which `ProviderStore` covers.
* Configuration defaults and `refresh_interval`: when the embedding node refreshes
  buckets changes what the table holds, not what is promised of it.

## What is left

1. A refinement of `DhtNetwork` by `DhtService` for one key: each node's `held` as
   what `Served` answers.
2. Lookups over the real `RoutingTable` rather than over ranks of distances.
