---------------------------- MODULE RoutingTable ----------------------------
(***************************************************************************)
(* The k-buckets of routing.rs: each bucket a sequence of contacts, least- *)
(* recently-seen first.  Two specifications over the same operations:      *)
(*                                                                         *)
(*   ServiceSpec  the operations DhtService performs on its table (insert  *)
(*                from add_peer, absorb_contacts and inbound requests;     *)
(*                remove from remove_peer and a failed ping);              *)
(*   Spec         the published interface, where maintainers also carry    *)
(*                out ping-and-replace: a Full report, a ping of the       *)
(*                reported contact, then replace.  Pings take time, so     *)
(*                any operation may come between report and replace.       *)
(*                                                                         *)
(* Operators with an underscore in their name are faulty variants kept to  *)
(* show that the properties notice the fault.                              *)
(***************************************************************************)
EXTENDS Keyspace, Sequences, SequencesExt, Arranging

CONSTANTS Peers,        \* peer ids of other nodes; an id is a key
          Local,        \* this node's own id
          Addrs,        \* sets of candidate addresses a contact may carry
          K,            \* bucket capacity, and the contacts closest returns
          Maintainers   \* concurrent ping-and-replace callers

ASSUME RoutingAssumption == /\ Local \in Key
                            /\ Peers \subseteq Key \ {Local}
                            /\ K \in Nat \ {0}

VARIABLES buckets,      \* bucket index -> its contacts
          reports,      \* maintainer -> the Full report it acts on, or NoReport
          sightings,    \* history: peers by last time seen in the table, oldest first
          overtaken     \* history: candidates replaced in while already in the table

vars == <<buckets, reports, sightings, overtaken>>

Contact == [peer : Peers \cup {Local}, addrs : Addrs]
NoReport == [lru |-> Local, candidate |-> Local, seenSince |-> FALSE]

IdsOf(b) == {b[i].peer : i \in DOMAIN b}
(* The bucket a peer is filed under (bucket_for). *)
BucketOf_SharedPrefix == [p \in Peers |-> Bits - 1 - BucketIndex(Distance(Local, p))]
BucketOf == [p \in Peers |-> BucketIndex(Distance(Local, p))]
Table == UNION {IdsOf(buckets[i]) : i \in BucketIndices}
WithoutPeer(b, p) == RemoveFirstMatch(b, LAMBDA c : c.peer = p)

-----------------------------------------------------------------------------
(* KBucket *)

(* offer: already present -> to the back with the offered addresses; room -> *)
(* to the back; full -> the bucket is left alone and the front is reported.  *)
Offer_InPlace(b, c) ==
  IF c.peer \in IdsOf(b) THEN [i \in DOMAIN b |-> IF b[i].peer = c.peer THEN c ELSE b[i]]
  ELSE IF Len(b) < K THEN Append(b, c)
  ELSE b
Offer_RoomFirst(b, c) ==
  IF Len(b) < K THEN Append(b, c)
  ELSE IF c.peer \in IdsOf(b) THEN Append(WithoutPeer(b, c.peer), c)
  ELSE b
Offer_OffByOne(b, c) ==
  IF c.peer \in IdsOf(b) THEN Append(WithoutPeer(b, c.peer), c)
  ELSE IF Len(b) <= K THEN Append(b, c)
  ELSE b
Offer(b, c) ==
  IF c.peer \in IdsOf(b) THEN Append(WithoutPeer(b, c.peer), c)
  ELSE IF Len(b) < K THEN Append(b, c)
  ELSE b

IsFull(b, c) == c.peer \notin IdsOf(b) /\ Len(b) >= K

-----------------------------------------------------------------------------
Init == /\ buckets = [i \in BucketIndices |-> <<>>]
        /\ reports = [m \in Maintainers |-> NoReport]
        /\ sightings = <<>>
        /\ overtaken = {}

(* History bookkeeping: p has just been stored or refreshed. *)
Sighted(p) ==
  /\ sightings' = Append(RemoveFirst(sightings, p), p)
  /\ reports' = [m \in Maintainers |->
                   [reports[m] EXCEPT !.seenSince = @ \/ reports[m].lru = p]]

(* insert, from a caller that ignores the outcome; the own id is a no-op. *)
Insert(c) ==
  IF c.peer = Local THEN UNCHANGED vars
  ELSE LET i == BucketOf[c.peer]
       IN  /\ buckets' = [buckets EXCEPT ![i] = Offer(@, c)]
           /\ IF IsFull(buckets[i], c) THEN UNCHANGED <<reports, sightings>>
                                       ELSE Sighted(c.peer)
           /\ UNCHANGED overtaken

(* insert, from a maintainer that will act on the Full report. *)
OfferForReplace(m, c) ==
  /\ reports[m] = NoReport
  /\ c.peer # Local
  /\ IsFull(buckets[BucketOf[c.peer]], c)
  /\ reports' = [reports EXCEPT ![m] =
                   [lru |-> buckets[BucketOf[c.peer]][1].peer,
                    candidate |-> c.peer, seenSince |-> FALSE]]
  /\ UNCHANGED <<buckets, sightings, overtaken>>

(* remove: a departed peer, or one whose ping failed. *)
RemovePeer(p) ==
  /\ p \in Peers
  /\ buckets' = [buckets EXCEPT ![BucketOf[p]] = WithoutPeer(@, p)]
  /\ sightings' = RemoveFirst(sightings, p)
  /\ UNCHANGED <<reports, overtaken>>

(* replace, after the ping of the reported contact went unanswered.  Only  *)
(* the front's identity is compared.                                       *)
Replaces_Anywhere(b, lru) == lru \in IdsOf(b)
Replaces(b, lru) == b # <<>> /\ b[1].peer = lru

Replace(m, addrs) ==
  LET r == reports[m]
      i == BucketOf[r.candidate]
      c == [peer |-> r.candidate, addrs |-> addrs]
  IN  /\ r # NoReport
      /\ IF Replaces(buckets[i], r.lru)
           THEN /\ buckets' = [buckets EXCEPT ![i] = Append(Tail(@), c)]
                /\ sightings' = Append(RemoveFirst(RemoveFirst(sightings, r.lru), r.candidate),
                                       r.candidate)
                /\ overtaken' = IF r.candidate \in IdsOf(buckets[i])
                                  THEN overtaken \cup {r.candidate} ELSE overtaken
           ELSE UNCHANGED <<buckets, sightings, overtaken>>
      /\ reports' = [n \in Maintainers |->
                       IF n = m THEN NoReport
                       ELSE [reports[n] EXCEPT !.seenSince =
                               @ \/ (/\ Replaces(buckets[i], r.lru)
                                     /\ reports[n].lru = r.candidate)]]

(* The reported contact answered: the candidate is dropped. *)
KeepLru(m) ==
  /\ reports[m] # NoReport
  /\ reports' = [reports EXCEPT ![m] = NoReport]
  /\ UNCHANGED <<buckets, sightings, overtaken>>

(* closest: the k contacts with the smallest distance to the target, by a   *)
(* stable sort of all buckets one after the other.                         *)
Places == UNION {{i} \X (1 .. Len(buckets[i])) : i \in BucketIndices}
ContactAt(p) == buckets[p[1]][p[2]]
Precedes(p, q) == p[1] < q[1] \/ (p[1] = q[1] /\ p[2] < q[2])
DistanceAt(target, p) == Distance(target, ContactAt(p).peer)
ByDistance(target, places) ==
  [p \in places |->
     {q \in places \ {p} :
        \/ Closer(DistanceAt(target, q), DistanceAt(target, p))
        \/ Precedes(q, p) /\ DistanceAt(target, q) = DistanceAt(target, p)}]
Closest(target) ==
  LET places == Places
      sorted == Arranged([p \in places |-> ContactAt(p)], ByDistance(target, places))
      found == Cardinality(places)
  IN  [n \in 1 .. (IF found < K THEN found ELSE K) |-> sorted[n]]

ServiceNext == \/ \E c \in Contact : Insert(c)
               \/ \E p \in Peers : RemovePeer(p)

MaintenanceNext == \/ \E m \in Maintainers, c \in Contact : OfferForReplace(m, c)
                   \/ \E m \in Maintainers, a \in Addrs : Replace(m, a)
                   \/ \E m \in Maintainers : KeepLru(m)

ServiceSpec == Init /\ [][ServiceNext]_vars
Spec == Init /\ [][ServiceNext \/ MaintenanceNext]_vars

-----------------------------------------------------------------------------
(* Contacts are filed under the bucket of their distance, never the own id. *)
TypeOK ==
  /\ buckets \in [BucketIndices -> Seq([peer : Peers, addrs : Addrs])]
  /\ \A i \in BucketIndices : \A p \in IdsOf(buckets[i]) : BucketIndex(Distance(Local, p)) = i
  /\ reports \in [Maintainers -> [lru : Peers \cup {Local},
                                  candidate : Peers \cup {Local},
                                  seenSince : BOOLEAN]]
  /\ sightings \in Seq(Peers)
  /\ overtaken \subseteq Peers

(* No bucket outgrows k, whatever offers, removals and stale replaces run. *)
WithinCapacity == \A i \in BucketIndices : Len(buckets[i]) <= K

(* "The table never double-counts a peer" (SPEC 7.2): a double entry would  *)
(* take two of the k slots of a lookup's seed set.                          *)
HeldOnce(p) == \A i \in BucketIndices : \A j, l \in DOMAIN buckets[i] :
                 (buckets[i][j].peer = p /\ buckets[i][l].peer = p) => j = l
NoDoubleCount == \A p \in Peers : HeldOnce(p)

(* What the code does keep of it: only a candidate that somebody else had   *)
(* inserted by the time its replace came is held twice.                     *)
NoDoubleCountUnlessOvertaken == \A p \in Peers \ overtaken : HeldOnce(p)

(* Least-recently-seen order: the peers of a bucket stand in the order in   *)
(* which they were last seen, none seen and not removed is missing, and     *)
(* none is there unseen, so that the front, the contact a full bucket gives *)
(* up first, is the one unseen for longest.                                *)
LeastRecentlySeenFirst ==
  /\ Table \ overtaken \subseteq Range(sightings)
  /\ Range(sightings) \subseteq Table
  /\ \A i \in BucketIndices : \A j, l \in DOMAIN buckets[i] :
       (j < l /\ {buckets[i][j].peer, buckets[i][l].peer} \cap overtaken = {})
         => \E m, n \in DOMAIN sightings : /\ m < n /\ sightings[m] = buckets[i][j].peer
                                          /\ sightings[n] = buckets[i][l].peer

(* A lookup's seeds (closest) begin with the target's own bucket: whatever  *)
(* else the table holds, each contact that shares the target's prefix is    *)
(* closer to it than every contact that does not.                           *)
StartsWithBucket(target, i) ==
  LET closest == Closest(target)
  IN  {closest[j].peer : j \in 1 .. Len(buckets[i])} = IdsOf(buckets[i])
OwnBucketFirst ==
  \A target \in Key \ {Local} :
    StartsWithBucket(target, BucketIndex(Distance(Local, target)))

(* A refresh of a populated bucket first asks that bucket's contacts, for   *)
(* every target random_key_in_bucket may draw: it refreshes its own bucket. *)
RefreshAsksItsBucket ==
  \A i \in BucketIndices :
    buckets[i] # <<>> =>
      \A target \in RefreshTargets(Local, i) : StartsWithBucket(target, i)

(* The table, filed by the top bit of a distance, and closest, which orders *)
(* by the whole of it, agree: every walk, and every refresh as meant for    *)
(* its bucket, sets out from the target's own bucket (SPEC 7.1, 9.3).       *)
WalksStartInTheirBucket == OwnBucketFirst /\ RefreshAsksItsBucket

(* Long-lived contacts are kept: a contact leaves the table only by a       *)
(* removal that names it, or as the reported front of a full bucket; no     *)
(* number of newcomers displaces one (the eviction-attack resistance of     *)
(* SPEC 7.2).                                                               *)
NewcomersDisplaceNobody ==
  [][\A p \in Table :
       p \notin Table' =>
         \/ RemovePeer(p)
         \/ \E m \in Maintainers :
              /\ reports[m].lru = p
              /\ buckets[BucketOf[p]][1].peer = p
              /\ \E a \in Addrs : Replace(m, a)]_vars

(* SPEC 7.2: a replace is a no-op when the reported contact "was refreshed" *)
(* in the meantime, so a contact seen again since it was reported stays.    *)
SeenAgainIsSpared ==
  [][\A m \in Maintainers :
       (/\ reports[m].seenSince
        /\ reports[m].lru \in Table
        /\ \E a \in Addrs : Replace(m, a))
         => reports[m].lru \in Table']_vars

(* The documentation of add_peer (and SPEC 9.1, "idempotent-by-merge"):     *)
(* re-adding a known peer merges its addresses.                             *)
ReaddingMergesAddresses ==
  [][\A i \in BucketIndices : \A j \in DOMAIN buckets[i] : \A c \in Contact :
       (c.peer = buckets[i][j].peer /\ Insert(c))
         => \E l \in DOMAIN buckets'[i] :
              /\ buckets'[i][l].peer = c.peer
              /\ buckets[i][j].addrs \cup c.addrs \subseteq buckets'[i][l].addrs]_vars

(* random_key_in_bucket "randomizes the lower bits" (so does SPEC 9.3): the *)
(* target may be any key of the bucket, the own key of each contact filed  *)
(* there included, so that refreshes reach the whole of its region.        *)
RefreshReachesEveryone ==
  \A i \in BucketIndices : IdsOf(buckets[i]) \subseteq RefreshTargets(Local, i)
=============================================================================
