------------------------- MODULE RoutingTable_proofs -------------------------
(***************************************************************************)
(* Proofs about Keyspace, the laws of the XOR metric that the routing      *)
(* table and the lookup rest on, and about RoutingTable: for keys of any   *)
(* number of bits, any peers, any bucket capacity and any number of        *)
(* concurrent ping-and-replace callers.                                    *)
(***************************************************************************)
EXTENDS RoutingTable, Arranging_proofs

(* Bits counts the positions: a positive natural. *)
LEMMA BitsPositive == Bits \in Nat \ {0} /\ Positions \subseteq Nat
BY KeyspaceAssumption DEF Bits, Positions

(* Integer division keeps the order. *)
LEMMA DivMonotone ==
  ASSUME NEW i \in Nat, NEW j \in Nat, NEW n \in Nat \ {0}, i <= j
  PROVE  i \div n <= j \div n
<1> DEFINE p == i \div n
           q == j \div n
<1>1. p \in Int /\ q \in Int /\ n * p <= i /\ j < n * (q + 1)
  OBVIOUS
<1> HIDE DEF p, q
<1>2. n * p < n * (q + 1)
  BY <1>1
<1>3. p < q + 1
  BY <1>1, <1>2
<1>4. p <= q
  BY <1>1, <1>3
<1> QED BY <1>4 DEF p, q

(* Distances are keys again: bits for every position. *)
LEMMA DistanceType ==
  ASSUME NEW a \in Key, NEW b \in Key PROVE Distance(a, b) \in Key
BY DEF Distance, Key

(* key.rs: the distance is symmetric, and zero from a key to itself only.   *)
THEOREM DistanceSymmetric ==
  ASSUME NEW a \in Key, NEW b \in Key
  PROVE  /\ Distance(a, b) = Distance(b, a)
         /\ Distance(a, b) = Zero <=> a = b
<1>1. Distance(a, b) = Distance(b, a)
  BY DEF Distance, Key
<1>2. ASSUME Distance(a, b) = Zero PROVE a = b
  <2>1. \A i \in Positions : a[i] = b[i]
    BY <1>2 DEF Distance, Zero
  <2> QED BY <2>1 DEF Key
<1>3. Distance(a, a) = Zero
  BY DEF Distance, Zero, Key
<1> QED BY <1>1, <1>2, <1>3

(* The metric is unidirectional: two keys at the same distance from one     *)
(* target are the same key.  It is why lookup.rs may order a shortlist by   *)
(* distance alone, and why Lookup may name a peer by the rank of its        *)
(* distance to the target.                                                  *)
THEOREM DistanceUnidirectional ==
  ASSUME NEW target \in Key, NEW a \in Key, NEW b \in Key,
         Distance(target, a) = Distance(target, b)
  PROVE  a = b
<1>1. ASSUME NEW i \in Positions PROVE a[i] = b[i]
  <2>1. Distance(target, a)[i] = Distance(target, b)[i]
    OBVIOUS
  <2>2. (target[i] = a[i]) <=> (target[i] = b[i])
    BY <2>1 DEF Distance
  <2>3. target[i] \in {0, 1} /\ a[i] \in {0, 1} /\ b[i] \in {0, 1}
    BY DEF Key
  <2> QED BY <2>2, <2>3
<1> QED BY <1>1 DEF Key

(* Every non-empty set of positions has a least one. *)
LEMMA LeastPosition ==
  ASSUME NEW S \in SUBSET Positions, S # {}
  PROVE  \E i \in S : \A j \in S : j >= i
<1>1. S \subseteq Nat
  BY BitsPositive
<1>2. PICK i \in S : \A j \in S : <<j, i>> \notin OpToRel(<, Nat)
  <2>1. IsWellFoundedOn(OpToRel(<, Nat), Nat)
    BY NatLessThanWellFounded
  <2> QED BY <1>1, <2>1, WFMin, Zenon
<1>3. ASSUME NEW j \in S PROVE j >= i
  <2>1. ~(j < i)
    BY <1>1, <1>2 DEF OpToRel
  <2> QED BY <1>1, <2>1
<1> QED BY <1>3

(* Two keys that differ have a first bit in which they differ. *)
LEMMA FirstDifference ==
  ASSUME NEW d \in Key, NEW e \in Key, d # e
  PROVE  \E i \in Positions : d[i] # e[i] /\ AgreeBefore(d, e, i)
<1> DEFINE S == {i \in Positions : d[i] # e[i]}
<1>1. S # {}
  BY DEF Key
<1>2. PICK i \in S : \A j \in S : j >= i
  BY <1>1, LeastPosition
<1>3. \A j \in Positions : j < i => d[j] = e[j]
  BY <1>2, BitsPositive
<1> QED BY <1>3 DEF AgreeBefore

LEMMA ZeroIsAKey == Zero \in Key
BY DEF Zero, Key

(* Distances are totally ordered, so that "the k closest" is well defined.  *)
THEOREM CloserIsStrictAndTotal ==
  ASSUME NEW d \in Key, NEW e \in Key
  PROVE  /\ ~(Closer(d, e) /\ Closer(e, d))
         /\ d # e => Closer(d, e) \/ Closer(e, d)
<1>1. ASSUME Closer(d, e), Closer(e, d) PROVE FALSE
  <2>1. PICK i \in Positions : d[i] = 0 /\ e[i] = 1 /\ AgreeBefore(d, e, i)
    BY <1>1 DEF Closer
  <2>2. PICK j \in Positions : e[j] = 0 /\ d[j] = 1 /\ AgreeBefore(e, d, j)
    BY <1>1 DEF Closer
  <2> QED BY <2>1, <2>2, BitsPositive DEF AgreeBefore
<1>2. ASSUME d # e PROVE Closer(d, e) \/ Closer(e, d)
  <2>1. PICK i \in Positions : d[i] # e[i] /\ AgreeBefore(d, e, i)
    BY <1>2, FirstDifference
  <2>2. d[i] \in {0, 1} /\ e[i] \in {0, 1}
    BY DEF Key
  <2> QED BY <2>1, <2>2 DEF Closer, AgreeBefore
<1> QED BY <1>1, <1>2

LEMMA CloserIsTransitive ==
  ASSUME NEW a \in Key, NEW b \in Key, NEW c \in Key, Closer(a, b), Closer(b, c)
  PROVE  Closer(a, c)
<1>1. PICK i \in Positions : a[i] = 0 /\ b[i] = 1 /\ AgreeBefore(a, b, i)
  BY DEF Closer
<1>2. PICK j \in Positions : b[j] = 0 /\ c[j] = 1 /\ AgreeBefore(b, c, j)
  BY DEF Closer
<1>3. i \in Nat /\ j \in Nat /\ i # j /\ Positions \subseteq Nat
  BY <1>1, <1>2, BitsPositive
<1>4. CASE i < j
  <2>1. a[i] = 0 /\ c[i] = 1
    BY <1>1, <1>2, <1>4 DEF AgreeBefore
  <2>2. ASSUME NEW l \in Positions, l < i PROVE a[l] = c[l]
    <3>1. l < j
      BY <1>3, <1>4, <2>2
    <3> QED  BY <1>1, <1>2, <2>2, <3>1 DEF AgreeBefore
  <2> QED  BY <2>1, <2>2 DEF Closer, AgreeBefore
<1>5. CASE j < i
  <2>1. a[j] = 0 /\ c[j] = 1
    BY <1>1, <1>2, <1>5 DEF AgreeBefore
  <2>2. ASSUME NEW l \in Positions, l < j PROVE a[l] = c[l]
    <3>1. l < i
      BY <1>3, <1>5, <2>2
    <3> QED  BY <1>1, <1>2, <2>2, <3>1 DEF AgreeBefore
  <2> QED  BY <2>1, <2>2 DEF Closer, AgreeBefore
<1> QED  BY <1>3, <1>4, <1>5

(* The first set bit of a distance.                                        *)
TopBit(d) == CHOOSE i \in Positions : d[i] = 1 /\ AgreeBefore(d, Zero, i)

(* TopBit is the first set bit of a distance that has one, and it is the    *)
(* only position that is. *)
LEMMA TopBitIsFirst ==
  ASSUME NEW d \in Key, d # Zero
  PROVE  TopBit(d) \in Positions /\ d[TopBit(d)] = 1 /\ AgreeBefore(d, Zero, TopBit(d))
<1>1. PICK i \in Positions : d[i] # Zero[i] /\ AgreeBefore(d, Zero, i)
  BY FirstDifference, ZeroIsAKey
<1>2. d[i] = 1
  BY <1>1 DEF Zero, Key
<1> QED BY <1>1, <1>2 DEF TopBit

LEMMA TopBitUnique ==
  ASSUME NEW d \in Key, NEW i \in Positions, d[i] = 1, AgreeBefore(d, Zero, i)
  PROVE  d # Zero /\ TopBit(d) = i
<1>1. d # Zero
  BY DEF Zero
<1>2. TopBit(d) \in Positions /\ d[TopBit(d)] = 1 /\ AgreeBefore(d, Zero, TopBit(d))
  BY <1>1, TopBitIsFirst
<1> DEFINE t == TopBit(d)
<1> HIDE DEF t
<1>3. ~(i < t) /\ ~(t < i)
  BY <1>2 DEF t, AgreeBefore, Zero
<1>4. i \in Nat /\ t \in Nat
  BY <1>2, BitsPositive DEF t
<1>5. t = i
  BY <1>3, <1>4
<1> QED BY <1>1, <1>5 DEF t

(* bucket_index (key.rs) goes byte by byte and bit by bit, and comes out    *)
(* where the big-endian order of distances has their most significant bit. *)
THEOREM BucketIsTopBit ==
  ASSUME NEW d \in Key, d # Zero
  PROVE  BucketIndex(d) = Bits - 1 - TopBit(d)
<1> DEFINE t == TopBit(d)
           q == ByteOf(t)
           r == t - q * ByteBits
<1>1. t \in Positions /\ d[t] = 1 /\ \A i \in Positions : i < t => d[i] = 0
  BY TopBitIsFirst DEF AgreeBefore, Zero
<1>2. t \in Nat /\ ByteBits \in Nat \ {0} /\ Bytes \in Nat \ {0} /\ t < Bytes * ByteBits
  BY <1>1, KeyspaceAssumption, BitsPositive DEF Positions, Bits
<1> HIDE DEF t
<1>3. q \in Nat /\ q * ByteBits <= t /\ t < q * ByteBits + ByteBits
  BY <1>2 DEF ByteOf
<1> HIDE DEF q
<1>4. q \in 0 .. Bytes - 1
  <2>1. ~(Bytes <= q)
    <3> SUFFICES ASSUME Bytes <= q PROVE FALSE
      OBVIOUS
    <3>1. Bytes * ByteBits <= q * ByteBits
      BY <1>2, <1>3
    <3> QED  BY <1>2, <1>3, <3>1
  <2> QED  BY <1>2, <1>3, <2>1
<1>5. FirstByte(d) = q
  <2>1. \A i \in Positions : ByteOf(i) < q => d[i] = 0
    <3> SUFFICES ASSUME NEW i \in Positions, ByteOf(i) < q PROVE i < t
      BY <1>1
    <3>1. i \in Nat
      BY BitsPositive
    <3>2. t <= i => q <= ByteOf(i)
      BY <1>2, <3>1, DivMonotone DEF q, ByteOf
    <3>3. ByteOf(i) \in Int
      BY <1>2, <3>1 DEF ByteOf
    <3> QED  BY <1>2, <1>3, <3>1, <3>2, <3>3
  <2>2. ASSUME NEW b \in 0 .. Bytes - 1,
               \E i \in Positions : ByteOf(i) = b /\ d[i] = 1,
               \A i \in Positions : ByteOf(i) < b => d[i] = 0
        PROVE  b = q
    <3>1. ~(b < q)
      BY <2>1, <2>2
    <3>2. ~(q < b)
      BY <1>1, <2>2 DEF q
    <3> QED  BY <1>3, <3>1, <3>2
  <2>3. \E i \in Positions : ByteOf(i) = q /\ d[i] = 1
    BY <1>1 DEF q
  <2> QED  BY <1>4, <2>1, <2>2, <2>3 DEF FirstByte
<1>6. LeadingZeros(d, q) = r
  <2>1. r \in 0 .. ByteBits - 1 /\ q * ByteBits + r = t
    BY <1>2, <1>3
  <2>2. ASSUME NEW y \in Nat, y < r PROVE d[q * ByteBits + y] = 0
    <3>1. q * ByteBits + y \in Nat /\ q * ByteBits + y < t
      BY <1>2, <1>3, <2>2
    <3>2. q * ByteBits + y \in Positions
      BY <1>1, <1>2, <3>1 DEF Positions, Bits
    <3> QED  BY <1>1, <3>1, <3>2
  <2>3. ASSUME NEW z \in 0 .. ByteBits - 1, d[q * ByteBits + z] = 1,
               \A y \in 0 .. z - 1 : d[q * ByteBits + y] = 0
        PROVE  z = r
    <3>1. ~(z < r)
      BY <1>2, <2>2, <2>3
    <3>2. ~(r < z)
      <4>1. r < z => r \in 0 .. z - 1
        BY <1>2, <2>1
      <4> QED  BY <1>1, <2>1, <2>3, <4>1
    <3> QED  BY <1>2, <2>1, <3>1, <3>2
  <2>4. d[q * ByteBits + r] = 1 /\ \A y \in 0 .. r - 1 : d[q * ByteBits + y] = 0
    <3>1. \A y \in 0 .. r - 1 : y \in Nat /\ y < r
      BY <1>2, <2>1
    <3> QED  BY <1>1, <2>1, <2>2, <3>1
  <2> HIDE DEF r
  <2> QED  BY <2>1, <2>3, <2>4 DEF LeadingZeros
<1>7. q * ByteBits + r = t
  BY <1>2, <1>3
<1> QED  BY <1>5, <1>6, <1>7 DEF BucketIndex, t

(* The k-buckets fit the metric: a key in the target's own bucket is closer *)
(* to the target than any key in another bucket (routing.rs, closest).      *)
THEOREM OwnBucketIsCloser ==
  ASSUME NEW local \in Key, NEW target \in Key, NEW a \in Key, NEW b \in Key,
         target # local, a # local, b # local,
         BucketIndex(Distance(local, a)) = BucketIndex(Distance(local, target)),
         BucketIndex(Distance(local, b)) # BucketIndex(Distance(local, target))
  PROVE  Closer(Distance(target, a), Distance(target, b))
<1> DEFINE t == TopBit(Distance(local, target))
           u == TopBit(Distance(local, a))
           v == TopBit(Distance(local, b))
<1>1. /\ t \in Positions /\ Distance(local, target)[t] = 1
      /\ AgreeBefore(Distance(local, target), Zero, t)
  BY DistanceType, DistanceSymmetric, TopBitIsFirst
<1>2. /\ u \in Positions /\ Distance(local, a)[u] = 1
      /\ AgreeBefore(Distance(local, a), Zero, u)
  BY DistanceType, DistanceSymmetric, TopBitIsFirst
<1>3. /\ v \in Positions /\ Distance(local, b)[v] = 1
      /\ AgreeBefore(Distance(local, b), Zero, v)
  BY DistanceType, DistanceSymmetric, TopBitIsFirst
<1> HIDE DEF t, u, v
<1>4. t \in Nat /\ u \in Nat /\ v \in Nat /\ u = t /\ v # t
  <2>1. t \in Nat /\ u \in Nat /\ v \in Nat
    BY <1>1, <1>2, <1>3, BitsPositive
  <2>2. Bits - 1 - u = Bits - 1 - t /\ Bits - 1 - v # Bits - 1 - t
    BY BucketIsTopBit, DistanceType, DistanceSymmetric DEF t, u, v
  <2> QED BY <2>1, <2>2, BitsPositive
<1>5. \A i \in Positions : local[i] \in {0, 1} /\ target[i] \in {0, 1}
                            /\ a[i] \in {0, 1} /\ b[i] \in {0, 1}
  BY DEF Key
<1>6. \A i \in Positions : i < t => local[i] = target[i] /\ local[i] = a[i]
  BY <1>1, <1>2, <1>4 DEF AgreeBefore, Distance, Zero
<1>7. \A i \in Positions : i < v => local[i] = b[i]
  BY <1>3 DEF AgreeBefore, Distance, Zero
<1>8. local[t] # target[t] /\ local[t] # a[t] /\ local[v] # b[v]
  BY <1>1, <1>2, <1>3, <1>4 DEF Distance
<1>9. CASE v < t
  <2>1. Distance(target, a)[v] = 0 /\ Distance(target, b)[v] = 1
    BY <1>3, <1>6, <1>8, <1>9 DEF Distance
  <2>2. AgreeBefore(Distance(target, a), Distance(target, b), v)
    <3>1. ASSUME NEW i \in Positions, i < v
          PROVE  Distance(target, a)[i] = Distance(target, b)[i]
      <4>1. i < t
        BY <1>4, <1>9, <3>1, BitsPositive
      <4> QED BY <1>6, <1>7, <3>1, <4>1 DEF Distance
    <3> QED BY <3>1 DEF AgreeBefore
  <2> QED BY <1>3, <2>1, <2>2 DEF Closer
<1>10. CASE t < v
  <2>1. local[t] = b[t]
    BY <1>1, <1>7, <1>10
  <2>2. Distance(target, a)[t] = 0 /\ Distance(target, b)[t] = 1
    BY <1>1, <1>5, <1>8, <2>1 DEF Distance
  <2>3. AgreeBefore(Distance(target, a), Distance(target, b), t)
    <3>1. ASSUME NEW i \in Positions, i < t
          PROVE  Distance(target, a)[i] = Distance(target, b)[i]
      <4>1. i < v
        BY <1>4, <1>10, <3>1, BitsPositive
      <4> QED BY <1>6, <1>7, <3>1, <4>1 DEF Distance
    <3> QED BY <3>1 DEF AgreeBefore
  <2> QED BY <1>1, <2>2, <2>3 DEF Closer
<1> QED BY <1>4, <1>9, <1>10

(* random_key_in_bucket (service.rs): whatever the random bytes, the target *)
(* of a refresh lies in the bucket it was drawn for, never at the node.     *)
THEOREM RefreshStaysInBucket ==
  ASSUME NEW local \in Key, NEW idx \in BucketIndices,
         NEW target \in RefreshTargets(local, idx)
  PROVE  /\ target \in Key \ {local}
         /\ BucketIndex(Distance(local, target)) = idx
<1> DEFINE bit == Bits - 1 - idx
<1>1. PICK d \in RefreshDistances(idx) : target = Distance(local, d)
  BY DEF RefreshTargets
<1>2. d \in Key /\ target \in Key
  BY <1>1, DistanceType DEF RefreshDistances
<1>3. bit \in Positions /\ idx = Bits - 1 - bit
  BY BitsPositive DEF Positions, BucketIndices
<1>4. \A i \in Positions : i <= bit => d[i] = (IF i = bit THEN 1 ELSE 0)
  <2>1. ASSUME NEW i \in Positions, i <= bit
        PROVE  ByteOf(i) <= ByteOf(bit)
    <3>1. i \in Nat /\ bit \in Nat /\ ByteBits \in Nat \ {0}
      BY <1>3, BitsPositive, KeyspaceAssumption
    <3> HIDE DEF bit
    <3> QED BY <2>1, <3>1, DivMonotone DEF ByteOf
  <2> QED BY <1>1, <2>1 DEF RefreshDistances
<1> HIDE DEF bit
<1>5. d[bit] = 1 /\ AgreeBefore(d, Zero, bit)
  BY <1>3, <1>4, BitsPositive DEF AgreeBefore, Zero
<1>6. Distance(local, target) = d
  <2>1. ASSUME NEW i \in Positions PROVE Distance(local, target)[i] = d[i]
    <3>1. local[i] \in {0, 1} /\ d[i] \in {0, 1}
      BY <1>2 DEF Key
    <3> QED BY <1>1, <3>1 DEF Distance
  <2>2. Distance(local, target) \in Key
    BY <1>2, DistanceType
  <2> QED BY <1>2, <2>1, <2>2 DEF Key
<1>7. d # Zero /\ TopBit(d) = bit
  BY <1>2, <1>3, <1>5, TopBitUnique
<1> QED BY <1>2, <1>3, <1>6, <1>7, BucketIsTopBit, DistanceSymmetric

-----------------------------------------------------------------------------
Known == [peer : Peers, addrs : Addrs]

-----------------------------------------------------------------------------
(* Taking one element out of a sequence, and putting one at its end.        *)
LEMMA LeastIndex ==
  ASSUME NEW I \in SUBSET Nat, I # {}
  PROVE  Min(I) \in I /\ \A i \in I : Min(I) <= i
<1>1. PICK i \in I : \A j \in I : ~(<<j, i>> \in OpToRel(<, Nat))
  BY NatLessThanWellFounded, WFMin
<1>2. \A j \in I : i <= j
  <2> SUFFICES ASSUME NEW j \in I PROVE i <= j
    OBVIOUS
  <2>1. ~(j < i)
    BY <1>1 DEF OpToRel
  <2> QED  BY <2>1
<1> QED  BY <1>2 DEF Min

LEMMA WithoutFirst ==
  ASSUME NEW S, NEW s \in Seq(S), NEW n \in 1 .. Len(s)
  PROVE  /\ RemoveAt(s, n) \in Seq(S) /\ Len(RemoveAt(s, n)) = Len(s) - 1
         /\ \A i \in 1 .. Len(s) - 1 : RemoveAt(s, n)[i] = IF i < n THEN s[i] ELSE s[i + 1]
<1> DEFINE a == SubSeq(s, 1, n - 1)
           b == SubSeq(s, n + 1, Len(s))
<1>0. Len(s) \in Nat /\ \A i \in 1 .. Len(s) : s[i] \in S
  OBVIOUS
<1>1. a \in Seq(S) /\ Len(a) = n - 1 /\ \A i \in 1 .. n - 1 : a[i] = s[i]
  BY <1>0, SubSeqProperties
<1>2. b \in Seq(S) /\ Len(b) = Len(s) - n /\ \A i \in 1 .. Len(s) - n : b[i] = s[n + i]
  BY <1>0, SubSeqProperties
<1> HIDE DEF a, b
<1>3. /\ a \o b \in Seq(S) /\ Len(a \o b) = Len(s) - 1
      /\ \A i \in 1 .. Len(s) - 1 : (a \o b)[i] = IF i <= n - 1 THEN a[i] ELSE b[i - (n - 1)]
  BY <1>0, <1>1, <1>2, ConcatProperties
<1>4. RemoveAt(s, n) = a \o b
  BY DEF RemoveAt, a, b
<1>5. ASSUME NEW i \in 1 .. Len(s) - 1
      PROVE  (a \o b)[i] = IF i < n THEN s[i] ELSE s[i + 1]
  <2>1. CASE i < n
    <3>1. i \in 1 .. n - 1 /\ i <= n - 1
      BY <1>0, <2>1
    <3> QED  BY <1>1, <1>3, <2>1, <3>1
  <2>2. CASE ~(i < n)
    <3>1. i - (n - 1) \in 1 .. Len(s) - n /\ ~(i <= n - 1) /\ n + (i - (n - 1)) = i + 1
      BY <1>0, <2>2
    <3> QED  BY <1>2, <1>3, <2>2, <3>1
  <2> QED  BY <2>1, <2>2
<1> QED  BY <1>3, <1>4, <1>5

LEMMA WithoutPeerShape ==
  ASSUME NEW b \in Seq(Known), NEW p
  PROVE  \/ p \notin IdsOf(b) /\ WithoutPeer(b, p) = b
         \/ \E n \in 1 .. Len(b) : b[n].peer = p /\ WithoutPeer(b, p) = RemoveAt(b, n)
<1> DEFINE I == {i \in 1 .. Len(b) : b[i].peer = p}
<1>1. CASE I = {}
  <2>1. WithoutPeer(b, p) = b
    BY <1>1 DEF WithoutPeer, RemoveFirstMatch
  <2> QED  BY <1>1, <2>1 DEF IdsOf
<1>2. CASE I # {}
  <2>1. Min(I) \in I
    <3>1. I \in SUBSET Nat
      OBVIOUS
    <3> HIDE DEF I
    <3> QED  BY <1>2, <3>1, LeastIndex
  <2>2. WithoutPeer(b, p) = RemoveAt(b, Min(I))
    BY <1>2 DEF WithoutPeer, RemoveFirstMatch, SelectInSeq
  <2> HIDE DEF I
  <2>3. Min(I) \in 1 .. Len(b) /\ b[Min(I)].peer = p
    BY <2>1 DEF I
  <2> QED  BY <2>2, <2>3
<1> QED  BY <1>1, <1>2

LEMMA RemoveFirstShape ==
  ASSUME NEW s \in Seq(Peers), NEW p
  PROVE  \/ p \notin Range(s) /\ RemoveFirst(s, p) = s
         \/ \E n \in 1 .. Len(s) : s[n] = p /\ RemoveFirst(s, p) = RemoveAt(s, n)
<1> DEFINE I == {i \in 1 .. Len(s) : s[i] = p}
<1>1. CASE I = {}
  <2>1. \A i \in 1 .. Len(s) : s[i] # p
    BY <1>1
  <2>2. RemoveFirst(s, p) = s
    BY <2>1 DEF RemoveFirst
  <2>3. p \notin Range(s)
    BY <2>1 DEF Range
  <2> QED  BY <2>2, <2>3
<1>2. CASE I # {}
  <2>1. Min(I) \in I
    <3>1. I \in SUBSET Nat
      OBVIOUS
    <3> HIDE DEF I
    <3> QED  BY <1>2, <3>1, LeastIndex
  <2>2. RemoveFirst(s, p) = RemoveAt(s, Min(I))
    BY <1>2 DEF RemoveFirst, SelectInSeq
  <2> HIDE DEF I
  <2>3. Min(I) \in 1 .. Len(s) /\ s[Min(I)] = p
    BY <2>1 DEF I
  <2> QED  BY <2>2, <2>3
<1> QED  BY <1>1, <1>2

(* The element at i is at i or at i - 1 once the one at n is gone.          *)
LEMMA WhereItGoes ==
  ASSUME NEW S, NEW s \in Seq(S), NEW n \in 1 .. Len(s), NEW i \in 1 .. Len(s), i # n
  PROVE  LET j == IF i < n THEN i ELSE i - 1
         IN  j \in 1 .. Len(RemoveAt(s, n)) /\ RemoveAt(s, n)[j] = s[i]
<1>1. Len(s) \in Nat /\ Len(RemoveAt(s, n)) = Len(s) - 1
  BY WithoutFirst
<1>2. CASE i < n
  BY <1>1, <1>2, WithoutFirst
<1>3. CASE ~(i < n)
  <2>1. i - 1 \in 1 .. Len(s) - 1 /\ ~(i - 1 < n) /\ i - 1 + 1 = i
    BY <1>1, <1>3
  <2> QED  BY <1>1, <1>3, <2>1, WithoutFirst
<1> QED  BY <1>2, <1>3

LEMMA IdsWithout ==
  ASSUME NEW b \in Seq(Known), NEW n \in 1 .. Len(b)
  PROVE  /\ IdsOf(RemoveAt(b, n)) \subseteq IdsOf(b)
         /\ \A q \in IdsOf(b) : q # b[n].peer => q \in IdsOf(RemoveAt(b, n))
<1>1. /\ RemoveAt(b, n) \in Seq(Known) /\ Len(RemoveAt(b, n)) = Len(b) - 1 /\ Len(b) \in Nat
      /\ \A i \in 1 .. Len(b) - 1 : RemoveAt(b, n)[i] = IF i < n THEN b[i] ELSE b[i + 1]
  BY WithoutFirst
<1>2. IdsOf(RemoveAt(b, n)) \subseteq IdsOf(b)
  BY <1>1 DEF IdsOf
<1>3. ASSUME NEW q \in IdsOf(b), q # b[n].peer PROVE q \in IdsOf(RemoveAt(b, n))
  <2>1. PICK i \in 1 .. Len(b) : b[i].peer = q
    BY DEF IdsOf
  <2>2. i # n
    BY <1>3, <2>1
  <2> DEFINE j == IF i < n THEN i ELSE i - 1
  <2>3. j \in 1 .. Len(RemoveAt(b, n)) /\ RemoveAt(b, n)[j] = b[i]
    BY <2>2, WhereItGoes
  <2> HIDE DEF j
  <2> QED  BY <1>1, <2>1, <2>3 DEF IdsOf
<1> QED  BY <1>2, <1>3

LEMMA IdsAppend ==
  ASSUME NEW b \in Seq(Known), NEW c \in Known
  PROVE  Append(b, c) \in Seq(Known) /\ IdsOf(Append(b, c)) = IdsOf(b) \cup {c.peer}
<1>1. /\ Append(b, c) \in Seq(Known) /\ Len(Append(b, c)) = Len(b) + 1 /\ Len(b) \in Nat
      /\ \A i \in 1 .. Len(b) : Append(b, c)[i] = b[i]
      /\ Append(b, c)[Len(b) + 1] = c
  BY AppendProperties
<1>2. IdsOf(Append(b, c)) \subseteq IdsOf(b) \cup {c.peer}
  BY <1>1 DEF IdsOf
<1>3. IdsOf(b) \subseteq IdsOf(Append(b, c)) /\ c.peer \in IdsOf(Append(b, c))
  BY <1>1 DEF IdsOf
<1> QED  BY <1>1, <1>2, <1>3

LEMMA TailWithoutFirst ==
  ASSUME NEW b \in Seq(Known), b # <<>>
  PROVE  1 \in 1 .. Len(b) /\ Tail(b) = RemoveAt(b, 1)
<1>1. Tail(b) \in Seq(Known) /\ Len(Tail(b)) = Len(b) - 1
      /\ \A i \in 1 .. Len(b) - 1 : Tail(b)[i] = b[i + 1]
  BY HeadTailProperties
<1>2. Len(b) \in Nat \ {0}
  BY EmptySeq
<1>3. /\ RemoveAt(b, 1) \in Seq(Known) /\ Len(RemoveAt(b, 1)) = Len(b) - 1
      /\ \A i \in 1 .. Len(b) - 1 : RemoveAt(b, 1)[i] = b[i + 1]
  BY <1>2, WithoutFirst
<1> QED  BY <1>1, <1>2, <1>3, SeqEqual

-----------------------------------------------------------------------------
(* Sightings: distinct peers, in the order of their last sighting.          *)
Distinct(s) == \A m, n \in DOMAIN s : s[m] = s[n] => m = n
Before(s, p, q) == \E m, n \in DOMAIN s : m < n /\ s[m] = p /\ s[n] = q

LEMMA Forgotten ==
  ASSUME NEW s \in Seq(Peers), Distinct(s), NEW x
  PROVE  /\ RemoveFirst(s, x) \in Seq(Peers) /\ Distinct(RemoveFirst(s, x))
         /\ Range(RemoveFirst(s, x)) = Range(s) \ {x}
         /\ \A p, q : (Before(s, p, q) /\ x \notin {p, q}) => Before(RemoveFirst(s, x), p, q)
<1>1. CASE x \notin Range(s) /\ RemoveFirst(s, x) = s
  BY <1>1
<1>2. ASSUME NEW n \in 1 .. Len(s), s[n] = x, RemoveFirst(s, x) = RemoveAt(s, n)
      PROVE  /\ RemoveFirst(s, x) \in Seq(Peers) /\ Distinct(RemoveFirst(s, x))
             /\ Range(RemoveFirst(s, x)) = Range(s) \ {x}
             /\ \A p, q : (Before(s, p, q) /\ x \notin {p, q}) => Before(RemoveFirst(s, x), p, q)
  <2> DEFINE w == RemoveAt(s, n)
  <2>1. /\ w \in Seq(Peers) /\ Len(w) = Len(s) - 1 /\ Len(s) \in Nat
        /\ \A i \in 1 .. Len(s) - 1 : w[i] = IF i < n THEN s[i] ELSE s[i + 1]
    <3>1. n \in 1 .. Len(s) /\ Len(s) \in Nat
      BY <1>2
    <3> QED  BY <3>1, WithoutFirst
  <2>2. DOMAIN w = 1 .. Len(s) - 1 /\ DOMAIN s = 1 .. Len(s)
    BY <2>1
  <2>3. ASSUME NEW i \in 1 .. Len(s), i # n
        PROVE  \E j \in DOMAIN w : j = (IF i < n THEN i ELSE i - 1) /\ w[j] = s[i]
    BY <2>1, <2>2, <2>3, WhereItGoes
  <2> HIDE DEF w
  <2>4. Distinct(w)
    <3>1. ASSUME NEW i \in DOMAIN w, NEW j \in DOMAIN w, w[i] = w[j] PROVE i = j
      <4> DEFINE k == IF i < n THEN i ELSE i + 1
                 l == IF j < n THEN j ELSE j + 1
      <4>1. k \in DOMAIN s /\ l \in DOMAIN s /\ s[k] = w[i] /\ s[l] = w[j]
        BY <2>1, <2>2
      <4>2. k = l
        BY <3>1, <4>1 DEF Distinct
      <4> QED  BY <2>2, <4>2
    <3> QED  BY <3>1 DEF Distinct
  <2>5. ASSUME NEW i \in DOMAIN w PROVE w[i] \in Range(s) /\ w[i] # x
    <3>1. CASE i < n
      BY <1>2, <2>1, <2>2, <3>1 DEF Distinct, Range
    <3>2. CASE ~(i < n)
      <4>1. i + 1 \in DOMAIN s /\ i + 1 # n /\ w[i] = s[i + 1]
        BY <2>1, <2>2, <3>2
      <4> QED  BY <1>2, <2>2, <4>1 DEF Distinct, Range
    <3> QED  BY <3>1, <3>2
  <2>6. ASSUME NEW p \in Range(s), p # x PROVE p \in Range(w)
    <3>1. PICK i \in DOMAIN s : s[i] = p
      BY DEF Range
    <3> QED  BY <1>2, <2>2, <2>3, <2>6, <3>1 DEF Range
  <2>7. Range(w) = Range(s) \ {x}
    <3>1. Range(w) \subseteq Range(s) \ {x}
      BY <2>5 DEF Range
    <3> QED  BY <2>6, <3>1
  <2>8. ASSUME NEW p, NEW q, Before(s, p, q), x \notin {p, q} PROVE Before(w, p, q)
    <3>1. PICK k, l \in DOMAIN s : k < l /\ s[k] = p /\ s[l] = q
      BY <2>8 DEF Before
    <3>2. k # n /\ l # n
      BY <1>2, <2>8, <3>1
    <3>3. PICK i \in DOMAIN w : i = (IF k < n THEN k ELSE k - 1) /\ w[i] = p
      BY <2>2, <2>3, <3>1, <3>2
    <3>4. PICK j \in DOMAIN w : j = (IF l < n THEN l ELSE l - 1) /\ w[j] = q
      BY <2>2, <2>3, <3>1, <3>2
    <3>5. i < j
      BY <2>1, <2>2, <3>1, <3>2, <3>3, <3>4
    <3> QED  BY <3>3, <3>4, <3>5 DEF Before
  <2> QED  BY <1>2, <2>1, <2>4, <2>7, <2>8 DEF w
<1> QED  BY <1>1, <1>2, RemoveFirstShape

LEMMA SeenLast ==
  ASSUME NEW s \in Seq(Peers), NEW x \in Peers
  PROVE  /\ Append(s, x) \in Seq(Peers) /\ Range(Append(s, x)) = Range(s) \cup {x}
         /\ (Distinct(s) /\ x \notin Range(s)) => Distinct(Append(s, x))
         /\ \A p, q : Before(s, p, q) => Before(Append(s, x), p, q)
         /\ \A p \in Range(s) : Before(Append(s, x), p, x)
<1> DEFINE w == Append(s, x)
<1>1. /\ w \in Seq(Peers) /\ Len(w) = Len(s) + 1 /\ Len(s) \in Nat
      /\ \A i \in 1 .. Len(s) : w[i] = s[i]
      /\ w[Len(s) + 1] = x
  BY AppendProperties
<1>2. DOMAIN w = 1 .. Len(s) + 1 /\ DOMAIN s = 1 .. Len(s)
  BY <1>1
<1> HIDE DEF w
<1>3. Range(w) \subseteq Range(s) \cup {x}
  BY <1>1, <1>2 DEF Range
<1>4. Range(s) \subseteq Range(w) /\ x \in Range(w)
  BY <1>1, <1>2 DEF Range
<1>5. (Distinct(s) /\ x \notin Range(s)) => Distinct(w)
  BY <1>1, <1>2 DEF Distinct, Range
<1>6. ASSUME NEW p, NEW q, Before(s, p, q) PROVE Before(w, p, q)
  <2>1. PICK m, n \in DOMAIN s : m < n /\ s[m] = p /\ s[n] = q
    BY <1>6 DEF Before
  <2>2. m \in DOMAIN w /\ n \in DOMAIN w /\ w[m] = p /\ w[n] = q
    BY <1>1, <1>2, <2>1
  <2> QED  BY <2>1, <2>2 DEF Before
<1>7. ASSUME NEW p \in Range(s) PROVE Before(w, p, x)
  <2>1. PICK m \in DOMAIN s : s[m] = p
    BY DEF Range
  <2>2. m \in DOMAIN w /\ Len(s) + 1 \in DOMAIN w /\ m < Len(s) + 1 /\ w[m] = p
    BY <1>1, <1>2, <2>1
  <2> QED  BY <1>1, <2>2 DEF Before
<1> QED  BY <1>1, <1>3, <1>4, <1>5, <1>6, <1>7 DEF w

-----------------------------------------------------------------------------
(* A table B whose peers were last seen in the order s, the peers of O       *)
(* apart: each contact in the bucket of its distance, every peer seen there  *)
(* and every peer there seen, the buckets in the order of the sightings.     *)
Ordered(b, s, O) ==
  \A j, l \in DOMAIN b : (j < l /\ b[j].peer \notin O /\ b[l].peer \notin O)
                           => Before(s, b[j].peer, b[l].peer)

Good(B, s, O) ==
  /\ B \in [BucketIndices -> Seq(Known)]
  /\ s \in Seq(Peers) /\ Distinct(s)
  /\ \A i \in BucketIndices : \A p \in IdsOf(B[i]) : BucketOf[p] = i
  /\ \A i \in BucketIndices : IdsOf(B[i]) \ O \subseteq Range(s)
  /\ \A p \in Range(s) : p \in IdsOf(B[BucketOf[p]])
  /\ \A i \in BucketIndices : Ordered(B[i], s, O)

(* Every key but the own one has a bucket; no peer has the own id.          *)
LEMMA TargetsHaveBuckets ==
  ASSUME NEW target \in Key \ {Local}
  PROVE  BucketIndex(Distance(Local, target)) \in BucketIndices
<1> DEFINE d == Distance(Local, target)
<1>1. d \in Key /\ d # Zero
  BY RoutingAssumption, DistanceType, DistanceSymmetric
<1> HIDE DEF d
<1>2. TopBit(d) \in Positions
  BY <1>1, TopBitIsFirst
<1>3. BucketIndex(d) \in BucketIndices
  BY <1>1, <1>2, BucketIsTopBit, BitsPositive DEF BucketIndices, Positions
<1> QED  BY <1>3 DEF d

LEMMA PeersHaveBuckets ==
  ASSUME NEW p \in Peers
  PROVE  BucketOf[p] \in BucketIndices /\ BucketOf[p] = BucketIndex(Distance(Local, p))
BY TargetsHaveBuckets, RoutingAssumption DEF BucketOf

LEMMA IdsArePeers ==
  ASSUME NEW b \in Seq(Known) PROVE IdsOf(b) \subseteq Peers
<1>1. \A i \in DOMAIN b : b[i] \in Known
  OBVIOUS
<1> QED  BY <1>1 DEF IdsOf, Known

(* A peer that is not an exception stands at one place of its bucket.        *)
LEMMA OnlyOnce ==
  ASSUME NEW b \in Seq(Known), NEW s \in Seq(Peers), Distinct(s), NEW O, Ordered(b, s, O),
         NEW j \in DOMAIN b, NEW l \in DOMAIN b, b[j].peer = b[l].peer, b[j].peer \notin O
  PROVE  j = l
<1>1. ASSUME NEW p, Before(s, p, p) PROVE FALSE
  <2>1. PICK m, n \in DOMAIN s : m < n /\ s[m] = p /\ s[n] = p
    BY <1>1 DEF Before
  <2>2. m = n
    BY <2>1 DEF Distinct
  <2>3. m \in Nat
    OBVIOUS
  <2> QED  BY <2>1, <2>2, <2>3
<1>2. j \in Nat /\ l \in Nat
  OBVIOUS
<1>3. ~(j < l) /\ ~(l < j)
  BY <1>1 DEF Ordered
<1> QED  BY <1>2, <1>3

LEMMA OrderedWithout ==
  ASSUME NEW b \in Seq(Known), NEW s, NEW O, Ordered(b, s, O), NEW n \in 1 .. Len(b)
  PROVE  Ordered(RemoveAt(b, n), s, O)
<1> DEFINE w == RemoveAt(b, n)
<1>1. /\ w \in Seq(Known) /\ Len(w) = Len(b) - 1 /\ Len(b) \in Nat
      /\ \A i \in 1 .. Len(b) - 1 : w[i] = IF i < n THEN b[i] ELSE b[i + 1]
  BY WithoutFirst
<1>2. DOMAIN w = 1 .. Len(b) - 1 /\ DOMAIN b = 1 .. Len(b)
  BY <1>1
<1> HIDE DEF w
<1>3. ASSUME NEW j \in DOMAIN w, NEW l \in DOMAIN w, j < l, w[j].peer \notin O, w[l].peer \notin O
      PROVE  Before(s, w[j].peer, w[l].peer)
  <2> DEFINE k == IF j < n THEN j ELSE j + 1
             m == IF l < n THEN l ELSE l + 1
  <2>1. k \in DOMAIN b /\ m \in DOMAIN b /\ k < m /\ b[k] = w[j] /\ b[m] = w[l]
    BY <1>1, <1>2, <1>3
  <2> HIDE DEF k, m
  <2> QED  BY <1>3, <2>1 DEF Ordered
<1>4. Ordered(w, s, O)
  BY <1>3 DEF Ordered
<1> QED  BY <1>4 DEF w

(* Bucket b holds what bucket a does, but for x perhaps.                     *)
LessOne(a, b, x) == IdsOf(b) \subseteq IdsOf(a) /\ IdsOf(a) \ {x} \subseteq IdsOf(b)

(* What is left of a bucket when the contact at n is taken out.              *)
LEMMA OneOut ==
  ASSUME NEW B, NEW s, NEW O, Good(B, s, O), NEW i \in BucketIndices,
         NEW n \in DOMAIN B[i], NEW x, B[i][n].peer = x,
         NEW b, b = RemoveAt(B[i], n)
  PROVE  /\ b \in Seq(Known) /\ Len(b) = Len(B[i]) - 1
         /\ LessOne(B[i], b, x)
         /\ x \notin O => x \notin IdsOf(b)
         /\ Ordered(b, s, O)
<1>1. B[i] \in Seq(Known) /\ Ordered(B[i], s, O) /\ s \in Seq(Peers) /\ Distinct(s)
  BY DEF Good
<1>n. n \in 1 .. Len(B[i])
  BY <1>1
<1>2. /\ b \in Seq(Known) /\ Len(b) = Len(B[i]) - 1 /\ Len(B[i]) \in Nat
      /\ \A k \in 1 .. Len(B[i]) - 1 : b[k] = IF k < n THEN B[i][k] ELSE B[i][k + 1]
  <2>1. Len(B[i]) \in Nat
    BY <1>1
  <2>2. \A a \in Seq(Known) : \A k \in 1 .. Len(a) :
          /\ RemoveAt(a, k) \in Seq(Known) /\ Len(RemoveAt(a, k)) = Len(a) - 1
          /\ \A l \in 1 .. Len(a) - 1 : RemoveAt(a, k)[l] = IF l < k THEN a[l] ELSE a[l + 1]
    BY WithoutFirst
  <2> QED  BY <1>1, <1>n, <2>1, <2>2
<1>3. LessOne(B[i], b, x)
  BY <1>1, <1>n, IdsWithout DEF LessOne
<1>4. Ordered(b, s, O)
  BY <1>1, <1>n, OrderedWithout
<1>5. ASSUME x \notin O, x \in IdsOf(b) PROVE FALSE
  <2>1. PICK k \in DOMAIN b : b[k].peer = x
    BY <1>5 DEF IdsOf
  <2> DEFINE l == IF k < n THEN k ELSE k + 1
  <2>2. k \in 1 .. Len(B[i]) - 1 /\ DOMAIN B[i] = 1 .. Len(B[i])
    BY <1>1, <1>2, <2>1
  <2>3. l \in DOMAIN B[i] /\ l # n /\ B[i][l] = b[k]
    BY <1>n, <1>2, <2>2
  <2> HIDE DEF l
  <2> QED  BY <1>1, <1>5, <2>1, <2>3, OnlyOnce
<1> QED  BY <1>2, <1>3, <1>4, <1>5

(* Taking a peer out of its bucket and out of the sightings.                 *)
LEMMA Dropped ==
  ASSUME NEW B, NEW s, NEW O, Good(B, s, O), NEW x \in Peers, NEW i \in BucketIndices,
         BucketOf[x] = i, NEW b \in Seq(Known),
         LessOne(B[i], b, x),
         x \notin O => x \notin IdsOf(b), Ordered(b, s, O)
  PROVE  Good([B EXCEPT ![i] = b], RemoveFirst(s, x), O)
<1> DEFINE C == [B EXCEPT ![i] = b]
           t == RemoveFirst(s, x)
<1>0. IdsOf(b) \subseteq IdsOf(B[i]) /\ IdsOf(B[i]) \ {x} \subseteq IdsOf(b)
  BY DEF LessOne
<1>1. /\ t \in Seq(Peers) /\ Distinct(t) /\ Range(t) = Range(s) \ {x}
      /\ \A p, q : (Before(s, p, q) /\ x \notin {p, q}) => Before(t, p, q)
  BY Forgotten DEF Good
<1>2. /\ C \in [BucketIndices -> Seq(Known)] /\ C[i] = b
      /\ \A k \in BucketIndices : k # i => C[k] = B[k]
  BY DEF Good
<1> HIDE DEF C, t
<1>3. ASSUME NEW k \in BucketIndices, NEW p \in IdsOf(C[k]), p \notin O
      PROVE  p \in IdsOf(B[k]) /\ p # x
  <2>1. CASE k = i
    BY <1>0, <1>2, <1>3, <2>1
  <2>2. CASE k # i
    <3>1. p \in IdsOf(B[k])
      BY <1>2, <2>2
    <3>2. BucketOf[p] = k
      BY <3>1 DEF Good
    <3> QED  BY <2>2, <3>1, <3>2
  <2> QED  BY <2>1, <2>2
<1>4. ASSUME NEW k \in BucketIndices, NEW p \in IdsOf(C[k]) PROVE BucketOf[p] = k
  <2>1. p \in IdsOf(B[k])
    BY <1>0, <1>2
  <2> QED  BY <2>1 DEF Good
<1>5. \A k \in BucketIndices : IdsOf(C[k]) \ O \subseteq Range(t)
  BY <1>1, <1>3 DEF Good
<1>6. ASSUME NEW p \in Range(t) PROVE p \in IdsOf(C[BucketOf[p]])
  <2>1. p \in IdsOf(B[BucketOf[p]]) /\ p # x /\ p \in Peers
    <3>1. p \in Range(s) /\ p # x
      BY <1>1
    <3>2. Range(s) \subseteq Peers
      BY DEF Good, Range
    <3> QED  BY <3>1, <3>2 DEF Good
  <2>2. BucketOf[p] \in BucketIndices
    BY <2>1, PeersHaveBuckets
  <2> QED  BY <1>0, <1>2, <2>1, <2>2
<1>7. ASSUME NEW k \in BucketIndices PROVE Ordered(C[k], t, O)
  <2>1. Ordered(C[k], s, O)
    BY <1>2 DEF Good
  <2>2. ASSUME NEW j \in DOMAIN C[k], NEW l \in DOMAIN C[k], j < l,
               C[k][j].peer \notin O, C[k][l].peer \notin O
        PROVE  Before(t, C[k][j].peer, C[k][l].peer)
    <3>1. C[k][j].peer \in IdsOf(C[k]) /\ C[k][l].peer \in IdsOf(C[k])
      BY DEF IdsOf
    <3>2. C[k][j].peer # x /\ C[k][l].peer # x
      BY <1>3, <2>2, <3>1
    <3>3. Before(s, C[k][j].peer, C[k][l].peer)
      BY <2>1, <2>2 DEF Ordered
    <3> QED  BY <1>1, <3>2, <3>3
  <2> QED  BY <2>2 DEF Ordered
<1>8. Good(C, t, O)
  BY <1>1, <1>2, <1>4, <1>5, <1>6, <1>7 DEF Good
<1> QED  BY <1>8 DEF C, t

(* Putting a contact at the back of its bucket.                              *)
LEMMA Pushed ==
  ASSUME NEW B, NEW s, NEW O, Good(B, s, O), NEW c \in Known, NEW i \in BucketIndices,
         BucketOf[c.peer] = i, c.peer \notin Range(s),
         c.peer \in O \/ c.peer \notin IdsOf(B[i])
  PROVE  Good([B EXCEPT ![i] = Append(@, c)], Append(s, c.peer), O)
<1> DEFINE C == [B EXCEPT ![i] = Append(@, c)]
           t == Append(s, c.peer)
<1>0. c.peer \in Peers /\ s \in Seq(Peers) /\ Distinct(s) /\ B[i] \in Seq(Known)
  BY DEF Known, Good
<1>1. /\ t \in Seq(Peers) /\ Distinct(t) /\ Range(t) = Range(s) \cup {c.peer}
      /\ \A p, q : Before(s, p, q) => Before(t, p, q)
      /\ \A p \in Range(s) : Before(t, p, c.peer)
  BY <1>0, SeenLast
<1>2. /\ C[i] = Append(B[i], c) /\ C[i] \in Seq(Known) /\ IdsOf(C[i]) = IdsOf(B[i]) \cup {c.peer}
      /\ \A k \in BucketIndices : k # i => C[k] = B[k]
  BY <1>0, IdsAppend DEF Good
<1>3. C \in [BucketIndices -> Seq(Known)]
  BY <1>2 DEF Good
<1>4. /\ Len(C[i]) = Len(B[i]) + 1 /\ Len(B[i]) \in Nat
      /\ \A j \in 1 .. Len(B[i]) : C[i][j] = B[i][j]
      /\ C[i][Len(B[i]) + 1] = c
  BY <1>0, <1>2, AppendProperties
<1> HIDE DEF C, t
<1>5. \A k \in BucketIndices : \A p \in IdsOf(C[k]) : BucketOf[p] = k
  BY <1>2 DEF Good
<1>6. \A k \in BucketIndices : IdsOf(C[k]) \ O \subseteq Range(t)
  BY <1>1, <1>2 DEF Good
<1>7. ASSUME NEW p \in Range(t) PROVE p \in IdsOf(C[BucketOf[p]])
  <2>1. CASE p = c.peer
    BY <1>2, <2>1
  <2>2. CASE p # c.peer
    <3>1. p \in IdsOf(B[BucketOf[p]]) /\ p \in Peers
      <4>1. p \in Range(s)
        BY <1>1, <2>2
      <4>2. Range(s) \subseteq Peers
        BY DEF Good, Range
      <4> QED  BY <4>1, <4>2 DEF Good
    <3>2. BucketOf[p] \in BucketIndices
      BY <3>1, PeersHaveBuckets
    <3> QED  BY <1>2, <3>1, <3>2
  <2> QED  BY <2>1, <2>2
<1>8. ASSUME NEW k \in BucketIndices PROVE Ordered(C[k], t, O)
  <2>1. CASE k # i
    BY <1>1, <1>2, <2>1 DEF Good, Ordered
  <2>2. CASE k = i
    <3>1. ASSUME NEW j \in DOMAIN C[i], NEW l \in DOMAIN C[i], j < l,
                 C[i][j].peer \notin O, C[i][l].peer \notin O
          PROVE  Before(t, C[i][j].peer, C[i][l].peer)
      <4>0. DOMAIN C[i] = 1 .. Len(B[i]) + 1 /\ DOMAIN B[i] = 1 .. Len(B[i])
        BY <1>0, <1>2, <1>4
      <4>1. j \in DOMAIN B[i] /\ C[i][j] = B[i][j]
        BY <1>4, <3>1, <4>0
      <4>2. CASE l \in DOMAIN B[i]
        <5>1. C[i][l] = B[i][l]
          BY <1>4, <4>0, <4>2
        <5> QED  BY <1>1, <3>1, <4>1, <4>2, <5>1 DEF Good, Ordered
      <4>3. CASE l \notin DOMAIN B[i]
        <5>1. C[i][l] = c
          BY <1>4, <4>0, <4>3
        <5>2. B[i][j].peer \in IdsOf(B[i])
          BY <4>1 DEF IdsOf
        <5>3. B[i][j].peer \in Range(s)
          BY <3>1, <4>1, <5>2 DEF Good
        <5> QED  BY <1>1, <4>1, <5>1, <5>3
      <4> QED  BY <4>2, <4>3
    <3> QED  BY <2>2, <3>1 DEF Ordered
  <2> QED  BY <2>1, <2>2
<1>9. Good(C, t, O)
  BY <1>1, <1>3, <1>5, <1>6, <1>7, <1>8 DEF Good
<1> QED  BY <1>9 DEF C, t

LEMMA MoreExceptions ==
  ASSUME NEW B, NEW s, NEW O, Good(B, s, O), NEW P, O \subseteq P
  PROVE  Good(B, s, P)
BY DEF Good, Ordered

(* A peer removed from the table (WithoutPeer leaves the bucket alone when   *)
(* the peer is not there).                                                   *)
LEMMA Departed ==
  ASSUME NEW B, NEW s, NEW O, Good(B, s, O), NEW x, x \in Peers, NEW i \in BucketIndices,
         BucketOf[x] = i, NEW a, a = B[i], NEW b, b = WithoutPeer(a, x)
  PROVE  /\ b \in Seq(Known) /\ LessOne(B[i], b, x)
         /\ x \notin O => x \notin IdsOf(b)
         /\ Len(b) <= Len(B[i])
         /\ x \in IdsOf(B[i]) => Len(b) = Len(B[i]) - 1
         /\ x \notin IdsOf(B[i]) => b = B[i]
         /\ Good([B EXCEPT ![i] = b], RemoveFirst(s, x), O)
<1>1. B[i] \in Seq(Known) /\ Ordered(B[i], s, O) /\ Len(B[i]) \in Nat
      /\ DOMAIN B[i] = 1 .. Len(B[i])
  BY DEF Good
<1>2. CASE x \notin IdsOf(B[i]) /\ b = B[i]
  <2>0. LessOne(B[i], b, x)
    BY <1>2 DEF LessOne
  <2>1. Good([B EXCEPT ![i] = b], RemoveFirst(s, x), O)
    BY <1>1, <1>2, <2>0, Dropped
  <2> QED  BY <1>1, <1>2, <2>0, <2>1
<1>3. CASE \E n \in DOMAIN B[i] : B[i][n].peer = x /\ b = RemoveAt(B[i], n)
  <2>1. PICK n \in DOMAIN B[i] : B[i][n].peer = x /\ b = RemoveAt(B[i], n)
    BY <1>3
  <2>2. /\ b \in Seq(Known) /\ Len(b) = Len(B[i]) - 1
        /\ LessOne(B[i], b, x)
        /\ x \notin O => x \notin IdsOf(b)
        /\ Ordered(b, s, O)
    BY <2>1, OneOut
  <2>3. x \in IdsOf(B[i])
    BY <2>1 DEF IdsOf
  <2>4. Good([B EXCEPT ![i] = b], RemoveFirst(s, x), O)
    BY <2>2, Dropped
  <2> QED  BY <1>1, <2>2, <2>3, <2>4
<1>4. \/ x \notin IdsOf(B[i]) /\ b = B[i]
      \/ \E n \in DOMAIN B[i] : B[i][n].peer = x /\ b = RemoveAt(B[i], n)
  BY <1>1, WithoutPeerShape
<1> QED  BY <1>2, <1>3, <1>4

(* A contact stored at the back, or moved there when it was present.         *)
LEMMA Stored ==
  ASSUME NEW B, NEW s, NEW O, Good(B, s, O), NEW c \in Known, NEW i \in BucketIndices,
         BucketOf[c.peer] = i, NEW b, b = WithoutPeer(B[i], c.peer)
  PROVE  /\ b \in Seq(Known) /\ LessOne(B[i], b, c.peer)
         /\ Len(b) <= Len(B[i])
         /\ c.peer \in IdsOf(B[i]) => Len(b) = Len(B[i]) - 1
         /\ c.peer \notin IdsOf(B[i]) => b = B[i]
         /\ Good([B EXCEPT ![i] = Append(b, c)], Append(RemoveFirst(s, c.peer), c.peer), O)
<1>0. PICK x \in Peers : x = c.peer
  BY DEF Known
<1> DEFINE C == [B EXCEPT ![i] = b]
           t == RemoveFirst(s, x)
<1>1. /\ b \in Seq(Known) /\ LessOne(B[i], b, x)
      /\ x \notin O => x \notin IdsOf(b)
      /\ Len(b) <= Len(B[i])
      /\ x \in IdsOf(B[i]) => Len(b) = Len(B[i]) - 1
      /\ x \notin IdsOf(B[i]) => b = B[i]
      /\ Good(C, t, O)
  BY <1>0, Departed
<1>2. x \notin Range(t)
  BY <1>0, Forgotten DEF Good
<1>3. C[i] = b /\ [C EXCEPT ![i] = Append(@, c)] = [B EXCEPT ![i] = Append(b, c)]
  BY DEF Good
<1> HIDE DEF C, t
<1>4. Good([C EXCEPT ![i] = Append(@, c)], Append(t, c.peer), O)
  BY <1>0, <1>1, <1>2, <1>3, Pushed
<1> QED  BY <1>0, <1>1, <1>3, <1>4 DEF t

(* The front given up for a candidate; the candidate becomes an exception    *)
(* when it is in the bucket already.                                         *)
LEMMA Replaced ==
  ASSUME NEW B, NEW s, NEW O, Good(B, s, O), NEW c \in Known, NEW i \in BucketIndices,
         BucketOf[c.peer] = i, NEW lru, B[i] # <<>>, B[i][1].peer = lru
  PROVE  LET P == IF c.peer \in IdsOf(B[i]) THEN O \cup {c.peer} ELSE O
         IN  Good([B EXCEPT ![i] = Append(Tail(B[i]), c)],
                  Append(RemoveFirst(RemoveFirst(s, lru), c.peer), c.peer), P)
<1> DEFINE P == IF c.peer \in IdsOf(B[i]) THEN O \cup {c.peer} ELSE O
           b == Tail(B[i])
           C == [B EXCEPT ![i] = b]
           t == RemoveFirst(s, lru)
           u == RemoveFirst(t, c.peer)
<1>0. c.peer \in Peers /\ B[i] \in Seq(Known) /\ s \in Seq(Peers) /\ Distinct(s)
  BY DEF Known, Good
<1>1. Good(B, s, P)
  BY MoreExceptions
<1>2. 1 \in DOMAIN B[i] /\ b = RemoveAt(B[i], 1)
  <2>1. 1 \in 1 .. Len(B[i]) /\ b = RemoveAt(B[i], 1)
    BY <1>0, TailWithoutFirst
  <2> QED  BY <1>0, <2>1
<1>3. c.peer \in P \/ c.peer \notin IdsOf(B[i])
  OBVIOUS
<1> HIDE DEF P, b
<1>4. lru \in IdsOf(B[i])
  BY <1>0, <1>2 DEF IdsOf
<1>5. lru \in Peers /\ BucketOf[lru] = i
  BY <1>0, <1>4, IdsArePeers DEF Good
<1>6. /\ b \in Seq(Known) /\ Ordered(b, s, P)
      /\ LessOne(B[i], b, lru)
      /\ lru \notin P => lru \notin IdsOf(b)
  BY <1>1, <1>2, OneOut
<1>7. Good(C, t, P)
  BY <1>1, <1>5, <1>6, Dropped
<1>8. C[i] = b /\ [C EXCEPT ![i] = b] = C
      /\ [C EXCEPT ![i] = Append(@, c)] = [B EXCEPT ![i] = Append(b, c)]
  BY DEF Good
<1> HIDE DEF C
<1>9. t \in Seq(Peers) /\ Distinct(t)
  BY <1>7 DEF Good
<1> HIDE DEF t
<1>10. c.peer \in P \/ c.peer \notin IdsOf(b)
  BY <1>3, <1>6 DEF LessOne
<1>11. Ordered(b, t, P)
  BY <1>7, <1>8 DEF Good
<1>12. Good(C, u, P)
  <2>1. Good([C EXCEPT ![i] = b], RemoveFirst(t, c.peer), P)
    <3>1. LessOne(C[i], b, c.peer)
      BY <1>8 DEF LessOne
    <3> QED  BY <1>0, <1>6, <1>7, <1>10, <1>11, <3>1, Dropped
  <2> QED  BY <1>8, <2>1
<1>13. c.peer \notin Range(u)
  BY <1>0, <1>9, Forgotten
<1> HIDE DEF u
<1>14. Good([C EXCEPT ![i] = Append(@, c)], Append(u, c.peer), P)
  BY <1>8, <1>10, <1>12, <1>13, Pushed
<1> QED  BY <1>8, <1>14 DEF P, b, t, u

-----------------------------------------------------------------------------
(* The inductive invariant.                                                  *)
Reporting ==
  /\ reports \in [Maintainers -> [lru : Peers \cup {Local}, candidate : Peers \cup {Local},
                                  seenSince : BOOLEAN]]
  /\ \A m \in Maintainers : reports[m] = NoReport \/ reports[m].candidate \in Peers

Inv == /\ Good(buckets, sightings, overtaken)
       /\ Reporting
       /\ overtaken \subseteq Peers
       /\ WithinCapacity

LEMMA InitInv == Init => Inv
<1> SUFFICES ASSUME Init PROVE Inv
  OBVIOUS
<1> USE DEF Init
<1>1. /\ buckets \in [BucketIndices -> Seq(Known)] /\ sightings \in Seq(Peers)
      /\ Distinct(sightings)
  BY DEF Distinct
<1>2. \A i \in BucketIndices : IdsOf(buckets[i]) = {} /\ Len(buckets[i]) = 0
  BY DEF IdsOf
<1>3. Range(sightings) = {}
  BY DEF Range
<1>4. \A i \in BucketIndices : Ordered(buckets[i], sightings, overtaken)
  BY DEF Ordered
<1>5. Good(buckets, sightings, overtaken)
  BY <1>1, <1>2, <1>3, <1>4 DEF Good
<1>6. WithinCapacity
  BY <1>2, RoutingAssumption DEF WithinCapacity
<1> QED  BY <1>5, <1>6 DEF Inv, Reporting, NoReport

LEMMA SightedReporting ==
  ASSUME Reporting, NEW p \in Peers, Sighted(p)
  PROVE  Reporting'
<1>0. p # Local
  BY RoutingAssumption
<1>1. ASSUME NEW m \in Maintainers
      PROVE  /\ reports'[m] \in [lru : Peers \cup {Local}, candidate : Peers \cup {Local},
                                 seenSince : BOOLEAN]
             /\ reports'[m] = NoReport \/ reports'[m].candidate \in Peers
  <2>1. reports'[m] = [reports[m] EXCEPT !.seenSince = @ \/ reports[m].lru = p]
    BY DEF Sighted
  <2>2. reports[m] \in [lru : Peers \cup {Local}, candidate : Peers \cup {Local},
                        seenSince : BOOLEAN]
    BY DEF Reporting
  <2>3. CASE reports[m] = NoReport
    <3>1. reports[m].lru # p /\ reports[m].seenSince = FALSE
      BY <1>0, <2>3 DEF NoReport
    <3>2. (reports[m].seenSince \/ reports[m].lru = p) = FALSE
      BY <3>1
    <3>3. reports'[m] = [reports[m] EXCEPT !.seenSince = FALSE]
      BY <2>1, <3>2
    <3>4. reports'[m] = NoReport
      <4>1. NoReport \in [lru : {Local}, candidate : {Local}, seenSince : BOOLEAN]
            /\ NoReport.seenSince = FALSE
        BY DEF NoReport
      <4> QED  BY <2>3, <3>3, <4>1
    <3> QED  BY <2>2, <2>3, <3>4
  <2>4. CASE reports[m].candidate \in Peers
    BY <2>1, <2>2, <2>4
  <2> QED  BY <2>3, <2>4 DEF Reporting
<1>2. reports' = [m \in Maintainers |-> reports'[m]]
  BY DEF Sighted
<1> QED  BY <1>1, <1>2 DEF Reporting

LEMMA InsertInv ==
  ASSUME Inv, NEW c \in Contact, Insert(c)
  PROVE  Inv' /\ Table \subseteq Table'
<1>1. CASE c.peer = Local
  <2>1. UNCHANGED vars
    BY <1>1 DEF Insert
  <2> QED  BY <2>1 DEF vars, Inv, Reporting, WithinCapacity, Table
<1>2. CASE c.peer # Local
  <2>0. c.peer \in Peers /\ c \in Known
    BY <1>2 DEF Contact, Known
  <2>1. PICK i \in BucketIndices : BucketOf[c.peer] = i
    BY <2>0, PeersHaveBuckets
  <2> DEFINE b == buckets[i]
  <2>2. /\ buckets' = [buckets EXCEPT ![i] = Offer(b, c)] /\ UNCHANGED overtaken
        /\ IF IsFull(b, c) THEN UNCHANGED <<reports, sightings>> ELSE Sighted(c.peer)
    BY <1>2, <2>1 DEF Insert
  <2>3. b \in Seq(Known) /\ Len(b) \in Nat /\ Len(b) <= K /\ K \in Nat
        /\ buckets \in [BucketIndices -> Seq(Known)]
    BY <2>1, RoutingAssumption DEF Inv, Good, WithinCapacity
  <2> HIDE DEF b
  <2>4. CASE IsFull(b, c)
    <3>1. Offer(b, c) = b
      BY <2>3, <2>4 DEF Offer, IsFull
    <3>2. buckets' = buckets
      BY <2>1, <2>2, <2>3, <3>1 DEF b
    <3>3. UNCHANGED vars
      BY <2>2, <2>4, <3>2 DEF vars
    <3> QED  BY <3>3 DEF vars, Inv, Reporting, WithinCapacity, Table
  <2>5. CASE ~IsFull(b, c)
    <3>0. PICK w : w = WithoutPeer(buckets[i], c.peer)
      OBVIOUS
    <3>1. /\ w \in Seq(Known) /\ LessOne(b, w, c.peer)
          /\ Len(w) <= Len(b)
          /\ c.peer \in IdsOf(b) => Len(w) = Len(b) - 1
          /\ c.peer \notin IdsOf(b) => w = b
          /\ Good([buckets EXCEPT ![i] = Append(w, c)],
                  Append(RemoveFirst(sightings, c.peer), c.peer), overtaken)
      BY <2>0, <2>1, <3>0, Stored DEF Inv, b
    <3>3. Offer(b, c) = Append(w, c)
      BY <2>3, <2>5, <3>0, <3>1 DEF Offer, IsFull, b
    <3>4. Good(buckets', sightings', overtaken')
      BY <2>2, <2>5, <3>0, <3>1, <3>3 DEF Sighted
    <3>5. Reporting'
      BY <2>0, <2>2, <2>5, SightedReporting DEF Inv
    <3>6. Len(Append(w, c)) <= K
      <4>1. Len(Append(w, c)) = Len(w) + 1 /\ Len(w) \in Nat
        BY <2>0, <3>1, AppendProperties
      <4>2. CASE c.peer \in IdsOf(b)
        BY <2>3, <3>1, <4>1, <4>2
      <4>3. CASE c.peer \notin IdsOf(b)
        BY <2>3, <2>5, <3>1, <4>1, <4>3 DEF IsFull
      <4> QED  BY <4>2, <4>3
    <3>7. buckets'[i] = Append(w, c)
          /\ \A k \in BucketIndices : k # i => buckets'[k] = buckets[k]
      BY <2>1, <2>2, <2>3, <3>3
    <3>8. WithinCapacity'
      BY <3>6, <3>7 DEF WithinCapacity, Inv
    <3>9. Table \subseteq Table'
      <4>1. IdsOf(b) \subseteq IdsOf(buckets'[i])
        BY <2>0, <3>1, <3>7, IdsAppend DEF LessOne
      <4> QED  BY <3>7, <4>1 DEF Table, b
    <3> QED  BY <2>2, <3>4, <3>5, <3>8, <3>9 DEF Inv
  <2> QED  BY <2>4, <2>5
<1> QED  BY <1>1, <1>2

LEMMA RemoveInv ==
  ASSUME Inv, NEW p, RemovePeer(p)
  PROVE  Inv' /\ Table \ {p} \subseteq Table'
<1>0. /\ p \in Peers /\ sightings' = RemoveFirst(sightings, p)
      /\ UNCHANGED <<reports, overtaken>>
  BY DEF RemovePeer
<1>1. PICK i \in BucketIndices : BucketOf[p] = i
  BY <1>0, PeersHaveBuckets
<1>2. PICK w : w = WithoutPeer(buckets[i], p)
  OBVIOUS
<1>3. /\ LessOne(buckets[i], w, p) /\ Len(w) <= Len(buckets[i])
      /\ w \in Seq(Known)
      /\ Good([buckets EXCEPT ![i] = w], RemoveFirst(sightings, p), overtaken)
  BY <1>0, <1>1, <1>2, Departed DEF Inv
<1>4. buckets' = [buckets EXCEPT ![i] = w]
  BY <1>1, <1>2 DEF RemovePeer
<1>5. buckets'[i] = w /\ \A k \in BucketIndices : k # i => buckets'[k] = buckets[k]
  BY <1>4 DEF Inv, Good
<1>6. WithinCapacity'
  <2>1. Len(buckets[i]) <= K /\ Len(buckets[i]) \in Nat /\ Len(w) \in Nat /\ K \in Nat
    BY <1>3, RoutingAssumption DEF Inv, Good, WithinCapacity
  <2>2. Len(w) <= K
    BY <1>3, <2>1
  <2> QED  BY <1>5, <2>2 DEF Inv, WithinCapacity
<1>7. Table \ {p} \subseteq Table'
  BY <1>3, <1>5 DEF Table, LessOne
<1>8. Reporting'
  BY <1>0 DEF Inv, Reporting
<1>9. Good(buckets', sightings', overtaken')
  BY <1>0, <1>3, <1>4
<1> QED  BY <1>0, <1>6, <1>7, <1>8, <1>9 DEF Inv

LEMMA OfferForReplaceInv ==
  ASSUME Inv, NEW m \in Maintainers, NEW c \in Contact, OfferForReplace(m, c)
  PROVE  Inv' /\ UNCHANGED buckets
<1>0. /\ c.peer \in Peers
      /\ reports' = [reports EXCEPT ![m] = [lru |-> buckets[BucketOf[c.peer]][1].peer,
                                            candidate |-> c.peer, seenSince |-> FALSE]]
      /\ UNCHANGED <<buckets, sightings, overtaken>>
      /\ IsFull(buckets[BucketOf[c.peer]], c)
  BY DEF OfferForReplace, Contact
<1>1. PICK i \in BucketIndices : BucketOf[c.peer] = i
  BY <1>0, PeersHaveBuckets
<1>2. buckets[i][1].peer \in Peers
  <2>1. buckets[i] \in Seq(Known) /\ Len(buckets[i]) >= 1
    BY <1>0, <1>1, RoutingAssumption DEF IsFull, Inv, Good
  <2>2. 1 \in DOMAIN buckets[i]
    BY <2>1
  <2> QED  BY <2>1, <2>2, IdsArePeers DEF IdsOf
<1>3. Reporting'
  BY <1>0, <1>1, <1>2 DEF Inv, Reporting
<1>4. Good(buckets', sightings', overtaken')
  BY <1>0 DEF Inv
<1> QED  BY <1>0, <1>3, <1>4 DEF Inv, WithinCapacity

(* What a replace does to the table, and what it costs it.                   *)
LEMMA ReplaceInv ==
  ASSUME Inv, NEW m \in Maintainers, NEW addrs \in Addrs, Replace(m, addrs)
  PROVE  /\ Inv'
         /\ \A p \in Table : p \notin Table' =>
              reports[m].lru = p /\ buckets[BucketOf[p]][1].peer = p
<1> DEFINE r == reports[m]
           c == [peer |-> r.candidate, addrs |-> addrs]
<1>0. r.candidate \in Peers /\ c.peer = r.candidate /\ c \in Known
  BY DEF Replace, Inv, Reporting, Known
<1>1. PICK i \in BucketIndices : BucketOf[r.candidate] = i
  BY <1>0, PeersHaveBuckets
<1>2. Reporting'
  <2>1. ASSUME NEW n \in Maintainers
        PROVE  /\ reports'[n] \in [lru : Peers \cup {Local}, candidate : Peers \cup {Local},
                                   seenSince : BOOLEAN]
               /\ reports'[n] = NoReport \/ reports'[n].candidate \in Peers
    <3> DEFINE v == reports[n].seenSince \/ (/\ Replaces(buckets[i], r.lru)
                                             /\ reports[n].lru = r.candidate)
    <3>1. /\ reports[n] \in [lru : Peers \cup {Local}, candidate : Peers \cup {Local},
                             seenSince : BOOLEAN]
          /\ reports[n] = NoReport \/ reports[n].candidate \in Peers
      BY DEF Inv, Reporting
    <3>2. reports'[n] = IF n = m THEN NoReport ELSE [reports[n] EXCEPT !.seenSince = v]
      BY <1>1 DEF Replace
    <3>3. v \in BOOLEAN
      OBVIOUS
    <3>4. reports[n] = NoReport => v = FALSE
      BY <1>0, RoutingAssumption DEF NoReport
    <3> HIDE DEF v
    <3>5. CASE n = m
      BY <3>2, <3>5 DEF NoReport
    <3>6. CASE n # m /\ reports[n] = NoReport
      <4>0. reports[n].seenSince = FALSE
        BY <3>6 DEF NoReport
      <4>1. reports'[n] = [reports[n] EXCEPT !.seenSince = FALSE]
        BY <3>2, <3>4, <3>6
      <4>2. reports'[n] = reports[n]
        BY <3>1, <4>0, <4>1
      <4> QED  BY <3>1, <3>6, <4>2
    <3>7. CASE n # m /\ reports[n] # NoReport
      BY <3>1, <3>2, <3>3, <3>7
    <3> QED  BY <3>5, <3>6, <3>7
  <2>2. reports' = [n \in Maintainers |-> reports'[n]]
    BY DEF Replace
  <2> QED  BY <2>1, <2>2 DEF Reporting
<1>3. CASE ~Replaces(buckets[i], r.lru)
  <2>1. UNCHANGED <<buckets, sightings, overtaken>>
    BY <1>1, <1>3 DEF Replace
  <2>2. Good(buckets', sightings', overtaken')
    BY <2>1 DEF Inv
  <2> QED  BY <1>2, <2>1, <2>2 DEF Inv, WithinCapacity, Table
<1>4. CASE Replaces(buckets[i], r.lru)
  <2> DEFINE b == buckets[i]
             w == Append(Tail(b), c)
             P == IF r.candidate \in IdsOf(b) THEN overtaken \cup {r.candidate} ELSE overtaken
  <2>1. /\ buckets' = [buckets EXCEPT ![i] = w]
        /\ sightings' = Append(RemoveFirst(RemoveFirst(sightings, r.lru), r.candidate),
                               r.candidate)
        /\ overtaken' = P
    BY <1>1, <1>4 DEF Replace
  <2>2. b \in Seq(Known) /\ b # <<>> /\ b[1].peer = r.lru /\ Len(b) <= K
    BY <1>4 DEF Replaces, Inv, Good, WithinCapacity
  <2> HIDE DEF c
  <2>3. Good([buckets EXCEPT ![i] = w],
             Append(RemoveFirst(RemoveFirst(sightings, r.lru), c.peer), c.peer),
             IF c.peer \in IdsOf(b) THEN overtaken \cup {c.peer} ELSE overtaken)
    BY <1>0, <1>1, <2>2, Replaced DEF Inv
  <2>4. Good(buckets', sightings', overtaken')
    BY <1>0, <2>1, <2>3
  <2>5. Tail(b) \in Seq(Known) /\ Len(Tail(b)) = Len(b) - 1
        /\ \A k \in 1 .. Len(b) - 1 : Tail(b)[k] = b[k + 1]
    BY <2>2, HeadTailProperties
  <2>6. Len(w) = Len(b)
    <3>1. Len(w) = Len(Tail(b)) + 1 /\ Len(b) \in Nat
      BY <1>0, <2>2, <2>5, AppendProperties
    <3> QED  BY <2>5, <3>1
  <2>7. buckets'[i] = w /\ \A k \in BucketIndices : k # i => buckets'[k] = buckets[k]
    <3> HIDE DEF w
    <3> QED  BY <2>1 DEF Inv, Good
  <2> HIDE DEF w
  <2>8. WithinCapacity'
    BY <2>2, <2>6, <2>7 DEF Inv, WithinCapacity
  <2>9. ASSUME NEW p \in Table, p \notin Table'
        PROVE  r.lru = p /\ buckets[BucketOf[p]][1].peer = p
    <3>1. PICK k \in BucketIndices : p \in IdsOf(buckets[k])
      BY DEF Table
    <3>2. k = i /\ p \notin IdsOf(w)
      BY <2>7, <2>9, <3>1 DEF Table
    <3>3. BucketOf[p] = i
      BY <3>1, <3>2 DEF Inv, Good
    <3>4. p = r.lru
      <4>1. PICK j \in 1 .. Len(b) : b[j].peer = p
        BY <2>2, <3>1, <3>2 DEF IdsOf
      <4>2. CASE j = 1
        BY <2>2, <4>1, <4>2
      <4>3. CASE j # 1
        <5>1. j - 1 \in 1 .. Len(b) - 1 /\ j - 1 + 1 = j
          BY <2>2, <4>3
        <5>2. j - 1 \in DOMAIN Tail(b) /\ Tail(b)[j - 1] = b[j]
          BY <2>5, <5>1
        <5>3. p \in IdsOf(Tail(b))
          BY <4>1, <5>2 DEF IdsOf
        <5> QED  BY <1>0, <2>5, <3>2, <5>3, IdsAppend DEF w
      <4> QED  BY <4>2, <4>3
    <3> QED  BY <2>2, <3>3, <3>4
  <2>10. overtaken' \subseteq Peers
    BY <1>0, <2>1 DEF Inv
  <2> QED  BY <1>2, <2>4, <2>8, <2>9, <2>10 DEF Inv
<1> QED  BY <1>3, <1>4

LEMMA KeepLruInv ==
  ASSUME Inv, NEW m \in Maintainers, KeepLru(m)
  PROVE  Inv' /\ UNCHANGED buckets
<1>1. Reporting'
  BY DEF KeepLru, Inv, Reporting, NoReport
<1> QED  BY <1>1 DEF KeepLru, Inv, WithinCapacity

LEMMA StepInv ==
  ASSUME Inv, [ServiceNext \/ MaintenanceNext]_vars PROVE Inv'
<1>1. CASE UNCHANGED vars
  BY <1>1 DEF vars, Inv, Reporting, WithinCapacity
<1>2. CASE \E c \in Contact : Insert(c)
  BY <1>2, InsertInv
<1>3. CASE \E p \in Peers : RemovePeer(p)
  BY <1>3, RemoveInv
<1>4. CASE \E m \in Maintainers, c \in Contact : OfferForReplace(m, c)
  BY <1>4, OfferForReplaceInv
<1>5. CASE \E m \in Maintainers, a \in Addrs : Replace(m, a)
  BY <1>5, ReplaceInv
<1>6. CASE \E m \in Maintainers : KeepLru(m)
  BY <1>6, KeepLruInv
<1> QED  BY <1>1, <1>2, <1>3, <1>4, <1>5, <1>6 DEF ServiceNext, MaintenanceNext

THEOREM TableInvariant == Spec => []Inv
BY InitInv, StepInv, PTL DEF Spec

-----------------------------------------------------------------------------
(* Contacts are filed under the bucket of their distance, never the own id   *)
(* (RoutingTable::insert, KBucket::offer and replace_lru).                   *)
THEOREM TableTypes == Spec => []TypeOK
<1>1. ASSUME Inv PROVE TypeOK
  <2>1. ASSUME NEW i \in BucketIndices, NEW p \in IdsOf(buckets[i])
        PROVE  BucketIndex(Distance(Local, p)) = i
    <3>1. p \in Peers /\ BucketOf[p] = i
      BY <1>1, IdsArePeers DEF Inv, Good
    <3> QED  BY <3>1, PeersHaveBuckets
  <2> QED  BY <1>1, <2>1 DEF TypeOK, Inv, Good, Reporting, Known
<1> QED  BY <1>1, TableInvariant, PTL

(* No bucket outgrows k, whatever offers, removals and stale replaces run    *)
(* (KBucket::offer, replace_lru).                                            *)
THEOREM BucketsStayBounded == Spec => []WithinCapacity
<1>1. Inv => WithinCapacity
  BY DEF Inv
<1> QED  BY <1>1, TableInvariant, PTL

LEMMA OvertakenAreTheOnlyDoubles ==
  ASSUME Inv PROVE NoDoubleCountUnlessOvertaken
<1>1. ASSUME NEW p \in Peers \ overtaken, NEW i \in BucketIndices,
             NEW j \in DOMAIN buckets[i], NEW l \in DOMAIN buckets[i],
             buckets[i][j].peer = p, buckets[i][l].peer = p
      PROVE  j = l
  <2>1. /\ buckets[i] \in Seq(Known) /\ Ordered(buckets[i], sightings, overtaken)
        /\ sightings \in Seq(Peers) /\ Distinct(sightings)
    BY DEF Inv, Good
  <2> QED  BY <1>1, <2>1, OnlyOnce
<1> QED  BY <1>1 DEF NoDoubleCountUnlessOvertaken, HeldOnce

(* Only a candidate somebody else had inserted by the time its replace came  *)
(* is held twice (KBucket::replace_lru compares the front alone).            *)
THEOREM HeldTwiceOnlyIfOvertaken == Spec => []NoDoubleCountUnlessOvertaken
BY OvertakenAreTheOnlyDoubles, TableInvariant, PTL

(* NoDoubleCount holds of what DhtService does with its table: without      *)
(* ping-and-replace nobody is ever overtaken, and no peer is held twice.    *)
THEOREM ServiceNeverDoubleCounts == ServiceSpec => []NoDoubleCount
<1> DEFINE Quiet == overtaken = {}
<1>1. Init => Inv /\ Quiet
  BY InitInv DEF Init
<1>2. Inv /\ Quiet /\ [ServiceNext]_vars => Inv' /\ Quiet'
  <2>1. [ServiceNext]_vars => [ServiceNext \/ MaintenanceNext]_vars
    OBVIOUS
  <2>2. [ServiceNext]_vars => UNCHANGED overtaken
    BY DEF ServiceNext, Insert, RemovePeer, vars
  <2> QED  BY <2>1, <2>2, StepInv
<1>3. Inv /\ Quiet => NoDoubleCount
  BY OvertakenAreTheOnlyDoubles DEF NoDoubleCount, NoDoubleCountUnlessOvertaken
<1> QED  BY <1>1, <1>2, <1>3, PTL DEF ServiceSpec

(* A bucket keeps its peers in the order in which they were last seen, loses *)
(* none and makes none up, so that the front is the one unseen for longest.  *)
THEOREM FrontIsLeastRecentlySeen == Spec => []LeastRecentlySeenFirst
<1>1. ASSUME Inv PROVE LeastRecentlySeenFirst
  <2>1. Table \ overtaken \subseteq Range(sightings)
    BY <1>1 DEF Inv, Good, Table
  <2>2. Range(sightings) \subseteq Table
    <3>1. ASSUME NEW p \in Range(sightings) PROVE p \in Table
      <4>1. p \in Peers /\ p \in IdsOf(buckets[BucketOf[p]])
        BY <1>1 DEF Inv, Good, Range
      <4> QED  BY <4>1, PeersHaveBuckets DEF Table
    <3> QED  BY <3>1
  <2>3. ASSUME NEW i \in BucketIndices, NEW j \in DOMAIN buckets[i], NEW l \in DOMAIN buckets[i],
               j < l, {buckets[i][j].peer, buckets[i][l].peer} \cap overtaken = {}
        PROVE  \E m, n \in DOMAIN sightings : /\ m < n /\ sightings[m] = buckets[i][j].peer
                                              /\ sightings[n] = buckets[i][l].peer
    <3>1. Ordered(buckets[i], sightings, overtaken)
      BY <1>1 DEF Inv, Good
    <3>2. Before(sightings, buckets[i][j].peer, buckets[i][l].peer)
      BY <2>3, <3>1 DEF Ordered
    <3> QED  BY <3>2 DEF Before
  <2> QED  BY <2>1, <2>2, <2>3 DEF LeastRecentlySeenFirst
<1> QED  BY <1>1, TableInvariant, PTL

(* A contact leaves the table only by a removal that names it, or as the     *)
(* reported front of its bucket when a candidate takes its place.            *)
THEOREM NoNewcomerDisplaces == Spec => NewcomersDisplaceNobody
<1>1. ASSUME Inv, [ServiceNext \/ MaintenanceNext]_vars, NEW p \in Table, p \notin Table'
      PROVE  \/ RemovePeer(p)
             \/ \E m \in Maintainers : /\ reports[m].lru = p
                                       /\ buckets[BucketOf[p]][1].peer = p
                                       /\ \E a \in Addrs : Replace(m, a)
  <2>1. ~UNCHANGED buckets
    BY <1>1 DEF Table
  <2>2. CASE \E c \in Contact : Insert(c)
    BY <1>1, <2>2, InsertInv
  <2>3. CASE \E q \in Peers : RemovePeer(q)
    BY <1>1, <2>3, RemoveInv
  <2>4. CASE \E m \in Maintainers, c \in Contact : OfferForReplace(m, c)
    BY <1>1, <2>1, <2>4, OfferForReplaceInv
  <2>5. CASE \E m \in Maintainers, a \in Addrs : Replace(m, a)
    BY <1>1, <2>5, ReplaceInv
  <2>6. CASE \E m \in Maintainers : KeepLru(m)
    BY <1>1, <2>1, <2>6, KeepLruInv
  <2> QED  BY <1>1, <2>1, <2>2, <2>3, <2>4, <2>5, <2>6 DEF ServiceNext, MaintenanceNext, vars
<1>2. Inv /\ [ServiceNext \/ MaintenanceNext]_vars =>
        [\A p \in Table :
           p \notin Table' =>
             \/ RemovePeer(p)
             \/ \E m \in Maintainers :
                  /\ reports[m].lru = p
                  /\ buckets[BucketOf[p]][1].peer = p
                  /\ \E a \in Addrs : Replace(m, a)]_vars
  BY <1>1
<1> QED  BY <1>2, TableInvariant, PTL DEF Spec, NewcomersDisplaceNobody

-----------------------------------------------------------------------------
(* closest: where a walk starts.                                            *)

(* The places of the table are finitely many, and each holds a known peer.  *)
PlacesOf(i) == {i} \X (1 .. Len(buckets[i]))

LEMMA PlaceShape ==
  ASSUME Inv
  PROVE  /\ IsFiniteSet(Places)
         /\ \A p \in Places : /\ p[1] \in BucketIndices /\ p[1] \in Nat
                              /\ p[2] \in 1 .. Len(buckets[p[1]]) /\ p = <<p[1], p[2]>>
                              /\ ContactAt(p).peer \in IdsOf(buckets[p[1]])
                              /\ ContactAt(p).peer \in Peers
                              /\ BucketOf[ContactAt(p).peer] = p[1]
         /\ \A i \in BucketIndices : PlacesOf(i) \subseteq Places
<1>1. /\ buckets \in [BucketIndices -> Seq(Known)]
      /\ \A i \in BucketIndices : \A p \in IdsOf(buckets[i]) : BucketOf[p] = i
      /\ \A i \in BucketIndices : Len(buckets[i]) <= K
  BY DEF Inv, Good, WithinCapacity
<1>2. BucketIndices \subseteq Nat /\ IsFiniteSet(BucketIndices) /\ K \in Nat
  <2>1. Bits \in Nat
    BY BitsPositive
  <2>2. IsFiniteSet(0 .. Bits - 1)
    BY <2>1, FS_Interval
  <2> QED  BY <2>1, <2>2, RoutingAssumption DEF BucketIndices
<1>3. IsFiniteSet(BucketIndices \X (1 .. K))
  <2>1. IsFiniteSet(1 .. K)
    BY <1>2, FS_Interval
  <2> QED  BY <1>2, <2>1, FS_Product
<1>4. ASSUME NEW p \in Places
      PROVE  /\ p[1] \in BucketIndices /\ p[1] \in Nat
             /\ p[2] \in 1 .. Len(buckets[p[1]]) /\ p = <<p[1], p[2]>>
             /\ p \in BucketIndices \X (1 .. K)
             /\ ContactAt(p).peer \in IdsOf(buckets[p[1]])
             /\ ContactAt(p).peer \in Peers
             /\ BucketOf[ContactAt(p).peer] = p[1]
  <2>1. PICK i \in BucketIndices : p \in {i} \X (1 .. Len(buckets[i]))
    BY DEF Places
  <2>2. PICK n \in 1 .. Len(buckets[i]) : p = <<i, n>>
    BY <2>1
  <2>3. p[1] = i /\ p[2] = n
    BY <2>2
  <2>4. buckets[i] \in Seq(Known) /\ Len(buckets[i]) \in Nat /\ Len(buckets[i]) <= K
    BY <1>1
  <2>5. n \in 1 .. K
    BY <1>2, <2>4
  <2>6. ContactAt(p).peer \in IdsOf(buckets[i])
    BY <2>3, <2>4 DEF ContactAt, IdsOf
  <2>7. ContactAt(p).peer \in Peers /\ BucketOf[ContactAt(p).peer] = i
    BY <1>1, <2>4, <2>6, IdsArePeers
  <2> QED  BY <1>2, <2>2, <2>3, <2>5, <2>6, <2>7
<1>5. IsFiniteSet(Places)
  <2>1. Places \subseteq BucketIndices \X (1 .. K)
    BY <1>4
  <2> QED  BY <1>3, <2>1, FS_Subset
<1>6. \A i \in BucketIndices : PlacesOf(i) \subseteq Places
  BY DEF Places, PlacesOf
<1> QED  BY <1>4, <1>5, <1>6

LEMMA EarlierPlaces ==
  ASSUME NEW target, NEW P
  PROVE  /\ ByDistance(target, P) \in [P -> SUBSET P]
         /\ \A p, q \in P :
              q \in ByDistance(target, P)[p] <=>
                /\ q # p
                /\ \/ Closer(DistanceAt(target, q), DistanceAt(target, p))
                   \/ Precedes(q, p) /\ DistanceAt(target, q) = DistanceAt(target, p)
BY DEF ByDistance

LEMMA PlaceOrder ==
  ASSUME Inv, NEW target \in Key
  PROVE  Orders(ByDistance(target, Places), Places)
<1> DEFINE D(p) == DistanceAt(target, p)
           E == ByDistance(target, Places)
<1>1. PICK P : P = Places
  OBVIOUS
<1>2. /\ IsFiniteSet(P)
      /\ \A p \in P : p[1] \in Nat /\ p[2] \in Nat /\ p = <<p[1], p[2]>>
  <2>1. \A p \in Places : p[2] \in Nat
    <3>1. ASSUME NEW p \in Places PROVE p[2] \in Nat
      <4>1. p[2] \in 1 .. Len(buckets[p[1]]) /\ p[1] \in BucketIndices
        BY PlaceShape
      <4> QED  BY <4>1
    <3> QED  BY <3>1
  <2> QED  BY <1>1, <2>1, PlaceShape
<1>3. \A p \in P : D(p) \in Key
  <2>1. ASSUME NEW p \in P PROVE D(p) \in Key
    <3>1. ContactAt(p).peer \in Key
      BY <1>1, PlaceShape, RoutingAssumption
    <3> QED  BY <3>1, DistanceType DEF DistanceAt
  <2> QED  BY <2>1
<1>4. /\ E \in [P -> SUBSET P]
      /\ \A p, q \in P : q \in E[p] <=> /\ q # p
                                        /\ \/ Closer(D(q), D(p))
                                           \/ Precedes(q, p) /\ D(q) = D(p)
  BY <1>1, EarlierPlaces
<1> HIDE DEF D, E
<1>6. \A p \in P : p \notin E[p]
  BY <1>4
<1>7. ASSUME NEW p \in P, NEW q \in P, NEW r \in P, p \in E[q], q \in E[r]
      PROVE  p \in E[r]
  <2>1. /\ Closer(D(p), D(q)) \/ (Precedes(p, q) /\ D(p) = D(q))
        /\ Closer(D(q), D(r)) \/ (Precedes(q, r) /\ D(q) = D(r))
    BY <1>4, <1>7
  <2>2. D(p) \in Key /\ D(q) \in Key /\ D(r) \in Key
    BY <1>3
  <2>3. Closer(D(p), D(r)) \/ (Precedes(p, r) /\ D(p) = D(r))
    <3>1. CASE Closer(D(p), D(q)) /\ Closer(D(q), D(r))
      BY <2>2, <3>1, CloserIsTransitive
    <3>2. CASE Closer(D(p), D(q)) /\ D(q) = D(r)
      BY <3>2
    <3>3. CASE D(p) = D(q) /\ Closer(D(q), D(r))
      BY <3>3
    <3>4. CASE Precedes(p, q) /\ D(p) = D(q) /\ Precedes(q, r) /\ D(q) = D(r)
      <4>1. Precedes(p, r)
        BY <1>2, <3>4 DEF Precedes
      <4> QED  BY <3>4, <4>1
    <3> QED  BY <2>1, <3>1, <3>2, <3>3, <3>4
  <2>4. p # r
    <3>1. ~Closer(D(r), D(r)) /\ ~Precedes(r, r)
      BY <1>2, <2>2, CloserIsStrictAndTotal DEF Precedes
    <3> QED  BY <2>3, <3>1
  <2> QED  BY <1>4, <2>3, <2>4
<1>8. ASSUME NEW p \in P, NEW q \in P, p # q
      PROVE  p \in E[q] \/ q \in E[p]
  <2>1. D(p) \in Key /\ D(q) \in Key
    BY <1>3
  <2>2. CASE D(p) # D(q)
    BY <1>4, <1>8, <2>1, <2>2, CloserIsStrictAndTotal
  <2>3. CASE D(p) = D(q)
    <3>1. p[1] # q[1] \/ p[2] # q[2]
      BY <1>2, <1>8
    <3>2. Precedes(p, q) \/ Precedes(q, p)
      BY <1>2, <3>1 DEF Precedes
    <3> QED  BY <1>4, <1>8, <2>3, <3>2
  <2> QED  BY <2>2, <2>3
<1>9. Orders(E, P)
  BY <1>2, <1>4, <1>6, <1>7, <1>8 DEF Orders
<1> QED  BY <1>1, <1>9 DEF E

LEMMA OwnPlaces ==
  ASSUME Inv, NEW i \in BucketIndices
  PROVE  /\ IsFiniteSet(PlacesOf(i)) /\ Cardinality(PlacesOf(i)) = Len(buckets[i])
         /\ Len(buckets[i]) \in Nat /\ Len(buckets[i]) <= K
<1>1. PICK n : n = Len(buckets[i])
  OBVIOUS
<1>2. n \in Nat /\ n <= K
  <2>1. buckets[i] \in Seq(Known)
    BY DEF Inv, Good
  <2> QED  BY <1>1, <2>1 DEF Inv, WithinCapacity
<1>3. IsFiniteSet(1 .. n) /\ Cardinality(1 .. n) = n
  BY <1>2, FS_Interval
<1>4. IsFiniteSet({i}) /\ Cardinality({i}) = 1
  BY FS_Singleton
<1>5. /\ IsFiniteSet({i} \X (1 .. n))
      /\ Cardinality({i} \X (1 .. n)) = 1 * n
  BY <1>3, <1>4, FS_Product
<1> QED  BY <1>1, <1>2, <1>5 DEF PlacesOf

(* The contacts of the target's own bucket are the first that closest       *)
(* returns.                                                                 *)
LEMMA StartsInBucket ==
  ASSUME Inv, NEW target \in Key \ {Local}, NEW i \in BucketIndices,
         BucketIndex(Distance(Local, target)) = i
  PROVE  StartsWithBucket(target, i)
<1>1. PICK P, E, s, n : /\ P = Places /\ E = ByDistance(target, P)
                        /\ s = [p \in P |-> ContactAt(p)] /\ n = Len(buckets[i])
  OBVIOUS
<1> DEFINE F == PlacesOf(i)
<1>2. Orders(E, P)
  BY <1>1, PlaceOrder
<1>3. F \subseteq P /\ Cardinality(F) = n /\ n \in Nat /\ n <= K
  BY <1>1, PlaceShape, OwnPlaces
<1>4. ASSUME NEW p \in F, NEW q \in P \ F PROVE p \in E[q]
  <2>1. p \in P /\ p[1] = i
    BY <1>3 DEF PlacesOf
  <2>2. q[1] # i
    BY <1>1, PlaceShape DEF PlacesOf
  <2>3. PICK a \in Peers, b \in Peers :
          /\ a = ContactAt(p).peer /\ BucketOf[a] = i
          /\ b = ContactAt(q).peer /\ BucketOf[b] # i
    BY <1>1, <2>1, <2>2, PlaceShape
  <2>4. /\ BucketIndex(Distance(Local, a)) = i
        /\ BucketIndex(Distance(Local, b)) # i
        /\ a \in Key /\ b \in Key /\ a # Local /\ b # Local /\ Local \in Key
    BY <2>3, PeersHaveBuckets, RoutingAssumption
  <2>5. Closer(Distance(target, a), Distance(target, b))
    BY <2>4, OwnBucketIsCloser
  <2> QED  BY <1>1, <2>1, <2>2, <2>3, <2>5, EarlierPlaces DEF DistanceAt
<1>5. /\ n <= Cardinality(P)
      /\ {Arranged(s, E)[j] : j \in 1 .. n} = {s[p] : p \in F}
  <2>1. /\ Cardinality(F) <= Cardinality(P)
        /\ {Arranged(s, E)[j] : j \in 1 .. Cardinality(F)} = {s[p] : p \in F}
    <3> HIDE DEF F
    <3> QED  BY <1>2, <1>3, <1>4, Foremost
  <2> QED  BY <1>3, <2>1
<1>6. Cardinality(P) \in Nat
  <2>1. IsFiniteSet(P)
    BY <1>1, PlaceShape
  <2> QED  BY <2>1, FS_CardinalityType
<1>7. ASSUME NEW j \in 1 .. n PROVE Closest(target)[j] = Arranged(s, E)[j]
  <2>1. j \in 1 .. (IF Cardinality(P) < K THEN Cardinality(P) ELSE K)
    <3>1. PICK m \in Nat : m = Cardinality(P) /\ n <= m
      BY <1>5, <1>6
    <3>2. j \in 1 .. (IF m < K THEN m ELSE K)
      BY <1>3, <1>7, <3>1, RoutingAssumption
    <3> QED  BY <3>1, <3>2
  <2> QED  BY <1>1, <2>1 DEF Closest
<1>8. {s[p].peer : p \in F} = IdsOf(buckets[i])
  <2>1. DOMAIN buckets[i] = 1 .. n
    <3>1. buckets[i] \in Seq(Known)
      BY DEF Inv, Good
    <3> QED  BY <1>1, <3>1
  <2>2. ASSUME NEW l \in 1 .. n PROVE <<i, l>> \in F /\ s[<<i, l>>] = buckets[i][l]
    <3>1. <<i, l>> \in F
      BY <1>1 DEF PlacesOf
    <3> QED  BY <1>1, <1>3, <3>1 DEF ContactAt
  <2>3. ASSUME NEW p \in F PROVE \E l \in 1 .. n : p = <<i, l>>
    BY <1>1 DEF PlacesOf
  <2> HIDE DEF F
  <2>4. \A p \in F : s[p].peer \in IdsOf(buckets[i])
    BY <2>1, <2>2, <2>3 DEF IdsOf
  <2>5. \A x \in IdsOf(buckets[i]) : \E p \in F : x = s[p].peer
    <3>1. ASSUME NEW x \in IdsOf(buckets[i]) PROVE \E p \in F : x = s[p].peer
      <4>1. PICK l \in 1 .. n : x = buckets[i][l].peer
        BY <2>1 DEF IdsOf
      <4> QED  BY <2>2, <4>1
    <3> QED  BY <3>1
  <2> QED  BY <2>4, <2>5
<1>9. {Closest(target)[j].peer : j \in 1 .. n} = {s[p].peer : p \in F}
  <2>1. ASSUME NEW j \in 1 .. n PROVE \E p \in F : Closest(target)[j] = s[p]
    BY <1>5, <1>7
  <2>2. ASSUME NEW p \in F PROVE \E j \in 1 .. n : Closest(target)[j] = s[p]
    <3>1. s[p] \in {Arranged(s, E)[j] : j \in 1 .. n}
      BY <1>5
    <3>2. PICK j \in 1 .. n : s[p] = Arranged(s, E)[j]
      BY <3>1
    <3> QED  BY <1>7, <3>2
  <2> QED  BY <2>1, <2>2
<1> QED  BY <1>1, <1>8, <1>9 DEF StartsWithBucket

(* WalksStartInTheirBucket: the index into the table (the top bit of a      *)
(* distance) and closest (the whole of it) agree, so every walk sets out    *)
(* from its target's own bucket, and every refresh from the one it is for.  *)
THEOREM WalksStartAtHome == Spec => []WalksStartInTheirBucket
<1>1. ASSUME Inv PROVE WalksStartInTheirBucket
  <2>1. ASSUME NEW target \in Key \ {Local}
        PROVE  StartsWithBucket(target, BucketIndex(Distance(Local, target)))
    <3>1. BucketIndex(Distance(Local, target)) \in BucketIndices
      BY TargetsHaveBuckets
    <3> QED  BY <1>1, <3>1, StartsInBucket
  <2>2. ASSUME NEW i \in BucketIndices, NEW target \in RefreshTargets(Local, i)
        PROVE  StartsWithBucket(target, i)
    <3>1. target \in Key \ {Local} /\ BucketIndex(Distance(Local, target)) = i
      BY RefreshStaysInBucket, RoutingAssumption
    <3> QED  BY <1>1, <3>1, StartsInBucket
  <2> QED  BY <2>1, <2>2 DEF WalksStartInTheirBucket, OwnBucketFirst, RefreshAsksItsBucket
<1> QED  BY <1>1, TableInvariant, PTL
=============================================================================
