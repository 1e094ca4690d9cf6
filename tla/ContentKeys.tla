----------------------------- MODULE ContentKeys -----------------------------
(***************************************************************************)
(* Content identifiers (content.rs) and the bytes that are hashed into the *)
(* key under which a provider record is stored.  The hash itself is not    *)
(* modelled: two identifiers can share a key only through it, never because *)
(* their bytes agree.                                                      *)
(***************************************************************************)
EXTENDS Integers, Sequences, TLAPS

Width == 32
Hash == [1 .. Width -> 0 .. 255]

(* <<store_id>>, <<store_id, root>> (a capsule is the same identifier) or   *)
(* <<store_id, root, retrieval_key>>: one, two or three hashes.             *)
Granularities == 1 .. 3
ContentId == UNION {[1 .. n -> Hash] : n \in Granularities}
Granularity(c) == CHOOSE n \in Granularities : DOMAIN c = 1 .. n

(* TAG_STORE, TAG_ROOT, TAG_RESOURCE *)
Tag == [n \in Granularities |-> n]

(* canonical_bytes: the tag, then the bytes of the hashes one after another. *)
CanonicalBytes(c) ==
  [i \in 0 .. Width * Granularity(c) |->
     IF i = 0 THEN Tag[Granularity(c)]
              ELSE c[(i - 1) \div Width + 1][((i - 1) % Width) + 1]]

-----------------------------------------------------------------------------
LEMMA GranularityCounts ==
  ASSUME NEW c \in ContentId
  PROVE  Granularity(c) \in Granularities /\ c \in [1 .. Granularity(c) -> Hash]
<1>1. PICK n \in Granularities : c \in [1 .. n -> Hash]
  BY DEF ContentId
<1>2. Granularity(c) \in Granularities /\ DOMAIN c = 1 .. Granularity(c)
  BY <1>1 DEF Granularity
<1> QED  BY <1>1, <1>2

LEMMA SameHash ==
  ASSUME NEW g \in Hash, NEW h \in Hash, \A p \in 1 .. Width : g[p] = h[p]
  PROVE  g = h
<1>1. g = [p \in 1 .. Width |-> g[p]] /\ h = [p \in 1 .. Width |-> h[p]]
  BY DEF Hash
<1>2. [p \in 1 .. Width |-> g[p]] = [p \in 1 .. Width |-> h[p]]
  OBVIOUS
<1> QED  BY <1>1, <1>2

(* The byte at which byte p of hash j is found. *)
LEMMA WhereBytesAre ==
  ASSUME NEW c \in ContentId, NEW j \in 1 .. Granularity(c), NEW p \in 1 .. Width
  PROVE  /\ Width * (j - 1) + p \in 1 .. Width * Granularity(c)
         /\ CanonicalBytes(c)[Width * (j - 1) + p] = c[j][p]
<1>1. Granularity(c) \in 1 .. 3
  BY GranularityCounts DEF Granularities
<1> DEFINE i == Width * (j - 1) + p
<1>2. i \in 1 .. Width * Granularity(c)
  BY <1>1 DEF Width
<1>3. (i - 1) \div Width + 1 = j /\ ((i - 1) % Width) + 1 = p
  BY <1>1 DEF Width
<1>4. CanonicalBytes(c)[i] = c[(i - 1) \div Width + 1][((i - 1) % Width) + 1]
  <2>1. i \in 0 .. Width * Granularity(c) /\ i # 0
    BY <1>1, <1>2 DEF Width
  <2> HIDE DEF i
  <2> QED  BY <2>1 DEF CanonicalBytes
<1> QED  BY <1>2, <1>3, <1>4

(* Distinct content has distinct canonical bytes, across granularities and  *)
(* within one ("a store key, a root key, and a resource key are distinct    *)
(* points even when they share the same store_id", content.rs): a record    *)
(* stored for one is never found under another unless SHA-256 collides.     *)
THEOREM DistinctContentHasDistinctBytes ==
  \A c, d \in ContentId : CanonicalBytes(c) = CanonicalBytes(d) => c = d
<1> SUFFICES ASSUME NEW c \in ContentId, NEW d \in ContentId,
                    CanonicalBytes(c) = CanonicalBytes(d)
             PROVE  c = d
  OBVIOUS
<1>1. /\ Granularity(c) \in 1 .. 3 /\ c \in [1 .. Granularity(c) -> Hash]
      /\ Granularity(d) \in 1 .. 3 /\ d \in [1 .. Granularity(d) -> Hash]
  BY GranularityCounts DEF Granularities
<1>2. Granularity(c) = Granularity(d)
  <2>1. ASSUME NEW e \in ContentId
        PROVE  CanonicalBytes(e)[0] = Granularity(e)
    <3>1. Granularity(e) \in 1 .. 3
      BY GranularityCounts DEF Granularities
    <3>2. 0 \in 0 .. Width * Granularity(e)
      BY <3>1 DEF Width
    <3>3. CanonicalBytes(e)[0] = Tag[Granularity(e)]
      BY <3>2 DEF CanonicalBytes
    <3> QED  BY <3>1, <3>3 DEF Tag, Granularities
  <2> QED  BY <2>1
<1>3. \A j \in 1 .. Granularity(c) : c[j] = d[j]
  <2> SUFFICES ASSUME NEW j \in 1 .. Granularity(c) PROVE c[j] = d[j]
    OBVIOUS
  <2>1. \A p \in 1 .. Width : c[j][p] = d[j][p]
    BY <1>2, WhereBytesAre
  <2>2. c[j] \in Hash /\ d[j] \in Hash
    BY <1>1, <1>2
  <2> QED  BY <2>1, <2>2, SameHash
<1> QED  BY <1>1, <1>2, <1>3
=============================================================================
