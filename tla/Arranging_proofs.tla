-------------------------- MODULE Arranging_proofs --------------------------
(***************************************************************************)
(* Lemmas about Arranging: what an arranged list holds, and in what order. *)
(***************************************************************************)
EXTENDS Arranging, SequenceTheorems, FunctionTheorems, FiniteSetTheorems, TLAPS

(* earlier orders the finite set I strictly. *)
Orders(earlier, I) ==
  /\ IsFiniteSet(I) /\ earlier \in [I -> SUBSET I]
  /\ \A i \in I : i \notin earlier[i]
  /\ \A i, j, l \in I : (i \in earlier[j] /\ j \in earlier[l]) => i \in earlier[l]
  /\ \A i, j \in I : i = j \/ i \in earlier[j] \/ j \in earlier[i]

-----------------------------------------------------------------------------
(* Places: an earlier index has a lower one, so that every number up to the *)
(* size of the set is the place of exactly one index.                       *)

LEMMA PlaceRange ==
  ASSUME NEW I, NEW earlier, Orders(earlier, I), NEW i \in I
  PROVE  PlaceOf(i, earlier) \in 1 .. Cardinality(I)
<1>1. earlier[i] \subseteq I \ {i} /\ IsFiniteSet(I)
  BY DEF Orders
<1>2. /\ IsFiniteSet(I \ {i}) /\ Cardinality(I \ {i}) = Cardinality(I) - 1
      /\ Cardinality(I) \in Nat
  BY <1>1, FS_RemoveElement, FS_CardinalityType
<1>3. IsFiniteSet(earlier[i]) /\ Cardinality(earlier[i]) <= Cardinality(I \ {i})
  BY <1>1, <1>2, FS_Subset
<1>4. Cardinality(earlier[i]) \in Nat
  BY <1>3, FS_CardinalityType
<1> QED  BY <1>2, <1>3, <1>4 DEF PlaceOf

LEMMA PlacesInOrder ==
  ASSUME NEW I, NEW earlier, Orders(earlier, I),
         NEW i \in I, NEW j \in I, i \in earlier[j]
  PROVE  PlaceOf(i, earlier) < PlaceOf(j, earlier)
<1>1. /\ earlier[i] \subseteq earlier[j] \ {i}
      /\ earlier[j] \subseteq I /\ IsFiniteSet(I)
  BY DEF Orders
<1>2. IsFiniteSet(earlier[j]) /\ Cardinality(earlier[j]) \in Nat
  BY <1>1, FS_Subset, FS_CardinalityType
<1>3. /\ IsFiniteSet(earlier[j] \ {i})
      /\ Cardinality(earlier[j] \ {i}) = Cardinality(earlier[j]) - 1
  BY <1>2, FS_RemoveElement
<1>4. IsFiniteSet(earlier[i]) /\ Cardinality(earlier[i]) <= Cardinality(earlier[j] \ {i})
  BY <1>1, <1>3, FS_Subset
<1>5. Cardinality(earlier[i]) \in Nat
  BY <1>4, FS_CardinalityType
<1> QED  BY <1>2, <1>3, <1>4, <1>5 DEF PlaceOf

LEMMA OneIndexPerPlace ==
  ASSUME NEW I, NEW earlier, Orders(earlier, I), NEW i \in I, NEW j \in I,
         PlaceOf(i, earlier) = PlaceOf(j, earlier)
  PROVE  i = j
<1>1. PlaceOf(i, earlier) \in 1 .. Cardinality(I) /\ PlaceOf(j, earlier) \in 1 .. Cardinality(I)
  BY PlaceRange
<1>2. CASE i \in earlier[j]
  BY <1>1, <1>2, PlacesInOrder
<1>3. CASE j \in earlier[i]
  BY <1>1, <1>3, PlacesInOrder
<1> QED  BY <1>2, <1>3 DEF Orders

LEMMA EveryPlaceIsTaken ==
  ASSUME NEW I, NEW earlier, Orders(earlier, I), NEW n \in 1 .. Cardinality(I)
  PROVE  \E i \in I : PlaceOf(i, earlier) = n
<1> DEFINE place == [i \in I |-> PlaceOf(i, earlier)]
           N == Cardinality(I)
<1>1. IsFiniteSet(I) /\ N \in Nat
  BY FS_CardinalityType DEF Orders
<1>2. place \in [I -> 1 .. N]
  BY PlaceRange
<1>3. \A i, j \in I : place[i] = place[j] => i = j
  BY OneIndexPerPlace
<1>4. place \in Injection(I, 1 .. N)
  BY <1>2, <1>3, Fun_IsInj, Zenon
<1>5. IsFiniteSet(1 .. N) /\ Cardinality(1 .. N) = N
  BY <1>1, FS_Interval
<1>6. place \in Surjection(I, 1 .. N)
  BY <1>4, <1>5, FS_Injection
<1>7. \E i \in I : place[i] = n
  BY <1>6 DEF Surjection
<1> QED  BY <1>7

(* The index at each place, the place of each index, and the order of both. *)
Arranges(at, s, I, earlier) ==
  /\ at \in [1 .. Cardinality(I) -> I]
  /\ \A n \in 1 .. Cardinality(I) : Arranged(s, earlier)[n] = s[at[n]]
  /\ \A n \in 1 .. Cardinality(I) : PlaceOf(at[n], earlier) = n
  /\ \A i \in I : \E n \in 1 .. Cardinality(I) : at[n] = i
  /\ \A m, n \in 1 .. Cardinality(I) : m < n => at[m] \in earlier[at[n]]

(* Every arrangement has such a list of indices.                             *)
THEOREM Arrangement ==
  ASSUME NEW I, NEW earlier, Orders(earlier, I), NEW s
  PROVE  \E at : Arranges(at, s, I, earlier)
<1> DEFINE N == Cardinality(I)
           at == [n \in 1 .. N |-> IndexAt(n, earlier)]
<1>0. DOMAIN earlier = I
  BY DEF Orders
<1>1. N \in Nat
  BY FS_CardinalityType DEF Orders
<1>2. ASSUME NEW n \in 1 .. N
      PROVE  IndexAt(n, earlier) \in I /\ PlaceOf(IndexAt(n, earlier), earlier) = n
  BY <1>0, EveryPlaceIsTaken DEF IndexAt
<1>3. at \in [1 .. N -> I] /\ \A n \in 1 .. N : PlaceOf(at[n], earlier) = n
  BY <1>2
<1>4. \A n \in 1 .. N : Arranged(s, earlier)[n] = s[at[n]]
  BY <1>0 DEF Arranged
<1> HIDE DEF at
<1>5. ASSUME NEW m \in 1 .. N, NEW n \in 1 .. N, m < n
      PROVE  at[m] \in earlier[at[n]]
  <2>1. at[m] # at[n]
    BY <1>1, <1>3, <1>5
  <2>2. at[n] \notin earlier[at[m]]
    <3>1. SUFFICES ASSUME at[n] \in earlier[at[m]] PROVE FALSE
      OBVIOUS
    <3>2. PlaceOf(at[n], earlier) < PlaceOf(at[m], earlier)
      BY <1>3, <3>1, PlacesInOrder
    <3> QED  BY <1>1, <1>3, <1>5, <3>2
  <2> QED  BY <1>3, <2>1, <2>2 DEF Orders
<1>6. ASSUME NEW i \in I
      PROVE  \E n \in 1 .. N : at[n] = i
  <2>1. PlaceOf(i, earlier) \in 1 .. N
    BY PlaceRange
  <2>2. PICK n \in 1 .. N : PlaceOf(i, earlier) = n
    BY <2>1
  <2>3. at[n] \in I /\ PlaceOf(at[n], earlier) = n
    BY <1>3
  <2> QED  BY <2>2, <2>3, OneIndexPerPlace
<1>7. Arranges(at, s, I, earlier)
  BY <1>3, <1>4, <1>5, <1>6 DEF Arranges
<1> QED  BY <1>7

(* Indices that come before all others fill the first places.               *)
LEMMA Foremost ==
  ASSUME NEW I, NEW earlier, Orders(earlier, I), NEW s, NEW F, F \subseteq I,
         \A i \in F, j \in I \ F : i \in earlier[j]
  PROVE  /\ Cardinality(F) \in Nat /\ Cardinality(F) <= Cardinality(I)
         /\ {Arranged(s, earlier)[n] : n \in 1 .. Cardinality(F)} = {s[i] : i \in F}
<1> DEFINE N == Cardinality(I)
           M == Cardinality(F)
<1>1. /\ IsFiniteSet(I) /\ IsFiniteSet(F)
      /\ N \in Nat /\ M \in Nat /\ M <= N
  BY FS_Subset, FS_CardinalityType DEF Orders
<1>a. PICK at : Arranges(at, s, I, earlier)
  BY Arrangement
<1>2. /\ at \in [1 .. N -> I]
      /\ \A n \in 1 .. N : Arranged(s, earlier)[n] = s[at[n]]
      /\ \A n \in 1 .. N : PlaceOf(at[n], earlier) = n
      /\ \A i \in I : \E n \in 1 .. N : at[n] = i
      /\ \A m, n \in 1 .. N : m < n => at[m] \in earlier[at[n]]
  BY <1>a DEF Arranges
<1>3. ASSUME NEW i \in F
      PROVE  \E n \in 1 .. M : at[n] = i
  <2>1. PICK n \in 1 .. N : at[n] = i
    BY <1>2
  <2>2. earlier[i] \subseteq F \ {i}
    BY DEF Orders
  <2>3. IsFiniteSet(F \ {i}) /\ Cardinality(F \ {i}) = M - 1
    BY <1>1, FS_RemoveElement
  <2>4. IsFiniteSet(earlier[i]) /\ Cardinality(earlier[i]) <= M - 1
    BY <2>2, <2>3, FS_Subset
  <2>5. Cardinality(earlier[i]) \in Nat /\ n = Cardinality(earlier[i]) + 1
    BY <1>2, <2>1, <2>4, FS_CardinalityType DEF PlaceOf
  <2>6. n \in 1 .. M
    BY <1>1, <2>4, <2>5
  <2> QED  BY <2>1, <2>6
<1> DEFINE first == [n \in 1 .. M |-> at[n]]
           image == {at[n] : n \in 1 .. M}
<1>4. F \subseteq image
  BY <1>3
<1>5. image \subseteq I /\ IsFiniteSet(image)
  BY <1>1, <1>2, FS_Subset
<1>6. Cardinality(image) <= M
  <2>1. first \in Surjection(1 .. M, image)
    BY DEF Surjection
  <2>2. IsFiniteSet(1 .. M) /\ Cardinality(1 .. M) = M
    BY <1>1, FS_Interval
  <2> HIDE DEF first, image
  <2> QED  BY <2>1, <2>2, FS_Surjection
<1>7. image = F
  <2>1. M <= Cardinality(image) /\ Cardinality(image) \in Nat
    BY <1>4, <1>5, FS_Subset, FS_CardinalityType
  <2>2. Cardinality(image) = Cardinality(F)
    BY <1>1, <1>6, <2>1
  <2> HIDE DEF image
  <2> QED  BY <1>4, <1>5, <2>2, FS_Subset
<1>8. \A n \in 1 .. M : Arranged(s, earlier)[n] = s[at[n]]
  BY <1>1, <1>2
<1>9. {Arranged(s, earlier)[n] : n \in 1 .. M} = {s[i] : i \in F}
  <2>1. {Arranged(s, earlier)[n] : n \in 1 .. M} = {s[at[n]] : n \in 1 .. M}
    BY <1>8
  <2>2. {s[at[n]] : n \in 1 .. M} = {s[i] : i \in image}
    OBVIOUS
  <2> QED  BY <1>7, <2>1, <2>2
<1> QED  BY <1>1, <1>9

-----------------------------------------------------------------------------
(* Lists arranged.                                                          *)

(* at says where in s the elements of t come from: all those at I, once each. *)
ComesFrom(at, t, s, I) ==
  /\ at \in [DOMAIN t -> I]
  /\ \A n \in DOMAIN t : t[n] = s[at[n]]
  /\ \A i \in I : \E n \in DOMAIN t : at[n] = i

LEMMA ListIndices ==
  ASSUME NEW S, NEW s \in Seq(S)
  PROVE  /\ DOMAIN s = 1 .. Len(s) /\ Len(s) \in Nat
         /\ IsFiniteSet(DOMAIN s) /\ Cardinality(DOMAIN s) = Len(s)
<1>1. DOMAIN s = 1 .. Len(s) /\ Len(s) \in Nat
  OBVIOUS
<1>2. PICK L \in Nat : L = Len(s)
  BY <1>1
<1>3. IsFiniteSet(1 .. L) /\ Cardinality(1 .. L) = L
  BY FS_Interval
<1> QED  BY <1>1, <1>2, <1>3

(* Some elements of a list, in the given order.                             *)
LEMMA ArrangedList ==
  ASSUME NEW S, NEW s \in Seq(S), NEW I, I \subseteq DOMAIN s,
         NEW earlier, Orders(earlier, I), NEW t, t = Arranged(s, earlier)
  PROVE  /\ t \in Seq(S) /\ Len(t) = Cardinality(I) /\ Len(t) <= Len(s)
         /\ \E at : /\ ComesFrom(at, t, s, I)
                    /\ \A m, n \in DOMAIN t : m < n => at[m] \in earlier[at[n]]
<1> DEFINE N == Cardinality(I)
<1>1. N \in Nat /\ N <= Len(s)
  <2>1. IsFiniteSet(DOMAIN s) /\ Cardinality(DOMAIN s) = Len(s)
    BY ListIndices
  <2>2. IsFiniteSet(I) /\ N <= Len(s)
    BY <2>1, FS_Subset
  <2> QED  BY <2>2, FS_CardinalityType
<1>a. PICK at : Arranges(at, s, I, earlier)
  BY Arrangement
<1>2. /\ at \in [1 .. N -> I]
      /\ \A n \in 1 .. N : t[n] = s[at[n]]
      /\ \A n \in 1 .. N : PlaceOf(at[n], earlier) = n
      /\ \A i \in I : \E n \in 1 .. N : at[n] = i
      /\ \A m, n \in 1 .. N : m < n => at[m] \in earlier[at[n]]
  BY <1>a DEF Arranges
<1> HIDE DEF N
<1>3. t \in Seq(S) /\ Len(t) = N /\ DOMAIN t = 1 .. N
  <2>1. \A n \in 1 .. N : s[at[n]] \in S
    BY <1>2
  <2>2. t \in [1 .. N -> S]
    <3>1. t = [n \in 1 .. N |-> t[n]]
      BY DEF Arranged, Orders, N
    <3> QED  BY <1>2, <2>1, <3>1
  <2> QED  BY <1>1, <2>2
<1>4. \A n \in 1 .. N : t[n] = s[at[n]]
  BY <1>2
<1>5. ComesFrom(at, t, s, I)
  BY <1>2, <1>3, <1>4 DEF ComesFrom
<1>6. \A m, n \in DOMAIN t : m < n => at[m] \in earlier[at[n]]
  BY <1>2, <1>3
<1> QED  BY <1>1, <1>3, <1>5, <1>6 DEF N

LEMMA IndexOrder ==
  ASSUME NEW S, NEW s \in Seq(S), NEW I, I \subseteq DOMAIN s
  PROVE  Orders(ByIndex(I), I)
<1>1. IsFiniteSet(I) /\ I \subseteq Int
  BY ListIndices, FS_Subset
<1>2. ByIndex(I) \in [I -> SUBSET I] /\ \A i \in I : ByIndex(I)[i] = {j \in I : j < i}
  BY DEF ByIndex
<1> QED  BY <1>1, <1>2 DEF Orders

(* Some elements of a list, in their own order.                             *)
LEMMA SelectedList ==
  ASSUME NEW S, NEW s \in Seq(S), NEW I, I \subseteq DOMAIN s, NEW t, t = Selected(s, I)
  PROVE  /\ t \in Seq(S) /\ Len(t) <= Len(s)
         /\ \E at : /\ ComesFrom(at, t, s, I)
                    /\ \A m, n \in DOMAIN t : m < n => at[m] < at[n]
<1>1. Orders(ByIndex(I), I)
  BY IndexOrder
<1>2. t = Arranged(s, ByIndex(I))
  BY DEF Selected
<1>3. t \in Seq(S) /\ Len(t) <= Len(s)
  BY <1>1, <1>2, ArrangedList
<1>4. PICK at : /\ ComesFrom(at, t, s, I)
                /\ \A m, n \in DOMAIN t : m < n => at[m] \in ByIndex(I)[at[n]]
  BY <1>1, <1>2, ArrangedList
<1>5. \A m, n \in DOMAIN t : m < n => at[m] < at[n]
  BY <1>4 DEF ByIndex, ComesFrom
<1> QED  BY <1>3, <1>4, <1>5

(* A list already in the order is left alone.                               *)
LEMMA ArrangedAlready ==
  ASSUME NEW S, NEW s \in Seq(S), NEW earlier, Orders(earlier, DOMAIN s),
         \A i, j \in DOMAIN s : j < i => j \in earlier[i]
  PROVE  Arranged(s, earlier) = s
<1>0. PICK L \in Nat : DOMAIN s = 1 .. L /\ Cardinality(1 .. L) = L
  BY ListIndices
<1>1. Orders(earlier, 1 .. L)
  BY <1>0
<1>2. ASSUME NEW i \in 1 .. L PROVE PlaceOf(i, earlier) = i
  <2>1. ASSUME NEW j \in 1 .. L, j \in earlier[i] PROVE j < i
    <3>1. CASE j = i
      BY <1>1, <2>1, <3>1 DEF Orders
    <3>2. CASE i < j
      <4>1. i \in earlier[j]
        BY <1>0, <3>2
      <4>2. i \in earlier[i]
        BY <1>1, <2>1, <4>1 DEF Orders
      <4> QED  BY <1>1, <4>2 DEF Orders
    <3> QED  BY <3>1, <3>2
  <2>2. earlier[i] \subseteq 1 .. L
    BY <1>1 DEF Orders
  <2>3. \A j \in 1 .. L : j < i => j \in earlier[i]
    BY <1>0
  <2>4. \A j : j \in earlier[i] <=> j \in 1 .. (i - 1)
    BY <2>1, <2>2, <2>3
  <2>5. earlier[i] = 1 .. (i - 1)
    BY <2>4, Zenon
  <2>6. Cardinality(1 .. (i - 1)) = i - 1
    <3>1. i - 1 \in Int /\ 1 \in Int /\ ~(1 > i - 1) => i - 1 - 1 + 1 = i - 1
      OBVIOUS
    <3>2. Cardinality(1 .. (i - 1)) = IF 1 > i - 1 THEN 0 ELSE i - 1 - 1 + 1
      BY <3>1, FS_Interval
    <3> QED  BY <3>2
  <2> QED  BY <2>5, <2>6 DEF PlaceOf
<1>3. \A n \in 1 .. L : IndexAt(n, earlier) = n
  BY <1>1, <1>2 DEF IndexAt, Orders
<1>4. Arranged(s, earlier) = [n \in 1 .. L |-> s[IndexAt(n, earlier)]]
  BY <1>0, <1>1 DEF Arranged, Orders
<1>5. Arranged(s, earlier) = [n \in 1 .. L |-> s[n]]
  BY <1>3, <1>4
<1> QED  BY <1>0, <1>5

LEMMA SelectedAll ==
  ASSUME NEW S, NEW s \in Seq(S)
  PROVE  Selected(s, DOMAIN s) = s
<1>1. Orders(ByIndex(DOMAIN s), DOMAIN s)
  BY IndexOrder
<1>2. \A i, j \in DOMAIN s : j < i => j \in ByIndex(DOMAIN s)[i]
  BY DEF ByIndex
<1> QED  BY <1>1, <1>2, ArrangedAlready DEF Selected
=============================================================================
