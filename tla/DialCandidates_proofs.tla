------------------------ MODULE DialCandidates_proofs ------------------------
(***************************************************************************)
(* Proofs about DialCandidates: for every set of addresses, every bound    *)
(* and any number of admissions and rewrites.                              *)
(***************************************************************************)
EXTENDS DialCandidates, Arranging_proofs

InRankOrder(s) == \A i, j \in DOMAIN s : i < j => Rank(s[i]) <= Rank(s[j])
NoneOverlong(s) == \A i \in DOMAIN s : s[i].host \notin Overlong

LEMMA RankOfCandidate ==
  ASSUME NEW c \in Candidates
  PROVE  /\ c.host \in Hosts /\ c.kind \in 0 .. 3
         /\ FamilyRank[c.host] \in 0 .. 2
         /\ Rank(c) = 4 * FamilyRank[c.host] + c.kind /\ Rank(c) \in Nat
<1>1. c.host \in Hosts /\ c.kind \in 0 .. 3
  BY CandidateAssumption DEF Kinds
<1>2. FamilyRank[c.host] \in 0 .. 2
  BY <1>1, CandidateAssumption
<1> QED  BY <1>1, <1>2 DEF Rank

LEMMA RankIsPreference ==
  ASSUME NEW c \in Candidates, NEW d \in Candidates
  PROVE  AsPreferred(c, d) <=> Rank(c) <= Rank(d)
BY RankOfCandidate DEF AsPreferred

LEMMA LeastOfNaturals ==
  ASSUME NEW S, S \subseteq Nat, S # {}
  PROVE  \E m \in S : \A x \in S : m <= x
<1>1. PICK m \in S : \A x \in S : <<x, m>> \notin OpToRel(<, Nat)
  <2>1. IsWellFoundedOn(OpToRel(<, Nat), Nat)
    BY NatLessThanWellFounded
  <2> QED  BY <2>1, WFMin, Zenon
<1>2. ASSUME NEW x \in S PROVE m <= x
  <2>1. ~(x < m)
    BY <1>1 DEF OpToRel
  <2> QED  BY <2>1
<1> QED  BY <1>2

-----------------------------------------------------------------------------
(* sort_and_cap_addresses                                                   *)

LEMMA RankOrder ==
  ASSUME NEW s \in Seq(Candidates)
  PROVE  /\ Orders(ByRank(s), DOMAIN s)
         /\ \A i, j \in DOMAIN s :
              j \in ByRank(s)[i] <=> \/ Rank(s[j]) < Rank(s[i])
                                     \/ Rank(s[j]) = Rank(s[i]) /\ j < i
<1>1. \A i \in DOMAIN s : Rank(s[i]) \in Nat /\ i \in Nat
  BY RankOfCandidate
<1>2. /\ ByRank(s) \in [DOMAIN s -> SUBSET DOMAIN s]
      /\ \A i, j \in DOMAIN s :
           j \in ByRank(s)[i] <=> \/ Rank(s[j]) < Rank(s[i])
                                  \/ Rank(s[j]) = Rank(s[i]) /\ j < i
  BY DEF ByRank
<1>3. IsFiniteSet(DOMAIN s)
  BY ListIndices
<1>4. \A i \in DOMAIN s : i \notin ByRank(s)[i]
  BY <1>1, <1>2
<1>5. \A i, j, l \in DOMAIN s :
        (i \in ByRank(s)[j] /\ j \in ByRank(s)[l]) => i \in ByRank(s)[l]
  <2>1. SUFFICES ASSUME NEW i \in DOMAIN s, NEW j \in DOMAIN s, NEW l \in DOMAIN s,
                        i \in ByRank(s)[j], j \in ByRank(s)[l]
                 PROVE  i \in ByRank(s)[l]
    OBVIOUS
  <2>2. /\ Rank(s[i]) < Rank(s[j]) \/ (Rank(s[i]) = Rank(s[j]) /\ i < j)
        /\ Rank(s[j]) < Rank(s[l]) \/ (Rank(s[j]) = Rank(s[l]) /\ j < l)
    BY <1>2, <2>1
  <2>3. Rank(s[i]) < Rank(s[l]) \/ (Rank(s[i]) = Rank(s[l]) /\ i < l)
    BY <1>1, <2>2
  <2> QED  BY <1>2, <2>3
<1>6. \A i, j \in DOMAIN s : i = j \/ i \in ByRank(s)[j] \/ j \in ByRank(s)[i]
  <2>1. ASSUME NEW i \in DOMAIN s, NEW j \in DOMAIN s, i # j
        PROVE  \/ Rank(s[i]) < Rank(s[j]) \/ (Rank(s[i]) = Rank(s[j]) /\ i < j)
               \/ Rank(s[j]) < Rank(s[i]) \/ (Rank(s[j]) = Rank(s[i]) /\ j < i)
    BY <1>1, <2>1
  <2> QED  BY <1>2, <2>1
<1> QED  BY <1>2, <1>3, <1>4, <1>5, <1>6 DEF Orders

LEMMA SortedList ==
  ASSUME NEW s \in Seq(Candidates), NEW t, t = Sorted(s)
  PROVE  /\ t \in Seq(Candidates) /\ Len(t) = Len(s)
         /\ InRankOrder(t)
         /\ \A n \in DOMAIN t : \E i \in DOMAIN s : t[n] = s[i]
         /\ \A i \in DOMAIN s : \E n \in DOMAIN t : t[n] = s[i]
<1>1. /\ t \in Seq(Candidates) /\ Len(t) = Len(s)
      /\ \E at : /\ ComesFrom(at, t, s, DOMAIN s)
                 /\ \A m, n \in DOMAIN t : m < n => at[m] \in ByRank(s)[at[n]]
  <2>1. PICK I : I = DOMAIN s
    OBVIOUS
  <2>2. I \subseteq DOMAIN s /\ Orders(ByRank(s), I) /\ Cardinality(I) = Len(s)
    BY <2>1, RankOrder, ListIndices
  <2>3. t = Arranged(s, ByRank(s))
    BY DEF Sorted
  <2>4. /\ t \in Seq(Candidates) /\ Len(t) = Cardinality(I)
        /\ \E at : /\ ComesFrom(at, t, s, I)
                   /\ \A m, n \in DOMAIN t : m < n => at[m] \in ByRank(s)[at[n]]
    BY <2>2, <2>3, ArrangedList
  <2> QED  BY <2>1, <2>2, <2>4
<1>2. PICK at : /\ ComesFrom(at, t, s, DOMAIN s)
                /\ \A m, n \in DOMAIN t : m < n => at[m] \in ByRank(s)[at[n]]
  BY <1>1
<1>3. ASSUME NEW m \in DOMAIN t, NEW n \in DOMAIN t, m < n
      PROVE  Rank(t[m]) <= Rank(t[n])
  <2>1. at[m] \in DOMAIN s /\ at[n] \in DOMAIN s /\ at[m] \in ByRank(s)[at[n]]
    BY <1>2, <1>3 DEF ComesFrom
  <2>2. Rank(s[at[m]]) < Rank(s[at[n]]) \/ Rank(s[at[m]]) = Rank(s[at[n]])
    BY <2>1, RankOrder
  <2>3. Rank(s[at[m]]) \in Nat /\ Rank(s[at[n]]) \in Nat
    BY <2>1, RankOfCandidate
  <2> QED  BY <1>2, <2>2, <2>3 DEF ComesFrom
<1> QED  BY <1>1, <1>2, <1>3 DEF ComesFrom, InRankOrder

LEMMA SortedAlready ==
  ASSUME NEW s \in Seq(Candidates), InRankOrder(s)
  PROVE  Sorted(s) = s
<1>1. \A i, j \in DOMAIN s : j < i => j \in ByRank(s)[i]
  <2>1. \A i \in DOMAIN s : Rank(s[i]) \in Nat
    BY RankOfCandidate
  <2> QED  BY <2>1, RankOrder DEF InRankOrder
<1> QED  BY <1>1, RankOrder, ArrangedAlready DEF Sorted

LEMMA TruncatedList ==
  ASSUME NEW S, NEW s \in Seq(S), NEW n \in Nat, NEW t, t = Truncated(s, n)
  PROVE  /\ t \in Seq(S) /\ Len(t) <= n
         /\ DOMAIN t \subseteq DOMAIN s /\ \A i \in DOMAIN t : t[i] = s[i]
         /\ IF Len(s) <= n THEN t = s ELSE Len(t) = n
<1>1. CASE Len(s) <= n
  BY <1>1 DEF Truncated
<1>2. CASE ~(Len(s) <= n)
  <2>1. t = SubSeq(s, 1, n) /\ n <= Len(s)
    BY <1>2 DEF Truncated
  <2>2. t \in Seq(S) /\ Len(t) = n /\ \A i \in 1 .. n : t[i] = s[i]
    BY <2>1
  <2> QED  BY <1>2, <2>1, <2>2
<1> QED  BY <1>1, <1>2

LEMMA FitList ==
  ASSUME NEW s \in Seq(Candidates), NEW t, t = WithoutOverlong(s)
  PROVE  /\ t \in Seq(Candidates) /\ NoneOverlong(t)
         /\ \A n \in DOMAIN t : \E i \in DOMAIN s : t[n] = s[i]
         /\ \A i \in DOMAIN s : s[i].host \in Overlong \/ \E n \in DOMAIN t : t[n] = s[i]
<1> DEFINE I == {i \in DOMAIN s : s[i].host \notin Overlong}
<1>1. /\ t \in Seq(Candidates)
      /\ \E at : ComesFrom(at, t, s, I)
  BY SelectedList DEF WithoutOverlong
<1> QED  BY <1>1 DEF ComesFrom, NoneOverlong

(* What admission keeps: the most preferred of what is not overlong.        *)
LEMMA AdmittedList ==
  ASSUME NEW s \in Seq(Candidates), NEW t, t = Admitted(s)
  PROVE  /\ t \in Seq(Candidates) /\ Len(t) <= MaxAddresses
         /\ NoneOverlong(t) /\ InRankOrder(t)
         /\ \A n \in DOMAIN t : \E i \in DOMAIN s : t[n] = s[i]
         /\ \A i \in DOMAIN s :
              \/ s[i].host \in Overlong
              \/ \E n \in DOMAIN t : t[n] = s[i]
              \/ Len(t) = MaxAddresses /\ \A n \in DOMAIN t : Rank(t[n]) <= Rank(s[i])
<1>0. PICK f, g : f = WithoutOverlong(s) /\ g = Sorted(f)
  OBVIOUS
<1>1. /\ f \in Seq(Candidates) /\ NoneOverlong(f)
      /\ \A n \in DOMAIN f : \E i \in DOMAIN s : f[n] = s[i]
      /\ \A i \in DOMAIN s : s[i].host \in Overlong \/ \E n \in DOMAIN f : f[n] = s[i]
  BY <1>0, FitList
<1>2. /\ g \in Seq(Candidates) /\ InRankOrder(g)
      /\ \A n \in DOMAIN g : \E i \in DOMAIN f : g[n] = f[i]
      /\ \A i \in DOMAIN f : \E n \in DOMAIN g : g[n] = f[i]
  BY <1>0, <1>1, SortedList
<1>3. /\ t \in Seq(Candidates) /\ Len(t) <= MaxAddresses
      /\ DOMAIN t \subseteq DOMAIN g /\ \A n \in DOMAIN t : t[n] = g[n]
      /\ IF Len(g) <= MaxAddresses THEN t = g ELSE Len(t) = MaxAddresses
  <2>1. t = Truncated(g, MaxAddresses) /\ MaxAddresses \in Nat
    BY <1>0, CandidateAssumption DEF Admitted
  <2> QED  BY <1>2, <2>1, TruncatedList
<1>4. NoneOverlong(t) /\ InRankOrder(t)
  <2>1. InRankOrder(t)
    BY <1>2, <1>3 DEF InRankOrder
  <2>2. ASSUME NEW n \in DOMAIN t PROVE t[n].host \notin Overlong
    <3>1. n \in DOMAIN g /\ t[n] = g[n]
      BY <1>3
    <3>2. PICK j \in DOMAIN f : g[n] = f[j]
      BY <1>2, <3>1
    <3> QED  BY <1>1, <3>1, <3>2 DEF NoneOverlong
  <2> QED  BY <2>1, <2>2 DEF NoneOverlong
<1>5. ASSUME NEW n \in DOMAIN t PROVE \E i \in DOMAIN s : t[n] = s[i]
  <2>1. n \in DOMAIN g /\ t[n] = g[n]
    BY <1>3
  <2>2. PICK j \in DOMAIN f : g[n] = f[j]
    BY <1>2, <2>1
  <2>3. PICK i \in DOMAIN s : f[j] = s[i]
    BY <1>1
  <2> QED  BY <2>1, <2>2, <2>3
<1>6. ASSUME NEW i \in DOMAIN s, s[i].host \notin Overlong
      PROVE  \/ \E n \in DOMAIN t : t[n] = s[i]
             \/ Len(t) = MaxAddresses /\ \A n \in DOMAIN t : Rank(t[n]) <= Rank(s[i])
  <2>1. PICK k \in DOMAIN g : g[k] = s[i]
    BY <1>1, <1>2, <1>6
  <2>2. CASE k \in DOMAIN t
    BY <1>3, <2>1, <2>2
  <2>3. CASE k \notin DOMAIN t
    <3>1. Len(t) = MaxAddresses
      BY <1>3, <2>3
    <3>2. ASSUME NEW n \in DOMAIN t PROVE n < k
      BY <1>2, <1>3, <2>3
    <3> QED  BY <1>2, <1>3, <2>1, <3>1, <3>2 DEF InRankOrder
  <2> QED  BY <2>2, <2>3
<1> QED  BY <1>3, <1>4, <1>5, <1>6

(* Admission of an admitted list, reordered or not.                         *)
LEMMA AdmittedLength ==
  ASSUME NEW s \in Seq(Candidates), NoneOverlong(s), Len(s) <= MaxAddresses
  PROVE  Admitted(s) = Sorted(s) /\ Len(Admitted(s)) = Len(s)
<1>1. {i \in DOMAIN s : s[i].host \notin Overlong} = DOMAIN s
  BY DEF NoneOverlong
<1>2. WithoutOverlong(s) = s
  BY <1>1, SelectedAll DEF WithoutOverlong
<1>3. Len(Sorted(s)) = Len(s)
  BY SortedList
<1> QED  BY <1>2, <1>3 DEF Admitted, Truncated

LEMMA AdmittedAlready ==
  ASSUME NEW s \in Seq(Candidates), NoneOverlong(s), Len(s) <= MaxAddresses, InRankOrder(s)
  PROVE  Admitted(s) = s
BY AdmittedLength, SortedAlready

-----------------------------------------------------------------------------
(* dial_candidates                                                          *)

LEMMA DialableList ==
  ASSUME NEW s \in Seq(Candidates), NEW t, t = Dialable(s)
  PROVE  /\ t \in Seq(Candidates)
         /\ InRankOrder(s) => InRankOrder(t)
         /\ \A n \in DOMAIN t : IsDialable(t[n]) /\ \E i \in DOMAIN s : t[n] = s[i]
         /\ \A i \in DOMAIN s : IsDialable(s[i]) => \E n \in DOMAIN t : t[n] = s[i]
<1> DEFINE I == {i \in DOMAIN s : IsDialable(s[i])}
<1>1. /\ t \in Seq(Candidates)
      /\ \E at : ComesFrom(at, t, s, I) /\ \A m, n \in DOMAIN t : m < n => at[m] < at[n]
  BY SelectedList DEF Dialable
<1>2. PICK at : ComesFrom(at, t, s, I) /\ \A m, n \in DOMAIN t : m < n => at[m] < at[n]
  BY <1>1
<1>3. \A n \in DOMAIN t : at[n] \in DOMAIN s /\ t[n] = s[at[n]] /\ IsDialable(s[at[n]])
  BY <1>2 DEF ComesFrom
<1>4. \A i \in DOMAIN s : IsDialable(s[i]) => \E n \in DOMAIN t : t[n] = s[i]
  BY <1>2 DEF ComesFrom
<1>5. InRankOrder(s) => InRankOrder(t)
  BY <1>2, <1>3 DEF InRankOrder
<1> QED  BY <1>1, <1>3, <1>4, <1>5

(* Of a list in rank order the best spelling of each endpoint stays.        *)
BestOfEach(t, s) ==
  /\ t \in Seq(Candidates) /\ InRankOrder(t)
  /\ \A n \in DOMAIN t : \E i \in DOMAIN s : t[n] = s[i]
  /\ \A m, n \in DOMAIN t : m < n => Endpoint[t[m].host] # Endpoint[t[n].host]
  /\ \A i \in DOMAIN s : \E n \in DOMAIN t : /\ Endpoint[t[n].host] = Endpoint[s[i].host]
                                             /\ Rank(t[n]) <= Rank(s[i])
  /\ s # <<>> => t # <<>> /\ t[1] = s[1]

LEMMA DedupedList ==
  ASSUME NEW s \in Seq(Candidates), InRankOrder(s), NEW t, t = Deduped(s)
  PROVE  BestOfEach(t, s)
<1> DEFINE End(i) == Endpoint[s[i].host]
           I == {i \in DOMAIN s : \A j \in DOMAIN s : j < i => End(j) # End(i)}
<1>1. /\ t \in Seq(Candidates)
      /\ \E at : ComesFrom(at, t, s, I) /\ \A m, n \in DOMAIN t : m < n => at[m] < at[n]
  BY SelectedList DEF Deduped
<1>2. PICK at : ComesFrom(at, t, s, I) /\ \A m, n \in DOMAIN t : m < n => at[m] < at[n]
  BY <1>1
<1>3. \A n \in DOMAIN t : at[n] \in I /\ at[n] \in DOMAIN s /\ t[n] = s[at[n]]
  BY <1>2 DEF ComesFrom
<1>4. \A i \in I : \E n \in DOMAIN t : at[n] = i
  BY <1>2 DEF ComesFrom
<1>5. InRankOrder(t)
  BY <1>2, <1>3 DEF InRankOrder
<1>6. ASSUME NEW m \in DOMAIN t, NEW n \in DOMAIN t, m < n
      PROVE  Endpoint[t[m].host] # Endpoint[t[n].host]
  <2>1. at[m] < at[n] /\ at[m] \in DOMAIN s /\ at[n] \in I
    BY <1>2, <1>3, <1>6
  <2>2. End(at[m]) # End(at[n])
    BY <2>1
  <2> QED  BY <1>3, <2>2
<1>7. ASSUME NEW i \in DOMAIN s
      PROVE  \E n \in DOMAIN t : /\ Endpoint[t[n].host] = Endpoint[s[i].host]
                                 /\ Rank(t[n]) <= Rank(s[i])
  <2> DEFINE same == {j \in DOMAIN s : End(j) = End(i)}
  <2>1. PICK f \in same : \A j \in same : f <= j
    <3>1. same \subseteq Nat /\ i \in same
      OBVIOUS
    <3> HIDE DEF same
    <3> QED  BY <3>1, LeastOfNaturals
  <2>2. f \in DOMAIN s /\ End(f) = End(i) /\ f <= i
    BY <2>1
  <2>3. f \in I
    <3>1. ASSUME NEW j \in DOMAIN s, j < f PROVE End(j) # End(f)
      <4>1. j \notin same
        BY <2>1, <3>1
      <4> QED  BY <2>2, <4>1
    <3> QED  BY <2>2, <3>1
  <2>4. Rank(s[f]) <= Rank(s[i])
    <3>1. Rank(s[i]) \in Nat /\ f \in Nat /\ i \in Nat
      BY <2>2, RankOfCandidate
    <3> QED  BY <2>2, <3>1 DEF InRankOrder
  <2>5. PICK n \in DOMAIN t : at[n] = f
    BY <1>4, <2>3
  <2> QED  BY <1>3, <2>2, <2>4, <2>5
<1>8. ASSUME s # <<>> PROVE t # <<>> /\ t[1] = s[1]
  <2>1. 1 \in DOMAIN s /\ \A j \in DOMAIN s : ~(j < 1)
    BY <1>8
  <2>2. 1 \in I
    BY <2>1
  <2>3. PICK n \in DOMAIN t : at[n] = 1
    BY <1>4, <2>2
  <2>4. n \in 1 .. Len(t) /\ 1 \in DOMAIN t
    BY <1>1, <2>3
  <2>5. ~(1 < n)
    <3>1. SUFFICES ASSUME 1 < n PROVE FALSE
      OBVIOUS
    <3>2. at[1] < 1 /\ at[1] \in DOMAIN s
      BY <1>2, <1>3, <2>3, <2>4, <3>1
    <3> QED  BY <3>2, <2>1
  <2>6. n = 1
    BY <2>4, <2>5
  <2> QED  BY <1>3, <2>3, <2>4, <2>6
<1> QED  BY <1>1, <1>3, <1>5, <1>6, <1>7, <1>8 DEF BestOfEach

(* The first MaxDial of a list, the last place given to its first fallback  *)
(* when there is one and none is among them.                                *)
LEMMA ReservedList ==
  ASSUME NEW s \in Seq(Candidates), NEW t, t = Reserved(s)
  PROVE  /\ t \in Seq(Candidates) /\ Len(t) <= MaxDial
         /\ Len(t) < MaxDial => t = s
         /\ \E at \in [DOMAIN t -> DOMAIN s] :
              /\ \A n \in DOMAIN t : t[n] = s[at[n]] /\ (n < MaxDial => at[n] = n)
              /\ \A m, n \in DOMAIN t : m < n => at[m] < at[n]
              /\ \A j \in DOMAIN s :
                   ~IsIpv6(s[j]) => \E n \in DOMAIN t : ~IsIpv6(t[n]) /\ at[n] <= j
<1> DEFINE I == {i \in DOMAIN s : ~IsIpv6(s[i])}
           onlyIpv6 == \A i \in 1 .. MaxDial : IsIpv6(s[i])
<1>0. MaxDial \in Nat /\ MaxDial >= 1 /\ DOMAIN s = 1 .. Len(s) /\ Len(s) \in Nat
  BY CandidateAssumption
<1>1. PICK fallbacks : fallbacks = Selected(s, I)
  OBVIOUS
<1>2. /\ fallbacks \in Seq(Candidates)
      /\ \E at : /\ ComesFrom(at, fallbacks, s, I)
                 /\ \A m, n \in DOMAIN fallbacks : m < n => at[m] < at[n]
  BY <1>1, SelectedList
<1>3. CASE Len(s) > MaxDial /\ onlyIpv6 /\ fallbacks # <<>>
  <2>1. PICK by : /\ ComesFrom(by, fallbacks, s, I)
                  /\ \A m, n \in DOMAIN fallbacks : m < n => by[m] < by[n]
    BY <1>2
  <2>2. 1 \in DOMAIN fallbacks /\ Head(fallbacks) = fallbacks[1]
    BY <1>2, <1>3
  <2>3. PICK f \in DOMAIN s : f = by[1] /\ fallbacks[1] = s[f] /\ ~IsIpv6(s[f])
    BY <2>1, <2>2 DEF ComesFrom
  <2>4. ASSUME NEW j \in DOMAIN s, ~IsIpv6(s[j]) PROVE f <= j
    <3>1. PICK n \in DOMAIN fallbacks : by[n] = j
      BY <2>1, <2>4 DEF ComesFrom
    <3>2. n = 1 \/ 1 < n
      BY <1>2, <3>1
    <3> QED  BY <2>1, <2>2, <2>3, <3>1, <3>2
  <2>5. f > MaxDial
    <3>1. f \notin 1 .. MaxDial
      BY <1>3, <2>3
    <3> QED  BY <1>0, <3>1
  <2>6. PICK u : u = Truncated(s, MaxDial - 1)
    OBVIOUS
  <2>7. /\ u \in Seq(Candidates) /\ Len(u) = MaxDial - 1
        /\ \A i \in DOMAIN u : u[i] = s[i]
    <3>1. MaxDial - 1 \in Nat /\ ~(Len(s) <= MaxDial - 1)
      BY <1>0, <1>3
    <3> QED  BY <2>6, <3>1, TruncatedList
  <2>8. t = Append(u, s[f])
    BY <1>1, <1>3, <2>2, <2>3, <2>6 DEF Reserved
  <2>9. /\ t \in Seq(Candidates) /\ Len(t) = MaxDial
        /\ \A n \in 1 .. MaxDial - 1 : t[n] = s[n]
        /\ t[MaxDial] = s[f]
    BY <1>0, <2>7, <2>8
  <2> DEFINE at == [n \in DOMAIN t |-> IF n < MaxDial THEN n ELSE f]
  <2>10. at \in [DOMAIN t -> DOMAIN s]
    BY <1>0, <1>3, <2>9
  <2>11. \A n \in DOMAIN t : t[n] = s[at[n]] /\ (n < MaxDial => at[n] = n)
    BY <1>0, <2>9
  <2>12. \A m, n \in DOMAIN t : m < n => at[m] < at[n]
    BY <1>0, <2>5, <2>9
  <2>13. MaxDial \in DOMAIN t /\ ~IsIpv6(t[MaxDial]) /\ at[MaxDial] = f
    BY <1>0, <2>3, <2>9
  <2> HIDE DEF at
  <2>14. \A j \in DOMAIN s : ~IsIpv6(s[j]) => \E n \in DOMAIN t : ~IsIpv6(t[n]) /\ at[n] <= j
    BY <2>4, <2>13
  <2>15. Len(t) <= MaxDial /\ ~(Len(t) < MaxDial)
    BY <1>0, <2>9
  <2> QED  BY <2>9, <2>10, <2>11, <2>12, <2>14, <2>15
<1>4. CASE ~(Len(s) > MaxDial /\ onlyIpv6 /\ fallbacks # <<>>)
  <2>1. t = Truncated(s, MaxDial)
    BY <1>1, <1>4 DEF Reserved
  <2>2. /\ t \in Seq(Candidates) /\ Len(t) <= MaxDial
        /\ DOMAIN t \subseteq DOMAIN s /\ \A i \in DOMAIN t : t[i] = s[i]
        /\ IF Len(s) <= MaxDial THEN t = s ELSE Len(t) = MaxDial
    BY <1>0, <2>1, TruncatedList
  <2> DEFINE at == [n \in DOMAIN t |-> n]
  <2>3. /\ at \in [DOMAIN t -> DOMAIN s]
        /\ \A n \in DOMAIN t : t[n] = s[at[n]] /\ (n < MaxDial => at[n] = n)
        /\ \A m, n \in DOMAIN t : m < n => at[m] < at[n]
        /\ \A n \in DOMAIN t : at[n] = n
    BY <2>2
  <2> HIDE DEF at
  <2>4. ASSUME NEW j \in DOMAIN s, ~IsIpv6(s[j])
        PROVE  \E n \in DOMAIN t : ~IsIpv6(t[n]) /\ at[n] <= j
    <3>1. CASE j \in DOMAIN t
      BY <2>2, <2>3, <2>4, <3>1
    <3>2. CASE j \notin DOMAIN t
      <4>1. Len(s) > MaxDial /\ DOMAIN t = 1 .. MaxDial /\ MaxDial < j
        BY <1>0, <2>2, <3>2
      <4>2. j \in I
        BY <2>4
      <4>3. fallbacks # <<>>
        BY <1>2, <4>2 DEF ComesFrom
      <4>4. PICK i \in 1 .. MaxDial : ~IsIpv6(s[i])
        BY <1>4, <4>1, <4>3
      <4>5. i \in DOMAIN t /\ i <= j
        BY <1>0, <4>1, <4>4
      <4> QED  BY <2>2, <2>3, <4>4, <4>5
    <3> QED  BY <3>1, <3>2
  <2>5. Len(t) < MaxDial => t = s
    BY <1>0, <2>2
  <2> QED  BY <2>2, <2>3, <2>4, <2>5
<1> QED  BY <1>3, <1>4

LEMMA JoinedList ==
  ASSUME NEW a \in Seq(Candidates), NEW b \in Seq(Candidates), NEW r, r = a \o b
  PROVE  /\ r \in Seq(Candidates)
         /\ Len(r) = Len(a) + Len(b)
         /\ \A n \in 1 .. Len(a) + Len(b) : r[n] = IF n <= Len(a) THEN a[n] ELSE b[n - Len(a)]
<1>1. /\ a \o b \in Seq(Candidates)
      /\ Len(a \o b) = Len(a) + Len(b)
      /\ \A n \in 1 .. Len(a) + Len(b) :
           (a \o b)[n] = IF n <= Len(a) THEN a[n] ELSE b[n - Len(a)]
  BY ConcatProperties
<1> QED  BY <1>1, Zenon

(* t is c followed by r; r is s without its i-th element.                   *)
Fronted(t, c, r) ==
  /\ t \in Seq(Candidates) /\ Len(t) = Len(r) + 1 /\ t[1] = c
  /\ \A n \in 2 .. Len(r) + 1 : t[n] = r[n - 1]
WithoutOne(r, s, i) ==
  /\ r \in Seq(Candidates) /\ Len(r) = Len(s) - 1
  /\ \A n \in 1 .. Len(s) - 1 : r[n] = IF n < i THEN s[n] ELSE s[n + 1]

SameElements(t, s) ==
  /\ t \in Seq(Candidates) /\ Len(t) = Len(s)
  /\ \A n \in DOMAIN t : \E j \in DOMAIN s : t[n] = s[j]
  /\ \A j \in DOMAIN s : \E n \in DOMAIN t : t[n] = s[j]

LEMMA FrontedList ==
  ASSUME NEW c \in Candidates, NEW r \in Seq(Candidates)
  PROVE  Fronted(<<c>> \o r, c, r)
BY DEF Fronted

LEMMA RemovedList ==
  ASSUME NEW s \in Seq(Candidates), NEW i \in DOMAIN s, NEW r, r = RemoveAt(s, i)
  PROVE  WithoutOne(r, s, i)
<1>1. i \in 1 .. Len(s) /\ Len(s) \in Nat
  OBVIOUS
<1>2. PICK a, b : /\ a = SubSeq(s, 1, i - 1) /\ b = SubSeq(s, i + 1, Len(s))
                  /\ r = a \o b
  BY DEF RemoveAt
<1>3. a \in Seq(Candidates) /\ Len(a) = i - 1 /\ \A n \in 1 .. i - 1 : a[n] = s[n]
  <2>1. 1 \in 1 .. Len(s) + 1 /\ i - 1 \in 0 .. Len(s)
    BY <1>1
  <2> QED  BY <1>1, <1>2, <2>1, SubSeqProperties
<1>4. /\ b \in Seq(Candidates) /\ Len(b) = Len(s) - i
      /\ \A n \in 1 .. Len(s) - i : b[n] = s[n + i]
  <2>1. i + 1 \in 1 .. Len(s) + 1 /\ Len(s) \in 0 .. Len(s)
    BY <1>1
  <2>2. /\ b \in Seq(Candidates)
        /\ Len(b) = IF i + 1 <= Len(s) THEN Len(s) - (i + 1) + 1 ELSE 0
        /\ \A n \in 1 .. Len(s) - (i + 1) + 1 : b[n] = s[i + 1 + n - 1]
    BY <1>2, <2>1, SubSeqProperties
  <2>3. Len(s) - (i + 1) + 1 = Len(s) - i /\ \A n \in Int : i + 1 + n - 1 = n + i
    BY <1>1
  <2>4. Len(b) = Len(s) - i
    BY <1>1, <2>2
  <2>5. ASSUME NEW n \in 1 .. Len(s) - i PROVE b[n] = s[n + i]
    <3>1. PICK k : k = i + 1 + n - 1
      OBVIOUS
    <3>2. b[n] = s[k] /\ k = n + i
      <4>1. n \in 1 .. Len(s) - (i + 1) + 1
        BY <1>1, <2>3, <2>5
      <4>2. b[n] = s[i + 1 + n - 1]
        BY <2>2, <4>1
      <4> QED  BY <1>1, <2>5, <3>1, <4>2
    <3> QED  BY <3>2
  <2> QED  BY <2>2, <2>4, <2>5
<1>5. /\ r \in Seq(Candidates) /\ Len(r) = Len(s) - 1
      /\ \A n \in 1 .. Len(s) - 1 : r[n] = IF n < i THEN s[n] ELSE s[n + 1]
  <2>1. /\ r \in Seq(Candidates) /\ Len(r) = Len(a) + Len(b)
        /\ \A n \in 1 .. Len(a) + Len(b) :
             r[n] = IF n <= Len(a) THEN a[n] ELSE b[n - Len(a)]
    <3>1. a \in Seq(Candidates) /\ b \in Seq(Candidates) /\ r = a \o b
      BY <1>2, <1>3, <1>4
    <3> QED  BY <3>1, JoinedList
  <2>2. Len(a) + Len(b) = Len(s) - 1
    BY <1>1, <1>3, <1>4
  <2>3. ASSUME NEW n \in 1 .. Len(s) - 1, ~(n < i) PROVE r[n] = s[n + 1]
    <3>1. PICK m \in Int : m = n - (i - 1)
      BY <1>1
    <3>2. m \in 1 .. Len(s) - i /\ m + i = n + 1 /\ ~(n <= i - 1)
      BY <1>1, <2>3, <3>1
    <3>3. r[n] = b[m]
      BY <1>3, <2>1, <2>2, <3>1, <3>2
    <3> QED  BY <1>4, <3>2, <3>3
  <2>4. ASSUME NEW n \in 1 .. Len(s) - 1, n < i PROVE r[n] = s[n]
    <3>1. n <= i - 1 /\ n \in 1 .. i - 1
      BY <1>1, <2>4
    <3> QED  BY <1>3, <2>1, <2>2, <3>1
  <2> QED  BY <2>1, <2>2, <2>3, <2>4
<1> QED  BY <1>5 DEF WithoutOne

LEMMA MovedList ==
  ASSUME NEW s \in Seq(Candidates), NEW i \in DOMAIN s,
         NEW r, WithoutOne(r, s, i), NEW t, Fronted(t, s[i], r)
  PROVE  SameElements(t, s)
<1>1. i \in 1 .. Len(s) /\ Len(s) \in Nat
  OBVIOUS
<1>2. t \in Seq(Candidates) /\ Len(t) = Len(s) /\ t[1] = s[i]
  BY <1>1 DEF WithoutOne, Fronted
<1>3. ASSUME NEW n \in 2 .. Len(s) PROVE t[n] = IF n - 1 < i THEN s[n - 1] ELSE s[n]
  <2>1. PICK m \in 1 .. Len(s) - 1 : m = n - 1 /\ m + 1 = n
    BY <1>1, <1>3
  <2>2. t[n] = r[n - 1]
    BY <1>1 DEF WithoutOne, Fronted
  <2>3. r[m] = IF m < i THEN s[m] ELSE s[m + 1]
    BY <2>1 DEF WithoutOne
  <2> QED  BY <2>1, <2>2, <2>3
<1>4. ASSUME NEW n \in DOMAIN t PROVE \E j \in DOMAIN s : t[n] = s[j]
  <2>1. n \in 1 .. Len(s) /\ DOMAIN s = 1 .. Len(s)
    BY <1>2
  <2>2. CASE n = 1
    BY <1>2, <2>2
  <2>3. CASE n # 1
    <3>1. n \in 2 .. Len(s) /\ n - 1 \in 1 .. Len(s)
      BY <1>1, <2>1, <2>3
    <3>2. t[n] = s[n - 1] \/ t[n] = s[n]
      BY <1>3, <3>1
    <3> QED  BY <2>1, <3>1, <3>2
  <2> QED  BY <2>2, <2>3
<1>5. ASSUME NEW j \in DOMAIN s PROVE \E n \in DOMAIN t : t[n] = s[j]
  <2>1. j \in 1 .. Len(s) /\ DOMAIN t = 1 .. Len(s)
    BY <1>2
  <2>2. CASE j = i
    <3>1. 1 \in DOMAIN t /\ t[1] = s[j]
      BY <1>1, <1>2, <2>1, <2>2
    <3> QED  BY <3>1
  <2>3. CASE j < i
    <3>1. PICK n \in 2 .. Len(s) : n - 1 = j
      <4>1. j + 1 \in 2 .. Len(s) /\ (j + 1) - 1 = j
        BY <1>1, <2>1, <2>3
      <4> QED  BY <4>1
    <3>2. t[n] = s[j]
      BY <1>3, <2>3, <3>1
    <3>3. n \in DOMAIN t
      BY <2>1
    <3> QED  BY <3>2, <3>3
  <2>4. CASE i < j
    <3>1. j \in 2 .. Len(s) /\ ~(j - 1 < i)
      BY <1>1, <2>1, <2>4
    <3>2. t[j] = s[j]
      BY <1>3, <3>1
    <3> QED  BY <2>1, <3>2
  <2> QED  BY <1>1, <2>1, <2>2, <2>3, <2>4
<1> QED  BY <1>2, <1>4, <1>5 DEF SameElements

(* Moving one element to the front keeps the elements.                      *)
LEMMA RewrittenList ==
  ASSUME NEW s \in Seq(Candidates), NEW i \in DOMAIN s,
         NEW t, t = <<s[i]>> \o RemoveAt(s, i)
  PROVE  SameElements(t, s)
<1>1. PICK r : r = RemoveAt(s, i)
  OBVIOUS
<1>2. WithoutOne(r, s, i)
  BY <1>1, RemovedList
<1>3. s[i] \in Candidates /\ r \in Seq(Candidates)
  BY <1>2 DEF WithoutOne
<1>4. Fronted(<<s[i]>> \o r, s[i], r)
  BY <1>3, FrontedList
<1>5. Fronted(t, s[i], r)
  BY <1>1, <1>4
<1> QED  BY <1>2, <1>5, MovedList

-----------------------------------------------------------------------------
(* The invariant.  Before the first admission the list is what was          *)
(* collected; from then on no step loses an address, and the list is sorted *)
(* until somebody reorders it.                                              *)
SettledInOrder == settled => admitted /\ InRankOrder(addresses)
NotYetAdmitted == ~admitted => addresses = collected

Inv == TypeOK /\ AdmissionKeepsTheBest /\ SettledInOrder /\ NotYetAdmitted

(* Whatever keeps the elements of an admitted list keeps what admission     *)
(* promised.                                                                *)
LEMMA KeepsTheBest ==
  ASSUME Inv, admitted, admitted', UNCHANGED collected, SameElements(addresses', addresses)
  PROVE  /\ Len(addresses') <= MaxAddresses /\ NoneOverlong(addresses')
         /\ AdmissionKeepsTheBest'
<1>1. /\ addresses \in Seq(Candidates) /\ Len(addresses) <= MaxAddresses
      /\ \A j \in DOMAIN addresses : addresses[j].host \notin Overlong
  BY DEF Inv, TypeOK
<1>2. /\ addresses' \in Seq(Candidates) /\ Len(addresses') = Len(addresses)
      /\ \A n \in DOMAIN addresses' : \E j \in DOMAIN addresses : addresses'[n] = addresses[j]
      /\ \A j \in DOMAIN addresses : \E n \in DOMAIN addresses' : addresses'[n] = addresses[j]
  BY DEF SameElements
<1>3. NoneOverlong(addresses')
  BY <1>1, <1>2 DEF NoneOverlong
<1>4. ASSUME NEW i \in DOMAIN collected, collected[i].host \notin Overlong
      PROVE  \/ \E n \in DOMAIN addresses' : addresses'[n] = collected[i]
             \/ /\ Len(addresses') = MaxAddresses
                /\ \A n \in DOMAIN addresses' : AsPreferred(addresses'[n], collected[i])
  <2>1. \/ \E j \in DOMAIN addresses : addresses[j] = collected[i]
        \/ /\ Len(addresses) = MaxAddresses
           /\ \A j \in DOMAIN addresses : AsPreferred(addresses[j], collected[i])
    BY <1>4 DEF Inv, AdmissionKeepsTheBest
  <2>2. CASE \E j \in DOMAIN addresses : addresses[j] = collected[i]
    BY <1>2, <2>2
  <2>3. CASE /\ Len(addresses) = MaxAddresses
             /\ \A j \in DOMAIN addresses : AsPreferred(addresses[j], collected[i])
    <3>1. ASSUME NEW n \in DOMAIN addresses' PROVE AsPreferred(addresses'[n], collected[i])
      <4>1. PICK j \in DOMAIN addresses : addresses'[n] = addresses[j]
        BY <1>2
      <4> QED  BY <2>3, <4>1
    <3> QED  BY <1>2, <2>3, <3>1
  <2> QED  BY <2>1, <2>2, <2>3
<1>5. AdmissionKeepsTheBest'
  BY <1>4 DEF AdmissionKeepsTheBest
<1> QED  BY <1>1, <1>2, <1>3, <1>5

LEMMA InitInv == Init => Inv
<1> SUFFICES ASSUME Init PROVE Inv
  OBVIOUS
<1>1. collected = <<>> /\ addresses = <<>> /\ admitted = FALSE /\ settled = FALSE
  BY DEF Init
<1>2. TypeOK
  <2>1. collected \in Seq(Candidates) /\ addresses \in Seq(Candidates)
    BY <1>1
  <2>2. admitted \in BOOLEAN /\ settled \in BOOLEAN /\ ~admitted
    BY <1>1
  <2> QED  BY <2>1, <2>2 DEF TypeOK
<1> QED  BY <1>1, <1>2 DEF Inv, AdmissionKeepsTheBest, SettledInOrder, NotYetAdmitted

LEMMA CollectInv ==
  ASSUME Inv, NEW c \in Candidates, Collect(c)
  PROVE  Inv'
<1>1. /\ ~admitted /\ ~settled /\ addresses = collected
      /\ collected \in Seq(Candidates)
  <2>1. ~admitted /\ collected \in Seq(Candidates)
    BY DEF Inv, TypeOK, Collect
  <2> QED  BY <2>1 DEF Inv, SettledInOrder, NotYetAdmitted
<1>2. /\ collected' = Append(collected, c) /\ addresses' = Append(addresses, c)
      /\ admitted' = admitted /\ settled' = settled
  BY DEF Collect
<1>3. ~admitted' /\ ~settled' /\ addresses' = collected' /\ collected' \in Seq(Candidates)
  BY <1>1, <1>2
<1>4. TypeOK'
  <2>1. admitted' \in BOOLEAN /\ settled' \in BOOLEAN
    BY <1>2 DEF Inv, TypeOK
  <2> QED  BY <1>3, <2>1 DEF TypeOK
<1> QED  BY <1>3, <1>4 DEF Inv, AdmissionKeepsTheBest, SettledInOrder, NotYetAdmitted

LEMMA AdmitInv ==
  ASSUME Inv, Admit
  PROVE  Inv'
<1>1. /\ addresses \in Seq(Candidates) /\ collected \in Seq(Candidates)
      /\ addresses' = Admitted(addresses) /\ collected' = collected
      /\ admitted' = TRUE /\ settled' = TRUE
  BY DEF Inv, TypeOK, Admit
<1>2. /\ addresses' \in Seq(Candidates) /\ Len(addresses') <= MaxAddresses
      /\ NoneOverlong(addresses') /\ InRankOrder(addresses')
      /\ \A i \in DOMAIN addresses :
           \/ addresses[i].host \in Overlong
           \/ \E n \in DOMAIN addresses' : addresses'[n] = addresses[i]
           \/ /\ Len(addresses') = MaxAddresses
              /\ \A n \in DOMAIN addresses' : Rank(addresses'[n]) <= Rank(addresses[i])
  BY <1>1, AdmittedList
<1>3. TypeOK'
  BY <1>1, <1>2 DEF TypeOK, NoneOverlong
<1>4. SettledInOrder' /\ NotYetAdmitted'
  BY <1>1, <1>2 DEF SettledInOrder, NotYetAdmitted
<1>5. AdmissionKeepsTheBest'
  <2>1. CASE ~admitted
    <3>1. addresses = collected
      BY <2>1 DEF Inv, NotYetAdmitted
    <3>2. ASSUME NEW i \in DOMAIN collected, NEW n \in DOMAIN addresses',
                 Rank(addresses'[n]) <= Rank(addresses[i])
          PROVE  AsPreferred(addresses'[n], collected[i])
      <4>1. addresses'[n] \in Candidates /\ collected[i] \in Candidates
        BY <1>1, <1>2
      <4> QED  BY <3>1, <3>2, <4>1, RankIsPreference
    <3> QED  BY <1>1, <1>2, <3>1, <3>2 DEF AdmissionKeepsTheBest
  <2>2. CASE admitted
    <3>1. NoneOverlong(addresses) /\ Len(addresses) <= MaxAddresses
      BY <2>2 DEF Inv, TypeOK, NoneOverlong
    <3>2. addresses' = Sorted(addresses)
      BY <1>1, <3>1, AdmittedLength
    <3>3. SameElements(addresses', addresses)
      BY <1>1, <3>2, SortedList DEF SameElements
    <3> QED  BY <1>1, <2>2, <3>3, KeepsTheBest
  <2> QED  BY <2>1, <2>2
<1> QED  BY <1>3, <1>4, <1>5 DEF Inv

LEMMA RewriteInv ==
  ASSUME Inv, NEW i \in 1 .. MaxAddresses, Rewrite(i)
  PROVE  Inv'
<1>1. /\ addresses \in Seq(Candidates) /\ i \in DOMAIN addresses
      /\ admitted /\ admitted' /\ admitted' = admitted /\ ~settled' /\ settled' \in BOOLEAN
      /\ collected' = collected /\ collected \in Seq(Candidates)
      /\ addresses' = <<addresses[i]>> \o RemoveAt(addresses, i)
  BY DEF Inv, TypeOK, Rewrite
<1>2. SameElements(addresses', addresses)
  BY <1>1, RewrittenList
<1>3. /\ Len(addresses') <= MaxAddresses /\ NoneOverlong(addresses')
      /\ AdmissionKeepsTheBest'
  BY <1>1, <1>2, KeepsTheBest
<1>4. TypeOK'
  <2>1. addresses' \in Seq(Candidates)
    BY <1>2 DEF SameElements
  <2>2. admitted' \in BOOLEAN
    BY <1>1 DEF Inv, TypeOK
  <2> QED  BY <1>1, <1>3, <2>1, <2>2 DEF TypeOK, NoneOverlong
<1> QED  BY <1>1, <1>3, <1>4 DEF Inv, SettledInOrder, NotYetAdmitted

LEMMA StutterInv ==
  ASSUME Inv, UNCHANGED vars
  PROVE  Inv'
BY DEF Inv, TypeOK, AdmissionKeepsTheBest, SettledInOrder, NotYetAdmitted, InRankOrder,
       Rank, AsPreferred, vars

(* Every reachable list satisfies the invariant.                            *)
THEOREM ListInvariant == Spec => []Inv
<1>1. Init => Inv
  BY InitInv
<1>2. Inv /\ [Next]_vars => Inv'
  <2> SUFFICES ASSUME Inv, [Next]_vars PROVE Inv'
    OBVIOUS
  <2>1. ASSUME NEW c \in Candidates, Collect(c) PROVE Inv'
    BY <2>1, CollectInv
  <2>2. CASE Admit
    BY <2>2, AdmitInv
  <2>3. ASSUME NEW i \in 1 .. MaxAddresses, Rewrite(i) PROVE Inv'
    BY <2>3, RewriteInv
  <2>4. CASE UNCHANGED vars
    BY <2>4, StutterInv
  <2> QED  BY <2>1, <2>2, <2>3, <2>4 DEF Next
<1> QED  BY <1>1, <1>2, PTL DEF Spec

(* TypeOK: an admitted list stays capped and holds no overlong host.        *)
THEOREM Types == Spec => []TypeOK
BY ListInvariant, PTL DEF Inv

(* AdmissionKeepsTheBest: of what was collected only overlong hosts and     *)
(* the least preferred of too many are ever missing.                        *)
THEOREM BestAreKept == Spec => []AdmissionKeepsTheBest
BY ListInvariant, PTL DEF Inv

(* HopsAgree: a list nobody reordered since its last admission is not       *)
(* changed by the next one, so every decoding and every store agree on it.  *)
THEOREM Agreement == Spec => HopsAgree
<1>1. Inv /\ [Next]_vars => [(settled /\ Admit) => addresses' = addresses]_vars
  <2> SUFFICES ASSUME Inv, settled, Admit PROVE addresses' = addresses
    OBVIOUS
  <2>1. admitted /\ InRankOrder(addresses)
    BY DEF Inv, SettledInOrder
  <2>2. addresses \in Seq(Candidates) /\ NoneOverlong(addresses) /\ Len(addresses) <= MaxAddresses
    BY <2>1 DEF Inv, TypeOK, NoneOverlong
  <2>3. addresses' = Admitted(addresses)
    BY DEF Admit
  <2> QED  BY <2>1, <2>2, <2>3, AdmittedAlready
<1> QED  BY <1>1, ListInvariant, PTL DEF Spec, HopsAgree

-----------------------------------------------------------------------------
(* What is dialed, of any list of candidates whatever its order.            *)

(* The deduplicated list before the cap: dialable candidates of the list in *)
(* rank order, one for each endpoint, the best of those that name it.       *)
LEMMA PreferredList ==
  ASSUME NEW s \in Seq(Candidates)
  PROVE  \E d \in Seq(Candidates) :
           /\ DialList(s) = Reserved(d)
           /\ InRankOrder(d)
           /\ \A n \in DOMAIN d : IsDialable(d[n]) /\ \E j \in DOMAIN s : d[n] = s[j]
           /\ \A m, n \in DOMAIN d : m < n => Endpoint[d[m].host] # Endpoint[d[n].host]
           /\ \A j \in DOMAIN s :
                IsDialable(s[j]) => \E n \in DOMAIN d : /\ Endpoint[d[n].host] = Endpoint[s[j].host]
                                                        /\ Rank(d[n]) <= Rank(s[j])
<1>1. PICK f, g, d : f = Dialable(s) /\ g = Sorted(f) /\ d = Deduped(g)
  OBVIOUS
<1>2. /\ f \in Seq(Candidates)
      /\ \A n \in DOMAIN f : IsDialable(f[n]) /\ \E j \in DOMAIN s : f[n] = s[j]
      /\ \A j \in DOMAIN s : IsDialable(s[j]) => \E n \in DOMAIN f : f[n] = s[j]
  BY <1>1, DialableList
<1>3. /\ g \in Seq(Candidates) /\ InRankOrder(g)
      /\ \A n \in DOMAIN g : \E i \in DOMAIN f : g[n] = f[i]
      /\ \A i \in DOMAIN f : \E n \in DOMAIN g : g[n] = f[i]
  BY <1>1, <1>2, SortedList
<1>4. /\ d \in Seq(Candidates) /\ InRankOrder(d)
      /\ \A n \in DOMAIN d : \E i \in DOMAIN g : d[n] = g[i]
      /\ \A m, n \in DOMAIN d : m < n => Endpoint[d[m].host] # Endpoint[d[n].host]
      /\ \A i \in DOMAIN g : \E n \in DOMAIN d : /\ Endpoint[d[n].host] = Endpoint[g[i].host]
                                                 /\ Rank(d[n]) <= Rank(g[i])
  <2>1. BestOfEach(d, g)
    BY <1>1, <1>3, DedupedList
  <2> QED  BY <2>1 DEF BestOfEach
<1>5. ASSUME NEW n \in DOMAIN d PROVE IsDialable(d[n]) /\ \E j \in DOMAIN s : d[n] = s[j]
  <2>1. PICK i \in DOMAIN g : d[n] = g[i]
    BY <1>4
  <2>2. PICK l \in DOMAIN f : g[i] = f[l]
    BY <1>3
  <2> QED  BY <1>2, <2>1, <2>2
<1>6. ASSUME NEW j \in DOMAIN s, IsDialable(s[j])
      PROVE  \E n \in DOMAIN d : /\ Endpoint[d[n].host] = Endpoint[s[j].host]
                                 /\ Rank(d[n]) <= Rank(s[j])
  <2>1. PICK l \in DOMAIN f : f[l] = s[j]
    BY <1>2, <1>6
  <2>2. PICK i \in DOMAIN g : g[i] = f[l]
    BY <1>3
  <2>3. PICK n \in DOMAIN d : /\ Endpoint[d[n].host] = Endpoint[g[i].host]
                              /\ Rank(d[n]) <= Rank(g[i])
    BY <1>4
  <2> QED  BY <2>1, <2>2, <2>3
<1>7. DialList(s) = Reserved(d)
  BY <1>1 DEF DialList
<1> QED  BY <1>4, <1>5, <1>6, <1>7

(* DialListIsBest: a sound dial list that leaves out only what is worse.    *)
LEMMA SoundAndBest ==
  ASSUME addresses \in Seq(Candidates)
  PROVE  DialListIsBest
<1>1. PICK d \in Seq(Candidates) :
        /\ DialList(addresses) = Reserved(d)
        /\ InRankOrder(d)
        /\ \A n \in DOMAIN d : IsDialable(d[n]) /\ \E j \in DOMAIN addresses : d[n] = addresses[j]
        /\ \A m, n \in DOMAIN d : m < n => Endpoint[d[m].host] # Endpoint[d[n].host]
        /\ \A j \in DOMAIN addresses :
             IsDialable(addresses[j]) =>
               \E n \in DOMAIN d : /\ Endpoint[d[n].host] = Endpoint[addresses[j].host]
                                   /\ Rank(d[n]) <= Rank(addresses[j])
  BY PreferredList
<1>2. PICK t : t = DialList(addresses)
  OBVIOUS
<1>3. /\ t \in Seq(Candidates) /\ Len(t) <= MaxDial
      /\ Len(t) < MaxDial => t = d
      /\ \E at \in [DOMAIN t -> DOMAIN d] :
           /\ \A n \in DOMAIN t : t[n] = d[at[n]] /\ (n < MaxDial => at[n] = n)
           /\ \A m, n \in DOMAIN t : m < n => at[m] < at[n]
  <2>1. t = Reserved(d)
    BY <1>1, <1>2
  <2> QED  BY <2>1, ReservedList
<1>4. PICK at \in [DOMAIN t -> DOMAIN d] :
        /\ \A n \in DOMAIN t : t[n] = d[at[n]] /\ (n < MaxDial => at[n] = n)
        /\ \A m, n \in DOMAIN t : m < n => at[m] < at[n]
  BY <1>3
<1>5. ASSUME NEW i \in DOMAIN t
      PROVE  IsDialable(t[i]) /\ \E j \in DOMAIN addresses : t[i] = addresses[j]
  BY <1>1, <1>4
<1>6. ASSUME NEW i \in DOMAIN t, NEW j \in DOMAIN t, i < j
      PROVE  AsPreferred(t[i], t[j]) /\ Endpoint[t[i].host] # Endpoint[t[j].host]
  <2>1. /\ at[i] \in DOMAIN d /\ at[j] \in DOMAIN d /\ at[i] < at[j]
        /\ t[i] = d[at[i]] /\ t[j] = d[at[j]]
    BY <1>4, <1>6
  <2>2. Rank(t[i]) <= Rank(t[j]) /\ t[i] \in Candidates /\ t[j] \in Candidates
    BY <1>1, <2>1 DEF InRankOrder
  <2> QED  BY <1>1, <2>1, <2>2, RankIsPreference
<1>7. DialListIsSound
  BY <1>2, <1>3, <1>5, <1>6 DEF DialListIsSound
<1>8. ASSUME NEW j \in DOMAIN addresses, IsDialable(addresses[j])
      PROVE  \/ \E i \in DOMAIN t : Endpoint[t[i].host] = Endpoint[addresses[j].host]
             \/ Len(t) = MaxDial /\ \A i \in 1 .. MaxDial - 1 : AsPreferred(t[i], addresses[j])
  <2>1. PICK n \in DOMAIN d : /\ Endpoint[d[n].host] = Endpoint[addresses[j].host]
                              /\ Rank(d[n]) <= Rank(addresses[j])
    BY <1>1, <1>8
  <2>2. CASE n \in DOMAIN t /\ t[n] = d[n]
    BY <2>1, <2>2
  <2>3. CASE ~(n \in DOMAIN t /\ t[n] = d[n])
    <3>1. /\ MaxDial \in Nat \ {0} /\ Len(t) \in Nat /\ Len(d) \in Nat
          /\ DOMAIN t = 1 .. Len(t) /\ n \in 1 .. Len(d) /\ Len(t) <= MaxDial
      BY <1>3, CandidateAssumption
    <3>2. Len(t) = MaxDial
      <4>1. ~(Len(t) < MaxDial)
        BY <1>3, <2>3
      <4>2. Len(t) \in Nat /\ MaxDial \in Nat /\ Len(t) <= MaxDial
        BY <3>1
      <4> QED  BY <4>1, <4>2
    <3>3. ~(n < MaxDial)
      <4>1. n < MaxDial => n \in DOMAIN t
        BY <3>1, <3>2
      <4> QED  BY <1>4, <2>3, <4>1
    <3>4. ASSUME NEW i \in 1 .. MaxDial - 1 PROVE AsPreferred(t[i], addresses[j])
      <4>1. i \in DOMAIN t /\ i < MaxDial /\ i < n
        BY <3>1, <3>2, <3>3
      <4>2. t[i] = d[i] /\ i \in DOMAIN d
        BY <1>4, <4>1
      <4>3. Rank(d[i]) <= Rank(d[n])
        BY <1>1, <4>1, <4>2 DEF InRankOrder
      <4>4. d[i] \in Candidates /\ d[n] \in Candidates /\ addresses[j] \in Candidates
        BY <4>2
      <4>5. Rank(d[i]) \in Nat /\ Rank(d[n]) \in Nat /\ Rank(addresses[j]) \in Nat
        BY <4>4, RankOfCandidate
      <4>6. Rank(d[i]) <= Rank(addresses[j])
        BY <2>1, <4>3, <4>5
      <4> QED  BY <4>2, <4>4, <4>6, RankIsPreference
    <3> QED  BY <3>2, <3>4
  <2> QED  BY <2>2, <2>3
<1>9. LeftOutForBetter
  BY <1>2, <1>8 DEF LeftOutForBetter
<1> QED  BY <1>7, <1>9 DEF DialListIsBest

(* FallbackIsDialed: an IPv6 attempt never masks a working fallback.        *)
LEMMA BestFallback ==
  ASSUME addresses \in Seq(Candidates)
  PROVE  FallbackIsDialed
<1>1. PICK d \in Seq(Candidates) :
        /\ DialList(addresses) = Reserved(d)
        /\ InRankOrder(d)
        /\ \A n \in DOMAIN d : IsDialable(d[n])
        /\ \A j \in DOMAIN addresses :
             IsDialable(addresses[j]) =>
               \E n \in DOMAIN d : /\ Endpoint[d[n].host] = Endpoint[addresses[j].host]
                                   /\ Rank(d[n]) <= Rank(addresses[j])
  BY PreferredList
<1>2. PICK t : t = DialList(addresses)
  OBVIOUS
<1>3. /\ t \in Seq(Candidates)
      /\ \E at \in [DOMAIN t -> DOMAIN d] :
           /\ \A n \in DOMAIN t : t[n] = d[at[n]]
           /\ \A j \in DOMAIN d :
                ~IsIpv6(d[j]) => \E n \in DOMAIN t : ~IsIpv6(t[n]) /\ at[n] <= j
  <2>1. t = Reserved(d)
    BY <1>1, <1>2
  <2> QED  BY <2>1, ReservedList
<1>4. PICK at \in [DOMAIN t -> DOMAIN d] :
        /\ \A n \in DOMAIN t : t[n] = d[at[n]]
        /\ \A j \in DOMAIN d : ~IsIpv6(d[j]) => \E n \in DOMAIN t : ~IsIpv6(t[n]) /\ at[n] <= j
  BY <1>3
<1>5. ASSUME NEW j \in DOMAIN addresses, Fallback(addresses[j])
      PROVE  \E i \in DOMAIN t : Fallback(t[i]) /\ AsPreferred(t[i], addresses[j])
  <2>1. PICK n \in DOMAIN d : /\ Endpoint[d[n].host] = Endpoint[addresses[j].host]
                              /\ Rank(d[n]) <= Rank(addresses[j])
    BY <1>1, <1>5 DEF Fallback
  <2>2. d[n] \in Candidates /\ addresses[j] \in Candidates
    OBVIOUS
  <2>3. ~IsIpv6(d[n])
    <3>1. d[n].host \in Hosts /\ addresses[j].host \in Hosts
      BY <2>2, RankOfCandidate
    <3>2. FamilyRank[d[n].host] = FamilyRank[addresses[j].host]
      BY <2>1, <3>1, CandidateAssumption
    <3> QED  BY <1>5, <3>2 DEF Fallback, IsIpv6
  <2>4. PICK i \in DOMAIN t : ~IsIpv6(t[i]) /\ at[i] <= n
    BY <1>4, <2>3
  <2>5. t[i] = d[at[i]] /\ at[i] \in DOMAIN d
    BY <1>4
  <2>6. Rank(d[at[i]]) <= Rank(d[n]) /\ d[at[i]] \in Candidates
    <3>1. d[at[i]] \in Candidates /\ Rank(d[n]) \in Nat
      BY <2>2, <2>5, RankOfCandidate
    <3>2. CASE at[i] = n
      BY <3>1, <3>2
    <3>3. CASE at[i] # n
      <4>1. at[i] < n
        BY <2>4, <2>5, <3>3
      <4> QED  BY <1>1, <2>5, <3>1, <4>1 DEF InRankOrder
    <3> QED  BY <3>2, <3>3
  <2>7. Rank(d[at[i]]) \in Nat /\ Rank(d[n]) \in Nat /\ Rank(addresses[j]) \in Nat
    BY <2>2, <2>6, RankOfCandidate
  <2>8. Rank(t[i]) <= Rank(addresses[j]) /\ t[i] \in Candidates
    BY <2>1, <2>5, <2>6, <2>7
  <2>9. AsPreferred(t[i], addresses[j])
    BY <2>2, <2>8, RankIsPreference
  <2>10. Fallback(t[i])
    BY <1>1, <2>4, <2>5 DEF Fallback
  <2> QED  BY <2>9, <2>10
<1> QED  BY <1>2, <1>5 DEF FallbackIsDialed

(* BestIsDialedFirst: the best address of an admitted list is the first one *)
(* dialed.                                                                  *)
LEMMA BestFirst ==
  ASSUME addresses \in Seq(Candidates), InRankOrder(addresses), HasDialable(addresses),
         MaxDial > 1
  PROVE  DialList(addresses) # <<>> /\ BestAddress(addresses) = Head(DialList(addresses))
<1>1. PICK f, d, t : f = Dialable(addresses) /\ d = Deduped(f) /\ t = Reserved(d)
  OBVIOUS
<1>2. f \in Seq(Candidates) /\ InRankOrder(f) /\ f # <<>>
  <2>1. /\ f \in Seq(Candidates) /\ InRankOrder(f)
        /\ \A i \in DOMAIN addresses :
             IsDialable(addresses[i]) => \E n \in DOMAIN f : f[n] = addresses[i]
    BY <1>1, DialableList
  <2> QED  BY <2>1 DEF HasDialable
<1>3. DialList(addresses) = t
  <2>1. Sorted(f) = f
    BY <1>2, SortedAlready
  <2> QED  BY <1>1, <2>1 DEF DialList
<1>4. d \in Seq(Candidates) /\ d # <<>> /\ d[1] = f[1]
  <2>1. BestOfEach(d, f)
    BY <1>1, <1>2, DedupedList
  <2> QED  BY <1>2, <2>1 DEF BestOfEach
<1>5. /\ t \in Seq(Candidates) /\ Len(t) < MaxDial => t = d
      /\ \E at \in [DOMAIN t -> DOMAIN d] :
           \A n \in DOMAIN t : t[n] = d[at[n]] /\ (n < MaxDial => at[n] = n)
  BY <1>1, <1>4, ReservedList
<1>6. t # <<>>
  <2>1. Len(t) < MaxDial \/ Len(t) # 0
    BY CandidateAssumption
  <2> QED  BY <1>4, <1>5, <2>1
<1>7. t[1] = d[1]
  <2>1. 1 \in DOMAIN t /\ 1 < MaxDial
    BY <1>5, <1>6, CandidateAssumption
  <2> QED  BY <1>5, <2>1
<1>8. Head(t) = t[1] /\ Head(f) = f[1]
  BY <1>2, <1>5, <1>6
<1> QED  BY <1>1, <1>3, <1>4, <1>6, <1>7, <1>8 DEF BestAddress

-----------------------------------------------------------------------------
(* DialListIsBest: whatever happened to the list, what is dialed of it is a *)
(* sound list from which only worse candidates are missing.                 *)
THEOREM BestAreDialed == Spec => []DialListIsBest
<1>1. Inv => DialListIsBest
  BY SoundAndBest DEF Inv, TypeOK
<1> QED  BY <1>1, ListInvariant, PTL

(* FallbackIsDialed: if the list has a fallback to IPv6, one as good as it  *)
(* is dialed.                                                               *)
THEOREM FallbacksAreDialed == Spec => []FallbackIsDialed
<1>1. Inv => FallbackIsDialed
  BY BestFallback DEF Inv, TypeOK
<1> QED  BY <1>1, ListInvariant, PTL

(* BestIsDialedFirst: best_address and dial_candidates agree, provided the  *)
(* cap leaves a place in front of the reserved one (it is 4 in the code).   *)
THEOREM FirstIsBest ==
  ASSUME MaxDial > 1
  PROVE  Spec => []BestIsDialedFirst
<1>1. Inv => BestIsDialedFirst
  <2> SUFFICES ASSUME Inv, settled, HasDialable(addresses)
               PROVE  /\ DialList(addresses) # <<>>
                      /\ BestAddress(addresses) = Head(DialList(addresses))
    BY DEF BestIsDialedFirst
  <2>1. addresses \in Seq(Candidates) /\ InRankOrder(addresses)
    BY DEF Inv, TypeOK, SettledInOrder
  <2> QED  BY <2>1, BestFirst
<1> QED  BY <1>1, ListInvariant, PTL

-----------------------------------------------------------------------------
(* A list that is no longer than the cap loses only its overlong hosts.     *)
LEMMA AdmittedWhole ==
  ASSUME NEW s \in Seq(Candidates), Len(s) <= MaxAddresses, NEW t, t = Admitted(s)
  PROVE  \A i \in DOMAIN s : s[i].host \in Overlong \/ \E n \in DOMAIN t : t[n] = s[i]
<1>1. PICK f, g : f = WithoutOverlong(s) /\ g = Sorted(f)
  OBVIOUS
<1>2. /\ f \in Seq(Candidates)
      /\ \A i \in DOMAIN s : s[i].host \in Overlong \/ \E n \in DOMAIN f : f[n] = s[i]
  BY <1>1, FitList
<1>3. /\ Len(g) = Len(f)
      /\ \A i \in DOMAIN f : \E n \in DOMAIN g : g[n] = f[i]
  BY <1>1, <1>2, SortedList
<1>4. Len(f) <= Len(s)
  BY <1>1, SelectedList DEF WithoutOverlong
<1>5. t = g
  <2>1. Len(g) <= MaxAddresses
    BY <1>2, <1>3, <1>4, CandidateAssumption
  <2>2. t = Truncated(g, MaxAddresses)
    BY <1>1 DEF Admitted
  <2> QED  BY <2>1, <2>2 DEF Truncated
<1> QED  BY <1>2, <1>3, <1>5

(* CollectedFallbackIsDialed, which fails of long lists (admission cuts     *)
(* before the dial list reserves a place), holds of every holder that       *)
(* collects no more addresses than a record may have.                       *)
AllAreKept ==
  /\ Len(collected) <= MaxCollected
  /\ admitted => \A i \in DOMAIN collected :
                   \/ collected[i].host \in Overlong
                   \/ \E j \in DOMAIN addresses : addresses[j] = collected[i]

LEMMA StepKeepsAll ==
  ASSUME MaxCollected <= MaxAddresses, Inv, AllAreKept, [Next]_vars
  PROVE  AllAreKept'
<1>0. /\ addresses \in Seq(Candidates) /\ collected \in Seq(Candidates)
      /\ MaxCollected \in Nat /\ MaxAddresses \in Nat
  BY CandidateAssumption DEF Inv, TypeOK
<1>1. ASSUME NEW c \in Candidates, Collect(c) PROVE AllAreKept'
  <2>1. Len(collected') <= MaxCollected /\ ~admitted'
    BY <1>0, <1>1 DEF Collect
  <2> QED  BY <2>1 DEF AllAreKept
<1>2. CASE Admit
  <2>1. collected' = collected /\ addresses' = Admitted(addresses) /\ admitted'
    BY <1>2 DEF Admit
  <2>2. Len(addresses) <= MaxAddresses
    BY <1>0 DEF AllAreKept, Inv, TypeOK, NotYetAdmitted
  <2>3. \A j \in DOMAIN addresses : \/ addresses[j].host \in Overlong
                                    \/ \E n \in DOMAIN addresses' : addresses'[n] = addresses[j]
    BY <1>0, <2>1, <2>2, AdmittedWhole
  <2>4. ASSUME NEW i \in DOMAIN collected, collected[i].host \notin Overlong
        PROVE  \E n \in DOMAIN addresses' : addresses'[n] = collected[i]
    <3>1. PICK j \in DOMAIN addresses : addresses[j] = collected[i]
      <4>1. CASE admitted
        BY <2>4, <4>1 DEF AllAreKept
      <4>2. CASE ~admitted
        BY <4>2 DEF Inv, NotYetAdmitted
      <4> QED  BY <4>1, <4>2
    <3> QED  BY <2>3, <2>4, <3>1
  <2> QED  BY <2>1, <2>4 DEF AllAreKept
<1>3. ASSUME NEW i \in 1 .. MaxAddresses, Rewrite(i) PROVE AllAreKept'
  <2>1. /\ admitted /\ collected' = collected /\ i \in DOMAIN addresses
        /\ addresses' = <<addresses[i]>> \o RemoveAt(addresses, i)
    BY <1>3 DEF Rewrite
  <2>2. SameElements(addresses', addresses)
    BY <1>0, <2>1, RewrittenList
  <2>3. \A j \in DOMAIN addresses : \E n \in DOMAIN addresses' : addresses'[n] = addresses[j]
    BY <2>2 DEF SameElements
  <2>4. \A l \in DOMAIN collected : \/ collected[l].host \in Overlong
                                    \/ \E n \in DOMAIN addresses' : addresses'[n] = collected[l]
    BY <2>1, <2>3 DEF AllAreKept
  <2>5. Len(collected') <= MaxCollected
    BY <2>1 DEF AllAreKept
  <2> QED  BY <2>1, <2>4, <2>5 DEF AllAreKept
<1>4. CASE UNCHANGED vars
  BY <1>4 DEF AllAreKept, vars
<1> QED  BY <1>1, <1>2, <1>3, <1>4 DEF Next

THEOREM FewAddressesAllReachTheDialer ==
  ASSUME MaxCollected <= MaxAddresses
  PROVE  Spec => []CollectedFallbackIsDialed
<1>1. Init => AllAreKept
  BY CandidateAssumption DEF Init, AllAreKept
<1>2. Inv /\ AllAreKept /\ [Next]_vars => AllAreKept'
  BY StepKeepsAll
<1>3. Inv /\ AllAreKept => CollectedFallbackIsDialed
  <2> SUFFICES ASSUME Inv, AllAreKept, admitted, NEW i \in DOMAIN collected,
                      Fallback(collected[i]), collected[i].host \notin Overlong
               PROVE  \E n \in DOMAIN DialList(addresses) : Fallback(DialList(addresses)[n])
    BY DEF CollectedFallbackIsDialed
  <2>1. PICK j \in DOMAIN addresses : addresses[j] = collected[i]
    BY DEF AllAreKept
  <2>2. FallbackIsDialed
    BY BestFallback DEF Inv, TypeOK
  <2> QED  BY <2>1, <2>2 DEF FallbackIsDialed
<1> QED  BY <1>1, <1>2, <1>3, ListInvariant, PTL DEF Spec

=============================================================================
