---------------------------- MODULE Lookup_proofs ----------------------------
(***************************************************************************)
(* Proofs about Lookup: for any number of peers, any k, alpha and round    *)
(* guard, and peers that answer with whatever they like, fail or panic.    *)
(***************************************************************************)
EXTENDS Lookup, FiniteSetTheorems, TLAPS

Below(S, p) == {q \in S : q < p}

(* A peer whose query is out has not reported back; one that has was seen. *)
AskedOnce ==
  /\ \A p \in inFlight : status[p] = "new"
  /\ \A p \in Peers : status[p] # "new" => p \in seen

(* What the cap cut has a shortlist full of closer contacts.               *)
CutIsFar ==
  \A d \in seen \ shortlist : Cardinality(Below(shortlist, d)) >= ShortlistCap

(* What ends a lookup, and what keeps it going.                            *)
Ended ==
  /\ phase = "done" => \/ rounds > MaxRounds
                       \/ EnoughProviders
                       \/ \A p \in Closest(shortlist, K) : status[p] # "new"
  /\ phase = "pick" => ~EnoughProviders

(* Honest answers: who has been asked has named somebody closer.           *)
Named ==
  honest => \A p \in Peers :
              /\ status[p] # "failed"
              /\ status[p] = "queried" => p = 1 \/ \E q \in seen : q < p

Inv == TypeOK /\ AskedOnce /\ CutIsFar /\ Ended /\ Named

-----------------------------------------------------------------------------
LEMMA Constants ==
  /\ PeerCount \in Nat /\ K \in Nat \ {0} /\ Alpha \in Nat \ {0} /\ MaxRounds \in Nat
  /\ Peers \subseteq Nat /\ IsFiniteSet(Peers)
  /\ ShortlistCap \in Nat /\ ShortlistCap >= K
BY LookupAssumption, FS_Interval DEF Peers, ShortlistCap

LEMMA PeersFinite ==
  ASSUME NEW S, S \subseteq Peers
  PROVE  IsFiniteSet(S) /\ Cardinality(S) \in Nat
BY Constants, FS_Subset, FS_CardinalityType

LEMMA PeersMonotone ==
  ASSUME NEW S, S \subseteq Peers, NEW T, T \subseteq S
  PROVE  Cardinality(T) <= Cardinality(S)
BY PeersFinite, FS_Subset

LEMMA LeastNatural ==
  ASSUME NEW S, S \subseteq Nat, S # {}
  PROVE  \E m \in S : \A x \in S : m <= x
<1>1. PICK m \in S : \A x \in S : <<x, m>> \notin OpToRel(<, Nat)
  <2>1. IsWellFoundedOn(OpToRel(<, Nat), Nat)
    BY NatLessThanWellFounded
  <2> QED  BY <2>1, WFMin, Zenon
<1>2. ASSUME NEW x \in S PROVE m <= x
  <2>1. ~(x < m)
    BY <1>1 DEF OpToRel
  <2> QED  BY <2>1
<1> QED  BY <1>2

LEMMA GreatestPeer ==
  ASSUME NEW S, S \subseteq Peers, S # {}
  PROVE  \E m \in S : \A x \in S : x <= m
<1> DEFINE B == {b \in Nat : \A x \in S : x <= b}
<1>1. PeerCount \in B
  BY Constants DEF Peers
<1>2. PICK m \in B : \A b \in B : m <= b
  <2>1. B \subseteq Nat /\ B # {}
    BY <1>1
  <2> HIDE DEF B
  <2> QED  BY <2>1, LeastNatural
<1>3. m \in S
  <2> SUFFICES ASSUME m \notin S PROVE FALSE
    OBVIOUS
  <2>1. \A x \in S : x \in Nat /\ x <= m /\ x # m
    BY <1>2, Constants
  <2>2. m # 0
    <3>1. PICK x \in S : x \in Nat /\ x <= m
      BY <2>1
    <3>2. x >= 1
      BY Constants DEF Peers
    <3> QED  BY <3>1, <3>2
  <2>3. m - 1 \in B
    BY <2>1, <2>2
  <2> QED  BY <1>2, <2>3
<1> QED  BY <1>2, <1>3

-----------------------------------------------------------------------------
(* Closest(S, n): no more than n of S, all of S if there are not n, and    *)
(* nothing of S between them.                                              *)
LEMMA ClosestPart == \A S, n : Closest(S, n) \subseteq S
BY DEF Closest

LEMMA ClosestSmall ==
  ASSUME NEW S, S \subseteq Peers, NEW n \in Nat
  PROVE  Cardinality(Closest(S, n)) <= n
<1> DEFINE C == Closest(S, n)
<1>1. C \subseteq S /\ C \subseteq Peers
  BY DEF Closest
<1>2. CASE C = {}
  BY <1>2, FS_EmptySet
<1>3. CASE C # {}
  <2>1. PICK m \in C : \A x \in C : x <= m
    <3> HIDE DEF C
    <3> QED  BY <1>1, <1>3, GreatestPeer
  <2>2. Cardinality(Below(S, m)) < n /\ Below(S, m) \subseteq Peers
    BY <2>1 DEF Closest, Below
  <2>3. C \ {m} \subseteq Below(S, m)
    <3> SUFFICES ASSUME NEW x \in C, x # m PROVE x \in S /\ x < m
      BY DEF Below
    <3>1. x \in Nat /\ m \in Nat
      BY <1>1, <2>1, Constants
    <3> QED  BY <1>1, <2>1, <3>1
  <2>4. Cardinality(C \ {m}) <= Cardinality(Below(S, m))
    BY <2>2, <2>3, PeersMonotone
  <2>5. Cardinality(C \ {m}) = Cardinality(C) - 1
    <3> HIDE DEF C
    <3> QED  BY <1>1, <2>1, PeersFinite, FS_RemoveElement
  <2>6. Cardinality(C) \in Nat /\ Cardinality(Below(S, m)) \in Nat
    BY <1>1, <2>2, PeersFinite
  <2> QED  BY <2>2, <2>4, <2>5, <2>6
<1> QED  BY <1>2, <1>3

LEMMA ClosestFull ==
  ASSUME NEW S, S \subseteq Peers, NEW n \in Nat, NEW d \in Peers,
         Cardinality(Below(S, d)) >= n
  PROVE  Cardinality(Below(Closest(S, n), d)) >= n
<1> DEFINE near == Below(Closest(S, n), d)
           rest == Below(S, d) \ near
<1> SUFFICES ASSUME ~(Cardinality(near) >= n) PROVE FALSE
  OBVIOUS
<1>1. near \subseteq Below(S, d) /\ Below(S, d) \subseteq Peers /\ near \subseteq Peers
  BY DEF Below, Closest
<1>2. Cardinality(near) \in Nat /\ Cardinality(Below(S, d)) \in Nat
  BY <1>1, PeersFinite
<1>3. rest # {} /\ rest \subseteq Nat
  <2>1. rest \subseteq Nat
    BY <1>1, Constants
  <2>2. ASSUME rest = {} PROVE Cardinality(Below(S, d)) <= Cardinality(near)
    <3>1. Below(S, d) \subseteq near
      BY <2>2
    <3> HIDE DEF near
    <3> QED  BY <1>1, <3>1, PeersMonotone
  <2> QED  BY <1>2, <2>1, <2>2
<1>4. PICK m \in rest : \A x \in rest : m <= x
  <2> HIDE DEF rest
  <2> QED  BY <1>3, LeastNatural
<1>5. m \in S /\ m < d /\ m \in Nat /\ d \in Nat
  BY <1>3, Constants DEF Below
<1>6. Below(S, m) \subseteq near
  <2> SUFFICES ASSUME NEW q \in S, q < m PROVE q \in near
    BY DEF Below
  <2>1. q \in Nat /\ q < d
    BY <1>5, Constants
  <2>2. q \in Below(S, d) /\ ~(m <= q)
    BY <1>5, <2>1 DEF Below
  <2> QED  BY <1>4, <2>2
<1>7. Cardinality(Below(S, m)) <= Cardinality(near) /\ Cardinality(Below(S, m)) \in Nat
  BY <1>1, <1>6, PeersMonotone, PeersFinite
<1>8. Cardinality(Below(S, m)) < n
  BY <1>2, <1>7
<1>9. m \in near
  BY <1>5, <1>8 DEF Below, Closest
<1> QED  BY <1>4, <1>9

(* Contacts that n of A are closer than make no difference to the n closest. *)
LEMMA ClosestSame ==
  ASSUME NEW A, NEW B, A \subseteq B, B \subseteq Peers, NEW n \in Nat,
         \A d \in B \ A : Cardinality(Below(A, d)) >= n
  PROVE  Closest(A, n) = Closest(B, n)
<1>1. \A p \in Peers : /\ Below(A, p) \subseteq Below(B, p) /\ Below(B, p) \subseteq Peers
                       /\ Cardinality(Below(A, p)) <= Cardinality(Below(B, p))
                       /\ Cardinality(Below(A, p)) \in Nat
                       /\ Cardinality(Below(B, p)) \in Nat
  <2> SUFFICES ASSUME NEW p \in Peers
               PROVE  /\ Below(A, p) \subseteq Below(B, p) /\ Below(B, p) \subseteq Peers
                      /\ Cardinality(Below(A, p)) <= Cardinality(Below(B, p))
                      /\ Cardinality(Below(A, p)) \in Nat
                      /\ Cardinality(Below(B, p)) \in Nat
    OBVIOUS
  <2>1. Below(A, p) \subseteq Below(B, p) /\ Below(B, p) \subseteq Peers
    BY DEF Below
  <2> QED  BY <2>1, PeersMonotone, PeersFinite
<1>2. ASSUME NEW p \in Closest(A, n) PROVE p \in Closest(B, n)
  <2>1. p \in A /\ p \in Peers /\ Cardinality(Below(A, p)) < n
    BY DEF Closest, Below
  <2>2. Below(B, p) = Below(A, p)
    <3> SUFFICES ASSUME NEW d \in B, d < p, d \notin A PROVE FALSE
      BY <2>1 DEF Below
    <3>1. Below(A, d) \subseteq Below(A, p) /\ Below(A, p) \subseteq Peers
      <4>1. d \in Nat /\ p \in Nat /\ A \subseteq Peers /\ d < p
        BY <2>1, Constants
      <4>2. ASSUME NEW q \in A, q < d PROVE q < p
        <5>1. q \in Nat
          BY <4>1, Constants
        <5> QED  BY <4>1, <4>2, <5>1
      <4> QED  BY <4>1, <4>2 DEF Below
    <3>2. Cardinality(Below(A, d)) <= Cardinality(Below(A, p))
      BY <3>1, PeersMonotone
    <3> QED  BY <1>1, <2>1, <3>2
  <2> QED  BY <2>1, <2>2 DEF Closest, Below
<1>3. ASSUME NEW p \in Closest(B, n) PROVE p \in Closest(A, n)
  <2>1. p \in B /\ p \in Peers /\ Cardinality(Below(B, p)) < n
    BY DEF Closest, Below
  <2>2. Cardinality(Below(A, p)) < n
    BY <1>1, <2>1
  <2>3. p \in A
    BY <1>1, <2>1, <2>2
  <2> QED  BY <2>2, <2>3 DEF Closest, Below
<1> QED  BY <1>2, <1>3

LEMMA CutStaysFar ==
  ASSUME NEW S, S \subseteq Peers, NEW n \in Nat, NEW d \in Peers,
         d \in S => d \notin Closest(S, n),
         d \notin S => Cardinality(Below(S, d)) >= n
  PROVE  Cardinality(Below(Closest(S, n), d)) >= n
<1>1. Below(S, d) \subseteq Peers
  BY DEF Below
<1>2. Cardinality(Below(S, d)) >= n
  BY <1>1, PeersFinite DEF Closest, Below
<1> QED  BY <1>2, ClosestFull

-----------------------------------------------------------------------------
LEMMA InitInv == Init => Inv
<1> SUFFICES ASSUME Init PROVE Inv
  OBVIOUS
<1> USE Constants
<1>1. PICK seeds \in SUBSET Peers : shortlist = Capped(seeds) /\ seen = seeds
  BY DEF Init
<1>2. shortlist \subseteq seen /\ seen \subseteq Peers
  BY <1>1, ClosestPart DEF Capped
<1>3. TypeOK
  <2>1. providers \in [{} -> Peers]
    BY DEF Init
  <2>2. {} \in SUBSET Holders /\ inFlight \subseteq shortlist /\ Cardinality(inFlight) <= Alpha
    BY FS_EmptySet DEF Init
  <2>3. providers \in UNION {[H -> Peers] : H \in SUBSET Holders}
    BY <2>1, <2>2
  <2>4. /\ status \in [Peers -> {"new", "queried", "failed"}] /\ honest \in BOOLEAN
        /\ rounds \in 0..(MaxRounds + 1) /\ phase = "pick" /\ inFlight = {}
    BY DEF Init
  <2> QED  BY <1>2, <2>2, <2>3, <2>4 DEF TypeOK
<1>4. CutIsFar
  <2> SUFFICES ASSUME NEW d \in seen \ shortlist
               PROVE  Cardinality(Below(shortlist, d)) >= ShortlistCap
    BY DEF CutIsFar
  <2>1. d \in seeds /\ d \notin Closest(seeds, ShortlistCap)
    BY <1>1 DEF Capped
  <2> QED  BY <1>1, <2>1, CutStaysFar DEF Capped
<1>5. AskedOnce /\ Ended /\ Named
  BY DEF Init, AskedOnce, Ended, Named, EnoughProviders
<1> QED  BY <1>3, <1>4, <1>5 DEF Inv

(* The steps.                                                              *)
LEMMA StartRoundInv == Inv /\ StartRound => Inv'
<1> SUFFICES ASSUME Inv, StartRound PROVE Inv'
  OBVIOUS
<1> USE Constants
<1>1. TypeOK'
  <2>1. Eligible \subseteq Peers /\ Batch \subseteq shortlist /\ Cardinality(Batch) <= Alpha
    BY ClosestPart, ClosestSmall DEF Inv, TypeOK, Eligible, Batch
  <2>2. inFlight' \subseteq shortlist' /\ Cardinality(inFlight') <= Alpha
    BY <2>1 DEF StartRound, Counted, Inv, TypeOK
  <2>3. rounds' \in 0..(MaxRounds + 1)
    BY DEF StartRound, Counted, Inv, TypeOK
  <2> QED  BY <2>2, <2>3 DEF StartRound, Counted, Inv, TypeOK
<1>2. AskedOnce'
  <2>1. Batch \subseteq Eligible
    BY ClosestPart DEF Batch
  <2> QED  BY <2>1 DEF StartRound, Counted, Inv, AskedOnce, Eligible
<1>3. CutIsFar' /\ Named'
  BY DEF StartRound, Counted, Inv, CutIsFar, Named
<1>4. Ended'
  <2>1. OutOfRounds => rounds' > MaxRounds
    BY DEF OutOfRounds, StartRound, Counted, Inv, TypeOK
  <2>2. Eligible = {} => \A p \in Closest(shortlist, K) : status[p] # "new"
    BY ClosestPart DEF Eligible
  <2> QED  BY <2>1, <2>2 DEF StartRound, Counted, Ended, Inv, EnoughProviders
<1> QED  BY <1>1, <1>2, <1>3, <1>4 DEF Inv

LEMMA AnsweredInv ==
  ASSUME Inv, NEW p \in Peers, NEW closer \in SUBSET Peers, NEW named \in SUBSET Holders,
         Answered(p, closer, named)
  PROVE  Inv'
<1> USE Constants
<1>1. /\ shortlist \subseteq seen /\ seen \subseteq Peers /\ inFlight \subseteq shortlist
      /\ p \in inFlight /\ phase = "query" /\ status[p] = "new" /\ p \in seen
      /\ Fresh(closer) \subseteq Peers /\ Fresh(closer) \cap seen = {}
      /\ p \notin Fresh(closer)
  BY DEF Answered, Inv, TypeOK, AskedOnce, Fresh
<1>2. /\ shortlist' = shortlist \cup Fresh(closer) /\ seen' = seen \cup Fresh(closer)
      /\ inFlight' = inFlight \ {p} /\ phase' = phase /\ rounds' = rounds
      /\ \A q \in Peers : status'[q] = IF q = p THEN "queried"
                                        ELSE IF q \in Fresh(closer) THEN "new" ELSE status[q]
  BY DEF Answered
<1>3. TypeOK'
  <2>1. providers' \in UNION {[H -> Peers] : H \in SUBSET Holders}
    <3>1. PICK H \in SUBSET Holders : providers \in [H -> Peers]
      BY DEF Inv, TypeOK
    <3>2. providers' \in [H \cup named -> Peers]
      BY <3>1 DEF Answered, Collect
    <3> QED  BY <3>2
  <2>2. Cardinality(inFlight') <= Alpha
    <3>1. inFlight \subseteq Peers /\ inFlight' \subseteq inFlight
      BY <1>1, <1>2
    <3>2. Cardinality(inFlight') <= Cardinality(inFlight)
      BY <3>1, PeersMonotone
    <3>3. Cardinality(inFlight') \in Nat /\ Cardinality(inFlight) \in Nat
      BY <3>1, PeersFinite
    <3> QED  BY <3>2, <3>3 DEF Inv, TypeOK
  <2>3. status' \in [Peers -> {"new", "queried", "failed"}] /\ honest' \in BOOLEAN
    BY DEF Answered, Inv, TypeOK
  <2>4. inFlight' \subseteq shortlist' /\ shortlist' \subseteq seen' /\ seen' \subseteq Peers
    BY <1>1, <1>2
  <2> QED  BY <1>1, <1>2, <2>1, <2>2, <2>3, <2>4 DEF Inv, TypeOK
<1>4. AskedOnce'
  BY <1>1, <1>2 DEF Inv, AskedOnce
<1>5. CutIsFar'
  <2> SUFFICES ASSUME NEW d \in seen \ shortlist
               PROVE  Cardinality(Below(shortlist', d)) >= ShortlistCap
    BY <1>2 DEF CutIsFar, Below
  <2>1. Below(shortlist, d) \subseteq Below(shortlist', d) /\ Below(shortlist', d) \subseteq Peers
    BY <1>1, <1>2 DEF Below
  <2>2. Cardinality(Below(shortlist, d)) <= Cardinality(Below(shortlist', d))
    BY <2>1, PeersMonotone
  <2>3. Cardinality(Below(shortlist, d)) \in Nat /\ Cardinality(Below(shortlist', d)) \in Nat
    BY <2>1, PeersFinite
  <2> QED  BY <2>2, <2>3 DEF Inv, CutIsFar
<1>6. Ended'
  BY <1>1, <1>2 DEF Ended
<1>7. Named'
  <2> SUFFICES ASSUME honest', NEW q \in Peers
               PROVE  /\ status'[q] # "failed"
                      /\ status'[q] = "queried" => q = 1 \/ \E x \in seen' : x < q
    BY DEF Named
  <2>1. honest /\ (p = 1 \/ \E x \in closer : x < p)
    BY DEF Answered
  <2>2. closer \subseteq seen'
    BY <1>2 DEF Fresh
  <2> QED  BY <1>1, <1>2, <2>1, <2>2 DEF Inv, Named
<1> QED  BY <1>3, <1>4, <1>5, <1>6, <1>7 DEF Inv

(* A query that fails or panics names nobody.                              *)
LEMMA SilentInv ==
  ASSUME Inv, NEW p \in Peers, Errored(p) \/ Panicked(p)
  PROVE  Inv'
<1> USE Constants
<1>1. inFlight \subseteq Peers /\ inFlight' = inFlight \ {p} /\ p \in inFlight
      /\ phase = "query" /\ p \in seen
  BY DEF Errored, Panicked, Inv, TypeOK
<1>2. Cardinality(inFlight') <= Alpha
  <2>1. Cardinality(inFlight') <= Cardinality(inFlight)
    BY <1>1, PeersMonotone
  <2>2. Cardinality(inFlight') \in Nat /\ Cardinality(inFlight) \in Nat
    BY <1>1, PeersFinite
  <2> QED  BY <2>1, <2>2 DEF Inv, TypeOK
<1>3. TypeOK'
  BY <1>1, <1>2 DEF Errored, Panicked, Inv, TypeOK
<1>4. AskedOnce'
  BY <1>1 DEF Errored, Panicked, Inv, TypeOK, AskedOnce
<1>5. CutIsFar' /\ Named'
  BY DEF Errored, Panicked, Inv, CutIsFar, Named
<1>6. Ended'
  BY <1>1 DEF Errored, Panicked, Ended
<1> QED  BY <1>3, <1>4, <1>5, <1>6 DEF Inv

LEMMA EndRoundInv == Inv /\ EndRound => Inv'
<1> SUFFICES ASSUME Inv, EndRound PROVE Inv'
  OBVIOUS
<1> USE Constants
<1>1. shortlist \subseteq seen /\ seen \subseteq Peers /\ shortlist' = Capped(shortlist)
      /\ shortlist' \subseteq shortlist /\ inFlight' = {} /\ inFlight = {} /\ seen' = seen
  BY ClosestPart DEF EndRound, Inv, TypeOK, Capped
<1>2. TypeOK'
  BY <1>1, FS_EmptySet DEF EndRound, Inv, TypeOK
<1>3. AskedOnce' /\ Named'
  BY <1>1 DEF EndRound, Inv, AskedOnce, Named
<1>4. CutIsFar'
  <2> SUFFICES ASSUME NEW d \in seen \ shortlist'
               PROVE  Cardinality(Below(shortlist', d)) >= ShortlistCap
    BY <1>1 DEF CutIsFar, Below
  <2>1. d \in Peers /\ (d \in shortlist => d \notin Closest(shortlist, ShortlistCap))
    BY <1>1 DEF Capped
  <2>2. d \notin shortlist => Cardinality(Below(shortlist, d)) >= ShortlistCap
    BY DEF Inv, CutIsFar
  <2> QED  BY <1>1, <2>1, <2>2, CutStaysFar DEF Capped
<1>5. Ended'
  BY <1>1 DEF EndRound, Ended, Converged, EnoughProviders
<1> QED  BY <1>2, <1>3, <1>4, <1>5 DEF Inv

LEMMA NextInv == Inv /\ [Next]_vars => Inv'
<1> SUFFICES ASSUME Inv, [Next]_vars PROVE Inv'
  OBVIOUS
<1>1. ASSUME UNCHANGED vars PROVE Inv'
  BY <1>1 DEF vars, Inv, TypeOK, AskedOnce, CutIsFar, Below, Ended, Closest, EnoughProviders, Named
<1>2. ASSUME NEW p \in Peers, NEW closer \in Answers(p), NEW named \in SUBSET Holders,
             Answered(p, closer, named)
      PROVE  Inv'
  BY <1>2, LookupAssumption, AnsweredInv
<1>3. inFlight \subseteq Peers
  BY DEF Inv, TypeOK
<1> QED
  BY <1>1, <1>2, <1>3, StartRoundInv, SilentInv, EndRoundInv DEF Next, Join, Done

THEOREM LookupInvariant == Spec => []Inv
BY InitInv, NextInv, PTL DEF Spec

(* Every variable keeps its type, and no more than alpha queries are out.  *)
THEOREM LookupTypes == Spec => []TypeOK
<1>1. Inv => TypeOK
  BY DEF Inv
<1> QED  BY <1>1, LookupInvariant, PTL

-----------------------------------------------------------------------------
(* What the shortlist says of all the contacts seen.                       *)
LEMMA ClosestSeen ==
  ASSUME Inv
  PROVE  Closest(shortlist, K) = Closest(seen, K)
<1>1. shortlist \subseteq seen /\ seen \subseteq Peers
  BY DEF Inv, TypeOK
<1>2. \A d \in seen \ shortlist : Cardinality(Below(shortlist, d)) >= K
  <2> SUFFICES ASSUME NEW d \in seen \ shortlist
               PROVE  Cardinality(Below(shortlist, d)) >= K
    OBVIOUS
  <2>1. Below(shortlist, d) \subseteq Peers
    BY <1>1 DEF Below
  <2> QED  BY <2>1, Constants, PeersFinite DEF Inv, CutIsFar
<1> QED  BY <1>1, <1>2, ClosestSame, Constants

(* The cap of sort_and_cap makes no difference to what a lookup returns    *)
(* unless more than ShortlistCap - K of the contacts listed have failed.   *)
THEOREM CapSparesTheResult == Spec => []CapIsHarmlessUnlessManyFail
<1> DEFINE failing == {p \in shortlist : status[p] = "failed"}
           others == {p \in seen : status[p] # "failed"}
<1>1. ASSUME Inv, Cardinality(failing) <= ShortlistCap - K
      PROVE  SameAsUncapped
  <2>1. /\ shortlist \subseteq seen /\ seen \subseteq Peers /\ failing \subseteq Peers
        /\ NotFailed \subseteq others /\ others \subseteq Peers
    BY <1>1 DEF Inv, TypeOK, NotFailed
  <2>2. ASSUME NEW d \in others \ NotFailed PROVE Cardinality(Below(NotFailed, d)) >= K
    <3> DEFINE near == Below(shortlist, d)
               good == Below(NotFailed, d)
    <3>1. d \in seen \ shortlist
      BY DEF NotFailed
    <3>2. Cardinality(near) >= ShortlistCap
      BY <1>1, <3>1 DEF Inv, CutIsFar
    <3>3. near \subseteq good \cup failing /\ good \subseteq Peers /\ good \cup failing \subseteq Peers
      BY <2>1 DEF Below, NotFailed
    <3> HIDE DEF near, good, failing
    <3>4. Cardinality(near) <= Cardinality(good \cup failing)
      BY <3>3, PeersMonotone
    <3>5. Cardinality(good \cup failing)
            = Cardinality(good) + Cardinality(failing) - Cardinality(good \cap failing)
      BY <2>1, <3>3, PeersFinite, FS_Union
    <3>6. /\ Cardinality(near) \in Nat /\ Cardinality(good) \in Nat
          /\ Cardinality(failing) \in Nat /\ Cardinality(good \cap failing) \in Nat
      <4>1. near \subseteq Peers /\ good \cap failing \subseteq Peers
        BY <3>3
      <4> QED  BY <2>1, <3>3, <4>1, PeersFinite
    <3>7. Cardinality(good) >= K
      BY <1>1, <3>2, <3>4, <3>5, <3>6, Constants
    <3> QED  BY <3>7 DEF good
  <2>3. Closest(NotFailed, K) = Closest(others, K)
    <3> HIDE DEF others
    <3> QED  BY <2>1, <2>2, Constants, ClosestSame
  <2> QED  BY <2>3 DEF SameAsUncapped, Result
<1>2. Inv => CapIsHarmlessUnlessManyFail
  BY <1>1 DEF CapIsHarmlessUnlessManyFail
<1> QED  BY <1>2, LookupInvariant, PTL

(* A lookup that ended of itself has asked the k closest contacts it saw,  *)
(* the cap and the early exit notwithstanding.                             *)
THEOREM ClosestWereAsked == Spec => []KClosestWereAsked
<1>1. Inv => KClosestWereAsked
  <2> SUFFICES ASSUME Inv, phase = "done", rounds <= MaxRounds, ~EnoughProviders
               PROVE  \A p \in Closest(seen, K) : status[p] # "new"
    BY DEF KClosestWereAsked
  <2>1. ~(rounds > MaxRounds)
    BY Constants DEF Inv, TypeOK
  <2> QED  BY <2>1, ClosestSeen DEF Inv, Ended
<1> QED  BY <1>1, LookupInvariant, PTL

(* What the comments of lookup.rs say without a condition (the cap discards *)
(* no contact that could still be in the top-k; what is returned has been   *)
(* queried) is true of every lookup as long as no listed contact failed.    *)
NoneFailed == \A p \in shortlist : status[p] # "failed"

THEOREM CommentsHoldIfNoneFails == Spec => [](NoneFailed => CapIsHarmless /\ ReturnedWereQueried)
<1>1. ASSUME CapIsHarmlessUnlessManyFail, NoneFailed PROVE CapIsHarmless
  <2>1. {p \in shortlist : status[p] = "failed"} = {}
    BY <1>1 DEF NoneFailed
  <2>2. Cardinality({p \in shortlist : status[p] = "failed"}) <= ShortlistCap - K
    BY <2>1, FS_EmptySet, Constants
  <2> QED  BY <1>1, <2>2 DEF CapIsHarmlessUnlessManyFail, CapIsHarmless
<1>2. ASSUME Inv, KClosestWereAsked, NoneFailed PROVE ReturnedWereQueried
  <2> SUFFICES ASSUME phase = "done", rounds <= MaxRounds, ~EnoughProviders,
                      NEW p \in Result
               PROVE  status[p] = "queried"
    BY DEF ReturnedWereQueried
  <2>1. NotFailed = shortlist
    BY <1>2 DEF NotFailed, NoneFailed
  <2>2. p \in Closest(seen, K) /\ p \in shortlist
    BY <1>2, <2>1, ClosestSeen, ClosestPart DEF Result
  <2>3. status[p] # "new" /\ status[p] # "failed"
    BY <1>2, <2>2 DEF KClosestWereAsked, NoneFailed
  <2> QED  BY <1>2, <2>2, <2>3 DEF Inv, TypeOK
<1> QED  BY <1>1, <1>2, LookupInvariant, CapSparesTheResult, ClosestWereAsked, PTL

(* Whoever is told of a closer contact by everyone asked, as long as there *)
(* is one, finds the closest: convergence does not stop short of it.       *)
THEOREM HonestLookupsArrive == Spec => []FindsTheClosest
<1>1. Inv => FindsTheClosest
  <2> SUFFICES ASSUME Inv, phase = "done", rounds <= MaxRounds, ~EnoughProviders,
                      honest, seen # {}
               PROVE  1 \in Result
    BY DEF FindsTheClosest
  <2>1. seen \subseteq Peers /\ shortlist \subseteq seen /\ rounds \in Nat
    BY DEF Inv, TypeOK
  <2>2. PICK m \in seen : \A x \in seen : m <= x
    BY <2>1, Constants, LeastNatural
  <2>3. m \in Closest(seen, K)
    <3>1. Below(seen, m) = {}
      <4>1. \A q \in seen : q \in Nat /\ m <= q /\ m \in Nat
        BY <2>1, <2>2, Constants
      <4>2. \A q \in seen : ~(q < m)
        BY <4>1
      <4> QED  BY <4>2 DEF Below
    <3>2. Cardinality(Below(seen, m)) < K
      BY <3>1, FS_EmptySet, Constants
    <3> QED  BY <3>2 DEF Closest, Below
  <2>4. m \in Closest(shortlist, K) /\ m \in shortlist /\ m \in Peers
    BY <2>1, <2>3, ClosestSeen, ClosestPart
  <2>5. status[m] = "queried"
    BY <2>1, <2>4, Constants DEF Inv, TypeOK, Ended, Named
  <2>6. m = 1
    <3>1. m = 1 \/ \E q \in seen : q < m
      BY <2>4, <2>5 DEF Inv, Named
    <3> QED  BY <2>1, <2>2, <3>1, Constants
  <2>7. NotFailed = shortlist
    BY <2>1 DEF NotFailed, Inv, Named
  <2> QED  BY <2>4, <2>6, <2>7 DEF Result
<1> QED  BY <1>1, LookupInvariant, PTL

-----------------------------------------------------------------------------
(* A peer that reported back keeps its mark and is not asked again: merge_contact *)
(* skips what was ever seen, even after the cap has dropped it.            *)
THEOREM AskedAtMostOnce == Spec => NeverAskedAgain
<1>1. Inv /\ [Next]_vars => [\A p \in Peers :
                              status[p] # "new" => /\ status'[p] = status[p]
                                                   /\ p \notin inFlight']_vars
  <2> SUFFICES ASSUME Inv, Next, NEW p \in Peers, status[p] # "new"
               PROVE  (status'[p] = status[p] /\ p \notin inFlight') \/ UNCHANGED vars
    OBVIOUS
  <2>1. p \notin inFlight /\ p \in seen
    BY DEF Inv, AskedOnce
  <2>2. CASE StartRound
    BY <2>1, <2>2, ClosestPart DEF StartRound, Counted, Batch, Eligible
  <2>3. ASSUME NEW q \in inFlight, NEW closer \in Answers(q), NEW named \in SUBSET Holders,
               Answered(q, closer, named)
        PROVE  status'[p] = status[p] /\ p \notin inFlight'
    BY <2>1, <2>3 DEF Answered, Fresh
  <2>4. ASSUME NEW q \in inFlight, Errored(q) \/ Panicked(q)
        PROVE  status'[p] = status[p] /\ p \notin inFlight'
    BY <2>1, <2>4 DEF Errored, Panicked, Inv, TypeOK
  <2>5. CASE EndRound
    BY <2>1, <2>5 DEF EndRound
  <2> QED  BY <2>2, <2>3, <2>4, <2>5 DEF Next, Join, Done
<1> QED  BY <1>1, LookupInvariant, PTL DEF Spec, NeverAskedAgain

(* The record kept for a provider is the first one folded in, and a lookup *)
(* that stops on providers sends nothing more once it has one.             *)
THEOREM FirstRecordStays == Spec => FirstRecordWins
<1> DEFINE Step ==
      /\ \A h \in DOMAIN providers : h \in DOMAIN providers' /\ providers'[h] = providers[h]
      /\ (StopOnProviders /\ DOMAIN providers # {}) => inFlight' \subseteq inFlight
<1>1. Inv /\ [Next]_vars => Step \/ UNCHANGED vars
  <2> SUFFICES ASSUME Inv, Next PROVE Step \/ UNCHANGED vars
    OBVIOUS
  <2>1. CASE StartRound
    <3>1. ~EnoughProviders
      BY <2>1 DEF StartRound, Counted, Inv, Ended
    <3>2. DOMAIN providers # {} => providers # [h \in {} |-> 0]
      OBVIOUS
    <3> QED  BY <2>1, <3>1, <3>2 DEF StartRound, Counted, EnoughProviders
  <2>2. ASSUME NEW q \in inFlight, NEW closer \in Answers(q), NEW named \in SUBSET Holders,
               Answered(q, closer, named)
        PROVE  Step
    BY <2>2 DEF Answered, Collect
  <2>3. ASSUME NEW q \in inFlight, Errored(q) \/ Panicked(q) PROVE Step
    BY <2>3 DEF Errored, Panicked
  <2>4. CASE EndRound
    BY <2>4 DEF EndRound
  <2> QED  BY <2>1, <2>2, <2>3, <2>4 DEF Next, Join, Done
<1> QED  BY <1>1, LookupInvariant, PTL DEF Spec, FirstRecordWins
=============================================================================
