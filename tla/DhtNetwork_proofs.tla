-------------------------- MODULE DhtNetwork_proofs --------------------------
(***************************************************************************)
(* Proofs about DhtNetwork: for any number of replicas, finders and calls, *)
(* any clocks within the lead and the skew, any number of faults, any TTLs *)
(* and intervals that CadenceAssumption admits.                            *)
(***************************************************************************)
EXTENDS DhtNetwork, FiniteSetTheorems, TLAPS

USE DEF Least, Most

TypeInv == TypeOK /\ IsFiniteSet(late)

(* No record outlives the last one the holder built by more than its TTL:  *)
(* not in a store, a cache, a pass or a PUT that is late.                  *)
Remaining == Top - silent
AgesOut ==
  /\ \A n \in Nodes : held[n] <= Remaining
  /\ \A f \in Finders : cached[f] <= Remaining
  /\ \A c \in Calls : passes[c].exp <= Remaining
  /\ \A m \in late : m.exp <= Remaining

(* A store's record is live: what has expired is 0.                        *)
HeldLive == \A n \in Nodes : held[n] # 0 => Live(held[n], n)

(* A cached record is live and was cached at most dark ticks before.       *)
CacheAges ==
  /\ \A f \in Finders :
       cached[f] # 0 => /\ Live(cached[f], f)
                        /\ cached[f] <= off[f] + CacheTtl - dark
  /\ \A n \in Nodes : Serves(n) => dark = 0

(* Ticks since the republish pass before which n last took the record: the *)
(* one before the pass under way if that has yet to come to n.             *)
Since(n) == Interval - due + (IF n \in passes["republish"].todo THEN Interval ELSE 0)

(* The pass of a call is as old as its age says, and a record kept was     *)
(* built at most a pass before it was due, and clamped not before.         *)
AtLeast(since, n) == Least(Top - (since + PassTime), off[n] + Ttl - since)
PassAges ==
  /\ \A c \in Calls : UnderWay(c) => passes[c].exp = Top - passes[c].age
  /\ UnderWay("republish") => passes["republish"].age = Interval - due
KeptLasts ==
  /\ kept # {} => announced
  /\ \A n \in kept : held[n] >= AtLeast(Since(n), n)

Inv == TypeInv /\ AgesOut /\ HeldLive /\ CacheAges /\ PassAges /\ KeptLasts

-----------------------------------------------------------------------------
(* What the assumptions on the constants amount to.                        *)
LEMMA Constants ==
  /\ Ttl \in Nat /\ CacheTtl \in Nat /\ Interval \in Nat /\ PassTime \in Nat
  /\ Lead \in Nat /\ Skew \in Nat /\ MaxFaults \in Nat
  /\ Top \in Nat /\ Top = Ttl + Lead
  /\ PassTime < Interval
  /\ Ttl > Interval + PassTime + Skew + PassTime
  /\ Ttl > Interval + PassTime + Skew + Lead
BY NetworkAssumption, CadenceAssumption DEF Top

LEMMA Offsets ==
  ASSUME off \in Clocks, NEW n \in Nodes \cup Finders
  PROVE  off[n] \in 0 .. (Lead + Skew) /\ off[Holder] = Lead
BY NetworkAssumption

LEMMA Expiries ==
  ASSUME off \in Clocks, NEW e \in Exps, NEW n \in Nodes \cup Finders
  PROVE  /\ IfLive(e, n) \in Exps /\ IfLive(e, n) <= e
         /\ IfLive(e, n) # 0 => IfLive(e, n) = e /\ Live(e, n)
         /\ Sooner(e) \in Exps /\ Sooner(e) <= e
         /\ e # 0 => Sooner(e) = e - 1
         /\ e = 0 => Sooner(e) = 0
         /\ Clamped(e, n) \in Exps /\ Clamped(e, n) <= e
         /\ CacheClamped(e, n) \in Exps /\ CacheClamped(e, n) <= e
BY Constants, Offsets DEF Exps, IfLive, Live, Sooner, Clamped, CacheClamped

LEMMA InitType == Init => TypeInv
<1> SUFFICES ASSUME Init PROVE TypeInv
  OBVIOUS
<1>1. IsFiniteSet(late) /\ Cardinality(late) = 0
  BY FS_EmptySet DEF Init
<1>2. passes \in [Calls -> Passes]
  BY Constants DEF Init, Idle, Passes, Exps
<1>3. announced \in BOOLEAN /\ kept \subseteq Nodes
  BY DEF Init
<1> QED
  BY <1>1, <1>2, <1>3, Constants DEF Init, TypeInv, TypeOK, Exps

(* The steps that leave the PUTs that are late alone.                      *)
LEMMA SameLate ==
  ASSUME TypeInv, late' = late, faults' \in 0..MaxFaults, faults' >= faults
  PROVE  /\ late' \subseteq [to : Replicas, exp : Exps]
         /\ Cardinality(late') <= faults' /\ IsFiniteSet(late')
BY FS_CardinalityType DEF TypeInv, TypeOK

LEMMA ForgetsType ==
  ASSUME TypeInv, NEW n \in Nodes, held' = [held EXCEPT ![n] = 0]
  PROVE  held' \in [Nodes -> Exps]
BY Constants DEF TypeInv, TypeOK, Exps

LEMMA PublishType ==
  ASSUME TypeInv, NEW c \in Calls, Publish(c)
  PROVE  /\ held' \in [Nodes -> Exps]
         /\ passes' \in [Calls -> Passes]
         /\ silent' \in 0..Top /\ dark' \in 0..CacheTtl
         /\ faults' \in 0..MaxFaults /\ faults' >= faults
<1>1. LocalRecord \in Exps /\ Holder \in Nodes
  BY Constants, Offsets DEF TypeInv, TypeOK, LocalRecord, Exps, Nodes
<1>2. [exp |-> LocalRecord, todo |-> Replicas, age |-> 0]
        \in Passes
  BY <1>1, Constants DEF Passes
<1>3. /\ held' \in [Nodes -> Exps] /\ dark' \in 0..CacheTtl
      /\ faults' \in 0..MaxFaults /\ faults' >= faults
  BY <1>1, Constants DEF Publish, OwnPut, OwnPutRefused, TypeInv, TypeOK
<1> QED  BY <1>2, <1>3, Constants DEF Publish, TypeInv, TypeOK

LEMMA AdmitType ==
  ASSUME TypeInv, NEW r \in Replicas, NEW exp \in Exps, Admit(r, exp)
  PROVE  /\ held' \in [Nodes -> Exps] /\ dark' \in 0..CacheTtl
BY Constants, Expiries DEF TypeInv, TypeOK, Admit, Nodes

LEMMA ReachedType ==
  ASSUME TypeInv, NEW c \in Calls, NEW r \in Replicas, Reached(c, r)
  PROVE  passes' \in [Calls -> Passes]
<1>1. Idle \in Passes
  BY Constants DEF Idle, Passes, Exps
<1>2. passes[c] \in Passes
  BY DEF TypeInv, TypeOK
<1>3. [exp |-> passes[c].exp, todo |-> passes[c].todo \ {r}, age |-> passes[c].age]
        \in Passes
  BY <1>2 DEF Passes
<1> QED  BY <1>1, <1>3 DEF Reached, TypeInv, TypeOK

LEMMA NextType == TypeInv /\ [Next]_vars => TypeInv'
<1> SUFFICES ASSUME TypeInv, [Next]_vars PROVE TypeInv'
  OBVIOUS
<1> USE Constants
<1>1. ASSUME NEW a \in Announcers, Announce(a) PROVE TypeInv'
  <2>1. Publish(a) /\ a \in Calls /\ late' = late
    BY <1>1 DEF Announce, Calls
  <2>2. kept' \subseteq Nodes
    BY <1>1 DEF Announce, TypeInv, TypeOK, Nodes
  <2> QED  BY <1>1, <2>1, <2>2, PublishType, SameLate DEF Announce, TypeInv, TypeOK
<1>2. CASE Republish
  <2>1. CASE announced
    <3>1. Publish("republish") /\ "republish" \in Calls /\ late' = late
      BY <1>2, <2>1 DEF Republish, Calls
    <3> QED  BY <1>2, <3>1, PublishType, SameLate DEF Republish, TypeInv, TypeOK
  <2>2. CASE ~announced
    BY <1>2, <2>2 DEF Republish, TypeInv, TypeOK
  <2> QED  BY <2>1, <2>2
<1>3. ASSUME NEW c \in Calls, NEW r \in Replicas, Put(c, r) PROVE TypeInv'
  <2>1. passes[c].exp \in Exps
    BY DEF TypeInv, TypeOK, Passes
  <2> QED  BY <1>3, <2>1, AdmitType, ReachedType DEF Put, TypeInv, TypeOK, Nodes
<1>4. ASSUME NEW c \in Calls, NEW r \in Replicas, PutFails(c, r) PROVE TypeInv'
  <2>1. late' = late /\ faults' \in 0..MaxFaults /\ faults' >= faults
    BY <1>4 DEF PutFails, Fault, TypeInv, TypeOK
  <2>2. kept' \subseteq Nodes
    BY <1>4 DEF PutFails, Fault, TypeInv, TypeOK
  <2> QED
    BY <1>4, <2>1, <2>2, SameLate, ReachedType DEF PutFails, TypeInv, TypeOK
<1>5. ASSUME NEW c \in Calls, NEW r \in Replicas, PutTimesOut(c, r) PROVE TypeInv'
  <2> DEFINE m == [to |-> r, exp |-> passes[c].exp]
  <2>1. m \in [to : Replicas, exp : Exps]
    BY DEF TypeInv, TypeOK, Passes
  <2>2. IsFiniteSet(late \cup {m}) /\ Cardinality(late \cup {m}) <= Cardinality(late) + 1
    <3>1. IsFiniteSet(late) /\ Cardinality(late) \in Nat
      BY FS_CardinalityType DEF TypeInv
    <3> HIDE DEF m
    <3> QED  BY <3>1, FS_AddElement
  <2>3. late' \subseteq [to : Replicas, exp : Exps] /\ IsFiniteSet(late')
        /\ Cardinality(late') <= faults' /\ faults' \in 0..MaxFaults
    BY <1>5, <2>1, <2>2, FS_CardinalityType DEF PutTimesOut, Fault, TypeInv, TypeOK
  <2> QED  BY <1>5, <2>3, ReachedType DEF PutTimesOut, Fault, TypeInv, TypeOK
<1>6. CASE Withdraw
  BY <1>6 DEF Withdraw, TypeInv, TypeOK
<1>7. CASE Retract
  <2>1. Holder \in Nodes /\ faults' = faults /\ faults \in 0..MaxFaults
    BY <1>7 DEF Retract, Nodes, TypeInv, TypeOK
  <2> QED
    BY <1>7, <2>1, SameLate, ForgetsType DEF Retract, TypeInv, TypeOK
<1>8. CASE HolderRestarts
  <2>1. Holder \in Nodes /\ faults' = faults /\ faults \in 0..MaxFaults
    BY <1>8 DEF HolderRestarts, Nodes, TypeInv, TypeOK
  <2>2. Idle \in Passes
    BY DEF Idle, Passes, Exps
  <2>3. passes' \in [Calls -> Passes] /\ due' \in 0..Interval
    BY <1>8, <2>2 DEF HolderRestarts
  <2> QED
    BY <1>8, <2>1, <2>3, SameLate, ForgetsType DEF HolderRestarts, TypeInv, TypeOK
<1>9. ASSUME NEW m \in late, Arrives(m) PROVE TypeInv'
  <2>1. m.to \in Replicas /\ m.exp \in Exps
    BY DEF TypeInv, TypeOK
  <2>2. IsFiniteSet(late') /\ Cardinality(late') <= Cardinality(late)
    BY <1>9, FS_Subset DEF Arrives, TypeInv
  <2>3. Cardinality(late) \in Nat /\ Cardinality(late') \in Nat
    BY <2>2, FS_CardinalityType DEF TypeInv
  <2>4. Cardinality(late') <= faults' /\ late' \subseteq [to : Replicas, exp : Exps]
    BY <1>9, <2>2, <2>3 DEF Arrives, TypeInv, TypeOK
  <2> QED  BY <1>9, <2>1, <2>2, <2>4, AdmitType DEF Arrives, TypeInv, TypeOK
<1>10. ASSUME NEW r \in Replicas, RetractArrives(r) PROVE TypeInv'
  <2>1. r \in Nodes /\ faults' = faults /\ faults \in 0..MaxFaults
    BY <1>10 DEF RetractArrives, Nodes, TypeInv, TypeOK
  <2>2. held' \in [Nodes -> Exps]
    BY <1>10, <2>1, ForgetsType DEF RetractArrives
  <2> QED
    BY <1>10, <2>1, <2>2, SameLate DEF RetractArrives, TypeInv, TypeOK
<1>11. ASSUME NEW n \in Nodes, LosesRecord(n) PROVE TypeInv'
  <2>1. late' = late /\ faults' \in 0..MaxFaults /\ faults' >= faults
    BY <1>11 DEF LosesRecord, Fault, TypeInv, TypeOK
  <2>2. kept' \subseteq Nodes
    BY <1>11 DEF LosesRecord, Fault, TypeInv, TypeOK
  <2>3. held' \in [Nodes -> Exps]
    BY <1>11, ForgetsType DEF LosesRecord
  <2> QED
    BY <1>11, <2>1, <2>2, <2>3, SameLate DEF LosesRecord, TypeInv, TypeOK
<1>12. ASSUME NEW f \in Finders, Forget(f) PROVE TypeInv'
  BY <1>12 DEF Forget, TypeInv, TypeOK, Exps
<1>13. ASSUME NEW f \in Finders, NEW n \in Nodes, Find(f, n) PROVE TypeInv'
  BY <1>13, Expiries DEF Find, TypeInv, TypeOK
<1>14. CASE Tick
  <2> DEFINE older == [m \in late |-> [to |-> m.to, exp |-> Sooner(m.exp)]]
  <2>1. late' = {older[m] : m \in late}
    BY <1>14 DEF Tick
  <2>2. IsFiniteSet(late') /\ Cardinality(late') <= Cardinality(late)
    <3>1. older \in Surjection(late, late')
      BY <2>1 DEF Surjection
    <3> HIDE DEF older
    <3> QED  BY <3>1, FS_Surjection DEF TypeInv
  <2>3. Cardinality(late) \in Nat /\ Cardinality(late') \in Nat
    BY <2>2, FS_CardinalityType DEF TypeInv
  <2>4. late' \subseteq [to : Replicas, exp : Exps]
    <3>1. Holder \in Nodes /\ off \in Clocks
      BY DEF TypeInv, TypeOK, Nodes
    <3>2. \A m \in late : m.to \in Replicas /\ Sooner(m.exp) \in Exps
      BY <3>1, Expiries DEF TypeInv, TypeOK
    <3> QED  BY <1>14, <3>2 DEF Tick
  <2>5. held' \in [Nodes -> Exps] /\ cached' \in [Finders -> Exps]
    BY <1>14, Expiries DEF Tick, TypeInv, TypeOK
  <2>6. passes' \in [Calls -> Passes]
    <3> SUFFICES ASSUME NEW c \in Calls PROVE passes'[c] \in Passes
      BY <1>14 DEF Tick
    <3>1. Idle \in Passes
      BY DEF Idle, Passes, Exps
    <3>2. ASSUME UnderWay(c)
          PROVE  [exp |-> Sooner(passes[c].exp), todo |-> passes[c].todo,
                  age |-> passes[c].age + 1] \in Passes
      <4>1. passes[c].exp \in Exps /\ passes[c].todo \in SUBSET Replicas
            /\ passes[c].age \in 0..PassTime
        BY DEF TypeInv, TypeOK, Passes
      <4>2. Holder \in Nodes /\ off \in Clocks
        BY DEF TypeInv, TypeOK, Nodes
      <4>3. Sooner(passes[c].exp) \in Exps
        BY <4>1, <4>2, Expiries
      <4>4. passes[c].age + 1 \in 0..PassTime
        BY <1>14, <3>2, <4>1 DEF Tick
      <4> QED  BY <4>1, <4>3, <4>4 DEF Passes
    <3> QED  BY <1>14, <3>1, <3>2 DEF Tick
  <2>7. due' \in 0..Interval /\ silent' \in 0..Top /\ dark' \in 0..CacheTtl
    <3>1. due \in 0..Interval /\ silent \in 0..Top /\ dark \in 0..CacheTtl
      BY DEF TypeInv, TypeOK
    <3>2. /\ due > 0 /\ due' = due - 1 /\ silent' = Least(silent + 1, Top)
          /\ dark' = 0 \/ dark' = Least(dark + 1, CacheTtl)
      BY <1>14 DEF Tick
    <3> QED  BY <3>1, <3>2
  <2> QED
    BY <1>14, <2>2, <2>3, <2>4, <2>5, <2>6, <2>7 DEF Tick, TypeInv, TypeOK
<1>15. CASE UNCHANGED vars
  BY <1>15 DEF vars, TypeInv, TypeOK
<1> QED
  BY <1>1, <1>2, <1>3, <1>4, <1>5, <1>6, <1>7, <1>8, <1>9, <1>10, <1>11, <1>12,
     <1>13, <1>14, <1>15 DEF Next, Replication

-----------------------------------------------------------------------------
(* No record outlives the last one built.                                  *)
LEMMA InitAges == Init => AgesOut
BY Constants DEF Init, AgesOut, Remaining, Idle

LEMMA PublishAges ==
  ASSUME TypeInv, NEW c \in Calls, Publish(c), cached' = cached, late' = late
  PROVE  AgesOut'
<1>1. silent' = 0 /\ LocalRecord = Top
  BY Constants, Offsets DEF Publish, LocalRecord, TypeInv, TypeOK, Nodes
<1>2. \A n \in Nodes : held'[n] <= Top
  BY <1>1, Constants DEF Publish, OwnPut, OwnPutRefused, TypeInv, TypeOK, Exps
<1>3. \A f \in Finders : cached'[f] <= Top
  BY DEF TypeInv, TypeOK, Exps
<1>4. \A d \in Calls : passes'[d].exp <= Top
  BY <1>1, Constants DEF Publish, TypeInv, TypeOK, Exps, Passes
<1>5. \A m \in late' : m.exp <= Top
  BY DEF TypeInv, TypeOK, Exps
<1> QED  BY <1>1, <1>2, <1>3, <1>4, <1>5, Constants DEF AgesOut, Remaining

LEMMA AdmitAges ==
  ASSUME TypeInv, AgesOut, NEW r \in Replicas, NEW exp \in Exps, exp <= Remaining,
         Admit(r, exp)
  PROVE  \A n \in Nodes : held'[n] <= Remaining
<1>1. IfLive(Clamped(exp, r), r) \in Exps /\ IfLive(Clamped(exp, r), r) <= exp
  BY Constants, Expiries DEF TypeInv, TypeOK, Nodes, Exps
<1>2. Remaining \in Int
  BY Constants DEF TypeInv, TypeOK, Remaining
<1>3. IfLive(Clamped(exp, r), r) <= Remaining
  BY <1>1, <1>2 DEF Exps
<1> QED  BY <1>3 DEF Admit, AgesOut, TypeInv, TypeOK

LEMMA ReachedAges ==
  ASSUME TypeInv, AgesOut, NEW c \in Calls, NEW r \in Replicas, Reached(c, r)
  PROVE  \A d \in Calls : passes'[d].exp <= Remaining
<1>1. 0 <= Remaining
  BY Constants DEF TypeInv, TypeOK, Remaining
<1> QED  BY <1>1 DEF Reached, Idle, AgesOut, TypeInv, TypeOK

LEMMA NextAges == TypeInv /\ AgesOut /\ [Next]_vars => AgesOut'
<1> SUFFICES ASSUME TypeInv, AgesOut, [Next]_vars PROVE AgesOut'
  OBVIOUS
<1> USE Constants
<1>a. Remaining \in Int /\ 0 <= Remaining
  BY DEF TypeInv, TypeOK, Remaining
<1>b. ASSUME NEW n \in Nodes, held' = [held EXCEPT ![n] = 0]
      PROVE  \A k \in Nodes : held'[k] <= Remaining
  BY <1>a, <1>b DEF AgesOut, TypeInv, TypeOK
<1>c. ASSUME silent' = silent PROVE Remaining' = Remaining
  BY <1>c DEF Remaining
<1>1. ASSUME NEW a \in Announcers, Announce(a) PROVE AgesOut'
  BY <1>1, PublishAges DEF Announce, Calls
<1>2. CASE Republish
  <2>1. CASE announced
    BY <1>2, <2>1, PublishAges DEF Republish, Calls
  <2>2. CASE ~announced
    BY <1>2, <2>2 DEF Republish, AgesOut, Remaining
  <2> QED  BY <2>1, <2>2
<1>3. ASSUME NEW c \in Calls, NEW r \in Replicas, Put(c, r) PROVE AgesOut'
  <2>1. passes[c].exp \in Exps /\ passes[c].exp <= Remaining
    BY DEF TypeInv, TypeOK, Passes, AgesOut
  <2> QED  BY <1>3, <2>1, <1>c, AdmitAges, ReachedAges DEF Put, AgesOut
<1>4. ASSUME NEW c \in Calls, NEW r \in Replicas, PutFails(c, r) PROVE AgesOut'
  BY <1>4, <1>c, ReachedAges DEF PutFails, AgesOut
<1>5. ASSUME NEW c \in Calls, NEW r \in Replicas, PutTimesOut(c, r) PROVE AgesOut'
  BY <1>5, <1>c, ReachedAges DEF PutTimesOut, AgesOut
<1>6. CASE Withdraw
  BY <1>6, <1>c DEF Withdraw, AgesOut
<1>7. CASE Retract
  BY <1>7, <1>b, <1>c DEF Retract, AgesOut, Nodes
<1>8. CASE HolderRestarts
  BY <1>8, <1>a, <1>b, <1>c DEF HolderRestarts, AgesOut, Nodes, Idle
<1>9. ASSUME NEW m \in late, Arrives(m) PROVE AgesOut'
  <2>1. m.to \in Replicas /\ m.exp \in Exps /\ m.exp <= Remaining
    BY DEF TypeInv, TypeOK, AgesOut
  <2> QED  BY <1>9, <2>1, <1>c, AdmitAges DEF Arrives, AgesOut
<1>10. ASSUME NEW r \in Replicas, RetractArrives(r) PROVE AgesOut'
  BY <1>10, <1>b, <1>c DEF RetractArrives, AgesOut, Nodes
<1>11. ASSUME NEW n \in Nodes, LosesRecord(n) PROVE AgesOut'
  BY <1>11, <1>b, <1>c DEF LosesRecord, Fault, AgesOut
<1>12. ASSUME NEW f \in Finders, Forget(f) PROVE AgesOut'
  BY <1>12, <1>a, <1>c DEF Forget, AgesOut, TypeInv, TypeOK
<1>13. ASSUME NEW f \in Finders, NEW n \in Nodes, Find(f, n) PROVE AgesOut'
  <2>1. held[n] \in Exps /\ held[n] <= Remaining
    BY DEF TypeInv, TypeOK, AgesOut
  <2>2. CacheClamped(held[n], f) \in Exps /\ CacheClamped(held[n], f) <= held[n]
    BY <2>1, Expiries DEF TypeInv, TypeOK
  <2>3. CacheClamped(held[n], f) <= Remaining
    BY <2>1, <2>2, <1>a DEF Exps
  <2> QED  BY <1>13, <2>3, <1>c DEF Find, AgesOut, TypeInv, TypeOK
<1>14. CASE Tick
  <2>1. ASSUME NEW e \in Exps, e <= Remaining, NEW n \in Nodes \cup Finders
        PROVE  Sooner(e) <= Remaining' /\ IfLive(Sooner(e), n) <= Remaining'
    <3>1. silent \in 0..Top /\ silent' = Least(silent + 1, Top)
      BY <1>14 DEF Tick, TypeInv, TypeOK
    <3>2. Remaining' = IF silent = Top THEN 0 ELSE Remaining - 1
      BY <3>1 DEF Remaining
    <3>3. Sooner(e) <= Remaining' /\ Sooner(e) \in Exps
      BY <1>a, <2>1, <3>1, <3>2 DEF Sooner, Exps, Remaining
    <3>4. IfLive(Sooner(e), n) \in Exps /\ IfLive(Sooner(e), n) <= Sooner(e)
      BY <3>3, Expiries DEF TypeInv, TypeOK
    <3> QED  BY <3>2, <3>3, <3>4, <1>a DEF Exps
  <2>2. \A n \in Nodes : held'[n] <= Remaining'
    BY <1>14, <2>1 DEF Tick, TypeInv, TypeOK, AgesOut
  <2>3. \A f \in Finders : cached'[f] <= Remaining'
    BY <1>14, <2>1 DEF Tick, TypeInv, TypeOK, AgesOut
  <2>4. \A c \in Calls : passes'[c].exp <= Remaining'
    <3> SUFFICES ASSUME NEW c \in Calls PROVE passes'[c].exp <= Remaining'
      OBVIOUS
    <3>1. Holder \in Nodes /\ passes[c].exp \in Exps /\ passes[c].exp <= Remaining
      BY DEF Nodes, TypeInv, TypeOK, Passes, AgesOut
    <3>2. 0 \in Exps /\ Sooner(0) = 0
      BY DEF Exps, Sooner
    <3> QED  BY <1>14, <1>a, <2>1, <3>1, <3>2 DEF Tick, Idle
  <2>5. \A m \in late' : m.exp <= Remaining'
    BY <1>14, <2>1 DEF Tick, TypeInv, TypeOK, AgesOut, Nodes
  <2> QED  BY <2>2, <2>3, <2>4, <2>5 DEF AgesOut
<1>15. CASE UNCHANGED vars
  BY <1>15 DEF vars, AgesOut, Remaining
<1> QED
  BY <1>1, <1>2, <1>3, <1>4, <1>5, <1>6, <1>7, <1>8, <1>9, <1>10, <1>11, <1>12,
     <1>13, <1>14, <1>15 DEF Next, Replication

-----------------------------------------------------------------------------
(* Nothing expired is kept in a store.                                     *)
LEMMA InitHeld == Init => HeldLive
BY DEF Init, HeldLive

LEMMA OneHeld ==
  ASSUME TypeInv, HeldLive, off' = off, NEW n \in Nodes, NEW x,
         held' = [held EXCEPT ![n] = x], x = 0 \/ x > off[n]
  PROVE  HeldLive'
BY DEF TypeInv, TypeOK, HeldLive, Live

LEMMA NextHeld == TypeInv /\ HeldLive /\ [Next]_vars => HeldLive'
<1> SUFFICES ASSUME TypeInv, HeldLive, [Next]_vars PROVE HeldLive'
  OBVIOUS
<1>a. ASSUME held' = held, off' = off PROVE HeldLive'
  BY <1>a DEF HeldLive, Live
<1>b. ASSUME NEW c \in Calls, Publish(c), off' = off PROVE HeldLive'
  <2>1. LocalRecord > off[Holder] /\ Holder \in Nodes
    BY Constants, Offsets DEF LocalRecord, TypeInv, TypeOK, Nodes
  <2>2. CASE OwnPut
    BY <1>b, <2>1, <2>2, OneHeld DEF OwnPut
  <2>3. CASE OwnPutRefused
    BY <1>b, <2>3, <1>a DEF OwnPutRefused
  <2> QED  BY <1>b, <2>2, <2>3 DEF Publish
<1>c. ASSUME NEW r \in Replicas, NEW exp, Admit(r, exp), off' = off PROVE HeldLive'
  BY <1>c, OneHeld DEF Admit, IfLive, Live, Nodes
<1>1. ASSUME NEW a \in Announcers, Announce(a) PROVE HeldLive'
  BY <1>1, <1>b DEF Announce, Calls
<1>2. CASE Republish
  BY <1>2, <1>a, <1>b DEF Republish, Calls
<1>3. ASSUME NEW c \in Calls, NEW r \in Replicas, Put(c, r) PROVE HeldLive'
  BY <1>3, <1>c DEF Put
<1>4. ASSUME NEW c \in Calls, NEW r \in Replicas, PutFails(c, r) \/ PutTimesOut(c, r)
      PROVE  HeldLive'
  BY <1>4, <1>a DEF PutFails, PutTimesOut
<1>5. CASE Withdraw
  BY <1>5, <1>a DEF Withdraw
<1>6. CASE Retract
  BY <1>6, OneHeld DEF Retract, Nodes
<1>7. CASE HolderRestarts
  BY <1>7, OneHeld DEF HolderRestarts, Nodes
<1>8. ASSUME NEW m \in late, Arrives(m) PROVE HeldLive'
  <2>1. m.to \in Replicas
    BY DEF TypeInv, TypeOK
  <2> QED  BY <1>8, <1>c, <2>1 DEF Arrives
<1>9. ASSUME NEW r \in Replicas, RetractArrives(r) PROVE HeldLive'
  BY <1>9, OneHeld DEF RetractArrives, Nodes
<1>10. ASSUME NEW n \in Nodes, LosesRecord(n) PROVE HeldLive'
  BY <1>10, OneHeld DEF LosesRecord
<1>11. ASSUME NEW f \in Finders, Forget(f) \/ \E n \in Nodes : Find(f, n) PROVE HeldLive'
  BY <1>11, <1>a DEF Forget, Find
<1>12. CASE Tick
  BY <1>12 DEF Tick, HeldLive, IfLive, Live
<1>13. CASE UNCHANGED vars
  BY <1>13, <1>a DEF vars
<1> QED
  BY <1>1, <1>2, <1>3, <1>4, <1>5, <1>6, <1>7, <1>8, <1>9, <1>10, <1>11, <1>12, <1>13
  DEF Next, Replication

-----------------------------------------------------------------------------
(* A cached record is no older than the darkness.                          *)
LEMMA InitCache == Init => CacheAges
BY DEF Init, CacheAges, Serves

(* The steps that write no cache and take records away or mark their time. *)
LEMMA CacheKept ==
  ASSUME TypeInv, CacheAges, off' = off, cached' = cached, dark' \in {0, dark},
         \A n \in Nodes : held'[n] # 0 => Serves(n) \/ dark' = 0
  PROVE  CacheAges'
<1> USE Constants
<1>1. \A f \in Finders : off[f] \in Int /\ cached[f] \in Int
  BY Offsets DEF TypeInv, TypeOK, Exps
<1>2. dark \in 0..CacheTtl
  BY DEF TypeInv, TypeOK
<1>3. \A n \in Nodes : Serves(n)' => dark' = 0
  BY DEF CacheAges, Serves
<1>4. ASSUME NEW f \in Finders, cached'[f] # 0
      PROVE  Live(cached[f], f)' /\ cached'[f] <= off'[f] + CacheTtl - dark'
  BY <1>1, <1>2, <1>4 DEF CacheAges, Live
<1> QED  BY <1>3, <1>4 DEF CacheAges

LEMMA AdmitDark ==
  ASSUME TypeInv, NEW r \in Replicas, NEW exp, Admit(r, exp)
  PROVE  /\ dark' \in {0, dark}
         /\ \A n \in Nodes : held'[n] # 0 => Serves(n) \/ dark' = 0
BY DEF Admit, IfLive, Serves, TypeInv, TypeOK

LEMMA NextCache == TypeInv /\ CacheAges /\ [Next]_vars => CacheAges'
<1> SUFFICES ASSUME TypeInv, CacheAges, [Next]_vars PROVE CacheAges'
  OBVIOUS
<1> USE Constants
<1>a. \A n \in Nodes : held[n] # 0 => Serves(n)
  BY DEF Serves
<1>b. ASSUME NEW n \in Nodes, held' = [held EXCEPT ![n] = 0]
      PROVE  \A k \in Nodes : held'[k] # 0 => Serves(k)
  BY <1>b DEF TypeInv, TypeOK, Serves
<1>1. ASSUME NEW a \in Announcers, Announce(a) PROVE CacheAges'
  <2>1. /\ dark' \in {0, dark} /\ \A n \in Nodes : held'[n] # 0 => Serves(n) \/ dark' = 0
    BY <1>1, <1>a DEF Announce, Publish, OwnPut, OwnPutRefused
  <2> QED  BY <1>1, <2>1, CacheKept DEF Announce
<1>2. CASE Republish
  <2>1. /\ dark' \in {0, dark} /\ \A n \in Nodes : held'[n] # 0 => Serves(n) \/ dark' = 0
    BY <1>2, <1>a DEF Republish, Publish, OwnPut, OwnPutRefused
  <2> QED  BY <1>2, <2>1, CacheKept DEF Republish
<1>3. ASSUME NEW c \in Calls, NEW r \in Replicas, Put(c, r) PROVE CacheAges'
  BY <1>3, AdmitDark, CacheKept DEF Put
<1>4. ASSUME NEW c \in Calls, NEW r \in Replicas, PutFails(c, r) PROVE CacheAges'
  BY <1>4, <1>a, CacheKept DEF PutFails
<1>5. ASSUME NEW c \in Calls, NEW r \in Replicas, PutTimesOut(c, r) PROVE CacheAges'
  BY <1>5, <1>a, CacheKept DEF PutTimesOut
<1>6. CASE Withdraw
  BY <1>6, <1>a, CacheKept DEF Withdraw
<1>7. CASE Retract
  BY <1>7, <1>b, CacheKept DEF Retract, Nodes
<1>8. CASE HolderRestarts
  BY <1>8, <1>b, CacheKept DEF HolderRestarts, Nodes
<1>9. ASSUME NEW m \in late, Arrives(m) PROVE CacheAges'
  <2>1. m.to \in Replicas
    BY DEF TypeInv, TypeOK
  <2> QED  BY <1>9, <2>1, AdmitDark, CacheKept DEF Arrives
<1>10. ASSUME NEW r \in Replicas, RetractArrives(r) PROVE CacheAges'
  BY <1>10, <1>b, CacheKept DEF RetractArrives, Nodes
<1>11. ASSUME NEW n \in Nodes, LosesRecord(n) PROVE CacheAges'
  BY <1>11, <1>b, CacheKept DEF LosesRecord
<1>12. ASSUME NEW f \in Finders, Forget(f) PROVE CacheAges'
  BY <1>12 DEF Forget, CacheAges, Serves, Live, TypeInv, TypeOK
<1>13. ASSUME NEW f \in Finders, NEW n \in Nodes, Find(f, n) PROVE CacheAges'
  <2>1. dark = 0 /\ dark' = dark /\ off' = off /\ held' = held
    BY <1>13 DEF Find, CacheAges
  <2>2. held[n] \in Nat /\ off[f] \in Nat
    BY Offsets DEF TypeInv, TypeOK, Exps
  <2>3. CacheClamped(held[n], f) <= off[f] + CacheTtl - dark
    BY <2>1, <2>2 DEF CacheClamped
  <2>4. ASSUME NEW g \in Finders, cached'[g] # 0
        PROVE  Live(cached[g], g)' /\ cached'[g] <= off'[g] + CacheTtl - dark'
    <3>1. CASE g = f
      BY <1>13, <2>1, <2>3, <3>1 DEF Find, TypeInv, TypeOK, Live
    <3>2. CASE g # f
      BY <1>13, <2>1, <2>4, <3>2 DEF Find, CacheAges, TypeInv, TypeOK, Live
    <3> QED  BY <3>1, <3>2
  <2> QED  BY <2>1, <2>4 DEF CacheAges, Serves
<1>14. CASE Tick
  <2>1. /\ dark \in 0..CacheTtl /\ off' = off
        /\ dark' = 0 \/ dark' = Least(dark + 1, CacheTtl)
        /\ (\E n \in Nodes : Serves(n)) => dark' = 0
    BY <1>14 DEF Tick, TypeInv, TypeOK
  <2>2. ASSUME NEW n \in Nodes, held'[n] # 0 PROVE dark' = 0
    <3>1. held[n] \in Exps /\ held'[n] = IfLive(Sooner(held[n]), n)
      BY <1>14 DEF Tick, TypeInv, TypeOK
    <3>2. Serves(n)
      BY <2>2, <3>1 DEF Serves, Sooner, IfLive
    <3> QED  BY <2>1, <3>2
  <2>3. ASSUME NEW f \in Finders, cached'[f] # 0
        PROVE  Live(cached[f], f)' /\ cached'[f] <= off'[f] + CacheTtl - dark'
    <3>1. cached[f] \in Exps /\ off[f] \in Nat
      BY Offsets DEF TypeInv, TypeOK
    <3>2. cached'[f] = IfLive(Sooner(cached[f]), f)
      BY <1>14 DEF Tick
    <3>3. Live(cached'[f], f) /\ cached'[f] = Sooner(cached[f])
      BY <2>3, <3>2 DEF IfLive
    <3>4. cached[f] # 0 /\ cached'[f] = cached[f] - 1
      BY <2>3, <3>1, <3>3 DEF Sooner, Exps
    <3>5. cached[f] <= off[f] + CacheTtl - dark
      BY <3>4 DEF CacheAges
    <3>6. cached'[f] <= off[f] + CacheTtl - dark'
      BY <2>1, <3>1, <3>4, <3>5 DEF Exps
    <3> QED  BY <2>1, <3>3, <3>6 DEF Live
  <2> QED  BY <2>2, <2>3 DEF CacheAges, Serves
<1>15. CASE UNCHANGED vars
  BY <1>15, <1>a, CacheKept DEF vars
<1> QED
  BY <1>1, <1>2, <1>3, <1>4, <1>5, <1>6, <1>7, <1>8, <1>9, <1>10, <1>11, <1>12,
     <1>13, <1>14, <1>15 DEF Next, Replication

-----------------------------------------------------------------------------
(* A pass is as old as its record.                                         *)
LEMMA InitPasses == Init => PassAges
BY DEF Init, PassAges, UnderWay, Idle, Calls

LEMMA ReachedPasses ==
  ASSUME TypeInv, PassAges, due' = due, NEW c \in Calls, NEW r \in Replicas, Reached(c, r)
  PROVE  PassAges'
BY DEF Reached, PassAges, UnderWay, Idle, TypeInv, TypeOK, Calls

LEMMA PublishPasses ==
  ASSUME TypeInv, PassAges, NEW c \in Calls, Publish(c),
         IF c = "republish" THEN due' = Interval ELSE due' = due
  PROVE  PassAges'
<1>1. LocalRecord = Top
  BY Constants, Offsets DEF LocalRecord, TypeInv, TypeOK, Nodes
<1>2. passes'[c] = [exp |-> Top, todo |-> Replicas, age |-> 0]
  BY <1>1 DEF Publish, TypeInv, TypeOK
<1>3. \A d \in Calls : d # c => passes'[d] = passes[d]
  BY DEF Publish, TypeInv, TypeOK
<1>4. \A d \in Calls : UnderWay(d)' => passes'[d].exp = Top - passes'[d].age
  BY <1>2, <1>3, Constants DEF PassAges, UnderWay
<1>5. UnderWay("republish")' => passes'["republish"].age = Interval - due'
  BY <1>2, <1>3, Constants DEF PassAges, UnderWay, Calls
<1> QED  BY <1>4, <1>5 DEF PassAges

LEMMA NextPasses == TypeInv /\ PassAges /\ [Next]_vars => PassAges'
<1> SUFFICES ASSUME TypeInv, PassAges, [Next]_vars PROVE PassAges'
  OBVIOUS
<1> USE Constants
<1>a. ASSUME passes' = passes, due' = due PROVE PassAges'
  BY <1>a DEF PassAges, UnderWay
<1>b. "republish" \in Calls /\ \A a \in Announcers : a \in Calls /\ a # "republish"
  BY NetworkAssumption DEF Calls
<1>1. ASSUME NEW a \in Announcers, Announce(a) PROVE PassAges'
  BY <1>1, <1>b, PublishPasses DEF Announce
<1>2. CASE Republish
  <2>1. CASE announced
    BY <1>2, <2>1, <1>b, PublishPasses DEF Republish
  <2>2. CASE ~announced
    <3>1. passes' = passes /\ ~UnderWay("republish")
      BY <1>2, <2>2 DEF Republish
    <3> QED  BY <3>1 DEF PassAges, UnderWay
  <2> QED  BY <2>1, <2>2
<1>3. ASSUME NEW c \in Calls, NEW r \in Replicas,
             Put(c, r) \/ PutFails(c, r) \/ PutTimesOut(c, r)
      PROVE  PassAges'
  BY <1>3, ReachedPasses DEF Put, PutFails, PutTimesOut
<1>4. CASE HolderRestarts
  BY <1>4, <1>b DEF HolderRestarts, PassAges, UnderWay, Idle
<1>5. CASE Tick
  <2>1. ASSUME NEW c \in Calls, UnderWay(c)'
        PROVE  /\ UnderWay(c) /\ passes'[c].age = passes[c].age + 1
               /\ passes'[c].exp = Top - passes'[c].age
    <3>1. passes'[c] = IF UnderWay(c)
                         THEN [exp |-> Sooner(passes[c].exp), todo |-> passes[c].todo,
                               age |-> passes[c].age + 1]
                         ELSE Idle
      BY <1>5 DEF Tick
    <3>2. UnderWay(c)
      BY <2>1, <3>1 DEF UnderWay, Idle
    <3>3. passes[c].age \in 0..PassTime /\ passes[c].exp = Top - passes[c].age
      BY <3>2 DEF PassAges, TypeInv, TypeOK, Passes
    <3>4. Sooner(passes[c].exp) = Top - (passes[c].age + 1)
      BY <3>3 DEF Sooner
    <3> QED  BY <3>1, <3>2, <3>4
  <2>2. due' = due - 1 /\ due \in Nat
    BY <1>5 DEF Tick, TypeInv, TypeOK
  <2> QED  BY <2>1, <2>2, <1>b DEF PassAges
<1>6. CASE Withdraw \/ Retract
  BY <1>6, <1>a DEF Withdraw, Retract
<1>7. ASSUME NEW m \in late, Arrives(m) PROVE PassAges'
  BY <1>7, <1>a DEF Arrives
<1>8. ASSUME NEW n \in Nodes, RetractArrives(n) \/ LosesRecord(n) PROVE PassAges'
  BY <1>8, <1>a DEF RetractArrives, LosesRecord
<1>9. ASSUME NEW f \in Finders, NEW n \in Nodes, Forget(f) \/ Find(f, n) PROVE PassAges'
  BY <1>9, <1>a DEF Forget, Find
<1>10. CASE UNCHANGED vars
  BY <1>10, <1>a DEF vars
<1> QED
  BY <1>1, <1>2, <1>3, <1>4, <1>5, <1>6, <1>7, <1>8, <1>9, <1>10
  DEF Next, Replication, Nodes

-----------------------------------------------------------------------------
(* What is kept lasts until the pass after the next has come to it.        *)
LEMMA InitKept == Init => KeptLasts
BY DEF Init, KeptLasts

LEMMA SinceBound ==
  ASSUME TypeInv, PassAges, NEW n \in Nodes
  PROVE  /\ Since(n) \in 0..(Interval + PassTime)
         /\ n \notin passes["republish"].todo => Since(n) = Interval - due
         /\ n \in passes["republish"].todo =>
              /\ UnderWay("republish")
              /\ Since(n) = Interval + passes["republish"].age
<1>1. due \in 0..Interval /\ passes["republish"].age \in 0..PassTime
  BY DEF TypeInv, TypeOK, Passes, Calls
<1>2. n \in passes["republish"].todo => UnderWay("republish")
  BY DEF UnderWay
<1> QED  BY <1>1, <1>2, Constants DEF Since, PassAges

(* A record that lasts so long is live by every clock.                     *)
LEMMA LastsLive ==
  ASSUME off \in Clocks, NEW n \in Nodes, NEW k \in Nodes \cup Finders,
         NEW s \in 0..(Interval + PassTime)
  PROVE  AtLeast(s, n) \in Int /\ AtLeast(s, n) > off[k] /\ AtLeast(s, n) > 0
BY Constants, Offsets DEF AtLeast

LEMMA KeptServes ==
  ASSUME TypeInv, PassAges, KeptLasts, NEW n \in kept
  PROVE  Serves(n)
<1>1. n \in Nodes /\ off \in Clocks /\ held[n] >= AtLeast(Since(n), n)
  BY DEF TypeInv, TypeOK, KeptLasts
<1>2. AtLeast(Since(n), n) \in Int /\ AtLeast(Since(n), n) > 0
  BY <1>1, SinceBound, LastsLive
<1> QED  BY <1>1, <1>2 DEF Serves

(* The longer since a record was built, the less it need last.            *)
LEMMA AtLeastFalls ==
  ASSUME off \in Clocks, NEW n \in Nodes, NEW s \in Nat, NEW u \in Nat, s <= u
  PROVE  /\ AtLeast(u, n) \in Int /\ AtLeast(s, n) \in Int
         /\ AtLeast(u, n) <= AtLeast(s, n)
BY Constants, Offsets DEF AtLeast

(* A PUT of a pass leaves what a replica kept since that pass will need.   *)
LEMMA AdmitLasts ==
  ASSUME TypeInv, NEW r \in Replicas, NEW a \in 0..PassTime, Admit(r, Top - a),
         NEW s \in Nat, a <= s + PassTime
  PROVE  held'[r] >= AtLeast(s, r)
<1>1. off[r] \in 0..(Lead + Skew) /\ r \in Nodes
  BY Offsets DEF TypeInv, TypeOK, Nodes
<1>2. Clamped(Top - a, r) = Least(Top - a, off[r] + Ttl)
  BY DEF Clamped
<1>3. Live(Clamped(Top - a, r), r)
  BY <1>1, <1>2, Constants DEF Live
<1>4. held'[r] = Least(Top - a, off[r] + Ttl)
  BY <1>1, <1>2, <1>3 DEF Admit, IfLive, TypeInv, TypeOK
<1> QED  BY <1>1, <1>4, Constants DEF AtLeast

(* A step that takes no record from the nodes it leaves kept, and leaves   *)
(* them no more to wait for.                                               *)
LEMMA KeptStays ==
  ASSUME TypeInv, KeptLasts, off' = off, kept' \subseteq kept,
         kept' # {} => announced',
         \A n \in kept' : held'[n] = held[n] /\ Since(n)' = Since(n)
  PROVE  KeptLasts'
BY DEF KeptLasts, AtLeast

LEMMA ReachedSince ==
  ASSUME TypeInv, NEW c \in Calls, NEW r \in Replicas, Reached(c, r), due' = due,
         NEW n \in Nodes
  PROVE  /\ n # r => Since(n)' = Since(n)
         /\ c = "republish" => Since(r)' = Interval - due
         /\ c # "republish" => Since(n)' = Since(n)
<1>1. passes'["republish"].todo = IF c = "republish" THEN passes["republish"].todo \ {r}
                                                     ELSE passes["republish"].todo
  BY DEF Reached, Idle, TypeInv, TypeOK, Calls
<1> QED  BY <1>1, Constants DEF Since, TypeInv, TypeOK

LEMMA NextKept == TypeInv /\ PassAges /\ KeptLasts /\ [Next]_vars => KeptLasts'
<1> SUFFICES ASSUME TypeInv, PassAges, KeptLasts, [Next]_vars PROVE KeptLasts'
  OBVIOUS
<1> USE Constants
<1>a. kept \subseteq Nodes /\ off \in Clocks
  BY DEF TypeInv, TypeOK
<1>b. ASSUME kept' = {} PROVE KeptLasts'
  BY <1>b DEF KeptLasts
<1>c. ASSUME passes' = passes, due' = due PROVE \A n : Since(n)' = Since(n)
  BY <1>c DEF Since
<1>p. Holder \in Nodes /\ Holder \notin Replicas /\ LocalRecord = Top
  BY <1>a, NetworkAssumption DEF Nodes, LocalRecord
<1>1. ASSUME NEW a \in Announcers, Announce(a) PROVE KeptLasts'
  <2>1. \A n \in Nodes : Since(n)' = Since(n)
    BY <1>1, NetworkAssumption DEF Announce, Publish, Since, TypeInv, TypeOK, Calls
  <2>2. CASE OwnPut
    <3>1. \A n \in Nodes : held'[n] = IF n = Holder THEN Top ELSE held[n]
      BY <2>2, <1>p DEF OwnPut, TypeInv, TypeOK
    <3>2. AtLeast(Since(Holder), Holder) <= Top
      BY <1>a, <1>p, SinceBound, Offsets DEF AtLeast
    <3>3. ASSUME NEW n \in kept' PROVE held'[n] >= AtLeast(Since(n), n)'
      <4>1. AtLeast(Since(n), n)' = AtLeast(Since(n), n) /\ n \in Nodes
        BY <1>1, <1>a, <1>p, <2>1 DEF Announce, AtLeast
      <4> QED  BY <1>1, <3>1, <3>2, <4>1 DEF Announce, KeptLasts
    <3> QED  BY <1>1, <3>3 DEF Announce, KeptLasts
  <2>3. CASE OwnPutRefused
    <3>1. held' = held /\ held'[Holder] = 0
      BY <2>3 DEF OwnPutRefused, Serves
    <3>2. kept' \subseteq kept /\ off' = off /\ announced'
      BY <1>1, <3>1 DEF Announce
    <3> QED  BY <1>a, <2>1, <3>1, <3>2, KeptStays
  <2> QED  BY <1>1, <2>2, <2>3 DEF Announce, Publish
<1>2. CASE Republish
  <2>1. CASE ~announced
    BY <1>2, <2>1, <1>b DEF Republish, KeptLasts
  <2>2. CASE announced
    <3>1. \A n \in Nodes : Since(n) \in 0..Interval
      BY <1>2, SinceBound DEF Republish, UnderWay, TypeInv, TypeOK
    <3>2. \A n \in Nodes : Since(n)' = IF n \in Replicas THEN Interval ELSE 0
      BY <1>2, <2>2 DEF Republish, Publish, Since, TypeInv, TypeOK, Calls
    <3>3. off' = off /\ kept' = kept /\ announced' /\ (OwnPut \/ OwnPutRefused)
      BY <1>2, <2>2 DEF Republish, Publish
    <3>4. ASSUME NEW n \in kept PROVE held'[n] >= AtLeast(Since(n), n)'
      <4>1. CASE n = Holder
        <5>1. OwnPut
          BY <3>3, <4>1, KeptServes DEF OwnPutRefused
        <5>2. Since(n)' = 0 /\ held'[n] = Top
          BY <1>p, <3>2, <4>1, <5>1 DEF OwnPut, TypeInv, TypeOK
        <5>3. AtLeast(Since(n), n)' = AtLeast(0, n)
          BY <5>2, <3>3 DEF AtLeast
        <5>4. AtLeast(0, n) <= Top
          BY <1>a, Offsets DEF AtLeast
        <5> QED  BY <5>2, <5>3, <5>4
      <4>2. CASE n # Holder
        <5>1. n \in Nodes /\ Since(n) \in 0..Interval /\ Since(n)' = Interval
          BY <1>a, <3>1, <3>2, <4>2 DEF Nodes
        <5>2. held'[n] = held[n] /\ held[n] >= AtLeast(Since(n), n) /\ held[n] \in Nat
          BY <3>3, <4>2, <5>1 DEF OwnPut, OwnPutRefused, KeptLasts, TypeInv, TypeOK, Exps
        <5>3. /\ AtLeast(Interval, n) <= AtLeast(Since(n), n)
              /\ AtLeast(Interval, n) \in Int /\ AtLeast(Since(n), n) \in Int
          BY <1>a, <5>1, AtLeastFalls
        <5>4. AtLeast(Since(n), n)' = AtLeast(Interval, n)
          BY <3>3, <5>1 DEF AtLeast
        <5> QED  BY <5>2, <5>3, <5>4
      <4> QED  BY <4>1, <4>2
    <3> QED  BY <3>3, <3>4 DEF KeptLasts
  <2> QED  BY <2>1, <2>2
<1>3. ASSUME NEW c \in Calls, NEW r \in Replicas, Put(c, r) PROVE KeptLasts'
  <2>1. CASE ~announced
    BY <1>3, <2>1, <1>b DEF Put, KeptLasts
  <2>2. CASE announced
    <3>1. Reached(c, r) /\ due' = due /\ off' = off /\ r \in Nodes /\ announced'
      BY <1>3, <2>2 DEF Put, Nodes
    <3>2. ASSUME NEW n \in kept', n # r PROVE held'[n] >= AtLeast(Since(n), n)'
      <4>1. n \in kept /\ held'[n] = held[n] /\ Since(n)' = Since(n)
        BY <1>3, <1>a, <3>1, <3>2, ReachedSince DEF Put, Admit, TypeInv, TypeOK
      <4> QED  BY <3>1, <4>1 DEF KeptLasts, AtLeast
    <3>3. held'[r] >= AtLeast(Since(r), r)'
      <4>1. /\ passes[c].exp = Top - passes[c].age /\ passes[c].age \in 0..PassTime
            /\ c = "republish" => passes[c].age = Interval - due
        BY <3>1 DEF Reached, UnderWay, PassAges, TypeInv, TypeOK, Passes
      <4>2. /\ Since(r)' \in Nat
            /\ passes[c].age <= Since(r)' + PassTime
        BY <3>1, <4>1, ReachedSince, SinceBound DEF TypeInv, TypeOK
      <4>3. held'[r] >= AtLeast(Since(r)', r)
        BY <1>3, <4>1, <4>2, AdmitLasts DEF Put
      <4> QED  BY <3>1, <4>3 DEF AtLeast
    <3> QED  BY <3>1, <3>2, <3>3 DEF KeptLasts
  <2> QED  BY <2>1, <2>2
<1>4. ASSUME NEW c \in Calls, NEW r \in Replicas, PutFails(c, r) \/ PutTimesOut(c, r)
      PROVE  KeptLasts'
  <2>1. /\ Reached(c, r) /\ due' = due /\ off' = off /\ kept' = kept \ {r}
        /\ held' = held /\ announced' = announced
    BY <1>4 DEF PutFails, PutTimesOut, Fault
  <2>2. \A n \in kept' : Since(n)' = Since(n)
    BY <1>a, <2>1, ReachedSince
  <2> QED  BY <2>1, <2>2, KeptStays DEF KeptLasts
<1>5. CASE Withdraw \/ Retract \/ HolderRestarts
  BY <1>5, <1>b DEF Withdraw, Retract, HolderRestarts
<1>6. ASSUME NEW m \in late, Arrives(m) PROVE KeptLasts'
  BY <1>6, <1>a, <1>c, KeptStays DEF Arrives, Admit, KeptLasts, TypeInv, TypeOK
<1>7. ASSUME NEW n \in Nodes, RetractArrives(n) \/ LosesRecord(n) PROVE KeptLasts'
  BY <1>7, <1>a, <1>c, KeptStays DEF RetractArrives, LosesRecord, Fault, KeptLasts, TypeInv, TypeOK
<1>8. ASSUME NEW f \in Finders, NEW n \in Nodes, Forget(f) \/ Find(f, n) PROVE KeptLasts'
  BY <1>8, <1>c, KeptStays DEF Forget, Find, KeptLasts
<1>9. CASE UNCHANGED vars
  BY <1>9, <1>c, KeptStays DEF vars, KeptLasts
<1>10. CASE Tick
  <2>1. /\ off' = off /\ kept' = kept /\ announced' = announced /\ due' = due - 1
        /\ due \in 1..Interval
    BY <1>10 DEF Tick, TypeInv, TypeOK
  <2>2. ASSUME NEW n \in kept PROVE held'[n] >= AtLeast(Since(n), n)'
    <3>1. Since(n)' = Since(n) + 1
      <4>1. passes'["republish"].todo = passes["republish"].todo
        BY <1>10 DEF Tick, UnderWay, Idle, Calls
      <4> QED  BY <2>1, <4>1 DEF Since
    <3>2. Since(n)' \in 0..(Interval + PassTime)
      <4>1. UnderWay("republish") => passes["republish"].age < PassTime
        BY <1>10 DEF Tick, Calls
      <4>2. passes["republish"].age \in 0..PassTime
        BY DEF TypeInv, TypeOK, Passes, Calls
      <4> QED  BY <1>a, <2>1, <3>1, <4>1, <4>2, SinceBound
    <3>3. /\ AtLeast(Since(n)', n) = AtLeast(Since(n), n) - 1
          /\ AtLeast(Since(n)', n) > off[n] /\ AtLeast(Since(n)', n) > 0
          /\ AtLeast(Since(n)', n) \in Int
      BY <1>a, <3>1, <3>2, Offsets, LastsLive, SinceBound DEF AtLeast
    <3>4. held[n] >= AtLeast(Since(n), n) /\ held[n] \in Nat
      BY <1>a DEF KeptLasts, TypeInv, TypeOK, Exps
    <3>5. off[n] \in Nat /\ AtLeast(Since(n), n) \in Int
      BY <1>a, Offsets, SinceBound, LastsLive
    <3>6. held'[n] = held[n] - 1
      BY <1>10, <1>a, <3>3, <3>4, <3>5 DEF Tick, IfLive, Live, Sooner
    <3>7. AtLeast(Since(n), n)' = AtLeast(Since(n)', n)
      BY <2>1 DEF AtLeast
    <3> QED  BY <3>3, <3>4, <3>5, <3>6, <3>7
  <2> QED  BY <2>1, <2>2 DEF KeptLasts
<1> QED
  BY <1>1, <1>2, <1>3, <1>4, <1>5, <1>6, <1>7, <1>8, <1>9, <1>10
  DEF Next, Replication, Nodes

-----------------------------------------------------------------------------
LEMMA InitInv == Init => Inv
BY InitType, InitAges, InitHeld, InitCache, InitPasses, InitKept DEF Inv

LEMMA NextInv == Inv /\ [Next]_vars => Inv'
BY NextType, NextAges, NextHeld, NextCache, NextPasses, NextKept DEF Inv

THEOREM NetworkInvariant == Spec => []Inv
BY InitInv, NextInv, PTL DEF Spec

(* Every variable keeps its type, and PUTs that are late are no more than  *)
(* the faults.                                                             *)
THEOREM NetworkTypes == Spec => []TypeOK
<1>1. Inv => TypeOK
  BY DEF Inv, TypeInv
<1> QED  BY <1>1, NetworkInvariant, PTL

(* A node that took the record and has lost neither it nor a PUT since      *)
(* serves it, live by every finder's clock, while the key is announced:     *)
(* what republish and its cadence are for.                                 *)
THEOREM KeptStaysServed == Spec => []KeptIsServed
<1>1. Inv => KeptIsServed
  <2> SUFFICES ASSUME Inv, NEW n \in kept
               PROVE  Serves(n) /\ \A f \in Finders : Live(held[n], f)
    BY DEF KeptIsServed
  <2>1. n \in Nodes /\ off \in Clocks /\ held[n] \in Nat
    BY DEF Inv, TypeInv, TypeOK, Exps
  <2>2. Since(n) \in 0..(Interval + PassTime)
    BY <2>1, SinceBound DEF Inv
  <2>3. held[n] >= AtLeast(Since(n), n)
    BY DEF Inv, KeptLasts
  <2>4. /\ AtLeast(Since(n), n) \in Int /\ AtLeast(Since(n), n) > 0
        /\ \A f \in Finders : off[f] \in Nat /\ AtLeast(Since(n), n) > off[f]
    BY <2>1, <2>2, LastsLive, Offsets
  <2> QED  BY <2>1, <2>3, <2>4 DEF Serves, Live
<1> QED  BY <1>1, NetworkInvariant, PTL

(* Once the clock of a store or a cache is past the last expires_at the     *)
(* holder wrote, the record is gone from it: the clamps of                  *)
(* admit_verified_record and of cache_discovered only ever shorten.         *)
THEOREM StoppedIsGone == Spec => []GoneInTime
<1>1. Inv => GoneInTime
  <2> SUFFICES ASSUME Inv PROVE GoneInTime
    OBVIOUS
  <2>1. silent \in Nat /\ off \in Clocks
    BY DEF Inv, TypeInv, TypeOK
  <2>2. ASSUME NEW n \in Nodes, silent + off[n] >= Top PROVE ~Serves(n)
    <3>1. held[n] <= Top - silent /\ held[n] \in Nat /\ off[n] \in Nat
      BY <2>1, Offsets, Constants DEF Inv, TypeInv, TypeOK, AgesOut, Remaining, Exps
    <3> QED  BY <2>1, <2>2, <3>1, Constants DEF Serves, Live, Inv, HeldLive
  <2>3. ASSUME NEW f \in Finders, silent + off[f] >= Top PROVE cached[f] = 0
    <3>1. cached[f] <= Top - silent /\ cached[f] \in Nat /\ off[f] \in Nat
      BY <2>1, Offsets, Constants DEF Inv, TypeInv, TypeOK, AgesOut, Remaining, Exps
    <3>2. cached[f] # 0 => cached[f] > off[f]
      BY DEF Inv, CacheAges, Live
    <3> QED  BY <2>1, <2>3, <3>1, <3>2, Constants
  <2> QED  BY <2>2, <2>3 DEF GoneInTime
<1> QED  BY <1>1, NetworkInvariant, PTL

(* A cache outlives the last node that served the record by no more than   *)
(* discovery_cache_ttl.                                                    *)
THEOREM CachesFollow == Spec => []CacheFollows
<1>1. Inv => CacheFollows
  BY Constants, Offsets
  DEF Inv, TypeInv, TypeOK, CacheAges, CacheFollows, Live, Exps
<1> QED  BY <1>1, NetworkInvariant, PTL
=============================================================================
