----------------------------- MODULE DhtNetwork -----------------------------
(***************************************************************************)
(* One content key across the network: the holder that announces it, the   *)
(* k closest nodes that keep its record, the finders that read it, and the *)
(* messages between them (service.rs over the DhtTransport of transport.rs).*)
(*                                                                         *)
(* Every node has a clock of its own, off[n] ahead of the slowest there    *)
(* can be, and expires_at is absolute in the clock of whoever wrote it.  A *)
(* record is its expires_at less the slowest clock, so that a tick brings  *)
(* all of them nearer and the state needs no absolute time.  An expired     *)
(* record is no record, here 0: reads skip it, gc only frees its slot.     *)
(*                                                                         *)
(* A PUT reaches its replica in time, late, or never; a request is never   *)
(* repeated (put_record_at does not retry).  A replica may lose its record *)
(* (a restart: nothing is persisted; an eviction) and the holder may       *)
(* restart.  Walks are Lookup's subject, the caps the ProviderStore's, the *)
(* locks of one node DhtService's.                                         *)
(*                                                                         *)
(* Operators with an underscore in their name are faulty variants kept to  *)
(* show that the properties notice the fault.                              *)
(***************************************************************************)
EXTENDS Naturals, FiniteSets

CONSTANTS Holder, Replicas, Finders,
          Announcers,          \* concurrent announce_provider calls
          Ttl, CacheTtl,       \* provider_ttl, discovery_cache_ttl
          Interval,            \* republish_interval: the longest between two records
                               \* built for one key
          PassTime,            \* bound: ticks from building a record to its last PUT
          Lead, Skew,          \* bounds: how far the holder's clock is ahead of
                               \* another, and behind another
          Clocks,              \* the ways the clocks may be set
          MaxFaults            \* bound: PUTs lost, late or refused, records lost

Nodes == {Holder} \cup Replicas
Calls == Announcers \cup {"republish"}    \* side by side

ASSUME NetworkAssumption ==
  /\ Holder \notin Replicas
  /\ "republish" \notin Announcers
  /\ {Ttl, CacheTtl, Interval, PassTime, Lead, Skew, MaxFaults} \subseteq Nat
  /\ PassTime < Interval
  /\ Clocks \subseteq [Nodes \cup Finders -> 0..(Lead + Skew)]
  /\ \A clock \in Clocks : clock[Holder] = Lead

Least(a, b) == IF a <= b THEN a ELSE b
Most(a, b) == IF a >= b THEN a ELSE b

(* What the code leaves to whoever sets the configuration and its clocks:  *)
(* provider_ttl outlasts a round of republishing, the pass that ends it,    *)
(* the skew, and the greater of another pass (an announce's, overtaken by a *)
(* republish and overwriting its record with an older one) and of the lead  *)
(* (of the holder's clock on a replica's, whose clamp then cuts the record  *)
(* short).  (SPEC 9.3 asks only that it outlast the round.)                *)
ASSUME CadenceAssumption ==
  Ttl > Interval + PassTime + Skew + Most(PassTime, Lead)

VARIABLES off,         \* the nodes' clocks
          held,        \* the holder's record in each node's authoritative store
          cached,      \* ... in each finder's discovery cache
          announced,   \* the holder's mark
          due,         \* ticks until its caller must have run republish again
          passes,      \* the PUTs under way: record, replicas to go, age
          late,        \* PUTs that will arrive when their sender has given up
          retracts,    \* replicas the flooded retract has yet to reach
          kept,        \* history: nodes that took the record of this announcement
                       \* and have suffered no fault since
          silent,      \* history: ticks since the holder built a record
          dark,        \* history: ticks since some node served it
          faults       \* history: faults so far

vars == <<off, held, cached, announced, due, passes, late, retracts,
          kept, silent, dark, faults>>

Top == Ttl + Lead              \* the latest expiry there is
Idle == [exp |-> 0, todo |-> {}, age |-> 0]
UnderWay(c) == passes[c].todo # {}

(* is_expired, by a node's own clock. *)
Live(exp, n) == exp > off[n]
IfLive(exp, n) == IF Live(exp, n) THEN exp ELSE 0
Serves(n) == held[n] # 0

-----------------------------------------------------------------------------
Init == /\ off \in Clocks
        /\ held = [n \in Nodes |-> 0]
        /\ cached = [f \in Finders |-> 0]
        /\ announced = FALSE
        /\ due = Interval
        /\ passes = [c \in Calls |-> Idle]
        /\ late = {}
        /\ retracts = {}
        /\ kept = {}
        /\ silent = Top
        /\ dark = CacheTtl
        /\ faults = 0

-----------------------------------------------------------------------------
(* The holder *)

(* build_local_record, put locally, then the PUTs of one pass.  The outcome *)
(* of the put is ignored: a full store refuses a record it does not have.  *)
LocalRecord == off[Holder] + Ttl
OwnPut ==
  /\ held' = [held EXCEPT ![Holder] = LocalRecord]
  /\ dark' = 0
  /\ UNCHANGED faults
OwnPutRefused ==
  /\ ~Serves(Holder)
  /\ faults < MaxFaults
  /\ faults' = faults + 1
  /\ UNCHANGED <<held, dark>>
Publish(c) ==
  /\ ~UnderWay(c)
  /\ OwnPut \/ OwnPutRefused
  /\ passes' = [passes EXCEPT ![c] = [exp |-> LocalRecord, todo |-> Replicas, age |-> 0]]
  /\ silent' = 0

(* announce_provider *)
Announce(c) ==
  /\ Publish(c)
  /\ announced' = TRUE
  /\ kept' = kept \cup {n \in {Holder} : held'[n] # 0}
  /\ UNCHANGED <<off, cached, due, late, retracts>>

(* republish, at the latest when its interval has elapsed (a key is built   *)
(* earlier than that after a pass that came to it late): a no-op with      *)
(* nothing announced.  Its caller awaits one pass before the next.         *)
Republish_LocalOnly ==
  /\ due' = Interval
  /\ held' = IF announced THEN [held EXCEPT ![Holder] = LocalRecord] ELSE held
  /\ UNCHANGED <<off, cached, announced, passes, late, retracts, kept, silent, dark, faults>>
Republish ==
  /\ ~UnderWay("republish")
  /\ due' = Interval
  /\ IF announced THEN Publish("republish")
                  ELSE UNCHANGED <<held, passes, silent, dark, faults>>
  /\ UNCHANGED <<off, cached, announced, late, retracts, kept>>

(* withdraw_provider; a pass under way goes on. *)
Withdraw ==
  /\ announced
  /\ announced' = FALSE
  /\ kept' = {}
  /\ UNCHANGED <<off, held, cached, due, passes, late, retracts, silent, dark, faults>>

(* retract_own_provider; the node floods the retract. *)
Retract ==
  /\ announced \/ Serves(Holder)
  /\ announced' = FALSE
  /\ held' = [held EXCEPT ![Holder] = 0]
  /\ retracts' = Replicas
  /\ kept' = {}
  /\ UNCHANGED <<off, cached, due, passes, late, silent, dark, faults>>

(* The process ends and begins anew: all its state was in memory. *)
HolderRestarts ==
  /\ announced' = FALSE
  /\ held' = [held EXCEPT ![Holder] = 0]
  /\ passes' = [c \in Calls |-> Idle]
  /\ due' = Interval
  /\ kept' = {}
  /\ UNCHANGED <<off, cached, late, retracts, silent, dark, faults>>

-----------------------------------------------------------------------------
(* The replicas *)

(* The clamp of admit_verified_record, then put_at: it replaces the record  *)
(* the replica has, whichever of the two expires later.                    *)
Clamped_Extends(exp, r) == off[r] + Ttl
Clamped_Lifetime(exp, r) == off[r] + exp
Clamped(exp, r) == Least(exp, off[r] + Ttl)
Admit_FirstStays(r, exp) ==
  /\ held' = IF Serves(r) THEN held
             ELSE [held EXCEPT ![r] = IfLive(Clamped(exp, r), r)]
  /\ dark' = IF Live(Clamped(exp, r), r) THEN 0 ELSE dark
Admit(r, exp) ==
  /\ held' = [held EXCEPT ![r] = IfLive(Clamped(exp, r), r)]
  /\ dark' = IF Live(Clamped(exp, r), r) THEN 0 ELSE dark

(* Pass c is done with r, whatever came of it (put_record_at).             *)
Reached(c, r) ==
  /\ r \in passes[c].todo
  /\ passes' = [passes EXCEPT ![c] = IF @.todo = {r} THEN Idle
                                     ELSE [exp |-> @.exp, todo |-> @.todo \ {r},
                                           age |-> @.age]]

Fault(r) ==
  /\ faults < MaxFaults
  /\ faults' = faults + 1
  /\ kept' = kept \ {r}

Put(c, r) ==
  /\ Reached(c, r)
  /\ Admit(r, passes[c].exp)
  /\ kept' = IF announced THEN kept \cup {r} ELSE kept
  /\ UNCHANGED <<off, cached, announced, due, late, retracts, silent, faults>>

(* Lost, refused by a full store, or the walk did not come upon r.         *)
PutFails(c, r) ==
  /\ Reached(c, r)
  /\ Fault(r)
  /\ UNCHANGED <<off, held, cached, announced, due, late, retracts, silent, dark>>

PutTimesOut(c, r) ==
  /\ Reached(c, r)
  /\ Fault(r)
  /\ late' = late \cup {[to |-> r, exp |-> passes[c].exp]}
  /\ UNCHANGED <<off, held, cached, announced, due, retracts, silent, dark>>

(* ... and arrives after all.  Nothing compares it with what is held.      *)
Arrives(m) ==
  /\ late' = late \ {m}
  /\ Admit(m.to, m.exp)
  /\ kept' = kept \ {m.to}
  /\ UNCHANGED <<off, cached, announced, due, passes, retracts, silent, faults>>

(* remove_provider_record, on the flooded retract. *)
RetractArrives(r) ==
  /\ r \in retracts
  /\ retracts' = retracts \ {r}
  /\ held' = [held EXCEPT ![r] = 0]
  /\ kept' = kept \ {r}
  /\ UNCHANGED <<off, cached, announced, due, passes, late, silent, dark, faults>>

(* A restart of the replica or, at any node, an eviction.                  *)
LosesRecord(n) ==
  /\ Serves(n)
  /\ held' = [held EXCEPT ![n] = 0]
  /\ Fault(n)
  /\ UNCHANGED <<off, cached, announced, due, passes, late, retracts, silent, dark>>

-----------------------------------------------------------------------------
(* The finders *)

(* find_providers with nothing cached: the walk reads node n, which answers *)
(* with what is live by its clock; what is live by the finder's is cached.  *)
CacheClamped_Not(exp, f) == exp
CacheClamped(exp, f) == Least(exp, off[f] + CacheTtl)
Find(f, n) ==
  /\ cached[f] = 0
  /\ Serves(n)
  /\ Live(CacheClamped(held[n], f), f)
  /\ cached' = [cached EXCEPT ![f] = CacheClamped(held[n], f)]
  /\ UNCHANGED <<off, held, announced, due, passes, late, retracts, kept,
                 silent, dark, faults>>

Forget(f) ==
  /\ cached[f] # 0
  /\ cached' = [cached EXCEPT ![f] = 0]
  /\ UNCHANGED <<off, held, announced, due, passes, late, retracts, kept,
                 silent, dark, faults>>

-----------------------------------------------------------------------------
Sooner(exp) == Most(exp, 1) - 1

(* Time passes: never past the instant republish is due, nor beyond what a  *)
(* pass may take.                                                          *)
Tick ==
  /\ due > 0
  /\ \A c \in Calls : UnderWay(c) => passes[c].age < PassTime
  /\ due' = due - 1
  /\ held' = [n \in Nodes |-> IfLive(Sooner(held[n]), n)]
  /\ cached' = [f \in Finders |-> IfLive(Sooner(cached[f]), f)]
  /\ late' = {[to |-> m.to, exp |-> Sooner(m.exp)] : m \in late}
  /\ passes' = [c \in Calls |->
                  IF UnderWay(c)
                    THEN [exp |-> Sooner(passes[c].exp), todo |-> passes[c].todo,
                          age |-> passes[c].age + 1]
                    ELSE Idle]
  /\ silent' = Least(silent + 1, Top)
  /\ dark' = IF \E n \in Nodes : Serves(n) THEN 0 ELSE Least(dark + 1, CacheTtl)
  /\ UNCHANGED <<off, announced, retracts, kept, faults>>

Replication(c) == \E r \in Replicas : Put(c, r) \/ PutFails(c, r) \/ PutTimesOut(c, r)
RepublishDue == due = 0 /\ Republish

Next ==
  \/ \E c \in Announcers : Announce(c)
  \/ Withdraw \/ Retract \/ HolderRestarts
  \/ Republish
  \/ \E c \in Calls : Replication(c)
  \/ \E m \in late : Arrives(m)
  \/ \E r \in Replicas : RetractArrives(r)
  \/ \E n \in Nodes : LosesRecord(n)
  \/ \E f \in Finders : Forget(f) \/ \E n \in Nodes : Find(f, n)
  \/ Tick

Spec == Init /\ [][Next]_vars
             /\ \A c \in Calls : WF_vars(Replication(c))    \* every rpc returns
             /\ WF_vars(RepublishDue)                      \* the caller runs republish
             /\ WF_vars(Tick)

-----------------------------------------------------------------------------
Exps == 0..Top
Passes == [exp : Exps, todo : SUBSET Replicas, age : 0..PassTime]

TypeOK ==
  /\ off \in Clocks
  /\ held \in [Nodes -> Exps] /\ cached \in [Finders -> Exps]
  /\ announced \in BOOLEAN /\ due \in 0..Interval
  /\ passes \in [Calls -> Passes]
  /\ late \subseteq [to : Replicas, exp : Exps] /\ Cardinality(late) <= faults
  /\ retracts \subseteq Replicas /\ kept \subseteq Nodes
  /\ silent \in 0..Top /\ dark \in 0..CacheTtl /\ faults \in 0..MaxFaults

(* "Provider records never expire while the node is online": a node that    *)
(* took the holder's record, and since then lost no PUT and no record,      *)
(* serves it, and no finder's clock finds it expired, for as long as the    *)
(* key is announced; so that fewer than k faults hide nobody (SPEC 9.3).    *)
KeptIsServed ==
  \A n \in kept : Serves(n) /\ \A f \in Finders : Live(held[n], f)

(* A holder that stops building records is gone from a store or a cache    *)
(* as soon as its clock reads past the last expires_at the holder wrote, a  *)
(* provider_ttl after the last was built if their clocks agree, whatever    *)
(* was delivered late, clamped or cached meanwhile (SPEC 6.2).             *)
GoneInTime ==
  /\ \A n \in Nodes : silent + off[n] >= Top => ~Serves(n)
  /\ \A f \in Finders : silent + off[f] >= Top => cached[f] = 0

(* Once no node has served the record for discovery_cache_ttl, no finder is *)
(* told of the holder by its own cache either (SPEC 6.8).                   *)
CacheFollows ==
  dark = CacheTtl => \A f \in Finders : cached[f] = 0

(* After the last fault, republishing refills every replica: while the key  *)
(* stays announced, all of them come to serve it and go on doing so.        *)
Refills ==
  \A n \in Nodes : <>[]announced => <>[](Serves(n))
=============================================================================
