----------------------------- MODULE HoldersMap -----------------------------
(***************************************************************************)
(* What a provider store promises, without how it chooses: a bounded map   *)
(* from keys to the holders that claim them.  Holders come, renew and go;  *)
(* a full key lets a newcomer in at somebody's expense, yet never at the   *)
(* expense of a live holder while it lists a dead one, nor of a holder     *)
(* with tenure.  Tenure is given with the first half of a key's places,    *)
(* may be given later, and ends only with the claim itself.                *)
(*                                                                         *)
(* Which holder is supplanted, and in which order tenure moves on, is left *)
(* open; ProviderStore decides it by admission number and expiry.          *)
(***************************************************************************)
EXTENDS Integers, FiniteSets

CONSTANTS Keys,         \* content keys
          Peers,        \* holders
          Pointers,     \* what a claim carries besides its expiry
          PerKey,       \* places of a key
          Total,        \* places of the whole map
          Times         \* seconds a claim may end at and a clock may show

VARIABLES claims,       \* [key, peer, exp, coin] records
          tenured,      \* [key, peer] pairs that cannot be supplanted while alive
          announced,    \* key -> pointer, for the keys this node announces
          today         \* the clock

vars == <<claims, tenured, announced, today>>

Claim == [key : Keys, peer : Peers, exp : Times, coin : Pointers]
PairOf(c) == [key |-> c.key, peer |-> c.peer]
Pairs(C) == {PairOf(c) : c \in C}
Of(k) == {c \in claims : c.key = k}
Live(c) == today < c.exp
New(c) == PairOf(c) \notin Pairs(claims)

-----------------------------------------------------------------------------
Init == /\ claims = {}
        /\ tenured = {}
        /\ announced = [k \in {} |-> 0]
        /\ today = 0

(* Tenure ends with the claim, and a holder it is due to has it. *)
TenureKept(due) ==
  /\ tenured' \subseteq Pairs(claims')
  /\ (tenured \cup due) \cap Pairs(claims') \subseteq tenured'

(* A holder renews its claim, whatever the capacity. *)
Renew(c) ==
  /\ \E old \in claims : /\ PairOf(old) = PairOf(c)
                         /\ claims' = (claims \ {old}) \cup {c}
  /\ TenureKept({})
  /\ UNCHANGED <<announced, today>>

(* A new holder takes a free place of the key, one of the first half with  *)
(* tenure.                                                                 *)
Join(c) ==
  /\ New(c)
  /\ Cardinality(claims) < Total
  /\ Of(c.key) = {} \/ Cardinality(Of(c.key)) < PerKey
  /\ claims' = claims \cup {c}
  /\ TenureKept(IF Cardinality(Of(c.key)) < PerKey \div 2 THEN {PairOf(c)} ELSE {})
  /\ UNCHANGED <<announced, today>>

(* A new holder takes the place of another one of the full key. *)
Supplant(c, old) ==
  /\ New(c)
  /\ Cardinality(claims) < Total
  /\ Cardinality(Of(c.key)) >= PerKey
  /\ Live(old) => /\ PairOf(old) \notin tenured
                  /\ \A d \in Of(c.key) : Live(d)
  /\ claims' = (claims \ {old}) \cup {c}
  /\ TenureKept({})
  /\ UNCHANGED <<announced, today>>

Depart(gone) ==
  /\ claims' = claims \ gone
  /\ TenureKept({})
  /\ UNCHANGED <<announced, today>>

(* A departure that names one holder, or the key; a sweep of the dead. *)
Leave(k, p) == Depart({c \in claims : c.key = k /\ c.peer = p})
Clear(k) == Depart(Of(k))
Sweep == Depart({c \in claims : ~Live(c)})

(* Announcing a key, or ceasing to, concerns no claim. *)
Announce(k, coin) ==
  /\ announced' = [j \in DOMAIN announced \cup {k} |-> IF j = k THEN coin ELSE announced[j]]
  /\ UNCHANGED <<claims, tenured, today>>
Cease(k) ==
  /\ announced' = [j \in DOMAIN announced \ {k} |-> announced[j]]
  /\ UNCHANGED <<claims, tenured, today>>

ReadClock(t) == /\ today' = t
                /\ UNCHANGED <<claims, tenured, announced>>

(* An accepted offer, listed afterwards.  A refused one is a stutter. *)
Accept(c) == \/ Renew(c)
             \/ Join(c)
             \/ \E old \in Of(c.key) : Supplant(c, old)

Next == \/ \E c \in claims' \cap Claim : Accept(c)
        \/ \E k \in Keys, p \in Peers : Leave(k, p)
        \/ \E k \in Keys : Clear(k)
        \/ Sweep
        \/ \E k \in Keys, coin \in Pointers : Announce(k, coin)
        \/ \E k \in Keys : Cease(k)
        \/ \E t \in Times : ReadClock(t)

Spec == Init /\ [][Next]_vars
=============================================================================
