--------------------------- MODULE DialCandidates ---------------------------
(***************************************************************************)
(* The candidate addresses of one holder (record.rs), from the list it     *)
(* collects to the list a finder dials.  On the way the list is admitted   *)
(* again and again, by the same function: by the constructors, by every    *)
(* decoding, by admission to a store, by the discovery cache and before it *)
(* is handed to a caller.  In between it is a public field anyone may      *)
(* reorder.  What a finder dials is computed from the list it then has.    *)
(*                                                                         *)
(* Operators with an underscore in their name are faulty variants kept to  *)
(* show that the properties notice the fault.                              *)
(***************************************************************************)
EXTENDS Naturals, Sequences, SequencesExt, Arranging

CONSTANTS Hosts,          \* spellings of a host, with its port
          FamilyRank,     \* 0 an IPv6 literal, 1 IPv4 (mapped into IPv6 or not), 2 no literal
          Endpoint,       \* what a spelling names: several may name one endpoint
          Overlong,       \* the spellings longer than MAX_HOST_LEN
          Candidates,     \* the candidates a holder may collect
          MaxAddresses,   \* MAX_ADDRESSES_PER_RECORD
          MaxDial,        \* MAX_DIAL_CANDIDATES
          MaxCollected    \* bound: candidates collected, all different

Kinds == 0 .. 3           \* direct, mapped, reflexive, relay
Relay == 3

ASSUME CandidateAssumption ==
  /\ Candidates \subseteq [host : Hosts, kind : Kinds]
  /\ FamilyRank \in [Hosts -> 0 .. 2]
  /\ Overlong \subseteq Hosts
  /\ \A g, h \in Hosts : Endpoint[g] = Endpoint[h] => FamilyRank[g] = FamilyRank[h]
  /\ MaxAddresses \in Nat /\ MaxDial \in Nat \ {0} /\ MaxCollected \in Nat

VARIABLES collected,      \* history: what the holder collected, in order
          addresses,      \* the list as it now is
          admitted,       \* it has been admitted at least once
          settled         \* and not been reordered since

vars == <<collected, addresses, admitted, settled>>

IsDialable(c) == c.kind # Relay
IsIpv6(c) == FamilyRank[c.host] = 0

(* family_then_kind_rank: the family decides, the kind among equals. *)
Rank_KindFirst(c) == 3 * c.kind + FamilyRank[c.host]
Rank(c) == 4 * FamilyRank[c.host] + c.kind

(* The stable sort by rank. *)
ByRank_TiesReversed(s) ==
  [i \in DOMAIN s |->
     {j \in DOMAIN s : Rank(s[j]) < Rank(s[i]) \/ (Rank(s[j]) = Rank(s[i]) /\ j > i)}]
ByRank(s) ==
  [i \in DOMAIN s |->
     {j \in DOMAIN s : Rank(s[j]) < Rank(s[i]) \/ (Rank(s[j]) = Rank(s[i]) /\ j < i)}]
Sorted(s) == Arranged(s, ByRank(s))

WithoutOverlong(s) == Selected(s, {i \in DOMAIN s : s[i].host \notin Overlong})
Truncated(s, n) == IF Len(s) <= n THEN s ELSE SubSeq(s, 1, n)

(* sort_and_cap_addresses *)
Admitted_LongLast(s) == WithoutOverlong(Truncated(Sorted(s), MaxAddresses))
Admitted_NoCap(s) == Sorted(WithoutOverlong(s))
Admitted(s) == Truncated(Sorted(WithoutOverlong(s)), MaxAddresses)

-----------------------------------------------------------------------------
(* dial_candidates *)

Dialable(s) == Selected(s, {i \in DOMAIN s : IsDialable(s[i])})

(* The first spelling of each endpoint stays (dial_identity). *)
Deduped_BySpelling(s) ==
  Selected(s, {i \in DOMAIN s : \A j \in DOMAIN s : j < i => s[j].host # s[i].host})
Deduped_LastStays(s) ==
  Selected(s, {i \in DOMAIN s :
                 \A j \in DOMAIN s : j > i => Endpoint[s[j].host] # Endpoint[s[i].host]})
Deduped(s) ==
  Selected(s, {i \in DOMAIN s :
                 \A j \in DOMAIN s : j < i => Endpoint[s[j].host] # Endpoint[s[i].host]})

(* The cap, with its last place for the best fallback if IPv6 fills it all. *)
Reserved_NoReserve(s) == Truncated(s, MaxDial)
Reserved(s) ==
  LET fallbacks == Selected(s, {i \in DOMAIN s : ~IsIpv6(s[i])})
      onlyIpv6 == \A i \in 1 .. MaxDial : IsIpv6(s[i])
  IN  IF Len(s) > MaxDial /\ onlyIpv6 /\ fallbacks # <<>>
        THEN Append(Truncated(s, MaxDial - 1), Head(fallbacks))
        ELSE Truncated(s, MaxDial)

DialList(s) == Reserved(Deduped(Sorted(Dialable(s))))

(* best_address: the first dialable candidate of the list as it is. *)
HasDialable(s) == \E i \in DOMAIN s : IsDialable(s[i])
BestAddress(s) == Head(Dialable(s))

-----------------------------------------------------------------------------
Init == /\ collected = <<>>
        /\ addresses = <<>>
        /\ admitted = FALSE
        /\ settled = FALSE

(* The holder learns an address of its own. *)
Collect(c) ==
  /\ ~admitted
  /\ Len(collected) < MaxCollected
  /\ \A i \in DOMAIN collected : collected[i] # c
  /\ collected' = Append(collected, c)
  /\ addresses' = Append(addresses, c)
  /\ UNCHANGED <<admitted, settled>>

(* The list passes a constructor, a decoding or an admission. *)
Admit ==
  /\ addresses' = Admitted(addresses)
  /\ admitted' = TRUE
  /\ settled' = TRUE
  /\ UNCHANGED collected

(* Code that holds the record moves an address to the front. *)
Rewrite(i) ==
  /\ admitted
  /\ i \in DOMAIN addresses
  /\ addresses' = <<addresses[i]>> \o RemoveAt(addresses, i)
  /\ settled' = FALSE
  /\ UNCHANGED <<collected, admitted>>

Next == \/ \E c \in Candidates : Collect(c)
        \/ Admit
        \/ \E i \in 1 .. MaxAddresses : Rewrite(i)

Spec == Init /\ [][Next]_vars

-----------------------------------------------------------------------------
(* IPv6 before IPv4 before the rest and, within a family, the more direct   *)
(* kind first: what SPEC 5.5 means by order of preference.                  *)
AsPreferred(c, d) ==
  \/ FamilyRank[c.host] < FamilyRank[d.host]
  \/ FamilyRank[c.host] = FamilyRank[d.host] /\ c.kind <= d.kind

(* Lists of candidates; an admitted list respects the cap and holds no      *)
(* overlong host.                                                           *)
TypeOK == /\ collected \in Seq(Candidates)
          /\ addresses \in Seq(Candidates)
          /\ admitted \in BOOLEAN /\ settled \in BOOLEAN
          /\ admitted => /\ Len(addresses) <= MaxAddresses
                         /\ \A i \in DOMAIN addresses : addresses[i].host \notin Overlong

(* Admission drops the least preferred and nothing else: what is missing    *)
(* from the admitted list is overlong, or everything kept is as preferred   *)
(* and the list is full.                                                    *)
AdmissionKeepsTheBest ==
  admitted =>
    \A i \in DOMAIN collected :
      \/ collected[i].host \in Overlong
      \/ \E j \in DOMAIN addresses : addresses[j] = collected[i]
      \/ /\ Len(addresses) = MaxAddresses
         /\ \A j \in DOMAIN addresses : AsPreferred(addresses[j], collected[i])

(* All the hops of a record agree: admitting an admitted list again, which  *)
(* every decoding and every store does, changes nothing, so that all nodes  *)
(* hold the same record (equality of records decides tests and dedup).      *)
HopsAgree == [][(settled /\ Admit) => addresses' = addresses]_vars

(* Some dialable candidates of the list, each endpoint once, at most        *)
(* MAX_DIAL_CANDIDATES, IPv6 before IPv4 before the rest.                   *)
DialListIsSound ==
  LET dialed == DialList(addresses)
  IN  /\ Len(dialed) <= MaxDial
      /\ \A i \in DOMAIN dialed :
           IsDialable(dialed[i]) /\ \E j \in DOMAIN addresses : addresses[j] = dialed[i]
      /\ \A i, j \in DOMAIN dialed :
           i < j => /\ AsPreferred(dialed[i], dialed[j])
                    /\ Endpoint[dialed[i].host] # Endpoint[dialed[j].host]

(* No endpoint is left out while there is room, and a full dial list leaves *)
(* out only what is no better than all but its last.                        *)
LeftOutForBetter ==
  LET dialed == DialList(addresses)
  IN  \A j \in DOMAIN addresses :
        IsDialable(addresses[j]) =>
          \/ \E i \in DOMAIN dialed : Endpoint[dialed[i].host] = Endpoint[addresses[j].host]
          \/ /\ Len(dialed) = MaxDial
             /\ \A i \in 1 .. MaxDial - 1 : AsPreferred(dialed[i], addresses[j])

(* What dial_candidates returns, in whatever order the list is by then: a   *)
(* sound list, from which only what is worse is missing (SPEC 5.5).         *)
DialListIsBest == DialListIsSound /\ LeftOutForBetter

(* "A failed IPv6 attempt must never mask a working IPv4 one": if the list  *)
(* has a dialable fallback, one is dialed, and it is the best of them that  *)
(* is dialed first among fallbacks.                                         *)
Fallback(c) == IsDialable(c) /\ ~IsIpv6(c)
FallbackIsDialed ==
  LET dialed == DialList(addresses)
  IN  \A j \in DOMAIN addresses :
        Fallback(addresses[j]) =>
          \E i \in DOMAIN dialed : /\ Fallback(dialed[i])
                                   /\ AsPreferred(dialed[i], addresses[j])

(* best_address and dial_candidates agree on an admitted list: the address  *)
(* shown for a holder is the one dialed first.                              *)
BestIsDialedFirst ==
  (settled /\ HasDialable(addresses)) =>
    /\ DialList(addresses) # <<>>
    /\ BestAddress(addresses) = Head(DialList(addresses))

(* The same rule for the record as a whole: a fallback the holder collected *)
(* is still dialed when its record has been admitted (SPEC 5.5).            *)
CollectedFallbackIsDialed ==
  (admitted /\ \E i \in DOMAIN collected : /\ Fallback(collected[i])
                                           /\ collected[i].host \notin Overlong)
    => \E i \in DOMAIN DialList(addresses) : Fallback(DialList(addresses)[i])
=============================================================================
