------------------------------- MODULE Lookup -------------------------------
(***************************************************************************)
(* iterative_find of lookup.rs: one iterative lookup, its rounds of at     *)
(* most Alpha concurrent queries, and answers, failures and panics in any  *)
(* join order.  A peer is the rank of its XOR distance to the target       *)
(* (distances to one target are distinct), so the sorted shortlist is a    *)
(* set of ranks.                                                           *)
(*                                                                         *)
(* The code joins a round's tasks into a vector and folds it in join       *)
(* order; nobody else sees the lookup's locals, so here each joined result *)
(* is folded as it is joined and EndRound does what follows the fold.      *)
(*                                                                         *)
(* Operators with an underscore in their name are faulty variants kept to  *)
(* show that the properties notice the fault.                              *)
(***************************************************************************)
EXTENDS Naturals, FiniteSets

CONSTANTS PeerCount,        \* peers are 1..PeerCount, closest first
          Holders,          \* providers a response may name
          K, Alpha,
          MaxSeeds,         \* bound: contacts the lookup starts from; its caller
                            \* seeds it with at most K
          MaxRounds,        \* MAX_LOOKUP_ROUNDS
          StopOnProviders,
          MayFail,          \* queries may return Err
          MayPanic,         \* query tasks may panic or be cancelled
          Answers(_)        \* the sets of contacts a peer may answer with

Peers == 1..PeerCount

ASSUME LookupAssumption ==
  /\ PeerCount \in Nat /\ K \in Nat \ {0} /\ Alpha \in Nat \ {0}
  /\ MaxSeeds \in Nat /\ MaxRounds \in Nat
  /\ {StopOnProviders, MayFail, MayPanic} \subseteq BOOLEAN
  /\ \A p \in Peers : Answers(p) \subseteq SUBSET Peers

VARIABLES shortlist,    \* peers in the shortlist
          seen,         \* peers ever merged
          status,       \* peer -> "new", "queried" or "failed"
          inFlight,     \* peers whose query task has not been joined
          providers,    \* collected providers -> the peer whose record was kept
          rounds,       \* rounds begun, saturating past MaxRounds
          phase,        \* "pick", "query" or "done"
          honest        \* history: every answer came, and named somebody closer
                        \* than its sender unless there is nobody

vars == <<shortlist, seen, status, inFlight, providers, rounds, phase, honest>>

Closest(S, n) == {p \in S : Cardinality({q \in S : q < p}) < n}
Eligible == {p \in shortlist : status[p] = "new"}
NotFailed == {p \in shortlist : status[p] # "failed"}

(* sort_and_cap *)
ShortlistCap == IF 3 * K >= K + 2 * Alpha THEN 3 * K ELSE K + 2 * Alpha
Capped_AtK(S) == Closest(S, K)
Capped(S) == Closest(S, ShortlistCap)

(* merge_contact: what a returned contact list adds to the shortlist. *)
Fresh_NotListed(closer) == closer \ shortlist
Fresh(closer) == closer \ seen

(* The k closest non-failed entries: the lookup's result. *)
Result == Closest(NotFailed, K)

-----------------------------------------------------------------------------
Init == /\ \E seeds \in SUBSET Peers :
             /\ Cardinality(seeds) <= MaxSeeds
             /\ shortlist = Capped(seeds)
             /\ seen = seeds
        /\ status = [p \in Peers |-> "new"]
        /\ inFlight = {}
        /\ providers = [h \in {} |-> 0]
        /\ rounds = 0
        /\ phase = "pick"
        /\ honest = TRUE

OutOfRounds == rounds >= MaxRounds

Batch_AllAtOnce == Eligible
Batch == Closest(Eligible, Alpha)

Counted_Not == rounds
Counted == IF rounds <= MaxRounds THEN rounds + 1 ELSE rounds

(* The top of the loop: the round guard, then the batch of the Alpha       *)
(* closest eligible entries, each spawned as a task of its own.            *)
StartRound ==
  /\ phase = "pick"
  /\ rounds' = Counted
  /\ IF OutOfRounds \/ Eligible = {}
       THEN phase' = "done" /\ UNCHANGED inFlight
       ELSE phase' = "query" /\ inFlight' = Batch
  /\ UNCHANGED <<shortlist, seen, status, providers, honest>>

(* Records kept for the providers a response names: the first one wins. *)
Collect_LastWins(named, from) ==
  [h \in DOMAIN providers \cup named |-> IF h \in named THEN from ELSE providers[h]]
Collect(named, from) ==
  [h \in DOMAIN providers \cup named |->
     IF h \in DOMAIN providers THEN providers[h] ELSE from]

(* A task is joined with Ok: its peer is queried, its contacts and records *)
(* are folded in.  closer and named are what remains of the response after *)
(* its truncation to the per-response ceilings.                            *)
Answered(p, closer, named) ==
  /\ p \in inFlight
  /\ inFlight' = inFlight \ {p}
  /\ seen' = seen \cup Fresh(closer)
  /\ providers' = Collect(named, p)
  /\ shortlist' = shortlist \cup Fresh(closer)
  /\ status' = [q \in Peers |-> IF q = p THEN "queried"
                                ELSE IF q \in Fresh(closer) THEN "new"
                                ELSE status[q]]
  /\ honest' = (honest /\ (p = 1 \/ \E q \in closer : q < p))
  /\ UNCHANGED <<rounds, phase>>

(* A task is joined with Err. *)
Errored(p) ==
  /\ MayFail
  /\ p \in inFlight
  /\ status' = [status EXCEPT ![p] = "failed"]
  /\ honest' = FALSE
  /\ inFlight' = inFlight \ {p}
  /\ UNCHANGED <<shortlist, seen, providers, rounds, phase>>

(* A task panicked or was cancelled: no entry is marked. *)
Panicked(p) ==
  /\ MayPanic
  /\ p \in inFlight
  /\ inFlight' = inFlight \ {p}
  /\ UNCHANGED <<shortlist, seen, status, providers, rounds, phase, honest>>

(* The early exits after a round has been folded in. *)
Converged_AnyAnswer(list) == \E p \in Closest(list, K) : status[p] = "queried"
Converged(list) == \A p \in Closest(list, K) : status[p] # "new"
EnoughProviders == StopOnProviders /\ providers # [h \in {} |-> 0]

EndRound ==
  /\ phase = "query"
  /\ inFlight = {}
  /\ shortlist' = Capped(shortlist)
  /\ phase' = IF EnoughProviders \/ Converged(Capped(shortlist)) THEN "done" ELSE "pick"
  /\ UNCHANGED <<seen, status, inFlight, providers, rounds, honest>>

Done == phase = "done" /\ UNCHANGED vars

Join == \E p \in inFlight :
          \/ \E closer \in Answers(p), named \in SUBSET Holders : Answered(p, closer, named)
          \/ Errored(p)
          \/ Panicked(p)

Next == StartRound \/ Join \/ EndRound \/ Done

Spec == Init /\ [][Next]_vars

(* Every query returns within the transport's timeout and the lookup's own *)
(* task is scheduled.                                                      *)
FairSpec == Spec /\ WF_vars(StartRound \/ Join \/ EndRound)

-----------------------------------------------------------------------------
TypeOK ==
  /\ shortlist \subseteq seen /\ seen \subseteq Peers
  /\ status \in [Peers -> {"new", "queried", "failed"}]
  /\ inFlight \subseteq shortlist /\ Cardinality(inFlight) <= Alpha
  /\ providers \in UNION {[H -> Peers] : H \in SUBSET Holders}
  /\ rounds \in 0..(MaxRounds + 1)
  /\ phase \in {"pick", "query", "done"}
  /\ honest \in BOOLEAN
  /\ phase # "query" => inFlight = {}

(* A peer that reported back is never asked again within the lookup, even  *)
(* when the cap dropped it from the shortlist and another peer names it    *)
(* again ("never retried within the lookup", SPEC 8).                      *)
NeverAskedAgain ==
  [][\A p \in Peers :
       status[p] # "new" => /\ status'[p] = status[p]
                            /\ p \notin inFlight']_vars

(* As long as no more than ShortlistCap - K of the contacts in the          *)
(* shortlist have failed, the cap of sort_and_cap costs the lookup nothing: *)
(* its result is the same as over every contact ever seen, though nobody    *)
(* cut is ever listed again.                                               *)
SameAsUncapped == Result = Closest({p \in seen : status[p] # "failed"}, K)
CapIsHarmlessUnlessManyFail ==
  (/\ phase = "done"
   /\ Cardinality({p \in shortlist : status[p] = "failed"}) <= ShortlistCap - K)
    => SameAsUncapped

(* A lookup that was not cut short by the round guard or by found          *)
(* providers has asked every one of the k closest contacts it ever saw.    *)
KClosestWereAsked ==
  (phase = "done" /\ rounds <= MaxRounds /\ ~EnoughProviders)
    => \A p \in Closest(seen, K) : status[p] # "new"

(* When each peer names someone strictly closer if anybody is, a lookup    *)
(* without failures finds the peer closest to the target.                  *)
FindsTheClosest ==
  (/\ phase = "done" /\ rounds <= MaxRounds /\ ~EnoughProviders
   /\ honest /\ seen # {})
    => 1 \in Result

(* The first record collected for a provider is the one returned, and a    *)
(* stop_on_providers lookup sends no further query once it has one.        *)
FirstRecordWins ==
  [][/\ \A h \in DOMAIN providers : h \in DOMAIN providers' /\ providers'[h] = providers[h]
     /\ (StopOnProviders /\ DOMAIN providers # {}) => inFlight' \subseteq inFlight]_vars

(* Every lookup ends, even when responders always name somebody closer and *)
(* tasks keep panicking.                                                   *)
Terminates == <>(phase = "done")

(* The module documentation: "Stop when a full round of the k closest have *)
(* all been queried ... Return the k closest".  Every contact returned by  *)
(* a lookup that converged has been queried.                               *)
ReturnedWereQueried ==
  (phase = "done" /\ rounds <= MaxRounds /\ ~EnoughProviders)
    => \A p \in Result : status[p] = "queried"

(* The comment in sort_and_cap: the cap "bounds memory without discarding a *)
(* contact that could still be in the top-k".                              *)
CapIsHarmless == phase = "done" => SameAsUncapped
=============================================================================
