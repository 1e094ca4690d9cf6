------------------------------ MODULE MCLookup ------------------------------
(* Lookup against responders that may name anybody, and against ones that   *)
(* name nobody or the next K closer contacts.                              *)
EXTENDS Lookup
CONSTANT MaxCloser      \* bound: contacts in one answer
AnyAnswer(p) == {S \in SUBSET Peers : Cardinality(S) <= MaxCloser}

(* Generations of K contacts: each peer may know the whole of the one that *)
(* is next closer to the target than its own.                              *)
NextGeneration(p) ==
  {{}, {q \in Peers : ((q - 1) \div K) + 1 = (p - 1) \div K}}
=============================================================================
