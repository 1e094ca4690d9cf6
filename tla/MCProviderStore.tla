--------------------------- MODULE MCProviderStore ---------------------------
(* ProviderStore on small instances; peers are interchangeable. *)
EXTENDS ProviderStore, TLC
PeerSymmetry == Permutations(Peers)
(* Keys are symmetric too where no property ranks them. *)
StoreSymmetry == Permutations(Peers) \cup Permutations(Keys)
=============================================================================
