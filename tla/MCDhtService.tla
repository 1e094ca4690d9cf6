---------------------------- MODULE MCDhtService ----------------------------
(* DhtService on small instances; remote peers are interchangeable. *)
EXTENDS DhtService, TLC
RemoteSymmetry == Permutations(Remotes)
=============================================================================
