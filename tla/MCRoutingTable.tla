--------------------------- MODULE MCRoutingTable ---------------------------
(***************************************************************************)
(* RoutingTable on keys of two bytes of two bits each: three peers in the  *)
(* farthest bucket, which overflows, and one in another.  An instance is   *)
(* named by the peers' distances from Local.                               *)
(***************************************************************************)
EXTENDS RoutingTable, TLC

Bit(a, b, c, d) == [i \in Positions |-> CASE i = 0 -> a [] i = 1 -> b
                                           [] i = 2 -> c [] OTHER -> d]
MCLocal == Bit(0, 1, 1, 0)
At(d) == Distance(MCLocal, d)

NearPeers == {At(Bit(1, 0, 0, 0)), At(Bit(1, 0, 0, 1)), At(Bit(1, 1, 0, 0))}
OneElsewhere == {At(Bit(0, 0, 1, 1))}
Interchangeable == Permutations(Maintainers)
MCPeers == NearPeers \cup OneElsewhere
=============================================================================
