-------------------------- MODULE MCDialCandidates --------------------------
(***************************************************************************)
(* DialCandidates for a dual-stack holder: one IPv6 endpoint in two        *)
(* spellings, another IPv6 endpoint, an IPv4 endpoint in two spellings, a  *)
(* host name, an overlong name and a relay marker (which has no host).     *)
(***************************************************************************)
EXTENDS DialCandidates, TLC

CONSTANTS v6, v6full, other6, marker, v4, mapped4, name, overlong

MCHosts == {v6, v6full, other6, marker, v4, mapped4, name, overlong}
MCFamilyRank == v6 :> 0 @@ v6full :> 0 @@ other6 :> 0
                  @@ v4 :> 1 @@ mapped4 :> 1 @@ name :> 2 @@ marker :> 2 @@ overlong :> 0
MCEndpoint == [h \in MCHosts |-> CASE h = v6full -> v6 [] h = mapped4 -> v4 [] OTHER -> h]
MCOverlong == {overlong}
MCCandidates == [host : {v6full, other6, v4, name}, kind : {0}]
                  \cup [host : {v6, mapped4}, kind : {1}]
                  \cup {[host |-> marker, kind |-> Relay], [host |-> overlong, kind |-> 0]}
=============================================================================
