---------------------------- MODULE MCDhtNetwork ----------------------------
(***************************************************************************)
(* DhtNetwork with two replicas and one finder.  The holder's clock is     *)
(* ahead of one replica's, whose clamp then decides, and behind that of    *)
(* the other and of the finder, whose expiry then decides.                 *)
(***************************************************************************)
EXTENDS DhtNetwork, TLC

CONSTANTS h, r1, r2, f1

MCClocks == {h :> 1 @@ r1 :> 0 @@ r2 :> 2 @@ f1 :> 2}
=============================================================================
