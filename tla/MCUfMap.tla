------------------------------ MODULE MCUfMap -------------------------------
(***************************************************************************)
(* A small instance of UfMap: three keys, two of which share a home at the *)
(* end of the tables of 4 and of 8 slots, so that their probes wrap round. *)
(***************************************************************************)
EXTENDS UfMap, TLC

CONSTANTS k1, k2, k3, v1, v2

MCKeys == {k1, k2, k3}
MCValues == {v1, v2}
MCHash == (k1 :> 7) @@ (k2 :> 15) @@ (k3 :> 6)

=============================================================================
