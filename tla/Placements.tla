----------------------------- MODULE Placements -----------------------------
(***************************************************************************)
(* The results HostPlacer::place may return, as its callers see them.      *)
(***************************************************************************)
EXTENDS Integers, Functions

(* All ways to give n images to the hosts H, each image to one host. *)
Assignments(H, n) == {d \in [H -> 0..n] : SumFunction(d) = n}
=============================================================================
