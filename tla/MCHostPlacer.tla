---------------------------- MODULE MCHostPlacer ----------------------------
(***************************************************************************)
(* Instances of HostPlacer for TLC.  Three hosts are one more than the     *)
(* program has today, so that ties among several hosts, a host between two *)
(* others and a share that leaves a remainder of one or two all occur.     *)
(***************************************************************************)
EXTENDS HostPlacer

MCImageCounts == 0..4
MCPowers == {0, 1, 3}
MCTimes == {1, 2, 3}
=============================================================================
