------------------------------ MODULE MCManager ------------------------------
(***************************************************************************)
(* Instances of Manager for TLC: one local platform, and remote platforms  *)
(* such that a selection can hold all, some or none of a host's platforms. *)
(***************************************************************************)
EXTENDS Manager

MCLocalPlatforms == {"cpu"}
MCFpgaPlatforms == {"fpga1", "fpga2"}
=============================================================================
