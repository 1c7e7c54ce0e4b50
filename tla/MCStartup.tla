------------------------------ MODULE MCStartup ------------------------------
(***************************************************************************)
(* Instances of Startup for TLC: directories with up to three of four      *)
(* nets.  getValidNets never returns an empty list.                        *)
(***************************************************************************)
EXTENDS Startup

MCNetLists == {list \in BoundedSeq({"a", "b", "c", "d"}, 3) : Len(list) > 0 /\ IsInjective(list)}
=============================================================================
