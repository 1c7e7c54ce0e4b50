-------------------------- MODULE MCPlatformPlacer --------------------------
(***************************************************************************)
(* Instances of PlatformPlacer for TLC: every selection of up to three     *)
(* platforms with small numbers, and nets with equal, with one, and with   *)
(* several difficult layers.                                               *)
(***************************************************************************)
EXTENDS PlatformPlacer

MCPlatform == [cpu : BOOLEAN, power : 0..2, flops : {0, 1, 3}]
MCOthers == {[cpu |-> TRUE, power |-> 1, flops |-> 2], [cpu |-> FALSE, power |-> 3, flops |-> 4]}
MCSelections ==
  BoundedSeq(MCPlatform, 2) \cup {<<p, q, r>> : p, q \in MCPlatform, r \in MCOthers}
MCNets == {<<1, 1>>, <<1, 2>>, <<1, 5, 3>>, <<1, 0, 4, 2>>}
=============================================================================
