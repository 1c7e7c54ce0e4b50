----------------------------- MODULE MCExecutor -----------------------------
(***************************************************************************)
(* Instances of Executor for TLC: a net with layers of each kind, one that *)
(* may throw behind one that is marked as computed by then, run on images  *)
(* that differ, and callers that may select nothing.                       *)
(***************************************************************************)
EXTENDS Executor

MCLayerKinds == <<"input", "conv", "conv", "flatten", "plain">>
MCDifficultLayers == {2}
MCSelections == {{"p"}, {"p", "q"}}
MCAnySelections == {{}, {"p"}, {"p", "q"}}
=============================================================================
