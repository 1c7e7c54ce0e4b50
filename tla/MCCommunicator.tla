--------------------------- MODULE MCCommunicator ---------------------------
(***************************************************************************)
(* Instances of Communicator for TLC: a short net on one platform,         *)
(* requests of one image each, and calls of up to two images.  A host that *)
(* is called again while an old request runs multiplies the states, so a   *)
(* host is kept after one error only.                                      *)
(***************************************************************************)
EXTENDS Communicator

MCLayerKinds == <<"input", "conv", "plain">>
MCDifficultLayers == {2}
MCSelections == {{"p"}}
=============================================================================
