------------------------------ MODULE MCSession ------------------------------
(***************************************************************************)
(* Two files and three pictures: outputs without a tie, with one among the *)
(* top labels, and with two outputs of one label at the top, as "crane" is *)
(* two lines of alexnet_labels.txt.  Two platforms on the remote host and  *)
(* one on the local one, with distinct descriptions or two that share one. *)
(***************************************************************************)
EXTENDS Session

MCOutputs == ("cat" :> <<8, 4, 2, 0>>)
             @@ ("fog" :> <<6, 6, 0, 2>>) @@ ("crane" :> <<0, 2, 10, 4>>)
MCLabels == <<"cat", "dog", "crane", "crane">>
MCPictures == DOMAIN MCOutputs
MCNoPicture == "none"
MCDisks == {<<"cat", "crane">>, <<"fog", MCNoPicture>>}
MCPlatformsOf == [fpga |-> <<"F", "G">>, local |-> <<"C">>]
MCDescriptions == {[F |-> "FPGA", G |-> "GPU", C |-> "CPU"], [F |-> "CPU", G |-> "GPU", C |-> "CPU"]}
MCHostData == [fpga |-> [power |-> 6, time |-> 2], local |-> [power |-> 24, time |-> 3]]
MCTimes == {2, 5}

(* The hypotheses of the theorems hold here. *)
ASSUME MCHypotheses == OutputsAreLong /\ MeansAreExact /\ SharesAreExact
=============================================================================
