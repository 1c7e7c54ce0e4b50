----------------------------- MODULE MCNetBuilder -----------------------------
(***************************************************************************)
(* Every description of up to three layers after the input out of eleven   *)
(* kinds of layers, with fields left out; a directory with it alone, and   *)
(* with files that are corrupt, no description, backup copies, or of       *)
(* another name.  Weight files with two groups and with one.               *)
(***************************************************************************)
EXTENDS NetBuilder

MCLastLayer == 3

Layer(type, filterSize, stride, numFilters, radius) ==
  [type |-> type, filterSize |-> filterSize, stride |-> stride, numFilters |-> numFilters,
   radius |-> radius, inputSize |-> 0, inputChannels |-> 0]
Input(size) == [Layer("input", 0, 0, 0, 0) EXCEPT !.inputSize = size, !.inputChannels = 2]

Kinds ==
  {Layer("conv", 2, 1, 2, 0), Layer("conv", 3, 2, 0, 0), Layer("conv", 2, 0, 1, 0),
   Layer("maxpooling", 2, 2, 0, 0), Layer("maxpooling", 3, 0, 0, 0),
   Layer("activation", 0, 0, 0, 0), Layer("LRN", 0, 0, 0, 0), Layer("LRN", 0, 0, 0, 1),
   Layer("fullyConnected", 0, 0, 0, 0), Layer("concat", 0, 0, 0, 0), Layer("null", 0, 1, 0, 0)}

File(name, identifier, layers_) ==
  [name |-> name, identifier |-> identifier, goesOn |-> FALSE, readable |-> TRUE, valid |-> TRUE,
   typed |-> TRUE, layers |-> layers_]
Models == {<<>>, <<Layer("null", 0, 0, 0, 0)>>} \cup {<<Input(size)>> \o tail : size \in {0, 4}, tail \in BoundedSeq(Kinds, MCLastLayer)}
Small == <<Input(4)>>
Net(layers_) == File(<<"alexnet">>, <<"alexnet">>, layers_)

MCDirectories ==
  {<<Net(m)>> : m \in Models} \cup
  {<<>>,
   <<Net(Small), [Net(Small) EXCEPT !.name = <<"b">>, !.valid = FALSE]>>,
   <<Net(Small), [Net(Small) EXCEPT !.name = <<"b">>, !.readable = FALSE]>>,
   <<Net(Small), [Net(Small) EXCEPT !.name = <<"b">>, !.typed = FALSE]>>,
   <<Net(Small), [Net(Small) EXCEPT !.goesOn = TRUE]>>,
   <<[Net(Small) EXCEPT !.goesOn = TRUE]>>,
   <<File(<<"alexnet">>, <<"vgg">>, Small)>>,
   <<File(<<"alexnet">>, <<>>, Small)>>,
   <<File(<<"alexnet">>, <<"vgg">>, Small), Net(Small)>>,
   <<File(<<"my", "alexnet">>, <<"alexnet">>, Small)>>,
   <<Net(Small), File(<<"vgg">>, <<"vgg">>, Small)>>}
MCGroups == <<"conv_1", "dense_1">>
MCWeights(groups) == [g \in groups |-> [rows |-> 2, columns |-> 3]]
MCWeightFiles == {MCWeights({"conv_1"}), MCWeights({"conv_1", "dense_1"})}

(* The hypothesis of the theorem on the difficulty holds here. *)
ASSUME MCNaturalFields == NaturalFields
=============================================================================
