----------------------------- MODULE NetBuilder -----------------------------
(***************************************************************************)
(* From the directory of the models to a net: ModelCrawler offers the nets *)
(* with a valid description, and NetBuilder builds one of them layer by    *)
(* layer, with its weights.                                                *)
(*                                                                         *)
(* A file is its name before ".json", a sequence of parts, and whether the *)
(* name goes on after it, as those of backup copies do; an identifier is a *)
(* sequence of parts, too.  A file may be no JSON, may lack a field, or    *)
(* may have one of another type.  A layer of a description has the fields  *)
(* the code reads, with the defaults of LayerConstructionParams for those  *)
(* that are absent, but the type "null".                                   *)
(***************************************************************************)
EXTENDS Integers, Sequences, SequencesExt

CONSTANTS
  Directories,      (* what the directory of the models may hold: sequences   *)
  WeightFiles,      (* the weight files there may be: group -> [rows, columns]*)
  Groups,           (* the groups in the order of LayerIdentifier             *)
  LastLayer,        (* the number of layers after the input, 21               *)
  IntLimit          (* one more than the largest int                          *)

ASSUME NetBuilderAssumption ==
  /\ LastLayer \in Nat \ {0} /\ IntLimit \in Nat \ {0} /\ Groups # <<>>
  /\ \A w \in WeightFiles :
       /\ DOMAIN w \subseteq ToSet(Groups)
       /\ \A g \in DOMAIN w : w[g].rows \in Nat /\ w[g].columns \in Nat
  /\ \A d \in Directories : d \in Seq(ToSet(d)) /\ \A file \in ToSet(d) :
       /\ file.name \in Seq(ToSet(file.name)) /\ file.identifier \in Seq(ToSet(file.identifier))
       /\ file.layers \in Seq(ToSet(file.layers))
       /\ {file.goesOn, file.readable, file.valid, file.typed} \subseteq BOOLEAN

(* The numbers of a description are natural, as the defaults for absent    *)
(* ones are (ModelLoader.h:47-60); the code reads negative ones, too.      *)
NaturalFields ==
  \A d \in Directories : \A file \in ToSet(d) : \A l \in ToSet(file.layers) :
    {l.inputSize, l.inputChannels, l.filterSize, l.stride, l.numFilters, l.radius} \subseteq Nat

VARIABLES
  directory,        (* the files of the directory, in the order of readdir    *)
  weightFile,       (* at most one: the open weight file                      *)
  at,               (* "crawl", "offer", "build", "built", or how it ended    *)
  index,            (* the next file, then layerIndex                         *)
  offered,          (* the nets found                                         *)
  model,            (* the description that is being built                    *)
  weightIndex,      (* weight groups used so far                              *)
  layers            (* the layers of the net                                  *)

vars == <<directory, weightFile, at, index, offered, model, weightIndex, layers>>

Init ==
  /\ directory \in Directories
  /\ weightFile \in {<<>>} \cup {<<w>> : w \in WeightFiles}
  /\ at = "crawl" /\ index = 1 /\ offered = <<>>
  /\ model = <<>> /\ weightIndex = 0 /\ layers = <<>>

-----------------------------------------------------------------------------
(* ModelCrawler::getValidNets. *)

(* fault: any file may describe any net. *)
AnyName(file) == TRUE

(* filepath.find(identifier + ".json"): the name only contains it.         *)
NameMatches(file) == IsSuffix(file.identifier, file.name)

(* constructNetInfo reads a field of another type. *)
Mistyped(file) == file.readable /\ file.valid /\ ~ file.typed

(* A file that is no JSON, or has another name, takes all nets away.       *)
Corrupt(file) == ~ file.readable \/ (file.valid /\ file.typed /\ ~ NameMatches(file))

CrawlFile ==
  /\ at = "crawl" /\ index <= Len(directory)
  /\ ~ Corrupt(directory[index]) /\ ~ Mistyped(directory[index])
  /\ offered' = IF directory[index].valid THEN Append(offered, directory[index].identifier)
                                          ELSE offered
  /\ index' = index + 1
  /\ UNCHANGED <<directory, weightFile, at, model, weightIndex, layers>>

CrawlEnds ==
  /\ at = "crawl"
  /\ \/ index > Len(directory) /\ at' = IF offered = <<>> THEN "ResourceException" ELSE "offer"
     \/ index <= Len(directory) /\ Corrupt(directory[index]) /\ at' = "ResourceException"
     \/ index <= Len(directory) /\ Mistyped(directory[index]) /\ at' = "type_error"
  /\ UNCHANGED <<directory, weightFile, index, offered, model, weightIndex, layers>>

-----------------------------------------------------------------------------
(* NetBuilder::buildNeuralNet. *)
Ends(how) ==
  /\ at' = how
  /\ UNCHANGED <<directory, weightFile, index, offered, model, weightIndex, layers>>

Described(id) == {i \in DOMAIN directory : directory[i].name = id /\ ~ directory[i].goesOn}
HasLayer(list, i) == i <= Len(list) /\ list[i].type # "null"

(* The dimensions of an input layer: channels, rows, columns.              *)
InputLayer(l) == [type |-> "input", in |-> <<l.inputChannels, l.inputSize, l.inputSize>>,
                  out |-> <<l.inputChannels, l.inputSize, l.inputSize>>, group |-> "none"]

(* The description is read, its first layer is the input whatever its      *)
(* type, and the weight file is opened.                                    *)
BeginBuild(id) ==
  /\ at = "offer"
  /\ \/ Described(id) = {} /\ Ends("ResourceException")
     \/ \E i \in Described(id) :
          \/ ~ HasLayer(directory[i].layers, 1) /\ Ends("type_error")
          \/ HasLayer(directory[i].layers, 1) /\ weightFile = <<>> /\ Ends("ResourceException")
          \/ /\ HasLayer(directory[i].layers, 1) /\ weightFile # <<>>
             /\ model' = directory[i].layers
             /\ layers' = <<InputLayer(directory[i].layers[1])>>
             /\ index' = 1 /\ weightIndex' = 0 /\ at' = "build"
             /\ UNCHANGED <<directory, weightFile, offered>>

(* getLayerJSON behind the end of the list is null, without a type.        *)
LayerMissing ==
  /\ at = "build" /\ index <= LastLayer
  /\ ~ HasLayer(model, index + 1)
  /\ Ends("type_error")

Building == at = "build" /\ index <= LastLayer /\ HasLayer(model, index + 1)

Lcp == model[index + 1]
Dims == Last(layers).out

Quotient(a, b) == IF a < 0 THEN - ((- a) \div b) ELSE a \div b
OutputWidth(l) == Quotient(Dims[3] - l.filterSize, l.stride) + 1

(* What follows from the dimensions before it and the parameters.          *)
ConvDims(l) == LET w == IF l.stride = 1 THEN Dims[3] ELSE OutputWidth(l) IN <<l.numFilters, w, w>>
PoolDims(l) == <<Dims[1], OutputWidth(l), OutputWidth(l)>>

AddLayer(layer) ==
  /\ layers' = Append(layers, layer)
  /\ index' = index + 1
  /\ UNCHANGED <<directory, weightFile, at, offered, model>>

Params(l) == [filterSize |-> l.filterSize, radius |-> l.radius]

(* Activation, LRN, loss, and a loss layer for every unknown type.         *)
AddPlainLayer ==
  /\ Building
  /\ Lcp.type \notin {"conv", "maxpooling", "fullyConnected"}
  /\ AddLayer([type |-> IF Lcp.type \in {"activation", "LRN"} THEN Lcp.type ELSE "losslayer",
               in |-> Dims, out |-> Dims, group |-> "none", params |-> Params(Lcp)])
  /\ UNCHANGED weightIndex

AddPoolingLayer ==
  /\ Building /\ Lcp.type = "maxpooling"
  /\ Len(Dims) = 3 /\ Lcp.stride # 0
  /\ AddLayer([type |-> "maxpooling", in |-> Dims, out |-> PoolDims(Lcp), group |-> "none",
               params |-> Params(Lcp)])
  /\ UNCHANGED weightIndex

(* getWeights: behind the last identifier the assertion aborts, or, in a   *)
(* build without assertions, the last group is used again.                 *)
Group == Groups[Min({weightIndex + 1, Len(Groups)})]
GroupFound == Group \in DOMAIN weightFile[1]
Weights == weightFile[1][Group]

AddConvLayer ==
  /\ Building /\ Lcp.type = "conv"
  /\ GroupFound /\ Len(Dims) = 3 /\ Lcp.stride # 0
  /\ AddLayer([type |-> "conv", in |-> Dims, out |-> ConvDims(Lcp), group |-> Group,
               params |-> Params(Lcp)])
  /\ weightIndex' = weightIndex + 1

(* fault: only convolutions count. *)
SameWeights == weightIndex

NextWeights == weightIndex + 1

AddFCLayer ==
  /\ Building /\ Lcp.type = "fullyConnected"
  /\ GroupFound
  /\ AddLayer([type |-> "fullyConnected", in |-> Dims, out |-> <<Weights.rows>>, group |-> Group,
               elements |-> Weights.rows * Weights.columns])
  /\ weightIndex' = NextWeights

WeightsMissing ==
  /\ Building /\ Lcp.type \in {"conv", "fullyConnected"}
  /\ ~ GroupFound
  /\ Ends("ResourceException")

WeightsAssertionFails ==
  /\ Building /\ Lcp.type \in {"conv", "fullyConnected"}
  /\ weightIndex >= Len(Groups)
  /\ Ends("abort")

(* calcOutputDimensions divides by the stride, and reads three dimensions. *)
DimensionsUndefined ==
  /\ Building /\ Lcp.type \in {"conv", "maxpooling"}
  /\ Lcp.type = "conv" => GroupFound
  /\ Len(Dims) # 3 \/ Lcp.stride = 0
  /\ Ends("undefined")

NetBuilt == at = "build" /\ index > LastLayer /\ Ends("built")

Stopped == at \notin {"crawl", "offer", "build"} /\ UNCHANGED vars

Next ==
  \/ CrawlFile \/ CrawlEnds
  \/ \E id \in ToSet(offered) : BeginBuild(id)
  \/ LayerMissing \/ AddPlainLayer \/ AddPoolingLayer \/ AddConvLayer \/ AddFCLayer
  \/ WeightsMissing \/ WeightsAssertionFails \/ DimensionsUndefined
  \/ NetBuilt \/ Stopped

Spec == Init /\ [][Next]_vars

-----------------------------------------------------------------------------
(* NeuralNet::getTotalDifficulty. *)
Elements(dims) ==
  LET product[n \in 0..Len(dims)] == IF n = 0 THEN 1 ELSE product[n - 1] * dims[n]
  IN  product[Len(dims)]

(* fault: nothing is counted for the input. *)
NaiveIsFree == 0

NaiveDifficulty == 1

(* The difficulty of a layer, before it is stored as an int.               *)
ExactDifficulty(l) ==
  CASE l.type = "input" -> NaiveDifficulty
    [] l.type = "conv" -> Elements(l.out) * l.params.filterSize * l.params.filterSize * l.in[1]
    [] l.type = "maxpooling" -> l.params.filterSize * l.params.filterSize * Elements(l.out)
    [] l.type = "fullyConnected" -> l.elements
    [] l.type = "LRN" -> 2 * l.params.radius * Elements(l.in)
    [] OTHER -> Elements(l.in)

ToInt(n) == ((n + IntLimit) % (2 * IntLimit)) - IntLimit

Difficulties == [i \in DOMAIN layers |-> ToInt(ExactDifficulty(layers[i]))]
TotalDifficulty == FoldLeft(+, 0, Difficulties)

-----------------------------------------------------------------------------
Weighted(l) == l.type \in {"conv", "fullyConnected"}
WeightedUpTo(i) == Cardinality({j \in 1..i : Weighted(layers[j])})
KnownTypes == {"conv", "maxpooling", "fullyConnected", "activation", "LRN", "losslayer"}

(* NetBuilder.cpp:43-76, AlexNetWeightLoader.cpp:106-127: a net that is    *)
(* built has every layer of the description up to the last, in order, and  *)
(* its k-th layer with weights, of whichever type, has the k-th group.     *)
BuiltAsDescribed ==
  at = "built" =>
    /\ Len(layers) = LastLayer + 1
    /\ \A i \in 2..Len(layers) :
         /\ layers[i].type = IF model[i].type \in KnownTypes THEN model[i].type ELSE "losslayer"
         /\ layers[i].in = layers[i - 1].out
         /\ layers[i].group = IF Weighted(layers[i])
                              THEN Groups[Min({WeightedUpTo(i), Len(Groups)})] ELSE "none"

(* PlatformPlacer.cpp:118 divides by the total difficulty: it is positive, *)
(* even for a net that computes nothing, unless the difficulty of a layer  *)
(* does not fit an int.                                                    *)
DifficultyIsPositive ==
  (at = "built" /\ \A i \in DOMAIN layers : ExactDifficulty(layers[i]) < IntLimit)
    => TotalDifficulty > 0

(* ModelCrawler.cpp:74-93, NetBuilder.cpp:39: the file of every net on     *)
(* offer is found when the net is built, unless the name of a file only    *)
(* contains the name of the net, or an identifier is empty.                *)
OfferedNetsCanBeOpened ==
  (at = "offer" /\ \A file \in ToSet(directory) :
                     Len(file.name) = 1 /\ ~ file.goesOn /\ file.identifier # <<>>) =>
    \A id \in ToSet(offered) :
      \E i \in Described(id) : directory[i].readable /\ directory[i].valid
=============================================================================
