------------------------------ MODULE Executor ------------------------------
(***************************************************************************)
(* Executor::classify (src/src/executor/Executor.cpp) with the objects it  *)
(* works on: the NeuralNet it keeps from call to call, the outputs of the  *)
(* layers, which the layers delete for each other, the Interpreter and the *)
(* PlatformPlacer.                                                         *)
(*                                                                         *)
(* The manager's process has one Executor and calls it from one thread at  *)
(* a time.  The computation server has one Executor, too, and calls it     *)
(* from every thread gRPC runs a request in.                               *)
(*                                                                         *)
(* An image stands for its data in every layer.  One step is one statement *)
(* of setupIfChanged or classifyImage, or one turn of the loop over the    *)
(* layers.  A step without a defined result (a second delete, a pointer to *)
(* a deleted object, a null pointer) leads to the location "undefined".    *)
(***************************************************************************)
EXTENDS Naturals, Sequences, SequencesExt

CONSTANTS
  Threads,        (* the threads that may be within classify                  *)
  Nets,           (* identifiers of the neural nets                           *)
  Modes,          (* the operation modes                                      *)
  Platforms,      (* the platforms of this host                               *)
  Selections,     (* the sets of platforms a caller may select                *)
  Images,         (* the images a caller may pass                             *)
  MaxImages,      (* bound: the largest number of images of one call          *)
  LayerKinds,     (* the layers of a net: "input", "conv", "flatten" (a fully *)
                  (* connected layer with a three-dimensional input), "plain" *)
  DifficultLayers,  (* the layers more difficult than the average             *)
  MayFail,        (* may a call fail?                                         *)
  OutlivesResourceException   (* the server does, the manager's process ends  *)

LastLayer == Len(LayerKinds)
Layers == 1..LastLayer
LayersOf(kind) == {l \in Layers : LayerKinds[l] = kind}

ASSUME ExecutorAssumption ==
  /\ Threads # {} /\ Nets # {} /\ Modes # {}
  /\ Nets \cap {"empty", "none"} = {}
  /\ Images \cap {"uninitialized", "deleted", "zeros"} = {}
  /\ "none" \notin Platforms
  /\ Selections \subseteq SUBSET Platforms
  /\ MaxImages \in Nat
  /\ LayerKinds \in Seq({"input", "conv", "flatten", "plain"})
  /\ LastLayer > 1
  /\ LayersOf("input") = {1}
  /\ DifficultLayers \subseteq Layers
  /\ MayFail \in BOOLEAN
  /\ OutlivesResourceException \in BOOLEAN

(* What a pointer to the output of a layer is good for, if not an image.   *)
Uninitialized == "uninitialized"
Deleted == "deleted"
Zeros == "zeros"        (* an output that was allocated but not computed     *)
Output == Images \cup {Uninitialized, Deleted, Zeros}
Live(o) == o \in Images \cup {Zeros}

NoPlatform == "none"
NoCall == [net |-> "empty", mode |-> "none", platforms |-> {}, images |-> <<>>]

VARIABLES
  (* of each thread *)
  pc,               (* where the thread is in classify; "idle" outside        *)
  call,             (* the arguments                                          *)
  k,                (* the image at hand                                      *)
  layer,            (* the layer at hand                                      *)
  results,          (* the results so far                                     *)
  (* of the Executor *)
  net,              (* the identifier of the built net                        *)
  netDeleted,       (* is net a pointer to a deleted object?                  *)
  labels,           (* the net whose labels the interpreter has, or "none"    *)
  currentMode,      (* never assigned                                         *)
  compDistribution, (* the platforms in the placer's distribution             *)
  (* of the layers of the net *)
  function,         (* the platform whose function the layer calls            *)
  computed,         (* the flag that lets the layer delete its input          *)
  output,           (* the state of outputWrapper                             *)
  (* history *)
  failed            (* has some call failed?                                  *)

threadVars == <<pc, call, k, layer, results>>
netVars == <<net, netDeleted, labels>>
placerVars == <<currentMode, compDistribution>>
layerVars == <<function, computed, output>>
vars == <<threadVars, netVars, placerVars, layerVars, failed>>

(* Executor.h:46: nothing is ever put into currentPlatforms.               *)
currentPlatforms == {}

Call == [net : Nets, mode : Modes, platforms : Selections,
         images : UNION {[1..n -> Images] : n \in 0..MaxImages}]

Init ==
  /\ pc = [t \in Threads |-> "idle"]
  /\ call = [t \in Threads |-> NoCall]
  /\ k = [t \in Threads |-> 1]
  /\ layer = [t \in Threads |-> 1]
  /\ results = [t \in Threads |-> <<>>]
  /\ net = "empty" /\ netDeleted = FALSE
  /\ labels = "none"
  /\ currentMode \in Modes
  /\ compDistribution = {}
  /\ function = [l \in Layers |-> NoPlatform]
  /\ computed = [l \in Layers |-> FALSE]
  /\ output = [l \in Layers |-> Uninitialized]
  /\ failed = FALSE

-----------------------------------------------------------------------------
Goto(t, location) == pc' = [pc EXCEPT ![t] = location]

Undefined(t) ==
  /\ Goto(t, "undefined")
  /\ UNCHANGED <<call, k, layer, results, netVars, placerVars, layerVars, failed>>

(* The arguments and local variables go. *)
Leave(t) ==
  /\ call' = [call EXCEPT ![t] = NoCall]
  /\ k' = [k EXCEPT ![t] = 1]
  /\ layer' = [layer EXCEPT ![t] = 1]
  /\ results' = [results EXCEPT ![t] = <<>>]

(* The exception leaves classify.  After a ResourceException the manager's *)
(* process is closed, so nothing is classified there any more.             *)
Throw(t, exception) ==
  /\ MayFail
  /\ Goto(t, IF exception = "resource" /\ ~ OutlivesResourceException
               THEN "closed" ELSE "idle")
  /\ Leave(t)
  /\ failed' = TRUE

(* A call of classify. *)
Classify(t, c) ==
  /\ pc[t] = "idle"
  /\ call' = [call EXCEPT ![t] = c]
  /\ Goto(t, "setup")
  /\ UNCHANGED <<k, layer, results, netVars, placerVars, layerVars, failed>>

-----------------------------------------------------------------------------
(* setupIfChanged.  A definition marked "fault:" is a seeded bug: it is    *)
(* used only in place of the definition below it, to show that the         *)
(* properties notice.                                                      *)

(* fault: a net is built only when there is none. *)
OnlyFirstNetBuilt(t) == net # "empty"

(* The net in place is the one asked for. *)
NetIsBuilt(t) == net = call[t].net

KeepNet(t) ==
  /\ pc[t] = "setup" /\ ~ netDeleted
  /\ NetIsBuilt(t)
  /\ Goto(t, "place")
  /\ UNCHANGED <<call, k, layer, results, netVars, placerVars, layerVars, failed>>

(* delete net: the destructor of a layer that is still marked as computed  *)
(* asks the layer before it, deleted just before, for its output, which    *)
(* the layer itself has already deleted.                                   *)
DeleteIsUndefined == \E l \in Layers : computed[l] /\ LayerKinds[l] # "input"

DeleteNet(t) ==
  /\ pc[t] = "setup" /\ ~ netDeleted
  /\ ~ NetIsBuilt(t)
  /\ ~ DeleteIsUndefined
  /\ netDeleted' = TRUE
  /\ Goto(t, "build")
  /\ UNCHANGED <<call, k, layer, results, net, labels, placerVars, layerVars, failed>>

SetupUndefined(t) ==
  /\ pc[t] = "setup"
  /\ netDeleted \/ (~ NetIsBuilt(t) /\ DeleteIsUndefined)
  /\ Undefined(t)

BuildNet(t) ==
  /\ pc[t] = "build"
  /\ net' = call[t].net /\ netDeleted' = FALSE
  /\ function' = [l \in Layers |-> NoPlatform]
  /\ computed' = [l \in Layers |-> FALSE]
  /\ output' = [l \in Layers |-> Uninitialized]
  /\ Goto(t, "labels")
  /\ UNCHANGED <<call, k, layer, results, labels, placerVars, failed>>

(* The model or its weights cannot be read. *)
BuildFails(t) ==
  /\ pc[t] = "build"
  /\ Throw(t, "resource")
  /\ UNCHANGED <<netVars, placerVars, layerVars>>

LoadLabels(t) ==
  /\ pc[t] = "labels"
  /\ labels' = call[t].net
  /\ Goto(t, "place")
  /\ UNCHANGED <<call, k, layer, results, net, netDeleted, placerVars, layerVars, failed>>

(* The labels cannot be read. *)
LabelsFail(t) ==
  /\ pc[t] = "labels"
  /\ Throw(t, "resource")
  /\ UNCHANGED <<netVars, placerVars, layerVars>>

-----------------------------------------------------------------------------
(* The call of placeComputations. *)
PlacementRequired(t) ==
  currentMode # call[t].mode \/ call[t].platforms # currentPlatforms

(* getDifficulty of a convolution or pooling layer allocates an output and *)
(* deletes it again.                                                       *)
Measured == LayersOf("conv")
OutputAfterMeasuring == [l \in Layers |-> IF l \in Measured THEN Deleted ELSE output[l]]

(* fault: layers keep the platform they have. *)
OnlyNewLayersPlaced(performance, fallback) ==
  [l \in Layers |-> IF function[l] # NoPlatform THEN function[l]
                    ELSE IF l \in DifficultLayers THEN performance ELSE fallback]

(* placeNetWith: difficult layers go to the performance platform, which is *)
(* one of the selected ones, and the others to the fallback, another.      *)
Placed(performance, fallback) ==
  [l \in Layers |-> IF l \in DifficultLayers THEN performance ELSE fallback]

PlaceNet(t) ==
  /\ pc[t] = "place"
  /\ PlacementRequired(t)
  /\ \E performance, fallback \in call[t].platforms : function' = Placed(performance, fallback)
  /\ output' = OutputAfterMeasuring
  /\ compDistribution' = call[t].platforms
  /\ Goto(t, "image")
  /\ UNCHANGED <<call, k, layer, results, netVars, currentMode, computed, failed>>

(* A convolution function cannot be set up: some layers have been placed.  *)
PlacementFails(t) ==
  /\ pc[t] = "place"
  /\ PlacementRequired(t)
  /\ \E performance, fallback \in call[t].platforms, l \in LayersOf("conv") :
       function' = [m \in Layers |-> IF m < l THEN Placed(performance, fallback)[m] ELSE function[m]]
  /\ output' = OutputAfterMeasuring
  /\ compDistribution' = {}
  /\ Throw(t, "resource")
  /\ UNCHANGED <<netVars, currentMode, computed>>

(* IllegalArgumentException: no platform is selected. *)
NothingSelected(t) ==
  /\ pc[t] = "place"
  /\ PlacementRequired(t) /\ call[t].platforms = {}
  /\ compDistribution' = {}
  /\ Throw(t, "other")
  /\ UNCHANGED <<netVars, currentMode, layerVars>>

SkipPlacement(t) ==
  /\ pc[t] = "place"
  /\ ~ PlacementRequired(t)
  /\ Goto(t, "image")
  /\ UNCHANGED <<call, k, layer, results, netVars, placerVars, layerVars, failed>>

-----------------------------------------------------------------------------
(* classifyImage for the images in turn. *)
NextImage(t) ==
  /\ pc[t] = "image" /\ k[t] <= Len(call[t].images)
  /\ layer' = [layer EXCEPT ![t] = 1]
  /\ Goto(t, "forward")
  /\ UNCHANGED <<call, k, results, netVars, placerVars, layerVars, failed>>

Return(t) ==
  /\ pc[t] = "image" /\ k[t] > Len(call[t].images)
  /\ Goto(t, "returned")
  /\ UNCHANGED <<call, k, layer, results, netVars, placerVars, layerVars, failed>>

(* The caller takes the results. *)
TakeResults(t) ==
  /\ pc[t] = "returned"
  /\ Goto(t, "idle")
  /\ Leave(t)
  /\ UNCHANGED <<netVars, placerVars, layerVars, failed>>

(* What the layer at hand reads: the image, or the output before it. *)
Input(t) == IF layer[t] = 1 THEN call[t].images[k[t]] ELSE output[layer[t] - 1]

ForwardIsUndefined(t) ==
  /\ layer[t] > 1
  /\ ~ Live(Input(t)) \/ function[layer[t]] = NoPlatform

(* forward marks the layer as computed, but for a fully connected layer    *)
(* with a three-dimensional input.                                         *)
MarksComputed(l) == LayerKinds[l] # "flatten"

(* fault: nothing is deleted. *)
NothingDeleted(l) == {}

(* fault: a layer deletes its own output. *)
OwnOutput(l) == {l}

(* What deleteGarbage deletes: the output that has just been read. *)
GarbageOf(l) ==
  IF LayerKinds[l] # "input" /\ (computed[l] \/ MarksComputed(l)) THEN {l - 1} ELSE {}

(* forward, deleteGarbage and next for the layer at hand. *)
Forward(t) ==
  LET l == layer[t] IN
  /\ pc[t] = "forward" /\ l <= LastLayer
  /\ ~ ForwardIsUndefined(t)
  /\ computed' = [computed EXCEPT ![l] = MarksComputed(l) \/ @]
  /\ output' = [m \in Layers |-> IF m \in GarbageOf(l) THEN Deleted
                                 ELSE IF m = l THEN Input(t) ELSE output[m]]
  /\ layer' = [layer EXCEPT ![t] = l + 1]
  /\ UNCHANGED <<pc, call, k, results, netVars, placerVars, function, failed>>

(* ResultException: the kernel of a convolution cannot be enqueued.  The   *)
(* output has been allocated, or not yet when the convolution is split     *)
(* into groups.                                                            *)
ForwardFails(t) ==
  LET l == layer[t] IN
  /\ pc[t] = "forward" /\ l <= LastLayer /\ LayerKinds[l] = "conv"
  /\ ~ ForwardIsUndefined(t)
  /\ \/ output' = [output EXCEPT ![l] = Zeros]
     \/ UNCHANGED output
  /\ Throw(t, "other")
  /\ UNCHANGED <<netVars, placerVars, function, computed>>

(* fault: the layers are not reset after an image. *)
NoReset == UNCHANGED computed

ResetLayers == computed' = [l \in Layers |-> FALSE]

(* The call of getResult without an interpreter or without a last output. *)
InterpretIsUndefined == labels = "none" \/ ~ Live(output[LastLayer])

(* Interpreter::getResult makes the result and deletes the last output;    *)
(* then the net is reset.                                                  *)
Interpret(t) ==
  /\ pc[t] = "forward" /\ layer[t] > LastLayer
  /\ ~ InterpretIsUndefined
  /\ results' = [results EXCEPT ![t] =
                   Append(@, [image |-> output[LastLayer], labels |-> labels,
                              platforms |-> compDistribution])]
  /\ output' = [output EXCEPT ![LastLayer] = Deleted]
  /\ ResetLayers
  /\ k' = [k EXCEPT ![t] = @ + 1]
  /\ Goto(t, "image")
  /\ UNCHANGED <<call, layer, netVars, placerVars, function, failed>>

(* A best output has no label: std::map::at throws. *)
InterpretFails(t) ==
  /\ pc[t] = "forward" /\ layer[t] > LastLayer
  /\ ~ InterpretIsUndefined
  /\ Throw(t, "other")
  /\ UNCHANGED <<netVars, placerVars, layerVars>>

ClassifyImageUndefined(t) ==
  /\ pc[t] = "forward"
  /\ IF layer[t] <= LastLayer THEN ForwardIsUndefined(t) ELSE InterpretIsUndefined
  /\ Undefined(t)

-----------------------------------------------------------------------------
Step(t) ==
  \/ KeepNet(t) \/ DeleteNet(t) \/ SetupUndefined(t)
  \/ BuildNet(t) \/ BuildFails(t) \/ LoadLabels(t) \/ LabelsFail(t)
  \/ PlaceNet(t) \/ PlacementFails(t) \/ NothingSelected(t) \/ SkipPlacement(t)
  \/ NextImage(t) \/ Return(t) \/ TakeResults(t)
  \/ Forward(t) \/ ForwardFails(t)
  \/ Interpret(t) \/ InterpretFails(t) \/ ClassifyImageUndefined(t)

Next == \E t \in Threads : Step(t) \/ \E c \in Call : Classify(t, c)

Spec == Init /\ [][Next]_vars

-----------------------------------------------------------------------------
Location == {"idle", "setup", "build", "labels", "place", "image", "forward",
             "returned", "closed", "undefined"}
Result == [image : Output, labels : Nets, platforms : SUBSET Platforms]

TypeOK ==
  /\ pc \in [Threads -> Location]
  /\ call \in [Threads -> Call \cup {NoCall}]
  /\ k \in [Threads -> 1..(MaxImages + 1)]
  /\ layer \in [Threads -> 1..(LastLayer + 1)]
  /\ results \in [Threads -> Seq(Result)]
  /\ \A t \in Threads : Len(results[t]) = k[t] - 1
  /\ net \in Nets \cup {"empty"} /\ netDeleted \in BOOLEAN
  /\ labels \in Nets \cup {"none"}
  /\ currentMode \in Modes
  /\ compDistribution \subseteq Platforms
  /\ function \in [Layers -> Platforms \cup {NoPlatform}]
  /\ computed \in [Layers -> BOOLEAN]
  /\ \A l \in LayersOf("flatten") : ~ computed[l]
  /\ output \in [Layers -> Output]
  /\ failed \in BOOLEAN

(* Each layer reads the output of the layer before it for the image at     *)
(* hand, although the outputs are deleted by the layers that read them, by *)
(* getDifficulty and by the interpreter, and are left over by failed calls *)
(* (Layer::deleteGarbage, Layer.cpp:79-83).                                *)
LayersReadTheImageAtHand ==
  \A t \in Threads : pc[t] = "forward" /\ layer[t] > 1 =>
    output[layer[t] - 1] = call[t].images[k[t]]

(* While the layers run, each runs on a selected platform, also after a    *)
(* placement that stopped half-way and after nets placed for other calls   *)
(* (Executor::setupIfChanged, Executor.cpp:88-91).                         *)
LayersRunWhereSelected ==
  \A t \in Threads : pc[t] = "forward" /\ call[t].platforms # {} =>
    /\ \A l \in Layers : function[l] \in call[t].platforms
    /\ compDistribution = call[t].platforms

(* classify meets an undefined step only after an earlier call has thrown, *)
(* or when no platform is selected: the layers are left such that the net  *)
(* can be deleted (NeuralNet.cpp:65-70) and run again.                     *)
UndefinedOnlyAfterFailure ==
  (\E t \in Threads : pc[t] = "undefined" /\ call[t].platforms # {}) => failed

(* The executor never deletes an object twice or reads a deleted one.      *)
(* Layer.h:173-177: deleteGarbage removes obsolete outputs and is called   *)
(* only after forward, but ~Layer calls it, too (Layer.cpp:85-87).         *)
NeverUndefined == \A t \in Threads : pc[t] # "undefined"

(* Between the images at most the input of a fully connected layer with a  *)
(* three-dimensional input is still allocated: everything else has been    *)
(* deleted (Layer::deleteGarbage, Interpreter.cpp:68).                     *)
OutputsFreed ==
  ~ failed /\ (\A t \in Threads : pc[t] \notin {"forward", "undefined"}) =>
    \A l \in Layers : Live(output[l]) => l + 1 \in LayersOf("flatten")

(* The Executor of the manager's process, where one thread calls it at a   *)
(* time, keeps the promise of the interface ComputationHost               *)
(* (ComputationHost.h:43-51) for every sequence of calls, whatever the     *)
(* calls before have left behind in the net, the layers and the placer.    *)
(* After an undefined step nothing is returned any more.                   *)
Caller == CHOOSE t \in Threads : TRUE

Host == INSTANCE ComputationHost WITH
  busy <- pc[Caller] \notin {"idle", "closed"},
  call <- call[Caller],
  reply <- IF pc[Caller] = "returned" THEN results[Caller] ELSE <<>>

ImplementsComputationHost == Host!Spec
=============================================================================
