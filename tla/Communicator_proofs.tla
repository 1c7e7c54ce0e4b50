------------------------- MODULE Communicator_proofs -------------------------
(***************************************************************************)
(* Theorems about Executor, and about Communicator, which extends it.      *)
(*                                                                         *)
(* Of Executor, for any net of two layers or more, any number of images,   *)
(* and any failures: what classify does while one thread at a time is      *)
(* within it, as in the manager's process and in a server of one client.   *)
(*                                                                         *)
(* Of Communicator, for any number of server threads, and connections and  *)
(* handlers that fail at any time: what one client can rely on.  That one  *)
(* thread at a time is within classify is what has to be proved there.     *)
(***************************************************************************)
EXTENDS Communicator, SequenceTheorems, FiniteSetTheorems, TLAPS

-----------------------------------------------------------------------------
(* The executor.                                                           *)

(* The sequences of images that a call may have. *)
LEMMA ImagesOfCall ==
  ASSUME NEW c \in Call
  PROVE  /\ c.images \in Seq(Images) /\ Len(c.images) \in 0..MaxImages
         /\ DOMAIN c.images = 1..Len(c.images)
         /\ \A j \in 1..Len(c.images) : c.images[j] \in Images
  <1>1. PICK n \in 0..MaxImages : c.images \in [1..n -> Images]
    BY DEF Call
  <1>2. n \in Nat
    BY ExecutorAssumption
  <1>3. c.images \in Seq(Images)
    BY <1>1, <1>2, SeqDef
  <1>4. /\ Len(c.images) \in Nat /\ DOMAIN c.images = 1..Len(c.images)
        /\ \A j \in 1..Len(c.images) : c.images[j] \in Images
    BY <1>3, LenProperties, ElementOfSeq
  <1>5. Len(c.images) = n
    BY <1>1, <1>2, <1>4
  <1>6. QED
    BY <1>3, <1>4, <1>5

(* The layers are numbered from the input on. *)
LEMMA LayersOfNet ==
  /\ LastLayer \in Nat \ {0, 1} /\ Layers = 1..LastLayer
  /\ 1 \in Layers /\ LastLayer \in Layers
  /\ \A l \in Layers : LayerKinds[l] = "input" <=> l = 1
  <1>1. LastLayer \in Nat /\ LastLayer > 1
    BY ExecutorAssumption, LenProperties DEF LastLayer
  <1>2. QED
    BY <1>1, ExecutorAssumption DEF Layers, LayersOf

-----------------------------------------------------------------------------
(* What each thread knows of its own call. *)
LocalInv ==
  \A t \in Threads :
    /\ pc[t] \in {"idle", "closed"} => k[t] = 1
    /\ pc[t] \notin {"idle", "closed"} =>
         /\ call[t] \in Call
         /\ k[t] <= Len(call[t].images) + 1
    /\ pc[t] = "forward" => k[t] <= Len(call[t].images)
    /\ pc[t] = "returned" => k[t] = Len(call[t].images) + 1

(* TypeOK in two parts: of the threads, and of the objects they share.     *)
ThreadTypes ==
  /\ pc \in [Threads -> Location]
  /\ call \in [Threads -> Call \cup {NoCall}]
  /\ k \in [Threads -> 1..(MaxImages + 1)]
  /\ layer \in [Threads -> 1..(LastLayer + 1)]
  /\ results \in [Threads -> Seq(Result)]
  /\ \A t \in Threads : Len(results[t]) = k[t] - 1

ObjectTypes ==
  /\ net \in Nets \cup {"empty"} /\ netDeleted \in BOOLEAN
  /\ labels \in Nets \cup {"none"}
  /\ currentMode \in Modes
  /\ compDistribution \subseteq Platforms
  /\ function \in [Layers -> Platforms \cup {NoPlatform}]
  /\ computed \in [Layers -> BOOLEAN]
  /\ \A l \in LayersOf("flatten") : ~ computed[l]
  /\ output \in [Layers -> Output]
  /\ failed \in BOOLEAN

LEMMA TypeParts == TypeOK <=> ThreadTypes /\ ObjectTypes
  BY DEF TypeOK, ThreadTypes, ObjectTypes

LEMMA InitTypes == Init => TypeOK /\ LocalInv
  <1> SUFFICES ASSUME Init PROVE TypeOK /\ LocalInv
    OBVIOUS
  <1> USE ExecutorAssumption DEF Init
  <1>1. results \in [Threads -> Seq(Result)] /\ (\A t \in Threads : Len(results[t]) = k[t] - 1)
    <2>1. <<>> \in Seq(Result) /\ Len(<<>>) = 0
      BY EmptySeq
    <2>2. QED
      BY <2>1
  <1>2. k \in [Threads -> 1..(MaxImages + 1)] /\ layer \in [Threads -> 1..(LastLayer + 1)]
    BY LayersOfNet
  <1>3. ThreadTypes
    BY <1>1, <1>2 DEF ThreadTypes, Location
  <1>4. ObjectTypes
    BY DEF ObjectTypes, Output, LayersOf
  <1>5. LocalInv
    BY DEF LocalInv
  <1>6. QED
    BY <1>3, <1>4, <1>5, TypeParts

(* An exception ends the call of its thread. *)
LEMMA ThrowTypes ==
  ASSUME ThreadTypes, LocalInv, NEW t \in Threads, NEW exception, Throw(t, exception)
  PROVE  ThreadTypes' /\ LocalInv' /\ failed'
  <1> USE DEF Throw, Goto, Leave
  <1>1. results' \in [Threads -> Seq(Result)] /\ (\A u \in Threads : Len(results'[u]) = k'[u] - 1)
    <2>1. <<>> \in Seq(Result) /\ Len(<<>>) = 0
      BY EmptySeq
    <2>2. QED
      BY <2>1 DEF ThreadTypes
  <1>2. 1 \in 1..(MaxImages + 1) /\ 1 \in 1..(LastLayer + 1)
    BY ExecutorAssumption, LayersOfNet
  <1>3. ThreadTypes'
    BY <1>1, <1>2 DEF ThreadTypes, Location
  <1>4. LocalInv'
    BY DEF LocalInv, ThreadTypes
  <1>5. QED
    BY <1>3, <1>4

(* The steps within a call that change no more than pc and layer of what   *)
(* a thread has.                                                           *)
LEMMA GotoTypes ==
  ASSUME ThreadTypes, LocalInv, NEW t \in Threads, NEW location \in Location,
         pc[t] \notin {"idle", "closed"}, location \notin {"idle", "closed"},
         Goto(t, location), UNCHANGED <<call, k, results>>,
         UNCHANGED layer \/ layer' = [layer EXCEPT ![t] = 1],
         location = "forward" => k[t] <= Len(call[t].images),
         location = "returned" => k[t] = Len(call[t].images) + 1
  PROVE  ThreadTypes' /\ LocalInv'
  <1>1. 1 \in 1..(LastLayer + 1)
    BY LayersOfNet
  <1>2. ThreadTypes'
    BY <1>1 DEF ThreadTypes, Goto
  <1>3. LocalInv'
    BY DEF LocalInv, ThreadTypes, Goto
  <1>4. QED
    BY <1>2, <1>3

(* The steps before the images: of threads. *)
LEMMA SetupThreadTypes ==
  ASSUME ThreadTypes, LocalInv, NEW t \in Threads,
         \/ KeepNet(t) \/ DeleteNet(t) \/ SetupUndefined(t)
         \/ BuildNet(t) \/ BuildFails(t) \/ LoadLabels(t) \/ LabelsFail(t)
         \/ PlaceNet(t) \/ PlacementFails(t) \/ NothingSelected(t) \/ SkipPlacement(t)
         \/ ClassifyImageUndefined(t) \/ ForwardFails(t) \/ InterpretFails(t)
  PROVE  ThreadTypes' /\ LocalInv'
  <1>1. CASE BuildFails(t) \/ LabelsFail(t) \/ PlacementFails(t) \/ NothingSelected(t)
             \/ ForwardFails(t) \/ InterpretFails(t)
    BY <1>1, ThrowTypes
       DEF BuildFails, LabelsFail, PlacementFails, NothingSelected, ForwardFails, InterpretFails
  <1>2. CASE KeepNet(t) \/ DeleteNet(t) \/ SetupUndefined(t) \/ BuildNet(t) \/ LoadLabels(t)
             \/ PlaceNet(t) \/ SkipPlacement(t) \/ ClassifyImageUndefined(t)
    <2>1. \E location \in {"place", "build", "undefined", "labels", "image"} :
            /\ Goto(t, location) /\ UNCHANGED <<call, k, results, layer>>
            /\ pc[t] \notin {"idle", "closed"}
      BY <1>2 DEF KeepNet, DeleteNet, SetupUndefined, BuildNet, LoadLabels, PlaceNet,
         SkipPlacement, ClassifyImageUndefined, Undefined
    <2>2. QED
      BY <2>1, GotoTypes DEF Location
  <1>3. QED
    BY <1>1, <1>2

(* The calls and the steps on the images: of threads. *)
LEMMA ImageThreadTypes ==
  ASSUME ThreadTypes, LocalInv, ObjectTypes, NEW t \in Threads,
         \/ NextImage(t) \/ Return(t) \/ TakeResults(t) \/ Forward(t) \/ Interpret(t)
         \/ \E c \in Call : Classify(t, c)
  PROVE  ThreadTypes' /\ LocalInv'
  <1>1. CASE NextImage(t)
    BY <1>1, GotoTypes DEF NextImage, Location
  <1>2. CASE Return(t)
    <2>1. k[t] = Len(call[t].images) + 1
      <3>1. call[t] \in Call /\ k[t] <= Len(call[t].images) + 1 /\ k[t] > Len(call[t].images)
        BY <1>2 DEF Return, LocalInv
      <3>2. k[t] \in Nat /\ Len(call[t].images) \in Nat
        BY <3>1, ImagesOfCall, ExecutorAssumption DEF ThreadTypes
      <3>3. QED
        BY <3>1, <3>2
    <2>2. QED
      BY <1>2, <2>1, GotoTypes DEF Return, Location
  <1>3. CASE TakeResults(t)
    <2>1. <<>> \in Seq(Result) /\ Len(<<>>) = 0
      BY EmptySeq
    <2>2. 1 \in 1..(MaxImages + 1) /\ 1 \in 1..(LastLayer + 1)
      BY ExecutorAssumption, LayersOfNet
    <2>3. ThreadTypes'
      BY <1>3, <2>1, <2>2 DEF ThreadTypes, TakeResults, Goto, Leave, Location
    <2>4. LocalInv'
      BY <1>3 DEF LocalInv, ThreadTypes, TakeResults, Goto, Leave
    <2>5. QED
      BY <2>3, <2>4
  <1>4. CASE Forward(t)
    <2>1. layer[t] + 1 \in 1..(LastLayer + 1)
      BY <1>4, LayersOfNet DEF Forward, ThreadTypes
    <2>2. ThreadTypes'
      BY <1>4, <2>1 DEF Forward, ThreadTypes
    <2>3. LocalInv'
      BY <1>4 DEF Forward, LocalInv, ThreadTypes
    <2>4. QED
      BY <2>2, <2>3
  <1>5. CASE Interpret(t)
    <2> DEFINE r == [image |-> output[LastLayer], labels |-> labels, platforms |-> compDistribution]
    <2>1. r \in Result
      BY <1>5, LayersOfNet DEF Interpret, InterpretIsUndefined, ObjectTypes, Result
    <2>2. /\ call[t] \in Call /\ pc[t] = "forward" /\ k[t] <= Len(call[t].images)
          /\ Len(call[t].images) \in 0..MaxImages
      BY <1>5, ImagesOfCall DEF Interpret, LocalInv
    <2>3. k[t] + 1 \in 1..(MaxImages + 1) /\ k[t] + 1 <= Len(call[t].images) + 1
      BY <2>2, ExecutorAssumption DEF ThreadTypes
    <2>4. results[t] \in Seq(Result) /\ Len(results[t]) = k[t] - 1 /\ k[t] \in Nat
      BY ExecutorAssumption DEF ThreadTypes
    <2>5. Append(results[t], r) \in Seq(Result) /\ Len(Append(results[t], r)) = k[t]
      BY <2>1, <2>4, AppendProperties
    <2>6. /\ results' = [results EXCEPT ![t] = Append(results[t], r)]
          /\ k' = [k EXCEPT ![t] = k[t] + 1] /\ Goto(t, "image")
          /\ UNCHANGED <<call, layer>>
      BY <1>5 DEF Interpret
    <2> HIDE DEF r
    <2>7. ThreadTypes'
      BY <2>3, <2>4, <2>5, <2>6 DEF ThreadTypes, Goto, Location
    <2>8. LocalInv'
      BY <2>2, <2>3, <2>6 DEF LocalInv, ThreadTypes, Goto
    <2>9. QED
      BY <2>7, <2>8
  <1>6. CASE \E c \in Call : Classify(t, c)
    <2>1. PICK c \in Call : Classify(t, c)
      BY <1>6
    <2>2. Len(c.images) \in Nat
      BY ImagesOfCall
    <2>3. ThreadTypes'
      BY <2>1 DEF Classify, ThreadTypes, Goto, Location
    <2>4. LocalInv'
      BY <2>1, <2>2 DEF Classify, LocalInv, ThreadTypes, Goto
    <2>5. QED
      BY <2>3, <2>4
  <1>7. QED
    BY <1>1, <1>2, <1>3, <1>4, <1>5, <1>6

(* While the layers run there is an image at hand. *)
LEMMA ImageAtHand ==
  ASSUME ThreadTypes, LocalInv, NEW t \in Threads, pc[t] = "forward"
  PROVE  /\ call[t] \in Call /\ k[t] \in 1..Len(call[t].images)
         /\ call[t].images[k[t]] \in Images
  <1>1. call[t] \in Call /\ k[t] <= Len(call[t].images)
    BY DEF LocalInv
  <1>2. k[t] \in Nat /\ k[t] >= 1 /\ Len(call[t].images) \in Nat
    BY <1>1, ImagesOfCall, ExecutorAssumption DEF ThreadTypes
  <1>3. k[t] \in 1..Len(call[t].images)
    BY <1>1, <1>2
  <1>4. QED
    BY <1>1, <1>3, ImagesOfCall

(* Every step: of the objects. *)
LEMMA ObjectStep ==
  ASSUME ThreadTypes, LocalInv, ObjectTypes, NEW t \in Threads,
         Step(t) \/ \E c \in Call : Classify(t, c)
  PROVE  ObjectTypes'
  <1> USE DEF ObjectTypes, netVars, placerVars, layerVars
  <1>0. ASSUME UNCHANGED <<netVars, placerVars, layerVars>>, failed' \in BOOLEAN
        PROVE  ObjectTypes'
    BY <1>0
  <1>1. CASE KeepNet(t) \/ DeleteNet(t) \/ SetupUndefined(t) \/ SkipPlacement(t)
             \/ NextImage(t) \/ Return(t) \/ TakeResults(t) \/ ClassifyImageUndefined(t)
             \/ \E c \in Call : Classify(t, c)
    BY <1>1 DEF KeepNet, DeleteNet, SetupUndefined, SkipPlacement, NextImage, Return,
       TakeResults, ClassifyImageUndefined, Classify, Undefined
  <1>2. CASE BuildFails(t) \/ LabelsFail(t) \/ NothingSelected(t) \/ InterpretFails(t)
    BY <1>2 DEF BuildFails, LabelsFail, NothingSelected, InterpretFails, Throw
  <1>3. CASE BuildNet(t) \/ LoadLabels(t)
    <2>1. call[t].net \in Nets
      BY <1>3 DEF BuildNet, LoadLabels, LocalInv, Call
    <2>2. CASE LoadLabels(t)
      BY <2>1, <2>2 DEF LoadLabels
    <2>3. CASE BuildNet(t)
      <3>1. /\ function' = [l \in Layers |-> NoPlatform] /\ computed' = [l \in Layers |-> FALSE]
            /\ output' = [l \in Layers |-> Uninitialized]
        BY <2>3 DEF BuildNet
      <3> QED BY <2>1, <2>3, <3>1 DEF BuildNet, Output, LayersOf
    <2> QED
      BY <1>3, <2>2, <2>3
  <1>4. CASE PlaceNet(t) \/ PlacementFails(t)
    <2>1. OutputAfterMeasuring \in [Layers -> Output]
      BY DEF OutputAfterMeasuring, Output
    <2>2. call[t].platforms \subseteq Platforms
      BY <1>4, ExecutorAssumption DEF PlaceNet, PlacementFails, LocalInv, Call
    <2>3. \A performance, fallback \in call[t].platforms :
            Placed(performance, fallback) \in [Layers -> Platforms]
      BY <2>2 DEF Placed
    <2>4. function' \in [Layers -> Platforms \cup {NoPlatform}]
      BY <1>4, <2>3 DEF PlaceNet, PlacementFails
    <2>5. QED
      BY <1>4, <2>1, <2>2, <2>4 DEF PlaceNet, PlacementFails, Throw
  <1>5. CASE Forward(t)
    <2>1. layer[t] \in Layers /\ layer[t] \in Nat
      BY <1>5, LayersOfNet DEF Forward, ThreadTypes
    <2>2. Input(t) \in Output
      <3>1. call[t].images[k[t]] \in Output
        BY <1>5, ImageAtHand DEF Forward, Output
      <3>2. QED
        BY <2>1, <3>1, LayersOfNet DEF Input
    <2>3. computed' \in [Layers -> BOOLEAN] /\ \A l \in LayersOf("flatten") : ~ computed'[l]
      BY <1>5, <2>1 DEF Forward, MarksComputed, LayersOf
    <2>4. output' \in [Layers -> Output]
      BY <1>5, <2>1, <2>2 DEF Forward, Output
    <2>5. QED
      BY <1>5, <2>3, <2>4 DEF Forward
  <1>6. CASE ForwardFails(t)
    BY <1>6 DEF ForwardFails, Throw, Output
  <1>7. CASE Interpret(t)
    <2>1. /\ output' = [output EXCEPT ![LastLayer] = Deleted]
          /\ computed' = [l \in Layers |-> FALSE]
          /\ UNCHANGED <<netVars, placerVars, function, failed>>
      BY <1>7 DEF Interpret, ResetLayers
    <2>2. QED
      BY <2>1 DEF Output, LayersOf
  <1>8. QED
    BY <1>1, <1>2, <1>3, <1>4, <1>5, <1>6, <1>7 DEF Step

LEMMA TypeStep ==
  ASSUME TypeOK, LocalInv, NEW t \in Threads, Step(t) \/ \E c \in Call : Classify(t, c)
  PROVE  TypeOK' /\ LocalInv'
  <1>1. ThreadTypes /\ ObjectTypes
    BY TypeParts
  <1>2. ThreadTypes' /\ LocalInv' /\ ObjectTypes'
    BY <1>1, SetupThreadTypes, ImageThreadTypes, ObjectStep DEF Step
  <1>3. QED
    BY <1>2 DEF TypeOK, ThreadTypes, ObjectTypes

LEMMA TypesUnchanged == TypeOK /\ LocalInv /\ UNCHANGED vars => TypeOK' /\ LocalInv'
  BY DEF TypeOK, LocalInv, vars, threadVars, netVars, placerVars, layerVars

(* The variables keep their types, however many threads are in classify.   *)
THEOREM TypeCorrect == Spec => []TypeOK
  <1>1. TypeOK /\ LocalInv /\ [Next]_vars => TypeOK' /\ LocalInv'
    BY TypeStep, TypesUnchanged DEF Next
  <1>2. QED
    BY InitTypes, <1>1, PTL DEF Spec

-----------------------------------------------------------------------------
(***************************************************************************)
(* The inductive invariant for one thread at a time.  What an exception    *)
(* may leave behind is excluded by "Sound" (a net that is deleted or has   *)
(* another net's labels; the manager's process ends with it) and by        *)
(* "~ failed" (layers that are computed, outputs that are allocated).      *)
(***************************************************************************)
AtMostOne == \A t, u \in Threads : pc[t] # "idle" /\ pc[u] # "idle" => t = u
Alone(t) == \A u \in Threads : u # t => pc[u] = "idle"

Sound == OutlivesResourceException => ~ failed

(* From the placement on, the layers are where the caller wants them.      *)
PlaceInv ==
  \A t \in Threads : pc[t] \in {"image", "forward"} /\ call[t].platforms # {} =>
    /\ \A l \in Layers : function[l] \in call[t].platforms
    /\ compDistribution = call[t].platforms

(* The net, its labels and the name under which they are remembered agree. *)
NetInv ==
  Sound =>
    /\ \A t \in Threads : pc[t] \in {"labels", "place", "image", "forward"} => net = call[t].net
    /\ netDeleted => \E t \in Threads : pc[t] \in {"build", "closed"}
    /\ (\A t \in Threads : pc[t] \notin {"labels", "closed"}) => net = "empty" \/ labels = net

(* The results so far are those of the images so far.                      *)
ResultInv ==
  \A t \in Threads : \A j \in 1..Len(results[t]) :
    /\ results[t][j].image = call[t].images[j]
    /\ Sound => results[t][j].labels = call[t].net
    /\ call[t].platforms # {} => results[t][j].platforms = call[t].platforms

(* Between the images nothing is computed and hardly an output allocated;  *)
(* while the layers run, there is only the output just computed.           *)
FreshInv ==
  ~ failed =>
    /\ (\A t \in Threads : pc[t] \notin {"forward", "undefined"}) => \A l \in Layers :
         ~ computed[l] /\ (Live(output[l]) => l + 1 \in LayersOf("flatten"))
    /\ \A t \in Threads :
         /\ pc[t] = "forward" => \A l \in Layers :
              Live(output[l]) => l + 1 \in LayersOf("flatten") \/ l = layer[t] - 1
         /\ pc[t] = "undefined" => call[t].platforms = {}

ExecInv ==
  /\ TypeOK /\ LocalInv
  /\ LayersReadTheImageAtHand /\ PlaceInv /\ NetInv /\ ResultInv /\ FreshInv

LEMMA InitExecInv == Init => ExecInv
  <1> SUFFICES ASSUME Init PROVE ExecInv
    OBVIOUS
  <1>1. TypeOK /\ LocalInv
    BY InitTypes
  <1>2. LayersReadTheImageAtHand /\ PlaceInv /\ NetInv
    BY DEF Init, LayersReadTheImageAtHand, PlaceInv, NetInv
  <1>3. ResultInv
    <2>1. Len(<<>>) = 0
      OBVIOUS
    <2>2. QED
      BY <2>1 DEF Init, ResultInv
  <1>4. FreshInv
    BY ExecutorAssumption DEF Init, FreshInv, Live, Uninitialized, Zeros
  <1>5. QED
    BY <1>1, <1>2, <1>3, <1>4 DEF ExecInv

(* Where the actions lead, and that other threads are left alone. *)
LEMMA Moves ==
  ASSUME TypeOK, NEW t \in Threads, Step(t) \/ \E c \in Call : Classify(t, c)
  PROVE  /\ \A u \in Threads : u # t =>
              /\ pc'[u] = pc[u] /\ call'[u] = call[u] /\ k'[u] = k[u]
              /\ layer'[u] = layer[u] /\ results'[u] = results[u]
         /\ pc'[t] = "forward" => NextImage(t) \/ Forward(t)
         /\ pc'[t] = "image" => PlaceNet(t) \/ SkipPlacement(t) \/ Interpret(t)
         /\ pc'[t] = "place" => KeepNet(t) \/ LoadLabels(t)
         /\ pc'[t] = "labels" => BuildNet(t)
         /\ pc'[t] = "build" => DeleteNet(t)
         /\ pc'[t] = "undefined" => SetupUndefined(t) \/ ClassifyImageUndefined(t)
         /\ failed => failed'
  <1> USE DEF TypeOK, Goto, Leave, Throw
  <1>1. CASE BuildFails(t) \/ LabelsFail(t) \/ PlacementFails(t) \/ NothingSelected(t)
             \/ ForwardFails(t) \/ InterpretFails(t)
    BY <1>1
       DEF BuildFails, LabelsFail, PlacementFails, NothingSelected, ForwardFails, InterpretFails
  <1>2. CASE KeepNet(t) \/ DeleteNet(t) \/ SetupUndefined(t) \/ BuildNet(t) \/ LoadLabels(t)
             \/ PlaceNet(t) \/ SkipPlacement(t) \/ ClassifyImageUndefined(t)
    BY <1>2 DEF KeepNet, DeleteNet, SetupUndefined, BuildNet, LoadLabels, PlaceNet,
       SkipPlacement, ClassifyImageUndefined, Undefined
  <1>3. CASE NextImage(t) \/ Return(t) \/ TakeResults(t) \/ Forward(t)
             \/ \E c \in Call : Classify(t, c)
    BY <1>3 DEF NextImage, Return, TakeResults, Forward, Classify
  <1>4. CASE Interpret(t)
    BY <1>4 DEF Interpret
  <1>5. QED
    BY <1>1, <1>2, <1>3, <1>4 DEF Step

(* A layer reads what the one before it has made of the image at hand. *)
LEMMA InputIsTheImage ==
  ASSUME LayersReadTheImageAtHand, TypeOK, NEW t \in Threads, pc[t] = "forward"
  PROVE  Input(t) = call[t].images[k[t]]
  BY LayersOfNet DEF Input, LayersReadTheImageAtHand, TypeOK

LEMMA ReadStep ==
  ASSUME ExecInv, NEW t \in Threads, Alone(t), Step(t) \/ \E c \in Call : Classify(t, c)
  PROVE  LayersReadTheImageAtHand'
  <1> SUFFICES ASSUME NEW u \in Threads, pc'[u] = "forward", layer'[u] > 1
               PROVE  output'[layer'[u] - 1] = call'[u].images[k'[u]]
    BY DEF LayersReadTheImageAtHand
  <1>0. TypeOK /\ LayersReadTheImageAtHand
    BY DEF ExecInv
  <1>1. u = t
    BY <1>0, Moves DEF Alone
  <1>2. CASE NextImage(t)
    BY <1>0, <1>1, <1>2 DEF NextImage, TypeOK
  <1>3. CASE Forward(t)
    <2>1. layer[t] \in Layers /\ layer[t] \in Nat /\ layer'[t] = layer[t] + 1
      BY <1>0, <1>3, LayersOfNet DEF Forward, TypeOK
    <2>2. layer[t] \notin GarbageOf(layer[t])
      BY <2>1 DEF GarbageOf
    <2>3. output'[layer[t]] = Input(t)
      BY <1>3, <2>1, <2>2 DEF Forward
    <2>4. Input(t) = call[t].images[k[t]]
      BY <1>0, <1>3, InputIsTheImage DEF Forward
    <2>5. UNCHANGED <<call, k>>
      BY <1>3 DEF Forward
    <2>6. QED
      BY <1>1, <2>1, <2>3, <2>4, <2>5
  <1>4. QED
    BY <1>0, <1>1, <1>2, <1>3, Moves

LEMMA PlaceStep ==
  ASSUME ExecInv, NEW t \in Threads, Alone(t), Step(t) \/ \E c \in Call : Classify(t, c)
  PROVE  PlaceInv'
  <1> SUFFICES ASSUME NEW u \in Threads, pc'[u] \in {"image", "forward"}, call'[u].platforms # {}
               PROVE  /\ \A l \in Layers : function'[l] \in call'[u].platforms
                      /\ compDistribution' = call'[u].platforms
    BY DEF PlaceInv
  <1>0. TypeOK /\ PlaceInv
    BY DEF ExecInv
  <1>1. u = t
    BY <1>0, Moves DEF Alone
  <1>2. CASE PlaceNet(t)
    BY <1>1, <1>2 DEF PlaceNet, Placed
  <1>3. CASE SkipPlacement(t)
    BY <1>1, <1>3 DEF SkipPlacement, PlacementRequired, currentPlatforms
  <1>4. CASE Interpret(t)
    BY <1>0, <1>1, <1>4 DEF Interpret, PlaceInv, placerVars
  <1>5. CASE NextImage(t) \/ Forward(t)
    BY <1>0, <1>1, <1>5 DEF NextImage, Forward, PlaceInv, placerVars, layerVars
  <1>6. QED
    BY <1>0, <1>1, <1>2, <1>3, <1>4, <1>5, Moves

LEMMA NetStep ==
  ASSUME ExecInv, NEW t \in Threads, Alone(t), Step(t) \/ \E c \in Call : Classify(t, c)
  PROVE  NetInv'
  <1>0. TypeOK /\ LocalInv /\ NetInv
    BY DEF ExecInv
  <1> SUFFICES ASSUME Sound'
               PROVE  /\ \A u \in Threads : pc'[u] \in {"labels", "place", "image", "forward"} =>
                           net' = call'[u].net
                      /\ netDeleted' => \E u \in Threads : pc'[u] \in {"build", "closed"}
                      /\ (\A u \in Threads : pc'[u] \notin {"labels", "closed"}) =>
                           net' = "empty" \/ labels' = net'
    BY DEF NetInv
  <1>1. Sound
    BY <1>0, Moves DEF Sound
  <1>2. /\ pc[t] \in {"labels", "place", "image", "forward"} => net = call[t].net
        /\ netDeleted => pc[t] \in {"build", "closed"}
        /\ pc[t] \notin {"labels", "closed"} => net = "empty" \/ labels = net
    BY <1>0, <1>1 DEF NetInv, Alone
  <1> SUFFICES /\ pc'[t] \in {"labels", "place", "image", "forward"} => net' = call'[t].net
               /\ netDeleted' => pc'[t] \in {"build", "closed"}
               /\ pc'[t] \notin {"labels", "closed"} => net' = "empty" \/ labels' = net'
    BY <1>0, Moves DEF Alone
  <1> USE <1>0, <1>2 DEF TypeOK, Goto, Throw, Leave, netVars
  <1>3. CASE BuildFails(t) \/ LabelsFail(t)
    BY <1>3, ExecutorAssumption DEF BuildFails, LabelsFail, Sound
  <1>4. CASE PlacementFails(t) \/ NothingSelected(t) \/ ForwardFails(t) \/ InterpretFails(t)
    BY <1>4 DEF PlacementFails, NothingSelected, ForwardFails, InterpretFails
  <1>5. CASE KeepNet(t) \/ DeleteNet(t) \/ BuildNet(t) \/ LoadLabels(t)
    BY <1>5 DEF KeepNet, NetIsBuilt, DeleteNet, BuildNet, LoadLabels
  <1>6. CASE SetupUndefined(t) \/ PlaceNet(t) \/ SkipPlacement(t) \/ ClassifyImageUndefined(t)
    BY <1>6 DEF SetupUndefined, PlaceNet, SkipPlacement, ClassifyImageUndefined, Undefined
  <1>7. CASE NextImage(t) \/ Return(t) \/ TakeResults(t) \/ Forward(t)
             \/ \E c \in Call : Classify(t, c)
    BY <1>7 DEF NextImage, Return, TakeResults, Forward, Classify
  <1>8. CASE Interpret(t)
    BY <1>8 DEF Interpret
  <1>9. QED
    BY <1>3, <1>4, <1>5, <1>6, <1>7, <1>8 DEF Step

(* A new result is of the image at hand, the net asked for and the         *)
(* platforms selected.                                                     *)
LEMMA NewResult ==
  ASSUME ExecInv, NEW t \in Threads, Alone(t), Interpret(t)
  PROVE  /\ output[LastLayer] = call[t].images[k[t]]
         /\ Sound => labels = call[t].net
         /\ call[t].platforms # {} => compDistribution = call[t].platforms
  <1>1. pc[t] = "forward" /\ layer[t] > LastLayer
    BY DEF Interpret
  <1>2. layer[t] - 1 = LastLayer /\ layer[t] > 1
    BY <1>1, LayersOfNet DEF ExecInv, TypeOK
  <1>3. output[LastLayer] = call[t].images[k[t]]
    BY <1>1, <1>2 DEF ExecInv, LayersReadTheImageAtHand
  <1>4. Sound => labels = call[t].net
    <2>1. call[t].net \in Nets
      BY <1>1 DEF ExecInv, LocalInv, Call
    <2>2. QED
      BY <1>1, <2>1, ExecutorAssumption DEF ExecInv, NetInv, Alone
  <1>5. QED
    BY <1>1, <1>3, <1>4 DEF ExecInv, PlaceInv

LEMMA ResultStep ==
  ASSUME ExecInv, NEW t \in Threads, Alone(t), Step(t) \/ \E c \in Call : Classify(t, c)
  PROVE  ResultInv'
  <1>0. TypeOK /\ LocalInv /\ ResultInv
    BY DEF ExecInv
  <1>1. Sound' => Sound
    BY <1>0, Moves DEF Sound
  <1> SUFFICES ASSUME NEW j \in 1..Len(results'[t])
               PROVE  /\ results'[t][j].image = call'[t].images[j]
                      /\ Sound' => results'[t][j].labels = call'[t].net
                      /\ call'[t].platforms # {} => results'[t][j].platforms = call'[t].platforms
    BY <1>0, <1>1, Moves DEF ResultInv
  <1>2. CASE UNCHANGED <<call, results>>
    BY <1>0, <1>1, <1>2 DEF ResultInv
  <1>3. CASE results'[t] = <<>>
    BY <1>3
  <1>4. CASE BuildFails(t) \/ LabelsFail(t) \/ PlacementFails(t) \/ NothingSelected(t)
             \/ ForwardFails(t) \/ InterpretFails(t) \/ TakeResults(t)
    BY <1>0, <1>3, <1>4
       DEF BuildFails, LabelsFail, PlacementFails, NothingSelected, ForwardFails,
           InterpretFails, TakeResults, Throw, Leave, TypeOK
  <1>5. CASE \E c \in Call : Classify(t, c)
    <2>1. pc[t] = "idle" /\ results' = results
      BY <1>5 DEF Classify
    <2>2. Len(results[t]) = 0
      BY <1>0, <2>1 DEF LocalInv, TypeOK
    <2>3. QED
      BY <2>1, <2>2
  <1>6. CASE Interpret(t)
    <2> DEFINE r == [image |-> output[LastLayer], labels |-> labels, platforms |-> compDistribution]
    <2>1. /\ results'[t] = Append(results[t], r) /\ call' = call /\ results[t] \in Seq(Result)
          /\ Len(results[t]) = k[t] - 1
      BY <1>0, <1>6 DEF Interpret, TypeOK
    <2>2. k[t] \in Nat /\ k[t] >= 1
      BY <1>0, ExecutorAssumption DEF TypeOK
    <2>3. r \in Result
      BY <1>0, <1>6, LayersOfNet DEF Interpret, InterpretIsUndefined, TypeOK, Result
    <2>4. /\ r.image = call[t].images[k[t]]
          /\ Sound => r.labels = call[t].net
          /\ call[t].platforms # {} => r.platforms = call[t].platforms
      BY <1>6, NewResult
    <2> HIDE DEF r
    <2>5. /\ Len(results'[t]) = k[t]
          /\ results'[t][k[t]] = r
          /\ \A i \in 1..(k[t] - 1) : results'[t][i] = results[t][i]
      BY <2>1, <2>2, <2>3, AppendProperties
    <2>6. CASE j = k[t]
      BY <1>1, <2>1, <2>4, <2>5, <2>6
    <2>7. CASE j # k[t]
      <3>1. j \in 1..Len(results[t]) /\ results'[t][j] = results[t][j]
        BY <2>1, <2>2, <2>5, <2>7
      <3>2. QED
        BY <1>0, <1>1, <2>1, <3>1 DEF ResultInv
    <2>8. QED
      BY <2>6, <2>7
  <1>7. CASE KeepNet(t) \/ DeleteNet(t) \/ SetupUndefined(t) \/ BuildNet(t) \/ LoadLabels(t)
             \/ PlaceNet(t) \/ SkipPlacement(t) \/ ClassifyImageUndefined(t)
             \/ NextImage(t) \/ Return(t) \/ Forward(t)
    BY <1>2, <1>7 DEF KeepNet, DeleteNet, SetupUndefined, BuildNet, LoadLabels, PlaceNet,
       SkipPlacement, ClassifyImageUndefined, Undefined, NextImage, Return, Forward
  <1>8. QED
    BY <1>4, <1>5, <1>6, <1>7 DEF Step

(* Without an earlier failure, an undefined step needs a caller that       *)
(* selects no platform.                                                    *)
LEMMA UndefinedStep ==
  ASSUME ExecInv, NEW t \in Threads, Alone(t), ~ failed,
         SetupUndefined(t) \/ ClassifyImageUndefined(t)
  PROVE  call[t].platforms = {}
  <1>0. TypeOK /\ ThreadTypes /\ LocalInv /\ Sound
    BY TypeParts DEF ExecInv, Sound
  <1>1. CASE SetupUndefined(t)
    <2>1. pc[t] = "setup"
      BY <1>1 DEF SetupUndefined
    <2>2. \A u \in Threads : pc[u] \notin {"forward", "undefined", "build", "closed"}
      BY <2>1 DEF Alone
    <2>3. ~ netDeleted
      BY <1>0, <2>2 DEF ExecInv, NetInv
    <2>4. ~ DeleteIsUndefined
      BY <2>2 DEF ExecInv, FreshInv, DeleteIsUndefined
    <2>5. QED
      BY <1>1, <2>3, <2>4 DEF SetupUndefined
  <1>2. CASE ClassifyImageUndefined(t)
    <2> SUFFICES ASSUME call[t].platforms # {} PROVE FALSE
      OBVIOUS
    <2>1. pc[t] = "forward" /\ call[t] \in Call
      BY <1>0, <1>2 DEF ClassifyImageUndefined, LocalInv
    <2>2. Live(call[t].images[k[t]])
      BY <1>0, <2>1, ImageAtHand DEF Live
    <2>3. call[t].platforms \subseteq Platforms /\ NoPlatform \notin Platforms
          /\ call[t].net \in Nets /\ "none" \notin Nets
      BY <2>1, ExecutorAssumption DEF Call, NoPlatform
    <2>4. CASE layer[t] <= LastLayer
      <3>1. layer[t] \in Layers
        BY <1>0, <2>4, LayersOfNet DEF TypeOK
      <3>2. function[layer[t]] # NoPlatform
        BY <2>1, <2>3, <3>1 DEF ExecInv, PlaceInv
      <3>3. Live(Input(t))
        BY <2>1, <2>2, InputIsTheImage DEF ExecInv
      <3>4. QED
        BY <1>2, <2>4, <3>2, <3>3 DEF ClassifyImageUndefined, ForwardIsUndefined
    <2>5. CASE ~ (layer[t] <= LastLayer)
      <3>1. layer[t] > 1 /\ layer[t] - 1 = LastLayer
        BY <1>0, <2>5, LayersOfNet DEF TypeOK
      <3>2. output[LastLayer] = call[t].images[k[t]]
        BY <2>1, <3>1 DEF ExecInv, LayersReadTheImageAtHand
      <3>3. labels # "none"
        BY <1>0, <2>1, <2>3, ExecutorAssumption DEF ExecInv, NetInv, Alone
      <3>4. QED
        BY <1>2, <2>2, <2>5, <3>2, <3>3 DEF ClassifyImageUndefined, InterpretIsUndefined
    <2>6. QED
      BY <2>4, <2>5
  <1>3. QED
    BY <1>1, <1>2

LEMMA FreshStep ==
  ASSUME ExecInv, NEW t \in Threads, Alone(t), Step(t) \/ \E c \in Call : Classify(t, c)
  PROVE  FreshInv'
  <1>0. TypeOK /\ LocalInv /\ FreshInv
    BY DEF ExecInv
  <1> SUFFICES ASSUME ~ failed' PROVE FreshInv'
    BY DEF FreshInv
  <1> DEFINE quiet == \A l \in Layers :
               ~ computed[l] /\ (Live(output[l]) => l + 1 \in LayersOf("flatten"))
             running == \A l \in Layers :
               Live(output[l]) => l + 1 \in LayersOf("flatten") \/ l = layer[t] - 1
  <1>1. ~ failed
    BY <1>0, Moves
  <1>2. /\ pc[t] \notin {"forward", "undefined"} => quiet
        /\ pc[t] = "forward" => running
    BY <1>0, <1>1 DEF FreshInv, Alone
  <1>3. ASSUME pc'[t] \notin {"forward", "undefined"} => quiet',
               pc'[t] = "forward" => running',
               pc'[t] = "undefined" => call'[t].platforms = {}
        PROVE  FreshInv'
    BY <1>0, <1>3, Moves DEF FreshInv, Alone, Live, LayersOf
  <1>4. CASE BuildFails(t) \/ LabelsFail(t) \/ PlacementFails(t) \/ NothingSelected(t)
             \/ ForwardFails(t) \/ InterpretFails(t)
    BY <1>4
       DEF BuildFails, LabelsFail, PlacementFails, NothingSelected, ForwardFails,
           InterpretFails, Throw
  <1>5. CASE SetupUndefined(t) \/ ClassifyImageUndefined(t)
    BY <1>0, <1>1, <1>3, <1>5, UndefinedStep
       DEF SetupUndefined, ClassifyImageUndefined, Undefined, Goto, TypeOK
  <1>6. CASE \/ KeepNet(t) \/ DeleteNet(t) \/ LoadLabels(t) \/ SkipPlacement(t) \/ Return(t)
             \/ TakeResults(t) \/ \E c \in Call : Classify(t, c)
    <2>1. /\ UNCHANGED layerVars /\ pc[t] \notin {"forward", "undefined"}
          /\ pc'[t] \notin {"forward", "undefined"}
      BY <1>0, <1>6 DEF KeepNet, DeleteNet, LoadLabels, SkipPlacement, Return, TakeResults,
         Classify, Goto, TypeOK, layerVars
    <2>2. quiet'
      BY <1>2, <2>1 DEF layerVars, Live, LayersOf
    <2>3. QED
      BY <1>3, <2>1, <2>2
  <1>7. CASE BuildNet(t)
    <2>1. quiet' /\ pc'[t] = "labels"
      BY <1>0, <1>7, ExecutorAssumption
         DEF BuildNet, Goto, TypeOK, Live, Uninitialized, Zeros
    <2>2. QED
      BY <1>3, <2>1
  <1>8. CASE PlaceNet(t)
    <2>1. quiet' /\ pc'[t] = "image"
      BY <1>0, <1>2, <1>8, ExecutorAssumption
         DEF PlaceNet, Goto, TypeOK, OutputAfterMeasuring, Live, Deleted, Zeros, LayersOf
    <2>2. QED
      BY <1>3, <2>1
  <1>9. CASE NextImage(t)
    <2>1. running' /\ pc'[t] = "forward"
      BY <1>0, <1>2, <1>9 DEF NextImage, Goto, TypeOK, layerVars, Live, LayersOf
    <2>2. QED
      BY <1>3, <2>1
  <1>10. CASE Forward(t)
    <2>1. /\ layer[t] \in Layers /\ layer[t] \in Nat /\ layer'[t] = layer[t] + 1
          /\ pc[t] = "forward" /\ pc' = pc
      BY <1>0, <1>10, LayersOfNet DEF Forward, TypeOK
    <2>2. \A l \in GarbageOf(layer[t]) \cap Layers : ~ Live(output'[l])
      BY <1>10, ExecutorAssumption DEF Forward, Live, Deleted, Zeros
    <2>3. layer[t] # 1 /\ layer[t] \notin LayersOf("flatten") => layer[t] - 1 \in GarbageOf(layer[t])
      BY <2>1, LayersOfNet DEF GarbageOf, MarksComputed, LayersOf
    <2>4. ASSUME NEW l \in Layers, Live(output'[l]), l # layer[t]
          PROVE  l + 1 \in LayersOf("flatten")
      <3>1. l \notin GarbageOf(layer[t]) /\ output'[l] = output[l]
        BY <1>10, <2>2, <2>4 DEF Forward
      <3>2. l + 1 \in LayersOf("flatten") \/ l = layer[t] - 1
        BY <1>2, <2>1, <2>4, <3>1
      <3>3. l \in Nat /\ l >= 1
        BY LayersOfNet
      <3>4. QED
        BY <2>1, <2>3, <3>1, <3>2, <3>3
    <2>5. running'
      BY <2>1, <2>4 DEF LayersOf
    <2>6. QED
      BY <1>3, <2>1, <2>5
  <1>11. CASE Interpret(t)
    <2>1. /\ pc[t] = "forward" /\ pc'[t] = "image" /\ layer[t] > LastLayer
          /\ output' = [output EXCEPT ![LastLayer] = Deleted]
          /\ computed' = [l \in Layers |-> FALSE]
      BY <1>0, <1>11 DEF Interpret, ResetLayers, Goto, TypeOK
    <2>2. layer[t] - 1 = LastLayer
      BY <1>0, <2>1, LayersOfNet DEF TypeOK
    <2>3. quiet'
      BY <1>0, <1>2, <2>1, <2>2, ExecutorAssumption DEF Live, Deleted, Zeros, TypeOK, LayersOf
    <2>4. QED
      BY <1>3, <2>1, <2>3
  <1>12. QED
    BY <1>4, <1>5, <1>6, <1>7, <1>8, <1>9, <1>10, <1>11 DEF Step

(* A step of the only thread within classify keeps the invariant. *)
LEMMA ExecStep ==
  ASSUME ExecInv, NEW t \in Threads, Alone(t), Step(t) \/ \E c \in Call : Classify(t, c)
  PROVE  ExecInv'
  BY TypeStep, ReadStep, PlaceStep, NetStep, ResultStep, FreshStep DEF ExecInv

LEMMA ExecUnchanged == ExecInv /\ UNCHANGED vars => ExecInv'
  BY DEF ExecInv, TypeOK, LocalInv, LayersReadTheImageAtHand, PlaceInv, NetInv, Sound, ResultInv,
     FreshInv, Live, vars, threadVars, netVars, placerVars, layerVars

-----------------------------------------------------------------------------
(* The manager's process: update runs the local host in one thread.        *)
OneThread == \A t, u \in Threads : t = u

LEMMA Invariance ==
  ASSUME OneThread PROVE Spec => []ExecInv
  <1>1. ASSUME ExecInv, [Next]_vars PROVE ExecInv'
    BY <1>1, ExecStep, ExecUnchanged DEF OneThread, Alone, Next
  <1>2. QED
    BY InitExecInv, <1>1, PTL DEF Spec

(* Each layer reads the output of the layer before it for the image at     *)
(* hand, although the layers delete the outputs for each other and calls   *)
(* that fail leave some of them behind (Layer.cpp:79-83).                  *)
THEOREM InputsAreCurrent ==
  ASSUME OneThread PROVE Spec => []LayersReadTheImageAtHand
  <1>1. ExecInv => LayersReadTheImageAtHand
    BY DEF ExecInv
  <1>2. QED
    BY <1>1, Invariance, PTL

(* The layers run on selected platforms, whatever was placed before, for   *)
(* other calls or half-way (Executor.cpp:88-91).                           *)
THEOREM PlacementIsObeyed ==
  ASSUME OneThread PROVE Spec => []LayersRunWhereSelected
  <1>1. ExecInv => LayersRunWhereSelected
    BY DEF ExecInv, PlaceInv, LayersRunWhereSelected
  <1>2. QED
    BY <1>1, Invariance, PTL

(* Without an earlier exception nothing is deleted twice or read after its *)
(* deletion, when a platform is selected (NeuralNet.cpp:65-70).            *)
THEOREM NoUndefinedStep ==
  ASSUME OneThread PROVE Spec => []UndefinedOnlyAfterFailure
  <1>1. ExecInv => UndefinedOnlyAfterFailure
    BY DEF ExecInv, FreshInv, UndefinedOnlyAfterFailure
  <1>2. QED
    BY <1>1, Invariance, PTL

(* So if calls cannot fail, and each selects a platform, the executor      *)
(* never deletes an object twice or reads a deleted one, for any sequence  *)
(* of calls: what Layer.h:173-177 takes for granted of deleteGarbage.      *)
THEOREM SafeWithoutFailures ==
  ASSUME OneThread, ~ MayFail, {} \notin Selections PROVE Spec => []NeverUndefined
  <1>1. Init => ~ failed
    BY DEF Init
  <1>2. ~ failed /\ [Next]_vars => ~ failed'
    BY DEF Next, Step, vars, Throw, Classify, KeepNet, DeleteNet, SetupUndefined, BuildNet, BuildFails,
       LoadLabels, LabelsFail, PlaceNet, PlacementFails, NothingSelected, SkipPlacement, NextImage,
       Return, TakeResults, Forward, ForwardFails, Interpret, InterpretFails, ClassifyImageUndefined,
       Undefined
  <1>3. ExecInv /\ ~ failed => NeverUndefined
    <2> SUFFICES ASSUME ExecInv, ~ failed, NEW t \in Threads, pc[t] = "undefined"
                 PROVE  FALSE
      BY DEF NeverUndefined
    <2>1. call[t].platforms = {}
      BY DEF ExecInv, FreshInv, UndefinedOnlyAfterFailure
    <2>2. call[t] \in Call
      BY DEF ExecInv, LocalInv
    <2> QED BY <2>1, <2>2 DEF Call
  <1> QED BY <1>1, <1>2, <1>3, Invariance, PTL DEF Spec

(* Between the images every output is freed, but for the inputs of fully   *)
(* connected layers that stretch them (Layer.cpp:79-83,                    *)
(* Interpreter.cpp:68).                                                    *)
THEOREM NoOutputLeaks ==
  ASSUME OneThread PROVE Spec => []OutputsFreed
  <1>1. ExecInv => OutputsFreed
    BY DEF ExecInv, FreshInv, OutputsFreed
  <1>2. QED
    BY <1>1, Invariance, PTL

-----------------------------------------------------------------------------
(* What a thread returns is what the interface promises. *)
LEMMA ReturnAnswers ==
  ASSUME ExecInv, ~ OutlivesResourceException, NEW t \in Threads, Return(t)
  PROVE  Host!Answers(call[t], results[t])
  <1>1. TypeOK /\ LocalInv /\ Sound /\ pc[t] = "image" /\ k[t] > Len(call[t].images)
    BY DEF ExecInv, Sound, Return
  <1>2. call[t] \in Call /\ k[t] <= Len(call[t].images) + 1
    BY <1>1 DEF LocalInv
  <1>3. Len(call[t].images) \in Nat /\ k[t] \in Nat /\ Len(results[t]) = k[t] - 1
    BY <1>1, <1>2, ImagesOfCall, ExecutorAssumption DEF TypeOK
  <1>4. Len(results[t]) = Len(call[t].images)
    BY <1>1, <1>2, <1>3
  <1>5. DOMAIN results[t] = DOMAIN call[t].images /\ DOMAIN call[t].images = 1..Len(results[t])
    BY <1>1, <1>2, <1>4, ImagesOfCall, LenProperties DEF TypeOK
  <1>6. QED
    BY <1>1, <1>5 DEF ExecInv, ResultInv, Host!Answers

(* Every step is one of the interface, or nothing that its caller sees.    *)
LEMMA RefinementStep ==
  ASSUME ExecInv, ~ OutlivesResourceException, OneThread, [Next]_vars
  PROVE  [Host!Next]_(Host!vars)
  <1> DEFINE t == Caller
  <1>0. t \in Threads /\ (\A u \in Threads : u = t) /\ pc \in [Threads -> Location]
        /\ call \in [Threads -> Call \cup {NoCall}]
    BY ExecutorAssumption DEF OneThread, Caller, ExecInv, TypeOK
  <1> HIDE DEF t
  <1> USE DEF Goto
  <1>1. CASE UNCHANGED vars
    BY <1>1 DEF vars, threadVars, Host!vars
  <1>2. CASE \E c \in Call : Classify(t, c)
    BY <1>0, <1>2 DEF t, Classify, Host!Next, Host!Classify
  <1>3. CASE Return(t)
    <2>1. Host!Answers(call[t], results[t])
      BY <1>0, <1>3, ReturnAnswers
    <2>2. /\ pc[t] = "image" /\ pc'[t] = "returned" /\ UNCHANGED <<call, results>>
      BY <1>0, <1>3 DEF Return
    <2>3. QED
      BY <2>1, <2>2 DEF t, Host!Next, Host!Reply
  <1>4. CASE TakeResults(t)
    BY <1>0, <1>4 DEF t, TakeResults, Leave, Host!Next, Host!End
  <1>5. CASE BuildFails(t) \/ LabelsFail(t) \/ PlacementFails(t) \/ NothingSelected(t)
             \/ ForwardFails(t) \/ InterpretFails(t)
    <2>1. /\ pc[t] \notin {"idle", "closed", "returned"} /\ pc'[t] \in {"idle", "closed"}
          /\ call'[t] = NoCall
      BY <1>0, <1>5 DEF BuildFails, LabelsFail, PlacementFails, NothingSelected, ForwardFails,
         InterpretFails, Throw, Leave
    <2>2. QED
      BY <2>1 DEF t, Host!Next, Host!End
  <1>6. CASE KeepNet(t) \/ DeleteNet(t) \/ SetupUndefined(t) \/ BuildNet(t) \/ LoadLabels(t)
             \/ PlaceNet(t) \/ SkipPlacement(t) \/ ClassifyImageUndefined(t)
             \/ NextImage(t) \/ Forward(t) \/ Interpret(t)
    <2>1. /\ pc[t] \notin {"idle", "closed", "returned"}
          /\ pc'[t] \notin {"idle", "closed", "returned"} /\ call' = call
      BY <1>0, <1>6 DEF KeepNet, DeleteNet, SetupUndefined, BuildNet, LoadLabels, PlaceNet,
         SkipPlacement, ClassifyImageUndefined, Undefined, NextImage, Forward, Interpret
    <2>2. QED
      BY <2>1 DEF t, Host!vars
  <1>7. QED
    BY <1>0, <1>1, <1>2, <1>3, <1>4, <1>5, <1>6 DEF Next, Step

(* The local Executor implements the interface ComputationHost for every   *)
(* sequence of calls, with failures or without (ComputationHost.h:43-51).  *)
THEOREM LocalHost ==
  ASSUME OneThread, ~ OutlivesResourceException
  PROVE  Spec => ImplementsComputationHost
  <1>1. Init => Host!Init
    BY ExecutorAssumption DEF Init, Host!Init, Caller
  <1>2. ExecInv /\ [Next]_vars => [Host!Next]_(Host!vars)
    BY RefinementStep
  <1>3. QED
    BY <1>1, <1>2, Invariance, PTL DEF Spec, ImplementsComputationHost, Host!Spec

-----------------------------------------------------------------------------
(* The clients and the server.                                             *)

(* There is one client, which may call classify as often as it likes.      *)
OneClient == \A c, d \in Clients : c = d

(* The request for the next image of a client. *)
Request(c) ==
  [net |-> arguments[c].net, mode |-> SentMode(arguments[c].mode),
   platforms |-> arguments[c].platforms, images |-> <<ImageToSend(c)>>]

ClientTypes ==
  /\ at \in [Clients -> {"ready", "sending", "waiting", "returned", "dropped", "closed"}]
  /\ arguments \in [Clients -> ClientCall \cup {NoCall}]
  /\ replies \in [Clients -> Seq(Result)]
  /\ waiting \in [Threads -> Clients \cup {"nobody"}]
  /\ kept \in Seq({"error", "connection"})
  /\ \A c \in Clients :
       /\ at[c] \in {"sending", "waiting", "returned"} => arguments[c] \in ClientCall
       /\ at[c] \notin {"sending", "waiting", "returned"} => replies[c] = <<>> /\ arguments[c] = NoCall
       /\ at[c] = "waiting" => Len(replies[c]) < Len(arguments[c].images)

(* A thread is within classify only for the client that waits for it, or   *)
(* after that client has gone; and it works on the client's request.       *)
ServerInv ==
  /\ AtMostOne
  /\ \A t \in Threads : pc[t] # "idle" => \A c \in Clients : at[c] \in {"waiting", "dropped", "closed"}
  /\ \A t \in Threads, c \in Clients :
       /\ waiting[t] = c => at[c] = "waiting"
       /\ at[c] = "waiting" /\ pc[t] # "idle" => waiting[t] = c /\ call[t] = Request(c)
  /\ \A t, u \in Threads : waiting[t] # "nobody" /\ waiting[u] # "nobody" => t = u

(* After an exception nothing runs, and a client that has been dropped     *)
(* makes no other call.                                                    *)
FailedInv ==
  failed /\ kept = <<>> =>
    /\ \A t \in Threads : pc[t] = "idle"
    /\ \A c \in Clients : at[c] \in {"waiting", "dropped", "closed"}

(* The net has its own labels, also after calls that threw, unless its     *)
(* labels could not be read; and so have the results made by it.           *)
LabelInv ==
  /\ \A t \in Threads : pc[t] \in {"labels", "place", "image", "forward"} => net = call[t].net
  /\ (\A t \in Threads : pc[t] # "labels") => net = "empty" \/ labels = net \/ net \in unlabelled
  /\ \A t \in Threads : \A j \in 1..Len(results[t]) :
       results[t][j].labels = call[t].net \/ call[t].net \in unlabelled

ReplyInv ==
  \A c \in Clients : \A j \in 1..Len(replies[c]) :
    /\ replies[c][j].image = arguments[c].images[j]
    /\ replies[c][j].labels = arguments[c].net \/ arguments[c].net \in unlabelled
    /\ at[c] # "returned" => replies[c][j].platforms = arguments[c].platforms

(* What holds until the host is called again after a broken connection,    *)
(* and may find an old request running.                                    *)
OrderlyInv == ExecInv /\ ServerInv /\ FailedInv /\ LabelInv /\ ReplyInv

CommInv ==
  /\ TypeOK /\ LocalInv /\ ClientTypes
  /\ ~ KeptAfterLoss => OrderlyInv

LEMMA CommInit == CommunicatorInit => CommInv
  <1> SUFFICES ASSUME CommunicatorInit PROVE CommInv
    OBVIOUS
  <1> USE DEF CommunicatorInit, Init
  <1>1. <<>> \in Seq(Result) /\ <<>> \in Seq({"error", "connection"}) /\ Len(<<>>) = 0
    BY EmptySeq
  <1>2. ExecInv
    BY InitExecInv
  <1>3. ClientTypes
    BY <1>1 DEF ClientTypes
  <1>4. ServerInv
    BY CommunicatorAssumption DEF ServerInv, AtMostOne
  <1>5. FailedInv /\ LabelInv /\ ReplyInv
    BY <1>1 DEF FailedInv, LabelInv, ReplyInv
  <1>6. QED
    BY <1>2, <1>3, <1>4, <1>5 DEF CommInv, OrderlyInv, ExecInv

(* What the history of kept hosts tells after another one. *)
LEMMA KeptHistory ==
  ASSUME ClientTypes, NEW cause \in {"error", "connection"}, kept' = Append(kept, cause)
  PROVE  /\ kept' \in Seq({"error", "connection"}) /\ kept' # <<>>
         /\ KeptAfterLoss \/ cause = "connection" => KeptAfterLoss'
  <1>1. kept \in Seq({"error", "connection"})
    BY DEF ClientTypes
  <1>2. /\ kept' \in Seq({"error", "connection"}) /\ Len(kept') = Len(kept) + 1
        /\ \A i \in 1..Len(kept) : kept'[i] = kept[i]
        /\ kept'[Len(kept) + 1] = cause /\ Len(kept) \in Nat
    BY <1>1, AppendProperties, LenProperties
  <1>3. DOMAIN kept = 1..Len(kept) /\ DOMAIN kept' = 1..(Len(kept) + 1)
    BY <1>1, <1>2, LenProperties
  <1>4. kept' # <<>>
    BY <1>2
  <1>5. ASSUME KeptAfterLoss PROVE KeptAfterLoss'
    <2>1. PICK i \in 1..Len(kept) : kept[i] = "connection"
      BY <1>3, <1>5 DEF KeptAfterLoss
    <2>2. i \in DOMAIN kept' /\ kept'[i] = "connection"
      BY <1>2, <1>3, <2>1
    <2>3. QED
      BY <2>2 DEF KeptAfterLoss
  <1>6. ASSUME cause = "connection" PROVE KeptAfterLoss'
    <2>1. Len(kept) + 1 \in DOMAIN kept' /\ kept'[Len(kept) + 1] = "connection"
      BY <1>2, <1>3, <1>6
    <2>2. QED
      BY <2>1 DEF KeptAfterLoss
  <1>7. QED
    BY <1>2, <1>4, <1>5, <1>6

(* The sequences of images that a client may pass. *)
LEMMA ImagesOfClientCall ==
  ASSUME NEW a \in ClientCall
  PROVE  /\ a.net \in Nets /\ a.platforms \in Selections /\ a.platforms # {}
         /\ Len(a.images) \in Nat /\ DOMAIN a.images = 1..Len(a.images)
         /\ \A j \in 1..Len(a.images) : a.images[j] \in Images
  <1>1. PICK n \in 0..ClientMaxImages : a.images \in [1..n -> Images]
    BY DEF ClientCall, BoundedSeq, SeqOf
  <1>2. n \in Nat
    BY CommunicatorAssumption
  <1>3. a.images \in Seq(Images)
    BY <1>1, <1>2, SeqDef
  <1>4. /\ Len(a.images) \in Nat /\ DOMAIN a.images = 1..Len(a.images)
        /\ \A j \in 1..Len(a.images) : a.images[j] \in Images
    BY <1>3, LenProperties, ElementOfSeq
  <1>5. QED
    BY <1>4, CommunicatorAssumption DEF ClientCall

(* What a client sends is a call of Executor::classify. *)
LEMMA RequestIsCall ==
  ASSUME NEW c \in Clients, arguments[c] \in ClientCall, replies[c] \in Seq(Result),
         Len(replies[c]) < Len(arguments[c].images)
  PROVE  /\ Request(c) \in Call /\ Request(c).images = <<ImageToSend(c)>>
         /\ Len(Request(c).images) = 1 /\ Request(c).images[1] = ImageToSend(c)
         /\ Request(c).net = arguments[c].net
         /\ Request(c).platforms = arguments[c].platforms
  <1>1. ImageToSend(c) \in Images
    <2>1. Len(replies[c]) \in Nat /\ Len(arguments[c].images) \in Nat
      BY ImagesOfClientCall, LenProperties
    <2>2. Len(replies[c]) + 1 \in 1..Len(arguments[c].images)
      BY <2>1
    <2>3. QED
      BY <2>2, ImagesOfClientCall DEF ImageToSend
  <1>2. <<ImageToSend(c)>> \in [1..1 -> Images]
    BY <1>1
  <1>3. 1 \in 0..MaxImages
    BY ExecutorAssumption, CommunicatorAssumption
  <1>4. <<ImageToSend(c)>> \in UNION {[1..n -> Images] : n \in 0..MaxImages}
    BY <1>2, <1>3
  <1>5. arguments[c].net \in Nets /\ arguments[c].platforms \in Selections
    BY ImagesOfClientCall
  <1>6. Request(c) \in Call
    BY <1>4, <1>5, CommunicatorAssumption DEF Request, Call, SentMode
  <1>7. QED
    BY <1>6 DEF Request

-----------------------------------------------------------------------------
(* The steps of the client alone. *)
LEMMA ClientStep ==
  ASSUME CommInv, OneClient, NEW c \in Clients, UNCHANGED executorVars,
         \/ \E a \in ClientCall : ClientClassify(c, a)
         \/ \E t \in Threads : ReceiveError(c, t)
         \/ ConnectionLost(c) \/ CloseClient(c) \/ ClientReturn(c) \/ TakeReplies(c)
  PROVE  CommInv'
  <1> USE DEF executorVars, vars, threadVars
  <1>0. /\ TypeOK' /\ LocalInv'
        /\ ExecInv => ExecInv'
        /\ LabelInv => LabelInv'
    BY TypesUnchanged, ExecUnchanged DEF CommInv, LabelInv, netVars
  <1>e. /\ <<>> \in Seq(Result) /\ Len(<<>>) = 0
        /\ \A d \in Clients : d = c
        /\ TypeOK /\ LocalInv /\ ClientTypes /\ (~ KeptAfterLoss => OrderlyInv)
    BY EmptySeq DEF OneClient, CommInv
  <1>f. ASSUME ClientTypes',
               ~ KeptAfterLoss' =>
                 ~ KeptAfterLoss /\ (OrderlyInv => ServerInv' /\ FailedInv' /\ ReplyInv')
        PROVE  CommInv'
    BY <1>0, <1>e, <1>f DEF CommInv, OrderlyInv
  <1>1. CASE \E a \in ClientCall : ClientClassify(c, a)
    <2>1. PICK a \in ClientCall : ClientClassify(c, a)
      BY <1>1
    <2>2. ClientTypes'
      BY <2>1, <1>e DEF ClientClassify, ClientTypes
    <2>3. ServerInv /\ FailedInv => ServerInv' /\ FailedInv'
      BY <2>1, <1>e DEF ClientClassify, ClientTypes, ServerInv, FailedInv, AtMostOne
    <2>4. ReplyInv => ReplyInv'
      BY <2>1, <1>e DEF ClientClassify, ClientTypes, ReplyInv
    <2>5. QED
      BY <1>f, <2>1, <2>2, <2>3, <2>4 DEF ClientClassify, KeptAfterLoss, OrderlyInv
  <1>2. CASE ClientReturn(c)
    <2> DEFINE new == [j \in DOMAIN replies[c] |->
                         [replies[c][j] EXCEPT !.platforms = AggregateDistribution(replies[c])]]
    <2>1. /\ at[c] = "sending" /\ at' = [at EXCEPT ![c] = "returned"]
          /\ replies' = [replies EXCEPT ![c] = new]
          /\ UNCHANGED <<arguments, waiting, kept>>
      BY <1>2 DEF ClientReturn
    <2>2. replies[c] \in Seq(Result)
      BY <1>e DEF ClientTypes
    <2>3. Len(replies[c]) \in Nat /\ DOMAIN replies[c] = 1..Len(replies[c])
          /\ \A j \in 1..Len(replies[c]) : replies[c][j] \in Result
      BY <2>2, LenProperties, ElementOfSeq
    <2>4. AggregateDistribution(replies[c]) \subseteq Platforms
      BY <2>3 DEF AggregateDistribution, Result
    <2>5. \A j \in 1..Len(replies[c]) :
            /\ new[j] \in Result
            /\ new[j].image = replies[c][j].image /\ new[j].labels = replies[c][j].labels
      BY <2>3, <2>4 DEF Result
    <2> HIDE DEF new
    <2>6. new \in Seq(Result) /\ Len(new) = Len(replies[c])
      <3>1. new \in [1..Len(replies[c]) -> Result]
        BY <2>3, <2>5 DEF new
      <3>2. new \in Seq(Result)
        BY <2>3, <3>1, SeqDef
      <3>3. QED
        BY <2>3, <3>1, <3>2, LenProperties
    <2>7. ClientTypes'
      BY <1>e, <2>1, <2>6 DEF ClientTypes
    <2>8. ServerInv /\ FailedInv => ServerInv' /\ FailedInv'
      BY <1>e, <2>1 DEF ClientTypes, ServerInv, FailedInv, AtMostOne
    <2>9. ReplyInv => ReplyInv'
      BY <1>e, <2>1, <2>5, <2>6 DEF ClientTypes, ReplyInv
    <2>10. QED
      BY <1>f, <2>1, <2>7, <2>8, <2>9 DEF KeptAfterLoss, OrderlyInv
  <1>3. ASSUME NEW location \in {"dropped", "closed", "ready"}, EndCall(c, location),
               kept' \in Seq({"error", "connection"}),
               ~ KeptAfterLoss' =>
                 /\ ~ KeptAfterLoss
                 /\ location = "ready" /\ at[c] # "returned" =>
                      \A t \in Threads : ServerInv => pc[t] = "idle"
                 /\ location = "ready" /\ at[c] # "returned" => kept' # <<>>
                 /\ kept' = <<>> => kept = <<>>
        PROVE  CommInv'
    <2>1. ClientTypes'
      BY <1>3, <1>e DEF EndCall, ClientTypes
    <2>2. ASSUME ~ KeptAfterLoss', ServerInv PROVE ServerInv'
      <3>1. /\ pc' = pc /\ call' = call /\ AtMostOne'
            /\ at'[c] = location /\ \A t \in Threads : waiting'[t] = "nobody"
        BY <1>3, <1>e, <2>2, CommunicatorAssumption DEF EndCall, ClientTypes, ServerInv, AtMostOne
      <3>2. ASSUME location = "ready", NEW t \in Threads PROVE pc[t] = "idle"
        BY <1>3, <2>2, <3>2 DEF ServerInv
      <3>3. \A t \in Threads : pc'[t] # "idle" =>
              \A d \in Clients : at'[d] \in {"waiting", "dropped", "closed"}
        BY <1>3, <1>e, <3>1, <3>2
      <3>4. \A d \in Clients : at'[d] # "waiting"
        BY <1>3, <1>e, <3>1
      <3>5. QED
        BY <3>1, <3>3, <3>4, CommunicatorAssumption DEF ServerInv
    <2>3. ASSUME ~ KeptAfterLoss', FailedInv PROVE FailedInv'
      BY <1>3, <1>e, <2>3 DEF EndCall, ClientTypes, FailedInv
    <2>4. ReplyInv'
      BY <1>3, <1>e DEF EndCall, ClientTypes, ReplyInv
    <2>5. QED
      BY <1>3, <1>f, <2>1, <2>2, <2>3, <2>4 DEF OrderlyInv
  <1>4. CASE CloseClient(c) \/ TakeReplies(c)
    <2>1. UNCHANGED kept
      BY <1>4 DEF CloseClient, TakeReplies
    <2>2. CASE CloseClient(c)
      BY <1>3, <1>e, <2>1, <2>2 DEF CloseClient, KeptAfterLoss, ClientTypes
    <2>3. CASE TakeReplies(c)
      BY <1>3, <1>e, <2>1, <2>3 DEF TakeReplies, KeptAfterLoss, ClientTypes
    <2>4. QED
      BY <1>4, <2>2, <2>3
  <1>5. ASSUME NEW cause \in {"error", "connection"}, Fail(c, cause), at[c] = "waiting",
               cause = "error" => \E t \in Threads : waiting[t] = c /\ pc[t] = "idle"
        PROVE  CommInv'
    <2>1. CASE EndCall(c, "dropped") /\ UNCHANGED kept
      BY <1>3, <1>e, <2>1 DEF KeptAfterLoss, ClientTypes
    <2>2. CASE EndCall(c, "ready") /\ kept' = Append(kept, cause)
      <3>1. /\ kept' \in Seq({"error", "connection"}) /\ kept' # <<>>
            /\ KeptAfterLoss \/ cause = "connection" => KeptAfterLoss'
        BY <1>e, <2>2, KeptHistory
      <3>2. ASSUME cause = "error", ServerInv, NEW t \in Threads PROVE pc[t] = "idle"
        BY <1>5, <3>2, <1>e, CommunicatorAssumption DEF ServerInv, ClientTypes
      <3>3. QED
        BY <1>3, <1>5, <2>2, <3>1, <3>2
    <2>3. QED
      BY <1>5, <2>1, <2>2 DEF Fail
  <1>6. CASE \E t \in Threads : ReceiveError(c, t)
    BY <1>5, <1>6 DEF ReceiveError, AnswersWithError
  <1>7. CASE ConnectionLost(c)
    BY <1>5, <1>7 DEF ConnectionLost
  <1>8. QED
    BY <1>1, <1>2, <1>4, <1>6, <1>7

(* The net and the results are labelled rightly, whatever step a handler   *)
(* takes.                                                                  *)
LEMMA LabelStep ==
  ASSUME ExecInv, LabelInv, NEW t \in Threads, Alone(t), Step(t) \/ \E c \in Call : Classify(t, c),
         unlabelled \subseteq unlabelled', LabelsFail(t) => call[t].net \in unlabelled'
  PROVE  LabelInv'
  <1>0. TypeOK /\ LocalInv
    BY DEF ExecInv
  <1>1. /\ pc[t] \in {"labels", "place", "image", "forward"} => net = call[t].net
        /\ pc[t] # "labels" => net = "empty" \/ labels = net \/ net \in unlabelled
        /\ \A j \in 1..Len(results[t]) :
             results[t][j].labels = call[t].net \/ call[t].net \in unlabelled
    BY DEF LabelInv, Alone
  <1>2. ASSUME pc'[t] \in {"labels", "place", "image", "forward"} => net' = call'[t].net,
               pc'[t] # "labels" => net' = "empty" \/ labels' = net' \/ net' \in unlabelled',
               \A j \in 1..Len(results'[t]) :
                 results'[t][j].labels = call'[t].net \/ call'[t].net \in unlabelled'
        PROVE  LabelInv'
    BY <1>0, <1>2, Moves DEF LabelInv, Alone
  <1>3. CASE BuildFails(t) \/ LabelsFail(t) \/ PlacementFails(t) \/ NothingSelected(t)
             \/ ForwardFails(t) \/ InterpretFails(t) \/ TakeResults(t)
    <2>1. /\ UNCHANGED <<net, labels>> /\ pc'[t] \in {"idle", "closed"} /\ results'[t] = <<>>
          /\ pc[t] # "labels" \/ LabelsFail(t)
      BY <1>0, <1>3
         DEF BuildFails, LabelsFail, PlacementFails, NothingSelected, ForwardFails,
             InterpretFails, TakeResults, Throw, Leave, Goto, TypeOK, netVars
    <2>2. pc[t] # "labels" \/ net = call[t].net
      BY <1>1
    <2>3. Len(<<>>) = 0
      OBVIOUS
    <2>4. QED
      BY <1>1, <1>2, <2>1, <2>2, <2>3
  <1>4. CASE \E c \in Call : Classify(t, c)
    <2>1. /\ pc[t] = "idle" /\ pc'[t] = "setup" /\ results' = results /\ UNCHANGED <<net, labels>>
      BY <1>0, <1>4 DEF Classify, Goto, TypeOK, netVars
    <2>2. Len(results[t]) = 0
      BY <1>0, <2>1 DEF LocalInv, TypeOK
    <2>3. QED
      BY <1>1, <1>2, <2>1, <2>2
  <1>5. CASE KeepNet(t) \/ DeleteNet(t) \/ BuildNet(t) \/ LoadLabels(t)
    <2>1. /\ UNCHANGED <<call, results>>
          /\ pc'[t] \in {"labels", "place", "image", "forward"} => net' = call'[t].net
          /\ pc'[t] # "labels" => net' = "empty" \/ labels' = net' \/ net' \in unlabelled'
      BY <1>0, <1>1, <1>5 DEF KeepNet, NetIsBuilt, DeleteNet, BuildNet, LoadLabels, Goto, TypeOK, netVars
    <2>2. QED
      BY <1>1, <1>2, <2>1
  <1>6. CASE \/ SetupUndefined(t) \/ PlaceNet(t) \/ SkipPlacement(t) \/ ClassifyImageUndefined(t)
             \/ NextImage(t) \/ Return(t) \/ Forward(t)
    <2>1. /\ UNCHANGED <<call, results, net, labels>> /\ pc[t] # "labels" /\ pc'[t] # "labels"
          /\ pc'[t] \in {"place", "image", "forward"} => pc[t] \in {"place", "image", "forward"}
      BY <1>0, <1>6 DEF SetupUndefined, PlaceNet, SkipPlacement, ClassifyImageUndefined, Undefined,
         NextImage, Return, Forward, Goto, TypeOK, netVars
    <2>2. QED
      BY <1>1, <1>2, <2>1
  <1>7. CASE Interpret(t)
    <2> DEFINE r == [image |-> output[LastLayer], labels |-> labels, platforms |-> compDistribution]
    <2>1. /\ results'[t] = Append(results[t], r) /\ results[t] \in Seq(Result)
          /\ UNCHANGED <<call, net, labels>> /\ pc[t] = "forward" /\ pc'[t] = "image"
      BY <1>0, <1>7 DEF Interpret, Goto, TypeOK, netVars
    <2>2. r \in Result
      BY <1>0, <1>7, LayersOfNet DEF Interpret, InterpretIsUndefined, TypeOK, Result
    <2>3. r.labels = call[t].net \/ call[t].net \in unlabelled
      <3>1. call[t].net \in Nets
        BY <1>0, <2>1 DEF LocalInv, Call
      <3>2. QED
        BY <1>1, <2>1, <3>1, ExecutorAssumption
    <2> HIDE DEF r
    <2>4. /\ Len(results'[t]) = Len(results[t]) + 1 /\ Len(results[t]) \in Nat
          /\ results'[t][Len(results[t]) + 1] = r
          /\ \A i \in 1..Len(results[t]) : results'[t][i] = results[t][i]
      BY <2>1, <2>2, AppendProperties, LenProperties
    <2>5. ASSUME NEW j \in 1..Len(results'[t])
          PROVE  results'[t][j].labels = call[t].net \/ call[t].net \in unlabelled
      BY <1>1, <2>3, <2>4, <2>5
    <2>6. QED
      BY <1>1, <1>2, <2>1, <2>5
  <1>8. QED
    BY <1>3, <1>4, <1>5, <1>6, <1>7 DEF Step

(* The client sends a request, which a thread of the server begins with. *)
LEMMA SendStep ==
  ASSUME CommInv, OneClient, NEW c \in Clients, NEW t \in Threads, SendImage(c, t)
  PROVE  CommInv'
  <1>1. /\ \A d \in Clients : d = c
        /\ at[c] = "sending" /\ waiting[t] = "nobody" /\ Classify(t, Request(c))
        /\ at' = [at EXCEPT ![c] = "waiting"] /\ waiting' = [waiting EXCEPT ![t] = c]
        /\ UNCHANGED <<arguments, replies, kept, unlabelled>>
        /\ Len(replies[c]) < Len(arguments[c].images)
    BY DEF SendImage, Request, OneClient
  <1>2. ClientTypes /\ TypeOK /\ LocalInv /\ (~ KeptAfterLoss => OrderlyInv)
    BY DEF CommInv
  <1>3. Request(c) \in Call
    BY <1>1, <1>2, RequestIsCall DEF ClientTypes
  <1>4. TypeOK' /\ LocalInv'
    BY <1>1, <1>2, <1>3, TypeStep
  <1>5. ClientTypes'
    BY <1>1, <1>2 DEF ClientTypes
  <1>6. ASSUME ~ KeptAfterLoss' PROVE OrderlyInv'
    <2>1. OrderlyInv
      BY <1>1, <1>2, <1>6 DEF KeptAfterLoss
    <2>2. /\ \A u \in Threads : pc[u] = "idle" /\ waiting[u] = "nobody"
          /\ failed => kept # <<>>
      BY <1>1, <1>2, <2>1 DEF OrderlyInv, ServerInv, FailedInv, ClientTypes
    <2>3. ExecInv'
      BY <1>1, <1>3, <2>1, <2>2, ExecStep DEF OrderlyInv, Alone
    <2>4. Request(c)' = Request(c)
      BY <1>1 DEF Request, ImageToSend
    <2>5. /\ \A u \in Threads : pc'[u] # "idle" => u = t
          /\ call'[t] = Request(c) /\ failed' = failed
      BY <1>1, <1>2, <2>2 DEF Classify, Goto, TypeOK
    <2>6. ServerInv'
      BY <1>1, <1>2, <2>2, <2>4, <2>5, CommunicatorAssumption DEF ServerInv, AtMostOne, ClientTypes
    <2>7. FailedInv'
      BY <1>1, <2>2, <2>5 DEF FailedInv
    <2>8. LabelInv'
      <3>1. ~ LabelsFail(t)
        BY <2>2 DEF LabelsFail
      <3>2. QED
        BY <1>1, <1>3, <2>1, <2>2, <3>1, LabelStep DEF OrderlyInv, Alone
    <2>9. ReplyInv'
      BY <1>1, <1>2, <2>1 DEF OrderlyInv, ReplyInv, ClientTypes
    <2>10. QED
      BY <2>3, <2>6, <2>7, <2>8, <2>9 DEF OrderlyInv
  <1>7. QED
    BY <1>4, <1>5, <1>6 DEF CommInv

(* A handler goes on, or its result is thrown away. *)
LEMMA ServeStep ==
  ASSUME CommInv, OneClient, NEW t \in Threads, Serve(t) \/ DiscardReply(t)
  PROVE  CommInv'
  <1> USE DEF clientVars
  <1>1. /\ ClientTypes /\ TypeOK /\ LocalInv /\ (~ KeptAfterLoss => OrderlyInv)
        /\ UNCHANGED clientVars /\ Step(t) /\ pc[t] # "idle"
        /\ pc[t] = "returned" => waiting[t] = "nobody"
        /\ unlabelled \subseteq unlabelled' /\ (LabelsFail(t) => call[t].net \in unlabelled')
    <2>1. Step(t) => pc[t] # "idle"
      BY DEF Step, KeepNet, DeleteNet, SetupUndefined, BuildNet,
         BuildFails, LoadLabels, LabelsFail, PlaceNet, PlacementFails, NothingSelected, SkipPlacement,
         NextImage, Return, TakeResults, Forward, ForwardFails, Interpret, InterpretFails,
         ClassifyImageUndefined
    <2>2. DiscardReply(t) => Step(t) /\ ~ LabelsFail(t) /\ UNCHANGED unlabelled
      BY DEF DiscardReply, Step, TakeResults, LabelsFail
    <2>3. QED
      BY <2>1, <2>2 DEF CommInv, Serve, DiscardReply
  <1>2. TypeOK' /\ LocalInv'
    BY <1>1, TypeStep
  <1>3. ClientTypes'
    BY <1>1 DEF ClientTypes
  <1>4. ASSUME ~ KeptAfterLoss' PROVE OrderlyInv'
    <2>0. OrderlyInv /\ ServerInv /\ ExecInv /\ FailedInv /\ LabelInv /\ ReplyInv
      BY <1>1, <1>4 DEF KeptAfterLoss, OrderlyInv
    <2>1. Alone(t)
      BY <1>1, <2>0 DEF ServerInv, AtMostOne, Alone
    <2>2. ExecInv' /\ LabelInv'
      BY <1>1, <2>0, <2>1, ExecStep, LabelStep
    <2>3. /\ \A u \in Threads : pc'[u] # "idle" => u = t
          /\ pc[t] # "returned" =>
               (pc'[t] = "idle" /\ failed') \/ (call' = call /\ failed' = failed)
          /\ pc[t] = "returned" => pc'[t] = "idle" /\ failed' = failed
      <3>1. \A u \in Threads : pc'[u] # "idle" => u = t
        BY <1>1, <2>1, Moves DEF Alone
      <3>2. CASE \/ BuildFails(t) \/ LabelsFail(t) \/ PlacementFails(t) \/ NothingSelected(t)
                 \/ ForwardFails(t) \/ InterpretFails(t)
        <4>1. pc \in [Threads -> Location] /\ OutlivesResourceException
          BY <1>1, CommunicatorAssumption DEF TypeOK
        <4>2. pc'[t] = "idle" /\ failed' /\ pc[t] # "returned"
          BY <3>2, <4>1 DEF BuildFails, LabelsFail, PlacementFails, NothingSelected, ForwardFails,
             InterpretFails, Throw, Goto
        <4>3. QED
          BY <3>1, <4>2
      <3>3. CASE \/ KeepNet(t) \/ DeleteNet(t) \/ SetupUndefined(t) \/ BuildNet(t) \/ LoadLabels(t)
                 \/ PlaceNet(t) \/ SkipPlacement(t) \/ ClassifyImageUndefined(t)
                 \/ NextImage(t) \/ Return(t) \/ Forward(t) \/ Interpret(t)
        BY <3>1, <3>3 DEF KeepNet, DeleteNet, SetupUndefined, BuildNet, LoadLabels, PlaceNet,
           SkipPlacement, ClassifyImageUndefined, Undefined, NextImage, Return, Forward, Interpret
      <3>4. CASE TakeResults(t)
        BY <1>1, <3>1, <3>4 DEF TakeResults, Goto, TypeOK
      <3>5. QED
        BY <1>1, <3>2, <3>3, <3>4 DEF Step
    <2>4. \A c \in Clients : Request(c)' = Request(c)
      BY <1>1 DEF Request, ImageToSend
    <2>5. ServerInv'
      <3>1. AtMostOne'
        BY <2>3 DEF AtMostOne
      <3>2. \A u \in Threads : pc'[u] # "idle" =>
              \A c \in Clients : at'[c] \in {"waiting", "dropped", "closed"}
        BY <1>1, <2>0, <2>3 DEF ServerInv
      <3>3. ASSUME NEW u \in Threads, NEW c \in Clients, at'[c] = "waiting", pc'[u] # "idle"
            PROVE  waiting'[u] = c /\ call'[u] = Request(c)'
        BY <1>1, <2>0, <2>3, <2>4, <3>3 DEF ServerInv
      <3>4. QED
        BY <1>1, <2>0, <3>1, <3>2, <3>3 DEF ServerInv
    <2>6. FailedInv'
      BY <1>1, <2>0, <2>3 DEF FailedInv, ServerInv
    <2>7. ReplyInv'
      BY <1>1, <2>0 DEF ReplyInv
    <2>8. QED
      BY <2>2, <2>5, <2>6, <2>7 DEF OrderlyInv
  <1>5. QED
    BY <1>2, <1>3, <1>4 DEF CommInv

(* The answer of a handler is the result of the image that was sent. *)
LEMMA ReplyStep ==
  ASSUME CommInv, OneClient, NEW c \in Clients, NEW t \in Threads, ReceiveReply(c, t)
  PROVE  CommInv'
  <1> DEFINE new == replies[c] \o results[t]
  <1>1. /\ \A d \in Clients : d = c
        /\ at[c] = "waiting" /\ waiting[t] = c /\ TakeResults(t) /\ pc[t] = "returned"
        /\ replies' = [replies EXCEPT ![c] = new]
        /\ at' = [at EXCEPT ![c] = "sending"] /\ waiting' = [waiting EXCEPT ![t] = "nobody"]
        /\ UNCHANGED <<arguments, kept, unlabelled>>
    BY DEF ReceiveReply, TakeResults, OneClient
  <1>2. /\ ClientTypes /\ TypeOK /\ LocalInv /\ (~ KeptAfterLoss => OrderlyInv)
        /\ arguments[c] \in ClientCall /\ replies[c] \in Seq(Result)
        /\ Len(replies[c]) < Len(arguments[c].images)
    BY <1>1 DEF CommInv, ClientTypes
  <1>3. /\ results[t] \in Seq(Result)
        /\ new \in Seq(Result) /\ Len(new) = Len(replies[c]) + Len(results[t])
        /\ \A j \in 1..Len(new) :
             new[j] = IF j <= Len(replies[c]) THEN replies[c][j] ELSE results[t][j - Len(replies[c])]
    BY <1>2, ConcatProperties DEF TypeOK
  <1> HIDE DEF new
  <1>4. TypeOK' /\ LocalInv'
    BY <1>1, <1>2, TypeStep DEF Step
  <1>5. ClientTypes'
    BY <1>1, <1>2, <1>3 DEF ClientTypes
  <1>6. ASSUME ~ KeptAfterLoss' PROVE OrderlyInv'
    <2>0. OrderlyInv /\ ServerInv /\ ExecInv /\ FailedInv /\ LabelInv /\ ReplyInv
      BY <1>1, <1>2, <1>6 DEF KeptAfterLoss, OrderlyInv
    <2>1. call[t] = Request(c) /\ Alone(t)
      BY <1>1, <2>0 DEF ServerInv, Alone, AtMostOne
    <2>2. /\ call[t].images[1] = ImageToSend(c) /\ Len(call[t].images) = 1
          /\ call[t].net = arguments[c].net /\ call[t].platforms = arguments[c].platforms
          /\ arguments[c].platforms # {}
      BY <1>2, <2>1, RequestIsCall, ImagesOfClientCall
    <2>3. Len(results[t]) = 1
      <3>1. k[t] = Len(call[t].images) + 1
        BY <1>1, <1>2 DEF LocalInv
      <3>2. k[t] = 2
        BY <2>2, <3>1
      <3>3. Len(results[t]) = k[t] - 1
        BY <1>2 DEF TypeOK
      <3>4. QED
        BY <3>2, <3>3
    <2>4. /\ results[t][1].image = ImageToSend(c)
          /\ results[t][1].labels = arguments[c].net \/ arguments[c].net \in unlabelled
          /\ results[t][1].platforms = arguments[c].platforms
      BY <2>0, <2>2, <2>3 DEF ExecInv, ResultInv, LabelInv
    <2>5. Len(replies[c]) \in Nat /\ Len(arguments[c].images) \in Nat
      BY <1>2, LenProperties, ImagesOfClientCall
    <2>6. /\ Len(new) = Len(replies[c]) + 1 /\ new[Len(new)] = results[t][1]
          /\ \A j \in 1..Len(replies[c]) : new[j] = replies[c][j]
      BY <1>3, <2>3, <2>5
    <2>7. ExecInv'
      BY <1>1, <2>0, <2>1, ExecStep DEF Step
    <2>8. LabelInv'
      <3>1. ~ LabelsFail(t)
        BY <1>1 DEF LabelsFail
      <3>2. QED
        BY <1>1, <2>0, <2>1, <3>1, LabelStep DEF Step
    <2>9. /\ \A u \in Threads : pc'[u] = "idle" /\ waiting'[u] = "nobody"
          /\ failed' = failed
      BY <1>1, <1>2, <2>0, <2>1, CommunicatorAssumption
         DEF TakeResults, Goto, TypeOK, Alone, ServerInv, ClientTypes
    <2>10. failed => kept # <<>>
      BY <1>1, <2>0 DEF FailedInv
    <2>11. ServerInv' /\ FailedInv'
      BY <1>1, <2>9, <2>10, CommunicatorAssumption DEF ServerInv, AtMostOne, FailedInv
    <2>12. ReplyInv'
      <3> SUFFICES ASSUME NEW j \in 1..Len(new)
                   PROVE  /\ new[j].image = arguments[c].images[j]
                          /\ new[j].labels = arguments[c].net \/ arguments[c].net \in unlabelled
                          /\ new[j].platforms = arguments[c].platforms
        BY <1>1, <1>2 DEF ReplyInv, ClientTypes
      <3>1. CASE j \in 1..Len(replies[c])
        BY <1>1, <2>0, <2>6, <3>1 DEF ReplyInv
      <3>2. CASE j = Len(new)
        BY <2>4, <2>6, <3>2 DEF ImageToSend
      <3>3. QED
        BY <2>5, <2>6, <3>1, <3>2
    <2>13. QED
      BY <2>7, <2>8, <2>11, <2>12 DEF OrderlyInv
  <1>7. QED
    BY <1>4, <1>5, <1>6 DEF CommInv

LEMMA CommStep ==
  ASSUME CommInv, OneClient, [CommunicatorNext]_allVars
  PROVE  CommInv'
  <1>1. CASE UNCHANGED allVars
    <2>1. /\ TypeOK' /\ LocalInv' /\ (ExecInv => ExecInv')
          /\ UNCHANGED <<clientVars, executorVars>>
      BY <1>1, TypesUnchanged, ExecUnchanged DEF CommInv, allVars, executorVars
    <2>2. ClientTypes'
      BY <2>1 DEF CommInv, ClientTypes, clientVars
    <2>3. ServerInv /\ FailedInv /\ LabelInv /\ ReplyInv =>
            ServerInv' /\ FailedInv' /\ LabelInv' /\ ReplyInv'
      BY <2>1 DEF ServerInv, AtMostOne, FailedInv, LabelInv, ReplyInv, Request,
         ImageToSend, clientVars, executorVars, vars, threadVars, netVars
    <2>4. KeptAfterLoss' <=> KeptAfterLoss
      BY <2>1 DEF KeptAfterLoss, clientVars
    <2>5. QED
      BY <2>1, <2>2, <2>3, <2>4 DEF CommInv, OrderlyInv
  <1>2. CASE CommunicatorNext
    <2>1. CASE \E c \in Clients, t \in Threads : SendImage(c, t)
      BY <2>1, SendStep
    <2>2. CASE \E c \in Clients, t \in Threads : ReceiveReply(c, t)
      BY <2>2, ReplyStep
    <2>3. CASE \E t \in Threads : Serve(t) \/ DiscardReply(t)
      BY <2>3, ServeStep
    <2>4. CASE \E c \in Clients :
                 \/ \E a \in ClientCall : ClientClassify(c, a)
                 \/ \E t \in Threads : ReceiveError(c, t)
                 \/ ConnectionLost(c) \/ CloseClient(c) \/ ClientReturn(c) \/ TakeReplies(c)
      <3>1. PICK c \in Clients :
              \/ \E a \in ClientCall : ClientClassify(c, a)
              \/ \E t \in Threads : ReceiveError(c, t)
              \/ ConnectionLost(c) \/ CloseClient(c) \/ ClientReturn(c) \/ TakeReplies(c)
        BY <2>4
      <3>2. UNCHANGED executorVars
        BY <3>1 DEF ClientClassify, ReceiveError, ConnectionLost, CloseClient, ClientReturn, TakeReplies
      <3>3. QED
        BY <3>1, <3>2, ClientStep
    <2>5. QED
      BY <1>2, <2>1, <2>2, <2>3, <2>4 DEF CommunicatorNext, CommunicatorStep
  <1>3. QED
    BY <1>1, <1>2

LEMMA CommInvariance ==
  ASSUME OneClient PROVE CommunicatorSpec => []CommInv
  <1>1. CommInv /\ [CommunicatorNext]_allVars => CommInv'
    BY CommStep
  <1>2. QED
    BY CommInit, <1>1, PTL DEF CommunicatorSpec

-----------------------------------------------------------------------------
(* With one client, which is dropped with its first error, the server      *)
(* never meets an undefined step, although a handler that throws leaves    *)
(* its executor in a bad state (Manager.cpp:280-288).                      *)
THEOREM ServerIsSafe == CommunicatorSpec => []OneClientIsSafe
  <1>1. CASE Cardinality(Clients) = 1
    <2>1. OneClient
      BY <1>1, CommunicatorAssumption, FS_Singleton DEF OneClient
    <2>2. CommInv => OneClientIsSafe
      <3> SUFFICES ASSUME CommInv, kept = <<>>, NEW t \in Threads, pc[t] = "undefined" PROVE FALSE
        BY DEF OneClientIsSafe, NeverUndefined
      <3>1. OrderlyInv
        BY DEF CommInv, KeptAfterLoss
      <3>2. ~ failed
        BY <3>1 DEF OrderlyInv, FailedInv
      <3>3. call[t] \in Call /\ call[t].platforms = {}
        BY <3>1, <3>2 DEF OrderlyInv, ExecInv, LocalInv, FreshInv
      <3>4. QED
        BY <3>3, CommunicatorAssumption DEF Call
    <2>3. QED
      BY <2>1, <2>2, CommInvariance, PTL
  <1>2. CASE Cardinality(Clients) # 1
    <2>1. OneClientIsSafe
      BY <1>2 DEF OneClientIsSafe
    <2>2. QED
      BY <2>1, PTL
  <1>3. QED
    BY <1>1, <1>2

(* The results a client receives are those of its images, in their order,  *)
(* by the net it asked for (ComputationHost.h:51), also when it calls      *)
(* again after handlers have thrown.                                       *)
THEOREM RepliesAreTheClients ==
  ASSUME OneClient PROVE CommunicatorSpec => []RepliesBelongToImages
  <1>1. CommInv => RepliesBelongToImages
    <2> SUFFICES ASSUME CommInv, ~ KeptAfterLoss, NEW c \in Clients, NEW i \in DOMAIN replies[c]
                 PROVE  /\ replies[c][i].image = arguments[c].images[i]
                        /\ arguments[c].net \notin unlabelled => replies[c][i].labels = arguments[c].net
      BY DEF RepliesBelongToImages
    <2>1. i \in 1..Len(replies[c])
      BY LenProperties DEF CommInv, ClientTypes
    <2>2. QED
      BY <2>1 DEF CommInv, OrderlyInv, ReplyInv
  <1>2. QED
    BY <1>1, CommInvariance, PTL

(* What classify of the client returns is what the interface promises. *)
LEMMA ClientAnswers ==
  ASSUME CommInv, NEW c \in Clients, ClientReturn(c), Reliable(c)
  PROVE  RemoteHost!Answers(arguments[c], replies'[c])
  <1>1. /\ at[c] = "sending" /\ Len(replies[c]) = Len(arguments[c].images)
        /\ replies[c] \in Seq(Result) /\ arguments[c] \in ClientCall
        /\ replies'[c] = [j \in DOMAIN replies[c] |->
             [replies[c][j] EXCEPT !.platforms = AggregateDistribution(replies[c])]]
    BY DEF ClientReturn, CommInv, ClientTypes
  <1>2. /\ DOMAIN replies[c] = 1..Len(replies[c]) /\ DOMAIN arguments[c].images = 1..Len(replies[c])
        /\ \A j \in 1..Len(replies[c]) : replies[c][j] \in Result
    BY <1>1, LenProperties, ElementOfSeq, ImagesOfClientCall
  <1>3. ASSUME NEW j \in 1..Len(replies[c])
        PROVE  /\ replies'[c][j].image = arguments[c].images[j]
               /\ replies'[c][j].labels = arguments[c].net
               /\ replies'[c][j].platforms = arguments[c].platforms
    <2>1. ReplyInv
      BY DEF CommInv, OrderlyInv, Reliable
    <2>2. \A i \in 1..Len(replies[c]) : replies[c][i].platforms = arguments[c].platforms
      BY <1>1, <2>1 DEF ReplyInv
    <2>3. AggregateDistribution(replies[c]) = arguments[c].platforms
      BY <1>2, <1>3, <2>2 DEF AggregateDistribution
    <2>4. /\ replies[c][j].image = arguments[c].images[j]
          /\ replies[c][j].labels = arguments[c].net /\ replies[c][j] \in Result
      BY <1>2, <2>1 DEF ReplyInv, Reliable
    <2>5. QED
      BY <1>1, <1>2, <2>3, <2>4 DEF Result
  <1>4. QED
    BY <1>1, <1>2, <1>3 DEF RemoteHost!Answers

LEMMA ClientRefinement ==
  ASSUME CommInv, OneClient, [CommunicatorNext]_allVars
  PROVE  [RemoteHost!Next]_(RemoteHost!vars)
  <1> DEFINE c == TheClient
  <1>0. /\ c \in Clients /\ (\A d \in Clients : d = c)
        /\ at \in [Clients -> {"ready", "sending", "waiting", "returned", "dropped", "closed"}]
        /\ arguments \in [Clients -> ClientCall \cup {NoCall}]
        /\ replies \in [Clients -> Seq(Result)]
    BY CommunicatorAssumption DEF OneClient, TheClient, CommInv, ClientTypes
  <1> HIDE DEF c
  <1>1. CASE /\ UNCHANGED <<at, arguments, kept>>
             /\ at[c] = "returned" =>
                  UNCHANGED replies /\ (KeptAfterLoss \/ UNCHANGED unlabelled)
    BY <1>1 DEF c, Reliable, KeptAfterLoss, RemoteHost!vars
  <1>2. CASE \E a \in ClientCall : ClientClassify(c, a)
    BY <1>0, <1>2 DEF c, ClientClassify, RemoteHost!Next, RemoteHost!Classify
  <1>3. CASE \E t \in Threads : SendImage(c, t) \/ ReceiveReply(c, t)
    BY <1>0, <1>3 DEF c, SendImage, ReceiveReply, RemoteHost!vars
  <1>4. CASE ClientReturn(c)
    <2>1. /\ at[c] = "sending" /\ at'[c] = "returned" /\ UNCHANGED <<arguments, kept, unlabelled>>
      BY <1>0, <1>4 DEF ClientReturn, executorVars
    <2>2. Reliable(c)' <=> Reliable(c)
      BY <2>1 DEF Reliable, KeptAfterLoss
    <2>3. CASE Reliable(c)
      <3>1. RemoteHost!Answers(arguments[c], replies'[c])
        BY <1>0, <1>4, <2>3, ClientAnswers
      <3>2. QED
        BY <2>1, <2>2, <2>3, <3>1 DEF c, RemoteHost!Next, RemoteHost!Reply
    <2>4. CASE ~ Reliable(c)
      BY <2>1, <2>2, <2>4 DEF c, RemoteHost!vars
    <2>5. QED
      BY <2>3, <2>4
  <1>5. ASSUME NEW location \in {"dropped", "closed", "ready"}, EndCall(c, location)
        PROVE  [RemoteHost!Next]_(RemoteHost!vars)
    <2>1. at' = [at EXCEPT ![c] = location] /\ arguments' = [arguments EXCEPT ![c] = NoCall]
      BY <1>5 DEF EndCall
    <2>2. at'[c] \notin {"sending", "waiting", "returned"} /\ arguments'[c] = NoCall
      BY <1>0, <1>5, <2>1
    <2>3. CASE at[c] \in {"sending", "waiting", "returned"}
      BY <2>2, <2>3 DEF c, RemoteHost!Next, RemoteHost!End
    <2>4. CASE at[c] \notin {"sending", "waiting", "returned"}
      <3>1. arguments[c] = NoCall
        BY <1>0, <2>4 DEF CommInv, ClientTypes
      <3>2. QED
        BY <2>2, <2>4, <3>1 DEF c, RemoteHost!vars
    <2>5. QED
      BY <2>3, <2>4
  <1>6. CASE \/ TakeReplies(c) \/ CloseClient(c) \/ ConnectionLost(c)
             \/ \E t \in Threads : ReceiveError(c, t)
    BY <1>5, <1>6 DEF TakeReplies, CloseClient, ConnectionLost, ReceiveError, Fail
  <1>7. CASE \E t \in Threads : Serve(t) \/ DiscardReply(t)
    <2>1. PICK t \in Threads : Serve(t) \/ DiscardReply(t)
      BY <1>7
    <2>2. UNCHANGED <<at, arguments, kept, replies>>
      BY <2>1 DEF Serve, DiscardReply, clientVars
    <2>3. ASSUME at[c] = "returned", ~ KeptAfterLoss PROVE UNCHANGED unlabelled
      <3>1. pc[t] = "idle"
        BY <1>0, <2>3 DEF CommInv, OrderlyInv, ServerInv
      <3>2. ~ LabelsFail(t)
        BY <3>1 DEF LabelsFail
      <3>3. QED
        BY <2>1, <3>2 DEF Serve, DiscardReply
    <2>4. QED
      BY <1>1, <2>2, <2>3
  <1>8. CASE UNCHANGED allVars
    BY <1>1, <1>8 DEF allVars, clientVars, executorVars
  <1>9. QED
    BY <1>0, <1>2, <1>3, <1>4, <1>6, <1>7, <1>8 DEF CommunicatorNext, CommunicatorStep

(* The client implements the interface ComputationHost, whenever handlers  *)
(* throw and connections break, and also when it is called again after     *)
(* errors, but for what it returns after a broken connection or by a net   *)
(* without its labels (ComputationHost.h:43-51).                           *)
THEOREM RemoteHostIsAHost ==
  ASSUME OneClient PROVE CommunicatorSpec => ClientImplementsComputationHost
  <1>1. CommunicatorInit => RemoteHost!Init
    BY CommunicatorAssumption DEF CommunicatorInit, RemoteHost!Init, TheClient
  <1>2. CommInv /\ [CommunicatorNext]_allVars => [RemoteHost!Next]_(RemoteHost!vars)
    BY ClientRefinement
  <1>3. QED
    BY <1>1, <1>2, CommInvariance, PTL
       DEF CommunicatorSpec, ClientImplementsComputationHost, RemoteHost!Spec

=============================================================================
