------------------------------- MODULE Layers -------------------------------
(***************************************************************************)
(* One layer of a net at work (src/src/neuralnet/layers): forward() calls  *)
(* the function of the platform the layer was placed on, once, or once for *)
(* each half of the filters.  A convolution on an OpenCL device becomes a  *)
(* product of matrices (Cl- and FpgaConvolutionFunction.cpp), which a      *)
(* kernel of src/resources/kernels computes in tiles of TS x TS: gemm3.cl  *)
(* on the CL platform, gemm4_fpga.cl on the FPGA.  Here the work-items of  *)
(* a kernel run in any order, as far as its barriers let them.             *)
(*                                                                         *)
(* A number of the input, the weights or the bias is its index.            *)
(***************************************************************************)
EXTENDS LayerFunctions, FiniteSets, TLC

CONSTANTS
  LayerSet,             (* the layers to run                                 *)
  WPT,                  (* columns that a work-item of gemm3 computes        *)
  WIDTH                 (* rows that a work-item of gemm4 computes           *)

ASSUME LayersAssumption ==
  /\ WPT \in Nat \ {0} /\ TS % WPT = 0
  /\ WIDTH \in Nat \ {0} /\ TS % WIDTH = 0
  /\ \A l \in LayerSet :
       /\ l.type \in {"conv", "maxpooling", "LRN", "fullyConnected", "activation", "losslayer"}
       /\ {l.channels, l.size, l.filter, l.stride, l.filters, l.groups} \subseteq Nat \ {0}
       /\ {l.padding, l.radius} \subseteq Nat
       /\ l.platform \in {"CPU"} \cup IF l.type = "conv" THEN {"CL", "FPGA"} ELSE {}
       /\ l.groups = 1 \/ l.type = "conv"

(* A filter is no larger than the padded image. *)
FiltersFit ==
  \A l \in LayerSet : l.type \in {"conv", "maxpooling"} => l.filter <= l.size + 2 * l.padding

(* The channels and the filters of a layer in two groups can be halved.    *)
GroupsDivide ==
  \A l \in LayerSet : l.groups = 2 => l.channels % 2 = 0 /\ l.filters % 2 = 0

VARIABLES
  stage,                (* where forward() is                                *)
  layer,                (* the layer: a job without arrays, platform, groups *)
  outs,                 (* the outputs of the calls of execute               *)
  A, B, C, D,           (* the buffers of the device                         *)
  Asub, Bsub,           (* the local memory of each work-group               *)
  at,                   (* where each work-item of each work-group is        *)
  acc                   (* its accumulation registers, one for each cell     *)

deviceVars == <<A, B, C, D, Asub, Bsub, at, acc>>
layersVars == <<stage, layer, outs, deviceVars>>

Array(n) == [i \in 0..(n - 1) |-> i]
Length(array) == Cardinality(DOMAIN array)
Join(a, b) == [i \in 0..(Length(a) + Length(b) - 1) |->
                 IF i < Length(a) THEN a[i] ELSE b[i - Length(a)]]

(* fault: the second half of the filters begins with the first weights.    *)
FirstHalf(array) == array

(* ConvolutionLayer::getSecondHalf *)
SecondHalf(array) == [i \in 0..(Length(array) - Length(array) \div 2 - 1) |->
                        array[i + Length(array) \div 2]]

(* The layer with its arrays, before it is split. *)
InputSize(l) == l.channels * l.size * l.size
WeightsPerFilter(l) ==
  IF l.type = "conv" THEN (l.channels \div l.groups) * l.filter * l.filter ELSE InputSize(l)
Whole(l) ==
  [in |-> Array(InputSize(l)), we |-> Array(l.filters * WeightsPerFilter(l)), b |-> Array(l.filters),
   channels |-> l.channels, size |-> l.size, filter |-> l.filter, stride |-> l.stride,
   padding |-> l.padding, filters |-> l.filters, radius |-> l.radius]

(* What forward() or forwardSplit() calls execute with, for the k-th time. *)
Job(k) ==
  IF layer.groups # 2 THEN Whole(layer)
  ELSE LET half == [Whole(layer) EXCEPT !.channels = @ \div 2, !.filters = @ \div 2]
       IN IF k = 1 THEN half
          ELSE [half EXCEPT !.in = SecondHalf(@), !.we = SecondHalf(@), !.b = SecondHalf(@)]

Calls == IF layer.groups = 2 THEN 2 ELSE 1
ThisJob == Job(Len(outs) + 1)

-----------------------------------------------------------------------------
LayersInit ==
  /\ stage = "idle" /\ layer \in LayerSet /\ outs = <<>>
  /\ A = <<>> /\ B = <<>> /\ C = <<>> /\ D = <<>>
  /\ Asub = <<>> /\ Bsub = <<>> /\ at = <<>> /\ acc = <<>>

Forward ==
  /\ stage = "idle" /\ layer.groups <= 2
  /\ stage' = "execute"
  /\ UNCHANGED <<layer, outs, deviceVars>>

(* Nothing but grouped convolutions of two groups is implemented. *)
ForwardFails ==
  /\ stage = "idle" /\ layer.groups > 2
  /\ stage' = "thrown"
  /\ UNCHANGED <<layer, outs, deviceVars>>

Calling == stage = "execute" /\ Len(outs) < Calls

ExecuteOnCpu ==
  /\ Calling /\ layer.platform = "CPU"
  /\ outs' = Append(outs,
       CASE layer.type = "conv" -> CpuConvolution(ThisJob)
         [] layer.type = "maxpooling" -> CpuMaxPooling(ThisJob)
         [] layer.type = "LRN" -> CpuResponseNormalization(ThisJob)
         [] layer.type = "fullyConnected" ->
              CpuFullyConnected(ThisJob, StretchInput(ThisJob), InputSize(layer))
         [] layer.type = "activation" -> CpuReLU(ThisJob)
         [] layer.type = "losslayer" -> CpuSoftMaxLoss(ThisJob))
  /\ UNCHANGED <<stage, layer, deviceVars>>

-----------------------------------------------------------------------------
(* The host: Cl- and FpgaConvolutionFunction::execute. *)
KSize(job) == job.filter * job.filter * job.channels
NSize(job) == OutputSize(job) * OutputSize(job)

K == Padded(KSize(ThisJob))
M == Padded(ThisJob.filters)
N == Padded(NSize(ThisJob))

(* A work-item is <<local id 0, local id 1>>, and a cell <<c, r>> of a     *)
(* tile holds a number of column c of A and of column c of B.              *)
Groups == (0..(M \div TS - 1)) \X (0..(N \div TS - 1))
Items == IF layer.platform = "CL" THEN (0..(TS - 1)) \X (0..(TS \div WPT - 1))
                                  ELSE (0..(TS \div WIDTH - 1)) \X (0..(TS - 1))
Cells == (0..(TS - 1)) \X (0..(TS - 1))

(* The cells a work-item loads and computes, in the order it does: at      *)
(* intervals of RTS columns in gemm3, the numbers of a float4 in gemm4.    *)
CellsOf(item) ==
  IF layer.platform = "CL"
    THEN [w \in 1..WPT |-> <<item[2] + (w - 1) * (TS \div WPT), item[1]>>]
    ELSE [w \in 1..WIDTH |-> <<item[2], WIDTH * item[1] + w - 1>>]

EnqueueKernel ==
  /\ Calling /\ layer.platform # "CPU"
  /\ A' = Transpose(K, M, AddPadding(KSize(ThisJob), ThisJob.filters, ThisJob.we))
  /\ B' = Transpose(N, K, AddPadding(NSize(ThisJob), KSize(ThisJob), Im2Col(ThisJob)))
  /\ C' = [i \in 0..(M * N - 1) |-> Product(Garbage, Garbage)]
  /\ D' = [i \in 0..(M - 1) |-> IF i < ThisJob.filters THEN ThisJob.b[i] ELSE Zero]
  /\ Asub' = [g \in Groups |-> [cell \in Cells |-> Garbage]] /\ Bsub' = Asub'
  /\ at' = [g \in Groups |-> [item \in Items |-> [pc |-> "load", tile |-> 0, n |-> 1]]]
  /\ acc' = [g \in Groups |-> [item \in Items |-> [w \in DOMAIN CellsOf(item) |-> {}]]]
  /\ stage' = "kernel"
  /\ UNCHANGED <<layer, outs>>

(* clEnqueueNDRangeKernel fails: the matrices and buffers are not freed.   *)
EnqueueFails ==
  /\ Calling /\ layer.platform # "CPU"
  /\ stage' = "thrown"
  /\ UNCHANGED <<layer, outs, deviceVars>>

-----------------------------------------------------------------------------
(* The kernel.  A location is left when n has passed the last of its steps.*)
IsAt(g, item, location, steps) ==
  stage = "kernel" /\ at[g][item].pc = location /\ at[g][item].n <= steps
StepOf(g, item) == at' = [at EXCEPT ![g][item].n = @ + 1]

LoadCell(g, item) ==
  /\ IsAt(g, item, "load", Len(CellsOf(item)))
  /\ LET cell == CellsOf(item)[at[g][item].n]
         t == at[g][item].tile
     IN /\ Asub' = [Asub EXCEPT ![g][cell] = A[(TS * t + cell[1]) * M + TS * g[1] + cell[2]]]
        /\ Bsub' = [Bsub EXCEPT ![g][cell] = B[(TS * g[2] + cell[1]) * K + TS * t + cell[2]]]
  /\ StepOf(g, item)
  /\ UNCHANGED <<stage, layer, outs, A, B, C, D, acc>>

Compute(g, item) ==
  /\ IsAt(g, item, "compute", TS)
  /\ LET k == at[g][item].n - 1
     IN acc' = [acc EXCEPT ![g][item] =
          [w \in DOMAIN @ |-> LET cell == CellsOf(item)[w]
             IN @[w] \cup Product(Asub[g][<<k, cell[2]>>], Bsub[g][<<cell[1], k>>])]]
  /\ StepOf(g, item)
  /\ UNCHANGED <<stage, layer, outs, A, B, C, D, Asub, Bsub>>

StoreCell(g, item) ==
  /\ IsAt(g, item, "store", Len(CellsOf(item)))
  /\ LET w == at[g][item].n
         cell == CellsOf(item)[w]
     IN C' = [C EXCEPT ![(TS * g[2] + cell[1]) * M + TS * g[1] + cell[2]] =
                acc[g][item][w] \cup Bias(D[TS * g[1] + cell[2]])]
  /\ StepOf(g, item)
  /\ UNCHANGED <<stage, layer, outs, A, B, D, Asub, Bsub, acc>>

StepsIn(item, location) == IF location = "compute" THEN TS ELSE Len(CellsOf(item))
Arrived(g, location) ==
  {item \in Items : at[g][item].pc = location /\ at[g][item].n > StepsIn(item, location)}

(* fault: an item goes on to the next tile without waiting for the others. *)
GoAlone(g) == Arrived(g, "compute")

(* barrier(CLK_LOCAL_MEM_FENCE): all items of the group or none. *)
LeaveLoad(g) == IF Arrived(g, "load") = Items THEN Items ELSE {}
LeaveCompute(g) == IF Arrived(g, "compute") = Items THEN Items ELSE {}

Started(a) == [a EXCEPT !.pc = "compute", !.n = 1]
Continued(a) == IF a.tile + 1 < K \div TS THEN [pc |-> "load", tile |-> a.tile + 1, n |-> 1]
                                          ELSE [a EXCEPT !.pc = "store", !.n = 1]

TileIsLoaded(g) ==
  /\ stage = "kernel" /\ LeaveLoad(g) # {}
  /\ at' = [at EXCEPT ![g] = 
       [item \in Items |-> IF item \in LeaveLoad(g) THEN Started(@[item]) ELSE @[item]]]
  /\ UNCHANGED <<stage, layer, outs, A, B, C, D, Asub, Bsub, acc>>

NextTile(g) ==
  /\ stage = "kernel" /\ LeaveCompute(g) # {}
  /\ at' = [at EXCEPT ![g] = 
       [item \in Items |-> IF item \in LeaveCompute(g) THEN Continued(@[item]) ELSE @[item]]]
  /\ UNCHANGED <<stage, layer, outs, A, B, C, D, Asub, Bsub, acc>>

(* clWaitForEvents returns, and C is copied to the output. *)
ReadResult ==
  /\ stage = "kernel" /\ \A g \in Groups : Arrived(g, "store") = Items
  /\ outs' = Append(outs, RemovePadding(NSize(ThisJob), ThisJob.filters, Transpose(M, N, C)))
  /\ stage' = "execute"
  /\ A' = <<>> /\ B' = <<>> /\ C' = <<>> /\ D' = <<>>
  /\ Asub' = <<>> /\ Bsub' = <<>> /\ at' = <<>> /\ acc' = <<>>
  /\ UNCHANGED layer

-----------------------------------------------------------------------------
Computed ==
  /\ stage = "execute" /\ Len(outs) = Calls
  /\ stage' = "computed"
  /\ UNCHANGED <<layer, outs, deviceVars>>

(* Another layer is run. *)
ForwardAnother ==
  /\ stage \in {"computed", "thrown"}
  /\ stage' = "idle" /\ outs' = <<>>
  /\ layer' \in LayerSet
  /\ UNCHANGED deviceVars

Kernel == \E g \in DOMAIN at : \/ \E item \in Items :
                                    LoadCell(g, item) \/ Compute(g, item) \/ StoreCell(g, item)
                               \/ TileIsLoaded(g) \/ NextTile(g)

LayersNext ==
  \/ Forward \/ ForwardFails \/ ExecuteOnCpu \/ EnqueueKernel \/ EnqueueFails
  \/ Kernel \/ ReadResult \/ Computed \/ ForwardAnother

LayersSpec == LayersInit /\ [][LayersNext]_layersVars

-----------------------------------------------------------------------------
(* fault: a stride of 1 is no special case. *)
UnpaddedWidth(l) == (l.size - l.filter) \div l.stride + 1

(* calcOutputDimensions: the width of the output of a layer with filters.  *)
KeepsWidth(l) == l.type = "conv" /\ l.stride = 1
OutputWidth(l) ==
  IF KeepsWidth(l) THEN l.size ELSE (l.size - l.filter) \div l.stride + 1

(* The numbers for which forward() allocates an output. *)
OutputElements(l) ==
  CASE l.type = "conv" -> l.filters * OutputWidth(l) * OutputWidth(l)
    [] l.type = "maxpooling" -> l.channels * OutputWidth(l) * OutputWidth(l)
    [] l.type = "fullyConnected" -> l.filters
    [] OTHER -> InputSize(l)

Output == IF Len(outs) = 2 THEN Join(outs[1], outs[2]) ELSE outs[1]

-----------------------------------------------------------------------------
(* What a layer is to compute, in coordinates of planes, rows and columns. *)
Plane(i, width) == i \div (width * width)
Row(i, width) == (i \div width) % width
Column(i, width) == i % width
In(plane, row, col) == (plane * layer.size + row) * layer.size + col

(* The places <<row, column>> of the image under a filter, by its places.  *)
Window(i, width) ==
  [d \in (0..(layer.filter - 1)) \X (0..(layer.filter - 1)) |->
     <<Row(i, width) * layer.stride - layer.padding + d[1],
       Column(i, width) * layer.stride - layer.padding + d[2]>>]
Image == (0..(layer.size - 1)) \X (0..(layer.size - 1))

Convolved(i, width) ==
  LET f == Plane(i, width)
      ofGroup == layer.channels \div layer.groups
      first == (f \div (layer.filters \div layer.groups)) * ofGroup
      window == Window(i, width)
  IN (UNION {{<<((f * ofGroup + ch) * layer.filter + d[1]) * layer.filter + d[2],
                In(first + ch, window[d][1], window[d][2])>>
                : d \in {d \in DOMAIN window : window[d] \in Image}} : ch \in 0..(ofGroup - 1)})
     \cup {<<-3, f>>}

(* A pooling layer rectifies: its output is the largest number under the   *)
(* filter or 0.  Behind a ReLU layer no number is less; directly behind a  *)
(* convolution, 0 stands for a window of negative numbers.                 *)
Pooled(i, width) ==
  LET window == Window(i, width)
  IN {Zero} \cup {In(Plane(i, width), window[d][1], window[d][2])
                    : d \in {d \in DOMAIN window : window[d] \in Image}}

(* The planes a number is normalised over are the radius planes on each    *)
(* side of its own.                                                        *)
Normalised(i) ==
  <<i, {j \in DOMAIN Whole(layer).in :
          /\ Row(j, layer.size) = Row(i, layer.size) /\ Column(j, layer.size) = Column(i, layer.size)
          /\ Plane(j, layer.size) - Plane(i, layer.size) \in (- layer.radius)..layer.radius}>>

(* A row of the weights goes through the places of the image backwards,    *)
(* with all channels of a place next to each other.                        *)
Connected(row) ==
  LET area == layer.size * layer.size
  IN {<<row * InputSize(layer) + w, (w % layer.channels) * area + area - 1 - w \div layer.channels>>
        : w \in 0..(InputSize(layer) - 1)} \cup {<<-3, row>>}

(* ConvolutionLayer.cpp:67-187, the kernels and their hosts: on every      *)
(* platform, split into groups or not, and however the work-items          *)
(* interleave, forward() leaves the output the layer is named for.  The    *)
(* CPU assumes that a filter has a middle (CpuConvolutionFunction.cpp:42). *)
OutputIsTheLayers ==
  stage = "computed" /\ (layer.type = "conv" /\ layer.platform = "CPU" => layer.filter % 2 = 1) =>
    \A i \in DOMAIN Output :
      CASE layer.type = "conv" -> Output[i] = Convolved(i, OutputSize(layer))
        [] layer.type = "maxpooling" -> Output[i] = Pooled(i, OutputSize(layer))
        [] layer.type = "LRN" -> Output[i] = Normalised(i)
        [] layer.type = "fullyConnected" -> Output[i] = Connected(i)
        [] layer.type = "activation" -> Output[i] = {Zero, i}
        [] layer.type = "losslayer" -> Output[i] = <<i, 0..(InputSize(layer) - 1)>>

(* gemm3.cl:37 and 47, gemm4_fpga.cl:40 and 63: between two barriers no    *)
(* item overwrites a number of the tile that another one still reads.      *)
TilesAreCurrent ==
  stage = "kernel" =>
    \A g \in Groups : \A item \in Items : at[g][item].pc = "compute" =>
      LET t == at[g][item].tile
      IN \A k \in (at[g][item].n - 1)..(TS - 1) : \A w \in DOMAIN CellsOf(item) :
           LET cell == CellsOf(item)[w]
           IN /\ Asub[g][<<k, cell[2]>>] = A[(TS * t + k) * M + TS * g[1] + cell[2]]
              /\ Bsub[g][<<cell[1], k>>] = B[(TS * g[2] + cell[1]) * K + TS * t + k]

(* What the padding adds to the width is what calcOutputDimensions takes   *)
(* for granted at stride 1, and no further step of the filter otherwise.   *)
PaddingFits ==
  /\ KeepsWidth(layer) => 2 * layer.padding = layer.filter - 1
  /\ layer.type \in {"conv", "maxpooling"} /\ ~ KeepsWidth(layer) =>
       ((layer.size - layer.filter) % layer.stride) + 2 * layer.padding < layer.stride

(* The layer has no filter, or one for which calcOutputDimensions does not *)
(* divide a negative number; on the CPU, it has a middle.                  *)
FilterIsUsual ==
  layer.type \in {"conv", "maxpooling"} =>
    /\ layer.filter <= layer.size \/ KeepsWidth(layer)
    /\ layer.type = "conv" => layer.filter % 2 = 1

(* ConvolutionLayer.cpp:54-59, PoolingLayer.cpp:33: only the functions     *)
(* know of the padding, so they fill what calcOutputDimensions allocates   *)
(* just if the padding fits; otherwise they write more or less than that.  *)
OutputFits ==
  stage = "computed" /\ FilterIsUsual =>
    (Length(Output) = OutputElements(layer) <=> PaddingFits)
=============================================================================
