--------------------------- MODULE LayerFunctions ---------------------------
(***************************************************************************)
(* What the functions of the layers compute (src/src/platform).  An array  *)
(* is a function from 0..n-1, a number is named by where it comes from,    *)
(* and a sum of products is the set of the pairs <<weight, number>> it     *)
(* adds; the order of additions, and so rounding, is left out.  A maximum, *)
(* a norm or a loss is likewise the numbers it is taken over (the 0 from   *)
(* which a loss takes its largest number only shifts all exponents).       *)
(*                                                                         *)
(* A job is a record of what execute(...) is called with: type, in (the    *)
(* input), channels and size (its dimensions <<channels, size, size>>),    *)
(* stride, filter, filters and padding, we (the weights) and b (the bias). *)
(* radius is the radius of a normalisation.                                *)
(***************************************************************************)
EXTENDS Integers, Sequences

CONSTANT TS             (* edge of a tile, the threadblock size              *)

ASSUME TSAssumption == TS \in Nat \ {0}

Zero == -1              (* the float 0, which adds nothing                   *)
Garbage == -2           (* a float nobody has written                        *)

Product(a, b) == IF Zero \in {a, b} /\ Garbage \notin {a, b} THEN {} ELSE {<<a, b>>}
Bias(b) == Product(-3, b)

-----------------------------------------------------------------------------
(* helper::im2col_cpu, add_padding, remove_padding and transpose.          *)
OutputSize(job) == (job.size - job.filter + 2 * job.padding) \div job.stride + 1

Im2Col(job) ==
  LET area == job.filter * job.filter
      output == OutputSize(job)
  IN [i \in 0..(area * job.channels * output * output - 1) |->
       LET c == i \div (output * output)
           h == ((i \div output) % output) * job.stride - job.padding + ((c \div job.filter) % job.filter)
           w == (i % output) * job.stride - job.padding + (c % job.filter)
       IN IF {h, w} \subseteq 0..(job.size - 1)
            THEN job.in[((c \div area) * job.size + h) * job.size + w]
            ELSE Zero]

Padded(size) == IF size % TS # 0 THEN (size \div TS + 1) * TS ELSE size

AddPadding(sizeX, sizeY, input) ==
  [i \in 0..(Padded(sizeX) * Padded(sizeY) - 1) |->
     LET x == i % Padded(sizeX)
         y == i \div Padded(sizeX)
     IN IF x < sizeX /\ y < sizeY THEN input[y * sizeX + x] ELSE Zero]

RemovePadding(sizeX, sizeY, input) ==
  [i \in 0..(sizeX * sizeY - 1) |-> input[(i \div sizeX) * Padded(sizeX) + (i % sizeX)]]

Transpose(sizeX, sizeY, input) ==
  [i \in 0..(sizeX * sizeY - 1) |-> input[(i % sizeY) * sizeX + (i \div sizeY)]]

-----------------------------------------------------------------------------
(* The positions of a filter that moves by stride over first..(end - 1).   *)
Steps(first, end, stride) == IF first < end THEN (end - first - 1) \div stride + 1 ELSE 0

(* The offsets <<r, c>> of a filter at (row, col) that fall into the image. *)
Inside(job, range, row, col) ==
  {d \in range \X range : row + d[1] \in 0..(job.size - 1) /\ col + d[2] \in 0..(job.size - 1)}

At(job, plane, row, col) == job.in[col + row * job.size + plane * job.size * job.size]

(* CpuConvolutionFunction::execute *)
CpuConvolution(job) ==
  LET half == (job.filter - 1) \div 2
      skip == half - job.padding
      steps == Steps(skip, job.size - skip, job.stride)
      area == job.filter * job.filter
  IN [o \in 0..(job.filters * steps * steps - 1) |->
       LET f == o \div (steps * steps)
           inRow == skip + ((o \div steps) % steps) * job.stride
           inCol == skip + (o % steps) * job.stride
       IN (UNION {{<<job.we[d[2] + half + (d[1] + half) * job.filter + plane * area + f * job.channels * area],
                     At(job, plane, inRow + d[1], inCol + d[2])>>
                     : d \in Inside(job, (-half)..half, inRow, inCol)}
                  : plane \in 0..(job.channels - 1)}) \cup Bias(job.b[f])]

(* CpuMaxPoolingFunction::execute: the numbers each maximum is taken over, *)
(* the 0 it begins with among them.                                        *)
CpuMaxPooling(job) ==
  LET steps == Steps(- job.padding, job.size + job.padding - job.filter + 1, job.stride)
  IN [o \in 0..(job.channels * steps * steps - 1) |->
       LET plane == o \div (steps * steps)
           inRow == ((o \div steps) % steps) * job.stride - job.padding
           inCol == (o % steps) * job.stride - job.padding
       IN {Zero} \cup {At(job, plane, inRow + d[1], inCol + d[2])
                         : d \in Inside(job, 0..(job.filter - 1), inRow, inCol)}]

(* CpuResponseNormalizationFunction::execute: <<the number, its planes>>.  *)
CpuResponseNormalization(job) ==
  LET area == job.size * job.size
  IN [o \in 0..(job.channels * area - 1) |->
       LET plane == o \div area
       IN <<job.in[o], {job.in[(plane + r) * area + (o % area)]
             : r \in ((- job.radius)..job.radius) \cap ((- plane)..(job.channels - 1 - plane))}>>]

(* FullyConnectedLayer::stretchInput: from the last number of the image to *)
(* the first, all channels of a number in a row.                           *)
StretchInput(job) ==
  LET area == job.size * job.size
  IN [i \in 0..(job.channels * area - 1) |->
       LET at == i \div job.channels
           y == job.size - 1 - (at \div job.size)
           x == job.size - 1 - (at % job.size)
       IN job.in[(i % job.channels) * area + y * job.size + x]]

(* CpuFullyConnectedFunction::execute on a vector of inSize numbers. *)
CpuFullyConnected(job, vector, inSize) ==
  [row \in 0..(job.filters - 1) |->
     {<<job.we[row * inSize + col], vector[col]>> : col \in 0..(inSize - 1)} \cup Bias(job.b[row])]

(* CpuReLUFunction::execute and CpuSoftMaxLossFunction::execute            *)
CpuReLU(job) == [i \in DOMAIN job.in |-> {Zero, job.in[i]}]
CpuSoftMaxLoss(job) == [i \in DOMAIN job.in |-> <<job.in[i], {job.in[j] : j \in DOMAIN job.in}>>]
=============================================================================
