------------------------------ MODULE MCLayers ------------------------------
(***************************************************************************)
(* Instances of Layers for TLC: tiles of 2 x 2, with two work-items each,  *)
(* and layers whose matrices take one or several tiles in K and one or two *)
(* work-groups, with and without padding of the matrices.                  *)
(***************************************************************************)
EXTENDS Layers

Layer(type, platform, channels, size, filter, stride, padding, filters, groups) ==
  [type |-> type, platform |-> platform, channels |-> channels, size |-> size, filter |-> filter,
   stride |-> stride, padding |-> padding, filters |-> filters, groups |-> groups, radius |-> 1]

Convolutions(platform) ==
  {Layer("conv", platform, 2, 2, 1, 1, 0, 1, 1),     (* K = 2, one tile       *)
   Layer("conv", platform, 1, 2, 3, 1, 1, 1, 1),     (* padding, K = 9 of 10  *)
   Layer("conv", platform, 1, 4, 2, 2, 0, 1, 1),     (* an even filter        *)
   Layer("conv", platform, 1, 5, 3, 2, 0, 1, 1),     (* a stride              *)
   Layer("conv", platform, 1, 3, 3, 1, 0, 3, 1),     (* M = 3 of 4            *)
   Layer("conv", platform, 6, 1, 1, 1, 0, 6, 2),     (* two groups            *)
   Layer("conv", platform, 3, 1, 1, 1, 0, 3, 3)}     (* three groups: thrown  *)

OnCpu(type, channels, size, filter, stride, padding, filters) ==
  Layer(type, "CPU", channels, size, filter, stride, padding, filters, 1)

MCLayerSet ==
  (UNION {Convolutions(p) : p \in {"CPU", "CL", "FPGA"}})
  \cup {OnCpu("conv", c, n, f, s, p, 2) : c \in 1..2, n \in 3..5, f \in {1, 3}, s \in 1..2, p \in 0..2}
  \cup {OnCpu("maxpooling", c, n, f, s, p, 1) : c \in 1..2, n \in 3..5, f \in 2..3, s \in 1..2, p \in 0..1}
  \cup {OnCpu(type, c, n, 1, 1, 0, 2)
          : type \in {"LRN", "fullyConnected", "activation", "losslayer"}, c \in 1..4, n \in 1..2}

(* The hypotheses of the theorems hold here. *)
ASSUME MCHypotheses == FiltersFit /\ GroupsDivide
=============================================================================
