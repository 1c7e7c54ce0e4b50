--------------------------- MODULE PlatformPlacer ---------------------------
(***************************************************************************)
(* PlatformPlacer::placeComputations (src/src/executor/PlatformPlacer.cpp):*)
(* the layers of a net are placed on the selected platforms of one host.   *)
(* Layers more difficult than the average go to the platform that is best  *)
(* in the operation mode, the others to the default platform.  This is     *)
(* where Executor's Placed and compDistribution come from.                 *)
(*                                                                         *)
(* A platform is named by its index in the selection.  The shares of the   *)
(* distribution are floats in the code; here a share is its numerator over *)
(* the total difficulty.  A quotient of floats may be infinite (x/0) or    *)
(* not a number (0/0); a quotient of ints by 0 has no result: the location *)
(* "undefined".                                                            *)
(***************************************************************************)
EXTENDS Integers, Sequences, SequencesExt

CONSTANTS
  Selections,       (* the lists of platforms that may be selected           *)
  Nets,             (* the lists of difficulties that the layers may have,   *)
                    (* which begin with that of the input layer              *)
  MayFail           (* can the functions of a platform be unavailable?       *)

Modes == {"HighPower", "LowPower", "EnergyEfficient"}

ASSUME PlatformPlacerAssumption ==
  /\ \A s \in Selections : s \in Seq([cpu : BOOLEAN, power : Nat, flops : Nat])
  /\ \A n \in Nets : n \in Seq(Nat) /\ n # <<>> /\ n[1] = 1
  /\ MayFail \in BOOLEAN

VARIABLES
  pc,               (* where placeComputations is                            *)
  mode,             (* its arguments: the mode,                              *)
  platforms,        (*   the selected platforms                              *)
  net,              (*   and the difficulties of the layers of the net       *)
  i,                (* the platform or the layer at hand                     *)
  fallback,         (* the default platform                                  *)
  performance,      (* the best platform so far                              *)
  currentBest,      (* its flops per power, as a fraction                    *)
  function,         (* the platforms of the layers that have been placed     *)
  performanceDifficulty, fallbackDifficulty,   (* the work given to each     *)
  compDistribution  (* the platforms with their shares                       *)

arguments == <<mode, platforms, net>>
vars == <<pc, arguments, i, fallback, performance, currentBest, function,
          performanceDifficulty, fallbackDifficulty, compDistribution>>

Fraction(n, d) == [num |-> n, den |-> d]

Init ==
  /\ pc = "start"
  /\ mode \in Modes /\ platforms \in Selections /\ net \in Nets
  /\ i = 1 /\ fallback = 1 /\ performance = 1 /\ currentBest = Fraction(0, 1)
  /\ function = <<>>
  /\ performanceDifficulty = 0 /\ fallbackDifficulty = 0
  /\ compDistribution = <<>>

Leave(location) ==
  /\ pc' = location
  /\ UNCHANGED <<arguments, i, fallback, performance, currentBest, function,
                 performanceDifficulty, fallbackDifficulty, compDistribution>>

(* IllegalArgumentException of getDefaultPlatform: compDistribution has    *)
(* been cleared.                                                           *)
NothingSelected == pc = "start" /\ platforms = <<>> /\ Leave("thrown")

(* A definition marked "fault:" is a seeded bug, never used by the         *)
(* specification.                                                          *)

(* The first CPU of the selection, or its first platform. *)
DefaultPlatform ==
  LET CPUs == {p \in DOMAIN platforms : platforms[p].cpu}
  IN IF CPUs = {} THEN 1 ELSE CHOOSE p \in CPUs : \A q \in CPUs : p <= q

(* Energy efficient mode begins with a quotient of ints. *)
DividesByZero == mode = "EnergyEfficient" /\ platforms[DefaultPlatform].power = 0

DefaultUndefined ==
  /\ pc = "start" /\ platforms # <<>>
  /\ DividesByZero
  /\ Leave("undefined")

ChooseDefault ==
  LET default == platforms[DefaultPlatform] IN
  /\ pc = "start" /\ platforms # <<>>
  /\ ~ DividesByZero
  /\ fallback' = DefaultPlatform /\ performance' = DefaultPlatform
  /\ currentBest' = IF mode = "EnergyEfficient" THEN Fraction(default.flops \div default.power, 1)
                    ELSE currentBest
  /\ pc' = "platforms"
  /\ UNCHANGED <<arguments, i, function, performanceDifficulty, fallbackDifficulty, compDistribution>>

-----------------------------------------------------------------------------
(* fault: all quotients are those of ints. *)
GreaterInts(flops, power, best) == power > 0 /\ best.den > 0 /\ flops \div power > best.num \div best.den

(* flops / power > best for floats: nothing is greater than infinity, and  *)
(* what is not a number is not greater than anything.                      *)
GreaterRatio(flops, power, best) ==
  /\ best.den > 0
  /\ IF power = 0 THEN flops > 0 ELSE flops * best.den > best.num * power

(* The comparison of the loop of each mode. *)
Better(p) ==
  \/ mode = "HighPower" /\ platforms[p].flops > platforms[performance].flops
  \/ mode = "LowPower" /\ platforms[p].power < platforms[performance].power
  \/ mode = "EnergyEfficient" /\ GreaterRatio(platforms[p].flops, platforms[p].power, currentBest)

(* One turn of the loop over the platforms. *)
ConsiderPlatform ==
  /\ pc = "platforms" /\ i <= Len(platforms)
  /\ \/ /\ Better(i)
        /\ performance' = i
        /\ currentBest' = IF mode = "EnergyEfficient"
                           THEN Fraction(platforms[i].flops, platforms[i].power) ELSE currentBest
     \/ ~ Better(i) /\ UNCHANGED <<performance, currentBest>>
  /\ i' = i + 1
  /\ UNCHANGED <<pc, arguments, fallback, function, performanceDifficulty,
                 fallbackDifficulty, compDistribution>>

PlatformsDone ==
  /\ pc = "platforms" /\ i > Len(platforms)
  /\ i' = 1
  /\ pc' = "layers"
  /\ UNCHANGED <<arguments, fallback, performance, currentBest, function, performanceDifficulty,
                 fallbackDifficulty, compDistribution>>

-----------------------------------------------------------------------------
(* placeNetWith. *)
Total(difficulties) == FoldLeft(+, 0, difficulties)
totalDifficulty == Total(net)
averageDifficulty == totalDifficulty \div Len(net)

(* fault: a layer of average difficulty counts as difficult. *)
NotEasy(l) == net[l] >= averageDifficulty

Difficult(l) == net[l] > averageDifficulty

(* The layer gets its function, and its work is accounted for. *)
PlaceLayer ==
  /\ pc = "layers" /\ i <= Len(net)
  /\ \/ /\ Difficult(i)
        /\ function' = Append(function, performance)
        /\ performanceDifficulty' = performanceDifficulty + net[i]
        /\ UNCHANGED fallbackDifficulty
     \/ /\ ~ Difficult(i)
        /\ function' = Append(function, fallback)
        /\ fallbackDifficulty' = fallbackDifficulty + net[i]
        /\ UNCHANGED performanceDifficulty
  /\ i' = i + 1
  /\ UNCHANGED <<pc, arguments, fallback, performance, currentBest, compDistribution>>

(* ResourceException: the platform cannot set up its function.             *)
SetPlatformFails == pc = "layers" /\ i <= Len(net) /\ MayFail /\ Leave("thrown")

Share(p, s) == [platform |-> p, share |-> s]

(* fault: the work of the difficult layers is all of a single platform.    *)
MeasuredShares ==
  IF fallback # performance
  THEN <<Share(performance, performanceDifficulty), Share(fallback, fallbackDifficulty)>>
  ELSE <<Share(performance, performanceDifficulty)>>

UsedShares ==
  IF fallback # performance
  THEN <<Share(performance, performanceDifficulty), Share(fallback, fallbackDifficulty)>>
  ELSE <<Share(performance, totalDifficulty)>>

(* The platforms of the selection that are neither, in its order.          *)
UnusedPlatforms ==
  LET all == [p \in DOMAIN platforms |-> p]
      first == IF fallback < performance THEN fallback ELSE performance
      last == IF fallback < performance THEN performance ELSE fallback
      others == RemoveAt(all, last)
  IN IF first = last THEN others ELSE RemoveAt(others, first)

(* The platforms used, then the others, for the details tab. *)
ReportDistribution ==
  /\ pc = "layers" /\ i > Len(net)
  /\ compDistribution' =
       UsedShares \o [j \in DOMAIN UnusedPlatforms |-> Share(UnusedPlatforms[j], 0)]
  /\ pc' = "placed"
  /\ UNCHANGED <<arguments, i, fallback, performance, currentBest, function,
                 performanceDifficulty, fallbackDifficulty>>

Next ==
  \/ NothingSelected \/ DefaultUndefined \/ ChooseDefault \/ ConsiderPlatform \/ PlatformsDone
  \/ PlaceLayer \/ SetPlatformFails \/ ReportDistribution

Spec == Init /\ [][Next]_vars

-----------------------------------------------------------------------------
TypeOK ==
  /\ pc \in {"start", "platforms", "layers", "placed", "thrown", "undefined"}
  /\ mode \in Modes /\ platforms \in Selections /\ net \in Nets
  /\ i \in Nat \ {0}
  /\ pc \in {"platforms", "layers", "placed"} =>
       fallback \in DOMAIN platforms /\ performance \in DOMAIN platforms
  /\ currentBest \in [num : Nat, den : Nat]
  /\ performanceDifficulty \in Nat /\ fallbackDifficulty \in Nat

(***************************************************************************)
(* The inductive invariant: SearchInv is behind BestInItsMode, WorkInv     *)
(* behind the other properties.  The platforms before i have been          *)
(* considered.                                                             *)
(***************************************************************************)
Considered == {p \in DOMAIN platforms : pc # "platforms" \/ p < i}

(* No platform considered beats the performance platform.                  *)
ChoiceInv ==
  /\ mode = "HighPower" =>
       \A p \in Considered : platforms[p].flops <= platforms[performance].flops
  /\ mode = "LowPower" =>
       \A p \in Considered : platforms[performance].power <= platforms[p].power

(* currentBest is at least the quotient of every platform considered, and  *)
(* at most that of the performance platform, as the latter may have been   *)
(* rounded and not been considered yet; if it is infinite, so is the       *)
(* latter's.                                                               *)
QuotientInv ==
  LET best == platforms[performance] IN
  mode = "EnergyEfficient" =>
    /\ \A p \in Considered :
         platforms[p].flops * currentBest.den <= currentBest.num * platforms[p].power
    /\ currentBest.num * best.power <= best.flops * currentBest.den
    /\ currentBest.den = 0 => best.power = 0

SearchInv ==
  /\ pc = "start" => i = 1
  /\ pc \in {"platforms", "layers", "placed"} => ChoiceInv /\ QuotientInv

(* What placeNetWith has done so far: layer l is on the platform that its  *)
(* difficulty calls for, and the difficulties are the work of the platforms*)
(* where these differ.                                                     *)
WorkOn(p) == Total([l \in DOMAIN function |-> IF function[l] = p THEN net[l] ELSE 0])

WorkInv ==
  /\ pc # "placed" => compDistribution = <<>>
  /\ pc \in {"start", "platforms"} =>
       function = <<>> /\ performanceDifficulty = 0 /\ fallbackDifficulty = 0
  /\ pc \in {"layers", "placed"} =>
       /\ function \in Seq(DOMAIN platforms)
       /\ Len(function) = i - 1 /\ i <= Len(net) + 1
       /\ pc = "placed" => i = Len(net) + 1
       /\ \A l \in DOMAIN function :
            function[l] = IF Difficult(l) THEN performance ELSE fallback
       /\ fallback # performance =>
            performanceDifficulty = WorkOn(performance) /\ fallbackDifficulty = WorkOn(fallback)

IInv == TypeOK /\ SearchInv

(* Each mode finds the platform it is named for: no selected platform has  *)
(* more flops, needs less power, or has more flops per power.  This is so  *)
(* although energy efficient mode begins with a rounded quotient of the    *)
(* default platform (PlatformPlacer.cpp:156): a platform that is better    *)
(* only than the rounded quotient is replaced in turn.                     *)
BestInItsMode ==
  pc \in {"layers", "placed"} =>
    LET best == platforms[performance] IN
    \A p \in ToSet(platforms) :
      CASE mode = "HighPower" -> p.flops <= best.flops
        [] mode = "LowPower" -> best.power <= p.power
        [] mode = "EnergyEfficient" -> p.flops * best.power <= best.flops * p.power

(* The distribution shown to the user is the work placed on each platform, *)
(* and lists every selected platform once; a placement that failed leaves  *)
(* none (PlatformPlacer.cpp:121-136, getCompDistribution).                 *)
DistributionIsWorkPlaced ==
  /\ pc = "placed" =>
       /\ Len(compDistribution) = Len(platforms)
       /\ \A p \in DOMAIN platforms : \E j \in DOMAIN compDistribution :
            compDistribution[j] = Share(p, WorkOn(p))
  /\ pc # "placed" => compDistribution = <<>>

(* The default platform always has something to do, in every mode, and the *)
(* other one only stays idle when no layer is more difficult than the rest *)
(* (PlatformPlacer.cpp:96-114: averageDifficulty is rounded down).         *)
BothPlatformsWork ==
  pc = "placed" =>
    /\ fallback \in ToSet(function)
    /\ performance \notin ToSet(function) => \A l, m \in DOMAIN net : net[l] = net[m]
=============================================================================
