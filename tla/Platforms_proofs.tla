-------------------------- MODULE Platforms_proofs --------------------------
(***************************************************************************)
(* Theorems about the platforms of a host: PlatformPlacer, for any         *)
(* selections of platforms, with any flops and powers, and any nets; and   *)
(* Layers, what is computed on a platform, for any layers, any size of the *)
(* tiles of a kernel and any number of its work-items.                     *)
(***************************************************************************)
EXTENDS PlatformPlacer, Layers, Sums, SequenceTheorems, FiniteSetTheorems, TLAPS

-----------------------------------------------------------------------------
(* The placer. *)

(* Multiplication of natural numbers. *)
LEMMA Monotone ==
  ASSUME NEW a \in Nat, NEW b \in Nat, NEW c \in Nat, a <= b
  PROVE  a * c <= b * c
OBVIOUS

LEMMA CancelFactor ==
  ASSUME NEW a \in Nat, NEW b \in Nat, NEW c \in Nat, c > 0, a * c <= b * c
  PROVE  a <= b
  <1> SUFFICES ASSUME b + 1 <= a PROVE FALSE
    OBVIOUS
  <1>1. (b + 1) * c <= a * c
    BY Monotone
  <1>2. (b + 1) * c = b * c + c
    OBVIOUS
  <1>3. a * c \in Nat /\ b * c \in Nat
    OBVIOUS
  <1>4. QED
    BY <1>1, <1>2, <1>3

(* a/b <= n/d and n/d <= f/w give a/b <= f/w, with the quotients multiplied *)
(* out and d the only denominator that may not be 0.                       *)
LEMMA QuotientsTransitive ==
  ASSUME NEW a \in Nat, NEW b \in Nat, NEW n \in Nat, NEW d \in Nat,
         NEW f \in Nat, NEW w \in Nat,
         a * d <= n * b, n * w <= f * d, d > 0
  PROVE  a * w <= f * b
  <1> a * d \in Nat /\ n * b \in Nat /\ n * w \in Nat /\ f * d \in Nat /\ a * w \in Nat /\ f * b \in Nat
    OBVIOUS
  <1>1. (a * d) * w <= (n * b) * w
    BY Monotone
  <1>2. (n * w) * b <= (f * d) * b
    BY Monotone
  <1>3. (a * d) * w = (a * w) * d /\ (n * b) * w = (n * w) * b /\ (f * d) * b = (f * b) * d
    OBVIOUS
  <1>4. (a * w) * d \in Nat /\ (n * w) * b \in Nat /\ (f * b) * d \in Nat
    OBVIOUS
  <1>5. (a * w) * d <= (f * b) * d
    BY <1>1, <1>2, <1>3, <1>4
  <1>6. QED
    BY <1>5, CancelFactor

(* The quotient of ints is at most that of floats. *)
LEMMA RoundedDown ==
  ASSUME NEW f \in Nat, NEW w \in Nat, w # 0
  PROVE  f \div w \in Nat /\ (f \div w) * w <= f
  <1> DEFINE q == f \div w
             r == f % w
  <1>1. q \in Nat /\ r \in Nat
    OBVIOUS
  <1>2. f = w * q + r
    OBVIOUS
  <1> HIDE DEF q, r
  <1>3. w * q = q * w /\ q * w \in Nat
    BY <1>1
  <1>4. q * w <= f
    BY <1>1, <1>2, <1>3
  <1>5. QED
    BY <1>1, <1>4 DEF q

(* What the lists of platforms and layers hold. *)
LEMMA Arguments ==
  ASSUME TypeOK
  PROVE  /\ DOMAIN platforms = 1..Len(platforms) /\ Len(platforms) \in Nat
         /\ \A p \in DOMAIN platforms :
              /\ platforms[p].cpu \in BOOLEAN
              /\ platforms[p].power \in Nat
              /\ platforms[p].flops \in Nat
         /\ Len(net) \in Nat
         /\ \A l \in 1..Len(net) : net[l] \in Nat
  <1> DEFINE Platform == [cpu : BOOLEAN, power : Nat, flops : Nat]
  <1>1. platforms \in Seq(Platform)
    BY PlatformPlacerAssumption DEF TypeOK
  <1>2. net \in Seq(Nat)
    BY PlatformPlacerAssumption DEF TypeOK
  <1>3. \A p \in 1..Len(platforms) : platforms[p] \in Platform
    <2> HIDE DEF Platform
    <2> QED BY <1>1
  <1>4. DOMAIN platforms = 1..Len(platforms) /\ Len(platforms) \in Nat
    <2> HIDE DEF Platform
    <2> QED BY <1>1
  <1>5. QED
    BY <1>2, <1>3, <1>4

(* The default platform is one of those selected. *)
LEMMA DefaultSelected ==
  ASSUME TypeOK, platforms # <<>>
  PROVE  DefaultPlatform \in DOMAIN platforms
  <1> DEFINE CPUs == {p \in DOMAIN platforms : platforms[p].cpu}
  <1>1. 1 \in DOMAIN platforms
    BY PlatformPlacerAssumption DEF TypeOK
  <1>2. CASE CPUs = {}
    BY <1>1, <1>2 DEF DefaultPlatform
  <1>3. CASE CPUs # {}
    <2>1. CPUs \in SUBSET Nat
      BY Arguments
    <2>2. \E p \in CPUs : \A q \in CPUs : p <= q
      BY <1>3, <2>1, LeastNumber
    <2>3. QED
      BY <1>3, <2>2 DEF DefaultPlatform
  <1>4. QED
    BY <1>2, <1>3

-----------------------------------------------------------------------------
(* The step of each action that moves the search.  The default platform is *)
(* chosen: nothing has been considered, and the quotient is rounded down.  *)
LEMMA ChooseKeepsInv == IInv /\ ChooseDefault => IInv'
  <1> SUFFICES ASSUME IInv, ChooseDefault PROVE IInv'
    OBVIOUS
  <1> DEFINE default == platforms[DefaultPlatform]
  <1>1. DefaultPlatform \in DOMAIN platforms
    BY DefaultSelected DEF IInv, ChooseDefault
  <1>2. default.power \in Nat /\ default.flops \in Nat
    BY <1>1, Arguments DEF IInv
  <1>3. mode = "EnergyEfficient" =>
          /\ default.flops \div default.power \in Nat
          /\ (default.flops \div default.power) * default.power <= default.flops
    BY <1>2, RoundedDown DEF ChooseDefault, DividesByZero
  <1>4. /\ performance' = DefaultPlatform /\ fallback' = DefaultPlatform
        /\ pc' = "platforms" /\ i' = 1
        /\ UNCHANGED <<mode, platforms, net, performanceDifficulty, fallbackDifficulty>>
    BY DEF ChooseDefault, arguments, IInv, SearchInv
  <1>5. /\ mode = "EnergyEfficient" => currentBest' = Fraction(default.flops \div default.power, 1)
        /\ mode # "EnergyEfficient" => currentBest' = currentBest
    BY DEF ChooseDefault
  <1>6. TypeOK'
    BY <1>1, <1>3, <1>4, <1>5 DEF IInv, TypeOK, Fraction
  <1>7. Considered' = {}
    BY <1>4, Arguments DEF Considered, IInv
  <1>8. QuotientInv'
    <2> SUFFICES ASSUME mode = "EnergyEfficient"
                 PROVE  /\ currentBest'.num * default.power <= default.flops * currentBest'.den
                        /\ currentBest'.den # 0
      BY <1>4, <1>7 DEF QuotientInv
    <2>1. currentBest'.num = default.flops \div default.power /\ currentBest'.den = 1
      BY <1>5 DEF Fraction
    <2>2. QED
      BY <1>2, <1>3, <2>1
  <1>9. QED
    BY <1>4, <1>6, <1>7, <1>8 DEF IInv, SearchInv, ChoiceInv

(* A platform is considered: if it is better, it is better than all those  *)
(* considered before it.                                                   *)
LEMMA ConsiderKeepsInv == IInv /\ ConsiderPlatform => IInv'
  <1> SUFFICES ASSUME IInv, ConsiderPlatform PROVE IInv'
    OBVIOUS
  <1> DEFINE new == platforms[i]
             old == platforms[performance]
  <1>1. /\ pc = "platforms" /\ pc' = "platforms" /\ i \in DOMAIN platforms /\ i' = i + 1
        /\ i \in Nat \ {0}
        /\ performance \in DOMAIN platforms /\ fallback \in DOMAIN platforms
        /\ currentBest \in [num : Nat, den : Nat]
        /\ UNCHANGED <<mode, platforms, net, fallback, performanceDifficulty, fallbackDifficulty>>
    BY Arguments DEF IInv, TypeOK, ConsiderPlatform, arguments
  <1>2. /\ new.power \in Nat /\ new.flops \in Nat
        /\ \A p \in DOMAIN platforms : platforms[p].power \in Nat /\ platforms[p].flops \in Nat
    BY <1>1, Arguments DEF IInv
  <1>3. /\ Considered = {p \in DOMAIN platforms : p < i}
        /\ Considered' = Considered \cup {i}
    BY <1>1, Arguments DEF Considered, IInv
  <1>4. ChoiceInv /\ QuotientInv
    BY <1>1 DEF IInv, SearchInv
  <1>5. CASE /\ Better(i) /\ performance' = i
             /\ currentBest' = IF mode = "EnergyEfficient"
                                THEN Fraction(new.flops, new.power) ELSE currentBest
    <2>1. TypeOK'
      BY <1>1, <1>2, <1>5 DEF IInv, TypeOK, Fraction
    <2>2. ChoiceInv'
      <3>1. ASSUME mode = "HighPower", NEW p \in Considered'
            PROVE  platforms[p].flops <= new.flops
        <4>1. platforms[p].flops \in Nat /\ old.flops < new.flops /\ old.flops \in Nat
          BY <1>1, <1>2, <1>3, <1>5, <3>1 DEF Better
        <4>2. p # i => platforms[p].flops <= old.flops
          BY <1>3, <1>4, <3>1 DEF ChoiceInv
        <4>3. QED
          BY <1>2, <4>1, <4>2
      <3>2. ASSUME mode = "LowPower", NEW p \in Considered'
            PROVE  new.power <= platforms[p].power
        <4>1. platforms[p].power \in Nat /\ new.power < old.power /\ old.power \in Nat
          BY <1>1, <1>2, <1>3, <1>5, <3>2 DEF Better
        <4>2. p # i => old.power <= platforms[p].power
          BY <1>3, <1>4, <3>2 DEF ChoiceInv
        <4>3. QED
          BY <1>2, <4>1, <4>2
      <3>3. QED
        BY <1>1, <1>5, <3>1, <3>2 DEF ChoiceInv
    <2>3. QuotientInv'
      <3> SUFFICES ASSUME mode = "EnergyEfficient" PROVE QuotientInv'
        BY <1>1 DEF QuotientInv
      <3>1. currentBest'.num = new.flops /\ currentBest'.den = new.power
        BY <1>5 DEF Fraction
      <3>2. ASSUME NEW p \in Considered'
            PROVE  platforms[p].flops * new.power <= new.flops * platforms[p].power
        <4> DEFINE a == platforms[p].flops
                   b == platforms[p].power
                   n == currentBest.num
                   d == currentBest.den
        <4>1. a \in Nat /\ b \in Nat /\ n \in Nat /\ d \in Nat
          BY <1>1, <1>2, <1>3
        <4>2. p # i => a * d <= n * b
          BY <1>3, <1>4 DEF QuotientInv
        <4>3. GreaterRatio(new.flops, new.power, currentBest)
          BY <1>5 DEF Better
        <4>4. d > 0 /\ (new.power # 0 => new.flops * d > n * new.power)
          BY <4>3 DEF GreaterRatio
        <4>5. CASE p = i
          BY <1>2, <4>5
        <4>6. CASE p # i /\ new.power = 0
          <5>1. a * new.power = 0 /\ new.flops * b \in Nat
            BY <1>2, <4>1, <4>6
          <5>2. QED
            BY <5>1
        <4>7. CASE p # i /\ new.power # 0
          <5>1. n * new.power <= new.flops * d
            BY <1>2, <4>1, <4>4, <4>7
          <5>2. QED
            BY <1>2, <4>1, <4>2, <4>4, <4>7, <5>1, QuotientsTransitive
        <4>8. QED
          BY <4>5, <4>6, <4>7
      <3>3. new.flops * new.power <= new.flops * new.power
        BY <1>2
      <3>4. QED
        BY <1>1, <1>5, <3>1, <3>2, <3>3 DEF QuotientInv
    <2>4. QED
      BY <1>1, <2>1, <2>2, <2>3 DEF IInv, SearchInv
  <1>6. CASE ~ Better(i) /\ UNCHANGED <<performance, currentBest>>
    <2>1. TypeOK'
      BY <1>1, <1>6 DEF IInv, TypeOK
    <2>2. ChoiceInv'
      BY <1>1, <1>2, <1>3, <1>4, <1>6 DEF ChoiceInv, Better
    <2>3. QuotientInv'
      <3> SUFFICES ASSUME mode = "EnergyEfficient" PROVE QuotientInv'
        BY <1>1 DEF QuotientInv
      <3> DEFINE n == currentBest.num
                 d == currentBest.den
      <3>1. ~ GreaterRatio(new.flops, new.power, currentBest)
        BY <1>6 DEF Better
      <3>2. n \in Nat /\ d \in Nat /\ new.flops * d \in Nat /\ n * new.power \in Nat
        BY <1>1, <1>2
      <3>3. CASE d = 0
        <4>1. new.flops * d = 0
          BY <1>2, <3>3
        <4>2. QED
          BY <1>1, <1>3, <1>4, <1>6, <3>2, <4>1 DEF QuotientInv
      <3>4. CASE d # 0 /\ new.power = 0
        <4>1. new.flops = 0
          BY <1>2, <3>1, <3>2, <3>4 DEF GreaterRatio
        <4>2. new.flops * d = 0
          BY <3>2, <4>1
        <4>3. QED
          BY <1>1, <1>3, <1>4, <1>6, <3>2, <4>2 DEF QuotientInv
      <3>5. CASE d # 0 /\ new.power # 0
        <4>1. new.flops * d <= n * new.power
          BY <1>2, <3>1, <3>2, <3>5 DEF GreaterRatio
        <4>2. QED
          BY <1>1, <1>3, <1>4, <1>6, <4>1 DEF QuotientInv
      <3>6. QED
        BY <3>3, <3>4, <3>5
    <2>4. QED
      BY <1>1, <2>1, <2>2, <2>3 DEF IInv, SearchInv
  <1>7. QED
    BY <1>5, <1>6 DEF ConsiderPlatform

(* When the loop has ended, all platforms have been considered. *)
LEMMA DoneKeepsInv == IInv /\ PlatformsDone => IInv'
  <1> SUFFICES ASSUME IInv, PlatformsDone PROVE IInv'
    OBVIOUS
  <1>1. /\ pc = "platforms" /\ pc' = "layers" /\ i > Len(platforms) /\ i' = 1 /\ i \in Nat
        /\ UNCHANGED <<mode, platforms, net, fallback, performance, currentBest,
                       performanceDifficulty, fallbackDifficulty>>
    BY DEF PlatformsDone, arguments, IInv, TypeOK
  <1>2. Considered' = Considered
    BY <1>1, Arguments DEF Considered, IInv
  <1>3. QED
    BY <1>1, <1>2 DEF IInv, TypeOK, SearchInv, ChoiceInv, QuotientInv

(* Placing a layer leaves the search alone. *)
LEMMA PlaceKeepsInv == IInv /\ PlaceLayer => IInv'
  <1> SUFFICES ASSUME IInv, PlaceLayer PROVE IInv'
    OBVIOUS
  <1>1. /\ pc = "layers" /\ pc' = "layers" /\ i \in 1..Len(net) /\ i' = i + 1
        /\ UNCHANGED <<mode, platforms, net, fallback, performance, currentBest>>
    BY Arguments DEF PlaceLayer, arguments, IInv, TypeOK
  <1>2. net[i] \in Nat
    BY <1>1, Arguments DEF IInv
  <1>3. performanceDifficulty' \in Nat /\ fallbackDifficulty' \in Nat
    BY <1>2 DEF PlaceLayer, IInv, TypeOK
  <1>4. Considered' = Considered
    BY <1>1 DEF Considered
  <1>5. QED
    BY <1>1, <1>3, <1>4 DEF IInv, TypeOK, SearchInv, ChoiceInv, QuotientInv

(* The steps that leave or end the placement. *)
LEMMA LeaveKeepsInv ==
  ASSUME IInv, NEW location \in {"thrown", "undefined"}, Leave(location)
  PROVE  IInv'
BY DEF IInv, TypeOK, SearchInv, Leave, arguments

LEMMA ReportKeepsInv == IInv /\ ReportDistribution => IInv'
  <1> SUFFICES ASSUME IInv, ReportDistribution PROVE IInv'
    OBVIOUS
  <1>1. /\ pc = "layers" /\ pc' = "placed"
        /\ UNCHANGED <<mode, platforms, net, i, fallback, performance, currentBest,
                       performanceDifficulty, fallbackDifficulty>>
    BY DEF ReportDistribution, arguments
  <1>2. Considered' = Considered
    BY <1>1 DEF Considered
  <1>3. QED
    BY <1>1, <1>2 DEF IInv, TypeOK, SearchInv, ChoiceInv, QuotientInv

(* The search keeps what it knows about the platforms it has considered.   *)
THEOREM Invariance == Spec => []IInv
  <1>1. Init => IInv
    BY DEF Init, IInv, TypeOK, SearchInv, Fraction
  <1>2. IInv /\ [Next]_vars => IInv'
    <2> SUFFICES ASSUME IInv, [Next]_vars PROVE IInv'
      OBVIOUS
    <2>1. CASE NothingSelected
      BY <2>1, LeaveKeepsInv DEF NothingSelected
    <2>2. CASE DefaultUndefined
      BY <2>2, LeaveKeepsInv DEF DefaultUndefined
    <2>3. CASE SetPlatformFails
      BY <2>3, LeaveKeepsInv DEF SetPlatformFails
    <2>4. CASE UNCHANGED vars
      BY <2>4 DEF vars, arguments, IInv, TypeOK, SearchInv, ChoiceInv, QuotientInv, Considered
    <2>5. QED
      BY <2>1, <2>2, <2>3, <2>4, ChooseKeepsInv, ConsiderKeepsInv, DoneKeepsInv,
         PlaceKeepsInv, ReportKeepsInv DEF Next
  <1>3. QED
    BY <1>1, <1>2, PTL DEF Spec

-----------------------------------------------------------------------------
(* Each mode of placeComputations finds the platform it is named for,      *)
(* whatever the platforms are, although energy efficient mode begins with  *)
(* a rounded quotient.                                                     *)
THEOREM BestPlatform == Spec => []BestInItsMode
  <1>1. IInv => BestInItsMode
    <2> SUFFICES ASSUME IInv, pc \in {"layers", "placed"}, NEW p \in ToSet(platforms)
                 PROVE  LET best == platforms[performance] IN
                        CASE mode = "HighPower" -> p.flops <= best.flops
                          [] mode = "LowPower" -> best.power <= p.power
                          [] mode = "EnergyEfficient" -> p.flops * best.power <= best.flops * p.power
      BY DEF BestInItsMode
    <2> DEFINE best == platforms[performance]
               n == currentBest.num
               d == currentBest.den
    <2>1. PICK k \in DOMAIN platforms : p = platforms[k]
      BY DEF ToSet
    <2>2. /\ performance \in DOMAIN platforms /\ n \in Nat /\ d \in Nat
          /\ mode \in Modes
      BY DEF IInv, TypeOK
    <2>3. /\ p.flops \in Nat /\ p.power \in Nat
          /\ best.flops \in Nat /\ best.power \in Nat
      BY <2>1, <2>2, Arguments DEF IInv
    <2>4. k \in Considered
      BY <2>1 DEF Considered
    <2>5. ChoiceInv /\ QuotientInv
      BY DEF IInv, SearchInv
    <2>6. ASSUME mode = "EnergyEfficient"
          PROVE  p.flops * best.power <= best.flops * p.power
      <3>1. /\ p.flops * d <= n * p.power
            /\ n * best.power <= best.flops * d
            /\ d = 0 => best.power = 0
        BY <2>1, <2>4, <2>5, <2>6 DEF QuotientInv
      <3>2. CASE d > 0
        BY <2>2, <2>3, <3>1, <3>2, QuotientsTransitive
      <3>3. CASE d = 0
        <4>1. p.flops * best.power = 0 /\ best.flops * p.power \in Nat
          BY <2>3, <3>1, <3>3
        <4>2. QED
          BY <4>1
      <3>4. QED
        BY <2>2, <3>2, <3>3
    <2>7. QED
      BY <2>1, <2>2, <2>4, <2>5, <2>6 DEF ChoiceInv, Modes
  <1>2. QED
    BY <1>1, Invariance, PTL

(* The variables keep their types. *)
THEOREM TypeCorrect == Spec => []TypeOK
BY Invariance, PTL DEF IInv

-----------------------------------------------------------------------------
(* The layers of the net, and what has been placed of them. *)
LEMMA Layers ==
  ASSUME TypeOK
  PROVE  /\ net \in Seq(Nat) /\ DOMAIN net = 1..Len(net) /\ Len(net) \in Nat \ {0}
         /\ i \in Nat \ {0}
  <1>1. net \in Seq(Nat) /\ net # <<>>
    BY PlatformPlacerAssumption DEF TypeOK
  <1>2. DOMAIN net = 1..Len(net) /\ Len(net) \in Nat /\ Len(net) # 0
    BY <1>1
  <1> QED BY <1>1, <1>2 DEF TypeOK

(* The layers placed so far: all of them when the loop has ended. *)
LEMMA LayersPlaced ==
  ASSUME TypeOK, WorkInv, pc \in {"layers", "placed"}
  PROVE  /\ DOMAIN function = 1..(i - 1) /\ DOMAIN function \subseteq DOMAIN net
         /\ i > Len(net) => DOMAIN function = DOMAIN net
  <1>1. /\ function \in Seq(DOMAIN platforms) /\ Len(function) = i - 1 /\ i <= Len(net) + 1
    BY DEF WorkInv
  <1>2. DOMAIN function = 1..(i - 1)
    BY <1>1
  <1> QED BY <1>1, <1>2, Layers

(* The total of a list with one more number. *)
LEMMA TotalAppend ==
  ASSUME NEW s \in Seq(Nat), NEW v \in Nat
  PROVE  Total(Append(s, v)) = Total(s) + v
BY FoldLeftAppend DEF Total

LEMMA TotalZero == ASSUME NEW n \in Nat PROVE Total([x \in 1..n |-> 0]) = 0
BY FoldLeftZero DEF Total

(* The total of a list of numbers, compared with that of as many times m.  *)
LEMMA TotalNat == ASSUME NEW s \in Seq(Nat) PROVE Total(s) \in Nat
BY FoldLeftNat DEF Total

LEMMA TotalAtLeast ==
  ASSUME NEW s \in Seq(Nat), NEW m \in Nat, \A x \in 1..Len(s) : m <= s[x]
  PROVE  m * Len(s) <= Total(s)
  <1>1. m * Len(s) <= FoldLeft(+, 0, s)
    BY FoldLeftAtLeast
  <1> QED BY <1>1 DEF Total

LEMMA TotalBelow ==
  ASSUME NEW s \in Seq(Nat), NEW m \in Nat, \A x \in 1..Len(s) : s[x] <= m,
         NEW y \in 1..Len(s), s[y] < m
  PROVE  Total(s) < m * Len(s)
  <1>1. FoldLeft(+, 0, s) < m * Len(s)
    BY FoldLeftBelow
  <1> QED BY <1>1 DEF Total

(* A platform without layers has no work. *)
LEMMA NoWork ==
  ASSUME NEW n \in Nat, DOMAIN function = 1..n, NEW p, \A l \in DOMAIN function : function[l] # p
  PROVE  WorkOn(p) = 0
  <1>1. [l \in DOMAIN function |-> IF function[l] = p THEN net[l] ELSE 0] = [x \in 1..n |-> 0]
    OBVIOUS
  <1>2. Total([x \in 1..n |-> 0]) = 0
    BY TotalZero
  <1> QED BY <1>1, <1>2 DEF WorkOn

(* Placing a layer adds its difficulty to the work of its platform. *)
LEMMA LayerAdds ==
  ASSUME TypeOK, WorkInv, pc = "layers", i <= Len(net), NEW q, NEW p,
         function' = Append(function, q), net' = net
  PROVE  /\ net[i] \in Nat
         /\ WorkOn(p)' = WorkOn(p) + (IF q = p THEN net[i] ELSE 0)
  <1> DEFINE s == [l \in DOMAIN function |-> IF function[l] = p THEN net[l] ELSE 0]
             t == [l \in DOMAIN function' |-> IF function'[l] = p THEN net[l] ELSE 0]
             v == IF q = p THEN net[i] ELSE 0
  <1>1. /\ function \in Seq(DOMAIN platforms) /\ Len(function) = i - 1
        /\ DOMAIN function = 1..(i - 1) /\ DOMAIN function \subseteq DOMAIN net
        /\ i \in Nat \ {0} /\ i \in DOMAIN net
        /\ \A l \in DOMAIN net : net[l] \in Nat
    BY Layers, LayersPlaced DEF WorkInv
  <1>2. /\ DOMAIN function' = 1..i /\ function'[i] = q
        /\ \A l \in 1..(i - 1) : function'[l] = function[l]
    BY <1>1
  <1>3. s \in Seq(Nat) /\ Len(s) = i - 1 /\ v \in Nat
    <2>1. s \in [1..(i - 1) -> Nat]
      BY <1>1
    <2> QED BY <1>1, <2>1
  <1>4. t = Append(s, v)
    <2>1. \A l \in 1..i : l = i \/ l \in 1..(i - 1)
      BY <1>1
    <2>2. DOMAIN t = 1..i /\ \A l \in 1..i : t[l] = IF l = i THEN v ELSE s[l]
      BY <1>1, <1>2, <2>1
    <2> HIDE DEF s, v
    <2>3. Len(Append(s, v)) = i /\ \A l \in 1..i : Append(s, v)[l] = IF l = i THEN v ELSE s[l]
      BY <1>1, <1>3
    <2>4. DOMAIN Append(s, v) = 1..i /\ Append(s, v) \in Seq(Nat)
      BY <1>3, <2>3
    <2> DEFINE u == Append(s, v)
    <2>5. t = [l \in 1..i |-> t[l]]
      BY <1>2
    <2> HIDE DEF t, u
    <2>8. u = [l \in 1..i |-> u[l]]
      <3>1. u \in Seq(Nat) /\ DOMAIN u = 1..i
        BY <2>4 DEF u
      <3> QED BY <3>1
    <2>6. \A l \in 1..i : t[l] = u[l]
      BY <2>2, <2>3 DEF u
    <2>7. t = u
      BY <2>5, <2>6, <2>8
    <2> QED BY <2>7 DEF u
  <1>5. Total(t) = Total(s) + v
    <2> HIDE DEF s, t, v
    <2> QED BY <1>3, <1>4, TotalAppend
  <1>6. WorkOn(p) = Total(s) /\ WorkOn(p)' = Total(t)
    BY DEF WorkOn
  <1> QED BY <1>1, <1>5, <1>6

LEMMA PlaceKeepsWork == IInv /\ WorkInv /\ PlaceLayer => WorkInv'
  <1> SUFFICES ASSUME IInv, WorkInv, PlaceLayer PROVE WorkInv'
    OBVIOUS
  <1> DEFINE q == IF Difficult(i) THEN performance ELSE fallback
  <1>1. /\ pc = "layers" /\ pc' = "layers" /\ i <= Len(net) /\ i' = i + 1
        /\ UNCHANGED <<platforms, net, fallback, performance, compDistribution>>
        /\ function' = Append(function, q)
        /\ performanceDifficulty' = performanceDifficulty + (IF Difficult(i) THEN net[i] ELSE 0)
        /\ fallbackDifficulty' = fallbackDifficulty + (IF Difficult(i) THEN 0 ELSE net[i])
    BY DEF PlaceLayer, arguments, IInv, TypeOK
  <1>2. q \in DOMAIN platforms
    BY <1>1 DEF IInv, TypeOK
  <1>3. \A p : WorkOn(p)' = WorkOn(p) + (IF q = p THEN net[i] ELSE 0)
    BY <1>1, LayerAdds DEF IInv
  <1>4. /\ function \in Seq(DOMAIN platforms) /\ Len(function) = i - 1 /\ i \in Nat \ {0}
        /\ DOMAIN function = 1..(i - 1)
        /\ \A l \in DOMAIN function : function[l] = IF Difficult(l) THEN performance ELSE fallback
        /\ fallback # performance =>
            performanceDifficulty = WorkOn(performance) /\ fallbackDifficulty = WorkOn(fallback)
        /\ compDistribution = <<>> /\ Len(net) \in Nat
    BY <1>1, Layers, LayersPlaced DEF WorkInv, IInv
  <1>5. function' \in Seq(DOMAIN platforms') /\ Len(function') = i' - 1 /\ i' <= Len(net') + 1
    BY <1>1, <1>2, <1>4
  <1>6. \A l \in DOMAIN function' : function'[l] = IF Difficult(l) THEN performance ELSE fallback
    <2>1. DOMAIN function' = 1..i /\ function'[i] = q
          /\ \A l \in 1..(i - 1) : function'[l] = function[l]
      BY <1>1, <1>4
    <2> QED BY <1>4, <2>1
  <1>7. \A l : Difficult(l)' <=> Difficult(l)
    BY <1>1 DEF Difficult, averageDifficulty, totalDifficulty
  <1>8. fallback # performance =>
          performanceDifficulty' = WorkOn(performance)' /\ fallbackDifficulty' = WorkOn(fallback)'
    BY <1>1, <1>3, <1>4
  <1>9. \A l \in DOMAIN function' : function'[l] = IF Difficult(l)' THEN performance' ELSE fallback'
    BY <1>1, <1>6, <1>7
  <1>10. (fallback # performance =>
           performanceDifficulty = WorkOn(performance) /\ fallbackDifficulty = WorkOn(fallback))'
    BY <1>1, <1>8 DEF WorkOn
  <1> QED BY <1>1, <1>4, <1>5, <1>9, <1>10 DEF WorkInv

(* The first layer is about to be placed. *)
LEMMA DoneKeepsWork == IInv /\ WorkInv /\ PlatformsDone => WorkInv'
  <1> SUFFICES ASSUME IInv, WorkInv, PlatformsDone PROVE WorkInv'
    OBVIOUS
  <1>1. /\ pc' = "layers" /\ i' = 1 /\ function' = <<>> /\ compDistribution' = <<>>
        /\ performanceDifficulty' = 0 /\ fallbackDifficulty' = 0
        /\ net' = net /\ platforms' = platforms
    BY DEF PlatformsDone, WorkInv, arguments
  <1>2. /\ DOMAIN function' = 1..0 /\ Len(function') = 0 /\ function' \in Seq(DOMAIN platforms')
        /\ Len(net) \in Nat
    BY <1>1, Layers DEF IInv
  <1>3. \A p : WorkOn(p)' = 0
    <2> SUFFICES ASSUME NEW p PROVE WorkOn(p)' = 0
      OBVIOUS
    <2>1. [l \in DOMAIN function' |-> IF function'[l] = p THEN net'[l] ELSE 0] = [x \in 1..0 |-> 0]
      BY <1>2
    <2> QED BY <2>1, TotalZero DEF WorkOn
  <1>4. (fallback # performance =>
           performanceDifficulty = WorkOn(performance) /\ fallbackDifficulty = WorkOn(fallback))'
    <2> HIDE DEF WorkOn
    <2> SUFFICES performanceDifficulty' = 0 /\ fallbackDifficulty' = 0 /\ \A p : WorkOn(p)' = 0
      BY DEF WorkOn
    <2> QED BY <1>1, <1>3
  <1> QED BY <1>1, <1>2, <1>4 DEF WorkInv

(* WorkInv is inductive. *)
LEMMA WorkStep == IInv /\ WorkInv /\ [Next]_vars => WorkInv'
  <1> SUFFICES ASSUME IInv, WorkInv, [Next]_vars PROVE WorkInv'
    OBVIOUS
  <1>1. CASE PlaceLayer
    BY <1>1, PlaceKeepsWork
  <1>2. CASE PlatformsDone
    BY <1>2, DoneKeepsWork
  <1>3. CASE NothingSelected \/ DefaultUndefined \/ SetPlatformFails
    BY <1>3 DEF NothingSelected, DefaultUndefined, SetPlatformFails, Leave, WorkInv
  <1>4. CASE ChooseDefault \/ ConsiderPlatform
    BY <1>4 DEF ChooseDefault, ConsiderPlatform, WorkInv
  <1>5. CASE ReportDistribution
    <2>1. /\ pc = "layers" /\ pc' = "placed" /\ i > Len(net)
          /\ UNCHANGED <<platforms, net, i, fallback, performance, function,
                         performanceDifficulty, fallbackDifficulty>>
      BY <1>5 DEF ReportDistribution, arguments
    <2>2. \A p : WorkOn(p)' = WorkOn(p)
      BY <2>1 DEF WorkOn
    <2>3. \A l : Difficult(l)' <=> Difficult(l)
      BY <2>1 DEF Difficult, averageDifficulty, totalDifficulty
    <2>4. i = Len(net) + 1
      BY <2>1, Layers DEF WorkInv, IInv
    <2> QED BY <2>1, <2>2, <2>3, <2>4 DEF WorkInv
  <1>6. CASE UNCHANGED vars
    BY <1>6 DEF vars, arguments, WorkInv, WorkOn, Difficult, averageDifficulty, totalDifficulty
  <1> QED BY <1>1, <1>2, <1>3, <1>4, <1>5, <1>6 DEF Next

LEMMA WorkInvariance == Spec => [](IInv /\ WorkInv)
  <1>1. Init => WorkInv
    BY DEF Init, WorkInv
  <1> QED BY <1>1, WorkStep, Invariance, PTL DEF Spec

(* The default platform always has something to do, and the other one only *)
(* stays idle when no layer is more difficult than the rest: not all       *)
(* layers can be above their average, and with none above it all are at it.*)
THEOREM BothWork == Spec => []BothPlatformsWork
  <1>1. IInv /\ WorkInv => BothPlatformsWork
    <2> SUFFICES ASSUME IInv, WorkInv, pc = "placed"
                 PROVE  /\ fallback \in ToSet(function)
                        /\ performance \notin ToSet(function)
                             => \A l, m \in DOMAIN net : net[l] = net[m]
      BY DEF BothPlatformsWork
    <2> DEFINE n == Len(net)
               a == averageDifficulty
    <2>1. net \in Seq(Nat) /\ DOMAIN net = 1..n /\ n \in Nat \ {0} /\ \A l \in 1..n : net[l] \in Nat
      BY Layers DEF IInv
    <2>2. /\ DOMAIN function = 1..n
          /\ \A l \in 1..n : function[l] = IF Difficult(l) THEN performance ELSE fallback
      BY <2>1, LayersPlaced DEF WorkInv, IInv
    <2>3. \A l \in 1..n : Difficult(l) <=> net[l] > a
      BY DEF Difficult
    <2>4. Total(net) \in Nat /\ a \in Nat /\ a * n <= Total(net) /\ Total(net) < (a + 1) * n
      <3>2. Total(net) \in Nat
        BY <2>1, TotalNat
      <3> DEFINE t == Total(net)
      <3>3. a = t \div n
        BY DEF averageDifficulty, totalDifficulty
      <3> HIDE DEF t, a, n
      <3>4. t \in Nat /\ n \in Nat \ {0}
        BY <2>1, <3>2 DEF t
      <3>5. a \in Nat /\ t % n \in Nat /\ t % n < n /\ t = n * a + (t % n)
        BY <3>3, <3>4
      <3>6. a * n = n * a /\ (a + 1) * n = n * a + n /\ n * a \in Nat
        BY <3>4, <3>5
      <3> QED BY <3>4, <3>5, <3>6 DEF t
    <2> HIDE DEF a, n
    <2>5. fallback \in ToSet(function)
      <3>1. \E l \in 1..n : ~ (net[l] > a)
        <4> SUFFICES ASSUME \A l \in 1..n : net[l] > a PROVE FALSE
          OBVIOUS
        <4>1. \A l \in 1..Len(net) : a + 1 <= net[l]
          BY <2>1, <2>4 DEF n
        <4>2. (a + 1) * Len(net) <= Total(net)
          BY <2>1, <2>4, <4>1, TotalAtLeast
        <4>3. (a + 1) * n \in Nat
          BY <2>1, <2>4
        <4> QED BY <2>4, <4>2, <4>3 DEF n
      <3> QED BY <2>2, <2>3, <3>1 DEF ToSet
    <2>6. ASSUME performance \notin ToSet(function) PROVE \A l \in 1..n : net[l] = a
      <3>1. \A l \in 1..n : ~ Difficult(l)
        BY <2>2, <2>6 DEF ToSet
      <3>2. \A l \in 1..Len(net) : net[l] <= a
        BY <2>1, <2>3, <2>4, <3>1 DEF n
      <3>3. ASSUME NEW l \in 1..Len(net), net[l] < a PROVE FALSE
        <4>1. Total(net) < a * Len(net)
          BY <2>1, <2>4, <3>2, <3>3, TotalBelow
        <4>2. a * n \in Nat
          BY <2>1, <2>4
        <4> QED BY <2>4, <4>1, <4>2 DEF n
      <3> QED BY <2>1, <2>4, <3>2, <3>3 DEF n
    <2> QED BY <2>1, <2>5, <2>6
  <1> QED BY <1>1, WorkInvariance, PTL

-----------------------------------------------------------------------------
(* A sequence without its element at k. *)
LEMMA Removed ==
  ASSUME NEW S, NEW s \in Seq(S), NEW k \in 1..Len(s)
  PROVE  /\ RemoveAt(s, k) \in Seq(S) /\ Len(RemoveAt(s, k)) = Len(s) - 1
         /\ \A j \in 1..(Len(s) - 1) : RemoveAt(s, k)[j] = IF j < k THEN s[j] ELSE s[j + 1]
  <1> DEFINE n == Len(s)
             a == SubSeq(s, 1, k - 1)
             b == SubSeq(s, k + 1, n)
  <1>1. n \in Nat /\ k \in Nat /\ 1 <= k /\ k <= n /\ \A j \in 1..n : s[j] \in S
    OBVIOUS
  <1>2. /\ a \in Seq(S) /\ Len(a) = k - 1
        /\ \A j \in 1..(k - 1) : a[j] = s[j]
    <2>1. \A j \in 1..(k - 1) : s[j] \in S
      BY <1>1
    <2>2. /\ a \in Seq(S) /\ Len(a) = IF 1 <= k - 1 THEN k - 1 - 1 + 1 ELSE 0
          /\ \A j \in 1..(k - 1 - 1 + 1) : a[j] = s[1 + j - 1]
      BY <1>1, <2>1, SubSeqProperties
    <2> HIDE DEF a
    <2> QED BY <1>1, <2>2
  <1>3. /\ b \in Seq(S) /\ Len(b) = n - k
        /\ \A j \in 1..(n - k) : b[j] = s[k + j]
    <2>1. \A j \in (k + 1)..n : s[j] \in S
      BY <1>1
    <2>2. /\ b \in Seq(S) /\ Len(b) = IF k + 1 <= n THEN n - (k + 1) + 1 ELSE 0
          /\ \A j \in 1..(n - (k + 1) + 1) : b[j] = s[k + 1 + j - 1]
      BY <1>1, <2>1, SubSeqProperties
    <2> HIDE DEF b
    <2> QED BY <1>1, <2>2
  <1>4. RemoveAt(s, k) = a \o b
    BY DEF RemoveAt
  <1> HIDE DEF a, b, n
  <1>5. /\ a \o b \in Seq(S) /\ Len(a \o b) = n - 1
        /\ \A j \in 1..(n - 1) :
             (a \o b)[j] = IF j <= k - 1 THEN a[j] ELSE b[j - (k - 1)]
    <2>1. /\ a \o b \in Seq(S) /\ Len(a \o b) = Len(a) + Len(b)
          /\ \A j \in 1..(Len(a) + Len(b)) :
               (a \o b)[j] = IF j <= Len(a) THEN a[j] ELSE b[j - Len(a)]
      BY <1>2, <1>3, ConcatProperties
    <2>2. Len(a) + Len(b) = n - 1
      BY <1>1, <1>2, <1>3
    <2> QED BY <1>2, <2>1, <2>2
  <1>6. ASSUME NEW j \in 1..(n - 1) PROVE (a \o b)[j] = IF j < k THEN s[j] ELSE s[j + 1]
    <2>0. j \in Int /\ 1 <= j /\ j <= n - 1
      BY <1>1
    <2>1. CASE j < k
      <3>1. j <= k - 1 /\ j \in 1..(k - 1)
        BY <1>1, <2>0, <2>1
      <3>2. (a \o b)[j] = a[j]
        BY <1>5, <3>1
      <3> QED BY <1>2, <2>1, <3>1, <3>2
    <2>2. CASE ~ (j < k)
      <3>0. ~ (j <= k - 1)
        BY <1>1, <2>0, <2>2
      <3>1. (a \o b)[j] = b[j - (k - 1)]
        BY <1>5, <3>0
      <3>2. j - (k - 1) \in 1..(n - k) /\ k + (j - (k - 1)) = j + 1
        BY <1>1, <2>0, <2>2
      <3> QED BY <1>3, <2>2, <3>1, <3>2
    <2> QED BY <2>1, <2>2
  <1> QED BY <1>4, <1>5, <1>6 DEF n

(* The platforms that are neither the default nor the best. *)
LEMMA OthersListed ==
  ASSUME TypeOK, pc \in {"platforms", "layers", "placed"}
  PROVE  /\ UnusedPlatforms \in Seq(DOMAIN platforms)
         /\ Len(UnusedPlatforms) =
              Len(platforms) - (IF fallback = performance THEN 1 ELSE 2)
         /\ \A p \in DOMAIN platforms \ {fallback, performance} :
              \E j \in DOMAIN UnusedPlatforms : UnusedPlatforms[j] = p
  <1> DEFINE n == Len(platforms)
             all == [p \in DOMAIN platforms |-> p]
             first == IF fallback < performance THEN fallback ELSE performance
             last == IF fallback < performance THEN performance ELSE fallback
             others == RemoveAt(all, last)
             rest == RemoveAt(others, first)
  <1>1. DOMAIN platforms = 1..n /\ n \in Nat /\ fallback \in 1..n /\ performance \in 1..n
    BY Arguments DEF TypeOK
  <1>2. all \in Seq(1..n) /\ Len(all) = n /\ \A j \in 1..n : all[j] = j
    BY <1>1
  <1>3. UnusedPlatforms = IF first = last THEN others ELSE rest
    BY DEF UnusedPlatforms
  <1>4. /\ first \in 1..n /\ last \in 1..n /\ first <= last
        /\ {first, last} = {fallback, performance}
        /\ first = last <=> fallback = performance
    BY <1>1
  <1> HIDE DEF n, all, first, last
  <1>5. /\ others \in Seq(1..n) /\ Len(others) = n - 1
        /\ \A j \in 1..(n - 1) : others[j] = IF j < last THEN j ELSE j + 1
    <2>1. /\ others \in Seq(1..n) /\ Len(others) = Len(all) - 1
          /\ \A j \in 1..(Len(all) - 1) : others[j] = IF j < last THEN all[j] ELSE all[j + 1]
      BY <1>2, <1>4, Removed
    <2>2. \A j \in 1..(n - 1) : j \in 1..n /\ j + 1 \in 1..n
      BY <1>1
    <2> HIDE DEF others
    <2> QED BY <1>2, <2>1, <2>2
  <1> HIDE DEF others
  <1>6. CASE first = last
    <2>1. ASSUME NEW p \in (1..n) \ {last}
          PROVE  \E j \in 1..(n - 1) : others[j] = p
      <3>1. CASE p < last
        BY <1>1, <1>4, <1>5, <3>1
      <3>2. CASE p > last
        <4>1. p - 1 \in 1..(n - 1) /\ ~ (p - 1 < last) /\ p - 1 + 1 = p
          BY <1>1, <1>4, <3>2
        <4> QED BY <1>5, <4>1
      <3> QED BY <1>4, <3>1, <3>2
    <2>2. DOMAIN others = 1..(n - 1)
      BY <1>1, <1>5
    <2> QED BY <1>1, <1>3, <1>4, <1>5, <1>6, <2>1, <2>2 DEF n
  <1>7. CASE first # last
    <2>1. first \in 1..(n - 1)
      BY <1>1, <1>4, <1>7
    <2>2. /\ rest \in Seq(1..n) /\ Len(rest) = n - 2
          /\ \A j \in 1..(n - 2) : rest[j] = IF j < first THEN others[j] ELSE others[j + 1]
      <3>1. /\ rest \in Seq(1..n) /\ Len(rest) = Len(others) - 1
            /\ \A j \in 1..(Len(others) - 1) : rest[j] = IF j < first THEN others[j] ELSE others[j + 1]
        BY <1>5, <2>1, Removed
      <3> HIDE DEF rest
      <3> QED BY <1>1, <1>5, <3>1
    <2> HIDE DEF rest
    <2>3. ASSUME NEW p \in (1..n) \ {first, last}
          PROVE  \E j \in 1..(n - 2) : rest[j] = p
      <3>1. CASE p < first
        <4>1. p \in 1..(n - 2) /\ p \in 1..(n - 1) /\ p < last
          BY <1>1, <1>4, <2>1, <3>1, <1>7
        <4> QED BY <1>5, <2>2, <3>1, <4>1
      <3>2. CASE p > first /\ p < last
        <4>1. /\ p - 1 \in 1..(n - 2) /\ p \in 1..(n - 1) /\ ~ (p - 1 < first) /\ p - 1 + 1 = p
          BY <1>1, <1>4, <3>2
        <4> QED BY <1>5, <2>2, <3>2, <4>1
      <3>3. CASE p > last
        <4>1. /\ p - 2 \in 1..(n - 2) /\ p - 1 \in 1..(n - 1) /\ ~ (p - 2 < first)
              /\ p - 2 + 1 = p - 1 /\ ~ (p - 1 < last) /\ p - 1 + 1 = p
          BY <1>1, <1>4, <1>7, <3>3
        <4> QED BY <1>5, <2>2, <4>1
      <3> QED BY <1>1, <1>4, <3>1, <3>2, <3>3
    <2>4. DOMAIN rest = 1..(n - 2)
      <3>1. n - 2 \in Nat
        BY <1>1, <2>1
      <3> QED BY <2>2, <3>1
    <2> QED BY <1>1, <1>3, <1>4, <1>7, <2>2, <2>3, <2>4 DEF n
  <1> QED BY <1>6, <1>7

(* The report is about the work placed: of the platforms where they        *)
(* differ, and of the only one where they do not.                          *)
LEMMA ReportIsWork ==
  ASSUME IInv, WorkInv, ReportDistribution
  PROVE  /\ Len(compDistribution') = Len(platforms)
         /\ DOMAIN compDistribution' = 1..Len(platforms)
         /\ \A p \in DOMAIN platforms : \E j \in DOMAIN compDistribution' :
              compDistribution'[j] = Share(p, WorkOn(p))
  <1> DEFINE used == UsedShares
             idle == [j \in DOMAIN UnusedPlatforms |-> Share(UnusedPlatforms[j], 0)]
             n == Len(platforms)
             u == IF fallback = performance THEN 1 ELSE 2
             m == Len(UnusedPlatforms)
  <1>1. /\ pc = "layers" /\ i > Len(net) /\ compDistribution' = used \o idle
        /\ TypeOK /\ fallback \in DOMAIN platforms /\ performance \in DOMAIN platforms
    BY DEF ReportDistribution, IInv, TypeOK
  <1>2. /\ UnusedPlatforms \in Seq(DOMAIN platforms) /\ m = n - u
        /\ \A p \in DOMAIN platforms \ {fallback, performance} :
             \E j \in DOMAIN UnusedPlatforms : UnusedPlatforms[j] = p
    BY <1>1, OthersListed
  <1>3. n \in Nat /\ m \in Nat /\ DOMAIN UnusedPlatforms = 1..m
    <2>1. n \in Nat
      BY <1>1, Arguments
    <2> QED BY <1>2, <2>1
  <1>4. DOMAIN function = DOMAIN net /\ DOMAIN function = 1..(i - 1) /\ i - 1 \in Nat
    BY <1>1, Layers, LayersPlaced
  <1>5. /\ \A l \in DOMAIN function :
             function[l] = IF Difficult(l) THEN performance ELSE fallback
        /\ fallback # performance =>
             performanceDifficulty = WorkOn(performance) /\ fallbackDifficulty = WorkOn(fallback)
    BY <1>1 DEF WorkInv
  <1>6. \A p : p \notin {fallback, performance} => WorkOn(p) = 0
    <2> SUFFICES ASSUME NEW p, p \notin {fallback, performance} PROVE WorkOn(p) = 0
      OBVIOUS
    <2>1. \A l \in DOMAIN function : function[l] # p
      BY <1>5
    <2> QED BY <1>4, <2>1, NoWork
  <1>7. fallback = performance => WorkOn(performance) = totalDifficulty
    <2> SUFFICES ASSUME fallback = performance PROVE WorkOn(performance) = totalDifficulty
      OBVIOUS
    <2>1. \A l \in DOMAIN net : function[l] = performance
      BY <1>4, <1>5
    <2>2. [l \in DOMAIN function |-> IF function[l] = performance THEN net[l] ELSE 0]
            = [l \in DOMAIN net |-> net[l]]
      BY <1>4, <2>1
    <2>3. net = [l \in DOMAIN net |-> net[l]]
      <3>1. net \in Seq(Nat)
        BY <1>1, Layers
      <3> QED BY <3>1
    <2> QED BY <2>2, <2>3 DEF WorkOn, totalDifficulty
  <1>8. /\ used \in Seq({Share(fallback, WorkOn(fallback)), Share(performance, WorkOn(performance))})
        /\ Len(used) = u
        /\ \A p \in {fallback, performance} : \E j \in 1..u : used[j] = Share(p, WorkOn(p))
    <2>1. CASE fallback = performance
      BY <1>7, <2>1 DEF UsedShares
    <2>2. CASE fallback # performance
      <3>1. used = <<Share(performance, WorkOn(performance)), Share(fallback, WorkOn(fallback))>>
        BY <1>5, <2>2 DEF UsedShares
      <3> QED BY <2>2, <3>1
    <2> QED BY <2>1, <2>2
  <1> DEFINE Shares == {Share(fallback, WorkOn(fallback)), Share(performance, WorkOn(performance))}
                         \cup {Share(p, 0) : p \in DOMAIN platforms}
  <1>9. /\ idle \in Seq(Shares) /\ Len(idle) = m
        /\ \A j \in 1..m : idle[j] = Share(UnusedPlatforms[j], 0)
    <2>1. \A j \in 1..m : UnusedPlatforms[j] \in DOMAIN platforms
      BY <1>2, <1>3
    <2>2. idle \in [1..m -> Shares]
      BY <1>3, <2>1
    <2> QED BY <1>3, <2>2
  <1>10. used \in Seq(Shares)
    BY <1>8
  <1>11. u \in {1, 2}
    OBVIOUS
  <1> HIDE DEF used, idle, Shares, n, m, u
  <1>12. /\ Len(used \o idle) = u + m /\ DOMAIN (used \o idle) = 1..(u + m)
         /\ \A j \in 1..u : (used \o idle)[j] = used[j]
         /\ \A j \in 1..m : (used \o idle)[u + j] = idle[j]
    BY <1>3, <1>8, <1>9, <1>10, <1>11
  <1>13. ASSUME NEW p \in DOMAIN platforms
         PROVE  \E j \in 1..(u + m) : (used \o idle)[j] = Share(p, WorkOn(p))
    <2>1. CASE p \in {fallback, performance}
      <3>1. PICK j \in 1..u : used[j] = Share(p, WorkOn(p))
        BY <1>8, <2>1
      <3>2. j \in 1..(u + m)
        BY <1>3, <1>11
      <3> QED BY <1>12, <3>1, <3>2
    <2>2. CASE p \notin {fallback, performance}
      <3>1. PICK j \in 1..m : UnusedPlatforms[j] = p
        BY <1>2, <1>3, <2>2
      <3>2. idle[j] = Share(p, WorkOn(p))
        BY <1>6, <1>9, <2>2, <3>1
      <3>3. u + j \in 1..(u + m)
        BY <1>3, <1>11
      <3> QED BY <1>12, <3>2, <3>3
    <2> QED BY <2>1, <2>2
  <1>14. u + m = n
    BY <1>2, <1>3, <1>11
  <1>15. Len(compDistribution') = n /\ DOMAIN compDistribution' = 1..(u + m)
    BY <1>1, <1>12, <1>14
  <1> QED BY <1>1, <1>13, <1>14, <1>15 DEF n

(* The distribution shown to the user is the work placed on each platform, *)
(* and lists every selected platform once.                                 *)
THEOREM ReportIsRight == Spec => []DistributionIsWorkPlaced
  <1>1. Init => DistributionIsWorkPlaced
    BY DEF Init, DistributionIsWorkPlaced
  <1>2. IInv /\ WorkInv /\ DistributionIsWorkPlaced /\ [Next]_vars => DistributionIsWorkPlaced'
    <2> SUFFICES ASSUME IInv, WorkInv, DistributionIsWorkPlaced, [Next]_vars
                 PROVE  DistributionIsWorkPlaced'
      OBVIOUS
    <2>1. WorkInv'
      BY WorkStep
    <2>2. CASE ReportDistribution
      <3>1. /\ pc' = "placed" /\ UNCHANGED <<platforms, net, function>>
        BY <2>2 DEF ReportDistribution, arguments
      <3>2. \A p : WorkOn(p)' = WorkOn(p) /\ Share(p, WorkOn(p))' = Share(p, WorkOn(p))
        BY <3>1 DEF WorkOn, Share
      <3> QED BY <2>2, <3>1, <3>2, ReportIsWork DEF DistributionIsWorkPlaced
    <2>3. CASE UNCHANGED vars
      <3>1. \A p : WorkOn(p)' = WorkOn(p)
        BY <2>3 DEF WorkOn, vars, arguments
      <3> QED BY <2>3, <3>1 DEF DistributionIsWorkPlaced, Share, vars, arguments
    <2>4. CASE Next /\ ~ ReportDistribution
      <3>1. pc' # "placed"
        BY <2>4 DEF Next, NothingSelected, DefaultUndefined, Leave, ChooseDefault, ConsiderPlatform,
           PlatformsDone, PlaceLayer, SetPlatformFails
      <3> QED BY <2>1, <3>1 DEF WorkInv, DistributionIsWorkPlaced
    <2> QED BY <2>2, <2>3, <2>4
  <1> QED BY <1>1, <1>2, WorkInvariance, PTL DEF Spec

-----------------------------------------------------------------------------
(* What Executor assumes of the placer.  The first n layers, placed on two *)
(* of the selected platforms as Executor's Placed says.                    *)
FirstLayers(n, p, f) == [l \in 1..n |-> IF Difficult(l) THEN p ELSE f]

Listed == {compDistribution[j].platform : j \in DOMAIN compDistribution}

LEMMA FirstLayersPlaced ==
  ASSUME IInv, WorkInv, pc \in {"layers", "placed"}
  PROVE  function = FirstLayers(i - 1, performance, fallback)
         /\ performance \in DOMAIN platforms /\ fallback \in DOMAIN platforms
  <1>1. TypeOK /\ function \in Seq(DOMAIN platforms)
    BY DEF IInv, WorkInv
  <1>2. DOMAIN function = 1..(i - 1)
    BY <1>1, LayersPlaced
  <1>3. \A l \in DOMAIN function : function[l] = IF Difficult(l) THEN performance ELSE fallback
    BY DEF WorkInv
  <1>4. function = [l \in DOMAIN function |-> function[l]]
    BY <1>1
  <1> QED BY <1>1, <1>2, <1>3, <1>4 DEF FirstLayers, TypeOK

PlacesInv == pc = "placed" => DOMAIN compDistribution = 1..Len(platforms)

LEMMA PlacesStep == IInv /\ WorkInv /\ PlacesInv /\ [Next]_vars => PlacesInv'
  <1> SUFFICES ASSUME IInv, WorkInv, PlacesInv, [Next]_vars PROVE PlacesInv'
    OBVIOUS
  <1>1. CASE ReportDistribution
    <2>1. UNCHANGED platforms
      BY <1>1 DEF ReportDistribution, arguments
    <2> QED BY <1>1, <2>1, ReportIsWork DEF PlacesInv
  <1>2. CASE UNCHANGED vars
    BY <1>2 DEF vars, arguments, PlacesInv
  <1>3. CASE Next /\ ~ ReportDistribution
    <2>1. pc' # "placed"
      BY <1>3 DEF Next, NothingSelected, DefaultUndefined, Leave, ChooseDefault, ConsiderPlatform,
         PlatformsDone, PlaceLayer, SetPlatformFails
    <2> QED BY <2>1 DEF PlacesInv
  <1> QED BY <1>1, <1>2, <1>3

(* Every place of the distribution is taken by a selected platform.        *)
LEMMA AllAreListed ==
  ASSUME IInv, PlacesInv, DistributionIsWorkPlaced, pc = "placed"
  PROVE  Listed = DOMAIN platforms
  <1> DEFINE n == Len(platforms)
             g == [p \in 1..n |->
                     CHOOSE j \in DOMAIN compDistribution : compDistribution[j] = Share(p, WorkOn(p))]
  <1>1. n \in Nat /\ DOMAIN platforms = 1..n
    BY PlatformPlacerAssumption DEF IInv, TypeOK
  <1>2. /\ Len(compDistribution) = n
        /\ \A p \in 1..n : \E j \in DOMAIN compDistribution : compDistribution[j] = Share(p, WorkOn(p))
    BY <1>1 DEF DistributionIsWorkPlaced
  <1>3. \A p \in 1..n : g[p] \in DOMAIN compDistribution
                         /\ compDistribution[g[p]] = Share(p, WorkOn(p))
    BY <1>2
  <1>4. \A p \in 1..n : compDistribution[g[p]].platform = p
    BY <1>3 DEF Share
  <1>5. g \in [1..n -> DOMAIN compDistribution]
    BY <1>3
  <1> HIDE DEF g, n
  <1>6. Listed \subseteq 1..n
    <2> SUFFICES ASSUME NEW j \in DOMAIN compDistribution
                 PROVE  compDistribution[j].platform \in 1..n
      BY DEF Listed
    <2>1. DOMAIN compDistribution = 1..n
      BY DEF PlacesInv, n
    <2>2. IsFiniteSet(1..n)
      BY <1>1, FS_Interval
    <2>3. g \in Injection(1..n, 1..n)
      <3>1. g \in [1..n -> 1..n]
        BY <1>5, <2>1
      <3>2. \A p, q \in 1..n : g[p] = g[q] => p = q
        BY <1>4
      <3> QED BY <1>5, <3>1, <3>2 DEF Injection, IsInjective
    <2>4. g \in Surjection(1..n, 1..n)
      BY <2>2, <2>3, FS_Injection
    <2>5. PICK p \in 1..n : g[p] = j
      BY <2>1, <2>4 DEF Surjection
    <2> QED BY <1>4, <2>5
  <1>7. 1..n \subseteq Listed
    BY <1>3, <1>4 DEF Listed
  <1> QED BY <1>1, <1>6, <1>7

(* Executor lets the placer place all layers, list the selected platforms  *)
(* and return, or throw after the layers before some layer: nothing else   *)
(* comes of placeComputations when a platform is selected, whatever the    *)
(* difficulties and the platforms are.                                     *)
THEOREM PlacesAsExecutorAssumes ==
  Spec => [](/\ pc = "placed" =>
                  /\ \E p, f \in DOMAIN platforms : function = FirstLayers(Len(net), p, f)
                  /\ Listed = DOMAIN platforms
             /\ pc = "thrown" /\ platforms # <<>> =>
                  /\ \E p, f \in DOMAIN platforms, l \in DOMAIN net : function = FirstLayers(l - 1, p, f)
                  /\ Listed = {})
  <1> DEFINE split == \E p, f \in DOMAIN platforms, l \in DOMAIN net : function = FirstLayers(l - 1, p, f)
             Split == pc = "thrown" /\ platforms # <<>> => split
  <1>1. Init => Split
    BY DEF Init
  <1>2. IInv /\ WorkInv /\ Split /\ [Next]_vars => Split'
    <2> SUFFICES ASSUME IInv, WorkInv, Split, [Next]_vars, pc' = "thrown", platforms' # <<>>
                 PROVE  split'
      OBVIOUS
    <2>1. \A l : Difficult(l)' <=> Difficult(l)
      BY DEF Next, NothingSelected, DefaultUndefined, Leave, ChooseDefault, ConsiderPlatform,
         PlatformsDone, PlaceLayer, SetPlatformFails, ReportDistribution, vars, arguments,
         Difficult, averageDifficulty, totalDifficulty
    <2>2. \A m, p, f : FirstLayers(m, p, f)' = FirstLayers(m, p, f)
      BY <2>1 DEF FirstLayers
    <2>3. CASE SetPlatformFails
      <3>1. pc = "layers" /\ i <= Len(net) /\ UNCHANGED <<platforms, net, function>>
        BY <2>3 DEF SetPlatformFails, Leave, arguments
      <3>2. i \in DOMAIN net /\ function = FirstLayers(i - 1, performance, fallback)
            /\ performance \in DOMAIN platforms /\ fallback \in DOMAIN platforms
        BY <3>1, FirstLayersPlaced, Layers DEF IInv
      <3>3. FirstLayers(i - 1, performance, fallback)' = FirstLayers(i - 1, performance, fallback)'
        OBVIOUS
      <3> QED BY <2>2, <3>1, <3>2
    <2>4. CASE UNCHANGED vars
      <3>1. pc = "thrown" /\ UNCHANGED <<platforms, net, function>>
        BY <2>4 DEF vars, arguments
      <3> QED BY <2>2, <3>1
    <2> QED BY <2>3, <2>4 DEF Next, NothingSelected, DefaultUndefined, Leave, ChooseDefault,
        ConsiderPlatform, PlatformsDone, PlaceLayer, ReportDistribution, arguments
  <1>3. ASSUME IInv, WorkInv, PlacesInv, DistributionIsWorkPlaced, Split
        PROVE  /\ pc = "placed" =>
                    /\ \E p, f \in DOMAIN platforms : function = FirstLayers(Len(net), p, f)
                    /\ Listed = DOMAIN platforms
               /\ pc = "thrown" /\ platforms # <<>> => split /\ Listed = {}
    <2>1. ASSUME pc = "placed"
          PROVE  \E p, f \in DOMAIN platforms : function = FirstLayers(Len(net), p, f)
      <3>1. i - 1 = Len(net)
        BY <1>3, <2>1, Layers DEF WorkInv, IInv
      <3> QED BY <1>3, <2>1, <3>1, FirstLayersPlaced
    <2>2. ASSUME pc = "thrown" PROVE Listed = {}
      BY <1>3, <2>2 DEF WorkInv, Listed
    <2> QED BY <1>3, <2>1, <2>2, AllAreListed
  <1> HIDE DEF Split
  <1>4. Spec => []Split
    BY <1>1, <1>2, WorkInvariance, PTL DEF Spec
  <1>5. Spec => []PlacesInv
    <2>1. Init => PlacesInv
      BY DEF Init, PlacesInv
    <2> QED BY <2>1, PlacesStep, WorkInvariance, PTL DEF Spec
  <1> QED BY <1>3, <1>4, <1>5, WorkInvariance, ReportIsRight, PTL

-----------------------------------------------------------------------------
(* Division of natural numbers. *)
LEMMA Divides ==
  ASSUME NEW a \in Nat, NEW n \in Nat \ {0}
  PROVE  a \div n \in Nat /\ a % n \in 0..(n - 1) /\ a = (a \div n) * n + (a % n)
OBVIOUS

LEMMA ProductGrows ==
  ASSUME NEW a \in Nat, NEW b \in Nat, NEW c \in Nat, a <= b
  PROVE  a * c \in Nat /\ b * c \in Nat /\ a * c <= b * c
OBVIOUS

LEMMA ProductIsPositive ==
  ASSUME NEW a \in Nat \ {0}, NEW b \in Nat \ {0}
  PROVE  a * b \in Nat \ {0}
OBVIOUS

LEMMA QuotientIs ==
  ASSUME NEW q \in Nat, NEW n \in Nat \ {0}, NEW r \in 0..(n - 1)
  PROVE  q * n + r \in Nat /\ (q * n + r) \div n = q /\ (q * n + r) % n = r
OBVIOUS

(* Numbers below n * m are pairs of a number below n and one below m. *)
LEMMA QuotientBelow ==
  ASSUME NEW m \in Nat, NEW n \in Nat \ {0}, NEW a \in 0..(m * n - 1)
  PROVE  a \div n \in 0..(m - 1)
  <1>1. a \in Nat /\ a < m * n /\ m * n \in Nat
    OBVIOUS
  <1>2. a \div n \in Nat /\ a >= (a \div n) * n
    BY <1>1, Divides
  <1>3. ASSUME m <= a \div n PROVE FALSE
    <2>1. m * n <= (a \div n) * n
      BY <1>2, <1>3, ProductGrows
    <2> QED BY <1>1, <1>2, <2>1
  <1> QED BY <1>2, <1>3

LEMMA PairBelow ==
  ASSUME NEW m \in Nat, NEW n \in Nat \ {0}, NEW q \in 0..(m - 1), NEW r \in 0..(n - 1)
  PROVE  q * n + r \in 0..(m * n - 1)
  <1>1. (q + 1) * n <= m * n /\ (q + 1) * n = q * n + n /\ q * n \in Nat /\ m * n \in Nat
    BY ProductGrows
  <1> QED BY <1>1

LEMMA PairIs ==
  ASSUME NEW m \in Nat, NEW n \in Nat \ {0}, NEW q \in 0..(m - 1), NEW r \in 0..(n - 1)
  PROVE  q * n + r \in 0..(m * n - 1) /\ (q * n + r) \div n = q /\ (q * n + r) % n = r
  <1>1. q * n + r \in 0..(m * n - 1)
    BY PairBelow
  <1>2. q \in Nat
    OBVIOUS
  <1> QED BY <1>1, <1>2, QuotientIs

LEMMA ExactQuotient ==
  ASSUME NEW a \in Nat \ {0}, NEW n \in Nat \ {0}, a % n = 0
  PROVE  a \div n \in Nat \ {0} /\ a = (a \div n) * n
  BY Divides

-----------------------------------------------------------------------------
(* The cells of a tile and the work-items.                                 *)
LEMMA CellsAreShared ==
  ASSUME layer \in LayerSet, layer.platform # "CPU"
  PROVE  /\ \A item \in Items : /\ Len(CellsOf(item)) \in Nat \ {0}
                                /\ DOMAIN CellsOf(item) = 1..Len(CellsOf(item))
                                /\ \A w \in DOMAIN CellsOf(item) : CellsOf(item)[w] \in Cells
         /\ \A cell \in Cells : \E item \in Items : \E w \in DOMAIN CellsOf(item) : CellsOf(item)[w] = cell
  <1>1. TS \in Nat \ {0} /\ WPT \in Nat \ {0} /\ WIDTH \in Nat \ {0} /\ TS % WPT = 0 /\ TS % WIDTH = 0
    BY TSAssumption, LayersAssumption DEF TSAssumption, LayersAssumption
  <1>2. CASE layer.platform = "CL"
    <2> DEFINE R == TS \div WPT
    <2>1. R \in Nat \ {0} /\ TS = R * WPT
      BY <1>1, ExactQuotient
    <2>2. Items = (0..(TS - 1)) \X (0..(R - 1))
      BY <1>2 DEF Items
    <2>3. \A item : CellsOf(item) = [w \in 1..WPT |-> <<item[2] + (w - 1) * R, item[1]>>]
      BY <1>2 DEF CellsOf
    <2> HIDE DEF R
    <2>4. ASSUME NEW item \in Items
          PROVE  /\ Len(CellsOf(item)) \in Nat \ {0}
                 /\ DOMAIN CellsOf(item) = 1..Len(CellsOf(item))
                 /\ \A w \in DOMAIN CellsOf(item) : CellsOf(item)[w] \in Cells
      <3>1. DOMAIN CellsOf(item) = 1..WPT /\ Len(CellsOf(item)) = WPT
        BY <1>1, <2>3
      <3>2. item[1] \in 0..(TS - 1) /\ item[2] \in 0..(R - 1)
        BY <2>2
      <3>3. ASSUME NEW w \in 1..WPT PROVE CellsOf(item)[w] \in Cells
        <4>1. (w - 1) * R + item[2] \in 0..(WPT * R - 1)
          BY <1>1, <2>1, <3>2, PairBelow
        <4>2. CellsOf(item)[w] = <<item[2] + (w - 1) * R, item[1]>>
          BY <2>3
        <4>3. WPT * R = TS /\ item[2] + (w - 1) * R = (w - 1) * R + item[2]
          BY <1>1, <2>1, <3>2
        <4> QED BY <3>2, <4>1, <4>2, <4>3 DEF Cells
      <3> QED BY <1>1, <3>1, <3>3
    <2>5. ASSUME NEW cell \in Cells
          PROVE  \E item \in Items : \E w \in DOMAIN CellsOf(item) : CellsOf(item)[w] = cell
      <3>1. PICK c \in 0..(TS - 1), r \in 0..(TS - 1) : cell = <<c, r>>
        BY DEF Cells
      <3> DEFINE q == c \div R
                 s == c % R
      <3>2. q \in Nat /\ s \in 0..(R - 1) /\ c = q * R + s
        <4>1. c \in Nat
          BY <1>1
        <4> QED BY <2>1, <4>1, Divides
      <3>3. q \in 0..(WPT - 1)
        <4>1. c \in 0..(WPT * R - 1)
          BY <1>1, <2>1
        <4> QED BY <1>1, <2>1, <4>1, QuotientBelow
      <3> HIDE DEF q, s
      <3>4. <<r, s>> \in Items /\ q + 1 \in 1..WPT
        BY <1>1, <2>2, <3>2, <3>3
      <3>5. CellsOf(<<r, s>>)[q + 1] = <<s + q * R, r>> /\ q + 1 \in DOMAIN CellsOf(<<r, s>>)
        <4>1. (q + 1) - 1 = q
          BY <3>2
        <4>2. CellsOf(<<r, s>>) = [w \in 1..WPT |-> <<s + (w - 1) * R, r>>]
          BY <2>3
        <4> QED BY <3>4, <4>1, <4>2
      <3>6. s + q * R = c
        BY <2>1, <3>2
      <3> QED BY <3>1, <3>4, <3>5, <3>6
    <2> QED BY <2>4, <2>5
  <1>3. CASE layer.platform # "CL"
    <2> DEFINE R == TS \div WIDTH
    <2>1. R \in Nat \ {0} /\ TS = R * WIDTH
      BY <1>1, ExactQuotient
    <2>2. Items = (0..(R - 1)) \X (0..(TS - 1))
      BY <1>3 DEF Items
    <2>3. \A item : CellsOf(item) = [w \in 1..WIDTH |-> <<item[2], WIDTH * item[1] + w - 1>>]
      BY <1>3 DEF CellsOf
    <2> HIDE DEF R
    <2>4. ASSUME NEW item \in Items
          PROVE  /\ Len(CellsOf(item)) \in Nat \ {0}
                 /\ DOMAIN CellsOf(item) = 1..Len(CellsOf(item))
                 /\ \A w \in DOMAIN CellsOf(item) : CellsOf(item)[w] \in Cells
      <3>1. DOMAIN CellsOf(item) = 1..WIDTH /\ Len(CellsOf(item)) = WIDTH
        BY <1>1, <2>3
      <3>2. item[1] \in 0..(R - 1) /\ item[2] \in 0..(TS - 1)
        BY <2>2
      <3>3. ASSUME NEW w \in 1..WIDTH PROVE CellsOf(item)[w] \in Cells
        <4>1. w - 1 \in 0..(WIDTH - 1)
          BY <1>1
        <4>2. item[1] * WIDTH + (w - 1) \in 0..(R * WIDTH - 1)
          BY <1>1, <2>1, <3>2, <4>1, PairBelow
        <4>3. CellsOf(item)[w] = <<item[2], WIDTH * item[1] + w - 1>>
          BY <2>3
        <4>4. WIDTH * item[1] + w - 1 = item[1] * WIDTH + (w - 1)
          BY <1>1, <3>2
        <4> QED BY <2>1, <3>2, <4>2, <4>3, <4>4 DEF Cells
      <3> QED BY <1>1, <3>1, <3>3
    <2>5. ASSUME NEW cell \in Cells
          PROVE  \E item \in Items : \E w \in DOMAIN CellsOf(item) : CellsOf(item)[w] = cell
      <3>1. PICK c \in 0..(TS - 1), r \in 0..(TS - 1) : cell = <<c, r>>
        BY DEF Cells
      <3> DEFINE q == r \div WIDTH
                 s == r % WIDTH
      <3>2. q \in Nat /\ s \in 0..(WIDTH - 1) /\ r = q * WIDTH + s
        <4>1. r \in Nat
          BY <1>1
        <4> QED BY <1>1, <4>1, Divides
      <3>3. q \in 0..(R - 1)
        <4>1. r \in 0..(R * WIDTH - 1)
          BY <1>1, <2>1
        <4> QED BY <1>1, <2>1, <4>1, QuotientBelow
      <3> HIDE DEF q, s
      <3>4. <<q, c>> \in Items /\ s + 1 \in 1..WIDTH
        BY <1>1, <2>2, <3>2, <3>3
      <3>5. CellsOf(<<q, c>>)[s + 1] = <<c, WIDTH * q + (s + 1) - 1>> /\ s + 1 \in DOMAIN CellsOf(<<q, c>>)
        <4>1. CellsOf(<<q, c>>) = [w \in 1..WIDTH |-> <<c, WIDTH * q + w - 1>>]
          BY <2>3
        <4> QED BY <3>4, <4>1
      <3>6. WIDTH * q + (s + 1) - 1 = r
        BY <1>1, <3>2
      <3> QED BY <3>1, <3>4, <3>5, <3>6
    <2> QED BY <2>4, <2>5
  <1> QED BY <1>2, <1>3

-----------------------------------------------------------------------------
(* The tiles.                                                              *)

(* A cell of the local memory holds its number of the t-th tile. *)
Current(g, t, cell) ==
  /\ Asub[g][cell] = A[(TS * t + cell[1]) * M + TS * g[1] + cell[2]]
  /\ Bsub[g][cell] = B[(TS * g[2] + cell[1]) * K + TS * t + cell[2]]

Places == [pc : {"load", "compute", "store"}, tile : Nat, n : Nat \ {0}]
DeviceTypes ==
  /\ DOMAIN Asub = Groups /\ DOMAIN Bsub = Groups
  /\ \A g \in Groups : DOMAIN Asub[g] = Cells /\ DOMAIN Bsub[g] = Cells
  /\ at \in [Groups -> [Items -> Places]]

(* All items of a work-group are between the same barriers. *)
Together(g, p, t) == \A item \in Items : at[g][item].pc = p /\ at[g][item].tile = t
Loaded(g, t) ==
  \A item \in Items : \A w \in DOMAIN CellsOf(item) : w < at[g][item].n => Current(g, t, CellsOf(item)[w])

TileInv(g) ==
  \E t \in Nat : \/ Together(g, "load", t) /\ Loaded(g, t)
                 \/ Together(g, "compute", t) /\ \A cell \in Cells : Current(g, t, cell)
                 \/ Together(g, "store", t)

KernelInv ==
  stage = "kernel" =>
    /\ layer.platform # "CPU"
    /\ DeviceTypes
    /\ \A g \in Groups : TileInv(g)

LEMMA SameJob ==
  ASSUME UNCHANGED <<layer, outs>>
  PROVE  /\ ThisJob' = ThisJob /\ K' = K /\ M' = M /\ N' = N
         /\ Groups' = Groups /\ Items' = Items /\ Cells' = Cells
         /\ \A item : CellsOf(item)' = CellsOf(item)
  <1>1. ThisJob' = ThisJob
    BY DEF ThisJob, Job, Whole, InputSize
  <1>2. K' = K /\ M' = M /\ N' = N
    BY <1>1 DEF K, M, N, KSize, NSize
  <1> QED BY <1>1, <1>2 DEF Groups, Items, Cells, CellsOf

(* What a work-item does elsewhere leaves a tile alone. *)
LEMMA TileStays ==
  ASSUME NEW g \in Groups, TileInv(g), UNCHANGED <<layer, outs, A, B>>,
         at'[g] = at[g], Asub'[g] = Asub[g], Bsub'[g] = Bsub[g]
  PROVE  TileInv(g)'
  <1>1. /\ K' = K /\ M' = M /\ Items' = Items /\ Cells' = Cells
        /\ \A item : CellsOf(item)' = CellsOf(item)
    BY SameJob
  <1>2. \A t, cell : Current(g, t, cell)' <=> Current(g, t, cell)
    BY <1>1 DEF Current
  <1>3. \A p, t : Together(g, p, t)' <=> Together(g, p, t)
    BY <1>1 DEF Together
  <1>4. \A t : Loaded(g, t)' <=> Loaded(g, t)
    BY <1>1, <1>2 DEF Loaded
  <1> QED BY <1>1, <1>2, <1>3, <1>4 DEF TileInv

LEMMA LoadCellTiles ==
  ASSUME layer \in LayerSet, KernelInv, stage = "kernel", NEW g \in Groups, NEW item \in Items, LoadCell(g, item)
  PROVE  DeviceTypes' /\ TileInv(g)' /\ \A h \in Groups \ {g} : at'[h] = at[h] /\ Asub'[h] = Asub[h] /\ Bsub'[h] = Bsub[h]
  <1>0. KernelInv /\ stage = "kernel" => DeviceTypes /\ TileInv(g) /\ layer.platform # "CPU"
    BY DEF KernelInv
  <1>1. PICK n \in Nat \ {0}, t \in Nat : n = at[g][item].n /\ t = at[g][item].tile
    BY <1>0 DEF DeviceTypes, Places
  <1>2. PICK cell, a, b : /\ cell = CellsOf(item)[n]
                          /\ a = A[(TS * t + cell[1]) * M + TS * g[1] + cell[2]]
                          /\ b = B[(TS * g[2] + cell[1]) * K + TS * t + cell[2]]
    OBVIOUS
  <1>3. /\ at[g][item].pc = "load" /\ n <= Len(CellsOf(item))
        /\ Asub' = [Asub EXCEPT ![g][cell] = a] /\ Bsub' = [Bsub EXCEPT ![g][cell] = b]
        /\ at' = [at EXCEPT ![g][item].n = n + 1]
        /\ UNCHANGED <<stage, layer, outs, A, B>>
    BY <1>1, <1>2 DEF LoadCell, IsAt, StepOf
  <1>4. /\ K' = K /\ M' = M /\ Groups' = Groups /\ Items' = Items /\ Cells' = Cells
        /\ \A z : CellsOf(z)' = CellsOf(z)
    BY <1>3, SameJob
  <1>5. n \in DOMAIN CellsOf(item) /\ cell \in Cells
    <2>1. n \in DOMAIN CellsOf(item)
      BY <1>0, <1>1, <1>3, CellsAreShared
    <2> QED BY <1>0, <1>2, <2>1, CellsAreShared
  <1>6. /\ \A h \in Groups : h # g => at'[h] = at[h] /\ Asub'[h] = Asub[h] /\ Bsub'[h] = Bsub[h]
        /\ DOMAIN Asub' = Groups /\ DOMAIN Bsub' = Groups
        /\ \A h \in Groups : DOMAIN Asub'[h] = Cells /\ DOMAIN Bsub'[h] = Cells
        /\ \A c \in Cells : Asub'[g][c] = (IF c = cell THEN a ELSE Asub[g][c])
        /\ \A c \in Cells : Bsub'[g][c] = (IF c = cell THEN b ELSE Bsub[g][c])
    BY <1>0, <1>3, <1>5 DEF DeviceTypes, Places
  <1>7. /\ at' \in [Groups -> [Items -> Places]]
        /\ \A z \in Items : /\ at'[g][z].pc = at[g][z].pc /\ at'[g][z].tile = at[g][z].tile
                            /\ at'[g][z].n = IF z = item THEN n + 1 ELSE at[g][z].n
    BY <1>0, <1>1, <1>3 DEF DeviceTypes, Places
  <1>8. DeviceTypes'
    BY <1>4, <1>6, <1>7 DEF DeviceTypes, Places
  <1>9. Together(g, "load", t) /\ Loaded(g, t)
    <2>1. PICK u \in Nat : Together(g, "load", u) /\ Loaded(g, u)
      BY <1>0, <1>3 DEF TileInv, Together
    <2>2. u = t
      BY <1>1, <2>1 DEF Together
    <2> QED BY <2>1, <2>2
  <1>10. ASSUME NEW c \in Cells, Current(g, t, c) \/ c = cell
         PROVE  Current(g, t, c)'
    <2>1. CASE c = cell
      BY <1>2, <1>3, <1>4, <1>6, <2>1 DEF Current
    <2>2. CASE c # cell
      BY <1>3, <1>4, <1>6, <1>10, <2>2 DEF Current
    <2> QED BY <2>1, <2>2
  <1>11. Together(g, "load", t)'
    BY <1>4, <1>7, <1>9 DEF Together
  <1>12. Loaded(g, t)'
    <2> SUFFICES ASSUME NEW z \in Items, NEW w \in DOMAIN CellsOf(z), w < at'[g][z].n
                 PROVE  Current(g, t, CellsOf(z)[w])'
      BY <1>4 DEF Loaded
    <2>1. CellsOf(z)[w] \in Cells /\ w \in Nat /\ at[g][z].n \in Nat
      <3>1. DOMAIN CellsOf(z) = 1..Len(CellsOf(z)) /\ CellsOf(z)[w] \in Cells
        BY <1>0, CellsAreShared
      <3> QED BY <1>0, <3>1 DEF DeviceTypes, Places
    <2>2. w < at[g][z].n \/ (z = item /\ w = n)
      <3>1. CASE z = item
        <4>1. w < n + 1 /\ at[g][z].n = n
          BY <1>1, <1>7, <3>1
        <4>2. w < n \/ w = n
          BY <2>1, <4>1
        <4> QED BY <3>1, <4>1, <4>2
      <3>2. CASE z # item
        BY <1>7, <3>2
      <3> QED BY <3>1, <3>2
    <2>3. Current(g, t, CellsOf(z)[w]) \/ CellsOf(z)[w] = cell
      BY <1>2, <1>9, <2>2 DEF Loaded
    <2>4. CellsOf(z)' = CellsOf(z)
      BY <1>4
    <2>5. PICK c : c = CellsOf(z)[w]
      OBVIOUS
    <2>6. Current(g, t, c)'
      BY <1>10, <2>1, <2>3, <2>5
    <2> QED BY <2>4, <2>5, <2>6 DEF Current
  <1>13. TileInv(g)'
    BY <1>1, <1>11, <1>12 DEF TileInv
  <1> QED BY <1>6, <1>8, <1>13

LEMMA ComputeTiles ==
  ASSUME layer \in LayerSet, KernelInv, stage = "kernel", NEW g \in Groups, NEW item \in Items, Compute(g, item)
  PROVE  DeviceTypes' /\ TileInv(g)' /\ \A h \in Groups \ {g} : at'[h] = at[h] /\ Asub'[h] = Asub[h] /\ Bsub'[h] = Bsub[h]
  <1>1. DeviceTypes /\ TileInv(g)
    BY DEF KernelInv
  <1>2. PICK n \in Nat \ {0}, t \in Nat : n = at[g][item].n /\ t = at[g][item].tile
    BY <1>1 DEF DeviceTypes, Places
  <1>3. /\ at[g][item].pc = "compute"
        /\ at' = [at EXCEPT ![g][item].n = n + 1]
        /\ UNCHANGED <<stage, layer, outs, A, B, Asub, Bsub>>
    BY <1>2 DEF Compute, IsAt, StepOf
  <1>4. /\ K' = K /\ M' = M /\ Groups' = Groups /\ Items' = Items /\ Cells' = Cells
    BY <1>3, SameJob
  <1>5. /\ at' \in [Groups -> [Items -> Places]]
        /\ \A z \in Items : at'[g][z].pc = at[g][z].pc /\ at'[g][z].tile = at[g][z].tile
        /\ \A h \in Groups \ {g} : at'[h] = at[h]
    BY <1>1, <1>3 DEF DeviceTypes, Places
  <1>6. PICK u \in Nat : Together(g, "compute", u) /\ \A cell \in Cells : Current(g, u, cell)
    BY <1>1, <1>3 DEF TileInv, Together
  <1>7. Together(g, "compute", u)'
    BY <1>4, <1>5, <1>6 DEF Together
  <1>8. \A cell \in Cells' : Current(g, u, cell)'
    BY <1>3, <1>4, <1>6 DEF Current
  <1> QED BY <1>1, <1>3, <1>4, <1>5, <1>7, <1>8 DEF DeviceTypes, TileInv

LEMMA StoreCellTiles ==
  ASSUME layer \in LayerSet, KernelInv, stage = "kernel", NEW g \in Groups, NEW item \in Items, StoreCell(g, item)
  PROVE  DeviceTypes' /\ TileInv(g)' /\ \A h \in Groups \ {g} : at'[h] = at[h] /\ Asub'[h] = Asub[h] /\ Bsub'[h] = Bsub[h]
  <1>1. DeviceTypes /\ TileInv(g)
    BY DEF KernelInv
  <1>2. PICK n \in Nat \ {0}, t \in Nat : n = at[g][item].n /\ t = at[g][item].tile
    BY <1>1 DEF DeviceTypes, Places
  <1>3. /\ at[g][item].pc = "store"
        /\ at' = [at EXCEPT ![g][item].n = n + 1]
        /\ UNCHANGED <<stage, layer, outs, A, B, Asub, Bsub>>
    BY <1>2 DEF StoreCell, IsAt, StepOf
  <1>4. /\ K' = K /\ M' = M /\ Groups' = Groups /\ Items' = Items /\ Cells' = Cells
    BY <1>3, SameJob
  <1>5. /\ at' \in [Groups -> [Items -> Places]]
        /\ \A z \in Items : at'[g][z].pc = at[g][z].pc /\ at'[g][z].tile = at[g][z].tile
        /\ \A h \in Groups \ {g} : at'[h] = at[h]
    BY <1>1, <1>3 DEF DeviceTypes, Places
  <1>6. PICK u \in Nat : Together(g, "store", u)
    BY <1>1, <1>3 DEF TileInv, Together
  <1>7. Together(g, "store", u)'
    BY <1>4, <1>5, <1>6 DEF Together
  <1> QED BY <1>1, <1>3, <1>4, <1>5, <1>7 DEF DeviceTypes, TileInv

LEMMA PlaceOfNext ==
  ASSUME NEW a \in Places
  PROVE  /\ Started(a) \in Places /\ Started(a).pc = "compute" /\ Started(a).tile = a.tile /\ Started(a).n = 1
         /\ Continued(a) \in Places /\ Continued(a).n = 1
         /\ Continued(a).pc = (IF a.tile + 1 < K \div TS THEN "load" ELSE "store")
         /\ Continued(a).tile = (IF a.tile + 1 < K \div TS THEN a.tile + 1 ELSE a.tile)
  <1>1. a.tile \in Nat /\ a.pc \in {"load", "compute", "store"} /\ a.n \in Nat \ {0}
    BY DEF Places
  <1>2. Started(a) \in Places /\ Started(a).pc = "compute" /\ Started(a).tile = a.tile /\ Started(a).n = 1
    <2>1. Started(a) = [pc |-> "compute", tile |-> a.tile, n |-> 1]
      <3>1. Started(a) = [a EXCEPT !.pc = "compute", !.n = 1]
        BY DEF Started
      <3> QED BY <3>1 DEF Places
    <2> QED BY <1>1, <2>1 DEF Places
  <1>3. CASE a.tile + 1 < K \div TS
    <2>1. Continued(a) = [pc |-> "load", tile |-> a.tile + 1, n |-> 1]
      BY <1>3 DEF Continued
    <2>2. a.tile + 1 \in Nat
      BY <1>1
    <2> QED BY <1>2, <1>3, <2>1, <2>2 DEF Places
  <1>4. CASE ~ (a.tile + 1 < K \div TS)
    <2>1. Continued(a) = [a EXCEPT !.pc = "store", !.n = 1]
      BY <1>4 DEF Continued
    <2>2. Continued(a) = [pc |-> "store", tile |-> a.tile, n |-> 1]
      BY <2>1 DEF Places
    <2> QED BY <1>1, <1>2, <1>4, <2>2 DEF Places
  <1> QED BY <1>3, <1>4

(* All items leave a barrier together. *)
LEMMA LoadedTiles ==
  ASSUME layer \in LayerSet, KernelInv, stage = "kernel", NEW g \in Groups, TileIsLoaded(g)
  PROVE  DeviceTypes' /\ TileInv(g)' /\ \A h \in Groups \ {g} : at'[h] = at[h] /\ Asub'[h] = Asub[h] /\ Bsub'[h] = Bsub[h]
  <1>1. DeviceTypes /\ TileInv(g) /\ layer.platform # "CPU"
    BY DEF KernelInv
  <1>2. UNCHANGED <<stage, layer, outs, A, B, Asub, Bsub>>
    BY DEF TileIsLoaded
  <1>3. Arrived(g, "load") = Items /\ LeaveLoad(g) = Items /\ Items # {}
    BY DEF TileIsLoaded, LeaveLoad
  <1>4. at' = [at EXCEPT ![g] = [item \in Items |-> Started(@[item])]]
    BY <1>3 DEF TileIsLoaded
  <1>5. /\ K' = K /\ M' = M /\ Groups' = Groups /\ Items' = Items /\ Cells' = Cells
    BY <1>2, SameJob
  <1>6. /\ at' \in [Groups -> [Items -> Places]]
        /\ \A z \in Items : at'[g][z].pc = "compute" /\ at'[g][z].tile = at[g][z].tile
        /\ \A h \in Groups \ {g} : at'[h] = at[h]
    <2>1. at[g] \in [Items -> Places]
      BY <1>1 DEF DeviceTypes
    <2>2. \A z \in Items : Started(at[g][z]) \in Places
      BY <2>1, PlaceOfNext
    <2>3. /\ at' \in [Groups -> [Items -> Places]]
          /\ \A z \in Items : at'[g][z] = Started(at[g][z])
          /\ \A h \in Groups \ {g} : at'[h] = at[h]
      BY <1>1, <1>4, <2>2 DEF DeviceTypes
    <2> QED BY <2>1, <2>3, PlaceOfNext
  <1>7. \A item \in Items : at[g][item].pc = "load" /\ at[g][item].n > Len(CellsOf(item))
    BY <1>3 DEF Arrived, StepsIn
  <1>8. PICK t \in Nat : Together(g, "load", t) /\ Loaded(g, t)
    BY <1>1, <1>3, <1>7 DEF TileInv, Together
  <1>9. Together(g, "compute", t)'
    BY <1>5, <1>6, <1>8 DEF Together
  <1>10. ASSUME NEW cell \in Cells PROVE Current(g, t, cell)'
    <2>1. PICK item \in Items : \E w \in DOMAIN CellsOf(item) : CellsOf(item)[w] = cell
      BY <1>1, CellsAreShared
    <2>5. PICK w \in DOMAIN CellsOf(item) : CellsOf(item)[w] = cell
      BY <2>1
    <2>2. w \in 1..Len(CellsOf(item)) /\ Len(CellsOf(item)) \in Nat /\ at[g][item].n \in Nat
      BY <1>1, CellsAreShared DEF DeviceTypes, Places
    <2>3. w < at[g][item].n
      BY <1>7, <2>2
    <2>4. Current(g, t, cell)
      BY <1>8, <2>5, <2>3 DEF Loaded
    <2> QED BY <1>2, <1>5, <2>4 DEF Current
  <1> QED BY <1>1, <1>2, <1>5, <1>6, <1>9, <1>10 DEF DeviceTypes, TileInv

LEMMA NextTiles ==
  ASSUME layer \in LayerSet, KernelInv, stage = "kernel", NEW g \in Groups, NextTile(g)
  PROVE  DeviceTypes' /\ TileInv(g)' /\ \A h \in Groups \ {g} : at'[h] = at[h] /\ Asub'[h] = Asub[h] /\ Bsub'[h] = Bsub[h]
  <1>1. DeviceTypes /\ TileInv(g) /\ layer.platform # "CPU"
    BY DEF KernelInv
  <1>2. UNCHANGED <<stage, layer, outs, A, B, Asub, Bsub>>
    BY DEF NextTile
  <1>3. Arrived(g, "compute") = Items /\ LeaveCompute(g) = Items /\ Items # {}
    BY DEF NextTile, LeaveCompute
  <1>4. at' = [at EXCEPT ![g] = [item \in Items |-> Continued(@[item])]]
    BY <1>3 DEF NextTile
  <1>5. /\ K' = K /\ M' = M /\ Groups' = Groups /\ Items' = Items /\ Cells' = Cells
        /\ \A z : CellsOf(z)' = CellsOf(z)
    BY <1>2, SameJob
  <1>6. \A item \in Items : at[g][item].pc = "compute"
    BY <1>3 DEF Arrived
  <1>7. PICK t \in Nat : Together(g, "compute", t)
    BY <1>1, <1>3, <1>6 DEF TileInv, Together
  <1>8. /\ at' \in [Groups -> [Items -> Places]]
        /\ \A z \in Items : at'[g][z] = Continued(at[g][z])
        /\ \A h \in Groups \ {g} : at'[h] = at[h]
    <2>1. at[g] \in [Items -> Places]
      BY <1>1 DEF DeviceTypes
    <2>2. \A z \in Items : Continued(at[g][z]) \in Places
      BY <2>1, PlaceOfNext
    <2> QED BY <1>1, <1>4, <2>2 DEF DeviceTypes
  <1>9. CASE t + 1 < K \div TS
    <2>1. \A z \in Items : at'[g][z].pc = "load" /\ at'[g][z].tile = t + 1 /\ at'[g][z].n = 1
      BY <1>1, <1>7, <1>8, <1>9, PlaceOfNext DEF Together, DeviceTypes
    <2>2. Together(g, "load", t + 1)'
      BY <1>5, <2>1 DEF Together
    <2>3. Loaded(g, t + 1)'
      <3>1. \A z \in Items : \A w \in DOMAIN CellsOf(z) : w \in Nat \ {0}
        BY <1>1, CellsAreShared
      <3> QED BY <1>5, <2>1, <3>1 DEF Loaded
    <2> QED BY <1>1, <1>2, <1>5, <1>8, <2>2, <2>3 DEF DeviceTypes, TileInv
  <1>10. CASE ~ (t + 1 < K \div TS)
    <2>1. \A z \in Items : at'[g][z].pc = "store" /\ at'[g][z].tile = t
      BY <1>1, <1>7, <1>8, <1>10, PlaceOfNext DEF Together, DeviceTypes
    <2>2. Together(g, "store", t)'
      BY <1>5, <2>1 DEF Together
    <2> QED BY <1>1, <1>2, <1>5, <1>8, <2>2 DEF DeviceTypes, TileInv
  <1> QED BY <1>9, <1>10

LEMMA EnqueuedTiles ==
  ASSUME layer \in LayerSet, EnqueueKernel
  PROVE  KernelInv'
  <1>1. layer.platform # "CPU" /\ UNCHANGED <<layer, outs>>
    BY DEF EnqueueKernel
  <1>2. /\ Groups' = Groups /\ Items' = Items /\ Cells' = Cells
        /\ \A z : CellsOf(z)' = CellsOf(z)
    BY <1>1, SameJob
  <1>3. /\ Asub' = [g \in Groups |-> [cell \in Cells |-> Garbage]] /\ Bsub' = Asub'
        /\ at' = [g \in Groups |-> [item \in Items |-> [pc |-> "load", tile |-> 0, n |-> 1]]]
    BY DEF EnqueueKernel
  <1>4. DeviceTypes'
    BY <1>2, <1>3 DEF DeviceTypes, Places
  <1>5. ASSUME NEW g \in Groups PROVE TileInv(g)'
    <2>1. Together(g, "load", 0)'
      BY <1>2, <1>3 DEF Together
    <2>2. Loaded(g, 0)'
      <3>1. \A z \in Items : \A w \in DOMAIN CellsOf(z) : w \in Nat \ {0}
        BY <1>1, CellsAreShared
      <3> QED BY <1>2, <1>3, <3>1 DEF Loaded
    <2> QED BY <2>1, <2>2 DEF TileInv
  <1> QED BY <1>1, <1>2, <1>4, <1>5 DEF KernelInv

LEMMA KernelTiles ==
  ASSUME layer \in LayerSet, KernelInv, Kernel
  PROVE  KernelInv'
  <1>1. PICK g \in DOMAIN at : \/ \E item \in Items : LoadCell(g, item) \/ Compute(g, item) \/ StoreCell(g, item)
                               \/ TileIsLoaded(g) \/ NextTile(g)
    BY DEF Kernel
  <1>2. stage = "kernel" /\ UNCHANGED <<stage, layer, outs, A, B>>
    BY <1>1 DEF LoadCell, Compute, StoreCell, TileIsLoaded, NextTile, IsAt
  <1>3. g \in Groups /\ layer.platform # "CPU"
    BY <1>1, <1>2 DEF KernelInv, DeviceTypes
  <1>4. DeviceTypes' /\ TileInv(g)' /\ \A h \in Groups \ {g} : at'[h] = at[h] /\ Asub'[h] = Asub[h] /\ Bsub'[h] = Bsub[h]
    BY <1>1, <1>2, <1>3, LoadCellTiles, ComputeTiles, StoreCellTiles, LoadedTiles, NextTiles
  <1>5. ASSUME NEW h \in Groups, h # g PROVE TileInv(h)'
    <2>1. TileInv(h)
      BY <1>2 DEF KernelInv
    <2> QED BY <1>2, <1>4, <1>5, <2>1, TileStays
  <1>6. Groups' = Groups
    BY <1>2, SameJob
  <1> QED BY <1>2, <1>3, <1>4, <1>5, <1>6 DEF KernelInv

LEMMA AlwaysKernelInv == LayersSpec => [](layer \in LayerSet /\ KernelInv)
  <1>1. LayersInit => layer \in LayerSet /\ KernelInv
    BY DEF LayersInit, KernelInv
  <1>2. ASSUME layer \in LayerSet, KernelInv, [LayersNext]_layersVars
        PROVE  (layer \in LayerSet)' /\ KernelInv'
    <2>1. CASE Kernel
      <3>1. UNCHANGED layer
        BY <2>1 DEF Kernel, LoadCell, Compute, StoreCell, TileIsLoaded, NextTile
      <3> QED BY <1>2, <2>1, <3>1, KernelTiles
    <2>2. CASE EnqueueKernel
      <3>1. UNCHANGED layer
        BY <2>2 DEF EnqueueKernel
      <3> QED BY <1>2, <2>2, <3>1, EnqueuedTiles
    <2>3. CASE \/ Forward \/ ForwardFails \/ ExecuteOnCpu \/ EnqueueFails
               \/ ReadResult \/ Computed \/ ForwardAnother
      <3>1. layer' \in LayerSet /\ stage' # "kernel"
        BY <1>2, <2>3 DEF Forward, ForwardFails, ExecuteOnCpu, EnqueueFails, ReadResult, Computed, ForwardAnother, Calling
      <3> QED BY <3>1 DEF KernelInv
    <2>4. CASE UNCHANGED layersVars
      <3>1. UNCHANGED <<stage, layer, outs, A, B, Asub, Bsub, at>>
        BY <2>4 DEF layersVars, deviceVars
      <3>2. /\ Groups' = Groups /\ Items' = Items /\ Cells' = Cells
        BY <3>1, SameJob
      <3>3. \A g \in Groups : TileInv(g) => TileInv(g)'
        BY <3>1, TileStays
      <3> QED BY <1>2, <3>1, <3>2, <3>3 DEF KernelInv, DeviceTypes
    <2> QED BY <1>2, <2>1, <2>2, <2>3, <2>4 DEF LayersNext
  <1> QED BY <1>1, <1>2, PTL DEF LayersSpec

(* Between two barriers no work-item overwrites a number of the tile that  *)
(* another one still reads, in any kernel, for any size of the tiles.      *)
THEOREM TilesStayCurrent == LayersSpec => []TilesAreCurrent
  <1>1. ASSUME layer \in LayerSet, KernelInv PROVE TilesAreCurrent
    <2> SUFFICES ASSUME stage = "kernel", NEW g \in Groups, NEW item \in Items, at[g][item].pc = "compute",
                        NEW k \in (at[g][item].n - 1)..(TS - 1), NEW w \in DOMAIN CellsOf(item)
                 PROVE  LET t == at[g][item].tile
                            cell == CellsOf(item)[w]
                        IN /\ Asub[g][<<k, cell[2]>>] = A[(TS * t + k) * M + TS * g[1] + cell[2]]
                           /\ Bsub[g][<<cell[1], k>>] = B[(TS * g[2] + cell[1]) * K + TS * t + k]
      BY DEF TilesAreCurrent
    <2>1. DeviceTypes /\ TileInv(g) /\ layer.platform # "CPU"
      BY <1>1 DEF KernelInv
    <2>2. PICK t \in Nat : Together(g, "compute", t) /\ \A cell \in Cells : Current(g, t, cell)
      BY <2>1 DEF TileInv, Together
    <2>3. PICK cell \in Cells : cell = CellsOf(item)[w]
      BY <1>1, <2>1, CellsAreShared
    <2>4. PICK c \in 0..(TS - 1), r \in 0..(TS - 1) : cell = <<c, r>>
      BY <2>3 DEF Cells
    <2>5. k \in 0..(TS - 1)
      <3>1. at[g][item].n \in Nat \ {0} /\ TS \in Nat
        BY <2>1, TSAssumption DEF DeviceTypes, Places, TSAssumption
      <3> QED BY <3>1
    <2>6. <<k, r>> \in Cells /\ <<c, k>> \in Cells
      BY <2>4, <2>5 DEF Cells
    <2>7. Current(g, t, <<k, r>>) /\ Current(g, t, <<c, k>>) /\ at[g][item].tile = t
      BY <2>2, <2>6 DEF Together
    <2> QED BY <2>3, <2>4, <2>7 DEF Current
  <1> QED BY <1>1, AlwaysKernelInv, PTL

-----------------------------------------------------------------------------
(* The jobs.                                                               *)
IsJob(job) ==
  /\ {job.channels, job.size, job.filter, job.stride, job.filters} \subseteq Nat \ {0}
  /\ job.padding \in Nat /\ job.filter <= job.size + 2 * job.padding
  /\ \A z \in 0..(job.channels * job.size * job.size - 1) : job.in[z] \in Nat
  /\ \A z \in 0..(job.filters * (job.channels * job.filter * job.filter) - 1) : job.we[z] \in Nat
  /\ \A z \in 0..(job.filters - 1) : job.b[z] \in Nat

(* The k-th job takes the k-th part of the channels, weights and filters.  *)
IsPart(job, k) ==
  /\ job.channels \in Nat /\ job.filters \in Nat
  /\ job.channels * Calls = layer.channels /\ job.filters * Calls = layer.filters
  /\ job.size = layer.size /\ job.filter = layer.filter /\ job.stride = layer.stride
  /\ job.padding = layer.padding /\ job.radius = layer.radius
  /\ \A z \in 0..(job.channels * job.size * job.size - 1) :
       job.in[z] = z + (k - 1) * (job.channels * job.size * job.size)
  /\ \A z \in 0..(job.filters * (job.channels * job.filter * job.filter) - 1) :
       job.we[z] = z + (k - 1) * (job.filters * (job.channels * job.filter * job.filter))
  /\ \A z \in 0..(job.filters - 1) : job.b[z] = z + (k - 1) * job.filters

LEMMA LengthOf ==
  ASSUME NEW n \in Nat, NEW array, DOMAIN array = 0..(n - 1)
  PROVE  Length(array) = n
  <1>1. Cardinality(0..(n - 1)) = n
    <2>1. 0..(n - 1) = 0..(n - 1) /\ 0 \in Int /\ n - 1 \in Int
      OBVIOUS
    <2> QED BY <2>1, FS_Interval
  <1> QED BY <1>1 DEF Length

LEMMA LayerFacts ==
  ASSUME layer \in LayerSet
  PROVE  /\ {layer.channels, layer.size, layer.filter, layer.stride, layer.filters, layer.groups} \subseteq Nat \ {0}
         /\ layer.padding \in Nat /\ layer.radius \in Nat
         /\ layer.type \in {"conv", "maxpooling", "LRN", "fullyConnected", "activation", "losslayer"}
         /\ layer.platform \in {"CPU", "CL", "FPGA"}
         /\ layer.groups # 1 \/ layer.platform # "CPU" => layer.type = "conv"
  BY LayersAssumption DEF LayersAssumption

(* Two numbers have a product that their halves share. *)
LEMMA HalfOfProduct ==
  ASSUME NEW a \in Nat, a % 2 = 0, NEW b \in Nat
  PROVE  /\ a \div 2 \in Nat /\ (a \div 2) * 2 = a
         /\ (a * b) \div 2 = (a \div 2) * b
         /\ (a * b) - (a * b) \div 2 = (a \div 2) * b
  <1> DEFINE h == a \div 2
  <1>1. h \in Nat /\ a = h * 2
    BY Divides
  <1> HIDE DEF h
  <1>2. h * b \in Nat /\ a * b = (h * b) * 2
    BY <1>1
  <1>3. (a * b) \div 2 = h * b
    <2>1. (h * b) * 2 + 0 = a * b /\ ((h * b) * 2 + 0) \div 2 = h * b
      BY <1>2, QuotientIs
    <2> QED BY <2>1
  <1>4. (a * b) - (h * b) = h * b
    BY <1>2
  <1> QED BY <1>1, <1>3, <1>4 DEF h

LEMMA Halves ==
  ASSUME NEW n \in Nat, NEW h \in Nat, h + h = n, n \div 2 = h
  PROVE  /\ Length(Array(n)) = n
         /\ \A z \in 0..(h - 1) : Array(n)[z] = z /\ SecondHalf(Array(n))[z] = z + h
  <1>1. DOMAIN Array(n) = 0..(n - 1)
    BY DEF Array
  <1>2. Length(Array(n)) = n
    BY <1>1, LengthOf
  <1>3. SecondHalf(Array(n)) = [z \in 0..(h - 1) |-> Array(n)[z + h]]
    <2>1. n - n \div 2 - 1 = h - 1
      OBVIOUS
    <2> QED BY <1>2, <2>1 DEF SecondHalf
  <1>4. ASSUME NEW z \in 0..(h - 1) PROVE Array(n)[z] = z /\ SecondHalf(Array(n))[z] = z + h
    <2>1. z \in 0..(n - 1) /\ z + h \in 0..(n - 1)
      OBVIOUS
    <2> QED BY <1>3, <2>1 DEF Array
  <1> QED BY <1>2, <1>4

LEMMA PartsOfWhole ==
  ASSUME layer \in LayerSet, layer.groups = 1, layer.type = "conv", NEW k \in 1..Calls
  PROVE  k = 1 /\ Job(k) = Whole(layer) /\ IsPart(Job(k), k)
  <1> DEFINE w == Whole(layer)
             c == layer.channels
             f == layer.filter
             size == c * layer.size * layer.size
             weights == layer.filters * (c * f * f)
  <1>1. Calls = 1 /\ Job(k) = w /\ k = 1
    BY DEF Calls, Job
  <1>2. c \in Nat \ {0} /\ f \in Nat \ {0} /\ layer.size \in Nat \ {0} /\ layer.filters \in Nat \ {0}
    BY LayerFacts
  <1>3. c \div layer.groups = c
    BY <1>2
  <1>4. /\ w.in = Array(size) /\ w.we = Array(weights) /\ w.b = Array(layer.filters)
        /\ w.channels = c /\ w.size = layer.size /\ w.filter = f /\ w.stride = layer.stride
        /\ w.padding = layer.padding /\ w.filters = layer.filters /\ w.radius = layer.radius
    <2>1. InputSize(layer) = size
      BY DEF InputSize
    <2>2. WeightsPerFilter(layer) = c * f * f
      BY <1>3 DEF WeightsPerFilter
    <2>3. /\ w.in = Array(InputSize(layer)) /\ w.we = Array(layer.filters * WeightsPerFilter(layer))
          /\ w.b = Array(layer.filters)
      BY DEF Whole
    <2>4. /\ w.channels = c /\ w.size = layer.size /\ w.filter = f /\ w.stride = layer.stride
          /\ w.padding = layer.padding /\ w.filters = layer.filters /\ w.radius = layer.radius
      BY DEF Whole
    <2> HIDE DEF w, size
    <2> QED BY <2>1, <2>2, <2>3, <2>4
  <1>5. \A n \in Nat : \A z \in 0..(n - 1) : Array(n)[z] = z
    BY DEF Array
  <1>6. size \in Nat /\ weights \in Nat
    BY <1>2
  <1> HIDE DEF size, weights
  <1>7. /\ \A z \in 0..(size - 1) : w.in[z] = z + (k - 1) * size
        /\ \A z \in 0..(weights - 1) : w.we[z] = z + (k - 1) * weights
        /\ \A z \in 0..(layer.filters - 1) : w.b[z] = z + (k - 1) * layer.filters
    BY <1>1, <1>2, <1>4, <1>5, <1>6
  <1>8. w.channels * 1 = layer.channels /\ w.filters * 1 = layer.filters
    BY <1>2, <1>4
  <1>9. w.channels * w.size * w.size = size /\ w.filters * (w.channels * w.filter * w.filter) = weights
    BY <1>4 DEF size, weights
  <1>10. k = 1 /\ Job(k) = Whole(layer)
    BY <1>1
  <1> HIDE DEF w
  <1>11. IsPart(w, k)
    BY <1>1, <1>2, <1>4, <1>7, <1>8, <1>9 DEF IsPart
  <1> QED BY <1>1, <1>10, <1>11

LEMMA PartsOfHalves ==
  ASSUME layer \in LayerSet, layer.groups = 2, GroupsDivide, NEW k \in 1..Calls
  PROVE  IsPart(Job(k), k)
  <1> DEFINE w == Whole(layer)
             j == Job(k)
             c == layer.channels
             h == c \div 2
             f == layer.filter
             m == layer.filters
             g == m \div 2
             s == layer.size
             size == h * s * s
             weights == g * (h * f * f)
  <1>1. Calls = 2 /\ k \in {1, 2} /\ layer.type = "conv"
    BY LayerFacts DEF Calls
  <1>2. c \in Nat \ {0} /\ f \in Nat \ {0} /\ s \in Nat \ {0} /\ m \in Nat \ {0} /\ c % 2 = 0 /\ m % 2 = 0
    BY LayerFacts DEF GroupsDivide
  <1>3. /\ w.in = Array(c * s * s) /\ w.we = Array(m * (h * f * f)) /\ w.b = Array(m)
        /\ w.channels = c /\ w.size = s /\ w.filter = f /\ w.stride = layer.stride
        /\ w.padding = layer.padding /\ w.filters = m /\ w.radius = layer.radius
    BY <1>1 DEF Whole, InputSize, WeightsPerFilter
  <1>4. h \in Nat /\ h * 2 = c /\ g \in Nat /\ g * 2 = m
    BY <1>2, HalfOfProduct
  <1>5. /\ j.channels = h /\ j.filters = g /\ j.size = s /\ j.filter = f /\ j.stride = layer.stride
        /\ j.padding = layer.padding /\ j.radius = layer.radius
        /\ j.in = (IF k = 1 THEN w.in ELSE SecondHalf(w.in))
        /\ j.we = (IF k = 1 THEN w.we ELSE SecondHalf(w.we))
        /\ j.b = (IF k = 1 THEN w.b ELSE SecondHalf(w.b))
    BY <1>3 DEF Job, Whole
  <1> HIDE DEF w, j, h, g
  <1>6. /\ c * s * s \in Nat /\ size \in Nat /\ size + size = c * s * s /\ (c * s * s) \div 2 = size
    <2>1. s * s \in Nat /\ c * s * s = c * (s * s) /\ h * s * s = h * (s * s)
      BY <1>2, <1>4
    <2> DEFINE x == s * s
    <2>4. x \in Nat
      BY <2>1
    <2> HIDE DEF x
    <2>5. (c * x) \div 2 = h * x /\ (c * x) - (c * x) \div 2 = h * x
      BY <1>2, <2>4, HalfOfProduct DEF h
    <2>2. (c * (s * s)) \div 2 = h * (s * s) /\ (c * (s * s)) - h * (s * s) = h * (s * s)
      BY <2>5 DEF x
    <2>3. c * (s * s) \in Nat /\ h * (s * s) \in Nat
      BY <1>2, <1>4, <2>1
    <2> QED BY <2>1, <2>2, <2>3
  <1>7. /\ m * (h * f * f) \in Nat /\ weights \in Nat /\ weights + weights = m * (h * f * f)
        /\ (m * (h * f * f)) \div 2 = weights
    <2>1. h * f * f \in Nat
      BY <1>2, <1>4
    <2> DEFINE x == h * f * f
    <2>2. x \in Nat
      BY <2>1
    <2> HIDE DEF x
    <2>3. (m * x) \div 2 = g * x /\ (m * x) - g * x = g * x
      BY <1>2, <2>2, HalfOfProduct DEF g
    <2>4. m * x \in Nat /\ g * x \in Nat
      BY <1>2, <1>4, <2>2
    <2>5. g * x + g * x = m * x
      BY <2>3, <2>4
    <2> QED BY <2>3, <2>4, <2>5 DEF x
  <1>8. g + g = m /\ m \div 2 = g
    BY <1>4 DEF g
  <1> HIDE DEF size, weights
  <1>9. /\ \A z \in 0..(size - 1) : w.in[z] = z /\ SecondHalf(w.in)[z] = z + size
        /\ \A z \in 0..(weights - 1) : w.we[z] = z /\ SecondHalf(w.we)[z] = z + weights
        /\ \A z \in 0..(g - 1) : w.b[z] = z /\ SecondHalf(w.b)[z] = z + g
    BY <1>2, <1>3, <1>4, <1>6, <1>7, <1>8, Halves
  <1>10. /\ \A z \in 0..(size - 1) : j.in[z] = z + (k - 1) * size
         /\ \A z \in 0..(weights - 1) : j.we[z] = z + (k - 1) * weights
         /\ \A z \in 0..(g - 1) : j.b[z] = z + (k - 1) * g
    <2>1. CASE k = 1
      BY <1>4, <1>5, <1>6, <1>7, <1>9, <2>1
    <2>2. CASE k = 2
      BY <1>4, <1>5, <1>6, <1>7, <1>9, <2>2
    <2> QED BY <1>1, <2>1, <2>2
  <1>11. j.channels * j.size * j.size = size /\ j.filters * (j.channels * j.filter * j.filter) = weights
    BY <1>5 DEF size, weights
  <1> QED BY <1>1, <1>4, <1>5, <1>10, <1>11 DEF IsPart, j

LEMMA PartIsJob ==
  ASSUME layer \in LayerSet, FiltersFit, layer.type = "conv", NEW k \in 1..Calls, NEW job, IsPart(job, k)
  PROVE  IsJob(job)
  <1>1. Calls \in {1, 2} /\ k \in {1, 2}
    BY DEF Calls
  <1>2. {layer.channels, layer.filters, layer.size, layer.filter, layer.stride} \subseteq Nat \ {0} /\ layer.padding \in Nat
    BY LayerFacts
  <1>3. /\ job.channels \in Nat /\ job.filters \in Nat
        /\ job.channels * Calls = layer.channels /\ job.filters * Calls = layer.filters
        /\ job.size = layer.size /\ job.filter = layer.filter /\ job.stride = layer.stride
        /\ job.padding = layer.padding
    BY DEF IsPart
  <1>4. job.channels # 0 /\ job.filters # 0
    BY <1>1, <1>2, <1>3
  <1> DEFINE size == job.channels * job.size * job.size
             weights == job.filters * (job.channels * job.filter * job.filter)
  <1>5. size \in Nat /\ weights \in Nat
    BY <1>2, <1>3
  <1>6. /\ \A z \in 0..(size - 1) : job.in[z] = z + (k - 1) * size
        /\ \A z \in 0..(weights - 1) : job.we[z] = z + (k - 1) * weights
        /\ \A z \in 0..(job.filters - 1) : job.b[z] = z + (k - 1) * job.filters
    BY DEF IsPart
  <1> HIDE DEF size, weights
  <1>7. /\ \A z \in 0..(size - 1) : job.in[z] \in Nat
        /\ \A z \in 0..(weights - 1) : job.we[z] \in Nat
        /\ \A z \in 0..(job.filters - 1) : job.b[z] \in Nat
    <2>1. CASE k = 1
      BY <1>3, <1>5, <1>6, <2>1
    <2>2. CASE k = 2
      BY <1>3, <1>5, <1>6, <2>2
    <2> QED BY <1>1, <2>1, <2>2
  <1>8. job.filter <= job.size + 2 * job.padding
    BY <1>3 DEF FiltersFit
  <1> QED BY <1>2, <1>3, <1>4, <1>7, <1>8 DEF IsJob, size, weights

LEMMA JobIsPart ==
  ASSUME layer \in LayerSet, FiltersFit, GroupsDivide, layer.groups <= 2, layer.type = "conv", NEW k \in 1..Calls
  PROVE  IsPart(Job(k), k) /\ IsJob(Job(k))
  <1>1. layer.groups \in {1, 2}
    BY LayerFacts
  <1>2. IsPart(Job(k), k)
    BY <1>1, PartsOfWhole, PartsOfHalves
  <1> QED BY <1>2, PartIsJob

LEMMA PaddedIs ==
  ASSUME NEW n \in Nat \ {0}
  PROVE  /\ Padded(n) \in Nat \ {0} /\ n <= Padded(n)
         /\ Padded(n) \div TS \in Nat \ {0} /\ Padded(n) = (Padded(n) \div TS) * TS
  <1> DEFINE q == n \div TS
             r == n % TS
  <1>1. TS \in Nat \ {0}
    BY TSAssumption DEF TSAssumption
  <1>2. q \in Nat /\ r \in 0..(TS - 1) /\ n = q * TS + r
    BY <1>1, Divides
  <1>3. Padded(n) = IF r # 0 THEN (q + 1) * TS ELSE n
    BY DEF Padded
  <1> HIDE DEF q, r
  <1>4. CASE r # 0
    <2>1. Padded(n) = (q + 1) * TS + 0 /\ (q + 1) * TS = q * TS + TS /\ q * TS \in Nat
      BY <1>1, <1>2, <1>3, <1>4
    <2>2. ((q + 1) * TS + 0) \div TS = q + 1
      BY <1>1, <1>2, QuotientIs
    <2>3. Padded(n) \div TS = q + 1
      BY <2>1, <2>2
    <2> QED BY <1>1, <1>2, <2>1, <2>3
  <1>5. CASE r = 0
    <2>1. Padded(n) = n /\ n = q * TS + 0
      BY <1>1, <1>2, <1>3, <1>5
    <2>2. (q * TS + 0) \div TS = q
      BY <1>1, <1>2, QuotientIs
    <2>3. q # 0
      BY <1>1, <2>1
    <2>4. q * TS \in Nat /\ q * TS + 0 = q * TS
      BY <1>1, <1>2
    <2>5. Padded(n) \div TS = q /\ Padded(n) = q * TS
      BY <2>1, <2>2, <2>4
    <2> QED BY <1>2, <2>1, <2>3, <2>5
  <1> QED BY <1>4, <1>5

LEMMA SizesOfJob ==
  ASSUME NEW job, IsJob(job)
  PROVE  OutputSize(job) \in Nat \ {0} /\ NSize(job) \in Nat \ {0} /\ KSize(job) \in Nat \ {0}
  <1> DEFINE a == job.size - job.filter + 2 * job.padding
  <1>1. a \in Nat /\ job.stride \in Nat \ {0} /\ job.filter \in Nat \ {0} /\ job.channels \in Nat \ {0}
    BY DEF IsJob
  <1>2. OutputSize(job) = a \div job.stride + 1
    BY DEF OutputSize
  <1> HIDE DEF a
  <1>3. a \div job.stride \in Nat
    BY <1>1, Divides
  <1>4. OutputSize(job) \in Nat \ {0}
    BY <1>2, <1>3
  <1>5. \A x, y \in Nat \ {0} : x * y \in Nat \ {0}
    OBVIOUS
  <1> QED BY <1>1, <1>4, <1>5 DEF NSize, KSize

-----------------------------------------------------------------------------
(* The products.                                                           *)
RowOf(g, cell) == TS * g[2] + cell[1]
ColumnOf(g, cell) == TS * g[1] + cell[2]
PlaceInC(g, cell) == (TS * g[2] + cell[1]) * M + TS * g[1] + cell[2]

ProductsUpTo(row, col, m) == UNION {Product(A[k * M + col], B[row * K + k]) : k \in 0..(m - 1)}

(* What the kernel is to write. *)
Final(z) == ProductsUpTo(z \div M, z % M, K) \cup Bias(D[z % M])

Progress(a) ==
  CASE a.pc = "load" -> TS * a.tile
    [] a.pc = "compute" -> TS * a.tile + (a.n - 1)
    [] OTHER -> K

BufferInv ==
  /\ A = Transpose(K, M, AddPadding(KSize(ThisJob), ThisJob.filters, ThisJob.we))
  /\ B = Transpose(N, K, AddPadding(NSize(ThisJob), KSize(ThisJob), Im2Col(ThisJob)))
  /\ D = [z \in 0..(M - 1) |-> IF z < ThisJob.filters THEN ThisJob.b[z] ELSE Zero]
  /\ DOMAIN C = 0..(M * N - 1)

ItemInv(g, item) ==
  /\ at[g][item].pc # "store" => at[g][item].tile < K \div TS
  /\ at[g][item].pc = "compute" => at[g][item].n <= TS + 1
  /\ DOMAIN acc[g][item] = DOMAIN CellsOf(item)
  /\ \A w \in DOMAIN CellsOf(item) :
       /\ acc[g][item][w] = ProductsUpTo(RowOf(g, CellsOf(item)[w]), ColumnOf(g, CellsOf(item)[w]), Progress(at[g][item]))
       /\ at[g][item].pc = "store" /\ w < at[g][item].n =>
            C[PlaceInC(g, CellsOf(item)[w])] = Final(PlaceInC(g, CellsOf(item)[w]))

SumInv(g) == DOMAIN acc[g] = Items /\ \A item \in Items : ItemInv(g, item)

AccInv ==
  stage = "kernel" =>
    /\ IsJob(ThisJob) /\ BufferInv
    /\ DOMAIN acc = Groups /\ \A g \in Groups : SumInv(g)

LEMMA SizesOfMatrices ==
  ASSUME IsJob(ThisJob)
  PROVE  /\ K \in Nat \ {0} /\ K \div TS \in Nat \ {0} /\ K = (K \div TS) * TS /\ KSize(ThisJob) <= K
         /\ M \in Nat \ {0} /\ M \div TS \in Nat \ {0} /\ M = (M \div TS) * TS /\ ThisJob.filters <= M
         /\ N \in Nat \ {0} /\ N \div TS \in Nat \ {0} /\ N = (N \div TS) * TS /\ NSize(ThisJob) <= N
         /\ TS \in Nat \ {0}
  <1>1. NSize(ThisJob) \in Nat \ {0} /\ KSize(ThisJob) \in Nat \ {0} /\ ThisJob.filters \in Nat \ {0}
    BY SizesOfJob DEF IsJob
  <1>2. /\ K = Padded(KSize(ThisJob)) /\ M = Padded(ThisJob.filters) /\ N = Padded(NSize(ThisJob))
    BY DEF K, M, N
  <1>3. K \in Nat \ {0} /\ K \div TS \in Nat \ {0} /\ K = (K \div TS) * TS /\ KSize(ThisJob) <= K
    BY <1>1, <1>2, PaddedIs
  <1>4. M \in Nat \ {0} /\ M \div TS \in Nat \ {0} /\ M = (M \div TS) * TS /\ ThisJob.filters <= M
    BY <1>1, <1>2, PaddedIs
  <1>5. N \in Nat \ {0} /\ N \div TS \in Nat \ {0} /\ N = (N \div TS) * TS /\ NSize(ThisJob) <= N
    BY <1>1, <1>2, PaddedIs
  <1> QED BY <1>3, <1>4, <1>5, TSAssumption DEF TSAssumption

LEMMA CellPlace ==
  ASSUME IsJob(ThisJob), NEW g \in Groups, NEW cell \in Cells
  PROVE  /\ RowOf(g, cell) \in 0..(N - 1) /\ ColumnOf(g, cell) \in 0..(M - 1)
         /\ PlaceInC(g, cell) = RowOf(g, cell) * M + ColumnOf(g, cell)
         /\ PlaceInC(g, cell) \in 0..(M * N - 1)
         /\ PlaceInC(g, cell) \div M = RowOf(g, cell) /\ PlaceInC(g, cell) % M = ColumnOf(g, cell)
  <1> DEFINE mt == M \div TS
             nt == N \div TS
             row == RowOf(g, cell)
             col == ColumnOf(g, cell)
  <1>1. /\ M \in Nat \ {0} /\ mt \in Nat \ {0} /\ M = mt * TS
        /\ N \in Nat \ {0} /\ nt \in Nat \ {0} /\ N = nt * TS /\ TS \in Nat \ {0}
    BY SizesOfMatrices
  <1>2. g[1] \in 0..(mt - 1) /\ g[2] \in 0..(nt - 1) /\ cell[1] \in 0..(TS - 1) /\ cell[2] \in 0..(TS - 1)
    BY DEF Groups, Cells
  <1> HIDE DEF mt, nt
  <1>3. col \in 0..(M - 1)
    <2>1. g[1] * TS + cell[2] \in 0..(mt * TS - 1)
      BY <1>1, <1>2, PairBelow
    <2>2. g[1] * TS = TS * g[1]
      BY <1>1, <1>2
    <2> QED BY <1>1, <2>1, <2>2 DEF ColumnOf
  <1>4. row \in 0..(N - 1)
    <2>1. g[2] * TS + cell[1] \in 0..(nt * TS - 1)
      BY <1>1, <1>2, PairBelow
    <2>2. g[2] * TS = TS * g[2]
      BY <1>1, <1>2
    <2> QED BY <1>1, <2>1, <2>2 DEF RowOf
  <1>5. PlaceInC(g, cell) = row * M + col
    <2>1. TS * g[1] \in Nat /\ row * M \in Nat
      BY <1>1, <1>2, <1>4
    <2>2. PlaceInC(g, cell) = row * M + TS * g[1] + cell[2]
      BY DEF PlaceInC, RowOf
    <2> QED BY <1>2, <2>1, <2>2 DEF ColumnOf
  <1> HIDE DEF row, col
  <1>6. row * M + col \in 0..(N * M - 1) /\ N * M = M * N
    BY <1>1, <1>3, <1>4, PairBelow
  <1>7. (row * M + col) \div M = row /\ (row * M + col) % M = col
    BY <1>1, <1>3, <1>4, QuotientIs
  <1> QED BY <1>3, <1>4, <1>5, <1>6, <1>7 DEF row, col

LEMMA OneMoreProduct ==
  ASSUME NEW row, NEW col, NEW m \in Nat
  PROVE  ProductsUpTo(row, col, m + 1) = ProductsUpTo(row, col, m) \cup Product(A[m * M + col], B[row * K + m])
  <1>1. \A k : k \in 0..((m + 1) - 1) <=> k \in 0..(m - 1) \/ k = m
    OBVIOUS
  <1> QED BY <1>1 DEF ProductsUpTo

LEMMA SameSums ==
  ASSUME UNCHANGED <<layer, outs, A, B, D>>
  PROVE  /\ \A row, col, m : ProductsUpTo(row, col, m)' = ProductsUpTo(row, col, m)
         /\ \A z : Final(z)' = Final(z)
         /\ \A a : Progress(a)' = Progress(a)
         /\ \A g, cell : PlaceInC(g, cell)' = PlaceInC(g, cell)
  <1>1. K' = K /\ M' = M
    BY SameJob
  <1> QED BY <1>1 DEF ProductsUpTo, Final, Progress, PlaceInC

(* A number of C that is written is the right one and stays so. *)
LEMMA ItemStays ==
  ASSUME layer \in LayerSet, KernelInv, AccInv, stage = "kernel",
         NEW g \in Groups, NEW item \in Items, UNCHANGED <<layer, outs, A, B, D>>,
         at'[g][item] = at[g][item], acc'[g][item] = acc[g][item],
         \A z \in DOMAIN C : C[z] = Final(z) => C'[z] = Final(z)
  PROVE  ItemInv(g, item)'
  <1>0. /\ ItemInv(g, item)
        /\ \A w \in DOMAIN CellsOf(item) : PlaceInC(g, CellsOf(item)[w]) \in DOMAIN C
    <2>1. SumInv(g) /\ IsJob(ThisJob) /\ DOMAIN C = 0..(M * N - 1) /\ layer.platform # "CPU"
      BY DEF KernelInv, AccInv, BufferInv
    <2>2. \A w \in DOMAIN CellsOf(item) : CellsOf(item)[w] \in Cells
      BY <2>1, CellsAreShared
    <2> QED BY <2>1, <2>2, CellPlace DEF SumInv
  <1>1. K' = K /\ \A z : CellsOf(z)' = CellsOf(z)
    BY SameJob
  <1>2. /\ \A row, col, m : ProductsUpTo(row, col, m)' = ProductsUpTo(row, col, m)
        /\ \A z : Final(z)' = Final(z)
        /\ \A a : Progress(a)' = Progress(a)
        /\ \A cell : PlaceInC(g, cell)' = PlaceInC(g, cell)
    BY SameSums
  <1>3. at[g][item].pc # "store" => at[g][item].tile < K \div TS
    BY <1>0 DEF ItemInv
  <1>4. at[g][item].pc = "compute" => at[g][item].n <= TS + 1
    BY <1>0 DEF ItemInv
  <1>5. DOMAIN acc[g][item] = DOMAIN CellsOf(item)
    BY <1>0 DEF ItemInv
  <1>6. ASSUME NEW w \in DOMAIN CellsOf(item)
        PROVE  /\ acc'[g][item][w] = ProductsUpTo(RowOf(g, CellsOf(item)[w]), ColumnOf(g, CellsOf(item)[w]), Progress(at[g][item]))
               /\ at[g][item].pc = "store" /\ w < at[g][item].n =>
                    C'[PlaceInC(g, CellsOf(item)[w])] = Final(PlaceInC(g, CellsOf(item)[w]))
    <2>1. C[PlaceInC(g, CellsOf(item)[w])] = Final(PlaceInC(g, CellsOf(item)[w])) =>
            C'[PlaceInC(g, CellsOf(item)[w])] = Final(PlaceInC(g, CellsOf(item)[w]))
      BY <1>0
    <2> QED BY <1>0, <2>1 DEF ItemInv
  <1>7. Progress(at[g][item])' = Progress(at[g][item])
    BY <1>1 DEF Progress
  <1>8. \A cell : RowOf(g, cell)' = RowOf(g, cell) /\ ColumnOf(g, cell)' = ColumnOf(g, cell)
    BY DEF RowOf, ColumnOf
  <1> QED BY <1>1, <1>2, <1>3, <1>4, <1>5, <1>6, <1>7, <1>8 DEF ItemInv

LEMMA GroupMoves ==
  ASSUME layer \in LayerSet, KernelInv, AccInv, stage = "kernel", NEW g \in Groups, UNCHANGED <<layer, outs, A, B, D>>,
         DOMAIN C' = DOMAIN C, DOMAIN acc' = Groups, DOMAIN acc'[g] = Items,
         \A z \in DOMAIN C : C[z] = Final(z) => C'[z] = Final(z),
         \A h \in Groups \ {g} : at'[h] = at[h] /\ acc'[h] = acc[h],
         \A item \in Items : ItemInv(g, item)'
  PROVE  AccInv'
  <1>1. ThisJob' = ThisJob /\ K' = K /\ M' = M /\ N' = N /\ Groups' = Groups /\ Items' = Items
    BY SameJob
  <1>2. IsJob(ThisJob) /\ BufferInv /\ \A h \in Groups : SumInv(h)
    BY DEF AccInv
  <1>3. BufferInv'
    BY <1>1, <1>2 DEF BufferInv
  <1>4. ASSUME NEW h \in Groups PROVE SumInv(h)'
    <2>1. CASE h = g
      BY <1>1, <2>1 DEF SumInv
    <2>2. CASE h # g
      <3>1. at'[h] = at[h] /\ acc'[h] = acc[h] /\ DOMAIN acc[h] = Items
        BY <1>2, <2>2 DEF SumInv
      <3>2. \A item \in Items : ItemInv(h, item)'
        BY <3>1, ItemStays
      <3> QED BY <1>1, <3>1, <3>2 DEF SumInv
    <2> QED BY <2>1, <2>2
  <1>5. IsJob(ThisJob)'
    BY <1>1, <1>2 DEF IsJob
  <1> QED BY <1>1, <1>3, <1>4, <1>5 DEF AccInv

LEMMA LoadCellSums ==
  ASSUME layer \in LayerSet, KernelInv, AccInv, stage = "kernel", NEW g \in Groups, NEW item \in Items, LoadCell(g, item)
  PROVE  AccInv'
  <1>1. DeviceTypes /\ DOMAIN acc = Groups /\ SumInv(g)
    BY DEF KernelInv, AccInv
  <1>2. PICK n \in Nat \ {0} : n = at[g][item].n
    BY <1>1 DEF DeviceTypes, Places
  <1>3. /\ at[g][item].pc = "load" /\ at' = [at EXCEPT ![g][item].n = n + 1]
        /\ UNCHANGED <<layer, outs, A, B, C, D, acc>>
    BY <1>2 DEF LoadCell, IsAt, StepOf
  <1>4. /\ K' = K /\ \A z : CellsOf(z)' = CellsOf(z)
    BY <1>3, SameJob
  <1>5. /\ \A z \in Items \ {item} : at'[g][z] = at[g][z]
        /\ at'[g][item].pc = "load" /\ at'[g][item].tile = at[g][item].tile
        /\ \A h \in Groups \ {g} : at'[h] = at[h]
    BY <1>1, <1>3 DEF DeviceTypes, Places
  <1>6. /\ \A row, col, m : ProductsUpTo(row, col, m)' = ProductsUpTo(row, col, m)
        /\ \A z : Final(z)' = Final(z)
    BY <1>3, SameSums
  <1>7. ItemInv(g, item)'
    <2>1. Progress(at[g][item])' = Progress(at[g][item])
      BY <1>3, <1>5 DEF Progress
    <2>2. ItemInv(g, item)
      BY <1>1 DEF SumInv
    <2>3. \A cell : RowOf(g, cell)' = RowOf(g, cell) /\ ColumnOf(g, cell)' = ColumnOf(g, cell)
      BY DEF RowOf, ColumnOf
    <2> QED BY <1>3, <1>4, <1>5, <1>6, <2>1, <2>2, <2>3 DEF ItemInv
  <1>8. \A z \in Items : ItemInv(g, z)'
    <2> SUFFICES ASSUME NEW z \in Items, z # item PROVE ItemInv(g, z)'
      BY <1>7
    <2>1. at'[g][z] = at[g][z]
      BY <1>1, <1>5 DEF SumInv
    <2> QED BY <1>3, <2>1, ItemStays
  <1>9. DOMAIN acc'[g] = Items
    BY <1>1, <1>3 DEF SumInv
  <1> QED BY <1>1, <1>3, <1>5, <1>8, <1>9, GroupMoves

LEMMA ComputeSums ==
  ASSUME layer \in LayerSet, KernelInv, AccInv, stage = "kernel", NEW g \in Groups, NEW item \in Items, Compute(g, item)
  PROVE  AccInv'
  <1>1. DeviceTypes /\ TileInv(g) /\ DOMAIN acc = Groups /\ SumInv(g) /\ IsJob(ThisJob) /\ layer.platform # "CPU"
    BY DEF KernelInv, AccInv
  <1>2. PICK n \in Nat \ {0} : n = at[g][item].n
    BY <1>1 DEF DeviceTypes, Places
  <1>3. PICK t \in Nat : Together(g, "compute", t) /\ \A cell \in Cells : Current(g, t, cell)
    BY <1>1 DEF TileInv, Together, Compute, IsAt
  <1>4. at[g][item].tile = t /\ at[g][item].pc = "compute"
    BY <1>3 DEF Together
  <1> DEFINE sum(w) == acc[g][item][w] \cup Product(Asub[g][<<n - 1, CellsOf(item)[w][2]>>],
                                                    Bsub[g][<<CellsOf(item)[w][1], n - 1>>])
  <1>5. /\ n <= TS /\ at' = [at EXCEPT ![g][item].n = n + 1]
        /\ acc' = [acc EXCEPT ![g][item] = [w \in DOMAIN acc[g][item] |-> sum(w)]]
        /\ UNCHANGED <<layer, outs, A, B, C, D>>
    BY <1>2 DEF Compute, IsAt, StepOf
  <1>6. /\ K' = K /\ \A z : CellsOf(z)' = CellsOf(z)
    BY <1>5, SameJob
  <1>7. /\ \A z \in Items \ {item} : at'[g][z] = at[g][z]
        /\ at'[g][item].pc = "compute" /\ at'[g][item].tile = t /\ at'[g][item].n = n + 1
        /\ \A h \in Groups \ {g} : at'[h] = at[h]
    BY <1>1, <1>4, <1>5 DEF DeviceTypes, Places
  <1>8. ItemInv(g, item) /\ DOMAIN acc[g] = Items
    BY <1>1 DEF SumInv
  <1>9. /\ DOMAIN acc' = Groups /\ DOMAIN acc'[g] = Items
        /\ \A h \in Groups \ {g} : acc'[h] = acc[h]
        /\ \A z \in Items \ {item} : acc'[g][z] = acc[g][z]
        /\ acc'[g][item] = [w \in DOMAIN CellsOf(item) |-> sum(w)]
    <2>1. DOMAIN acc[g][item] = DOMAIN CellsOf(item)
      BY <1>8 DEF ItemInv
    <2> HIDE DEF sum
    <2> QED BY <1>1, <1>5, <1>8, <2>1
  <1>10. ASSUME NEW w \in DOMAIN CellsOf(item)
         PROVE  sum(w) = ProductsUpTo(RowOf(g, CellsOf(item)[w]), ColumnOf(g, CellsOf(item)[w]), TS * t + n)
    <2>1. PICK cell \in Cells : cell = CellsOf(item)[w]
      BY <1>1, CellsAreShared
    <2>2. PICK c \in 0..(TS - 1), r \in 0..(TS - 1) : cell = <<c, r>>
      BY <2>1 DEF Cells
    <2> DEFINE k == n - 1
               m == TS * t + k
               row == RowOf(g, cell)
               col == ColumnOf(g, cell)
    <2>3. TS \in Nat \ {0} /\ M \in Nat \ {0} /\ K \in Nat \ {0}
      BY <1>1, SizesOfMatrices
    <2>4. k \in 0..(TS - 1) /\ m \in Nat
      BY <1>5, <2>3
    <2>5. <<k, r>> \in Cells /\ <<c, k>> \in Cells
      BY <2>4 DEF Cells
    <2>6. Current(g, t, <<k, r>>) /\ Current(g, t, <<c, k>>)
      BY <1>3, <2>5
    <2>7. /\ Asub[g][<<k, r>>] = A[(TS * t + k) * M + TS * g[1] + r]
          /\ Bsub[g][<<c, k>>] = B[(TS * g[2] + c) * K + TS * t + k]
      BY <2>6 DEF Current
    <2>8. g[1] \in Int /\ g[2] \in Int
      BY DEF Groups
    <2>9. (TS * t + k) * M + TS * g[1] + r = m * M + col
      <3>1. (TS * t + k) * M \in Int /\ TS * g[1] \in Int
        BY <2>3, <2>4, <2>8
      <3> QED BY <2>2, <3>1 DEF ColumnOf
    <2>10. (TS * g[2] + c) * K + TS * t + k = row * K + m
      <3>1. (TS * g[2] + c) * K \in Int /\ TS * t \in Int
        BY <2>3, <2>8
      <3> QED BY <2>2, <2>4, <3>1 DEF RowOf
    <2>11. Progress(at[g][item]) = m
      BY <1>2, <1>4 DEF Progress
    <2>12. acc[g][item][w] = ProductsUpTo(row, col, m)
      BY <1>8, <2>1, <2>11 DEF ItemInv
    <2>13. sum(w) = ProductsUpTo(row, col, m) \cup Product(A[m * M + col], B[row * K + m])
      BY <2>1, <2>2, <2>7, <2>9, <2>10, <2>12
    <2>14. m + 1 = TS * t + n
      BY <2>3
    <2> HIDE DEF m, row, col, sum
    <2>15. sum(w) = ProductsUpTo(row, col, m + 1)
      BY <2>4, <2>13, OneMoreProduct
    <2> QED BY <2>1, <2>14, <2>15 DEF row, col
  <1> HIDE DEF sum
  <1>11. ItemInv(g, item)'
    <2>1. Progress(at[g][item])' = TS * t + n
      <3>1. TS \in Nat \ {0}
        BY <1>1, SizesOfMatrices
      <3>2. (n + 1) - 1 = n
        OBVIOUS
      <3> QED BY <1>7, <3>2 DEF Progress
    <2>2. /\ \A row, col, m : ProductsUpTo(row, col, m)' = ProductsUpTo(row, col, m)
      BY <1>5, SameSums
    <2>3. \A cell : RowOf(g, cell)' = RowOf(g, cell) /\ ColumnOf(g, cell)' = ColumnOf(g, cell)
      BY DEF RowOf, ColumnOf
    <2>4. n + 1 <= TS + 1 /\ t < K \div TS
      BY <1>4, <1>5, <1>8, TSAssumption DEF ItemInv, TSAssumption
    <2>5. \A w \in DOMAIN CellsOf(item) :
            acc'[g][item][w] = ProductsUpTo(RowOf(g, CellsOf(item)[w]), ColumnOf(g, CellsOf(item)[w]), TS * t + n)
      BY <1>9, <1>10
    <2> QED BY <1>6, <1>7, <1>9, <2>1, <2>2, <2>3, <2>4, <2>5 DEF ItemInv
  <1>12. \A z \in Items : ItemInv(g, z)'
    <2> SUFFICES ASSUME NEW z \in Items, z # item PROVE ItemInv(g, z)'
      BY <1>11
    <2>1. at'[g][z] = at[g][z] /\ acc'[g][z] = acc[g][z]
      BY <1>1, <1>7, <1>9 DEF SumInv
    <2> QED BY <1>5, <2>1, ItemStays
  <1> QED BY <1>5, <1>7, <1>9, <1>12, GroupMoves

LEMMA StoreCellSums ==
  ASSUME layer \in LayerSet, KernelInv, AccInv, stage = "kernel", NEW g \in Groups, NEW item \in Items, StoreCell(g, item)
  PROVE  AccInv'
  <1>1. /\ DeviceTypes /\ DOMAIN acc = Groups /\ SumInv(g) /\ IsJob(ThisJob) /\ layer.platform # "CPU"
        /\ DOMAIN C = 0..(M * N - 1)
    BY DEF KernelInv, AccInv, BufferInv
  <1>2. PICK n \in Nat \ {0} : n = at[g][item].n
    BY <1>1 DEF DeviceTypes, Places
  <1>3. n \in DOMAIN CellsOf(item) /\ DOMAIN CellsOf(item) = 1..Len(CellsOf(item)) /\ Len(CellsOf(item)) \in Nat
    <2>1. n <= Len(CellsOf(item))
      BY <1>2 DEF StoreCell, IsAt
    <2> QED BY <1>1, <2>1, CellsAreShared
  <1>4. PICK cell \in Cells : cell = CellsOf(item)[n]
    BY <1>1, <1>3, CellsAreShared
  <1>5. PICK p : p = PlaceInC(g, cell)
    OBVIOUS
  <1>6. PICK x : x = acc[g][item][n] \cup Bias(D[TS * g[1] + cell[2]])
    OBVIOUS
  <1>7. /\ at[g][item].pc = "store" /\ at' = [at EXCEPT ![g][item].n = n + 1]
        /\ C' = [C EXCEPT ![p] = x]
        /\ UNCHANGED <<layer, outs, A, B, D, acc>>
    BY <1>2, <1>4, <1>5, <1>6 DEF StoreCell, IsAt, StepOf, PlaceInC
  <1>8. ItemInv(g, item) /\ DOMAIN acc[g] = Items
    BY <1>1 DEF SumInv
  <1>9. /\ p \in DOMAIN C /\ p \div M = RowOf(g, cell) /\ p % M = ColumnOf(g, cell)
    BY <1>1, <1>5, CellPlace
  <1>10. x = Final(p)
    <2>1. acc[g][item][n] = ProductsUpTo(RowOf(g, cell), ColumnOf(g, cell), K)
      BY <1>3, <1>4, <1>7, <1>8 DEF ItemInv, Progress
    <2> QED BY <1>6, <1>9, <2>1 DEF Final, ColumnOf
  <1>11. C'[p] = Final(p) /\ DOMAIN C' = DOMAIN C /\ \A z \in DOMAIN C : C[z] = Final(z) => C'[z] = Final(z)
    BY <1>7, <1>9, <1>10
  <1>12. /\ K' = K /\ \A z : CellsOf(z)' = CellsOf(z)
    BY <1>7, SameJob
  <1>13. /\ \A z \in Items \ {item} : at'[g][z] = at[g][z]
         /\ at'[g][item].pc = "store" /\ at'[g][item].tile = at[g][item].tile /\ at'[g][item].n = n + 1
         /\ \A h \in Groups \ {g} : at'[h] = at[h]
    BY <1>1, <1>7 DEF DeviceTypes, Places
  <1>14. /\ \A row, col, m : ProductsUpTo(row, col, m)' = ProductsUpTo(row, col, m)
         /\ \A z : Final(z)' = Final(z)
         /\ \A c : PlaceInC(g, c)' = PlaceInC(g, c)
    BY <1>7, SameSums
  <1>15. ItemInv(g, item)'
    <2>1. Progress(at[g][item])' = Progress(at[g][item])
      BY <1>7, <1>12, <1>13 DEF Progress
    <2>2. \A c : RowOf(g, c)' = RowOf(g, c) /\ ColumnOf(g, c)' = ColumnOf(g, c)
      BY DEF RowOf, ColumnOf
    <2>3. ASSUME NEW w \in DOMAIN CellsOf(item), w < n + 1
          PROVE  C'[PlaceInC(g, CellsOf(item)[w])] = Final(PlaceInC(g, CellsOf(item)[w]))
      <3>1. CASE w = n
        BY <1>4, <1>5, <1>11, <3>1
      <3>2. CASE w # n
        <4>1. w < n
          BY <1>3, <2>3, <3>2
        <4>2. C[PlaceInC(g, CellsOf(item)[w])] = Final(PlaceInC(g, CellsOf(item)[w]))
          BY <1>2, <1>7, <1>8, <4>1 DEF ItemInv
        <4>3. PlaceInC(g, CellsOf(item)[w]) \in DOMAIN C
          <5>1. CellsOf(item)[w] \in Cells
            BY <1>1, CellsAreShared
          <5> QED BY <1>1, <5>1, CellPlace
        <4> QED BY <1>11, <4>2, <4>3
      <3> QED BY <3>1, <3>2
    <2>4. /\ acc'[g][item] = acc[g][item] /\ DOMAIN acc[g][item] = DOMAIN CellsOf(item)
          /\ \A w \in DOMAIN CellsOf(item) :
               acc[g][item][w] = ProductsUpTo(RowOf(g, CellsOf(item)[w]), ColumnOf(g, CellsOf(item)[w]), Progress(at[g][item]))
      BY <1>7, <1>8 DEF ItemInv
    <2> QED BY <1>12, <1>13, <1>14, <2>1, <2>2, <2>3, <2>4 DEF ItemInv
  <1>16. \A z \in Items : ItemInv(g, z)'
    <2> SUFFICES ASSUME NEW z \in Items, z # item PROVE ItemInv(g, z)'
      BY <1>15
    <2>1. at'[g][z] = at[g][z] /\ acc'[g][z] = acc[g][z]
      BY <1>7, <1>13
    <2> QED BY <1>7, <1>11, <2>1, ItemStays
  <1> QED BY <1>1, <1>7, <1>8, <1>11, <1>13, <1>16, GroupMoves

LEMMA LoadedSums ==
  ASSUME layer \in LayerSet, KernelInv, AccInv, stage = "kernel", NEW g \in Groups, TileIsLoaded(g)
  PROVE  AccInv'
  <1>1. DeviceTypes /\ DOMAIN acc = Groups /\ SumInv(g) /\ IsJob(ThisJob)
    BY DEF KernelInv, AccInv
  <1>2. UNCHANGED <<stage, layer, outs, A, B, C, D, acc>>
    BY DEF TileIsLoaded
  <1>3. Arrived(g, "load") = Items /\ LeaveLoad(g) = Items
    BY DEF TileIsLoaded, LeaveLoad
  <1>4. at' = [at EXCEPT ![g] = [item \in Items |-> Started(@[item])]]
    BY <1>3 DEF TileIsLoaded
  <1>5. /\ \A z \in Items : at'[g][z].pc = "compute" /\ at'[g][z].tile = at[g][z].tile /\ at'[g][z].n = 1
        /\ \A h \in Groups \ {g} : at'[h] = at[h]
    <2>1. at[g] \in [Items -> Places]
      BY <1>1 DEF DeviceTypes
    <2>2. /\ \A z \in Items : at'[g][z] = Started(at[g][z])
          /\ \A h \in Groups \ {g} : at'[h] = at[h]
      BY <1>1, <1>4 DEF DeviceTypes
    <2> QED BY <2>1, <2>2, PlaceOfNext
  <1>6. \A item \in Items : at[g][item].pc = "load"
    BY <1>3 DEF Arrived
  <1>7. ASSUME NEW item \in Items PROVE ItemInv(g, item)'
    <2>1. ItemInv(g, item)
      BY <1>1 DEF SumInv
    <2>2. TS \in Nat \ {0} /\ at[g][item].tile \in Nat
      BY <1>1, TSAssumption DEF TSAssumption, DeviceTypes, Places
    <2>3. Progress(at[g][item])' = Progress(at[g][item])
      <3>1. Progress(at[g][item]) = TS * at[g][item].tile
        BY <1>6 DEF Progress
      <3>2. Progress(at[g][item])' = TS * at[g][item].tile + 0
        BY <1>5 DEF Progress
      <3> QED BY <2>2, <3>1, <3>2
    <2>4. \A c : RowOf(g, c)' = RowOf(g, c) /\ ColumnOf(g, c)' = ColumnOf(g, c)
      BY DEF RowOf, ColumnOf
    <2>5. /\ K' = K /\ \A z : CellsOf(z)' = CellsOf(z)
          /\ \A row, col, m : ProductsUpTo(row, col, m)' = ProductsUpTo(row, col, m)
      BY <1>2, SameJob, SameSums
    <2> QED BY <1>2, <1>5, <1>6, <2>1, <2>2, <2>3, <2>4, <2>5 DEF ItemInv
  <1> QED BY <1>1, <1>2, <1>5, <1>7, GroupMoves DEF SumInv

(* After the last tile all numbers of a row and a column are multiplied.   *)
LEMMA NextSums ==
  ASSUME layer \in LayerSet, KernelInv, AccInv, stage = "kernel", NEW g \in Groups, NextTile(g)
  PROVE  AccInv'
  <1>1. DeviceTypes /\ DOMAIN acc = Groups /\ SumInv(g) /\ IsJob(ThisJob) /\ layer.platform # "CPU"
    BY DEF KernelInv, AccInv
  <1>2. UNCHANGED <<stage, layer, outs, A, B, C, D, acc>>
    BY DEF NextTile
  <1>3. Arrived(g, "compute") = Items /\ LeaveCompute(g) = Items
    BY DEF NextTile, LeaveCompute
  <1>4. at' = [at EXCEPT ![g] = [item \in Items |-> Continued(@[item])]]
    BY <1>3 DEF NextTile
  <1>5. /\ \A z \in Items : at'[g][z] = Continued(at[g][z]) /\ at[g][z] \in Places
        /\ \A h \in Groups \ {g} : at'[h] = at[h]
    BY <1>1, <1>4 DEF DeviceTypes
  <1>6. \A item \in Items : at[g][item].pc = "compute" /\ at[g][item].n > TS
    BY <1>3 DEF Arrived, StepsIn
  <1>7. ASSUME NEW item \in Items PROVE ItemInv(g, item)'
    <2>1. ItemInv(g, item)
      BY <1>1 DEF SumInv
    <2> DEFINE t == at[g][item].tile
    <2>2. TS \in Nat \ {0} /\ t \in Nat /\ at[g][item].n \in Nat
      BY <1>5, TSAssumption DEF TSAssumption, Places
    <2>3. t < K \div TS /\ at[g][item].n = TS + 1
      BY <1>6, <2>1, <2>2 DEF ItemInv
    <2>4. K \div TS \in Nat /\ K = (K \div TS) * TS
      BY <1>1, SizesOfMatrices
    <2>5. Progress(at[g][item]) = TS * t + TS
      BY <1>6, <2>2, <2>3 DEF Progress
    <2>6. \A c : RowOf(g, c)' = RowOf(g, c) /\ ColumnOf(g, c)' = ColumnOf(g, c)
      BY DEF RowOf, ColumnOf
    <2>7. /\ K' = K /\ \A z : CellsOf(z)' = CellsOf(z)
          /\ \A row, col, m : ProductsUpTo(row, col, m)' = ProductsUpTo(row, col, m)
      BY <1>2, SameJob, SameSums
    <2>8. at'[g][item] = Continued(at[g][item]) /\ at[g][item] \in Places
      BY <1>5
    <2> HIDE DEF t
    <2>9. CASE t + 1 < K \div TS
      <3>1. at'[g][item].pc = "load" /\ at'[g][item].tile = t + 1 /\ at'[g][item].n = 1
        BY <2>8, <2>9, PlaceOfNext DEF t
      <3>2. Progress(at[g][item])' = Progress(at[g][item])
        <4>1. Progress(at[g][item])' = TS * (t + 1)
          BY <3>1 DEF Progress
        <4>2. TS * (t + 1) = TS * t + TS
          BY <2>2
        <4> QED BY <2>5, <4>1, <4>2
      <3> QED BY <1>2, <2>1, <2>6, <2>7, <2>9, <3>1, <3>2 DEF ItemInv
    <2>10. CASE ~ (t + 1 < K \div TS)
      <3>1. at'[g][item].pc = "store" /\ at'[g][item].n = 1
        BY <2>8, <2>10, PlaceOfNext DEF t
      <3>2. Progress(at[g][item])' = Progress(at[g][item])
        <4>1. Progress(at[g][item])' = K
          BY <2>7, <3>1 DEF Progress
        <4>2. t + 1 = K \div TS
          BY <2>2, <2>3, <2>4, <2>10 DEF t
        <4>3. K = (t + 1) * TS
          BY <2>4, <4>2
        <4>4. (t + 1) * TS = TS * t + TS
          BY <2>2
        <4> QED BY <2>5, <4>1, <4>3, <4>4
      <3>3. \A w \in DOMAIN CellsOf(item) : ~ (w < 1)
        <4>1. DOMAIN CellsOf(item) = 1..Len(CellsOf(item)) /\ Len(CellsOf(item)) \in Nat
          BY <1>1, CellsAreShared
        <4> QED BY <4>1
      <3> QED BY <1>2, <2>1, <2>6, <2>7, <3>1, <3>2, <3>3 DEF ItemInv
    <2> QED BY <2>9, <2>10
  <1> QED BY <1>1, <1>2, <1>5, <1>7, GroupMoves DEF SumInv

LEMMA EnqueuedSums ==
  ASSUME layer \in LayerSet, IsJob(ThisJob), EnqueueKernel
  PROVE  AccInv'
  <1>1. layer.platform # "CPU" /\ UNCHANGED <<layer, outs>>
    BY DEF EnqueueKernel
  <1>2. /\ ThisJob' = ThisJob /\ K' = K /\ M' = M /\ N' = N
        /\ Groups' = Groups /\ Items' = Items
        /\ \A z : CellsOf(z)' = CellsOf(z)
    BY <1>1, SameJob
  <1>3. /\ at' = [g \in Groups |-> [item \in Items |-> [pc |-> "load", tile |-> 0, n |-> 1]]]
        /\ acc' = [g \in Groups |-> [item \in Items |-> [w \in DOMAIN CellsOf(item) |-> {}]]]
        /\ DOMAIN C' = 0..(M * N - 1)
    BY DEF EnqueueKernel
  <1>4. BufferInv'
    BY <1>2, <1>3 DEF EnqueueKernel, BufferInv
  <1>5. ASSUME NEW g \in Groups PROVE SumInv(g)'
    <2>1. ASSUME NEW item \in Items PROVE ItemInv(g, item)'
      <3>1. at'[g][item] = [pc |-> "load", tile |-> 0, n |-> 1] /\ acc'[g][item] = [w \in DOMAIN CellsOf(item) |-> {}]
        BY <1>3
      <3>2. TS \in Nat \ {0} /\ K \div TS \in Nat \ {0}
        BY SizesOfMatrices
      <3>3. Progress(at[g][item])' = 0
        <4>1. Progress(at[g][item])' = TS * 0
          BY <3>1 DEF Progress
        <4> QED BY <3>2, <4>1
      <3>4. \A row, col : ProductsUpTo(row, col, 0)' = {}
        <4>1. 0..(0 - 1) = {}
          OBVIOUS
        <4> QED BY <4>1 DEF ProductsUpTo
      <3> QED BY <1>2, <3>1, <3>2, <3>3, <3>4 DEF ItemInv
    <2> QED BY <1>2, <1>3, <2>1 DEF SumInv
  <1>6. IsJob(ThisJob)'
    BY <1>2 DEF IsJob
  <1> QED BY <1>2, <1>3, <1>4, <1>5, <1>6 DEF AccInv

LEMMA KernelSums ==
  ASSUME layer \in LayerSet, KernelInv, AccInv, Kernel
  PROVE  AccInv'
  <1>1. PICK g \in DOMAIN at : \/ \E item \in Items : LoadCell(g, item) \/ Compute(g, item) \/ StoreCell(g, item)
                               \/ TileIsLoaded(g) \/ NextTile(g)
    BY DEF Kernel
  <1>2. stage = "kernel"
    BY <1>1 DEF LoadCell, Compute, StoreCell, TileIsLoaded, NextTile, IsAt
  <1>3. g \in Groups
    BY <1>1, <1>2 DEF KernelInv, DeviceTypes
  <1> QED BY <1>1, <1>2, <1>3, LoadCellSums, ComputeSums, StoreCellSums, LoadedSums, NextSums

-----------------------------------------------------------------------------
(* The product of the matrices, as the host reads it.                      *)
Multiplied(job, f, p) ==
  (UNION {Product(job.we[f * KSize(job) + k], Im2Col(job)[k * NSize(job) + p]) : k \in 0..(KSize(job) - 1)})
  \cup Bias(job.b[f])
MatrixProduct(job) ==
  [o \in 0..(NSize(job) * job.filters - 1) |-> Multiplied(job, o \div NSize(job), o % NSize(job))]

(* The padding of the matrices adds nothing. *)
LEMMA PaddingAddsNothing ==
  ASSUME IsJob(ThisJob), BufferInv, NEW f \in 0..(ThisJob.filters - 1), NEW p \in 0..(NSize(ThisJob) - 1)
  PROVE  f \in 0..(M - 1) /\ p \in 0..(N - 1) /\ Final(p * M + f) = Multiplied(ThisJob, f, p)
  <1> DEFINE ks == KSize(ThisJob)
             ns == NSize(ThisJob)
             fs == ThisJob.filters
             we == ThisJob.we
             cols == Im2Col(ThisJob)
             weights(k) == IF k < ks THEN we[f * ks + k] ELSE Zero
             numbers(k) == IF k < ks THEN cols[k * ns + p] ELSE Zero
             sum == UNION {Product(we[f * ks + k], cols[k * ns + p]) : k \in 0..(ks - 1)}
  <1>1. /\ ks \in Nat \ {0} /\ ns \in Nat \ {0} /\ fs \in Nat \ {0}
        /\ K = Padded(ks) /\ M = Padded(fs) /\ N = Padded(ns)
    BY SizesOfJob DEF IsJob, K, M, N
  <1>2. /\ K \in Nat \ {0} /\ M \in Nat \ {0} /\ N \in Nat \ {0}
        /\ ks <= K /\ fs <= M /\ ns <= N
    BY SizesOfMatrices
  <1>3. /\ A = Transpose(K, M, AddPadding(ks, fs, we)) /\ B = Transpose(N, K, AddPadding(ns, ks, cols))
        /\ D = [z \in 0..(M - 1) |-> IF z < fs THEN ThisJob.b[z] ELSE Zero]
    BY DEF BufferInv
  <1>4. f \in 0..(M - 1) /\ p \in 0..(N - 1) /\ f < fs /\ p < ns
    BY <1>1, <1>2
  <1> HIDE DEF ks, ns, fs, we, cols
  <1>5. ASSUME NEW k \in 0..(K - 1) PROVE A[k * M + f] = weights(k)
    <2>1. k * M + f \in 0..(K * M - 1) /\ (k * M + f) \div M = k /\ (k * M + f) % M = f
      BY <1>2, <1>4, PairIs
    <2>2. A[k * M + f] = AddPadding(ks, fs, we)[f * K + k]
      BY <1>3, <2>1 DEF Transpose
    <2>3. f * K + k \in 0..(M * K - 1) /\ (f * K + k) \div K = f /\ (f * K + k) % K = k
      BY <1>2, <1>4, PairIs
    <2>4. M * K = K * M
      BY <1>2
    <2>5. AddPadding(ks, fs, we) = [z \in 0..(K * M - 1) |->
            IF z % K < ks /\ z \div K < fs THEN we[(z \div K) * ks + (z % K)] ELSE Zero]
      BY <1>1 DEF AddPadding
    <2> QED BY <1>4, <2>2, <2>3, <2>4, <2>5
  <1>6. ASSUME NEW k \in 0..(K - 1) PROVE B[p * K + k] = numbers(k)
    <2>1. p * K + k \in 0..(N * K - 1) /\ (p * K + k) \div K = p /\ (p * K + k) % K = k
      BY <1>2, <1>4, PairIs
    <2>2. B[p * K + k] = AddPadding(ns, ks, cols)[k * N + p]
      BY <1>3, <2>1 DEF Transpose
    <2>3. k * N + p \in 0..(K * N - 1) /\ (k * N + p) \div N = k /\ (k * N + p) % N = p
      BY <1>2, <1>4, PairIs
    <2>4. N * K = K * N
      BY <1>2
    <2>5. AddPadding(ns, ks, cols) = [z \in 0..(N * K - 1) |->
            IF z % N < ns /\ z \div N < ks THEN cols[(z \div N) * ns + (z % N)] ELSE Zero]
      BY <1>1 DEF AddPadding
    <2> QED BY <1>4, <2>2, <2>3, <2>4, <2>5
  <1>7. (p * M + f) \div M = p /\ (p * M + f) % M = f
    BY <1>2, <1>4, QuotientIs
  <1>8. D[f] = ThisJob.b[f]
    BY <1>3, <1>4
  <1>9. Product(Zero, Zero) = {}
    BY DEF Product, Zero, Garbage
  <1>10. \A k \in 0..(K - 1) : Product(A[k * M + f], B[p * K + k]) =
           IF k < ks THEN Product(we[f * ks + k], cols[k * ns + p]) ELSE {}
    BY <1>5, <1>6, <1>9
  <1>11. ProductsUpTo(p, f, K) = sum
    <2>1. 0..(ks - 1) = {k \in 0..(K - 1) : k < ks}
      BY <1>1, <1>2
    <2> QED BY <1>10, <2>1 DEF ProductsUpTo
  <1>12. Final(p * M + f) = ProductsUpTo(p, f, K) \cup Bias(D[f])
    BY <1>7 DEF Final
  <1>13. Multiplied(ThisJob, f, p) = sum \cup Bias(ThisJob.b[f])
    BY DEF Multiplied, ks, ns, we, cols
  <1> HIDE DEF sum
  <1> QED BY <1>4, <1>8, <1>11, <1>12, <1>13

(* When all work-items have stored, every number of C is written. *)
LEMMA AllIsStored ==
  ASSUME layer \in LayerSet, KernelInv, AccInv, stage = "kernel", \A g \in Groups : Arrived(g, "store") = Items,
         NEW row \in 0..(N - 1), NEW col \in 0..(M - 1)
  PROVE  C[row * M + col] = Final(row * M + col)
  <1>1. IsJob(ThisJob) /\ layer.platform # "CPU" /\ DeviceTypes /\ \A g \in Groups : SumInv(g)
    BY DEF KernelInv, AccInv
  <1> DEFINE mt == M \div TS
             nt == N \div TS
  <1>2. /\ M \in Nat \ {0} /\ mt \in Nat \ {0} /\ M = mt * TS
        /\ N \in Nat \ {0} /\ nt \in Nat \ {0} /\ N = nt * TS /\ TS \in Nat \ {0}
    BY <1>1, SizesOfMatrices
  <1>3. Groups = (0..(mt - 1)) \X (0..(nt - 1))
    BY DEF Groups
  <1> HIDE DEF mt, nt
  <1>4. /\ row \div TS \in 0..(nt - 1) /\ row % TS \in 0..(TS - 1) /\ row = (row \div TS) * TS + (row % TS)
        /\ col \div TS \in 0..(mt - 1) /\ col % TS \in 0..(TS - 1) /\ col = (col \div TS) * TS + (col % TS)
    <2>1. row \in 0..(nt * TS - 1) /\ col \in 0..(mt * TS - 1) /\ row \in Nat /\ col \in Nat
      BY <1>2
    <2> QED BY <1>2, <2>1, QuotientBelow, Divides
  <1>5. PICK q1, q2, r1, r2 : q1 = row \div TS /\ q2 = col \div TS /\ r1 = row % TS /\ r2 = col % TS
    OBVIOUS
  <1>6. PICK g : g = <<q2, q1>>
    OBVIOUS
  <1>7. PICK cell : cell = <<r1, r2>>
    OBVIOUS
  <1>8. g \in Groups /\ cell \in Cells
    BY <1>3, <1>4, <1>5, <1>6, <1>7 DEF Cells
  <1>9. RowOf(g, cell) = row /\ ColumnOf(g, cell) = col
    <2>1. TS * q1 = q1 * TS /\ TS * q2 = q2 * TS
      BY <1>2, <1>4, <1>5
    <2> QED BY <1>4, <1>5, <1>6, <1>7, <2>1 DEF RowOf, ColumnOf
  <1>10. PICK item \in Items : \E w \in DOMAIN CellsOf(item) : CellsOf(item)[w] = cell
    BY <1>1, <1>8, CellsAreShared
  <1>11. PICK w \in DOMAIN CellsOf(item) : CellsOf(item)[w] = cell
    BY <1>10
  <1>12. at[g][item].pc = "store" /\ at[g][item].n > Len(CellsOf(item))
    <2>1. item \in Arrived(g, "store")
      BY <1>8
    <2> QED BY <2>1 DEF Arrived, StepsIn
  <1>13. w < at[g][item].n
    <2>1. w \in 1..Len(CellsOf(item)) /\ Len(CellsOf(item)) \in Nat /\ at[g][item].n \in Nat
      BY <1>1, <1>8, CellsAreShared DEF DeviceTypes, Places
    <2> QED BY <1>12, <2>1
  <1>14. ItemInv(g, item)
    BY <1>1, <1>8 DEF SumInv
  <1>15. C[PlaceInC(g, cell)] = Final(PlaceInC(g, cell))
    BY <1>11, <1>12, <1>13, <1>14 DEF ItemInv
  <1>16. PlaceInC(g, cell) = row * M + col
    BY <1>1, <1>8, <1>9, CellPlace
  <1> QED BY <1>15, <1>16

LEMMA ResultIsProduct ==
  ASSUME layer \in LayerSet, KernelInv, AccInv, stage = "kernel", \A g \in Groups : Arrived(g, "store") = Items
  PROVE  RemovePadding(NSize(ThisJob), ThisJob.filters, Transpose(M, N, C)) = MatrixProduct(ThisJob)
  <1> DEFINE ns == NSize(ThisJob)
             fs == ThisJob.filters
             T == Transpose(M, N, C)
  <1>1. IsJob(ThisJob) /\ BufferInv
    BY DEF AccInv
  <1>2. /\ ns \in Nat \ {0} /\ fs \in Nat \ {0} /\ M \in Nat \ {0} /\ N \in Nat \ {0} /\ N = Padded(ns)
    BY <1>1, SizesOfJob, SizesOfMatrices DEF IsJob, N
  <1>3. \A o \in 0..(ns * fs - 1) : o \div ns \in 0..(fs - 1) /\ o % ns \in 0..(ns - 1)
    <2> HIDE DEF ns, fs
    <2> TAKE o \in 0..(ns * fs - 1)
    <2>1. o \in 0..(fs * ns - 1) /\ o \in Nat
      BY <1>2
    <2> QED BY <1>2, <2>1, QuotientBelow, Divides
  <1>4. ASSUME NEW f \in 0..(fs - 1), NEW p \in 0..(ns - 1)
        PROVE  T[f * N + p] = Multiplied(ThisJob, f, p)
    <2>1. f \in 0..(M - 1) /\ p \in 0..(N - 1) /\ Final(p * M + f) = Multiplied(ThisJob, f, p)
      BY <1>1, PaddingAddsNothing
    <2>2. C[p * M + f] = Final(p * M + f)
      BY <2>1, AllIsStored
    <2>3. f * N + p \in 0..(M * N - 1) /\ (f * N + p) \div N = f /\ (f * N + p) % N = p
      <3>1. M \in Nat /\ N \in Nat \ {0} /\ f \in 0..(M - 1) /\ p \in 0..(N - 1)
        BY <1>2, <2>1
      <3> HIDE DEF ns, fs, T
      <3> QED BY <3>1, PairIs
    <2>4. T[f * N + p] = C[p * M + f]
      BY <2>3 DEF Transpose
    <2> QED BY <2>1, <2>2, <2>4
  <1>5. RemovePadding(ns, fs, T) = [o \in 0..(ns * fs - 1) |-> T[(o \div ns) * N + (o % ns)]]
    BY <1>2 DEF RemovePadding
  <1>6. MatrixProduct(ThisJob) = [o \in 0..(ns * fs - 1) |-> Multiplied(ThisJob, o \div ns, o % ns)]
    BY DEF MatrixProduct
  <1> HIDE DEF ns, fs, T
  <1>7. \A o \in 0..(ns * fs - 1) : T[(o \div ns) * N + (o % ns)] = Multiplied(ThisJob, o \div ns, o % ns)
    BY <1>3, <1>4
  <1>8. RemovePadding(ns, fs, T) = MatrixProduct(ThisJob)
    BY <1>5, <1>6, <1>7
  <1> QED BY <1>8 DEF ns, fs, T

-----------------------------------------------------------------------------
(* The output of the k-th call of execute. *)
Result(k) ==
  IF layer.platform # "CPU" THEN MatrixProduct(Job(k))
  ELSE CASE layer.type = "conv" -> CpuConvolution(Job(k))
         [] layer.type = "maxpooling" -> CpuMaxPooling(Job(k))
         [] layer.type = "LRN" -> CpuResponseNormalization(Job(k))
         [] layer.type = "fullyConnected" -> CpuFullyConnected(Job(k), StretchInput(Job(k)), InputSize(layer))
         [] layer.type = "activation" -> CpuReLU(Job(k))
         [] layer.type = "losslayer" -> CpuSoftMaxLoss(Job(k))

ForwardInv ==
  /\ stage \in {"execute", "kernel", "computed"} => layer.groups <= 2
  /\ stage = "idle" => outs = <<>>
  /\ stage = "kernel" => Len(outs) < Calls
  /\ stage = "computed" => Len(outs) = Calls
  /\ outs \in Seq({Result(1), Result(2)}) /\ Len(outs) <= Calls
  /\ \A k \in 1..Len(outs) : outs[k] = Result(k)

ResultInv == layer \in LayerSet /\ KernelInv /\ AccInv /\ ForwardInv

LEMMA SameResults ==
  ASSUME UNCHANGED layer, NEW k
  PROVE  Result(k)' = Result(k)
  <1>1. Job(k)' = Job(k)
    BY DEF Job
  <1> QED BY <1>1 DEF Result

LEMMA ResultIsAdded ==
  ASSUME ForwardInv, Len(outs) < Calls, UNCHANGED layer, outs' = Append(outs, Result(Len(outs) + 1)),
         stage' = "execute", layer.groups <= 2
  PROVE  ForwardInv'
  <1>1. Calls \in {1, 2} /\ Calls' = Calls
    BY DEF Calls
  <1>2. \A k : Result(k)' = Result(k)
    BY SameResults
  <1>3. outs \in Seq({Result(1), Result(2)}) /\ Len(outs) \in {0, 1} /\ \A k \in 1..Len(outs) : outs[k] = Result(k)
    <2>1. outs \in Seq({Result(1), Result(2)}) /\ \A k \in 1..Len(outs) : outs[k] = Result(k)
      BY DEF ForwardInv
    <2>2. Len(outs) \in Nat
      BY <2>1
    <2>3. Len(outs) \in {0, 1}
      <3>1. \A n \in Nat, c \in {1, 2} : n < c => n \in {0, 1}
        OBVIOUS
      <3> QED BY <1>1, <2>2, <3>1
    <2> QED BY <2>1, <2>3
  <1>4. Result(Len(outs) + 1) \in {Result(1), Result(2)}
    BY <1>3
  <1>5. /\ outs' \in Seq({Result(1), Result(2)}) /\ Len(outs') = Len(outs) + 1
        /\ \A k \in 1..Len(outs') : outs'[k] = Result(k)
    BY <1>3, <1>4
  <1> QED BY <1>1, <1>2, <1>3, <1>5 DEF ForwardInv

LEMMA AlwaysResultInv ==
  ASSUME FiltersFit, GroupsDivide
  PROVE  LayersSpec => []ResultInv
  <1>1. LayersInit => AccInv /\ ForwardInv
    BY DEF LayersInit, AccInv, ForwardInv, Calls
  <1>2. ASSUME ResultInv, (layer \in LayerSet /\ KernelInv)', [LayersNext]_layersVars
        PROVE  AccInv' /\ ForwardInv'
    <2>1. layer \in LayerSet /\ KernelInv /\ AccInv /\ ForwardInv
      BY <1>2 DEF ResultInv
    <2>2. Calls \in {1, 2} /\ Len(outs) \in Nat
      BY <2>1 DEF Calls, ForwardInv
    <2>3. UNCHANGED layer => Calls' = Calls /\ \A k : Result(k)' = Result(k)
      BY SameResults DEF Calls
    <2>4. CASE Forward \/ ForwardFails \/ EnqueueFails \/ Computed
      <3>1. /\ UNCHANGED <<layer, outs>> /\ stage' \in {"execute", "thrown", "computed"}
            /\ stage' = "execute" => layer.groups <= 2
            /\ stage' = "computed" => Len(outs) = Calls /\ stage = "execute"
        BY <2>4 DEF Forward, ForwardFails, EnqueueFails, Computed, Calling
      <3> QED BY <2>1, <2>3, <3>1 DEF ForwardInv, AccInv
    <2>5. CASE ForwardAnother
      <3>1. outs' = <<>> /\ stage' = "idle"
        BY <2>5 DEF ForwardAnother
      <3> QED BY <3>1 DEF ForwardInv, AccInv, Calls
    <2>6. CASE ExecuteOnCpu
      <3>1. /\ stage = "execute" /\ Len(outs) < Calls /\ UNCHANGED <<stage, layer>> /\ layer.platform = "CPU"
        BY <2>6 DEF ExecuteOnCpu, Calling
      <3>2. outs' = Append(outs, Result(Len(outs) + 1))
        BY <2>6, <3>1 DEF ExecuteOnCpu, Result, ThisJob
      <3> QED BY <2>1, <3>1, <3>2, ResultIsAdded DEF ForwardInv, AccInv
    <2>7. CASE EnqueueKernel
      <3>1. /\ stage = "execute" /\ Len(outs) < Calls /\ UNCHANGED <<layer, outs>> /\ stage' = "kernel"
            /\ layer.platform # "CPU"
        BY <2>7 DEF EnqueueKernel, Calling
      <3>2. Len(outs) + 1 \in 1..Calls /\ layer.type = "conv" /\ layer.groups <= 2
        BY <2>1, <2>2, <3>1, LayerFacts DEF ForwardInv
      <3>3. IsJob(ThisJob)
        BY <2>1, <3>2, JobIsPart DEF ThisJob
      <3> QED BY <2>1, <2>3, <2>7, <3>1, <3>3, EnqueuedSums DEF ForwardInv
    <2>8. CASE Kernel
      <3>1. UNCHANGED <<stage, layer, outs>>
        BY <2>8 DEF Kernel, LoadCell, Compute, StoreCell, TileIsLoaded, NextTile
      <3> QED BY <2>1, <2>3, <2>8, <3>1, KernelSums DEF ForwardInv
    <2>9. CASE ReadResult
      <3>1. /\ stage = "kernel" /\ UNCHANGED layer /\ stage' = "execute"
            /\ \A g \in Groups : Arrived(g, "store") = Items
            /\ outs' = Append(outs, RemovePadding(NSize(ThisJob), ThisJob.filters, Transpose(M, N, C)))
        BY <2>9 DEF ReadResult
      <3>2. layer.platform # "CPU"
        BY <2>1, <3>1 DEF KernelInv
      <3>3. outs' = Append(outs, Result(Len(outs) + 1))
        BY <2>1, <3>1, <3>2, ResultIsProduct DEF Result, ThisJob
      <3> QED BY <2>1, <3>1, <3>3, ResultIsAdded DEF ForwardInv, AccInv
    <2>10. CASE UNCHANGED layersVars
      <3>1. UNCHANGED <<stage, layer, outs, A, B, C, D, Asub, Bsub, at, acc>>
        BY <2>10 DEF layersVars, deviceVars
      <3>2. AccInv'
        <4>1. ASSUME stage = "kernel", NEW g \in Groups PROVE AccInv'
          <5>1. DOMAIN acc = Groups /\ SumInv(g)
            BY <2>1, <4>1 DEF AccInv
          <5>2. \A item \in Items : ItemInv(g, item)'
            BY <2>1, <3>1, <4>1, ItemStays
          <5> QED BY <2>1, <3>1, <4>1, <5>1, <5>2, GroupMoves DEF SumInv
        <4>2. Groups # {} \/ stage # "kernel"
          <5>1. ASSUME stage = "kernel" PROVE Groups # {}
            <6>1. IsJob(ThisJob)
              BY <2>1, <5>1 DEF AccInv
            <6>2. M \div TS \in Nat \ {0} /\ N \div TS \in Nat \ {0}
              BY <6>1, SizesOfMatrices
            <6>3. <<0, 0>> \in Groups
              BY <6>2 DEF Groups
            <6> QED BY <6>3
          <5> QED BY <5>1
        <4> QED BY <3>1, <4>1, <4>2 DEF AccInv
      <3> QED BY <2>1, <2>3, <3>1, <3>2 DEF ForwardInv
    <2> QED BY <1>2, <2>4, <2>5, <2>6, <2>7, <2>8, <2>9, <2>10 DEF LayersNext
  <1>3. layer \in LayerSet /\ KernelInv /\ AccInv /\ ForwardInv <=> ResultInv
    BY DEF ResultInv
  <1> QED BY <1>1, <1>2, <1>3, AlwaysKernelInv, PTL DEF LayersSpec

-----------------------------------------------------------------------------
(* Places of a stack of squares: a plane, a row and a column.              *)
IsPlace(c, n, p, a, b, z) ==
  /\ z \in 0..(c * n * n - 1) /\ z = p * (n * n) + (a * n + b) /\ a * n + b \in 0..(n * n - 1)
  /\ z \div n = p * n + a /\ z % n = b /\ (z \div n) % n = a /\ (z \div n) \div n = p
  /\ z \div (n * n) = p /\ z % (n * n) = a * n + b

LEMMA TripleIs ==
  ASSUME NEW c \in Nat, NEW n \in Nat \ {0}, NEW p \in 0..(c - 1), NEW a \in 0..(n - 1), NEW b \in 0..(n - 1),
         NEW z, z = (p * n + a) * n + b
  PROVE  IsPlace(c, n, p, a, b, z)
  <1>1. p * n + a \in 0..(c * n - 1) /\ (p * n + a) \div n = p /\ (p * n + a) % n = a
    BY PairIs
  <1> DEFINE q == p * n + a
             m == c * n
             s == n * n
             r == a * n + b
  <1>2. m \in Nat /\ s \in Nat \ {0} /\ m * n = c * n * n /\ m * n = c * s
    BY ProductIsPositive
  <1>3. q \in 0..(m - 1)
    BY <1>1
  <1>4. q * n = p * s + a * n /\ p * s \in Nat /\ a * n \in Nat
    OBVIOUS
  <1>5. r \in 0..(s - 1)
    BY PairBelow
  <1> HIDE DEF q, m, s, r
  <1>6. q * n + b \in 0..(m * n - 1) /\ (q * n + b) \div n = q /\ (q * n + b) % n = b
    BY <1>2, <1>3, PairIs
  <1>7. p * s + r \in 0..(c * s - 1) /\ (p * s + r) \div s = p /\ (p * s + r) % s = r
    BY <1>2, <1>5, PairIs
  <1>8. z = q * n + b /\ z = p * s + r
    <2>1. p * s + a * n + b = p * s + (a * n + b)
      BY <1>4
    <2> QED BY <1>4, <2>1 DEF q, r
  <1> QED BY <1>1, <1>2, <1>5, <1>6, <1>7, <1>8 DEF IsPlace, q, s, r

LEMMA TripleOf ==
  ASSUME NEW c \in Nat, NEW n \in Nat \ {0}, NEW z \in 0..(c * n * n - 1)
  PROVE  \E p \in 0..(c - 1) : \E a, b \in 0..(n - 1) : z = (p * n + a) * n + b
  <1> DEFINE m == c * n
             q == z \div n
  <1>1. m \in Nat /\ z \in 0..(m * n - 1) /\ z \in Nat
    OBVIOUS
  <1> HIDE DEF m
  <1>2. q \in 0..(m - 1) /\ z % n \in 0..(n - 1) /\ z = q * n + (z % n)
    BY <1>1, QuotientBelow, Divides
  <1> HIDE DEF q
  <1>3. q \in Nat /\ q \in 0..(c * n - 1)
    BY <1>1, <1>2 DEF m
  <1>4. q \div n \in 0..(c - 1) /\ q % n \in 0..(n - 1) /\ q = (q \div n) * n + (q % n)
    BY <1>3, QuotientBelow, Divides
  <1> QED BY <1>2, <1>4

-----------------------------------------------------------------------------
(* A convolution: the addends of a number of the output.                   *)
IsAddend(job, f, y, x, e) ==
  \E ch \in 0..(job.channels - 1) : \E d1, d2 \in 0..(job.filter - 1) :
    LET row == y * job.stride - job.padding + d1
        col == x * job.stride - job.padding + d2
    IN /\ row \in 0..(job.size - 1) /\ col \in 0..(job.size - 1)
       /\ e = <<job.we[((f * job.channels + ch) * job.filter + d1) * job.filter + d2],
                job.in[(ch * job.size + row) * job.size + col]>>

LEMMA WeightPlace ==
  ASSUME NEW c \in Nat, NEW n \in Nat \ {0}, NEW m \in Nat,
         NEW f \in 0..(m - 1), NEW ch \in 0..(c - 1), NEW d1 \in 0..(n - 1), NEW d2 \in 0..(n - 1)
  PROVE  /\ ((f * c + ch) * n + d1) * n + d2 \in 0..(m * (c * n * n) - 1)
         /\ ((f * c + ch) * n + d1) * n + d2 = f * (n * n * c) + ((ch * n + d1) * n + d2)
  <1> DEFINE g == f * c + ch
             s == n * n
  <1>1. c \in Nat \ {0} /\ f \in Nat
    OBVIOUS
  <1>2. g \in 0..(m * c - 1)
    BY <1>1, PairBelow
  <1>3. m * c \in Nat
    OBVIOUS
  <1>4. (g * n + d1) * n + d2 \in 0..((m * c) * n * n - 1) /\ (g * n + d1) * n + d2 = g * s + (d1 * n + d2)
    <2> HIDE DEF g
    <2>1. IsPlace(m * c, n, g, d1, d2, (g * n + d1) * n + d2)
      BY <1>2, <1>3, TripleIs
    <2> QED BY <2>1 DEF IsPlace
  <1>5. (m * c) * n * n = m * (c * n * n)
    OBVIOUS
  <1>6. (ch * n + d1) * n + d2 = ch * s + (d1 * n + d2)
    <2>1. IsPlace(c, n, ch, d1, d2, (ch * n + d1) * n + d2)
      BY <1>1, TripleIs
    <2> QED BY <2>1 DEF IsPlace
  <1>7. g * s = (f * c) * s + ch * s /\ (f * c) * s = f * (s * c) /\ g * s \in Nat /\ ch * s \in Nat /\ f * (s * c) \in Nat
    OBVIOUS
  <1>8. d1 * n + d2 \in Nat
    OBVIOUS
  <1>9. \A u, v, w \in Nat : (u + v) + w = u + (v + w)
    OBVIOUS
  <1>10. g * s + (d1 * n + d2) = f * (s * c) + (ch * s + (d1 * n + d2))
    BY <1>7, <1>8, <1>9
  <1> QED BY <1>4, <1>5, <1>6, <1>10

LEMMA Im2ColIs ==
  ASSUME NEW job, IsJob(job), NEW ch \in 0..(job.channels - 1), NEW d1 \in 0..(job.filter - 1), NEW d2 \in 0..(job.filter - 1),
         NEW y \in 0..(OutputSize(job) - 1), NEW x \in 0..(OutputSize(job) - 1),
         NEW k, k = (ch * job.filter + d1) * job.filter + d2,
         NEW row, row = y * job.stride - job.padding + d1,
         NEW col, col = x * job.stride - job.padding + d2
  PROVE  /\ k \in 0..(KSize(job) - 1)
         /\ Im2Col(job)[k * NSize(job) + (y * OutputSize(job) + x)] =
              IF row \in 0..(job.size - 1) /\ col \in 0..(job.size - 1)
                THEN job.in[(ch * job.size + row) * job.size + col] ELSE Zero
  <1> DEFINE n == job.filter
             o == OutputSize(job)
             c == job.channels
             z == k * (o * o) + (y * o + x)
             ks == n * n * c
  <1>1. n \in Nat \ {0} /\ c \in Nat \ {0} /\ o \in Nat \ {0} /\ job.stride \in Nat /\ job.padding \in Nat
    BY SizesOfJob DEF IsJob
  <1>2. NSize(job) = o * o /\ KSize(job) = ks
    BY DEF NSize, KSize
  <1>3. ks \in Nat /\ ks = c * n * n
    BY <1>1
  <1> HIDE DEF n, o, c
  <1>4. /\ k \in 0..(c * n * n - 1) /\ k \div n = ch * n + d1 /\ k % n = d2 /\ (k \div n) % n = d1
        /\ k \div (n * n) = ch
    <2>1. ch \in 0..(c - 1) /\ d1 \in 0..(n - 1) /\ d2 \in 0..(n - 1) /\ k = (ch * n + d1) * n + d2 /\ c \in Nat
      BY <1>1 DEF n, c
    <2>2. IsPlace(c, n, ch, d1, d2, k)
      BY <1>1, <2>1, TripleIs
    <2> QED BY <2>2 DEF IsPlace
  <1>5. k \in 0..(ks - 1)
    BY <1>3, <1>4
  <1> HIDE DEF ks
  <1>6. /\ z \in 0..(ks * o * o - 1) /\ z % o = x /\ (z \div o) % o = y /\ z \div (o * o) = k
    <2>1. k \in Nat /\ (k * o + y) * o + x = z
      <3>1. k \in Nat /\ y \in Nat /\ x \in Nat
        BY <1>1, <1>3, <1>5 DEF o
      <3>2. (k * o + y) * o = k * (o * o) + y * o /\ k * (o * o) \in Nat /\ y * o \in Nat
        BY <1>1, <3>1
      <3> QED BY <3>1, <3>2
    <2>2. y \in 0..(o - 1) /\ x \in 0..(o - 1)
      BY DEF o
    <2>3. IsPlace(ks, o, k, y, x, z)
      BY <1>1, <1>3, <1>5, <2>1, <2>2, TripleIs
    <2> QED BY <2>3 DEF IsPlace
  <1> HIDE DEF z
  <1>7. Im2Col(job)[z] =
          LET cc == z \div (o * o)
              h == ((z \div o) % o) * job.stride - job.padding + ((cc \div n) % n)
              w == (z % o) * job.stride - job.padding + (cc % n)
          IN IF {h, w} \subseteq 0..(job.size - 1)
               THEN job.in[((cc \div (n * n)) * job.size + h) * job.size + w] ELSE Zero
    BY <1>6 DEF Im2Col, n, o, c, ks
  <1>8. Im2Col(job)[z] = IF {row, col} \subseteq 0..(job.size - 1)
                           THEN job.in[(ch * job.size + row) * job.size + col] ELSE Zero
    BY <1>4, <1>6, <1>7
  <1>9. {row, col} \subseteq 0..(job.size - 1) <=> row \in 0..(job.size - 1) /\ col \in 0..(job.size - 1)
    OBVIOUS
  <1>10. k * NSize(job) + (y * OutputSize(job) + x) = z
    BY <1>2 DEF z, o
  <1> QED BY <1>2, <1>5, <1>8, <1>9, <1>10

LEMMA ProductIs ==
  ASSUME NEW a \in Nat, NEW e
  PROVE  e \notin Product(a, Zero) /\ \A b \in Nat : e \in Product(a, b) <=> e = <<a, b>>
  BY DEF Product, Zero, Garbage

(* The kernels add the addends of the convolution. *)
LEMMA MultipliedIs ==
  ASSUME NEW job, IsJob(job), NEW f \in 0..(job.filters - 1),
         NEW y \in 0..(OutputSize(job) - 1), NEW x \in 0..(OutputSize(job) - 1), NEW e
  PROVE  e \in Multiplied(job, f, y * OutputSize(job) + x) <=>
           IsAddend(job, f, y, x, e) \/ e = <<-3, job.b[f]>>
  <1> DEFINE n == job.filter
             c == job.channels
             m == job.filters
             p == y * OutputSize(job) + x
             addend(k) == Product(job.we[f * KSize(job) + k], Im2Col(job)[k * NSize(job) + p])
             place(ch, d1, d2) == (ch * n + d1) * n + d2
             row(d1) == y * job.stride - job.padding + d1
             col(d2) == x * job.stride - job.padding + d2
             weight(ch, d1, d2) == job.we[((f * c + ch) * n + d1) * n + d2]
             number(ch, d1, d2) == job.in[(ch * job.size + row(d1)) * job.size + col(d2)]
             inside(d1, d2) == row(d1) \in 0..(job.size - 1) /\ col(d2) \in 0..(job.size - 1)
  <1>1. /\ n \in Nat \ {0} /\ c \in Nat \ {0} /\ m \in Nat \ {0} /\ job.stride \in Nat /\ job.padding \in Nat
        /\ job.size \in Nat \ {0} /\ KSize(job) = n * n * c /\ job.b[f] \in Nat
    BY DEF IsJob, KSize
  <1>2. e \in Multiplied(job, f, p) <=> (\E k \in 0..(KSize(job) - 1) : e \in addend(k)) \/ e \in Bias(job.b[f])
    BY DEF Multiplied
  <1>3. e \in Bias(job.b[f]) <=> e = <<-3, job.b[f]>>
    BY <1>1 DEF Bias, Product, Zero, Garbage
  <1>4. ASSUME NEW ch \in 0..(c - 1), NEW d1 \in 0..(n - 1), NEW d2 \in 0..(n - 1)
        PROVE  /\ place(ch, d1, d2) \in 0..(KSize(job) - 1)
               /\ e \in addend(place(ch, d1, d2)) <=> inside(d1, d2) /\ e = <<weight(ch, d1, d2), number(ch, d1, d2)>>
    <2>1. /\ place(ch, d1, d2) \in 0..(KSize(job) - 1)
          /\ Im2Col(job)[place(ch, d1, d2) * NSize(job) + p] = IF inside(d1, d2) THEN number(ch, d1, d2) ELSE Zero
      BY Im2ColIs
    <2>2. /\ ((f * c + ch) * n + d1) * n + d2 \in 0..(m * (c * n * n) - 1)
          /\ f * KSize(job) + place(ch, d1, d2) = ((f * c + ch) * n + d1) * n + d2
      <3> HIDE DEF addend, place, row, col, weight, number, inside, n, c, m
      <3>1. f \in 0..(m - 1) /\ c \in Nat /\ m \in Nat
        BY <1>1 DEF m
      <3>2. /\ ((f * c + ch) * n + d1) * n + d2 \in 0..(m * (c * n * n) - 1)
            /\ ((f * c + ch) * n + d1) * n + d2 = f * (n * n * c) + ((ch * n + d1) * n + d2)
        BY <1>1, <3>1, WeightPlace
      <3> QED BY <1>1, <3>2 DEF place
    <2>3. weight(ch, d1, d2) \in Nat
      BY <2>2 DEF IsJob
    <2>4. inside(d1, d2) => number(ch, d1, d2) \in Nat
      <3>1. \A a, b \in 0..(job.size - 1) : (ch * job.size + a) * job.size + b \in 0..(c * job.size * job.size - 1)
        <4> TAKE a, b \in 0..(job.size - 1)
        <4>1. IsPlace(c, job.size, ch, a, b, (ch * job.size + a) * job.size + b)
          BY <1>1, TripleIs
        <4> QED BY <4>1 DEF IsPlace
      <3> QED BY <3>1 DEF IsJob
    <2>5. addend(place(ch, d1, d2)) = Product(weight(ch, d1, d2), IF inside(d1, d2) THEN number(ch, d1, d2) ELSE Zero)
      BY <2>1, <2>2
    <2> HIDE DEF addend, place, weight, number, inside
    <2> QED BY <2>1, <2>3, <2>4, <2>5, ProductIs
  <1>5. ASSUME NEW k \in 0..(KSize(job) - 1)
        PROVE  \E ch \in 0..(c - 1) : \E d1, d2 \in 0..(n - 1) : k = place(ch, d1, d2)
    <2>1. n * n * c = c * n * n
      BY <1>1
    <2>2. k \in 0..(c * n * n - 1)
      BY <1>1, <2>1
    <2>3. c \in Nat /\ n \in Nat \ {0}
      BY <1>1
    <2> HIDE DEF n, c
    <2> QED BY <2>2, <2>3, TripleOf
  <1>6. IsAddend(job, f, y, x, e) <=>
          \E ch \in 0..(c - 1) : \E d1, d2 \in 0..(n - 1) :
            inside(d1, d2) /\ e = <<weight(ch, d1, d2), number(ch, d1, d2)>>
    BY DEF IsAddend
  <1> HIDE DEF addend, place, weight, number, inside, n, c, p
  <1>7. (\E k \in 0..(KSize(job) - 1) : e \in addend(k)) <=> IsAddend(job, f, y, x, e)
    BY <1>4, <1>5, <1>6
  <1> QED BY <1>2, <1>3, <1>7 DEF p

(* A filter of odd width, centred, takes as many steps as one from the     *)
(* corner of the padded image.                                             *)
LEMMA StepsOfCpu ==
  ASSUME NEW job, IsJob(job), job.filter % 2 = 1
  PROVE  /\ (job.filter - 1) \div 2 \in Nat /\ job.filter = 2 * ((job.filter - 1) \div 2) + 1
         /\ Steps((job.filter - 1) \div 2 - job.padding, job.size - ((job.filter - 1) \div 2 - job.padding), job.stride)
              = OutputSize(job)
  <1> DEFINE n == job.filter
             h == (n - 1) \div 2
             p == job.padding
             s == job.size
  <1>1. n \in Nat \ {0} /\ p \in Nat /\ s \in Nat \ {0} /\ n <= s + 2 * p /\ n % 2 = 1
    BY DEF IsJob
  <1>2. h \in Nat /\ n = 2 * h + 1
    BY <1>1
  <1> HIDE DEF n, h, p, s
  <1>3. h - p < s - (h - p) /\ (s - (h - p)) - (h - p) - 1 = s - n + 2 * p
    BY <1>1, <1>2
  <1>4. Steps(h - p, s - (h - p), job.stride) = (s - n + 2 * p) \div job.stride + 1
    BY <1>3 DEF Steps
  <1>5. OutputSize(job) = (s - n + 2 * p) \div job.stride + 1
    BY DEF OutputSize, n, p, s
  <1> QED BY <1>2, <1>4, <1>5 DEF n, h, p, s

(* The CPU adds the same addends. *)
LEMMA CpuConvolutionIs ==
  ASSUME NEW job, IsJob(job), job.filter % 2 = 1, NEW f \in 0..(job.filters - 1),
         NEW y \in 0..(OutputSize(job) - 1), NEW x \in 0..(OutputSize(job) - 1),
         NEW o, o = (f * OutputSize(job) + y) * OutputSize(job) + x, NEW e
  PROVE  /\ DOMAIN CpuConvolution(job) = 0..(job.filters * OutputSize(job) * OutputSize(job) - 1)
         /\ e \in CpuConvolution(job)[o] <=> IsAddend(job, f, y, x, e) \/ e = <<-3, job.b[f]>>
  <1> DEFINE n == job.filter
             c == job.channels
             s == job.size
             half == (n - 1) \div 2
             skip == half - job.padding
             steps == OutputSize(job)
             area == n * n
             inRow == skip + y * job.stride
             inCol == skip + x * job.stride
             pair(plane, d) == <<job.we[d[2] + half + (d[1] + half) * n + plane * area + f * c * area],
                                 At(job, plane, inRow + d[1], inCol + d[2])>>
             sum == UNION {{pair(plane, d) : d \in Inside(job, (-half)..half, inRow, inCol)} : plane \in 0..(c - 1)}
             row(d1) == y * job.stride - job.padding + d1
             col(d2) == x * job.stride - job.padding + d2
             weight(ch, d1, d2) == job.we[((f * c + ch) * n + d1) * n + d2]
             number(ch, d1, d2) == job.in[(ch * s + row(d1)) * s + col(d2)]
             inside(d1, d2) == row(d1) \in 0..(s - 1) /\ col(d2) \in 0..(s - 1)
  <1>1. /\ n \in Nat \ {0} /\ c \in Nat \ {0} /\ s \in Nat \ {0} /\ job.filters \in Nat \ {0}
        /\ job.stride \in Nat \ {0} /\ job.padding \in Nat /\ steps \in Nat \ {0} /\ job.b[f] \in Nat
    BY SizesOfJob DEF IsJob
  <1>2. half \in Nat /\ n = 2 * half + 1 /\ Steps(skip, s - skip, job.stride) = steps
    BY StepsOfCpu
  <1>3. /\ o \in 0..(job.filters * steps * steps - 1) /\ o \div (steps * steps) = f
        /\ (o \div steps) % steps = y /\ o % steps = x
    <2>1. IsPlace(job.filters, steps, f, y, x, o)
      <3>1. y \in 0..(steps - 1) /\ x \in 0..(steps - 1) /\ o = (f * steps + y) * steps + x /\ job.filters \in Nat
        BY <1>1
      <3> HIDE DEF steps
      <3> QED BY <1>1, <3>1, TripleIs
    <2> QED BY <2>1 DEF IsPlace
  <1>4. /\ DOMAIN CpuConvolution(job) = 0..(job.filters * steps * steps - 1)
        /\ CpuConvolution(job)[o] = sum \cup Bias(job.b[f])
    <2> DEFINE Z == job.filters * steps * steps - 1
               result(u) == LET g == u \div (steps * steps)
                                r == skip + ((u \div steps) % steps) * job.stride
                                q == skip + (u % steps) * job.stride
                            IN (UNION {{<<job.we[d[2] + half + (d[1] + half) * n + plane * area + g * c * area],
                                         At(job, plane, r + d[1], q + d[2])>>
                                         : d \in Inside(job, (-half)..half, r, q)}
                                      : plane \in 0..(c - 1)}) \cup Bias(job.b[g])
    <2>1. CpuConvolution(job) = [u \in 0..Z |-> result(u)]
      BY <1>2 DEF CpuConvolution
    <2>2. result(o) = sum \cup Bias(job.b[f])
      BY <1>3
    <2> HIDE DEF Z, result, sum
    <2>3. o \in 0..Z
      BY <1>3 DEF Z
    <2>4. CpuConvolution(job)[o] = result(o) /\ DOMAIN CpuConvolution(job) = 0..Z
      BY <2>1, <2>3
    <2> QED BY <2>2, <2>4 DEF Z
  <1>5. e \in Bias(job.b[f]) <=> e = <<-3, job.b[f]>>
    BY <1>1 DEF Bias, Product, Zero, Garbage
  <1>6. e \in sum <=> \E plane \in 0..(c - 1) : \E d \in Inside(job, (-half)..half, inRow, inCol) : e = pair(plane, d)
    <2> HIDE DEF pair
    <2> QED OBVIOUS
  <1>7. IsAddend(job, f, y, x, e) <=>
          \E ch \in 0..(c - 1) : \E d1, d2 \in 0..(n - 1) :
            inside(d1, d2) /\ e = <<weight(ch, d1, d2), number(ch, d1, d2)>>
    BY DEF IsAddend
  <1>8. ASSUME NEW plane \in 0..(c - 1), NEW d1 \in 0..(n - 1), NEW d2 \in 0..(n - 1)
        PROVE  /\ <<d1 - half, d2 - half>> \in Inside(job, (-half)..half, inRow, inCol) <=> inside(d1, d2)
               /\ inside(d1, d2) => pair(plane, <<d1 - half, d2 - half>>) = <<weight(plane, d1, d2), number(plane, d1, d2)>>
    <2> DEFINE d == <<d1 - half, d2 - half>>
    <2>1. d1 - half \in (-half)..half /\ d2 - half \in (-half)..half
      BY <1>2
    <2>2. y * job.stride \in Int /\ x * job.stride \in Int
      BY <1>1
    <2>3. inRow + (d1 - half) = row(d1) /\ inCol + (d2 - half) = col(d2) /\ row(d1) \in Int /\ col(d2) \in Int
      BY <1>1, <1>2, <2>2
    <2> HIDE DEF half, inRow, inCol, row, col
    <2>4. d \in Inside(job, (-half)..half, inRow, inCol) <=> inside(d1, d2)
      BY <2>1, <2>3 DEF Inside
    <2>5. ASSUME inside(d1, d2)
          PROVE  At(job, plane, inRow + d[1], inCol + d[2]) = number(plane, d1, d2)
      <3>1. At(job, plane, inRow + d[1], inCol + d[2]) = job.in[col(d2) + row(d1) * s + plane * s * s]
        BY <2>3 DEF At
      <3>2. (plane * s + row(d1)) * s + col(d2) = plane * (s * s) + (row(d1) * s + col(d2))
        <4>1. IsPlace(c, s, plane, row(d1), col(d2), (plane * s + row(d1)) * s + col(d2))
          <5>1. c \in Nat /\ s \in Nat \ {0} /\ row(d1) \in 0..(s - 1) /\ col(d2) \in 0..(s - 1) /\ plane \in 0..(c - 1)
            BY <1>1, <2>5
          <5> HIDE DEF c, s
          <5> QED BY <5>1, TripleIs
        <4> QED BY <4>1 DEF IsPlace
      <3>3. plane * (s * s) = plane * s * s /\ plane * s * s \in Int /\ row(d1) * s \in Int /\ col(d2) \in Int
        BY <1>1, <2>3
      <3>4. \A u, v, w \in Int : u + (v + w) = w + v + u
        OBVIOUS
      <3>5. col(d2) + row(d1) * s + plane * s * s = (plane * s + row(d1)) * s + col(d2)
        BY <3>2, <3>3, <3>4
      <3> QED BY <3>1, <3>5
    <2>6. d2 + d1 * n + plane * area + f * c * area = ((f * c + plane) * n + d1) * n + d2
      <3>1. /\ ((f * c + plane) * n + d1) * n + d2 = f * (n * n * c) + ((plane * n + d1) * n + d2)
        BY <1>1, WeightPlace
      <3>2. (plane * n + d1) * n + d2 = plane * (n * n) + (d1 * n + d2)
        <4>1. IsPlace(c, n, plane, d1, d2, (plane * n + d1) * n + d2)
          <5>1. c \in Nat
            BY <1>1
          <5> HIDE DEF c, n
          <5> QED BY <1>1, <5>1, TripleIs DEF c, n
        <4> QED BY <4>1 DEF IsPlace
      <3>3. f * (n * n * c) = f * c * area /\ f * c * area \in Int /\ plane * area \in Int /\ d1 * n \in Int
        BY <1>1
      <3>4. \A t, u, v, w \in Int : t + (u + (v + w)) = w + v + u + t
        OBVIOUS
      <3> QED BY <3>1, <3>2, <3>3, <3>4
    <2>7. d[2] + half = d2 /\ d[1] + half = d1
      <3>1. d2 \in Int /\ d1 \in Int /\ half \in Int
        BY <1>2
      <3>2. (d2 - half) + half = d2 /\ (d1 - half) + half = d1
        BY <3>1
      <3>3. d[1] = d1 - half /\ d[2] = d2 - half
        OBVIOUS
      <3> QED BY <3>2, <3>3
    <2>8. pair(plane, d) = <<job.we[d2 + d1 * n + plane * area + f * c * area], At(job, plane, inRow + d[1], inCol + d[2])>>
      BY <2>7
    <2>9. inside(d1, d2) => pair(plane, d) = <<weight(plane, d1, d2), number(plane, d1, d2)>>
      BY <2>5, <2>6, <2>8
    <2> QED BY <2>4, <2>9
  <1>9. \A d \in Inside(job, (-half)..half, inRow, inCol) :
          \E d1, d2 \in 0..(n - 1) : d = <<d1 - half, d2 - half>>
    <2> TAKE d \in Inside(job, (-half)..half, inRow, inCol)
    <2>1. PICK a, b \in (-half)..half : d = <<a, b>>
      BY DEF Inside
    <2>2. a + half \in 0..(n - 1) /\ b + half \in 0..(n - 1) /\ (a + half) - half = a /\ (b + half) - half = b
      <3> HIDE DEF half, n
      <3>1. half \in Nat /\ n = 2 * half + 1
        BY <1>2
      <3>2. \A h \in Nat : \A u \in (-h)..h : u + h \in 0..(2 * h + 1 - 1) /\ (u + h) - h = u
        OBVIOUS
      <3> QED BY <3>1, <3>2
    <2> QED BY <2>1, <2>2
  <1> HIDE DEF sum, pair, inside, weight, number, half, inRow, inCol
  <1>10. e \in sum <=> IsAddend(job, f, y, x, e)
    <2>1. ASSUME e \in sum PROVE IsAddend(job, f, y, x, e)
      <3>1. PICK plane \in 0..(c - 1) : \E d \in Inside(job, (-half)..half, inRow, inCol) : e = pair(plane, d)
        BY <1>6, <2>1
      <3>2. PICK d \in Inside(job, (-half)..half, inRow, inCol) : e = pair(plane, d)
        BY <3>1
      <3>3. PICK d1, d2 \in 0..(n - 1) : d = <<d1 - half, d2 - half>>
        BY <1>9
      <3>4. inside(d1, d2) /\ e = <<weight(plane, d1, d2), number(plane, d1, d2)>>
        BY <1>8, <3>2, <3>3
      <3> QED BY <1>7, <3>4
    <2>2. ASSUME IsAddend(job, f, y, x, e) PROVE e \in sum
      <3>1. PICK ch \in 0..(c - 1) : \E d1, d2 \in 0..(n - 1) :
              inside(d1, d2) /\ e = <<weight(ch, d1, d2), number(ch, d1, d2)>>
        BY <1>7, <2>2
      <3>2. PICK d1, d2 \in 0..(n - 1) : inside(d1, d2) /\ e = <<weight(ch, d1, d2), number(ch, d1, d2)>>
        BY <3>1
      <3>3. /\ <<d1 - half, d2 - half>> \in Inside(job, (-half)..half, inRow, inCol)
            /\ e = pair(ch, <<d1 - half, d2 - half>>)
        BY <1>8, <3>2
      <3> QED BY <1>6, <3>3
    <2> QED BY <2>1, <2>2
  <1> QED BY <1>4, <1>5, <1>10

-----------------------------------------------------------------------------
(* The second half of the filters, the weights and the input.              *)
LEMMA ShiftedPlace ==
  ASSUME NEW h \in Int, NEW g \in Int, NEW n \in Int, NEW a \in Int, NEW b \in Int
  PROVE  ((h + g) * n + a) * n + b = ((g * n + a) * n + b) + h * n * n
OBVIOUS

LEMMA GroupsOfLayer ==
  ASSUME layer \in LayerSet, FiltersFit, GroupsDivide, layer.groups <= 2, layer.type = "conv", NEW k \in 1..Calls,
         NEW job, job = Job(k)
  PROVE  /\ IsPart(job, k) /\ IsJob(job) /\ OutputSize(layer) = OutputSize(job)
         /\ Calls \in {1, 2} /\ Calls = layer.groups
         /\ layer.channels \div layer.groups = job.channels /\ layer.filters \div layer.groups = job.filters
         /\ job.channels \in Nat \ {0} /\ job.filters \in Nat \ {0} /\ layer.filters = Calls * job.filters
  <1>1. IsPart(job, k) /\ IsJob(job)
    BY JobIsPart
  <1>2. Calls \in {1, 2} /\ Calls = layer.groups
    BY LayerFacts DEF Calls
  <1>3. job.channels \in Nat \ {0} /\ job.filters \in Nat \ {0}
    BY <1>1 DEF IsJob
  <1>4. job.channels * Calls = layer.channels /\ job.filters * Calls = layer.filters
    BY <1>1 DEF IsPart
  <1>5. OutputSize(layer) = OutputSize(job)
    BY <1>1 DEF IsPart, OutputSize
  <1>6. \A q \in Nat, n \in {1, 2} : (q * n) \div n = q /\ q * n = n * q
    OBVIOUS
  <1> QED BY <1>1, <1>2, <1>3, <1>4, <1>5, <1>6

(* What a layer is to compute is what its k-th job convolves. *)
LEMMA ConvolvedIs ==
  ASSUME layer \in LayerSet, FiltersFit, GroupsDivide, layer.groups <= 2, layer.type = "conv", NEW k \in 1..Calls,
         NEW job, job = Job(k), NEW f \in 0..(job.filters - 1),
         NEW y \in 0..(OutputSize(job) - 1), NEW x \in 0..(OutputSize(job) - 1),
         NEW z, z = ((f * OutputSize(job) + y) * OutputSize(job) + x)
                      + (k - 1) * (job.filters * OutputSize(job) * OutputSize(job)),
         NEW e
  PROVE  e \in Convolved(z, OutputSize(layer)) <=> IsAddend(job, f, y, x, e) \/ e = <<-3, job.b[f]>>
  <1> DEFINE width == OutputSize(job)
             n == layer.filter
             c == job.channels
             m == job.filters
             s == layer.size
             F == (k - 1) * m + f
             first == (k - 1) * c
             row(d1) == y * layer.stride - layer.padding + d1
             col(d2) == x * layer.stride - layer.padding + d2
             weight(ch, d1, d2) == ((F * c + ch) * n + d1) * n + d2
             number(ch, d1, d2) == ((first + ch) * s + row(d1)) * s + col(d2)
             inside(d1, d2) == row(d1) \in 0..(s - 1) /\ col(d2) \in 0..(s - 1)
             sum == UNION {{<<((F * c + ch) * n + d[1]) * n + d[2],
                              In(first + ch, Window(z, width)[d][1], Window(z, width)[d][2])>>
                             : d \in {d \in DOMAIN Window(z, width) : Window(z, width)[d] \in Image}} : ch \in 0..(c - 1)}
  <1>1. /\ IsPart(job, k) /\ IsJob(job) /\ OutputSize(layer) = width
        /\ Calls \in {1, 2} /\ layer.channels \div layer.groups = c /\ layer.filters \div layer.groups = m
        /\ c \in Nat \ {0} /\ m \in Nat \ {0} /\ layer.filters = Calls * m
    BY GroupsOfLayer
  <1>2. /\ n \in Nat \ {0} /\ s \in Nat \ {0} /\ layer.stride \in Nat \ {0} /\ layer.padding \in Nat
        /\ width \in Nat \ {0} /\ k - 1 \in 0..(Calls - 1) /\ layer.filters \in Nat
    BY <1>1, LayerFacts, SizesOfJob
  <1>3. /\ job.size = s /\ job.filter = n /\ job.stride = layer.stride /\ job.padding = layer.padding
        /\ \A j \in 0..(c * s * s - 1) : job.in[j] = j + (k - 1) * (c * s * s)
        /\ \A j \in 0..(m * (c * n * n) - 1) : job.we[j] = j + (k - 1) * (m * (c * n * n))
        /\ job.b[f] = F
    <2>1. \A j \in 0..(m - 1) : job.b[j] = j + (k - 1) * m
      BY <1>1 DEF IsPart
    <2>2. f + (k - 1) * m = F
      <3>1. (k - 1) * m \in Int /\ f \in Int
        BY <1>1
      <3> QED BY <3>1
    <2>3. job.b[f] = F
      BY <2>1, <2>2
    <2> HIDE DEF F
    <2> QED BY <1>1, <2>3 DEF IsPart
  <1>4. F \in 0..(layer.filters - 1) /\ F \div m = k - 1
    <2> HIDE DEF m
    <2>1. f \in 0..(m - 1) /\ Calls \in Nat
      BY <1>1 DEF m
    <2>2. (k - 1) * m + f \in 0..(Calls * m - 1) /\ ((k - 1) * m + f) \div m = k - 1
      <3>1. PICK q, u : q = k - 1 /\ u = Calls
        OBVIOUS
      <3>2. u \in Nat /\ m \in Nat \ {0} /\ q \in 0..(u - 1) /\ f \in 0..(m - 1)
        BY <1>1, <1>2, <2>1, <3>1
      <3>3. q * m + f \in 0..(u * m - 1) /\ (q * m + f) \div m = q
        BY <3>2, PairIs
      <3> QED BY <3>1, <3>3
    <2> QED BY <1>1, <2>2
  <1>5. z \div (width * width) = F /\ (z \div width) % width = y /\ z % width = x
    <2>1. y \in 0..(width - 1) /\ x \in 0..(width - 1) /\ f \in Int /\ (k - 1) * m \in Int /\ y \in Int /\ x \in Int
      BY <1>1, <1>2
    <2>2. z = ((f * width + y) * width + x) + (k - 1) * (m * width * width)
      OBVIOUS
    <2>3. (k - 1) * (m * width * width) = ((k - 1) * m) * width * width
      BY <1>1, <1>2
    <2> HIDE DEF width, m
    <2>4. (((k - 1) * m + f) * width + y) * width + x = ((f * width + y) * width + x) + ((k - 1) * m) * width * width
      BY <1>2, <2>1, ShiftedPlace
    <2>5. z = (F * width + y) * width + x
      BY <2>2, <2>3, <2>4
    <2> HIDE DEF F
    <2>6. IsPlace(layer.filters, width, F, y, x, z)
      BY <1>2, <1>4, <2>1, <2>5, TripleIs
    <2> QED BY <2>6 DEF IsPlace
  <1>6. Convolved(z, OutputSize(layer)) = sum \cup {<<-3, F>>}
    <2>1. Plane(z, width) = F /\ F \div m = k - 1
      BY <1>4, <1>5 DEF Plane
    <2> HIDE DEF F, c, m, width
    <2> QED BY <1>1, <2>1 DEF Convolved, n
  <1>7. /\ Window(z, width) = [d \in (0..(n - 1)) \X (0..(n - 1)) |-> <<row(d[1]), col(d[2])>>]
    BY <1>5 DEF Window, Row, Column
  <1>8. e \in sum <=> \E ch \in 0..(c - 1) : \E d1, d2 \in 0..(n - 1) :
                        inside(d1, d2) /\ e = <<weight(ch, d1, d2), number(ch, d1, d2)>>
    <2> DEFINE w == Window(z, width)
               pair(ch, d) == <<((F * c + ch) * n + d[1]) * n + d[2], In(first + ch, w[d][1], w[d][2])>>
    <2>1. e \in sum <=> \E ch \in 0..(c - 1) : \E d \in DOMAIN w : w[d] \in Image /\ e = pair(ch, d)
      <3> HIDE DEF pair, w
      <3>1. sum = UNION {{pair(ch, d) : d \in {d \in DOMAIN w : w[d] \in Image}} : ch \in 0..(c - 1)}
        BY DEF pair, w
      <3> HIDE DEF sum
      <3> QED BY <3>1
    <2>2. DOMAIN w = (0..(n - 1)) \X (0..(n - 1))
      BY <1>7
    <2>3. ASSUME NEW ch \in 0..(c - 1), NEW d1 \in 0..(n - 1), NEW d2 \in 0..(n - 1)
          PROVE  /\ <<d1, d2>> \in DOMAIN w
                 /\ w[<<d1, d2>>] \in Image <=> inside(d1, d2)
                 /\ pair(ch, <<d1, d2>>) = <<weight(ch, d1, d2), number(ch, d1, d2)>>
      <3>1. w[<<d1, d2>>] = <<row(d1), col(d2)>> /\ <<d1, d2>> \in DOMAIN w
        BY <1>7, <2>2
      <3> HIDE DEF w, row, col, F, first
      <3> QED BY <3>1 DEF Image, In
    <2>4. \A d \in DOMAIN w : \E d1, d2 \in 0..(n - 1) : d = <<d1, d2>>
      BY <2>2
    <2> HIDE DEF sum, w, pair, inside, weight, number
    <2>5. ASSUME NEW ch \in 0..(c - 1), NEW d \in DOMAIN w, w[d] \in Image, e = pair(ch, d)
          PROVE  \E d1, d2 \in 0..(n - 1) : inside(d1, d2) /\ e = <<weight(ch, d1, d2), number(ch, d1, d2)>>
      <3>1. PICK d1, d2 \in 0..(n - 1) : d = <<d1, d2>>
        BY <2>4
      <3>2. inside(d1, d2) /\ e = <<weight(ch, d1, d2), number(ch, d1, d2)>>
        BY <2>3, <2>5, <3>1
      <3> QED BY <3>2
    <2>6. ASSUME NEW ch \in 0..(c - 1), NEW d1 \in 0..(n - 1), NEW d2 \in 0..(n - 1),
                 inside(d1, d2), e = <<weight(ch, d1, d2), number(ch, d1, d2)>>
          PROVE  \E d \in DOMAIN w : w[d] \in Image /\ e = pair(ch, d)
      BY <2>3, <2>6
    <2> QED BY <2>1, <2>5, <2>6
  <1>9. IsAddend(job, f, y, x, e) <=>
          \E ch \in 0..(c - 1) : \E d1, d2 \in 0..(n - 1) :
            inside(d1, d2) /\ e = <<weight(ch, d1, d2), number(ch, d1, d2)>>
    <2> DEFINE jobWeight(ch, d1, d2) == job.we[((f * c + ch) * n + d1) * n + d2]
               jobNumber(ch, d1, d2) == job.in[(ch * s + row(d1)) * s + col(d2)]
    <2>1. IsAddend(job, f, y, x, e) <=>
            \E ch \in 0..(c - 1) : \E d1, d2 \in 0..(n - 1) :
              inside(d1, d2) /\ e = <<jobWeight(ch, d1, d2), jobNumber(ch, d1, d2)>>
      BY <1>3 DEF IsAddend
    <2>2. ASSUME NEW ch \in 0..(c - 1), NEW d1 \in 0..(n - 1), NEW d2 \in 0..(n - 1)
          PROVE  jobWeight(ch, d1, d2) = weight(ch, d1, d2)
      <3> DEFINE j == ((f * c + ch) * n + d1) * n + d2
      <3> HIDE DEF n, c, m
      <3>1. f \in 0..(m - 1) /\ c \in Nat /\ m \in Nat /\ f \in Int /\ ch \in Int /\ d1 \in Int /\ d2 \in Int /\ k - 1 \in Int
        BY <1>1 DEF m
      <3>2. j \in 0..(m * (c * n * n) - 1)
        BY <1>2, <3>1, WeightPlace
      <3>3. job.we[j] = j + (k - 1) * (m * (c * n * n))
        BY <1>3, <3>2
      <3>4. f * c + ch \in Int /\ (k - 1) * m * c \in Int /\ n \in Int
        BY <1>2, <3>1
      <3>5. (((k - 1) * m * c + (f * c + ch)) * n + d1) * n + d2 = j + ((k - 1) * m * c) * n * n
        BY <3>1, <3>4, ShiftedPlace
      <3>6. ((k - 1) * m * c) * n * n = (k - 1) * (m * (c * n * n))
        BY <1>2, <3>1
      <3>7. (k - 1) * m * c + (f * c + ch) = ((k - 1) * m + f) * c + ch
        BY <3>1
      <3> HIDE DEF j
      <3> QED BY <3>3, <3>5, <3>6, <3>7 DEF j
    <2>3. ASSUME NEW ch \in 0..(c - 1), NEW d1 \in 0..(n - 1), NEW d2 \in 0..(n - 1), inside(d1, d2)
          PROVE  jobNumber(ch, d1, d2) = number(ch, d1, d2)
      <3> DEFINE j == (ch * s + row(d1)) * s + col(d2)
      <3>1. row(d1) \in 0..(s - 1) /\ col(d2) \in 0..(s - 1)
        BY <2>3
      <3> HIDE DEF s, c, row, col
      <3>2. row(d1) \in Int /\ col(d2) \in Int /\ ch \in Int /\ s \in Int /\ (k - 1) * c \in Int /\ k - 1 \in Int /\ c \in Nat
        BY <1>1, <1>2, <3>1
      <3>3. IsPlace(c, s, ch, row(d1), col(d2), j)
        BY <1>2, <3>1, <3>2, TripleIs
      <3>4. job.in[j] = j + (k - 1) * (c * s * s)
        BY <1>3, <3>3 DEF IsPlace
      <3>5. (((k - 1) * c + ch) * s + row(d1)) * s + col(d2) = j + ((k - 1) * c) * s * s
        BY <3>2, ShiftedPlace
      <3>6. ((k - 1) * c) * s * s = (k - 1) * (c * s * s)
        BY <3>2
      <3> HIDE DEF j
      <3> QED BY <3>4, <3>5, <3>6 DEF j
    <2> HIDE DEF inside, weight, number, jobWeight, jobNumber, n, c
    <2> QED BY <2>1, <2>2, <2>3
  <1> HIDE DEF sum, inside, weight, number, F
  <1> QED BY <1>3, <1>6, <1>8, <1>9

OutputOfConvolution(job) == job.filters * OutputSize(job) * OutputSize(job)

LEMMA ConvolutionResult ==
  ASSUME layer \in LayerSet, FiltersFit, GroupsDivide, layer.groups <= 2, layer.type = "conv", NEW k \in 1..Calls,
         layer.platform = "CPU" => layer.filter % 2 = 1
  PROVE  /\ DOMAIN Result(k) = 0..(OutputOfConvolution(Job(k)) - 1)
         /\ \A o \in DOMAIN Result(k) :
              Result(k)[o] = Convolved(o + (k - 1) * OutputOfConvolution(Job(k)), OutputSize(layer))
  <1>1. PICK job : job = Job(k)
    OBVIOUS
  <1> DEFINE width == OutputSize(job)
             m == job.filters
             all == m * width * width
             R == Result(k)
  <1>2. IsPart(job, k) /\ IsJob(job) /\ m \in Nat \ {0} /\ width \in Nat \ {0} /\ job.filter = layer.filter
    BY <1>1, GroupsOfLayer, SizesOfJob DEF IsPart
  <1>3. layer.platform # "CPU" => R = MatrixProduct(job)
    BY <1>1 DEF Result
  <1>4. layer.platform = "CPU" => R = CpuConvolution(job)
    BY <1>1 DEF Result
  <1>5. NSize(job) = width * width /\ NSize(job) * m = all
    <2>1. (width * width) * m = m * width * width
      BY <1>2
    <2> QED BY <2>1 DEF NSize
  <1>6. ASSUME NEW f \in 0..(m - 1), NEW y \in 0..(width - 1), NEW x \in 0..(width - 1),
               NEW o, o = (f * width + y) * width + x
        PROVE  R[o] = Convolved(o + (k - 1) * all, OutputSize(layer))
    <2>1. ASSUME NEW e PROVE e \in R[o] <=> IsAddend(job, f, y, x, e) \/ e = <<-3, job.b[f]>>
      <3>1. CASE layer.platform = "CPU"
        BY <1>2, <1>4, <1>6, <3>1, CpuConvolutionIs
      <3>2. CASE layer.platform # "CPU"
        <4>1. IsPlace(m, width, f, y, x, o)
          <5>1. m \in Nat
            BY <1>2
          <5> HIDE DEF m, width
          <5> QED BY <1>2, <1>6, <5>1, TripleIs
        <4>2. o \in 0..(all - 1) /\ o \div NSize(job) = f /\ o % NSize(job) = y * width + x
          BY <1>5, <4>1 DEF IsPlace
        <4>3. R = [u \in 0..(all - 1) |-> Multiplied(job, u \div NSize(job), u % NSize(job))]
          BY <1>3, <1>5, <3>2 DEF MatrixProduct
        <4> HIDE DEF R, all
        <4>4. R[o] = Multiplied(job, f, y * width + x)
          BY <4>2, <4>3
        <4> QED BY <1>2, <4>4, MultipliedIs
      <3> QED BY <3>1, <3>2
    <2>2. ASSUME NEW e PROVE e \in Convolved(o + (k - 1) * all, OutputSize(layer)) <=>
                               IsAddend(job, f, y, x, e) \/ e = <<-3, job.b[f]>>
      <3>1. PICK z : z = o + (k - 1) * all
        OBVIOUS
      <3>2. z = ((f * OutputSize(job) + y) * OutputSize(job) + x)
                  + (k - 1) * (job.filters * OutputSize(job) * OutputSize(job))
        BY <1>6, <3>1
      <3>3. e \in Convolved(z, OutputSize(layer)) <=> IsAddend(job, f, y, x, e) \/ e = <<-3, job.b[f]>>
        BY <1>1, <3>2, ConvolvedIs
      <3> QED BY <3>1, <3>3
    <2> HIDE DEF R, all
    <2>3. \A e : e \in R[o] <=> e \in Convolved(o + (k - 1) * all, OutputSize(layer))
      BY <2>1, <2>2
    <2> QED BY <2>3
  <1>7. DOMAIN R = 0..(all - 1)
    <2>1. CASE layer.platform = "CPU"
      <3>1. 0 \in 0..(m - 1) /\ 0 \in 0..(width - 1)
        BY <1>2
      <3> QED BY <1>2, <1>4, <2>1, <3>1, CpuConvolutionIs
    <2>2. CASE layer.platform # "CPU"
      BY <1>3, <1>5, <2>2 DEF MatrixProduct
    <2> QED BY <2>1, <2>2
  <1>8. \A o \in 0..(all - 1) : \E f \in 0..(m - 1) : \E y, x \in 0..(width - 1) : o = (f * width + y) * width + x
    <2>1. m \in Nat
      BY <1>2
    <2> HIDE DEF m, width
    <2> QED BY <1>2, <2>1, TripleOf
  <1>9. OutputOfConvolution(Job(k)) = all
    BY <1>1 DEF OutputOfConvolution
  <1> HIDE DEF R, all, m, width
  <1> QED BY <1>6, <1>7, <1>8, <1>9 DEF R

(* The output of a layer is made of the outputs of the calls.              *)
LEMMA ConvolutionOutput ==
  ASSUME layer \in LayerSet, FiltersFit, GroupsDivide, ForwardInv, stage = "computed", layer.type = "conv",
         layer.platform = "CPU" => layer.filter % 2 = 1
  PROVE  /\ DOMAIN Output = 0..(layer.filters * OutputSize(layer) * OutputSize(layer) - 1)
         /\ \A z \in DOMAIN Output : Output[z] = Convolved(z, OutputSize(layer))
  <1> DEFINE width == OutputSize(layer)
  <1>1. layer.groups <= 2 /\ Len(outs) = Calls /\ \A k \in 1..Calls : outs[k] = Result(k)
    BY DEF ForwardInv
  <1>2. Calls \in {1, 2} /\ 1 \in 1..Calls
    BY DEF Calls
  <1>3. PICK m \in Nat \ {0} : layer.filters = Calls * m /\ \A k \in 1..Calls : Job(k).filters = m
    <2>1. PICK m : m = Job(1).filters
      OBVIOUS
    <2>2. m \in Nat \ {0} /\ layer.filters \div layer.groups = m /\ layer.filters = Calls * m
      BY <1>1, <1>2, <2>1, GroupsOfLayer
    <2>3. \A k \in 1..Calls : Job(k).filters = m
      BY <1>1, <2>2, GroupsOfLayer
    <2> QED BY <2>2, <2>3
  <1> DEFINE all == m * width * width
  <1>4. width \in Nat \ {0}
    BY <1>1, <1>2, GroupsOfLayer, SizesOfJob
  <1>5. all \in Nat
    BY <1>3, <1>4
  <1>6. ASSUME NEW k \in 1..Calls
        PROVE  /\ DOMAIN outs[k] = 0..(all - 1)
               /\ \A o \in 0..(all - 1) : outs[k][o] = Convolved(o + (k - 1) * all, width)
    <2>1. OutputSize(Job(k)) = width
      BY <1>1, GroupsOfLayer
    <2>2. OutputOfConvolution(Job(k)) = all
      BY <1>3, <2>1 DEF OutputOfConvolution
    <2>3. /\ DOMAIN Result(k) = 0..(OutputOfConvolution(Job(k)) - 1)
          /\ \A o \in DOMAIN Result(k) :
               Result(k)[o] = Convolved(o + (k - 1) * OutputOfConvolution(Job(k)), OutputSize(layer))
      BY <1>1, ConvolutionResult
    <2> HIDE DEF all
    <2> QED BY <1>1, <2>2, <2>3
  <1>7. CASE Calls = 1
    <2>1. Output = outs[1] /\ layer.filters * width * width = all
      BY <1>1, <1>3, <1>7 DEF Output
    <2>2. \A o \in 0..(all - 1) : o + (1 - 1) * all = o
      <3> HIDE DEF all
      <3> QED BY <1>5
    <2> HIDE DEF width, all
    <2>3. \A o \in 0..(all - 1) : outs[1][o] = Convolved(o, width)
      BY <1>2, <1>6, <2>2
    <2> QED BY <1>2, <1>6, <2>1, <2>3 DEF width
  <1>8. CASE Calls = 2
    <2>1. Output = Join(outs[1], outs[2]) /\ 1 \in 1..Calls /\ 2 \in 1..Calls
      BY <1>1, <1>8 DEF Output
    <2>2. layer.filters * width * width = all + all
      <3>1. layer.filters * width = m * width + m * width /\ m * width \in Nat
        BY <1>3, <1>4, <1>8
      <3>2. (m * width + m * width) * width = m * width * width + m * width * width
        BY <1>4, <3>1
      <3> QED BY <3>1, <3>2
    <2> HIDE DEF width, all
    <2>3. DOMAIN outs[1] = 0..(all - 1) /\ DOMAIN outs[2] = 0..(all - 1)
      BY <1>6, <2>1
    <2>4. Length(outs[1]) = all /\ Length(outs[2]) = all
      BY <1>5, <2>3, LengthOf
    <2>5. Output = [z \in 0..(all + all - 1) |-> IF z < all THEN outs[1][z] ELSE outs[2][z - all]]
      BY <2>1, <2>4 DEF Join
    <2>6. ASSUME NEW z \in 0..(all + all - 1) PROVE Output[z] = Convolved(z, width)
      <3>1. CASE z < all
        <4>1. z \in 0..(all - 1) /\ z + (1 - 1) * all = z
          BY <1>5, <3>1
        <4>2. outs[1][z] = Convolved(z, width)
          BY <1>6, <2>1, <4>1
        <4> QED BY <2>5, <3>1, <4>2
      <3>2. CASE ~ (z < all)
        <4>1. z - all \in 0..(all - 1) /\ (z - all) + (2 - 1) * all = z
          BY <1>5, <3>2
        <4>2. outs[2][z - all] = Convolved(z, width)
          BY <1>6, <2>1, <4>1
        <4> QED BY <2>5, <3>2, <4>2
      <3> QED BY <3>1, <3>2
    <2>7. DOMAIN Output = 0..(layer.filters * width * width - 1)
      <3>1. DOMAIN Output = 0..(all + all - 1)
        BY <2>5
      <3>2. layer.filters \in Nat
        BY LayerFacts
      <3> QED BY <1>4, <1>5, <2>2, <3>1, <3>2
    <2>8. \A z \in DOMAIN Output : Output[z] = Convolved(z, width)
      BY <2>5, <2>6
    <2> QED BY <2>7, <2>8 DEF width
  <1> QED BY <1>2, <1>7, <1>8

-----------------------------------------------------------------------------
(* The layers that are not split.                                          *)
LEMMA WholeIs ==
  ASSUME layer \in LayerSet
  PROVE  /\ DOMAIN Whole(layer).in = 0..(InputSize(layer) - 1)
         /\ \A z \in 0..(InputSize(layer) - 1) : Whole(layer).in[z] = z
         /\ \A z \in 0..(layer.filters * WeightsPerFilter(layer) - 1) : Whole(layer).we[z] = z
         /\ \A z \in 0..(layer.filters - 1) : Whole(layer).b[z] = z
         /\ Whole(layer).channels = layer.channels /\ Whole(layer).size = layer.size
         /\ Whole(layer).filter = layer.filter /\ Whole(layer).stride = layer.stride
         /\ Whole(layer).padding = layer.padding /\ Whole(layer).filters = layer.filters
         /\ Whole(layer).radius = layer.radius
  <1>1. \A n : DOMAIN Array(n) = 0..(n - 1) /\ \A z \in 0..(n - 1) : Array(n)[z] = z
    BY DEF Array
  <1>2. /\ Whole(layer).in = Array(InputSize(layer)) /\ Whole(layer).b = Array(layer.filters)
        /\ Whole(layer).we = Array(layer.filters * WeightsPerFilter(layer))
    BY DEF Whole
  <1>3. /\ Whole(layer).channels = layer.channels /\ Whole(layer).size = layer.size
        /\ Whole(layer).filter = layer.filter /\ Whole(layer).stride = layer.stride
        /\ Whole(layer).padding = layer.padding /\ Whole(layer).filters = layer.filters
        /\ Whole(layer).radius = layer.radius
    BY DEF Whole
  <1> QED BY <1>1, <1>2, <1>3

LEMMA OutputOfOthers ==
  ASSUME layer \in LayerSet, ForwardInv, stage = "computed", layer.type # "conv"
  PROVE  Job(1) = Whole(layer) /\ Output = Result(1) /\ layer.platform = "CPU"
  <1>1. layer.groups = 1 /\ layer.platform = "CPU"
    BY LayerFacts
  <1>2. Calls = 1 /\ Job(1) = Whole(layer)
    BY <1>1 DEF Calls, Job
  <1>3. Len(outs) = 1 /\ outs[1] = Result(1)
    <2>1. Len(outs) = 1 /\ \A k \in 1..Len(outs) : outs[k] = Result(k)
      BY <1>2 DEF ForwardInv
    <2>2. 1 \in 1..Len(outs)
      BY <2>1
    <2> QED BY <2>1, <2>2
  <1> QED BY <1>1, <1>2, <1>3 DEF Output

(* The places of the image under a filter of a pooling layer. *)
LEMMA PoolingOutput ==
  ASSUME layer \in LayerSet, FiltersFit, ForwardInv, stage = "computed", layer.type = "maxpooling"
  PROVE  /\ DOMAIN Output = 0..(layer.channels * OutputSize(layer) * OutputSize(layer) - 1)
         /\ \A z \in DOMAIN Output : Output[z] = Pooled(z, OutputSize(layer))
  <1> DEFINE job == Whole(layer)
             c == layer.channels
             s == layer.size
             n == layer.filter
             p == layer.padding
             width == OutputSize(layer)
             row(z) == ((z \div width) % width) * layer.stride - p
             col(z) == (z % width) * layer.stride - p
             set(z) == {Zero} \cup {At(job, z \div (width * width), row(z) + d[1], col(z) + d[2])
                                      : d \in Inside(job, 0..(n - 1), row(z), col(z))}
  <1>1. /\ c \in Nat \ {0} /\ s \in Nat \ {0} /\ n \in Nat \ {0} /\ layer.stride \in Nat \ {0} /\ p \in Nat
        /\ n <= s + 2 * p
    BY LayerFacts DEF FiltersFit
  <1>2. /\ \A z \in 0..(c * s * s - 1) : job.in[z] = z
        /\ job.channels = c /\ job.size = s /\ job.filter = n /\ job.stride = layer.stride /\ job.padding = p
    BY WholeIs DEF InputSize
  <1>3. Output = CpuMaxPooling(job)
    BY OutputOfOthers DEF Result
  <1> HIDE DEF job
  <1>4. Steps(- p, s + p - n + 1, layer.stride) = width
    <2>1. - p < s + p - n + 1 /\ (s + p - n + 1) - (- p) - 1 = s - n + 2 * p
      BY <1>1
    <2>2. Steps(- p, s + p - n + 1, layer.stride) = (s - n + 2 * p) \div layer.stride + 1
      BY <2>1 DEF Steps
    <2> QED BY <2>2 DEF OutputSize
  <1>5. width \in Nat \ {0}
    <2>1. s - n + 2 * p \in Nat
      BY <1>1
    <2>2. (s - n + 2 * p) \div layer.stride \in Nat
      <3>1. PICK a : a = s - n + 2 * p
        OBVIOUS
      <3> QED BY <1>1, <2>1, <3>1, Divides
    <2> QED BY <2>2 DEF OutputSize
  <1>6. Output = [z \in 0..(c * width * width - 1) |-> set(z)]
    BY <1>2, <1>3, <1>4 DEF CpuMaxPooling
  <1>7. ASSUME NEW z \in 0..(c * width * width - 1) PROVE set(z) = Pooled(z, width)
    <2> DEFINE plane == z \div (width * width)
               w == Window(z, width)
               inside(d1, d2) == row(z) + d1 \in 0..(s - 1) /\ col(z) + d2 \in 0..(s - 1)
               number(d1, d2) == (plane * s + (row(z) + d1)) * s + (col(z) + d2)
    <2>1. plane \in 0..(c - 1)
      <3>1. c \in Nat /\ c * width * width = c * (width * width) /\ width * width \in Nat \ {0}
        BY <1>1, <1>5
      <3>2. z \in 0..(c * (width * width) - 1)
        BY <3>1
      <3> QED BY <3>1, <3>2, QuotientBelow
    <2>2. /\ DOMAIN w = (0..(n - 1)) \X (0..(n - 1))
          /\ \A d \in DOMAIN w : w[d] = <<row(z) + d[1], col(z) + d[2]>>
      BY DEF Window, Row, Column
    <2> HIDE DEF plane, row, col, w
    <2>3. ASSUME NEW d1 \in 0..(n - 1), NEW d2 \in 0..(n - 1)
          PROVE  /\ <<d1, d2>> \in DOMAIN w
                 /\ <<d1, d2>> \in Inside(job, 0..(n - 1), row(z), col(z)) <=> inside(d1, d2)
                 /\ w[<<d1, d2>>] \in Image <=> inside(d1, d2)
                 /\ In(plane, w[<<d1, d2>>][1], w[<<d1, d2>>][2]) = number(d1, d2)
                 /\ inside(d1, d2) => At(job, plane, row(z) + d1, col(z) + d2) = number(d1, d2)
      <3>1. <<d1, d2>> \in DOMAIN w /\ w[<<d1, d2>>] = <<row(z) + d1, col(z) + d2>>
        BY <2>2
      <3>2. <<d1, d2>> \in Inside(job, 0..(n - 1), row(z), col(z)) <=> inside(d1, d2)
        BY <1>2 DEF Inside
      <3>3. w[<<d1, d2>>] \in Image <=> inside(d1, d2)
        BY <3>1 DEF Image
      <3>4. In(plane, w[<<d1, d2>>][1], w[<<d1, d2>>][2]) = number(d1, d2)
        BY <3>1 DEF In
      <3>5. ASSUME inside(d1, d2) PROVE At(job, plane, row(z) + d1, col(z) + d2) = number(d1, d2)
        <4>1. PICK a, b : a = row(z) + d1 /\ b = col(z) + d2
          OBVIOUS
        <4>2. a \in 0..(s - 1) /\ b \in 0..(s - 1) /\ c \in Nat
          BY <1>1, <3>5, <4>1
        <4>3. IsPlace(c, s, plane, a, b, (plane * s + a) * s + b)
          <5> HIDE DEF c, s
          <5> QED BY <1>1, <2>1, <4>2, TripleIs
        <4>4. b + a * s + plane * s * s = (plane * s + a) * s + b
          <5>1. plane \in Nat /\ a \in Nat /\ b \in Nat /\ s \in Nat
            BY <1>1, <2>1, <4>2
          <5> HIDE DEF s
          <5> QED BY <5>1
        <4>5. job.in[(plane * s + a) * s + b] = (plane * s + a) * s + b
          BY <1>2, <4>3 DEF IsPlace
        <4> HIDE DEF s
        <4>6. At(job, plane, a, b) = (plane * s + a) * s + b
          BY <1>2, <4>4, <4>5 DEF At
        <4> QED BY <4>1, <4>6
      <3> QED BY <3>1, <3>2, <3>3, <3>4, <3>5
    <2>4. \A d \in DOMAIN w : \E d1, d2 \in 0..(n - 1) : d = <<d1, d2>>
      BY <2>2
    <2>5. \A d \in Inside(job, 0..(n - 1), row(z), col(z)) : \E d1, d2 \in 0..(n - 1) : d = <<d1, d2>>
      BY DEF Inside
    <2>6. Pooled(z, width) =
            {Zero} \cup {In(plane, w[d][1], w[d][2]) : d \in {d \in DOMAIN w : w[d] \in Image}}
      BY DEF Pooled, Plane, plane, w
    <2>7. set(z) =
            {Zero} \cup {At(job, plane, row(z) + d[1], col(z) + d[2])
                           : d \in Inside(job, 0..(n - 1), row(z), col(z))}
      BY DEF plane
    <2> HIDE DEF set, inside, number
    <2>8. ASSUME NEW e \in set(z), e # Zero PROVE e \in Pooled(z, width)
      <3>1. PICK d \in Inside(job, 0..(n - 1), row(z), col(z)) : e = At(job, plane, row(z) + d[1], col(z) + d[2])
        BY <2>7, <2>8
      <3>2. PICK d1, d2 \in 0..(n - 1) : d = <<d1, d2>>
        BY <2>5
      <3>3. e = In(plane, w[d][1], w[d][2]) /\ d \in DOMAIN w /\ w[d] \in Image
        BY <2>3, <3>1, <3>2
      <3> QED BY <2>6, <3>3
    <2>9. ASSUME NEW e \in Pooled(z, width), e # Zero PROVE e \in set(z)
      <3>1. PICK d \in DOMAIN w : w[d] \in Image /\ e = In(plane, w[d][1], w[d][2])
        BY <2>6, <2>9
      <3>2. PICK d1, d2 \in 0..(n - 1) : d = <<d1, d2>>
        BY <2>4
      <3>3. d \in Inside(job, 0..(n - 1), row(z), col(z)) /\ e = At(job, plane, row(z) + d[1], col(z) + d[2])
        BY <2>3, <3>1, <3>2
      <3> QED BY <2>7, <3>3
    <2>10. Zero \in set(z) /\ Zero \in Pooled(z, width)
      BY <2>6, <2>7
    <2>11. ASSUME NEW e PROVE e \in set(z) <=> e \in Pooled(z, width)
      BY <2>8, <2>9, <2>10
    <2> QED BY <2>11
  <1> HIDE DEF set, c, width
  <1>8. DOMAIN Output = 0..(c * width * width - 1) /\ \A z \in DOMAIN Output : Output[z] = Pooled(z, width)
    BY <1>6, <1>7
  <1> QED BY <1>8 DEF c, width

(* A number is normalised with those at its place in the planes around it. *)
LEMMA NormalisationOutput ==
  ASSUME layer \in LayerSet, ForwardInv, stage = "computed", layer.type = "LRN"
  PROVE  DOMAIN Output = 0..(InputSize(layer) - 1) /\ \A z \in DOMAIN Output : Output[z] = Normalised(z)
  <1> DEFINE job == Whole(layer)
             c == layer.channels
             s == layer.size
             area == s * s
             size == c * s * s
             radius == layer.radius
             around(p) == ((- radius)..radius) \cap ((- p)..(c - 1 - p))
             set(o) == {job.in[(o \div area + r) * area + (o % area)] : r \in around(o \div area)}
  <1>1. c \in Nat \ {0} /\ s \in Nat \ {0} /\ radius \in Nat /\ InputSize(layer) = size
    BY LayerFacts DEF InputSize
  <1>2. /\ DOMAIN job.in = 0..(size - 1) /\ \A z \in 0..(size - 1) : job.in[z] = z
        /\ job.channels = c /\ job.size = s /\ job.radius = radius
    BY <1>1, WholeIs
  <1>3. Output = CpuResponseNormalization(job)
    BY OutputOfOthers DEF Result
  <1>4. Output = [o \in 0..(c * area - 1) |-> <<job.in[o], set(o)>>]
    <2> HIDE DEF job
    <2> QED BY <1>2, <1>3 DEF CpuResponseNormalization
  <1>5. c * area = size
    BY <1>1
  <1>6. ASSUME NEW z \in 0..(size - 1) PROVE <<job.in[z], set(z)>> = Normalised(z)
    <2> HIDE DEF job, c, s, radius
    <2>0. c \in Nat
      BY <1>1
    <2>1. PICK p \in 0..(c - 1) : \E a, b \in 0..(s - 1) : z = (p * s + a) * s + b
      BY <1>1, <2>0, TripleOf
    <2>2. PICK a, b \in 0..(s - 1) : z = (p * s + a) * s + b
      BY <2>1
    <2>3. ASSUME NEW q \in 0..(c - 1), NEW y \in 0..(s - 1), NEW x \in 0..(s - 1),
                 NEW j, j = (q * s + y) * s + x
          PROVE  /\ j \in 0..(size - 1) /\ j = q * area + (y * s + x) /\ j % area = y * s + x
                 /\ Plane(j, s) = q /\ Row(j, s) = y /\ Column(j, s) = x
      <3>1. IsPlace(c, s, q, y, x, j)
        BY <1>1, <2>0, <2>3, TripleIs
      <3> QED BY <3>1 DEF IsPlace, Plane, Row, Column
    <2>4. /\ z % area = a * s + b /\ Plane(z, s) = p /\ z \div area = p /\ Row(z, s) = a /\ Column(z, s) = b
      BY <2>2, <2>3 DEF Plane
    <2> DEFINE near == {j \in DOMAIN job.in :
                          /\ Row(j, s) = Row(z, s) /\ Column(j, s) = Column(z, s)
                          /\ Plane(j, s) - Plane(z, s) \in (- radius)..radius}
    <2>5. Normalised(z) = <<z, near>>
      BY DEF Normalised, job, s, radius
    <2>6. set(z) = {job.in[(p + r) * area + (a * s + b)] : r \in around(p)}
      BY <2>4
    <2>7. ASSUME NEW r \in around(p)
          PROVE  /\ p + r \in 0..(c - 1) /\ r \in (- radius)..radius
                 /\ ((p + r) * s + a) * s + b = (p + r) * area + (a * s + b)
                 /\ job.in[(p + r) * area + (a * s + b)] = ((p + r) * s + a) * s + b
      <3>1. r \in (- radius)..radius /\ r \in (- p)..(c - 1 - p)
        OBVIOUS
      <3>2. PICK q : q = p + r
        OBVIOUS
      <3>3. q \in 0..(c - 1)
        BY <2>0, <3>1, <3>2
      <3>4. PICK j : j = (q * s + a) * s + b
        OBVIOUS
      <3>5. j \in 0..(size - 1) /\ j = q * area + (a * s + b)
        BY <2>3, <3>3, <3>4
      <3>6. job.in[j] = j
        BY <1>2, <3>5
      <3> QED BY <3>1, <3>2, <3>3, <3>4, <3>5, <3>6
    <2> HIDE DEF set, near, around, area, size
    <2>8. ASSUME NEW e \in set(z) PROVE e \in near
      <3>1. PICK r \in around(p) : e = job.in[(p + r) * area + (a * s + b)]
        BY <2>6
      <3>2. PICK q : q = p + r
        OBVIOUS
      <3>3. q \in 0..(c - 1) /\ r \in (- radius)..radius /\ e = (q * s + a) * s + b
        BY <2>7, <3>1, <3>2
      <3>4. e \in 0..(size - 1) /\ Plane(e, s) = q /\ Row(e, s) = a /\ Column(e, s) = b
        BY <2>3, <3>3
      <3>5. q - p = r
        BY <1>1, <3>2, <3>3
      <3> QED BY <1>2, <2>4, <3>3, <3>4, <3>5 DEF near
    <2>9. ASSUME NEW e \in near PROVE e \in set(z)
      <3>1. e \in 0..(size - 1) /\ Row(e, s) = a /\ Column(e, s) = b /\ Plane(e, s) - p \in (- radius)..radius
        BY <1>2, <2>4 DEF near
      <3>2. PICK q \in 0..(c - 1) : \E y, x \in 0..(s - 1) : e = (q * s + y) * s + x
        <4>1. e \in 0..(c * s * s - 1)
          BY <3>1 DEF size
        <4> QED BY <1>1, <2>0, <4>1, TripleOf
      <3>3. PICK y, x \in 0..(s - 1) : e = (q * s + y) * s + x
        BY <3>2
      <3>4. Plane(e, s) = q /\ y = a /\ x = b
        BY <2>3, <3>1, <3>3
      <3>5. PICK r : r = q - p
        OBVIOUS
      <3>6. r \in around(p) /\ q = p + r
        BY <2>0, <3>1, <3>4, <3>5 DEF around
      <3>7. e = job.in[(p + r) * area + (a * s + b)]
        BY <2>7, <3>3, <3>4, <3>6
      <3> QED BY <2>6, <3>6, <3>7
    <2>10. set(z) = near /\ job.in[z] = z
      BY <1>2, <2>8, <2>9
    <2> QED BY <2>5, <2>10
  <1> HIDE DEF job, set, area, size
  <1> QED BY <1>1, <1>4, <1>5, <1>6

(* The weights of a row go through the image backwards. *)
LEMMA FullyConnectedOutput ==
  ASSUME layer \in LayerSet, ForwardInv, stage = "computed", layer.type = "fullyConnected"
  PROVE  DOMAIN Output = 0..(layer.filters - 1) /\ \A z \in DOMAIN Output : Output[z] = Connected(z)
  <1> DEFINE job == Whole(layer)
             c == layer.channels
             s == layer.size
             area == s * s
             size == c * s * s
             m == layer.filters
             vector == StretchInput(job)
             set(row) == {<<job.we[row * size + col], vector[col]>> : col \in 0..(size - 1)} \cup Bias(job.b[row])
             connected(row) == {<<row * size + w, (w % c) * area + area - 1 - w \div c>> : w \in 0..(size - 1)}
                                 \cup {<<-3, row>>}
  <1>1. c \in Nat \ {0} /\ s \in Nat \ {0} /\ m \in Nat \ {0} /\ InputSize(layer) = size
    BY LayerFacts DEF InputSize
  <1>2. size \in Nat /\ area \in Nat \ {0} /\ size = c * area /\ c * area = area * c
    BY <1>1, ProductIsPositive
  <1>3. /\ \A z \in 0..(size - 1) : job.in[z] = z
        /\ \A z \in 0..(m * size - 1) : job.we[z] = z
        /\ \A z \in 0..(m - 1) : job.b[z] = z
        /\ job.channels = c /\ job.size = s /\ job.filters = m
    <2>1. WeightsPerFilter(layer) = size
      BY <1>1 DEF WeightsPerFilter
    <2> HIDE DEF size, c, s, m, job
    <2> QED BY <1>1, <2>1, WholeIs DEF c, s, m, job
  <1>4. Output = CpuFullyConnected(job, vector, size)
    BY <1>1, OutputOfOthers DEF Result
  <1>5. Output = [row \in 0..(m - 1) |-> set(row)]
    <2> HIDE DEF job, vector, size, m
    <2> QED BY <1>3, <1>4 DEF CpuFullyConnected
  <1>6. ASSUME NEW col \in 0..(size - 1)
        PROVE  vector[col] = (col % c) * area + area - 1 - col \div c
    <2> DEFINE pix == col \div c
               u == pix \div s
               v == pix % s
               j == (col % c) * area + (s - 1 - u) * s + (s - 1 - v)
    <2>1. vector = [z \in 0..(c * area - 1) |->
                      job.in[(z % c) * area + (s - 1 - ((z \div c) \div s)) * s + (s - 1 - ((z \div c) % s))]]
      <3> HIDE DEF job
      <3> QED BY <1>3 DEF StretchInput
    <2> HIDE DEF job, vector, c, s
    <2>2. col \in 0..(area * c - 1) /\ col \in 0..(c * area - 1) /\ col \in Nat
      BY <1>2
    <2>3. vector[col] = job.in[j]
      BY <2>1, <2>2
    <2>4. pix \in 0..(area - 1) /\ col % c \in 0..(c - 1)
      <3> HIDE DEF area
      <3> QED BY <1>1, <1>2, <2>2, QuotientBelow, Divides
    <2> HIDE DEF pix
    <2>5. u \in 0..(s - 1) /\ v \in 0..(s - 1) /\ pix = u * s + v /\ pix \in Nat
      <3>1. pix \in 0..(s * s - 1) /\ pix \in Nat /\ s \in Nat
        BY <1>1, <2>4
      <3> QED BY <1>1, <3>1, QuotientBelow, Divides
    <2> HIDE DEF u, v
    <2>6. (s - 1 - u) * s + (s - 1 - v) = area - 1 - pix
      <3>1. (s - 1 - u) * s = s * s - s - u * s
        BY <1>1, <2>5
      <3>2. u * s \in Nat /\ s * s \in Nat
        BY <1>1, <2>5
      <3> QED BY <1>1, <2>5, <3>1, <3>2
    <2>7. j = (col % c) * area + (area - 1 - pix) /\ j = (col % c) * area + area - 1 - pix
      <3>1. (col % c) * area \in Nat /\ (s - 1 - u) * s \in Int /\ area \in Nat
        BY <1>1, <1>2, <2>4, <2>5
      <3> HIDE DEF area
      <3> QED BY <1>1, <2>4, <2>5, <2>6, <3>1
    <2>8. area - 1 - pix \in 0..(area - 1)
      BY <1>2, <2>4
    <2> HIDE DEF j, area, size
    <2>9. j \in 0..(size - 1)
      <3>1. PICK q, r : q = col % c /\ r = area - 1 - pix
        OBVIOUS
      <3>2. q * area + r \in 0..(c * area - 1)
        BY <1>1, <1>2, <2>4, <2>8, <3>1, PairBelow
      <3> QED BY <1>2, <2>7, <3>1, <3>2
    <2>10. job.in[j] = j
      BY <1>3, <2>9
    <2> QED BY <2>3, <2>7, <2>10 DEF pix
  <1>7. ASSUME NEW row \in 0..(m - 1) PROVE set(row) = connected(row)
    <2>1. Bias(job.b[row]) = {<<-3, row>>}
      <3>1. job.b[row] = row /\ row \in Nat
        BY <1>3
      <3> HIDE DEF job
      <3> QED BY <3>1 DEF Bias, Product, Zero, Garbage
    <2>2. ASSUME NEW col \in 0..(size - 1)
          PROVE  <<job.we[row * size + col], vector[col]>> =
                   <<row * size + col, (col % c) * area + area - 1 - col \div c>>
      <3> HIDE DEF size, m, job
      <3>1. row * size + col \in 0..(m * size - 1)
        <4>1. size \in Nat \ {0} /\ m \in Nat
          BY <1>1, <1>2 DEF m
        <4> QED BY <4>1, PairBelow
      <3>2. job.we[row * size + col] = row * size + col
        BY <1>3, <3>1
      <3> HIDE DEF vector, area, c
      <3> QED BY <1>6, <3>2
    <2> HIDE DEF size, m, job, vector, area, c
    <2> QED BY <2>1, <2>2
  <1>8. ASSUME NEW row \in 0..(m - 1) PROVE connected(row) = Connected(row)
    BY <1>1 DEF Connected
  <1> HIDE DEF set, connected, m
  <1>9. DOMAIN Output = 0..(m - 1) /\ \A z \in DOMAIN Output : Output[z] = Connected(z)
    BY <1>5, <1>7, <1>8
  <1> QED BY <1>9 DEF m

-----------------------------------------------------------------------------
(* On every platform, split into groups or not, and however the work-items *)
(* of a kernel interleave, forward() leaves the output of its layer: for   *)
(* any layers, any size of the tiles and any number of work-items.         *)
THEOREM ForwardComputesTheLayer ==
  ASSUME FiltersFit, GroupsDivide
  PROVE  LayersSpec => []OutputIsTheLayers
  <1>1. ASSUME ResultInv PROVE OutputIsTheLayers
    <2> SUFFICES ASSUME stage = "computed", layer.type = "conv" /\ layer.platform = "CPU" => layer.filter % 2 = 1,
                        NEW z \in DOMAIN Output
                 PROVE  CASE layer.type = "conv" -> Output[z] = Convolved(z, OutputSize(layer))
                          [] layer.type = "maxpooling" -> Output[z] = Pooled(z, OutputSize(layer))
                          [] layer.type = "LRN" -> Output[z] = Normalised(z)
                          [] layer.type = "fullyConnected" -> Output[z] = Connected(z)
                          [] layer.type = "activation" -> Output[z] = {Zero, z}
                          [] layer.type = "losslayer" -> Output[z] = <<z, 0..(InputSize(layer) - 1)>>
      BY DEF OutputIsTheLayers
    <2>1. layer \in LayerSet /\ ForwardInv
      BY <1>1 DEF ResultInv
    <2>2. CASE layer.type = "conv"
      BY <2>1, <2>2, ConvolutionOutput
    <2>3. CASE layer.type = "maxpooling"
      BY <2>1, <2>3, PoolingOutput
    <2>4. CASE layer.type = "LRN"
      BY <2>1, <2>4, NormalisationOutput
    <2>5. CASE layer.type = "fullyConnected"
      BY <2>1, <2>5, FullyConnectedOutput
    <2>6. CASE layer.type \in {"activation", "losslayer"}
      <3> DEFINE in == Whole(layer).in
      <3>1. Output = Result(1) /\ Job(1) = Whole(layer) /\ layer.platform = "CPU"
        BY <2>1, <2>6, OutputOfOthers
      <3>2. DOMAIN in = 0..(InputSize(layer) - 1) /\ \A j \in DOMAIN in : in[j] = j
        BY <2>1, WholeIs
      <3>3. {in[j] : j \in DOMAIN in} = 0..(InputSize(layer) - 1)
        BY <3>2
      <3>4. CASE layer.type = "activation"
        <4>1. Output = [j \in DOMAIN in |-> {Zero, in[j]}]
          BY <3>1, <3>4 DEF Result, CpuReLU
        <4> HIDE DEF in
        <4> QED BY <3>2, <3>4, <4>1
      <3>5. CASE layer.type = "losslayer"
        <4>1. Output = [j \in DOMAIN in |-> <<in[j], {in[k] : k \in DOMAIN in}>>]
          BY <3>1, <3>5 DEF Result, CpuSoftMaxLoss
        <4> HIDE DEF in
        <4> QED BY <3>2, <3>3, <3>5, <4>1
      <3> QED BY <2>6, <3>4, <3>5
    <2>7. layer.type \in {"conv", "maxpooling", "LRN", "fullyConnected", "activation", "losslayer"}
      BY <2>1, LayerFacts
    <2> QED BY <2>2, <2>3, <2>4, <2>5, <2>6, <2>7
  <1> QED BY <1>1, AlwaysResultInv, PTL

(* A padding adds no step to a quotient while it fits into the remainder.  *)
LEMMA PaddedQuotient ==
  ASSUME NEW a \in Nat, NEW p \in Nat, NEW n \in Nat \ {0}
  PROVE  (a + p) \div n = a \div n <=> (a % n) + p < n
  <1>1. PICK q, r : q = a \div n /\ r = a % n
    OBVIOUS
  <1>2. q \in Nat /\ r \in 0..(n - 1) /\ a = q * n + r
    BY <1>1, Divides
  <1>3. CASE r + p < n
    <2>1. r + p \in 0..(n - 1) /\ a + p = q * n + (r + p)
      BY <1>2, <1>3
    <2>2. (a + p) \div n = q
      BY <1>2, <2>1, QuotientIs
    <2> QED BY <1>1, <1>3, <2>2
  <1>4. CASE ~ (r + p < n)
    <2>1. PICK b \in Nat : b = a + p
      OBVIOUS
    <2>2. b \div n \in Nat /\ b % n \in 0..(n - 1) /\ b = (b \div n) * n + (b % n)
      BY Divides
    <2>3. ASSUME b \div n = q PROVE FALSE
      BY <1>2, <1>4, <2>1, <2>2, <2>3
    <2> QED BY <1>1, <1>4, <2>1, <2>3
  <1> QED BY <1>3, <1>4

(* Planes of different widths have different numbers of places. *)
LEMMA WiderIsMore ==
  ASSUME NEW f \in Nat \ {0}, NEW x \in Nat \ {0}, NEW y \in Nat \ {0}, x < y
  PROVE  f * x * x < f * y * y
  <1>1. PICK g, h : g = f * x /\ h = f * y
    OBVIOUS
  <1>2. g \in Nat \ {0} /\ h \in Nat \ {0} /\ g <= h
    <2>1. x * f \in Nat /\ y * f \in Nat /\ x * f <= y * f
      BY ProductGrows
    <2>2. x * f = g /\ y * f = h
      BY <1>1
    <2> QED BY <1>1, <2>1, <2>2, ProductIsPositive
  <1>3. g * x \in Nat /\ h * x \in Nat /\ g * x <= h * x
    BY <1>2, ProductGrows
  <1>4. h * x < h * y
    <2>1. (x + 1) * h <= y * h /\ (x + 1) * h = x * h + h
      BY <1>2, ProductGrows
    <2> QED BY <1>2, <2>1
  <1> QED BY <1>1, <1>2, <1>3, <1>4

LEMMA SamePlanes ==
  ASSUME NEW f \in Nat \ {0}, NEW x \in Nat \ {0}, NEW y \in Nat \ {0}
  PROVE  f * x * x \in Nat /\ (f * x * x = f * y * y <=> x = y)
  <1>1. f * x * x \in Nat /\ f * y * y \in Nat
    BY ProductIsPositive
  <1> QED BY <1>1, WiderIsMore

(* For the usual filters, the output of a layer has as many numbers as     *)
(* calcOutputDimensions says just if the padding fits, on every platform.  *)
THEOREM OutputsFit ==
  ASSUME FiltersFit, GroupsDivide
  PROVE  LayersSpec => []OutputFits
  <1>1. ASSUME ResultInv PROVE OutputFits
    <2> SUFFICES ASSUME stage = "computed", FilterIsUsual
                 PROVE  Length(Output) = OutputElements(layer) <=> PaddingFits
      BY DEF OutputFits
    <2>1. layer \in LayerSet /\ ForwardInv
      BY <1>1 DEF ResultInv
    <2>2. /\ {layer.channels, layer.size, layer.filter, layer.stride, layer.filters} \subseteq Nat \ {0}
          /\ layer.padding \in Nat
      BY <2>1, LayerFacts
    <2>3. ASSUME NEW n \in Nat, DOMAIN Output = 0..(n - 1) PROVE Length(Output) = n
      BY <2>3, LengthOf
    <2>4. ASSUME layer.type \in {"conv", "maxpooling"}
          PROVE  /\ OutputSize(layer) \in Nat \ {0} /\ OutputWidth(layer) \in Nat \ {0}
                 /\ OutputSize(layer) = OutputWidth(layer) <=> PaddingFits
      <3>1. layer.filter <= layer.size + 2 * layer.padding
        BY <2>1, <2>4 DEF FiltersFit
      <3>2. PICK b \in Nat : b = layer.size - layer.filter + 2 * layer.padding
        BY <2>2, <3>1
      <3>3. OutputSize(layer) = b \div layer.stride + 1 /\ b \div layer.stride \in Nat
        BY <2>2, <3>2, Divides DEF OutputSize
      <3>4. CASE KeepsWidth(layer)
        <4>1. OutputWidth(layer) = layer.size /\ layer.stride = 1
          BY <3>4 DEF OutputWidth, KeepsWidth
        <4>2. b \div 1 = b
          OBVIOUS
        <4>3. b + 1 = layer.size <=> 2 * layer.padding = layer.filter - 1
          BY <2>2, <3>2
        <4> QED BY <2>2, <3>3, <3>4, <4>1, <4>2, <4>3 DEF PaddingFits
      <3>5. CASE ~ KeepsWidth(layer)
        <4>1. PICK a \in Nat : a = layer.size - layer.filter
          BY <2>2, <2>4, <3>5 DEF FilterIsUsual
        <4>2. PICK p \in Nat : p = 2 * layer.padding
          BY <2>2
        <4>3. b = a + p
          BY <2>2, <3>2, <4>1, <4>2
        <4>4. OutputWidth(layer) = a \div layer.stride + 1 /\ a \div layer.stride \in Nat
          BY <2>2, <3>5, <4>1, Divides DEF OutputWidth
        <4>5. PaddingFits <=> (a % layer.stride) + p < layer.stride
          BY <2>4, <3>5, <4>1, <4>2 DEF PaddingFits
        <4>6. b \div layer.stride = a \div layer.stride <=> PaddingFits
          BY <2>2, <4>3, <4>5, PaddedQuotient
        <4> QED BY <3>3, <4>4, <4>6
      <3> QED BY <3>4, <3>5
    <2>5. CASE layer.type = "conv"
      <3>1. DOMAIN Output = 0..(layer.filters * OutputSize(layer) * OutputSize(layer) - 1)
        BY <2>1, <2>5, ConvolutionOutput DEF FilterIsUsual
      <3>2. /\ layer.filters * OutputSize(layer) * OutputSize(layer) \in Nat
            /\ layer.filters * OutputSize(layer) * OutputSize(layer)
                 = layer.filters * OutputWidth(layer) * OutputWidth(layer)
               <=> OutputSize(layer) = OutputWidth(layer)
        BY <2>2, <2>4, <2>5, SamePlanes
      <3>3. Length(Output) = layer.filters * OutputSize(layer) * OutputSize(layer)
        BY <2>3, <3>1, <3>2
      <3> QED BY <2>4, <2>5, <3>2, <3>3 DEF OutputElements
    <2>6. CASE layer.type = "maxpooling"
      <3>1. DOMAIN Output = 0..(layer.channels * OutputSize(layer) * OutputSize(layer) - 1)
        BY <2>1, <2>6, PoolingOutput
      <3>2. /\ layer.channels * OutputSize(layer) * OutputSize(layer) \in Nat
            /\ layer.channels * OutputSize(layer) * OutputSize(layer)
                 = layer.channels * OutputWidth(layer) * OutputWidth(layer)
               <=> OutputSize(layer) = OutputWidth(layer)
        <4>1. layer.channels \in Nat \ {0}
          BY <2>2
        <4>2. OutputSize(layer) \in Nat \ {0} /\ OutputWidth(layer) \in Nat \ {0}
          BY <2>4, <2>6
        <4> QED BY <4>1, <4>2, SamePlanes
      <3>3. Length(Output) = layer.channels * OutputSize(layer) * OutputSize(layer)
        BY <2>3, <3>1, <3>2
      <3> QED BY <2>4, <2>6, <3>2, <3>3 DEF OutputElements
    <2>7. InputSize(layer) \in Nat
      BY <2>2 DEF InputSize
    <2>8. CASE layer.type = "LRN"
      BY <2>1, <2>3, <2>7, <2>8, NormalisationOutput DEF OutputElements, PaddingFits, KeepsWidth
    <2>9. CASE layer.type = "fullyConnected"
      BY <2>1, <2>2, <2>3, <2>9, FullyConnectedOutput DEF OutputElements, PaddingFits, KeepsWidth
    <2>10. CASE layer.type \in {"activation", "losslayer"}
      <3>1. Output = Result(1) /\ Job(1) = Whole(layer) /\ layer.platform = "CPU"
        BY <2>1, <2>10, OutputOfOthers
      <3>2. DOMAIN Output = DOMAIN Whole(layer).in
        BY <2>10, <3>1 DEF Result, CpuReLU, CpuSoftMaxLoss
      <3>3. DOMAIN Output = 0..(InputSize(layer) - 1)
        BY <2>1, <3>2, WholeIs
      <3> QED BY <2>3, <2>7, <2>10, <3>3 DEF OutputElements, PaddingFits, KeepsWidth
    <2>11. layer.type \in {"conv", "maxpooling", "LRN", "fullyConnected", "activation", "losslayer"}
      BY <2>1, LayerFacts
    <2> QED BY <2>5, <2>6, <2>8, <2>9, <2>10, <2>11
  <1> QED BY <1>1, AlwaysResultInv, PTL
=============================================================================
