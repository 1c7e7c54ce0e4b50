-------------------------- MODULE HostPlacer_proofs --------------------------
(***************************************************************************)
(* Theorems about HostPlacer, for any number of hosts and images, any      *)
(* performance table and any INT32_MAX.                                    *)
(***************************************************************************)
EXTENDS HostPlacer, Sums, FiniteSetTheorems, TLAPS

LEMMA HostsFinite == IsFiniteSet(Hosts)
BY FS_Interval, HostPlacerAssumption DEF Hosts

(* Some host has the least energy, so placeLowPower never divides by zero. *)
LEMMA LowestExists ==
  ASSUME TypeOK PROVE NumLowest \in Nat \ {0}
  <1> DEFINE S == {powerConsumption[h] : h \in Hosts}
  <1>1. IsFiniteSet(Hosts)
    BY HostsFinite
  <1>2. S \in SUBSET Nat /\ S # {}
    BY HostPlacerAssumption DEF TypeOK, Hosts
  <1>3. PICK e \in S : \A f \in S : e <= f
    BY <1>2, LeastNumber
  <1>4. allLowest # {}
    BY <1>3 DEF allLowest
  <1>5. IsFiniteSet(allLowest)
    BY <1>1, FS_Subset DEF allLowest
  <1>6. QED
    BY <1>4, <1>5, FS_CardinalityType, FS_EmptySet DEF NumLowest

(* Multiplication of natural numbers, in the three forms needed below.     *)
LEMMA Monotone ==
  ASSUME NEW a \in Nat, NEW b \in Nat, NEW c \in Nat, a <= b
  PROVE  a * c <= b * c
OBVIOUS

LEMMA OneMore ==
  ASSUME NEW a \in Nat, NEW c \in Nat
  PROVE  (a + 1) * c = a * c + c
OBVIOUS

LEMMA Cancel ==
  ASSUME NEW a \in Nat, NEW b \in Nat, NEW c \in Nat, a * c < b * c
  PROVE  a < b
BY Monotone

-----------------------------------------------------------------------------
(* The variables keep their types. *)
LEMMA TypeStep == TypeOK /\ [Next]_vars => TypeOK'
  <1> SUFFICES ASSUME TypeOK, [Next]_vars PROVE TypeOK'
    OBVIOUS
  <1> USE DEF TypeOK, requestVars, loopVars, shareVars
  <1>t. /\ \A h \in Hosts : power[h] \in Nat /\ timeConsumption[h] \in Nat
        /\ \A h \in Hosts : jobStacks[h] \in Nat /\ powerConsumption[h] \in Nat
        /\ numOfImg \in Nat
    BY HostPlacerAssumption
  <1>1. CASE ReadOverflows
    BY <1>1 DEF ReadOverflows
  <1>2. CASE ReadFails
    BY <1>2 DEF ReadFails
  <1>3. CASE ReadHosts
    <2>1. \A h \in Hosts : power[h] * timeConsumption[h] \in Nat
      BY <1>t
    <2>2. powerConsumption' \in [Hosts -> Nat]
      BY <1>3, <2>1 DEF ReadHosts
    <2>3. QED
      BY <1>3, <2>2 DEF ReadHosts, OperationMode
  <1>4. ASSUME NEW h \in Hosts, PlaceImage(h) PROVE TypeOK'
    <2>1. estimatedTime(h) \in Nat
      BY <1>t DEF estimatedTime
    <2>2. Estimate(h) \in Nat
      BY <2>1, <1>t DEF Estimate, currentCost, AtLeastZero, timePriority, powerPriority
    <2>3. QED
      BY <1>4, <2>1, <2>2 DEF PlaceImage
  <1>5. CASE PlaceImageUndefined
    BY <1>5 DEF PlaceImageUndefined
  <1>6. CASE ImagesDone
    BY <1>6 DEF ImagesDone
  <1>7. CASE SplitWorkload
    <2>1. /\ numOfImg \div NumLowest \in Nat
          /\ numOfImg % NumLowest \in Nat
      BY <1>t, LowestExists
    <2>2. QED
      BY <1>7, <2>1 DEF SplitWorkload
  <1>8. CASE ShareWithHost
    <2>1. hostload(i + 1) \in Nat
      BY DEF hostload
    <2>2. remainder' \in {remainder, remainder - 1} /\ (remainder' # remainder => remainder > 0)
      BY <1>8 DEF ShareWithHost
    <2>3. remainder' \in Nat
      BY <2>2
    <2>4. distribution' \in [Hosts -> Nat]
      BY <1>8, <2>1 DEF ShareWithHost
    <2>5. i' \in Nat
      BY <1>8 DEF ShareWithHost
    <2>6. QED
      BY <1>8, <2>3, <2>4, <2>5 DEF ShareWithHost
  <1>9. CASE SharesDone
    BY <1>9 DEF SharesDone
  <1>10. CASE UNCHANGED vars
    BY <1>10 DEF vars
  <1>11. QED
    BY <1>1, <1>2, <1>3, <1>4, <1>5, <1>6, <1>7, <1>8, <1>9, <1>10 DEF Next

(* Type correctness of the placement. *)
THEOREM TypeCorrect == Spec => []TypeOK
  <1>1. Init => TypeOK
    BY HostPlacerAssumption DEF Init, TypeOK, Zero
  <1>2. QED
    BY <1>1, TypeStep, PTL DEF Spec

-----------------------------------------------------------------------------
(* What one iteration of the loop over the images changes, seen from the   *)
(* stacks: the host that gets the image has the least estimate.            *)
LEMMA ImageStep ==
  ASSUME IInv, NEW h \in Hosts, PlaceImage(h)
  PROVE  /\ opMode = pc /\ pc \in {"HighPower", "EnergyEfficient"}
         /\ i < numOfImg /\ i' = i + 1
         /\ \A k \in Hosts : Estimate(h) <= Estimate(k)
         /\ cost' = cost + Estimate(h)
         /\ \A k \in Hosts :
              /\ jobStacks[k] \in Nat /\ distribution[k] \in Nat
              /\ timeConsumption[k] \in Nat /\ powerConsumption[k] \in Nat
              /\ jobStacks'[k] = IF k = h THEN jobStacks[k] + timeConsumption[k]
                                 ELSE jobStacks[k]
              /\ distribution'[k] = IF k = h THEN distribution[k] + 1
                                    ELSE distribution[k]
         /\ UNCHANGED <<opMode, numOfImg, timeConsumption, powerConsumption, pc>>
BY HostPlacerAssumption
   DEF IInv, TypeOK, LocationInv, PlaceImage, InImageLoop, IsMinHost,
       estimatedTime, requestVars, shareVars

(* PlaceImage keeps the four parts of the invariant. *)
LEMMA ImageKeepsInv ==
  ASSUME IInv, NEW h \in Hosts, PlaceImage(h)
  PROVE  (LocationInv /\ StackInv /\ GreedyInv /\ CostInv /\ ShareInv)'
  <1> USE ImageStep
  <1>1. LocationInv' /\ ShareInv'
    BY DEF LocationInv, ShareInv
  <1>2. StackInv'
    <2>1. ASSUME NEW k \in Hosts
          PROVE  /\ jobStacks'[k] = distribution'[k] * timeConsumption[k]
                 /\ distribution'[k] <= i + 1
      <3>1. /\ jobStacks[k] = distribution[k] * timeConsumption[k]
            /\ distribution[k] <= i
        BY DEF IInv, StackInv
      <3>2. (distribution[k] + 1) * timeConsumption[k] =
              distribution[k] * timeConsumption[k] + timeConsumption[k]
        BY OneMore
      <3>3. i \in Nat
        BY DEF IInv, TypeOK
      <3>4. QED
        BY <3>1, <3>2, <3>3
    <2>2. i + 1 <= numOfImg
      BY HostPlacerAssumption DEF IInv, TypeOK
    <2>3. QED
      BY <2>1, <2>2 DEF StackInv
  <1>3. GreedyInv'
    <2> SUFFICES ASSUME opMode = "HighPower",
                        NEW m \in Hosts, NEW k \in Hosts, distribution'[m] > 0
                 PROVE  jobStacks'[m] <= jobStacks'[k] + timeConsumption[k]
      BY DEF GreedyInv
    <2>1. jobStacks[h] + timeConsumption[h] <= jobStacks[k] + timeConsumption[k]
      BY DEF Estimate, estimatedTime
    <2>2. m # h => jobStacks[m] <= jobStacks[k] + timeConsumption[k]
      BY DEF IInv, GreedyInv
    <2>3. QED
      BY <2>1, <2>2
  <1>4. CostInv'
    <2> SUFFICES ASSUME opMode = "EnergyEfficient", NEW k \in Hosts
                 PROVE  /\ jobStacks'[k] <= currentTimeMax'
                        /\ cost' <= i' * (timeConsumption[k] + powerConsumption[k])
      BY DEF CostInv
    <2>1. /\ jobStacks[k] <= currentTimeMax
          /\ cost <= i * (timeConsumption[k] + powerConsumption[k])
          /\ i \in Nat /\ cost \in Nat /\ currentTimeMax \in Nat
      BY DEF IInv, TypeOK, CostInv
    <2>2. currentTimeMax' =
            IF jobStacks[h] + timeConsumption[h] > currentTimeMax
              THEN jobStacks[h] + timeConsumption[h] ELSE currentTimeMax
      BY DEF PlaceImage, estimatedTime
    <2>3. jobStacks'[k] <= currentTimeMax'
      BY <2>1, <2>2
    <2>4. /\ Estimate(k) <= timeConsumption[k] + powerConsumption[k]
          /\ Estimate(k) \in Int /\ Estimate(h) \in Int
      BY <2>1 DEF Estimate, currentCost, AtLeastZero, estimatedTime,
                  timePriority, powerPriority, IInv, TypeOK
    <2>5. (i + 1) * (timeConsumption[k] + powerConsumption[k]) =
            i * (timeConsumption[k] + powerConsumption[k])
              + (timeConsumption[k] + powerConsumption[k])
      BY <2>1, OneMore
    <2>6. i * (timeConsumption[k] + powerConsumption[k]) \in Nat
      BY <2>1
    <2>7. cost' <= i' * (timeConsumption[k] + powerConsumption[k])
      BY <2>1, <2>4, <2>5, <2>6
    <2>8. QED
      BY <2>3, <2>7
  <1>5. QED
    BY <1>1, <1>2, <1>3, <1>4

(* ShareWithHost keeps the invariant of low power mode. *)
LEMMA ShareKeepsInv ==
  ASSUME IInv, ShareWithHost
  PROVE  (LocationInv /\ StackInv /\ GreedyInv /\ CostInv /\ ShareInv)'
  <1>1. opMode = "LowPower" /\ pc = "share" /\ pc' = pc /\ opMode' = opMode
    BY DEF IInv, LocationInv, ShareWithHost, requestVars
  <1>2. (LocationInv /\ StackInv /\ GreedyInv /\ CostInv)'
    BY <1>1 DEF LocationInv, StackInv, GreedyInv, CostInv, OperationMode
  <1>3. i \in Nat /\ i < NumHosts /\ i + 1 \in Hosts /\ i' = i + 1
    BY HostPlacerAssumption DEF IInv, TypeOK, ShareWithHost, Hosts
  <1>4. \A k \in Hosts :
          distribution'[k] = IF k = i + 1 THEN hostload(k) ELSE distribution[k]
    BY <1>3 DEF IInv, TypeOK, ShareWithHost
  <1>5. allLowest' = allLowest /\ allLowest \subseteq Hosts
    BY DEF allLowest, ShareWithHost
  <1>6. \A k \in Hosts :
          /\ k \notin allLowest => hostload(k) = 0
          /\ k \in allLowest => hostload(k) \in {workload, workload + 1}
    BY DEF hostload
  <1>7. \A k \in Hosts : distribution'[k] > 0 => k \in allLowest
    BY <1>1, <1>4, <1>6 DEF IInv, ShareInv
  <1>8. ASSUME NEW k \in allLowest, k <= i + 1
        PROVE  distribution'[k] \in {workload, workload + 1}
    <2>1. k \in Nat
      BY <1>5 DEF Hosts
    <2>2. CASE k = i + 1
      BY <2>2, <1>4, <1>5, <1>6
    <2>3. CASE k # i + 1
      <3>1. k <= i
        BY <2>1, <2>3, <1>3, <1>8
      <3>2. distribution[k] \in {workload, workload + 1}
        BY <3>1, <1>1 DEF IInv, ShareInv
      <3>3. QED
        BY <3>2, <2>3, <1>4, <1>5
    <2>4. QED
      BY <2>2, <2>3
  <1>9. ShareInv'
    BY <1>1, <1>3, <1>5, <1>7, <1>8 DEF ShareInv, ShareWithHost
  <1>10. QED
    BY <1>2, <1>9

-----------------------------------------------------------------------------
(* The invariant is inductive. *)
LEMMA InvStep == IInv /\ [Next]_vars => IInv'
  <1> SUFFICES ASSUME IInv, [Next]_vars PROVE IInv'
    OBVIOUS
  <1> DEFINE Parts == LocationInv /\ StackInv /\ GreedyInv /\ CostInv /\ ShareInv
  <1>1. TypeOK'
    BY TypeStep DEF IInv
  <1> SUFFICES Parts'
    BY <1>1 DEF IInv
  <1>2. ASSUME UNCHANGED <<requestVars, powerConsumption, loopVars, shareVars>>,
               pc' \in {"undefined", "resource"}
        PROVE  Parts'
    BY <1>2 DEF requestVars, loopVars, shareVars, IInv, OperationMode, allLowest,
                LocationInv, StackInv, GreedyInv, CostInv, ShareInv
  <1>3. CASE ReadOverflows
    BY <1>2, <1>3 DEF ReadOverflows
  <1>4. CASE ReadFails
    BY <1>2, <1>4 DEF ReadFails
  <1>5. CASE PlaceImageUndefined
    BY <1>2, <1>5 DEF PlaceImageUndefined
  <1>6. CASE ReadHosts
    <2>1. /\ pc = "read" /\ pc' = opMode /\ opMode' = opMode /\ opMode \in OperationMode
          /\ distribution = Zero /\ jobStacks = Zero /\ i = 0 /\ cost = 0
          /\ currentTimeMax = 0
          /\ UNCHANGED <<distribution, jobStacks, i, cost, currentTimeMax,
                         numOfImg, timeConsumption>>
      BY <1>6 DEF ReadHosts, IInv, TypeOK, LocationInv, requestVars, loopVars
    <2>2. \A h \in Hosts :
            /\ timeConsumption[h] \in Nat /\ powerConsumption'[h] \in Nat
            /\ Zero[h] = 0
      BY <1>1, HostPlacerAssumption DEF IInv, TypeOK, Zero
    <2>3. numOfImg \in Nat
      BY HostPlacerAssumption DEF IInv, TypeOK
    <2>4. LocationInv' /\ ShareInv'
      BY <2>1, <2>2 DEF LocationInv, ShareInv, OperationMode
    <2>5. StackInv'
      BY <2>1, <2>2, <2>3 DEF StackInv, OperationMode
    <2>6. GreedyInv' /\ CostInv'
      BY <2>1, <2>2 DEF GreedyInv, CostInv
    <2>7. QED
      BY <2>4, <2>5, <2>6
  <1>7. ASSUME NEW h \in Hosts, PlaceImage(h) PROVE Parts'
    BY <1>7, ImageKeepsInv
  <1>8. CASE ImagesDone
    BY <1>8 DEF ImagesDone, InImageLoop, IInv, OperationMode, requestVars, loopVars,
                shareVars, LocationInv, StackInv, GreedyInv, CostInv, ShareInv
  <1>9. CASE SplitWorkload
    <2>1. /\ opMode = "LowPower" /\ opMode' = opMode /\ pc' = "share" /\ i = 0
          /\ distribution = Zero
          /\ UNCHANGED <<distribution, i, powerConsumption>>
      BY <1>9 DEF SplitWorkload, IInv, LocationInv, OperationMode, requestVars, loopVars
    <2>2. \A h \in Hosts : Zero[h] = 0 /\ h \in Nat /\ h > 0
      BY DEF Zero, Hosts
    <2>3. allLowest' = allLowest /\ allLowest \subseteq Hosts
      BY <2>1 DEF allLowest
    <2>4. ShareInv'
      BY <2>1, <2>2, <2>3 DEF ShareInv
    <2>5. QED
      BY <2>1, <2>4 DEF LocationInv, StackInv, GreedyInv, CostInv, OperationMode
  <1>10. CASE ShareWithHost
    BY <1>10, ShareKeepsInv
  <1>11. CASE SharesDone
    BY <1>11 DEF SharesDone, IInv, OperationMode, requestVars, loopVars, shareVars,
                 allLowest, LocationInv, StackInv, GreedyInv, CostInv, ShareInv
  <1>12. CASE UNCHANGED vars
    BY <1>12 DEF vars, requestVars, loopVars, shareVars, IInv, allLowest,
                 LocationInv, StackInv, GreedyInv, CostInv, ShareInv
  <1>13. QED
    BY <1>1, <1>3, <1>4, <1>5, <1>6, <1>7, <1>8, <1>9, <1>10, <1>11, <1>12
       DEF Next, IInv

(* The invariant holds throughout every placement. *)
THEOREM Invariance == Spec => []IInv
  <1>1. Init => IInv
    <2> SUFFICES ASSUME Init PROVE IInv
      OBVIOUS
    <2>1. TypeOK
      BY HostPlacerAssumption DEF Init, TypeOK, Zero
    <2>2. \A h \in Hosts : Zero[h] = 0 /\ timeConsumption[h] \in Nat /\ powerConsumption[h] \in Nat
      BY <2>1, HostPlacerAssumption DEF TypeOK, Zero
    <2>3. LocationInv /\ ShareInv
      BY <2>2 DEF Init, LocationInv, ShareInv, OperationMode
    <2>4. StackInv /\ GreedyInv /\ CostInv
      BY <2>1, <2>2, HostPlacerAssumption DEF Init, TypeOK, StackInv, GreedyInv, CostInv
    <2>5. QED
      BY <2>1, <2>3, <2>4 DEF IInv
  <1>2. QED
    BY <1>1, InvStep, PTL DEF Spec

-----------------------------------------------------------------------------
(* An assignment that finishes sooner than placeHighPower's gives no host  *)
(* more images and one host fewer.                                         *)
THEOREM HighPowerIsFastest == Spec => []FasterPlacesFewer
  <1>1. IInv => FasterPlacesFewer
    <2> SUFFICES ASSUME IInv, Placed("HighPower"),
                        NEW d \in [Hosts -> 0..numOfImg], NEW h \in Hosts,
                        \A k \in Hosts : d[k] * timeConsumption[k]
                                          < distribution[h] * timeConsumption[h]
                 PROVE  /\ \A k \in Hosts : d[k] <= distribution[k]
                        /\ d[h] < distribution[h]
      BY DEF FasterPlacesFewer
    <2>1. \A k \in Hosts : /\ d[k] \in Nat /\ distribution[k] \in Nat
                          /\ timeConsumption[k] \in Nat
      <3>1. numOfImg \in Nat /\ Times \subseteq Nat
        BY HostPlacerAssumption DEF IInv, TypeOK
      <3>2. /\ distribution \in [Hosts -> Nat]
            /\ timeConsumption \in [Hosts -> Times]
        BY DEF IInv, TypeOK
      <3>3. \A k \in Hosts : d[k] \in Nat
        BY <3>1
      <3>4. \A k \in Hosts : timeConsumption[k] \in Nat
        BY <3>1, <3>2
      <3>5. QED
        BY <3>2, <3>3, <3>4
    <2>2. d[h] < distribution[h]
      BY <2>1, Cancel
    <2>3. ASSUME NEW k \in Hosts PROVE d[k] <= distribution[k]
      <3>1. distribution[h] > 0
        BY <2>1, <2>2
      <3>2. distribution[h] * timeConsumption[h]
              <= distribution[k] * timeConsumption[k] + timeConsumption[k]
        BY <3>1, <2>1 DEF IInv, StackInv, GreedyInv, Placed
      <3>3. d[k] * timeConsumption[k] < (distribution[k] + 1) * timeConsumption[k]
        <4>1. /\ d[k] * timeConsumption[k] \in Nat
              /\ distribution[h] * timeConsumption[h] \in Nat
              /\ distribution[k] * timeConsumption[k] \in Nat
          BY <2>1
        <4>2. (distribution[k] + 1) * timeConsumption[k] =
                distribution[k] * timeConsumption[k] + timeConsumption[k]
          BY <2>1, OneMore
        <4>3. QED
          BY <4>1, <4>2, <3>2, <2>1
      <3>4. d[k] < distribution[k] + 1
        BY <3>3, <2>1, Cancel
      <3>5. QED
        BY <3>4, <2>1
    <2>4. QED
      BY <2>2, <2>3
  <1>2. QED
    BY <1>1, Invariance, PTL

(* Energy efficient mode never costs more than the best single host.       *)
THEOREM SpreadingNeverCostsMore == Spec => []NeverWorseThanOneHost
  <1>1. IInv => NeverWorseThanOneHost
    <2> SUFFICES ASSUME IInv, Placed("EnergyEfficient"), NEW h \in Hosts
                 PROVE  cost <= numOfImg * (timeConsumption[h] * timePriority
                                             + powerConsumption[h] * powerPriority)
      BY DEF NeverWorseThanOneHost
    <2>1. timeConsumption[h] \in Nat /\ powerConsumption[h] \in Nat
      BY HostPlacerAssumption DEF IInv, TypeOK
    <2>2. timeConsumption[h] * timePriority + powerConsumption[h] * powerPriority
            = timeConsumption[h] + powerConsumption[h]
      BY <2>1 DEF timePriority, powerPriority
    <2>3. i = numOfImg /\ cost <= i * (timeConsumption[h] + powerConsumption[h])
      BY DEF IInv, StackInv, CostInv, Placed
    <2>4. QED
      BY <2>2, <2>3
  <1>2. QED
    BY <1>1, Invariance, PTL

(* Low power mode uses the hosts with the least energy only, evenly.       *)
THEOREM LowPowerSplitsEvenly == Spec => []LowestShareEvenly
  <1>1. IInv => LowestShareEvenly
    <2> SUFFICES ASSUME IInv, Placed("LowPower") PROVE LowestShareEvenly
      BY DEF LowestShareEvenly
    <2>1. \A h \in Hosts : distribution[h] > 0 => h \in allLowest
      BY DEF IInv, ShareInv, Placed
    <2>2. \A h \in allLowest : h \in Hosts /\ h <= i
      BY DEF IInv, ShareInv, Placed, allLowest, Hosts
    <2>3. \A h \in allLowest : distribution[h] \in {workload, workload + 1}
      BY <2>2 DEF IInv, ShareInv, Placed
    <2>4. workload \in Nat
      BY DEF IInv, TypeOK
    <2>5. QED
      BY <2>1, <2>3, <2>4 DEF LowestShareEvenly
  <1>2. QED
    BY <1>1, Invariance, PTL

-----------------------------------------------------------------------------
(* A function on the hosts with values in Nat has a first minimum.         *)
LEMMA FirstMinimum ==
  ASSUME NEW f \in [Hosts -> Nat]
  PROVE  \E h \in Hosts : /\ \A k \in Hosts : f[h] <= f[k]
                          /\ \A k \in 1..(h - 1) : f[h] < f[k]
  <1> DEFINE V == {f[h] : h \in Hosts}
             M == {h \in Hosts : \A k \in Hosts : f[h] <= f[k]}
  <1>1. V \in SUBSET Nat /\ V # {}
    BY HostPlacerAssumption DEF Hosts
  <1>2. PICK v \in V : \A w \in V : v <= w
    BY <1>1, LeastNumber
  <1>3. M \in SUBSET Nat /\ M # {}
    BY <1>2 DEF Hosts
  <1>4. PICK h \in M : \A m \in M : h <= m
    BY <1>3, LeastNumber
  <1>5. ASSUME NEW k \in 1..(h - 1) PROVE f[h] < f[k]
    <2>1. h \in Hosts /\ h \in Nat /\ k \in Hosts /\ k < h
      BY <1>4, HostPlacerAssumption DEF Hosts
    <2>2. k \notin M
      BY <1>4, <2>1
    <2>3. PICK j \in Hosts : ~ (f[k] <= f[j])
      BY <2>1, <2>2
    <2>4. f[h] <= f[j] /\ f[h] \in Nat /\ f[k] \in Nat /\ f[j] \in Nat
      BY <1>4, <2>1
    <2>5. QED
      BY <2>3, <2>4
  <1>6. QED
    BY <1>4, <1>5

(* A small workload, as SmallWorkloadsAreDefined has it. *)
Small == \A h \in Hosts : /\ numOfImg * timeConsumption[h] < INT32_MAX
                          /\ timeConsumption[h] + power[h] * timeConsumption[h] < INT32_MAX

(* The energies were read from the file. *)
EnergyInv == InImageLoop => \A h \in Hosts : powerConsumption[h] = power[h] * timeConsumption[h]

(* With a small workload every estimate of the loop is below INT32_MAX.    *)
LEMMA EstimatesAreSmall ==
  ASSUME IInv, EnergyInv, Small, InImageLoop, i < numOfImg, NEW h \in Hosts
  PROVE  /\ estimatedTime(h) \in Nat /\ estimatedTime(h) < INT32_MAX
         /\ Estimate(h) \in Nat /\ Estimate(h) < INT32_MAX
  <1>1. /\ numOfImg \in Nat /\ i \in Nat /\ distribution[h] \in Nat
        /\ timeConsumption[h] \in Nat /\ power[h] \in Nat /\ jobStacks[h] \in Nat
        /\ powerConsumption[h] \in Nat /\ currentTimeMax \in Nat /\ INT32_MAX \in Nat
    BY HostPlacerAssumption DEF IInv, TypeOK
  <1>2. /\ opMode = pc /\ pc \in {"HighPower", "EnergyEfficient"}
    BY DEF IInv, LocationInv, InImageLoop, OperationMode
  <1>3. /\ jobStacks[h] = distribution[h] * timeConsumption[h]
        /\ distribution[h] + 1 <= numOfImg
    BY <1>1, <1>2 DEF IInv, StackInv
  <1>4. (distribution[h] + 1) * timeConsumption[h] <= numOfImg * timeConsumption[h]
    BY <1>1, <1>3, Monotone
  <1>5. estimatedTime(h) = (distribution[h] + 1) * timeConsumption[h]
    BY <1>1, <1>3, OneMore DEF estimatedTime
  <1>6. estimatedTime(h) \in Nat
    BY <1>1 DEF estimatedTime
  <1>7. numOfImg * timeConsumption[h] \in Nat /\ numOfImg * timeConsumption[h] < INT32_MAX
    BY <1>1 DEF Small
  <1>8. estimatedTime(h) < INT32_MAX
    BY <1>1, <1>4, <1>5, <1>6, <1>7
  <1>9. CASE pc = "HighPower"
    BY <1>9, <1>6, <1>8 DEF Estimate
  <1>10. CASE pc = "EnergyEfficient"
    <2>1. jobStacks[h] <= currentTimeMax
      BY <1>2, <1>10 DEF IInv, CostInv
    <2>2. timeConsumption[h] + powerConsumption[h] < INT32_MAX
      BY DEF Small, EnergyInv
    <2>3. currentCost(h) \in Nat /\ currentCost(h) <= timeConsumption[h] + powerConsumption[h]
      BY <1>1, <2>1 DEF currentCost, AtLeastZero, estimatedTime, timePriority, powerPriority
    <2>4. QED
      BY <1>1, <1>6, <1>8, <1>10, <2>2, <2>3 DEF Estimate
  <1>11. QED
    BY <1>2, <1>9, <1>10

(* With a small workload the loop over the images always finds a host.     *)
LEMMA LoopIsDefined ==
  ASSUME IInv, EnergyInv, Small PROVE ~ PlaceImageUndefined
  <1> SUFFICES ASSUME InImageLoop, i < numOfImg
               PROVE  ~ LoopOverflows /\ \E h \in Hosts : IsMinHost(h)
    BY DEF PlaceImageUndefined
  <1> DEFINE est == [h \in Hosts |-> Estimate(h)]
  <1>1. est \in [Hosts -> Nat]
    BY EstimatesAreSmall
  <1>2. \A h \in Hosts : est[h] = Estimate(h)
    OBVIOUS
  <1>3. ~ LoopOverflows
    <2>1. ASSUME NEW h \in Hosts
          PROVE  ~ (estimatedTime(h) > INT32_MAX \/ Estimate(h) > INT32_MAX)
      BY EstimatesAreSmall, HostPlacerAssumption
    <2>2. QED
      BY <2>1 DEF LoopOverflows
  <1> HIDE DEF est
  <1>4. PICK h \in Hosts : /\ \A k \in Hosts : est[h] <= est[k]
                          /\ \A k \in 1..(h - 1) : est[h] < est[k]
    BY <1>1, FirstMinimum
  <1>5. \A k \in 1..(h - 1) : k \in Hosts
    BY HostPlacerAssumption DEF Hosts
  <1>6. IsMinHost(h)
    BY <1>2, <1>4, <1>5, EstimatesAreSmall DEF IsMinHost
  <1>7. QED
    BY <1>3, <1>6

(* The int arithmetic of the placement only overflows, and minHostIndex    *)
(* only stays -1, when the workload is too large for an int.               *)
THEOREM SmallWorkloadsDefined == Spec => []SmallWorkloadsAreDefined
  <1> DEFINE J == EnergyInv /\ SmallWorkloadsAreDefined
  <1>0. SmallWorkloadsAreDefined <=> (Small => pc # "undefined")
    BY DEF SmallWorkloadsAreDefined, Small
  <1>1. Init => J
    BY <1>0 DEF Init, EnergyInv, InImageLoop
  <1>2. IInv /\ J /\ [Next]_vars => J'
    <2> SUFFICES ASSUME IInv, J, [Next]_vars PROVE J'
      OBVIOUS
    <2>1. EnergyInv'
      BY DEF IInv, LocationInv, EnergyInv, InImageLoop, OperationMode, Next, vars, requestVars,
             ReadOverflows, ReadFails, ReadHosts, PlaceImage, PlaceImageUndefined,
             ImagesDone, SplitWorkload, ShareWithHost, SharesDone
    <2>2. UNCHANGED <<numOfImg, timeConsumption, power>>
      BY DEF Next, vars, requestVars,
             ReadOverflows, ReadFails, ReadHosts, PlaceImage, PlaceImageUndefined,
             ImagesDone, SplitWorkload, ShareWithHost, SharesDone
    <2>3. Small' <=> Small
      BY <2>2 DEF Small
    <2>4. ASSUME Small PROVE pc' # "undefined"
      <3>1. pc # "undefined"
        BY <1>0, <2>4
      <3>2. ~ ReadOverflows
        <4>1. ASSUME NEW h \in Hosts PROVE ~ (power[h] * timeConsumption[h] > INT32_MAX)
          <5>1. power[h] \in Nat /\ timeConsumption[h] \in Nat /\ INT32_MAX \in Nat
            BY HostPlacerAssumption DEF IInv, TypeOK
          <5>4. power[h] * timeConsumption[h] \in Nat
            BY <5>1
          <5>2. timeConsumption[h] + power[h] * timeConsumption[h] < INT32_MAX
            BY <2>4 DEF Small
          <5>3. QED
            BY <5>1, <5>2, <5>4
        <4>2. QED
          BY <4>1 DEF ReadOverflows, ProductOverflows
      <3>3. ~ PlaceImageUndefined
        BY <2>4, LoopIsDefined
      <3>4. QED
        BY <3>1, <3>2, <3>3
           DEF Next, vars, ReadFails, ReadHosts, PlaceImage, ImagesDone, SplitWorkload,
               ShareWithHost, SharesDone, IInv, TypeOK, OperationMode
    <2>5. SmallWorkloadsAreDefined'
      BY <2>3, <2>4 DEF SmallWorkloadsAreDefined, Small
    <2>6. QED
      BY <2>1, <2>5
  <1>3. QED
    BY <1>1, <1>2, Invariance, PTL DEF Spec

-----------------------------------------------------------------------------
(* What a step of the loop over the images adds up to.                     *)
LEMMA ImageAdds ==
  ASSUME IInv, SumInv, NEW h \in Hosts, PlaceImage(h)
  PROVE  /\ SumFunction(distribution) = i /\ SumFunction(distribution') = i + 1
         /\ SumInv'
  <1>1. distribution \in [Hosts -> Nat] /\ IsFiniteSet(Hosts)
    BY HostsFinite DEF IInv, TypeOK
  <1>2. distribution' = [distribution EXCEPT ![h] = distribution[h] + 1]
    BY DEF PlaceImage
  <1>3. SumFunction(distribution) = i /\ opMode # "LowPower" /\ opMode' = opMode /\ i' = i + 1
    BY ImageStep DEF SumInv
  <1>4. SumFunction(distribution') = SumFunction(distribution) - distribution[h] + (distribution[h] + 1)
    <2>1. distribution[h] + 1 \in Nat
      BY <1>1
    <2> QED BY <1>1, <1>2, <2>1, SumExcept
  <1>5. i \in Nat /\ distribution[h] \in Nat
    BY <1>1 DEF IInv, TypeOK
  <1> QED BY <1>3, <1>4, <1>5 DEF SumInv

(* What the visit of a host adds up to in low power mode: its share comes  *)
(* off the images that are left.                                           *)
LEMMA ShareAdds ==
  ASSUME IInv, SumInv, ShareWithHost
  PROVE  /\ i + 1 \in Hosts /\ hostload(i + 1) \in Nat /\ distribution[i + 1] = 0
         /\ hostload(i + 1) <= numOfImg - SumFunction(distribution)
         /\ SumFunction(distribution') = SumFunction(distribution) + hostload(i + 1)
         /\ SumInv'
  <1> DEFINE v == hostload(i + 1)
             ahead == {h \in allLowest : h > i}
             later == {h \in allLowest : h > i + 1}
             n == Cardinality(ahead)
  <1>1. /\ opMode = "LowPower" /\ pc = "share" /\ pc' = pc /\ opMode' = opMode
        /\ i \in Nat /\ i < NumHosts /\ i + 1 \in Hosts /\ i' = i + 1
        /\ workload \in Nat /\ remainder \in Nat
        /\ UNCHANGED <<workload, numOfImg, powerConsumption>>
    BY HostPlacerAssumption DEF IInv, TypeOK, LocationInv, ShareWithHost, requestVars, Hosts
  <1>2. distribution \in [Hosts -> Nat] /\ IsFiniteSet(Hosts)
    BY HostsFinite DEF IInv, TypeOK
  <1>3. v = IF i + 1 \notin allLowest THEN 0 ELSE IF remainder > 0 THEN workload + 1 ELSE workload
    BY DEF hostload
  <1>4. v \in Nat
    BY <1>1, <1>3
  <1>5. distribution' = [distribution EXCEPT ![i + 1] = v]
    BY DEF ShareWithHost
  <1>6. remainder' = IF i + 1 \in allLowest /\ remainder > 0 THEN remainder - 1 ELSE remainder
    BY DEF ShareWithHost
  <1> HIDE DEF v
  <1>7. /\ \A h \in Hosts : h > i => distribution[h] = 0
        /\ remainder <= n
        /\ SumFunction(distribution) + n * workload + remainder = numOfImg
    BY <1>1 DEF SumInv
  <1>8. distribution[i + 1] = 0
    BY <1>1, <1>7
  <1>9. SumFunction(distribution') = SumFunction(distribution) + v
    <2>1. SumFunction(distribution') = SumFunction(distribution) - distribution[i + 1] + v
      BY <1>1, <1>2, <1>4, <1>5, SumExcept
    <2> QED BY <1>2, <1>8, <2>1, SumType
  <1>10. allLowest' = allLowest /\ allLowest \subseteq Hosts
    BY <1>1 DEF allLowest
  <1>11. IsFiniteSet(ahead) /\ IsFiniteSet(later)
    BY <1>2, <1>10, FS_Subset
  <1>12. n \in Nat
    BY <1>11, FS_CardinalityType
  <1>13. /\ i + 1 \in allLowest => n >= 1 /\ Cardinality(later) = n - 1
         /\ i + 1 \notin allLowest => later = ahead
    <2>1. \A h \in allLowest : h \in Nat
      BY <1>10 DEF Hosts
    <2>2. CASE i + 1 \in allLowest
      <3>1. later = ahead \ {i + 1} /\ i + 1 \in ahead
        BY <1>1, <2>1, <2>2
      <3>2. Cardinality(later) = n - 1 /\ Cardinality(later) \in Nat
        BY <1>11, <3>1, FS_RemoveElement, FS_CardinalityType
      <3> QED BY <1>12, <2>2, <3>2
    <2>3. CASE i + 1 \notin allLowest
      BY <1>1, <2>1, <2>3
    <2> QED BY <2>2, <2>3
  <1> DEFINE m == Cardinality(later)
  <1> HIDE DEF ahead, later, n
  <1>14. v <= n * workload + remainder
    <2>1. CASE i + 1 \in allLowest
      <3>1. 1 * workload <= n * workload /\ n * workload \in Nat
        BY <1>1, <1>12, <1>13, <2>1, Monotone
      <3> QED BY <1>1, <1>3, <2>1, <3>1
    <2>2. CASE i + 1 \notin allLowest
      <3>1. n * workload \in Nat
        BY <1>1, <1>12
      <3> QED BY <1>1, <1>3, <2>2, <3>1
    <2> QED BY <2>1, <2>2
  <1>15. SumFunction(distribution) \in Nat /\ n * workload \in Nat /\ numOfImg \in Nat
    BY <1>1, <1>2, <1>12, SumType, HostPlacerAssumption DEF IInv, TypeOK
  <1>16. v <= numOfImg - SumFunction(distribution)
    BY <1>1, <1>4, <1>7, <1>14, <1>15
  <1>17. /\ remainder' <= m
         /\ SumFunction(distribution') + m * workload + remainder' = numOfImg
    <2>1. CASE i + 1 \in allLowest
      <3>1. m = n - 1 /\ n >= 1
        BY <1>13, <2>1
      <3>2. (n - 1) * workload = n * workload - workload
        BY <1>1, <1>12
      <3> QED BY <1>1, <1>3, <1>6, <1>7, <1>9, <1>12, <1>15, <2>1, <3>1, <3>2
    <2>2. CASE i + 1 \notin allLowest
      <3>1. m = n /\ v = 0 /\ remainder' = remainder
        BY <1>3, <1>6, <1>13, <2>2 DEF n
      <3> QED BY <1>7, <1>9, <1>15, <3>1
    <2> QED BY <2>1, <2>2
  <1>18. \A h \in Hosts : h > i + 1 => distribution'[h] = 0
    <2> SUFFICES ASSUME NEW h \in Hosts, h > i + 1 PROVE distribution'[h] = 0
      OBVIOUS
    <2>1. h \in Nat /\ h > i /\ h # i + 1
      BY <1>1 DEF Hosts
    <2> QED BY <1>2, <1>5, <1>7, <2>1
  <1>19. {h \in allLowest' : h > i'} = later
    BY <1>1, <1>10 DEF later
  <1>20. SumInv'
    BY <1>1, <1>17, <1>18, <1>19 DEF SumInv
  <1> QED BY <1>1, <1>4, <1>8, <1>9, <1>16, <1>20 DEF v

(* When the work is split, all lowest hosts are ahead. *)
LEMMA SplitAdds == IInv /\ SplitWorkload => SumInv'
  <1> SUFFICES ASSUME IInv, SplitWorkload PROVE SumInv'
    OBVIOUS
  <1> DEFINE q == numOfImg \div NumLowest
             r == numOfImg % NumLowest
  <1>1. /\ opMode = "LowPower" /\ opMode' = opMode /\ pc' = "share" /\ i = 0 /\ i' = 0
        /\ distribution = Zero /\ distribution' = Zero
        /\ workload' = q /\ remainder' = r
        /\ UNCHANGED <<numOfImg, powerConsumption>>
    BY DEF SplitWorkload, IInv, LocationInv, OperationMode, requestVars, loopVars
  <1>2. NumLowest \in Nat \ {0} /\ numOfImg \in Nat
    BY LowestExists, HostPlacerAssumption DEF IInv, TypeOK
  <1>3. q \in Nat /\ r \in Nat /\ r <= NumLowest /\ NumLowest * q + r = numOfImg
    BY <1>2
  <1>4. SumFunction(Zero) = 0
    BY HostsFinite, SumZero DEF Zero
  <1>5. \A h \in Hosts : h > 0 /\ Zero[h] = 0
    BY DEF Hosts, Zero
  <1>6. {h \in allLowest' : h > i'} = allLowest
    BY <1>1, <1>5 DEF allLowest
  <1> HIDE DEF q, r
  <1>7. NumLowest = Cardinality(allLowest) /\ NumLowest * q \in Nat
    BY <1>2, <1>3 DEF NumLowest
  <1>8. /\ \A h \in Hosts : distribution'[h] = 0
        /\ remainder' <= NumLowest
        /\ SumFunction(distribution') + NumLowest * workload' + remainder' = numOfImg'
    <2>1. \A h \in Hosts : distribution'[h] = 0
      BY <1>1, <1>5
    <2>2. SumFunction(distribution') = 0
      BY <1>1, <1>4
    <2> QED BY <1>1, <1>2, <1>3, <1>7, <2>1, <2>2
  <1>9. Cardinality({h \in allLowest' : h > i'}) = NumLowest
    BY <1>6, <1>7
  <1> QED BY <1>1, <1>8, <1>9 DEF SumInv

LEMMA SumStep == IInv /\ SumInv /\ [Next]_vars => SumInv'
  <1> SUFFICES ASSUME IInv, SumInv, [Next]_vars PROVE SumInv'
    OBVIOUS
  <1>1. CASE \E h \in Hosts : PlaceImage(h)
    BY <1>1, ImageAdds
  <1>2. CASE SplitWorkload
    BY <1>2, SplitAdds
  <1>3. CASE ShareWithHost
    BY <1>3, ShareAdds
  <1>4. CASE \/ ReadOverflows \/ ReadFails \/ PlaceImageUndefined \/ ImagesDone
             \/ SharesDone \/ UNCHANGED vars
    <2>1. /\ UNCHANGED <<opMode, distribution, i, numOfImg, powerConsumption, workload, remainder>>
          /\ pc' \in {"share", "done"} /\ opMode = "LowPower" => pc \in {"share", "done"}
      BY <1>4 DEF vars, requestVars, loopVars, shareVars, ReadOverflows, ReadFails,
         PlaceImageUndefined, ImagesDone, SharesDone, InImageLoop, IInv, LocationInv, OperationMode
    <2>2. allLowest' = allLowest
      BY <2>1 DEF allLowest
    <2> QED BY <2>1, <2>2 DEF SumInv
  <1>5. CASE ReadHosts
    <2>1. /\ UNCHANGED <<opMode, distribution, i>> /\ pc' \in OperationMode
      BY <1>5 DEF ReadHosts, requestVars, loopVars, IInv, TypeOK
    <2> QED BY <2>1 DEF SumInv, OperationMode
  <1> QED BY <1>1, <1>2, <1>3, <1>4, <1>5 DEF Next

LEMMA SumInvariance == Spec => [](IInv /\ SumInv)
  <1>1. Init => SumInv
    <2> SUFFICES ASSUME Init PROVE SumInv
      OBVIOUS
    <2>1. SumFunction(Zero) = 0
      BY HostsFinite, SumZero DEF Zero
    <2> QED BY <2>1 DEF Init, SumInv
  <1> QED BY <1>1, SumStep, Invariance, PTL DEF Spec

(* All images are placed when the loops of the modes are done.             *)
LEMMA AllAreGiven ==
  ASSUME IInv, SumInv, pc = "done"
  PROVE  SumFunction(distribution) = numOfImg
  <1>1. /\ distribution \in [Hosts -> Nat] /\ numOfImg \in Nat
        /\ workload \in Nat /\ remainder \in Nat
    BY HostPlacerAssumption DEF IInv, TypeOK
  <1>2. CASE opMode = "LowPower"
    <2>1. i = NumHosts
      BY <1>2 DEF IInv, ShareInv
    <2>2. {h \in allLowest : h > i} = {}
      BY <2>1, HostPlacerAssumption DEF allLowest, Hosts
    <2>3. Cardinality({h \in allLowest : h > i}) = 0
      BY <2>2, FS_EmptySet
    <2>4. remainder <= 0 /\ SumFunction(distribution) + 0 * workload + remainder = numOfImg
      BY <1>2, <2>3 DEF SumInv
    <2>5. SumFunction(distribution) \in Nat
      BY <1>1, HostsFinite, SumType
    <2> QED BY <1>1, <2>4, <2>5
  <1>3. CASE opMode # "LowPower"
    BY <1>3 DEF SumInv, IInv, StackInv
  <1> QED BY <1>2, <1>3

(* What HostPlacer::place returns is one of the Assignments that Manager   *)
(* takes its placements from.                                              *)
THEOREM ReturnsAnAssignment ==
  Spec => [](pc = "done" => distribution \in Assignments(Hosts, numOfImg))
  <1>1. ASSUME IInv, SumInv, pc = "done"
        PROVE  distribution \in Assignments(Hosts, numOfImg)
    <2>1. distribution \in [Hosts -> Nat] /\ numOfImg \in Nat
      BY <1>1, HostPlacerAssumption DEF IInv, TypeOK
    <2>2. SumFunction(distribution) = numOfImg
      BY <1>1, AllAreGiven
    <2>3. ASSUME NEW h \in Hosts PROVE distribution[h] <= numOfImg
      <3>1. PICK g : IsSum(g, distribution, Hosts) /\ SumFunction(distribution) = g[Hosts]
        BY <2>1, HostsFinite, SumFunctionIsSum
      <3>2. g[Hosts] = distribution[h] + g[Hosts \ {h}] /\ g[Hosts \ {h}] \in Nat
        BY <3>1 DEF IsSum
      <3> QED BY <2>1, <2>2, <3>1, <3>2
    <2>4. distribution \in [Hosts -> 0..numOfImg]
      BY <2>1, <2>3
    <2> QED BY <2>2, <2>4 DEF Assignments
  <1> QED BY <1>1, SumInvariance, PTL

(* In high power mode the longest job stack is as short as it can be:      *)
(* HostPlacer.h:67-68.  An assignment with a shorter one has, by           *)
(* FasterPlacesFewer, no host with more images and one with fewer, so that *)
(* it does not place them all.                                             *)
THEOREM HighPowerIsOptimal == Spec => []SmallestMaximumStack
  <1>1. ASSUME IInv, SumInv, FasterPlacesFewer PROVE SmallestMaximumStack
    <2> SUFFICES ASSUME Placed("HighPower"), NEW d \in Assignments(Hosts, numOfImg),
                        NEW h \in Hosts,
                        ~ \E k \in Hosts : distribution[h] * timeConsumption[h]
                                              <= d[k] * timeConsumption[k]
                 PROVE  FALSE
      BY DEF SmallestMaximumStack
    <2>1. /\ distribution \in [Hosts -> Nat] /\ numOfImg \in Nat
          /\ timeConsumption \in [Hosts -> Nat]
      BY <1>1, HostPlacerAssumption DEF IInv, TypeOK
    <2>2. d \in [Hosts -> 0..numOfImg] /\ SumFunction(d) = numOfImg
      BY DEF Assignments
    <2>3. d \in [Hosts -> Nat]
      BY <2>1, <2>2
    <2>4. ASSUME NEW k \in Hosts
          PROVE  d[k] * timeConsumption[k] < distribution[h] * timeConsumption[h]
      <3>1. /\ d[k] * timeConsumption[k] \in Nat
            /\ distribution[h] * timeConsumption[h] \in Nat
        BY <2>1, <2>3
      <3> QED BY <3>1
    <2>5. (\A k \in Hosts : d[k] <= distribution[k]) /\ d[h] < distribution[h]
      BY <1>1, <2>2, <2>4 DEF FasterPlacesFewer
    <2> DEFINE more == [d EXCEPT ![h] = d[h] + 1]
    <2>6. more \in [Hosts -> Nat] /\ \A k \in Hosts : 1 * more[k] <= distribution[k]
      BY <2>1, <2>3, <2>5
    <2>7. SumFunction(more) = SumFunction(d) - d[h] + (d[h] + 1)
      <3>1. d[h] + 1 \in Nat
        BY <2>3
      <3> QED BY <2>3, <3>1, HostsFinite, SumExcept
    <2> HIDE DEF more
    <2>8. 1 * SumFunction(more) <= SumFunction(distribution)
      BY <2>1, <2>6, HostsFinite, SumAtLeast
    <2>9. SumFunction(distribution) = numOfImg
      BY <1>1, AllAreGiven DEF Placed
    <2>10. SumFunction(more) = numOfImg + 1
      BY <2>1, <2>2, <2>3, <2>7
    <2> QED BY <2>1, <2>8, <2>9, <2>10
  <1> QED BY <1>1, SumInvariance, HighPowerIsFastest, PTL

(* In low power mode no other assignment of the same images takes less     *)
(* energy: HostPlacer.h:56-57.  All images are at hosts with the least     *)
(* energy per image, which any assignment takes for each of them.          *)
THEOREM LowPowerIsCheapest == Spec => []LeastEnergy
  <1>1. IInv /\ SumInv => LeastEnergy
    <2> SUFFICES ASSUME IInv, SumInv, Placed("LowPower"), NEW d \in Assignments(Hosts, numOfImg)
                 PROVE  Energy(distribution) <= Energy(d)
      BY DEF LeastEnergy
    <2> DEFINE energy(f) == [h \in Hosts |-> f[h] * powerConsumption[h]]
    <2>1. /\ distribution \in [Hosts -> Nat] /\ powerConsumption \in [Hosts -> Nat]
          /\ numOfImg \in Nat /\ workload \in Nat /\ remainder \in Nat
      BY HostPlacerAssumption DEF IInv, TypeOK
    <2>2. d \in [Hosts -> Nat] /\ SumFunction(d) = numOfImg
      BY <2>1 DEF Assignments
    <2>3. PICK e \in allLowest : TRUE
      BY LowestExists, FS_EmptySet DEF NumLowest, IInv
    <2> DEFINE least == powerConsumption[e]
    <2>4. /\ e \in Hosts /\ least \in Nat
          /\ \A h \in Hosts : least <= powerConsumption[h] /\ powerConsumption[h] \in Nat
          /\ \A h \in allLowest : powerConsumption[h] = least
      BY <2>1, <2>3 DEF allLowest
    <2> HIDE DEF least
    <2>5. SumFunction(distribution) = numOfImg
      BY AllAreGiven DEF Placed
    <2>6. Energy(distribution) = least * SumFunction(distribution)
      <3>1. energy(distribution) \in [Hosts -> Nat]
        BY <2>1
      <3>2. \A h \in Hosts : energy(distribution)[h] = least * distribution[h]
        <4> SUFFICES ASSUME NEW h \in Hosts
                     PROVE  distribution[h] * powerConsumption[h] = least * distribution[h]
          OBVIOUS
        <4>1. distribution[h] \in Nat /\ (distribution[h] > 0 => h \in allLowest)
          BY <2>1 DEF IInv, ShareInv, Placed
        <4> QED BY <2>4, <4>1
      <3> HIDE DEF energy
      <3>3. SumFunction(energy(distribution)) = least * SumFunction(distribution)
        BY <2>1, <2>4, <3>1, <3>2, HostsFinite, SumScaled
      <3> QED BY <3>3 DEF Energy, energy
    <2>7. least * SumFunction(d) <= Energy(d)
      <3>1. energy(d) \in [Hosts -> Nat]
        BY <2>1, <2>2
      <3>2. \A h \in Hosts : least * d[h] <= energy(d)[h]
        <4> SUFFICES ASSUME NEW h \in Hosts PROVE least * d[h] <= d[h] * powerConsumption[h]
          OBVIOUS
        <4>1. d[h] \in Nat /\ powerConsumption[h] \in Nat /\ least <= powerConsumption[h]
          BY <2>2, <2>4
        <4>2. least * d[h] <= powerConsumption[h] * d[h]
          BY <2>4, <4>1, Monotone
        <4> QED BY <4>1, <4>2
      <3> HIDE DEF energy
      <3>3. least * SumFunction(d) <= SumFunction(energy(d))
        BY <2>2, <2>4, <3>1, <3>2, HostsFinite, SumAtLeast
      <3> QED BY <3>3 DEF Energy, energy
    <2> QED BY <2>2, <2>5, <2>6, <2>7
  <1> QED BY <1>1, SumInvariance, PTL

-----------------------------------------------------------------------------
(* HostPlacer implements the safety part of HostPlacement: what a step     *)
(* adds to distribution comes off the images that are left, every image is *)
(* given to one host, and a placement is complete only when none is left.  *)
THEOREM PlacesImages == Spec => HP!Init /\ [][HP!Next]_(HP!placementVars)
  <1>1. Init => HP!Init
    <2> SUFFICES ASSUME Init PROVE HP!Init
      OBVIOUS
    <2>1. SumFunction(distribution) = 0 /\ distribution = Zero /\ numOfImg \in Nat
      BY HostsFinite, SumZero, HostPlacerAssumption DEF Zero, Init
    <2> QED BY <2>1 DEF Init, HP!Init, HP!Hosts, Hosts, Zero
  <1>2. IInv /\ SumInv /\ [Next]_vars => [HP!Next]_(HP!placementVars)
    <2> SUFFICES ASSUME IInv, SumInv, [Next]_vars PROVE [HP!Next]_(HP!placementVars)
      OBVIOUS
    <2> DEFINE left == numOfImg - SumFunction(distribution)
               outcome == CASE pc = "done" -> "placed"
                            [] pc \in {"resource", "undefined"} -> "failed"
                            [] OTHER -> "open"
    <2>1. distribution \in [Hosts -> Nat] /\ SumFunction(distribution) \in Nat /\ numOfImg \in Nat
      BY HostsFinite, SumType, HostPlacerAssumption DEF IInv, TypeOK
    <2>2. ASSUME NEW h \in Hosts, NEW k \in Nat, k > 0, k <= left,
                 outcome = "open", outcome' = "open", numOfImg' = numOfImg,
                 distribution' = [distribution EXCEPT ![h] = distribution[h] + k],
                 SumFunction(distribution') = SumFunction(distribution) + k
          PROVE  HP!Next
      <3>1. left' = left - k
        BY <2>1, <2>2
      <3>2. k \in 1..left
        BY <2>1, <2>2
      <3>3. HP!Give(h, k)
        BY <2>2, <3>1 DEF HP!Give
      <3> QED BY <2>2, <3>2, <3>3 DEF HP!Next, HP!Hosts, Hosts
    <2>3. ASSUME UNCHANGED <<left, distribution, outcome>>
          PROVE  UNCHANGED HP!placementVars
      BY <2>3 DEF HP!placementVars
    <2>4. CASE \E h \in Hosts : PlaceImage(h)
      <3>1. PICK h \in Hosts : PlaceImage(h)
        BY <2>4
      <3>2. /\ i < numOfImg /\ i \in Nat /\ numOfImg' = numOfImg /\ pc' = pc
            /\ pc \in {"HighPower", "EnergyEfficient"}
            /\ distribution' = [distribution EXCEPT ![h] = distribution[h] + 1]
        BY <3>1, ImageStep DEF PlaceImage, IInv, TypeOK
      <3>3. SumFunction(distribution) = i /\ SumFunction(distribution') = i + 1
        BY <3>1, ImageAdds
      <3>4. 1 <= left /\ outcome = "open" /\ outcome' = "open"
        BY <2>1, <3>2, <3>3
      <3> HIDE DEF outcome, left
      <3>5. 1 \in Nat /\ 1 > 0
        OBVIOUS
      <3> QED BY <2>2, <3>2, <3>3, <3>4, <3>5
    <2>5. CASE ShareWithHost
      <3> DEFINE v == hostload(i + 1)
      <3>1. /\ pc = "share" /\ pc' = "share" /\ numOfImg' = numOfImg
            /\ distribution' = [distribution EXCEPT ![i + 1] = v]
        BY <2>5 DEF ShareWithHost, requestVars
      <3>2. /\ i + 1 \in Hosts /\ v \in Nat /\ distribution[i + 1] = 0 /\ v <= left
            /\ SumFunction(distribution') = SumFunction(distribution) + v
        BY <2>5, ShareAdds
      <3> HIDE DEF v
      <3>3. CASE v = 0
        <4>1. distribution' = distribution
          BY <2>1, <3>1, <3>2, <3>3
        <4> QED BY <2>3, <3>1, <4>1
      <3>4. CASE v # 0
        <4>1. distribution' = [distribution EXCEPT ![i + 1] = distribution[i + 1] + v]
          BY <3>1, <3>2
        <4>2. outcome = "open" /\ outcome' = "open" /\ v > 0
          BY <3>1, <3>2, <3>4
        <4> HIDE DEF outcome, left
        <4> QED BY <2>2, <3>1, <3>2, <4>1, <4>2
      <3> QED BY <3>3, <3>4
    <2>6. CASE ImagesDone
      <3>1. /\ i = numOfImg /\ pc \in {"HighPower", "EnergyEfficient"} /\ pc' = "done"
            /\ UNCHANGED <<numOfImg, distribution>>
        BY <2>6 DEF ImagesDone, InImageLoop, requestVars, loopVars
      <3>2. SumFunction(distribution) = i
        BY <3>1 DEF SumInv, IInv, LocationInv, OperationMode
      <3> QED BY <2>1, <3>1, <3>2 DEF HP!Next, HP!Complete
    <2>7. CASE SharesDone
      <3>1. /\ i = NumHosts /\ pc = "share" /\ pc' = "done" /\ opMode = "LowPower"
            /\ UNCHANGED <<numOfImg, distribution>>
        BY <2>7 DEF SharesDone, requestVars, loopVars, IInv, LocationInv
      <3>2. {h \in allLowest : h > i} = {}
        BY <3>1, HostPlacerAssumption DEF allLowest, Hosts
      <3>3. Cardinality({h \in allLowest : h > i}) = 0
        BY <3>2, FS_EmptySet
      <3>4. remainder <= 0 /\ SumFunction(distribution) + 0 * workload + remainder = numOfImg
        BY <3>1, <3>3 DEF SumInv
      <3>5. left = 0
        BY <2>1, <3>4 DEF IInv, TypeOK
      <3> QED BY <3>1, <3>5 DEF HP!Next, HP!Complete
    <2>8. CASE ReadOverflows \/ ReadFails \/ PlaceImageUndefined
      <3>1. /\ pc \notin {"done", "resource", "undefined"} /\ pc' \in {"resource", "undefined"}
            /\ UNCHANGED <<numOfImg, distribution>>
        BY <2>8 DEF ReadOverflows, ReadFails, PlaceImageUndefined, InImageLoop, requestVars, loopVars
      <3>2. HP!GiveUp
        BY <3>1 DEF HP!GiveUp
      <3> QED BY <3>2 DEF HP!Next
    <2>9. CASE ReadHosts \/ SplitWorkload \/ UNCHANGED vars
      <3>1. /\ UNCHANGED <<numOfImg, distribution>>
            /\ \/ pc' = pc
               \/ /\ pc \notin {"done", "resource", "undefined"}
                  /\ pc' \notin {"done", "resource", "undefined"}
        BY <2>9 DEF ReadHosts, SplitWorkload, vars, requestVars, loopVars, IInv, TypeOK, OperationMode
      <3> QED BY <2>3, <3>1
    <2> QED BY <2>4, <2>5, <2>6, <2>7, <2>8, <2>9 DEF Next
  <1> QED BY <1>1, <1>2, SumInvariance, PTL DEF Spec

=============================================================================
