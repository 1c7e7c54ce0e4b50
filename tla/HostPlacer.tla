----------------------------- MODULE HostPlacer -----------------------------
(***************************************************************************)
(* HostPlacer::place (src/src/manager/HostPlacer.cpp): distributes the     *)
(* images of one request to the available computation hosts.  The file     *)
(* computationHosts.json is read first; the operation mode then selects    *)
(* one of three algorithms.  placeHighPower and placeEnergyEfficient give  *)
(* one image per iteration to the host that is cheapest at that moment,    *)
(* placeLowPower splits the images among the hosts with the least energy   *)
(* per image.                                                              *)
(*                                                                         *)
(* One iteration of a loop over the images, or over the hosts for          *)
(* placeLowPower, is one step.  Arithmetic is that of int: a step whose    *)
(* C++ has no defined result (signed overflow, jobStacks[-1]) leads to the *)
(* location "undefined".                                                   *)
(***************************************************************************)
EXTENDS Integers, FiniteSets, Functions, Placements

CONSTANTS
  NumHosts,      (* number of available hosts, in the order of the vector  *)
  ImageCounts,   (* the numbers of images a request may have               *)
  Powers,        (* the values of "power" in computationHosts.json (watts) *)
  Times,         (* the values of "time" in computationHosts.json (ms)     *)
  INT32_MAX      (* the largest int                                        *)

ASSUME HostPlacerAssumption ==
  /\ NumHosts \in Nat \ {0}
  /\ ImageCounts \subseteq Nat
  /\ Powers \subseteq Nat
  /\ Times \subseteq Nat \ {0}
  /\ INT32_MAX \in Nat

Hosts == 1..NumHosts
OperationMode == {"HighPower", "LowPower", "EnergyEfficient"}
timePriority == 1
powerPriority == 1

VARIABLES
  opMode,            (* the operation mode of the request                    *)
  numOfImg,          (* the number of images to distribute                   *)
  listed,            (* the hosts that computationHosts.json has an entry of *)
  power,             (* "power" of each host's entry                         *)
  timeConsumption,   (* "time" of each host's entry                          *)
  powerConsumption,  (* power * time: the energy of one classification       *)
  pc,                (* "read", a mode's loop, "done", "resource" (exception *)
                     (* thrown), "undefined"                                 *)
  distribution,      (* distribution[h]: images given to host h              *)
  jobStacks,         (* jobStacks[h]: time host h needs for its images       *)
  currentTimeMax,    (* placeEnergyEfficient: the highest job stack          *)
  i,                 (* loop counter: images placed, or hosts visited        *)
  workload,          (* placeLowPower: images every lowest host gets         *)
  remainder,         (* placeLowPower: lowest hosts that get one image more  *)
  cost               (* history: sum of the minimal costs chosen so far      *)

requestVars == <<opMode, numOfImg, listed, power, timeConsumption>>
loopVars == <<distribution, jobStacks, currentTimeMax, i, cost>>
shareVars == <<workload, remainder>>
vars == <<requestVars, powerConsumption, pc, loopVars, shareVars>>

Zero == [h \in Hosts |-> 0]

Init ==
  /\ opMode \in OperationMode
  /\ numOfImg \in ImageCounts
  /\ listed \in SUBSET Hosts
  /\ power \in [Hosts -> Powers]
  /\ timeConsumption \in [Hosts -> Times]
  /\ powerConsumption = Zero
  /\ pc = "read"
  /\ distribution = Zero
  /\ jobStacks = Zero
  /\ currentTimeMax = 0
  /\ i = 0
  /\ workload = 0
  /\ remainder = 0
  /\ cost = 0

-----------------------------------------------------------------------------
(* readComputationHostInfo for every host, in order.  Host h is reached    *)
(* when every host before it has an entry.                                 *)
Reached(h) == \A k \in 1..(h - 1) : k \in listed
ProductOverflows(h) ==
  Reached(h) /\ h \in listed /\ power[h] * timeConsumption[h] > INT32_MAX

ReadOverflows ==
  /\ pc = "read"
  /\ \E h \in Hosts : ProductOverflows(h)
  /\ pc' = "undefined"
  /\ UNCHANGED <<requestVars, powerConsumption, loopVars, shareVars>>

(* A host without an entry, or a file that cannot be read (no host is      *)
(* listed): ResourceException leaves place.                                *)
ReadFails ==
  /\ pc = "read"
  /\ ~ \E h \in Hosts : ProductOverflows(h)
  /\ listed # Hosts
  /\ pc' = "resource"
  /\ UNCHANGED <<requestVars, powerConsumption, loopVars, shareVars>>

ReadHosts ==
  /\ pc = "read"
  /\ ~ \E h \in Hosts : ProductOverflows(h)
  /\ listed = Hosts
  /\ powerConsumption' = [h \in Hosts |-> power[h] * timeConsumption[h]]
  /\ pc' = opMode
  /\ UNCHANGED <<requestVars, loopVars, shareVars>>

-----------------------------------------------------------------------------
(* placeHighPower and placeEnergyEfficient.  A definition marked "fault:"  *)
(* is a seeded bug: it is used only in place of the definition below it,   *)
(* to show that the properties notice.                                     *)

(* fault: the time of the next image is forgotten. *)
StackWithoutImage(h) == jobStacks[h]

estimatedTime(h) == jobStacks[h] + timeConsumption[h]

AtLeastZero(n) == IF n > 0 THEN n ELSE 0

(* fault: the whole stack is paid for again with every image. *)
TotalTimeCost(h) ==
  estimatedTime(h) * timePriority + powerConsumption[h] * powerPriority

currentCost(h) ==
  AtLeastZero(estimatedTime(h) - currentTimeMax) * timePriority
    + powerConsumption[h] * powerPriority

(* What the loop over the hosts minimises, in each of the two modes. *)
Estimate(h) == IF pc = "HighPower" THEN estimatedTime(h) ELSE currentCost(h)

(* The first host with the least estimate: the comparison is strict and    *)
(* starts from INT32_MAX, so a host whose estimate is INT32_MAX is never   *)
(* taken.                                                                  *)
IsMinHost(h) ==
  /\ Estimate(h) < INT32_MAX
  /\ \A k \in Hosts : Estimate(h) <= Estimate(k)
  /\ \A k \in 1..(h - 1) : Estimate(h) < Estimate(k)

LoopOverflows ==
  \E h \in Hosts : estimatedTime(h) > INT32_MAX \/ Estimate(h) > INT32_MAX

InImageLoop == pc \in {"HighPower", "EnergyEfficient"}

PlaceImage(h) ==
  /\ InImageLoop
  /\ i < numOfImg
  /\ ~ LoopOverflows
  /\ IsMinHost(h)
  /\ jobStacks' = [jobStacks EXCEPT ![h] = estimatedTime(h)]
  /\ currentTimeMax' = IF pc = "EnergyEfficient" /\ estimatedTime(h) > currentTimeMax
                         THEN estimatedTime(h) ELSE currentTimeMax
  /\ distribution' = [distribution EXCEPT ![h] = @ + 1]
  /\ i' = i + 1
  /\ cost' = cost + Estimate(h)
  /\ UNCHANGED <<requestVars, powerConsumption, pc, shareVars>>

(* Overflow in the loop over the hosts, or no host below INT32_MAX.        *)
PlaceImageUndefined ==
  /\ InImageLoop
  /\ i < numOfImg
  /\ LoopOverflows \/ \A h \in Hosts : ~ IsMinHost(h)
  /\ pc' = "undefined"
  /\ UNCHANGED <<requestVars, powerConsumption, loopVars, shareVars>>

ImagesDone ==
  /\ InImageLoop
  /\ i = numOfImg
  /\ pc' = "done"
  /\ UNCHANGED <<requestVars, powerConsumption, loopVars, shareVars>>

-----------------------------------------------------------------------------
(* placeLowPower. *)

(* fault: watts are compared instead of the energy of one image. *)
LowestWatts == {h \in Hosts : \A k \in Hosts : power[h] <= power[k]}

allLowest ==
  {h \in Hosts : \A k \in Hosts : powerConsumption[h] <= powerConsumption[k]}

NumLowest == Cardinality(allLowest)

SplitWorkload ==
  /\ pc = "LowPower"
  /\ workload' = numOfImg \div NumLowest
  /\ remainder' = numOfImg % NumLowest
  /\ pc' = "share"
  /\ UNCHANGED <<requestVars, powerConsumption, loopVars>>

(* fault: every host gets a share. *)
LoadOfAnyHost(h) == IF remainder > 0 THEN workload + 1 ELSE workload

hostload(h) ==
  IF h \notin allLowest THEN 0
  ELSE IF remainder > 0 THEN workload + 1 ELSE workload

ShareWithHost ==
  /\ pc = "share"
  /\ i < NumHosts
  /\ distribution' = [distribution EXCEPT ![i + 1] = hostload(i + 1)]
  /\ remainder' = IF i + 1 \in allLowest /\ remainder > 0
                    THEN remainder - 1 ELSE remainder
  /\ i' = i + 1
  /\ UNCHANGED <<requestVars, powerConsumption, pc, jobStacks,
                 currentTimeMax, cost, workload>>

SharesDone ==
  /\ pc = "share"
  /\ i = NumHosts
  /\ pc' = "done"
  /\ UNCHANGED <<requestVars, powerConsumption, loopVars, shareVars>>

-----------------------------------------------------------------------------
Next ==
  \/ ReadOverflows \/ ReadFails \/ ReadHosts
  \/ \E h \in Hosts : PlaceImage(h)
  \/ PlaceImageUndefined \/ ImagesDone
  \/ SplitWorkload \/ ShareWithHost \/ SharesDone

(* The function runs to its end on the worker thread: no step of it waits. *)
Spec == Init /\ [][Next]_vars /\ WF_vars(Next)

-----------------------------------------------------------------------------
(* The types of the variables. *)
TypeOK ==
  /\ opMode \in OperationMode
  /\ numOfImg \in ImageCounts
  /\ listed \in SUBSET Hosts
  /\ power \in [Hosts -> Powers]
  /\ timeConsumption \in [Hosts -> Times]
  /\ powerConsumption \in [Hosts -> Nat]
  /\ pc \in {"read", "share", "done", "resource", "undefined"} \cup OperationMode
  /\ distribution \in [Hosts -> Nat]
  /\ jobStacks \in [Hosts -> Nat]
  /\ currentTimeMax \in Nat
  /\ i \in Nat
  /\ workload \in Nat
  /\ remainder \in Nat
  /\ cost \in Nat

(***************************************************************************)
(* The inductive invariant behind the properties below.                    *)
(***************************************************************************)
(* The location belongs to the mode, and nothing happens before its loop.  *)
LocationInv ==
  /\ pc \in OperationMode => pc = opMode
  /\ pc = "share" => opMode = "LowPower"
  /\ pc \in {"read", "LowPower"} =>
       distribution = Zero /\ jobStacks = Zero /\ currentTimeMax = 0 /\ i = 0 /\ cost = 0

(* A job stack is the time of the images of its host.                      *)
StackInv ==
  opMode # "LowPower" =>
    /\ i <= numOfImg
    /\ pc = "done" => i = numOfImg
    /\ \A h \in Hosts : /\ jobStacks[h] = distribution[h] * timeConsumption[h]
                         /\ distribution[h] <= i

(* No host would have finished its last image sooner on another host.      *)
GreedyInv ==
  opMode = "HighPower" =>
    \A h, k \in Hosts :
      distribution[h] > 0 => jobStacks[h] <= jobStacks[k] + timeConsumption[k]

(* Every image costs at most what it costs on a host of its own.           *)
CostInv ==
  opMode = "EnergyEfficient" =>
    \A h \in Hosts : /\ jobStacks[h] <= currentTimeMax
                     /\ cost <= i * (timeConsumption[h] + powerConsumption[h])

(* The hosts already visited have their share, the others nothing.         *)
ShareInv ==
  opMode = "LowPower" =>
    /\ pc = "done" => i = NumHosts
    /\ \A h \in Hosts : distribution[h] > 0 => h \in allLowest
    /\ pc \in {"share", "done"} =>
         \A h \in allLowest : h <= i => distribution[h] \in {workload, workload + 1}

(* The images taken so far are at the hosts; in low power mode the hosts   *)
(* still to be visited have nothing, and the shares of the lowest of them  *)
(* are the images that are left.                                           *)
SumInv ==
  LET ahead == {h \in allLowest : h > i} IN
  /\ opMode # "LowPower" => SumFunction(distribution) = i
  /\ opMode = "LowPower" /\ pc \in {"share", "done"} =>
       /\ \A h \in Hosts : h > i => distribution[h] = 0
       /\ remainder <= Cardinality(ahead)
       /\ SumFunction(distribution) + Cardinality(ahead) * workload + remainder = numOfImg

IInv == TypeOK /\ LocationInv /\ StackInv /\ GreedyInv /\ CostInv /\ ShareInv

Placed(mode) == pc = "done" /\ opMode = mode

Energy(d) == SumFunction([h \in Hosts |-> d[h] * powerConsumption[h]])

(* The step to the property below: in high power mode an assignment in     *)
(* which every host finishes before the slowest host of this one gives no  *)
(* host more images than placeHighPower did and one host fewer.            *)
FasterPlacesFewer ==
  Placed("HighPower") =>
    \A d \in [Hosts -> 0..numOfImg] : \A h \in Hosts :
      (\A k \in Hosts : d[k] * timeConsumption[k] < distribution[h] * timeConsumption[h])
        => /\ \A k \in Hosts : d[k] <= distribution[k]
           /\ d[h] < distribution[h]

(* HostPlacer.h:67-68, "distributes the images to build the smallest       *)
(* maximum stack": in every other assignment of the same images some host  *)
(* takes at least as long as any host of this one.                         *)
SmallestMaximumStack ==
  Placed("HighPower") =>
    \A d \in Assignments(Hosts, numOfImg) : \A h \in Hosts : \E k \in Hosts :
      distribution[h] * timeConsumption[h] <= d[k] * timeConsumption[k]

(* HostPlacer.h:56-57: in low power mode no other assignment of the same   *)
(* images takes less energy.                                               *)
LeastEnergy ==
  Placed("LowPower") =>
    \A d \in Assignments(Hosts, numOfImg) : Energy(distribution) <= Energy(d)

(* HostPlacer.cpp:95-115: only hosts with the least energy per image get   *)
(* images, and the shares of two of them differ by one image at most.      *)
LowestShareEvenly ==
  Placed("LowPower") =>
    /\ \A h \in Hosts : distribution[h] > 0 => h \in allLowest
    /\ \A h, k \in allLowest : distribution[h] <= distribution[k] + 1

(* OperationMode.h: energy efficient mode considers both time and power;   *)
(* spreading the images never costs more than any single host would.       *)
NeverWorseThanOneHost ==
  Placed("EnergyEfficient") =>
    \A h \in Hosts : cost <= numOfImg * (timeConsumption[h] * timePriority
                                          + powerConsumption[h] * powerPriority)

(* The int arithmetic of HostPlacer.cpp:50, 140 and 185-187, and the index *)
(* minHostIndex = -1: a placement is only undefined when one host alone    *)
(* would need INT32_MAX ms for the images, or one image costs that much.   *)
SmallWorkloadsAreDefined ==
  (\A h \in Hosts : /\ numOfImg * timeConsumption[h] < INT32_MAX
                     /\ timeConsumption[h] + power[h] * timeConsumption[h] < INT32_MAX)
    => pc # "undefined"

(* HostPlacer implements HostPlacement: what a step adds to distribution   *)
(* comes off the images that are left, and nothing is left at the end.     *)
HP == INSTANCE HostPlacement WITH
        left <- numOfImg - SumFunction(distribution),
        placed <- distribution,
        outcome <- CASE pc = "done" -> "placed"
                     [] pc \in {"resource", "undefined"} -> "failed"
                     [] OTHER -> "open"
PlacesEveryImageOnce == HP!Spec
=============================================================================
