------------------------------- MODULE Results -------------------------------
(***************************************************************************)
(* What is computed from the outputs of the hosts: the labels of an image  *)
(* (Interpreter), the labels of all images together (ClassificationResult),*)
(* and time, power and usage (PerformanceCalculator, and Util for the      *)
(* replies of the remote host).                                            *)
(*                                                                         *)
(* A probability is an integer that the numbers of images divide, and so   *)
(* is AllWork, the 100 per cent of which a platform has a share.           *)
(***************************************************************************)
EXTENDS Integers, Sequences, SequencesExt, TLC

CONSTANTS
  TopX,             (* labels per image, TOP_X and the 5 of aggregateResults  *)
  Outputs,          (* Outputs[p]: the output of the net for picture p        *)
  Labels,           (* line by line, the label file                           *)
  AllWork,          (* 100 per cent                                           *)
  HostData,         (* power and time of each host in computationHosts.json   *)
  IntLimit,         (* one more than the largest int                          *)
  WattSecond        (* mW * ms in a Ws                                        *)

ASSUME ResultsAssumption ==
  /\ TopX \in Nat \ {0} /\ IntLimit \in Nat \ {0} /\ WattSecond \in Nat \ {0}
  /\ AllWork \in Nat /\ Labels \in Seq(ToSet(Labels))
  /\ \A p \in DOMAIN Outputs : Outputs[p] \in Seq(Nat) /\ Len(Outputs[p]) <= Len(Labels)
  /\ \A h \in DOMAIN HostData : HostData[h].power \in Nat /\ HostData[h].time \in Nat \ {0}

Entry(label, prob) == [label |-> label, prob |-> prob]

(* sortOut[rank]: fewer than rank outputs are larger, and rank of them are *)
(* at least as large.                                                      *)
SortOut(output, rank) ==
  CHOOSE v \in ToSet(output) :
    /\ Cardinality({i \in DOMAIN output : output[i] > v}) < rank
    /\ rank <= Cardinality({i \in DOMAIN output : output[i] >= v})

(* fault: the label of the rank. *)
RankOf(output, rank) == rank

(* getIndexOf: the first output with the probability of this rank.         *)
IndexOf(output, rank) == SelectInSeq(output, LAMBDA v : v = SortOut(output, rank))

(* fault: one label too few. *)
GetFewer(output) ==
  [rank \in 1..(Min({TopX, Len(output)}) - 1) |->
     Entry(Labels[IndexOf(output, rank)], SortOut(output, rank))]

(* getResult: the labels of the largest outputs. *)
GetResult(output) ==
  [rank \in 1..Min({TopX, Len(output)}) |->
     Entry(Labels[IndexOf(output, rank)], SortOut(output, rank))]

LabelsIn(results) == {e.label : e \in UNION {ToSet(r) : r \in ToSet(results)}}

(* The probabilities of a label, added up, and divided by the images.      *)
LabelSumOf(result, label) ==
  FoldLeft(+, 0, [k \in DOMAIN result |-> IF result[k].label = label THEN result[k].prob ELSE 0])
LabelSum(results, label) ==
  FoldLeft(+, 0, [i \in DOMAIN results |-> LabelSumOf(results[i], label)])
Mean(results, label) == LabelSum(results, label) \div Len(results)

(* aggregateResults cuts with erase(begin() + 5, end()): undefined when    *)
(* fewer labels have been collected.                                       *)
AggregateIsDefined(results) == Cardinality(LabelsIn(results)) >= TopX

(* Every order in which std::sort may leave labels of equal probability.   *)
AggregateResults(results) ==
  {SubSeq(s, 1, TopX) : s \in
     {t \in SetToSeqs({Entry(l, Mean(results, l)) : l \in LabelsIn(results)}) :
        \A i \in 1..(Len(t) - 1) : t[i].prob >= t[i + 1].prob}}

-----------------------------------------------------------------------------
(* aggregateReplyDistribution: the shares of a host that got its images in *)
(* single requests.  A distribution is a function of its platforms.        *)
MeanShare(distributions, p) ==
  FoldLeft(+, 0, [i \in DOMAIN distributions |->
    IF p \in DOMAIN distributions[i] THEN distributions[i][p] \div Len(distributions) ELSE 0])
AggregateReplyDistribution(distributions) ==
  [p \in UNION {DOMAIN d : d \in ToSet(distributions)} |-> MeanShare(distributions, p)]

(* fault: the shares are those of the host, not of the classification. *)
ShareOnHost(share, images) == AllWork * share

(* The share of a platform, weighted with the images of its host.          *)
Weighted(share, images) == share * images

HostUsage(distribution, images) ==
  [k \in DOMAIN SetToSeq(DOMAIN distribution) |->
     LET p == SetToSeq(DOMAIN distribution)[k]
     IN  [platform |-> p, share |-> Weighted(distribution[p], images)]]

OverallDistribution(distributions, images) ==
  FlattenSeq([i \in DOMAIN images |-> HostUsage(distributions[i], images[i])])

(* The power of a host times the time it took.                             *)
Energy(host, time) == (HostData[host].power * time) \div HostData[host].time

(* A float that does not fit becomes the smallest int.                     *)
AddToInt(int, amount) == IF int + amount < IntLimit THEN int + amount ELSE - IntLimit

Quotient(a, b) == IF a < 0 THEN - ((- a) \div b) ELSE a \div b

(* The energy of the hosts, added up in an int.                            *)
TotalEnergy(hosts, times) ==
  LET sum[i \in 0..Len(hosts)] ==
        IF i = 0 THEN 0 ELSE AddToInt(sum[i - 1], Energy(hosts[i], times[i]))
  IN  sum[Len(hosts)]

CalculatePerformance(hosts, times, distributions, images) ==
  [time |-> Max({0} \cup ToSet(times)),
   power |-> Quotient(TotalEnergy(hosts, times), WattSecond),
   usage |-> OverallDistribution(distributions, images)]
=============================================================================
