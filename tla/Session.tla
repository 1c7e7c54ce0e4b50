------------------------------- MODULE Session -------------------------------
(***************************************************************************)
(* A session of the user: the selection on the start page becomes the      *)
(* request, the request is classified by the hosts, the results become the *)
(* result page and the details, and the user returns to the start page.    *)
(*                                                                         *)
(* The module composes StartWidget and Results and follows the data; the   *)
(* threads, the failures and their order are those of Manager and take one *)
(* step here.  Which labels a picture gets depends on its output only.     *)
(***************************************************************************)
EXTENDS StartWidget, Results

CONSTANTS
  PlatformsOf,      (* the platforms of each host, in order                   *)
  Descriptions,     (* texts the platforms may have, functions                *)
  Times,            (* times a host with images may take                      *)
  MaxChanges        (* bound: changes of files while the program runs         *)

AllPlatforms == UNION {ToSet(PlatformsOf[h]) : h \in DOMAIN PlatformsOf}

ASSUME SessionAssumption ==
  /\ DOMAIN PlatformsOf = {"fpga", "local"}
  /\ \A h \in DOMAIN PlatformsOf : PlatformsOf[h] \in Seq(ToSet(PlatformsOf[h]))
  /\ \A d \in Descriptions : DOMAIN d = AllPlatforms
  /\ DOMAIN Outputs = Pictures /\ DOMAIN HostData = DOMAIN PlatformsOf
  /\ Times \subseteq Nat

(* Every output has the TOP_X labels the code counts on (Interpreter.h).   *)
OutputsAreLong == \A p \in Pictures : TopX <= Len(Outputs[p])

(* Means and shares are exact: the numbers of images divide probabilities  *)
(* and 100 per cent.                                                       *)
MeansAreExact ==
  \A p \in Pictures : \A i \in DOMAIN Outputs[p] :
    \A n \in 1..Cardinality(Paths) : Outputs[p][i] % n = 0
SharesAreExact == \A n \in 1..Cardinality(Paths) : AllWork % n = 0

NoRequest == [images |-> <<>>, platforms |-> {}, aggregate |-> FALSE]
NoPage == [entries |-> <<>>, aggregated |-> <<>>, details |-> <<>>]

VARIABLES
  hosts,            (* computationHosts                                       *)
  page,             (* the widget on display: "start" or "result"             *)
  busy,             (* the start page is disabled                             *)
  request,          (* classificationRequestState                             *)
  worker,           (* the worker thread runs                                 *)
  signal,           (* the resultReady on its way                             *)
  shown,            (* what the result page and the detail dialog display     *)
  crashed,          (* "no", or where the behaviour became undefined          *)
  changes           (* bound: changes of files so far                         *)

sessionVars == <<hosts, page, busy, request, worker, signal, shown, crashed>>
allVars == <<widgetVars, sessionVars, changes>>

Offered(hs) == FlattenSeq([i \in DOMAIN hs |-> PlatformsOf[hs[i]]])

SessionInit ==
  /\ description \in Descriptions
  /\ hosts = <<"fpga", "local">>
  /\ WidgetInit(Offered(hosts))
  /\ page = "start" /\ busy = FALSE
  /\ request = NoRequest /\ worker = FALSE /\ signal = <<>> /\ shown = NoPage
  /\ crashed = "no" /\ changes = 0

-----------------------------------------------------------------------------
(* setClassificationRequestState. *)
SetClassificationRequestState ==
  /\ IF SelectedPlatforms # {} /\ SelectedImages # <<>>
       THEN /\ request' = [images |-> SelectedImages, platforms |-> SelectedPlatforms,
                           aggregate |-> aggregate]
            /\ worker' = TRUE /\ busy' = TRUE
       ELSE /\ request' = NoRequest /\ UNCHANGED <<worker, busy>>
  /\ UNCHANGED <<widgetVars, hosts, page, signal, shown, crashed, changes>>

(* processReturnQPushButton: new, empty result widget and details. *)
ProcessReturnQPushButton ==
  /\ page = "result"
  /\ page' = "start" /\ busy' = FALSE /\ shown' = NoPage
  /\ UNCHANGED <<widgetVars, hosts, request, worker, signal, crashed, changes>>

-----------------------------------------------------------------------------
(* Manager::update. *)
Selected(h) == request.platforms \cap ToSet(PlatformsOf[h])
AvailableHosts ==
  FlattenSeq([i \in DOMAIN hosts |-> IF Selected(hosts[i]) = {} THEN <<>> ELSE <<hosts[i]>>])

(* What the host reports per image: all of it on one platform.             *)
OnePlatform(h) == {[p \in {q} |-> AllWork] : q \in Selected(h)}

(* ... and for all: the local Executor places once, a remote host places   *)
(* every request.  A host without an image has all its platforms, unused.  *)
HostDistributions(h, n) ==
  IF n = 0 THEN {[p \in Selected(h) |-> 0]}
  ELSE IF h = "local" THEN OnePlatform(h)
  ELSE {AggregateReplyDistribution(ds) : ds \in [1..n -> OnePlatform(h)]}

BatchSizes(hs, n) == {s \in [DOMAIN hs -> 0..n] : FoldLeft(+, 0, s) = n}

Distributions(hs, sizes) ==
  {d \in [DOMAIN sizes -> UNION {HostDistributions(hs[i], sizes[i]) : i \in DOMAIN sizes}] :
     \A i \in DOMAIN sizes : d[i] \in HostDistributions(hs[i], sizes[i])}

(* A host without images has nothing to do. *)
TimesTaken(sizes, times) == [i \in DOMAIN sizes |-> IF sizes[i] = 0 THEN 1 ELSE times[i]]

RequestedPaths == Ascending(DOMAIN request.images)

ImageResults ==
  [i \in DOMAIN RequestedPaths |-> GetResult(Outputs[request.images[RequestedPaths[i]]])]

(* The results, merged, and the aggregated ones if they were asked for.    *)
Update ==
  /\ worker /\ AvailableHosts # <<>>
  /\ request.aggregate => AggregateIsDefined(ImageResults)
  /\ \E sizes \in BatchSizes(AvailableHosts, Len(RequestedPaths)),
        times \in [DOMAIN AvailableHosts -> Times],
        aggregated \in IF request.aggregate THEN AggregateResults(ImageResults) ELSE {<<>>} :
       \E distributions \in Distributions(AvailableHosts, sizes) :
         signal' = <<[ok |-> TRUE, results |-> ImageResults, aggregated |-> aggregated,
                      performance |-> CalculatePerformance(AvailableHosts, TimesTaken(sizes, times),
                                                           distributions, sizes)]>>
  /\ worker' = FALSE
  /\ UNCHANGED <<widgetVars, hosts, page, busy, request, shown, crashed, changes>>

(* aggregateResults with too few labels. *)
UpdateCutsTooMuch ==
  /\ worker /\ AvailableHosts # <<>>
  /\ request.aggregate /\ ~ AggregateIsDefined(ImageResults)
  /\ crashed' = "labels"
  /\ UNCHANGED <<widgetVars, hosts, page, busy, request, worker, signal, shown, changes>>

(* No host has a selected platform: the last host is asked to compute      *)
(* without one, or the placement runs without a host.                      *)
UpdateHasNoPlatform ==
  /\ worker /\ AvailableHosts = <<>>
  /\ crashed' = "platforms"
  /\ UNCHANGED <<widgetVars, hosts, page, busy, request, worker, signal, shown, changes>>

(* An exception: of the remote host, which is dropped, or another one.     *)
UpdateFails(kind) ==
  /\ worker
  /\ kind = "comm" => "fpga" \in ToSet(hosts)
  /\ hosts' = IF kind = "comm" THEN RemoveFirst(hosts, "fpga") ELSE hosts
  /\ signal' = <<[ok |-> FALSE, kind |-> kind]>> /\ worker' = FALSE
  /\ UNCHANGED <<widgetVars, page, busy, request, shown, crashed, changes>>

-----------------------------------------------------------------------------
(* processClassificationResult. *)

(* What is shown for an image: the path, the picture the file holds now,   *)
(* and its labels unless they are aggregated.                              *)
DisplayResults(result) ==
  [entries |-> [i \in DOMAIN result.results |->
     [path |-> RequestedPaths[i], picture |-> files[RequestedPaths[i]],
      results |-> IF result.aggregated = <<>> THEN result.results[i] ELSE <<>>]],
   aggregated |-> result.aggregated,
   details |-> result.performance]

ProcessClassificationResult ==
  /\ signal # <<>> /\ signal[1].ok
  /\ shown' = DisplayResults(signal[1])
  /\ page' = "result" /\ signal' = <<>>
  /\ UNCHANGED <<widgetVars, hosts, busy, request, worker, crashed, changes>>

(* fault: after every failure the page can be used again. *)
NeverLocked(kind) == FALSE

(* The page is enabled again unless HICS has to be closed. *)
LockedByError(kind) == kind = "resource"

ProcessFailure ==
  /\ signal # <<>> /\ ~ signal[1].ok
  /\ signal' = <<>> /\ busy' = LockedByError(signal[1].kind)
  /\ IF signal[1].kind = "comm" THEN UpdatePlatforms(Offered(hosts)) ELSE UNCHANGED widgetVars
  /\ UNCHANGED <<hosts, page, request, worker, shown, crashed, changes>>

(* ... or erasing the map of the platforms crashes. *)
UpdatePlatformsCrashes ==
  /\ signal # <<>> /\ ~ signal[1].ok /\ signal[1].kind = "comm"
  /\ crashed' = "map"
  /\ UNCHANGED <<widgetVars, hosts, page, busy, request, worker, signal, shown, changes>>

-----------------------------------------------------------------------------
Widget ==
  \/ \E chosen \in SUBSET Paths : ProcessInputImageButton(chosen)
  \/ \E i \in DOMAIN images : ClickImage(i)
  \/ ProcessConfirmDeletionButton \/ ProcessAbortDeletionQPushButton
  \/ \E i \in DOMAIN boxes : ClickPlatform(i)
  \/ ClickAggregate

User ==
  \/ /\ page = "start" /\ ~ busy
     /\ \/ Widget /\ UNCHANGED <<sessionVars, changes>>
        \/ SetClassificationRequestState
  \/ ProcessReturnQPushButton

Disk ==
  /\ changes < MaxChanges /\ changes' = changes + 1
  /\ \E p \in Paths : FileChanges(p)
  /\ UNCHANGED sessionVars

Worker ==
  \/ Update \/ UpdateCutsTooMuch \/ UpdateHasNoPlatform
  \/ \E kind \in {"comm", "resource", "other"} : UpdateFails(kind)

EventLoop == ProcessClassificationResult \/ ProcessFailure \/ UpdatePlatformsCrashes

(* A program that has crashed, or may only be closed, takes no more steps. *)
Ended == (crashed # "no" \/ (busy /\ page = "start" /\ ~ worker /\ signal = <<>>)) /\ UNCHANGED allVars

SessionNext == (crashed = "no" /\ (User \/ Disk \/ Worker \/ EventLoop)) \/ Ended

SessionSpec == SessionInit /\ [][SessionNext]_allVars

-----------------------------------------------------------------------------
DistinctDescriptions == \A p, q \in DOMAIN description : description[p] = description[q] => p = q
Ties(output) == \E i, j \in DOMAIN output : i # j /\ output[i] = output[j]

(* StartWidget.cpp:146-165, 362-443, 75-88: what is classified is every    *)
(* image on the page, once, as it was when it was loaded, on the platforms *)
(* whose boxes are ticked, all of them of hosts that are left: after every *)
(* sequence of selections, failures, and updates of the platforms, the     *)
(* undefined erasure of the map included, if no two share a description.   *)
RequestIsTheSelection ==
  worker =>
    /\ \A i, j \in DOMAIN images : images[i].path = images[j].path => i = j
    /\ DOMAIN request.images = {images[i].path : i \in DOMAIN images}
    /\ \A i \in DOMAIN images : request.images[images[i].path] = images[i].picture
    /\ request.aggregate = aggregate
    /\ DistinctDescriptions =>
         /\ request.platforms = {boxes[i].platform : i \in {j \in DOMAIN boxes : boxes[j].checked}}
         /\ request.platforms \subseteq ToSet(Offered(hosts))

(* Is the output among the TopX largest? *)
IsTop(output, i) == Cardinality({j \in DOMAIN output : output[j] > output[i]}) < TopX

Repeats(output) ==
  \E i, j \in DOMAIN output :
    i # j /\ IsTop(output, i) /\ IsTop(output, j) /\ Labels[i] = Labels[j]

(* The labels of an image: in order, each with the probability of an       *)
(* output it names, and none with a larger output left out.                *)
TopLabelsOf(output, results) ==
  /\ \A k \in DOMAIN results :
       /\ k > 1 => results[k].prob <= results[k - 1].prob
       /\ \E i \in DOMAIN output : Entry(Labels[i], output[i]) = results[k]
  /\ ~ Ties(output) => \A i \in DOMAIN output :
       Entry(Labels[i], output[i]) \in ToSet(results)
         <=> IsTop(output, i)

(* What the image contributes to an aggregated label.                      *)
Contribution(output, label) ==
  SumFunction([i \in {j \in DOMAIN output : Labels[j] = label /\ IsTop(output, j)} |-> output[i]])

(* ResultWidget.cpp:60-113, Interpreter.cpp:38-72, ClassificationResult    *)
(* .cpp:51-87: the page shows the images of the request in their order,    *)
(* each with the picture that was classified unless its file changed since *)
(* it was loaded, and either the labels of every image or, exactly if they *)
(* were asked for, the aggregated ones, which are the means over all       *)
(* images (of outputs without ties).                                       *)
PageShowsTheRequest ==
  page = "result" =>
    /\ [i \in DOMAIN shown.entries |-> shown.entries[i].path] = RequestedPaths
    /\ \A i \in DOMAIN shown.entries :
         LET entry == shown.entries[i]
             picture == request.images[entry.path]
         IN  /\ entry.path \notin touched => entry.picture = picture
             /\ IF request.aggregate THEN entry.results = <<>>
                                     ELSE TopLabelsOf(Outputs[picture], entry.results)
    /\ (shown.aggregated # <<>>) = request.aggregate
    /\ (\A p \in DOMAIN request.images : ~ Ties(Outputs[request.images[p]])) =>
         \A k \in DOMAIN shown.aggregated :
           /\ k > 1 => shown.aggregated[k].prob <= shown.aggregated[k - 1].prob
           /\ shown.aggregated[k].prob * Cardinality(DOMAIN request.images) =
                SumFunction([p \in DOMAIN request.images |->
                  Contribution(Outputs[request.images[p]], shown.aggregated[k].label)])

(* What hosts take that all work for this time.                            *)
MostEnergy(hs, time) == FoldLeft(+, 0, [i \in DOMAIN hs |-> Energy(hs[i], time)])

(* PerformanceCalculator.cpp:31-63, Util.cpp:139-162: the shares of the    *)
(* detail dialog are of selected platforms and add up to all images, and   *)
(* the power is at most what the hosts take in the time that is shown,     *)
(* unless that does not fit an int.                                        *)
DetailsAddUp ==
  page = "result" =>
    LET details == shown.details
        most == MostEnergy(AvailableHosts, details.time)
    IN  /\ FoldLeft(+, 0, [u \in DOMAIN details.usage |-> details.usage[u].share])
             = AllWork * Cardinality(DOMAIN request.images)
        /\ \A u \in ToSet(details.usage) : u.platform \in request.platforms
        /\ most < IntLimit => details.power \in 0..(most \div WattSecond)

(* ClassificationResult.cpp:86, HostPlacer.cpp:96: the aggregation only    *)
(* cuts more labels than there are if every image has a tie, or one label  *)
(* twice; the hosts are only left without a selected platform if two       *)
(* platforms share a description.                                          *)
CrashesAreExplained ==
  /\ crashed = "labels" => \A p \in DOMAIN request.images :
       Ties(Outputs[request.images[p]]) \/ Repeats(Outputs[request.images[p]])
  /\ crashed = "platforms" => ~ DistinctDescriptions

(* A session is the same service as the threads of Manager are: that       *)
(* update is one step here hides none of its answers.                      *)
Service == INSTANCE Classification WITH
  Images <- Paths,
  asked <- RequestedPaths,
  answer <- IF worker THEN "pending"
            ELSE IF signal = <<>> THEN "none"
            ELSE IF signal[1].ok THEN "ok" ELSE signal[1].kind,
  shown <- [i \in DOMAIN shown.entries |-> shown.entries[i].path],
  final <- busy /\ page = "start" /\ ~ worker /\ signal = <<>>
ImplementsClassification == Service!Spec
=============================================================================
