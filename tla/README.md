# A verification project for HICS

HICS classifies images with AlexNet-like nets on heterogeneous platforms (CPU,
GPU, FPGA).  A Qt window takes the request, a manager spreads the images over
the computation hosts (the local executor and, if it answers, a remote
computation server reached through gRPC), each host builds a net, places its
layers on platforms and runs them, and the manager puts the results together.

This directory holds TLA+ modules of that program, TLC configurations that
model-check them, and proofs for TLAPS.  Paths below are relative to the
repository's `src/` directory; `Manager.cpp` and similar names are unique there.

## 1. Inventory

| Component | State | Operations | Interaction |
|---|---|---|---|
| Manager, start (`manager/Manager.cpp:68-160, 366-410`) | `computationHosts`, the static `exceptionptr` | constructor, `initGUI`, `netIntersection` | queries every host, creates the window |
| Manager, classification (`Manager.cpp:44-66, 162-360`) | `computationHosts`, `exceptionptr`, locals of `update` | `update`, `runClassification` | called in the worker thread; one thread per host; hands exceptions and platforms to the window |
| Host placement (`manager/HostPlacer.cpp`) | none beyond a call | `place` in three modes | called by `update` |
| Main window handler (`gui/handler/MainWindowHandler.cpp`, `gui/WorkerThread.cpp`) | the request, the result, `exceptionptr`, updated platforms | start a classification, receive `resultReady`, return, dialogs | slots in the GUI thread, the worker thread, a queued signal |
| Start widget (`gui/handler/ui/StartWidget.cpp`) | the loaded images, check boxes, the map from texts to platforms, progress state | loading, ticking, deleting, select all, `updatePlatforms` | read by the handler |
| Result widget and details (`gui/handler/ui/ResultWidget.cpp`, `DetailDialog.cpp`) | what is displayed | `displayResults`, `insertDetails` | built anew by the handler, reads the image files again |
| Executor (`executor/Executor.cpp`) | the built net, the interpreter with its labels, the placer | `classify`, `queryPlatform`, `queryNets` | called by a host thread of the manager, or by the server's threads |
| Platform placer (`executor/PlatformPlacer.cpp`) | current platforms, distribution | `placeComputations` in three modes | sets the function of every layer |
| Net and layers (`neuralnet/`) | `outputWrapper`, `computed`, `function` of every layer | `forward`, `deleteGarbage`, `reset`, `getDifficulty`, destructors | a layer reads and deletes the output of the one before it |
| Interpreter (`executor/Interpreter.cpp`) | the labels | `getResult` | deletes the last output |
| Net builder and loaders (`netbuilder/`) | none beyond a call | `buildNeuralNet`, `getLabelMap`, `getValidNets` | read files, throw `ResourceException` |
| Client and server (`communicator/`) | a channel; one executor | `classify`, two queries, on both sides | one remote call per image, served in gRPC's threads |
| Results (`manager/ClassificationResult.cpp`, `PerformanceCalculator.cpp`) | the request's results | `aggregateResults`, `calculatePerformance` | called at the end of `update` |
| Platforms and layer functions (`platform/`) | platforms from `platforms.json`, buffers of the devices | create and run functions | called by layers, start OpenCL kernels |
| Kernels (`resources/kernels/`) | tiles and registers of a work-group | `GEMM3`, `GEMM4` | work-items in parallel, with barriers |

Hard behaviours: the handoff between the GUI thread, the worker and the host
threads with one static `exception_ptr` between them; hosts that fail and are
erased from vectors being iterated; a server that comes back different; an
executor that keeps state from call to call, also from calls that threw; a
server that runs several calls at once on it; layers that free each other's
memory; greedy placement with `int` arithmetic; work-items that share a tile; a
start page and files that change between the steps of a session; descriptions
of nets with whatever layers and fields they have.  `PROJECT.json` lists them one
by one under `hazards`, with the properties that watch them.

What makes the components correct:

* placement: every image placed once, and each mode gives what its name says;
* classification: results complete and in order; a result exactly when nothing
  failed; a failure shown once, with its reason, and not leaking into the next
  classification; the request stable while it is read; the platforms offered
  are those of the hosts that are left; it always ends;
* start: the window opens on a consistent set of hosts, platforms and nets;
* executor, client: each result belongs to its image, its net and the selected
  platforms, for every sequence of calls; no object deleted twice or read after;
* layers: on every platform, in one piece or in groups, `forward` leaves the
  output the layer is named for, in an array of that size;
* net builder: the net built is the net described, with the weights in order;
* session: what is classified is what is on the start page, and what is shown
  belongs to the request, adds up, and names the best outputs.

## 2. Modules

| Module | Models |
|---|---|
| `HostPlacement` | what `update` needs of a placement: images given out one share after another, all of them, or a failure |
| `Classification` | what the user of the window is promised: one request, one answer, the next one; implemented by `Manager` and by `Session` |
| `HostPlacer` | `HostPlacer.cpp`: the file of hosts, the three loops, overflow of `int`; implements `HostPlacement` |
| `HostPlacer_proofs` | theorems about it |
| `Placements` | the outcomes of a placement as a set, for `Manager` |
| `Manager` | GUI thread, worker thread, host threads, event queue of one running program |
| `Manager_proofs` | theorems about it |
| `Startup` | constructor and `initGUI`; its final states satisfy what `Manager`'s `Init` assumes |
| `Startup_proofs` | theorems about it |
| `ComputationHost` | the promise of the interface `ComputationHost::classify` |
| `PlatformPlacer` | `PlatformPlacer::placeComputations`: the platforms of the layers by mode, and the shares |
| `Platforms_proofs` | theorems about `PlatformPlacer`, and about `Layers` |
| `Executor` | `Executor::classify`, the net, the layers' memory, placement and labels between calls; implements `ComputationHost` |
| `Communicator` | `Client::classify` and the server's threads around the module `Executor`; the client implements `ComputationHost` |
| `Communicator_proofs` | theorems about `Executor` for one thread, and on them about `Communicator` for one client |
| `Sums` | lemmas on sums of finitely many numbers, for the placers and `Session` |
| `LayerFunctions` | the functions of the layers on the CPU and the helpers im2col, padding, transposition (`platform/`) |
| `Layers` | `forward` of one layer, its split into groups, the OpenCL hosts and the work-items of the kernels; on `LayerFunctions` |
| `NetBuilder` | `ModelCrawler`, `JSONModelLoader`, `AlexNetWeightLoader` and `NetBuilder`: from a directory to a net, with the dimensions and difficulties of its layers |
| `NetBuilder_proofs` | theorems about it |
| `Results` | `Interpreter`, `aggregateResults`, `aggregateReplyDistribution`, `PerformanceCalculator` as operators |
| `StartWidget` | images, check boxes, the text of the button, the platforms of the start page |
| `Session` | composes `StartWidget` and `Results`: from the selection to the request, the result page, the details, and back |
| `Session_proofs` | theorems about it and about `StartWidget` and `Results` |
| `MC*` | instances for TLC |

### How state and actions correspond to the code

`HostPlacer`: `pc` is the place in `place`; `jobStacks`, `distribution`,
`allLowest` are the code's.  One step is one image (high power, energy
efficient) or one host's share (low power).  `INT32_MAX` is a constant so that
small instances overflow; overflow leads to `undefined`.

`Manager`: `gui` is the GUI thread between its events (`starting` is the part
of the button's slot after the worker was started), `worker` the place in
`update`, `thread[h]` the thread of a host.  A call to a host takes effect in
one step at its end.  The unsynchronised stores to `exceptionptr` by two host
threads are a race; its outcome in the builds is that one of the two stays,
which is what two atomic steps in either order give.  `inbox` is Qt's queue.
`StartWidget::updatePlatforms` advances an erased iterator: that is a choice
between working and the process ending (`UpdatePlatformsCrashes`).
`failed` and `serverChanged` are history variables: no action reads them.

`Startup`: `slots` is the memory of the vector a range-for loop runs over and
`hosts` or `nets` the vector itself.  The loops erase from it; libstdc++ keeps
the end taken at the start, so the loop skips an element and later reads a slot
that still holds the last one.  Erasing the end iterator itself is `undefined`.
It is assumed that a directory does not contain two nets of one identifier.
`TypeError`: a field of another type in `computationHosts.json`,
`platforms.json` or a net's description ends the program; nothing catches it.

`Executor`: an image stands for its data in every layer.  `output[l]` is what
`outputWrapper` points to: an image's data, `zeros`, a `deleted` object, or
nothing yet.  `computed[l]` is the flag that lets `deleteGarbage` and the
destructor free the input.  Statements without a defined result lead to
`undefined`.  Layer kinds: `conv` for layers whose `getDifficulty` allocates
and deletes an output (convolution, pooling) and which may throw,
`flatten` for a fully connected layer with a three-dimensional input, which
never sets `computed`, `plain` for the rest.  `currentMode` is read before it
is ever assigned: any mode, the same for ever.

`PlatformPlacer`: one step is one platform considered or one layer placed.  A
quotient of floats is a fraction, with the rules for infinity; the first
quotient of energy efficient mode is one of ints, rounded, and undefined for a
default platform that is configured with a power below one milliwatt.
`Executor` takes from this module that a placement uses two of the selected
platforms; it leaves out that undefined case.

`Communicator`: `at[c]` is a process's place in `Client::classify`,
`waiting[t]` who waits for a server thread.  A handler goes on when nobody
waits for it any more.  gRPC is external: it answers a throwing handler with an
error and breaks a connection at any time.  After an error the manager drops
the host (`Manager.cpp:276-307`), unless it finds the exception of another host
in `exceptionptr`, as `manager_lost_failure` shows; then the same client calls
the server again.  `Fail` allows both.  `kept` (the causes of errors after which
a host was kept) and `unlabelled` (nets whose labels could not be read) are
history variables: no guard reads `unlabelled`, and `kept` only its bound,
`MaxKept`.

`Layers`: a number of the input, the weights or the bias is named by its index,
and a sum of products is the set of the pairs it adds, so that TLC compares
what is computed and not a value.  `at[g][item]` is where a work-item of the
work-group `g` is between two barriers; items run in any order.  `Forward`,
`EnqueueKernel` and `ReadResult` are the host's statements around a kernel.
A maximum is the set of numbers it is taken over; that of the pooling includes
the 0 it starts with, as does that of the activation.

`NetBuilder`: `at` is the place in `getValidNets` and `buildNeuralNet`, or how
they ended: a net, a `ResourceException`, a `type_error` of the JSON library,
the assertion of `getWeights` (with `NDEBUG` the last group again), or
undefined.  A file of the directory is unreadable, no description, a description
with a field of another type (`Mistyped`), a backup copy (`goesOn`) or a net.
The number of layers, 21 in the code, and the difficulty a layer can
have in an `int` are constants.

`StartWidget`: `images` holds the loaded images in the order they were loaded,
sorted by path within one dialog, each with its check box; `files` is what the files hold, which other
programs may change (`FileChanges`, external).  `UpdatePlatforms` is the
`updatePlatforms` whose erased iterator is incremented: besides the first entry,
any others may stay, or the program crashes (`UpdatePlatformsCrashes`).

`Session` follows the data that `Manager` abstracts and takes `update` as one
step, as `Manager` shows that the request is not replaced meanwhile and that the
results come in the order of the images.  `crashed` says where behaviour
becomes undefined: cutting the aggregated labels, or a classification without
any selected platform.  Probabilities are integers; per cent stand for floats.

`Classification` knows no threads, signals, locks or files.  `Manager` maps onto it
the answer that is on its way, as a place of the worker, the handler's exception
or a signal in the queue, and `Session` the signal of the one step that `update`
is there; so the two models of one program, of its control and of its data, are
held to the same promise.  A closed window or an undefined step is the end of a
behaviour, and so a stutter of `Classification`.

Definitions marked `fault:` are seeded bugs, never used by the specifications:
they exist to show that each property notices a plausible error.

## 3. Runs

| Run | Question | Bounds |
|---|---|---|
| `placer_modes` | does each mode keep its promise, for every table of hosts? | 3 hosts, 0-4 images, power 0, 1, 3, time 1-3, `int` up to 8 |
| `manager` | do the threads serve one request after another, to its end, under every interleaving, failure and server change? | 1 local and 2 remote platforms, up to 3 images |
| `manager_lost_failure` | is every failed remote host dropped? (no) | the same |
| `startup_safety` | is the window's state consistent, whenever the server disappears? | lists of up to 3 of 4 nets on each host |
| `executor_manager` | does the local executor implement `ComputationHost` over every sequence of calls, failed ones too? | 2 nets, 2 modes, 2 images per call, 5 layers of all kinds, 2 platforms |
| `platform_placer` | does each mode choose the platform it is named for, and is the reported distribution the work placed? | selections of up to 3 platforms, power 0-3, flops 0-4, nets of 2 to 4 layers |
| `executor_double_free` | is nothing deleted twice? (no) | 1 image per call |
| `communicator_one` | does the client implement `ComputationHost`, and does every call end, with broken connections and throwing handlers? | 1 process, 2 server threads, 2 nets, 2 images, 3 layers, 1 platform, host kept after 1 error |
| `communicator_restart` | are replies right when a second process uses the server? (no) | 2 processes, 2 threads, 1 image each, 3 layers |
| `layers` | does every layer compute what it is named for, under every interleaving of work-items? | tiles of 2 x 2, images up to 5 x 5, 6 channels, filters up to 3 x 3, 1-3 groups |
| `session` | does the request match the start page, and do the pages match the request? | 2 files, 3 pictures, 2 remote and 1 local platform, 2 best labels of 4 outputs, 1 change of a file |
| `net_builder` | which net comes from which directory, description and weight file? | descriptions of up to 3 layers of 11 kinds, 2 groups of weights, `int` up to 127 |

Why the bounds are enough.  Three hosts give ties among some, a host between
two others, and remainders of one and two; four images make a greedy choice
revise itself.  Two remote platforms let a selection hold all, some or none of
a host's platforms; three images split over two hosts in every way, with an
empty batch too.  Three nets are needed for a loop to skip a net and to
erase the end; a fourth makes lists that share none.  Five layers contain
each kind, marked layers before and after the flattening one, and a
convolution that can throw behind one that is marked by then.  The server's net
is shorter, and its host is kept after one error: a second request beside one
whose client gave up is enough to mix them.  Three platforms, two of them
arbitrary, give ties, quotients between a quotient and its rounding, infinite
ones, and a platform that neither role uses; the nets have equal layers, one
difficult layer, and several.  Two images
show one image after another, and two nets the replacement of a net.
Tiles of 2 x 2 have two work-items in each group, which is what a race needs;
the matrices need one or several tiles and groups, with and without padding.
Three layers give each kind a layer before it and after it, and more weights
are asked for than there are groups.  Two images may be equal, and the labels of
one, of two, with a tie or with one label twice, are fewer than, as many as, or
more than the two that are kept; energies fit the `int` alone and not together.
All state spaces are finite and explored completely; the bounds are
`MaxImages`, `ClientMaxImages`, `MaxKept` (errors after which a host is kept),
`MaxChanges` (changes of files), the sets of inputs in the MC modules, and
`INT32_MAX` and `IntLimit`.  Neither the number of calls, of failures in the
local executor nor of the user's clicks is bounded.

`CHECK_DEADLOCK FALSE` is used where the modelled program really stops: the end
of a placement, a start that is over, a closed process or an undefined step.

Fairness.  `Manager!Fairness`: the GUI's event loop runs while the window is
open, the worker and host threads run (the operating system schedules them),
and calls to hosts return or throw; nothing is assumed of the user or of the
server's changes.  `FairCommunicatorSpec`: as long as a handler or a client can
take a step, one is taken; no call need be made, no connection need break.
The code sets no deadline, so a server that hangs for ever blocks the client;
that a handler ends is an assumption, met by the loops over images and layers.

### What the passing runs show

- `placer_modes`: no other assignment finishes sooner than high power mode's
  (`SmallestMaximumStack`) or needs less energy than low power mode's
  (`LeastEnergy`); energy efficient mode never pays more in time and
  energy than one host alone would (`NeverWorseThanOneHost`); only workloads that do not fit an `int` overflow
  (`SmallWorkloadsAreDefined`); it implements `HostPlacement`
  (`PlacesEveryImageOnce`).
- `manager`: a result holds every image once and in the order requested
  (`ResultIsComplete`) or the user sees the failure (`ResultIffNoFailure`);
  requests are answered one by one (`ImplementsClassification`); hosts get
  platforms that are their own and selected, and at least one unless the server
  has changed (`HostsUseSelectedPlatforms`); only hosts
  that failed leave the list (`OnlyFailedHostsErased`); the platforms offered
  after a failure exist (`OfferedPlatformsExist`); `ClassificationEnds`.
- `startup_safety`: the intersection works on one list of nets for each host
  that is left (`OneListPerHost`); a net that all hosts have is always offered
  (`NoCommonNetLost`), and nothing else if at most one net is missing
  (`ExactForOneMissingNet`); what the window is given fits the hosts that
  remain (`WindowFitsHosts`).
- `executor_manager`: layers run on selected platforms
  (`LayersRunWhereSelected`) and read outputs of the image at hand
  (`LayersReadTheImageAtHand`); outputs are freed but for the layer before the
  flattening one (`OutputsFreed`); an undefined step needs an earlier failure
  (`UndefinedOnlyAfterFailure`); `ImplementsComputationHost`.
- `platform_placer`: `BestInItsMode`; the distribution reported is the work
  placed (`DistributionIsWorkPlaced`); both platforms have something to do
  unless all layers are equal (`BothPlatformsWork`).
- `communicator_one`: one client that drops the server with its first error never
  drives the executor into an undefined step (`OneClientIsSafe`).  Its replies are
  for the images sent (`RepliesBelongToImages`) and it is a `ComputationHost`
  (`ClientImplementsComputationHost`), also when the host is called again after
  its handlers threw; not when it is called again after the connection broke, as
  the old request still runs, and without the right labels for a net whose
  labels the server could not read.  `ClientCallEnds` in every case, up to an
  undefined step.
- `layers`: the output is the convolution, normalisation or product in coordinates,
  the largest of a window and 0, the activation or the loss
  (`OutputIsTheLayers`), for the kernels because their barriers keep
  the tiles (`TilesAreCurrent`); it has the size of its array just if the padding
  fits the stride (`OutputFits`), which is not checked by the code.
- `session`: `ButtonSaysWhatItDoes`; each loaded image is classified once, as it
  was loaded, on the ticked platforms, all of hosts that are left
  (`RequestIsTheSelection`); the page shows that request with the best labels,
  in order, or their means (`PageShowsTheRequest`); shares add up and the power
  is within what the hosts take (`DetailsAddUp`); an undefined step needs a tie
  or one label for two outputs, or two platforms with one description
  (`CrashesAreExplained`); and each request gets its one answer
  (`ImplementsClassification`).
- `net_builder`: the net has the layers described, and its weights in order
  (`BuiltAsDescribed`); a description with missing fields never gives a
  difficulty of zero (`DifficultyIsPositive`); each net on offer can be opened
  (`OfferedNetsCanBeOpened`).

### What the violated runs show

1. `manager_lost_failure`: all host threads share one `exceptionptr`
   (`Manager.cpp:61`).  If both hosts fail and the local host stores last, the
   remote host stays in `computationHosts`, against `Manager.cpp:279`.
2. `executor_double_free`: a `ResultException` in the second convolution of a
   net skips `net->reset()`;
   when another net is chosen, `~Layer` (`Layer.cpp:85`) frees outputs again,
   through layers deleted before.
3. `communicator_restart`: two processes, or one whose predecessor's request
   still runs, share the server's net and layers; one gets the other's result.

Other differences between code and documentation that the models show, without
a run of their own: the switch of `Client.cpp:54-61` has no `break`, so every
request is sent with the mode `LowPower` (`SentMode`), and a remote host never
places its layers for another mode; in low power mode `HostPlacer.h:57` promises all images to one
host, but equal hosts share them (`LowestShareEvenly`, which is proved, states what the
code does); `Executor.h:55` promises to place a net only when settings change, but
`currentPlatforms` is never assigned and so every call places it again
(`PlaceNet`); the input of the flattening layer is never freed, so it leaks
with every image (the exception `OutputsFreed` makes); and when the labels of a
new net cannot be read on the server, the next call for that net is answered
with the labels of the old one (`LabelsFail`, then `KeepNet`).

* The loop at `Manager.cpp:200-210` erases element `i` and then increments `i`.
  When the selected remote platforms no longer exist, the local host classifies
  without a platform, against `Manager.cpp:198` (`WithoutUnselected`).  The same
  skip keeps the list of hosts from becoming empty, which the placement needs.
* `netIntersection` skips the net after an erased one: if the server has nets
  a, b, d and the local host only d, b is offered, against `Manager.h:76`.
* `aggregateResults` erases from the sixth label, also when there are fewer
  (`UpdateCutsTooMuch`).  A net with less than five outputs, ties, or the two
  lines "crane" of `alexnet_labels.txt` among the best five of every image lead
  there.
* Outputs with one probability all get the label of the first (`IndexOf`).
* Two platforms with one description share an entry of `platformMap`: ticking
  either selects the same one (`SelectedPlatforms`).
* The result page shows what the file holds then, not the image classified
  (`DisplayResults`).
* The check boxes of images do not select: every image is classified.
* A model's file only has to contain the identifier and ".json" (`NameMatches`);
  a net from `my_alexnet.json`, or from the backup copy `alexnet.json~`, is
  offered and then opened as `alexnet.json`.
  One corrupt file takes all nets away (`Corrupt`).
* `padding` has no part in the size of an output; `OutputFits` names the paddings
  for which the functions fill it, and an even filter on the CPU is shifted.
* The maximum of a pooling starts at 0 (`CpuMaxPoolingFunction.cpp:55`).  Behind
  an activation this is the same; directly behind a convolution a window of
  negative numbers gives 0 (`CpuMaxPooling`).
* A manager that keeps the server after an error can reach the server's deleted
  net, or meet its own earlier request still running there (`Fail`).

## 4. Proofs

Each proof module shows an inductive invariant, which TLC checked on the run of
its component first, and derives the properties from it.  The theorems hold for
all values of the constants that satisfy the named assumptions, and so for
any number of images, hosts, layers or calls.

`HostPlacer_proofs`: `IInv` is inductive: types; where the loops are; that
`jobStacks` is the time of the images given out (`StackInv`); that high power's
greedy choice keeps every stack within one image of every other host
(`GreedyInv`); that energy efficient mode has paid at most what one host alone
would (`CostInv`); that low power shares follow the order of hosts (`ShareInv`).
`GreedyInv` bounds any competing assignment host by host.  `SumInv` says that no
image is lost: what is given out, and in low power mode what the hosts still
to be visited will get, adds up to the images.  Proved: `TypeOK`,
`NeverWorseThanOneHost`, `LowestShareEvenly`,
`SmallWorkloadsAreDefined`, `LeastEnergy` (over all assignments),
that a placement is an assignment of all images (`ReturnsAnAssignment`), and
that high power mode is optimal (`SmallestMaximumStack`): by `GreedyInv`, an
assignment that finished sooner would give no host more images and one host fewer
(`FasterPlacesFewer`), so by `SumInv` it would not give all of them.  So is the
safety part of `PlacesEveryImageOnce`: the placement starts as, and every step
is a step or a stutter of, `HostPlacement` (`PlacesImages`).

`Manager_proofs`: `ManagerInv` is inductive.  `LockInv`: while a classification
is active, the start page is locked, or the slot that locks it has not
returned; so there is one thread and at most one signal.  `ExceptionInv`:
`exceptionptr` is set exactly while a failure is known and the signal not sent;
this needs `LockInv`, as a second update could clear it.  `FinalInv`: after a
`ResourceException` the lock stays.  From it follow `RequestNotReplaced`,
`NoStaleException`, `ResultIffNoFailure`, `FailureIsExplained` and
`ResourceExceptionIsFinal` (nothing starts after a `ResourceException`); with
`OfferInv`, which ties the waiting platforms to the failure on its way,
`OfferedPlatformsExist`.

`UpdateInv`, in the same module, follows the data of one update.  `MatchInv`:
while the hosts are asked for platforms there is one set for each.
`AvailableInv`: the remote host works only while it is in the list.  `BlameInv`:
the exception names a host that did fail, and it is there to be erased.
`ThreadInv` and `BatchInv`: a thread runs for each host with images, and what a
host has returned is its batch, or nothing if it failed; the batches are a
`Spread` of the images in their order, over one host or two.  `CompleteInv`: so
the results, the signal and the page hold all images in order.  `SelectionInv`:
the platforms of each host are those of its own that were selected, and there is
one while the server does not change; `OwnInv` is what remains if it does.  The parts
need each other: what is lost from `availableHosts` would be missing from the
batches, and a batch is complete only if the failure of its host would be known.
Proved from it: `TypeOK`, `ResultIsComplete`, `HostsUseSelectedPlatforms`, and
the action property `OnlyFailedHostsErased`.

The refinement `ImplementsClassification` (`ServesOneRequestAtATime`) has one step
per action.  Most are stutters: placing images, starting and joining threads.  Those that are not rest on
the invariants above: the event loop may only answer what was asked
last, which is `LockInv`; the failure that the dialog names is the one that cost
the host (`KindInv`, with `ExceptionInv` and `BlameInv`); and what the page
shows are the images asked for (`CompleteInv`).

`Startup_proofs`: `StartInv` follows the three loops of the start.  `SlotsInv`:
what the memory behind an erased vector still holds.  `QueryInv`: one list of
nets for each host that was not erased.  `IntersectInv`: what is left of the
nets are nets of the first host, all common ones among them.  `ExactInv`: with
at most one net to take out, all nets before the loop's index were compared.
`PlatformsInv` and `WindowInv` carry this to the window.  Proved: `TypeOK`,
`OneListPerHost`, `NoCommonNetLost`, `ExactForOneMissingNet`, `WindowFitsHosts`,
for directories of any size.

`Platforms_proofs` first proves of `PlatformPlacer` that `IInv` is inductive.  `ChoiceInv`: no platform
considered beats the performance platform.  `QuotientInv`, for energy efficient
mode: `currentBest` is at least the quotient of every platform considered and at
most that of the performance platform.  The two differ while the rounded
quotient of the default platform is in use, so neither bound alone is inductive
enough; together, and with `QuotientsTransitive`, they give `BestInItsMode` for
fractions with infinities.  `WorkInv`: the layers placed so far are where
their difficulty puts them, and the two counters are the work on the two
platforms.  From it, with the mean of the difficulties as a sum, follow
`BothPlatformsWork` and `DistributionIsWorkPlaced`, and that a placement ends
as `Executor` takes it to end (`PlacesAsExecutorAssumes`): the easy layers on one
selected platform, the others on one, all platforms listed; or an exception
after the layers before some layer, and no distribution.  That each
platform is listed once is a matter of counting (`AllAreListed`): as many entries
as platforms, one for each.

Then, of `Layers`, for tiles of any size and any number of work-groups:
`KernelInv` says that all work-items of a group are between the same two barriers
of the same tile, and that the cells they have loaded are those of this tile
(`TileInv`).  It rests on `CellsAreShared`: the work-items of a group load every cell of
a tile if `WPT` and `WIDTH` divide `TS`.  `TilesAreCurrent` follows, without
any hypothesis on the layers.  `AccInv` adds the numbers: a register
holds the products up to the place its item has reached (`Progress`), over the whole width of
the tiles before, and what is stored in C is `Final`.  `ForwardInv` keeps the
results of the calls of `execute` that have returned.  `ResultInv`, their conjunction, is inductive.
What a result is, is proved without states: the zeros that fill a matrix up to whole tiles add
nothing (`PaddingAddsNothing`); a row of the matrix of weights times a column that
im2col made has the addends of one place of the convolution
(`Im2ColIs`, `MultipliedIs`); so has the loop of the CPU, which skips what lies
outside of the image (`CpuConvolutionIs`); and the second call of `execute` for a layer
in two groups has the addends of the second half (`PartIsJob`, `ConvolvedIs`).
Pooling, normalisation and the fully connected layer have a lemma each.
Proved: `TilesAreCurrent`; and `OutputIsTheLayers` and `OutputFits` under the
hypotheses `FiltersFit` (no filter is larger than the padded image) and
`GroupsDivide` (a layer in two groups has even numbers of channels and filters),
which hold in the run `layers`.  Without the first, there is no place to put the filter; without the second,
integer division drops a channel.  For a convolution on the CPU the property
speaks of odd filters only, as that function does.  Which products are added is
what is proved; the order, which differs between the platforms, and the rounding of
floats are left out.

`Communicator_proofs` first proves of `Executor`, under the hypothesis `OneThread` (the local host, which one
thread calls at a time) but for `TypeOK`, that `ExecInv` is inductive.  `PlaceInv`:
once placed, all layers are on platforms of the call.  `NetInv`: the net, its
labels and the name they are remembered by agree, and the net is deleted only
until it is built anew.  `ResultInv`: the results so far are the images so far.
`FreshInv`: between images no layer is marked as computed, and no output is left
but the one before the flattening layer, while within `forward` there is the
output just computed.  What an exception leaves behind is excluded where it
breaks these (`Sound`, `~ failed`), since no more than that is true: the run
`executor_double_free` shows the other side.  Proved:
`LayersReadTheImageAtHand`, `LayersRunWhereSelected`,
`UndefinedOnlyAfterFailure`, `OutputsFreed`, and, if the object does not
outlive a `ResourceException` as is so in the manager, `ImplementsComputationHost`.
Where no call fails and each selects a platform, `NeverUndefined` holds
(`SafeWithoutFailures`): the double deletion takes an exception.

Then, for one client (`OneClient`, any number of server threads): `CommInv` is
types, and `OrderlyInv` until the host is called again after a broken connection.
`OrderlyInv` is `ExecInv` and: a thread works only for the client that waits, on
that client's request, or after the client has gone for good (`ServerInv`); if no host was
kept, nothing runs after an exception and the client makes no other call
(`FailedInv`); the net has its own labels unless they could not be read
(`LabelInv`); replies are for the images sent (`ReplyInv`).  `ServerInv` makes
all server threads together one thread in the sense of `ExecInv`, so each
lemma about `Executor` is used for whichever thread moves; it is also what
fails when a client calls again beside its own abandoned request.  Proved:
`OneClientIsSafe`, `RepliesBelongToImages`, and the refinement
`ClientImplementsComputationHost`, for any `MaxKept`.

`Session_proofs`: `SessionInv` is inductive.  `MapInv`: a text of the start page
leads to an offered platform of that description, whichever entries outlived the
undefined erasure.  `OnceInv`: an image is loaded once, however often it was
chosen and deleted.  `BusyInv`: the start page is locked from the start of the
worker until its signal is received, so nothing touches the selection meanwhile.
`BoxesInv`: the check boxes are of hosts that are left, unless the page is yet to
learn that one is lost.  From it `ButtonSaysWhatItDoes` and `RequestIsTheSelection` follow.
`PageInv` rests on it: a file that no other program has touched holds what was
loaded (`TouchInv`), and later what was requested (`RequestInv`); what the signal
carries, and the page shows, is the outcome of an update with that request
(`SignalInv`, `ShownInv`).  What such an outcome is, is proved without states:
that the labels are those of the largest outputs, distinct unless there are ties
(`RanksAreDistinct`, `LabelsOfOne`); that the mean over the images times their
number is what they contribute (`MeanProperties`, by renaming the images to the
places in their order); that there are enough labels to cut if one image has no
tie and no repeated label (`CutsTooMuch`); that the shares of a host add up to its
images for single images and for batches alike (`RemoteShares`, `HostShares`,
`UsageOfAll`), and that the energy grows with the time (`PowerIsBounded`).
Proved: `PageShowsTheRequest` under `MeansAreExact` (the numbers of images divide
the probabilities), `DetailsAddUp` under `SharesAreExact` (they divide 100 per
cent), and `CrashesAreExplained` under `OutputsAreLong` (a net has at least as many outputs as
labels are shown, as the nets at hand have).  The first two are about
integers only: with floats both hold up to rounding.  All three
hypotheses hold in the run `session`, which evaluates them.  Last, the session
implements `Classification` (`SessionIsTheService`), without any hypothesis.

`NetBuilder_proofs`: `BuildInv` is inductive: the layers so far are those of the
description up to `index`, each of its kind with the dimensions that its
predecessor gives it, and `weightIndex` counts the layers with weights among
them.  `MeasureInv` adds what the difficulties are computed from, and `CrawlInv` that
the files offered are files of the directory with the identifier in their
name.  Proved: `BuiltAsDescribed`, `OfferedNetsCanBeOpened`, and
`DifficultyIsPositive` under the hypothesis `NaturalFields` (a description has no
negative number).

`Sums` has no state: what `SumFunction` and `FoldLeft` add up, how sums compare,
and how they change with one element.  An induction over a finite set is
written as a least counterexample (`NoneFails`), which the provers can follow.

Assumptions are those named in the modules: `HostPlacer`'s on tables of
positive times; `PlatformPlacer`'s on natural numbers of flops and watts, and
nets that start with an input layer; `ManagerAssumption`: both hosts have
platforms, and no platform is on both, as `CONFIGURE.md` requires;
`StartupAssumption`: no directory has two nets of one identifier;
`ExecutorAssumption`: there are two layers or more, the first alone is the
input; `CommunicatorAssumption`: a client exists, sends images one by one, and
never without a platform; `StartWidgetAssumption`, `ResultsAssumption` and
`SessionAssumption`: finitely many files, natural numbers as outputs, at most as
many as there are labels, and the two hosts with a list of platforms each;
`NetBuilderAssumption` on the fields of descriptions; `LayersAssumption` and
`TSAssumption`: the size of a tile is positive, `WPT` and `WIDTH` divide it, the fields
of layers are natural numbers, and only convolutions run on OpenCL devices or in
groups.

The invariants that these theorems rest on are not among the runs' properties,
as the proofs say more; they hold in the runs, too.

Only model-checked: liveness (`ClassificationEnds`, `ClientCallEnds`, and the
part of `PlacesEveryImageOnce` that says a placement ends), which is out of the
provers' reach.

## 5. Not modelled

Most of the repository is not HICS: `thirdparty/` (the JSON library, spdlog with
its formatter, an HDF5 wrapper) and `catch/` are some 42500 lines, headers,
build files and tests another large part.  The program's own sources are about
7100 lines, and nothing of the rest would tell a reader more about them.  Of
those, left out are:

* the layout of widgets, their resizing and drawing, the main window, and the
  choice of the net and the mode on the start page (one value each, read once);
* the preprocessor (scaling, cropping and the means of pixels) and the numbers
  in a layer: only which are combined is modelled, not floats and rounding;
* the platform manager, which creates platforms from `platforms.json` and
  functions on demand: the outcomes are in `Startup` and `Executor`, the OpenCL
  calls are a driver's;
* kernels other than `gemm3.cl` and `gemm4_fpga.cl`, which nothing builds, and the variants
  in `Helper.cpp` that nothing calls;
* readers that copy fields (`LabelLoader`, the messages in `Util.cpp`,
  `NetInfo`, `PlatformInfo`), logging, and the text of messages;
* memory that is never freed, but for the outputs of layers.

## 6. Plan

Done, in this order: `HostPlacement` and `HostPlacer` with proofs, `Manager` with
proofs on `Placements`, `Startup`, `ComputationHost`, `Executor` and
`Communicator`, `PlatformPlacer` with proofs, then `LayerFunctions` with
`Layers`, `Results`, `StartWidget` and `Session`, and `NetBuilder`; then the proofs
of the results of `update`, of the sums in both placers, and of `Startup`,
`Executor`, `Communicator`, `Session`, `NetBuilder` and `Layers`; last
`Classification`, which `Manager` and `Session` implement, the optimum of high
power mode, and the outcomes of `PlatformPlacer` as those `Executor` assumes.
Left: `PlatformManager`, the lazily created functions and their sharing.
