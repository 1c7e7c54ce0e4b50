------------------------------ MODULE Manager ------------------------------
(***************************************************************************)
(* One classification after the other, from the click on the button to the *)
(* page with the results: the GUI thread (MainWindowHandler, StartWidget), *)
(* the worker thread that runs Manager::update, and the threads update     *)
(* starts, one per computation host.                                       *)
(*                                                                         *)
(* The threads share the static exceptionptr of Manager.cpp:44, the list   *)
(* computationHosts, the request, and the fields exceptionptr and          *)
(* updatedPlatforms of the handler.  The worker reaches the GUI thread by  *)
(* a queued signal, resultReady.                                           *)
(*                                                                         *)
(* An image is its position in the request.  Every call to a host ends, in *)
(* success or with an exception: CommunicationException from the remote    *)
(* host, ResourceException or another std::exception from the local one.   *)
(***************************************************************************)
EXTENDS Integers, Sequences, SequencesExt, Placements

CONSTANTS
  LocalPlatforms,      (* platforms of the local Executor                    *)
  FpgaPlatforms,       (* platforms the remote computation server may offer  *)
  MaxImages            (* bound: the largest number of images of a request   *)

ASSUME ManagerAssumption ==
  /\ LocalPlatforms # {}
  /\ FpgaPlatforms # {}
  /\ LocalPlatforms \cap FpgaPlatforms = {}
  /\ MaxImages \in Nat \ {0}

Host == {"fpga", "local"}
NoRequest == [platforms |-> {}, images |-> 0]
Request == [platforms : SUBSET (LocalPlatforms \cup FpgaPlatforms), images : 0..MaxImages]

(* What an exception_ptr holds: the class of the exception and, for a      *)
(* CommunicationException, its failed host.                                *)
Exception(k, h) == [kind |-> k, host |-> h]
NoException == Exception("none", "none")

VARIABLES
  (* the GUI thread *)
  gui,                 (* "loop", or "starting" within the slot of the button *)
  page,                (* the widget on display: "start" or "result"         *)
  busy,                (* progress bar shown and start page disabled         *)
  offered,             (* platforms that have a check box                    *)
  dialog,              (* "none", "error", or "fatal": closing it ends HICS  *)
  open,                (* the main window is open                            *)
  request,             (* classificationRequestState                         *)
  handlerException,    (* MainWindowHandler::exceptionptr                    *)
  updatedPlatforms,    (* sequence of at most one set of platforms           *)
  shown,               (* the images on the result page                      *)
  inbox,               (* queued resultReady signals                         *)
  (* the worker thread *)
  worker,              (* where Manager::update is, "idle" without a thread  *)
  index,               (* i of its loops                                     *)
  hostPlatforms,       (* selected platforms of each host                    *)
  availableHosts,      (* hosts with a selected platform                     *)
  hostDistribution,    (* images per available host                          *)
  batches,             (* the images of each available host                  *)
  allResults,          (* the images each available host has classified      *)
  (* the hosts *)
  thread,              (* thread[h]: "none", "running" or "ended"            *)
  serverPlatforms,     (* what the remote server offers now                  *)
  serverChanged,       (* history: has the server come back with others?     *)
  (* shared *)
  computationHosts,    (* the hosts of the Manager, in order                 *)
  exceptionptr,        (* the static exception_ptr                           *)
  failed               (* history: hosts whose call failed in this update    *)

guiVars == <<gui, page, busy, offered, dialog, open, request, shown>>
handlerVars == <<handlerException, updatedPlatforms>>
updateVars == <<index, hostPlatforms, availableHosts, hostDistribution, batches>>
resultVars == <<allResults, thread>>
sharedVars == <<computationHosts, exceptionptr, failed>>
serverVars == <<serverPlatforms, serverChanged>>
vars == <<guiVars, handlerVars, inbox, worker, updateVars, resultVars,
          serverVars, sharedVars>>

PlatformsOf(h) == IF h = "local" THEN LocalPlatforms ELSE serverPlatforms

(* The platforms a host has, or may once have had. *)
OwnPlatforms(h) == IF h = "local" THEN LocalPlatforms ELSE FpgaPlatforms

(* After Manager() and initGUI(): the remote host was reachable or not.    *)
Init ==
  /\ computationHosts \in {<<"local">>, <<"fpga", "local">>}
  /\ serverPlatforms = FpgaPlatforms /\ serverChanged = FALSE
  /\ offered = IF "fpga" \in ToSet(computationHosts)
                 THEN LocalPlatforms \cup FpgaPlatforms ELSE LocalPlatforms
  /\ gui = "loop" /\ page = "start" /\ busy = FALSE /\ dialog = "none" /\ open = TRUE
  /\ request = NoRequest
  /\ shown = <<>>
  /\ handlerException = NoException /\ updatedPlatforms = <<>>
  /\ inbox = <<>>
  /\ worker = "idle" /\ index = 1
  /\ hostPlatforms = <<>> /\ availableHosts = <<>> /\ hostDistribution = <<>>
  /\ batches = <<>> /\ allResults = <<>>
  /\ thread = [h \in Host |-> "none"]
  /\ exceptionptr = NoException
  /\ failed = {}

-----------------------------------------------------------------------------
(* The GUI thread: MainWindowHandler. *)

(* A definition marked "fault:" is a seeded bug.  It is used only in place *)
(* of the definition below it, to show that the properties notice.         *)

(* setClassificationRequestState with a selection it accepts: the old      *)
(* request is deleted, the worker thread is started, and only then ...     *)
StartClassification(selected, n) ==
  /\ gui = "loop" /\ page = "start" /\ ~ busy /\ dialog = "none"
  /\ selected # {} /\ n > 0
  /\ request' = [platforms |-> selected, images |-> n]
  /\ worker' = "update"
  /\ gui' = "starting"
  /\ UNCHANGED <<page, busy, offered, dialog, open, shown, handlerVars, inbox,
                 updateVars, resultVars, serverVars, sharedVars>>

(* fault: the progress bar is shown but the page stays enabled. *)
ProgressWithoutLock ==
  /\ gui = "starting"
  /\ gui' = "loop"
  /\ UNCHANGED <<page, busy, offered, dialog, open, request, shown, handlerVars, inbox,
                 worker, updateVars, resultVars, serverVars, sharedVars>>

(* ... does displayProgress lock the page. *)
DisplayProgress ==
  /\ gui = "starting"
  /\ busy' = TRUE
  /\ gui' = "loop"
  /\ UNCHANGED <<page, offered, dialog, open, request, shown, handlerVars, inbox, worker,
                 updateVars, resultVars, serverVars, sharedVars>>

(* setClassificationRequestState without a net, a platform or an image:    *)
(* the old request is gone and an error message is shown.                  *)
RefuseSelection ==
  /\ gui = "loop" /\ page = "start" /\ ~ busy /\ dialog = "none"
  /\ request' = NoRequest
  /\ dialog' = "error"
  /\ UNCHANGED <<gui, page, busy, offered, open, shown, handlerVars, inbox, worker,
                 updateVars, resultVars, serverVars, sharedVars>>

(* processClassificationResult with a result. *)
DisplayResult ==
  /\ gui = "loop" /\ inbox # <<>> /\ Head(inbox).ok
  /\ page' = "result"
  /\ shown' = Head(inbox).images
  /\ inbox' = Tail(inbox)
  /\ UNCHANGED <<gui, busy, offered, dialog, open, request, handlerVars, worker,
                 updateVars, resultVars, serverVars, sharedVars>>

(* fault: the page stays disabled after an exception that can be survived. *)
AlwaysLocked == TRUE

(* Is the start page disabled after an error message?  checkExceptionPtr   *)
(* enables it, and disables it again for a ResourceException.              *)
LockedByError == handlerException.kind = "resource"

(* processClassificationResult with nullptr: checkExceptionPtr, then the   *)
(* new platforms.                                                          *)
DisplayFailure ==
  /\ gui = "loop" /\ inbox # <<>> /\ ~ Head(inbox).ok
  /\ inbox' = Tail(inbox)
  /\ busy' = LockedByError
  /\ dialog' = CASE handlerException = NoException -> dialog
                 [] handlerException.kind = "resource" -> "fatal"
                 [] OTHER -> "error"
  /\ handlerException' = IF handlerException.kind = "resource"
                           THEN handlerException ELSE NoException
  /\ offered' = IF updatedPlatforms # <<>> THEN Head(updatedPlatforms) ELSE offered
  /\ updatedPlatforms' = <<>>
  /\ UNCHANGED <<gui, page, open, request, shown, worker,
                 updateVars, resultVars, serverVars, sharedVars>>

(* StartWidget::updatePlatforms erases the nodes of a map through the      *)
(* iterator it then increments.  That is undefined; the build the code was *)
(* written with goes on as DisplayFailure says, or crashes.                *)
UpdatePlatformsCrashes ==
  /\ gui = "loop" /\ inbox # <<>> /\ ~ Head(inbox).ok
  /\ updatedPlatforms # <<>>
  /\ open' = FALSE
  /\ UNCHANGED <<gui, page, busy, offered, dialog, request, shown, handlerVars, inbox,
                 worker, updateVars, resultVars, serverVars, sharedVars>>

(* processReturnQPushButton. *)
ReturnToStart ==
  /\ gui = "loop" /\ page = "result" /\ dialog = "none"
  /\ page' = "start"
  /\ busy' = FALSE
  /\ shown' = <<>>
  /\ UNCHANGED <<gui, offered, dialog, open, request, handlerVars, inbox, worker,
                 updateVars, resultVars, serverVars, sharedVars>>

(* The user closes the modal error message; after a ResourceException that *)
(* closes the main window.                                                 *)
CloseDialog ==
  /\ gui = "loop" /\ dialog # "none"
  /\ dialog' = "none"
  /\ open' = (dialog = "error")
  /\ UNCHANGED <<gui, page, busy, offered, request, shown, handlerVars, inbox, worker,
                 updateVars, resultVars, serverVars, sharedVars>>

(* The user closes the main window, at any time: the process ends.         *)
CloseWindow ==
  /\ gui = "loop" /\ dialog = "none"
  /\ open' = FALSE
  /\ UNCHANGED <<gui, page, busy, offered, dialog, request, shown, handlerVars, inbox,
                 worker, updateVars, resultVars, serverVars, sharedVars>>

-----------------------------------------------------------------------------
(* The worker thread: Manager::update. *)

BeginUpdate ==
  /\ worker = "update"
  /\ hostPlatforms' = [j \in DOMAIN computationHosts |-> {}]
  /\ index' = 1
  /\ worker' = "match"
  /\ failed' = {}
  /\ UNCHANGED <<guiVars, handlerVars, inbox, availableHosts, hostDistribution, batches,
                 resultVars, serverVars, computationHosts, exceptionptr>>

(* One host's platforms are queried and the selected ones kept. *)
MatchHost ==
  /\ worker = "match" /\ index <= Len(computationHosts)
  /\ hostPlatforms' = [hostPlatforms EXCEPT ![index] =
                         PlatformsOf(computationHosts[index]) \cap request.platforms]
  /\ index' = index + 1
  /\ UNCHANGED <<guiVars, handlerVars, inbox, worker, availableHosts, hostDistribution,
                 batches, resultVars, serverVars, sharedVars>>

(* The query fails: the loop is left, the other hosts are not asked.       *)
MatchFails ==
  /\ worker = "match" /\ index <= Len(computationHosts)
  /\ computationHosts[index] = "fpga"
  /\ exceptionptr' = Exception("comm", "fpga")
  /\ failed' = failed \cup {"fpga"}
  /\ worker' = "select"
  /\ UNCHANGED <<guiVars, handlerVars, inbox, updateVars, resultVars, serverVars,
                 computationHosts>>

(* fault: the platforms of an erased host are not erased with it. *)
ErasedHostsOnly ==
  LET selected(h) == \E j \in DOMAIN computationHosts :
                       computationHosts[j] = h /\ hostPlatforms[j] # {}
  IN  [hosts |-> SelectSeq(computationHosts, selected), platforms |-> hostPlatforms]

(* The loop that erases the hosts without a selected platform.  It steps   *)
(* over the host that moves into the place of an erased one.               *)
WithoutUnselected ==
  LET n == Len(computationHosts)
      after[j \in 0..n] ==
        IF j = 0 THEN [hosts |-> computationHosts, platforms |-> hostPlatforms]
        ELSE LET s == after[j - 1]
             IN  IF j <= Len(s.hosts) /\ s.platforms[j] = {}
                   THEN [hosts |-> RemoveAt(s.hosts, j), platforms |-> RemoveAt(s.platforms, j)]
                   ELSE s
  IN  after[n]

SelectHosts ==
  /\ worker = "select" \/ (worker = "match" /\ index > Len(computationHosts))
  /\ availableHosts' = WithoutUnselected.hosts
  /\ hostPlatforms' = WithoutUnselected.platforms
  /\ worker' = "place"
  /\ UNCHANGED <<guiVars, handlerVars, inbox, index, hostDistribution, batches,
                 resultVars, serverVars, sharedVars>>

(* fault: the image at hand is dropped when the loop moves to the next host. *)
BatchesDropAtBoundary(d, n) ==
  LET after[k \in 0..n] ==
        IF k = 0 THEN [host |-> 1, used |-> 0, of |-> [j \in DOMAIN d |-> <<>>]]
        ELSE LET s == after[k - 1]
             IN  IF s.used < d[s.host]
                   THEN [s EXCEPT !.used = @ + 1, !.of[s.host] = Append(@, k)]
                   ELSE [s EXCEPT !.host = @ + 1, !.used = 0]
  IN  after[n].of

(* The loop that fills the batches in the order of the images.             *)
Batches(d, n) ==
  LET after[k \in 0..n] ==
        IF k = 0 THEN [host |-> 1, used |-> 0, of |-> [j \in DOMAIN d |-> <<>>]]
        ELSE LET s == after[k - 1]
                 give(h, used) == [host |-> h, used |-> used,
                                   of |-> [s.of EXCEPT ![h] = Append(@, k)]]
             IN  IF s.used < d[s.host] THEN give(s.host, s.used + 1)
                                       ELSE give(s.host + 1, 0)
  IN  after[n].of

(* HostPlacer::place returns d.  After a failed query nothing is started.  *)
PlaceImages(d) ==
  /\ worker = "place"
  /\ hostDistribution' = d
  /\ IF exceptionptr = NoException
       THEN /\ batches' = Batches(d, request.images)
            /\ allResults' = [j \in DOMAIN d |-> <<>>]
            /\ index' = 1
            /\ worker' = "start"
       ELSE /\ worker' = "report"
            /\ UNCHANGED <<batches, allResults, index>>
  /\ UNCHANGED <<guiVars, handlerVars, inbox, hostPlatforms, availableHosts, thread,
                 serverVars, sharedVars>>

(* HostPlacer::place throws: computationHosts.json lacks a host.           *)
PlacerThrows ==
  /\ worker = "place"
  /\ exceptionptr' = Exception("resource", "none")
  /\ failed' = failed \cup {"placer"}
  /\ worker' = "report"
  /\ UNCHANGED <<guiVars, handlerVars, inbox, updateVars, resultVars, serverVars,
                 computationHosts>>

(* A thread is started for a host with a batch. *)
StartThread ==
  /\ worker = "start" /\ index <= Len(availableHosts)
  /\ thread' = IF batches[index] # <<>>
                 THEN [thread EXCEPT ![availableHosts[index]] = "running"] ELSE thread
  /\ index' = index + 1
  /\ UNCHANGED <<guiVars, handlerVars, inbox, worker, hostPlatforms, availableHosts,
                 hostDistribution, batches, allResults, serverVars, sharedVars>>

JoinThreads ==
  /\ worker = "start" /\ index > Len(availableHosts)
  /\ \A h \in Host : thread[h] # "running"
  /\ worker' = "report"
  /\ UNCHANGED <<guiVars, handlerVars, inbox, updateVars, resultVars, serverVars,
                 sharedVars>>

(* What update leaves behind when it returns: its locals are gone. *)
ReturnFromUpdate ==
  /\ index' = 1
  /\ hostPlatforms' = <<>> /\ availableHosts' = <<>> /\ hostDistribution' = <<>>
  /\ batches' = <<>> /\ allResults' = <<>>
  /\ thread' = [h \in Host |-> "none"]

(* The results are merged host by host and sent to the GUI thread. *)
ReturnResult ==
  /\ worker = "report" /\ exceptionptr = NoException
  /\ inbox' = Append(inbox, [ok |-> TRUE, images |-> FlattenSeq(allResults)])
  /\ worker' = "idle"
  /\ ReturnFromUpdate
  /\ UNCHANGED <<guiVars, handlerVars, serverVars, sharedVars>>

(* computationHosts.json, read once more for the performance data, is not  *)
(* readable any more: nobody catches the ResourceException.                *)
PerformanceThrows ==
  /\ worker = "report" /\ exceptionptr = NoException
  /\ open' = FALSE
  /\ UNCHANGED <<gui, page, busy, offered, dialog, request, shown, handlerVars, inbox,
                 worker, updateVars, resultVars, serverVars, sharedVars>>

HandlerTakesException == handlerException' = exceptionptr

NullException == exceptionptr' = NoException

(* fault: the last host is erased instead of the failed one. *)
WithoutLast == SubSeq(computationHosts, 1, Len(computationHosts) - 1)

(* The failed host, which the loop's std::find always finds.               *)
WithoutFailedHost ==
  RemoveAt(computationHosts,
           CHOOSE j \in DOMAIN computationHosts : computationHosts[j] = exceptionptr.host)

(* fault: the platforms of all hosts stay on offer. *)
AllPlatforms(hosts) == LocalPlatforms \cup FpgaPlatforms

AvailablePlatforms(hosts) == UNION {PlatformsOf(h) : h \in ToSet(hosts)}

(* The handler gets the exception.  After a CommunicationException the     *)
(* failed host is erased and the platforms of the others are collected.    *)
ReportFailure ==
  /\ worker = "report" /\ exceptionptr # NoException
  /\ HandlerTakesException
  /\ IF exceptionptr.kind = "comm"
       THEN /\ computationHosts' = WithoutFailedHost
            /\ updatedPlatforms' = <<AvailablePlatforms(computationHosts')>>
       ELSE UNCHANGED <<computationHosts, updatedPlatforms>>
  /\ NullException
  /\ worker' = "emit"
  /\ ReturnFromUpdate
  /\ UNCHANGED <<guiVars, inbox, serverVars, failed>>

EmitNull ==
  /\ worker = "emit"
  /\ inbox' = Append(inbox, [ok |-> FALSE, images |-> <<>>])
  /\ worker' = "idle"
  /\ UNCHANGED <<guiVars, handlerVars, updateVars, resultVars, serverVars, sharedVars>>

-----------------------------------------------------------------------------
(* The threads of the hosts: runClassification. *)

HostClassifies(h) ==
  /\ thread[h] = "running"
  /\ \E j \in DOMAIN availableHosts :
       /\ availableHosts[j] = h
       /\ allResults' = [allResults EXCEPT ![j] = batches[j]]
  /\ thread' = [thread EXCEPT ![h] = "ended"]
  /\ UNCHANGED <<guiVars, handlerVars, inbox, worker, updateVars, serverVars,
                 sharedVars>>

(* fault: the exception is logged and forgotten. *)
HostThrowsUnnoticed(h, kind) ==
  /\ thread[h] = "running"
  /\ kind = "comm" <=> h = "fpga"
  /\ failed' = failed \cup {h}
  /\ thread' = [thread EXCEPT ![h] = "ended"]
  /\ UNCHANGED <<guiVars, handlerVars, inbox, worker, updateVars, allResults,
                 serverVars, computationHosts, exceptionptr>>

(* The exception is stored without a lock: of two that are stored by two   *)
(* threads, either may be the one that stays.                              *)
HostThrows(h, kind) ==
  /\ thread[h] = "running"
  /\ kind = "comm" <=> h = "fpga"
  /\ exceptionptr' = Exception(kind, h)
  /\ failed' = failed \cup {h}
  /\ thread' = [thread EXCEPT ![h] = "ended"]
  /\ UNCHANGED <<guiVars, handlerVars, inbox, worker, updateVars, allResults,
                 serverVars, computationHosts>>

(* The remote server is restarted with other platforms. *)
ServerChanges ==
  /\ serverPlatforms' \in SUBSET FpgaPlatforms \ {{}}
  /\ serverChanged' = TRUE
  /\ UNCHANGED <<guiVars, handlerVars, inbox, worker, updateVars, resultVars, sharedVars>>

-----------------------------------------------------------------------------
User ==
  \/ \E selected \in SUBSET offered, n \in 1..MaxImages : StartClassification(selected, n)
  \/ RefuseSelection \/ ReturnToStart \/ CloseDialog \/ CloseWindow

EventLoop == DisplayProgress \/ DisplayResult \/ DisplayFailure \/ UpdatePlatformsCrashes

Worker ==
  \/ BeginUpdate \/ MatchHost \/ MatchFails \/ SelectHosts
  \/ \E d \in Assignments(DOMAIN availableHosts, request.images) : PlaceImages(d)
  \/ PlacerThrows \/ StartThread \/ JoinThreads
  \/ ReturnResult \/ PerformanceThrows \/ ReportFailure \/ EmitNull

HostThread(h) ==
  \/ HostClassifies(h)
  \/ \E kind \in {"comm", "resource", "other"} : HostThrows(h, kind)

(* The process is gone once the main window is closed. *)
Exited == ~ open /\ UNCHANGED vars

Next ==
  \/ /\ open
     /\ User \/ EventLoop \/ Worker \/ (\E h \in Host : HostThread(h)) \/ ServerChanges
  \/ Exited

Spec == Init /\ [][Next]_vars

(* Qt delivers queued signals, the operating system runs the threads, and  *)
(* a call to a host returns or throws.  Nothing is assumed of the user.    *)
Fairness ==
  /\ WF_vars(open /\ EventLoop)
  /\ WF_vars(open /\ Worker)
  /\ \A h \in Host : WF_vars(open /\ HostThread(h))

FairSpec == Spec /\ Fairness

-----------------------------------------------------------------------------
Exceptions == [kind : {"none", "comm", "resource", "other"}, host : {"none"} \cup Host]

(* The types of the variables. *)
TypeOK ==
  /\ gui \in {"loop", "starting"}
  /\ page \in {"start", "result"}
  /\ busy \in BOOLEAN
  /\ offered \in SUBSET (LocalPlatforms \cup FpgaPlatforms)
  /\ dialog \in {"none", "error", "fatal"}
  /\ open \in BOOLEAN
  /\ request \in Request
  /\ handlerException \in Exceptions
  /\ updatedPlatforms \in Seq(SUBSET (LocalPlatforms \cup FpgaPlatforms))
  /\ shown \in Seq(1..MaxImages)
  /\ inbox \in Seq([ok : BOOLEAN, images : Seq(1..MaxImages)])
  /\ worker \in {"idle", "update", "match", "select", "place", "start", "report", "emit"}
  /\ index \in 1..3
  /\ hostPlatforms \in Seq(SUBSET (LocalPlatforms \cup FpgaPlatforms))
  /\ availableHosts \in Seq(Host)
  /\ hostDistribution \in Seq(0..MaxImages)
  /\ batches \in Seq(Seq(1..MaxImages))
  /\ allResults \in Seq(Seq(1..MaxImages))
  /\ thread \in [Host -> {"none", "running", "ended"}]
  /\ serverPlatforms \in SUBSET FpgaPlatforms
  /\ serverChanged \in BOOLEAN
  /\ computationHosts \in {<<"local">>, <<"fpga", "local">>}
  /\ exceptionptr \in Exceptions
  /\ failed \in SUBSET (Host \cup {"placer"})

(***************************************************************************)
(* The inductive invariant behind RequestNotReplaced, NoStaleException,    *)
(* ResultIffNoFailure, FailureIsExplained and ResourceExceptionIsFinal.    *)
(***************************************************************************)
(* A classification is under way: its thread runs, or its signal is queued. *)
Active == worker # "idle" \/ inbox # <<>>
FailureOnItsWay == worker = "emit" \/ \E m \in ToSet(inbox) : ~ m.ok

(* One classification at a time, behind a locked start page.  Until the    *)
(* slot of the button has locked it, the GUI thread does nothing else.     *)
LockInv ==
  /\ Active => page = "start" /\ (gui = "starting" \/ busy) /\ dialog = "none"
  /\ gui = "starting" => Active
  /\ worker # "idle" => inbox = <<>>
  /\ inbox = <<>> \/ inbox = <<inbox[1]>>
  /\ \A h \in Host : thread[h] = "running" => worker = "start"

(* exceptionptr is set exactly while a failure of this update is known to  *)
(* the worker, and nullptr is on its way exactly after one.                *)
ExceptionInv ==
  /\ worker \in {"idle", "update", "emit"} => exceptionptr = NoException
  /\ worker \in {"match", "select", "place", "start", "report"}
       => (exceptionptr = NoException <=> failed = {})
  /\ worker = "emit" => failed # {}
  /\ \A m \in ToSet(inbox) : m.ok <=> failed = {}
  /\ FailureOnItsWay => handlerException # NoException

(* After a ResourceException the start page is, or is about to be, locked. *)
FinalInv ==
  handlerException.kind = "resource" =>
    /\ page = "start"
    /\ FailureOnItsWay \/ (~ Active /\ busy)

ManagerInv == LockInv /\ ExceptionInv /\ FinalInv

(* The inductive invariant behind OfferedPlatformsExist: new platforms     *)
(* wait in updatedPlatforms only while a failure is on its way.            *)
OfferInv ==
  ~ serverChanged =>
    IF updatedPlatforms = <<>> THEN offered = AvailablePlatforms(computationHosts)
    ELSE /\ FailureOnItsWay
         /\ updatedPlatforms = <<AvailablePlatforms(computationHosts)>>

(* MainWindowHandler.cpp:61 deletes the request that Manager.cpp:169 took  *)
(* a pointer to: it is never deleted or replaced while update runs.        *)
RequestNotReplaced == [][worker # "idle" => request' = request]_vars

(* Manager.cpp:223-236, 345-351: what the result page shows is every image *)
(* of the request, once, in the order of the request, however the images   *)
(* were spread over hosts and in whatever order those finished.            *)
ResultIsComplete == page = "result" => shown = [k \in 1..request.images |-> k]

(* Manager.cpp:276: a result is sent when no call of the update failed and *)
(* nullptr when one did, even when the failures overwrite each other.      *)
ResultIffNoFailure == \A m \in ToSet(inbox) : m.ok <=> failed = {}

(* MainWindowHandler.cpp:113, "This case should never occur": when nullptr *)
(* arrives the handler has an exception to show.                           *)
FailureIsExplained ==
  (\E m \in ToSet(inbox) : ~ m.ok) => handlerException # NoException

(* Manager.cpp:309, "Null exceptionptr for next classification": no        *)
(* failure of one classification leaks into the next one.                  *)
NoStaleException == worker \in {"idle", "update"} => exceptionptr = NoException

(* Manager.cpp:285-304, MainWindowHandler.cpp:137: whenever the user can   *)
(* choose, the platforms on offer are those of the hosts that are left,    *)
(* unless the server came back with others behind the program's back.      *)
OfferedPlatformsExist ==
  (~ serverChanged /\ gui = "loop" /\ ~ busy) => offered = AvailablePlatforms(computationHosts)

(* Manager.cpp:198-210: a host that classifies does so on platforms that   *)
(* were selected and that are its own, although hosts and their platforms  *)
(* are erased from two lists and the loop steps over a host.  Only if the  *)
(* server has come back with other platforms may a host be left without    *)
(* any: the local one, stepped over when the remote one has been erased.   *)
HostsUseSelectedPlatforms ==
  worker = "start" =>
    \A j \in DOMAIN availableHosts :
      /\ hostPlatforms[j] \subseteq request.platforms \cap OwnPlatforms(availableHosts[j])
      /\ hostPlatforms[j] = {} => serverChanged /\ availableHosts = <<"local">>

(* Manager.cpp:279-286: a host is only erased after a failed call to it,   *)
(* and it is erased when its failure was the only one.                     *)
OnlyFailedHostsErased ==
  [][/\ \A h \in ToSet(computationHosts) \ ToSet(computationHosts') : h \in failed
     /\ (worker = "report" /\ worker' = "emit" /\ failed = {"fpga"})
          => "fpga" \notin ToSet(computationHosts')]_vars

(* MainWindowHandler.cpp:103-106: after a ResourceException nothing can be *)
(* started any more.                                                       *)
ResourceExceptionIsFinal ==
  (handlerException.kind = "resource" /\ worker = "idle" /\ inbox = <<>>) => busy

(* Every classification ends: with its result, with the page enabled for   *)
(* the next one, or with the message that closes HICS.                     *)
ClassificationEnds ==
  gui = "starting" ~>
    \/ ~ open \/ page = "result"
    \/ gui = "loop" /\ (~ busy \/ dialog = "fatal")

(* The three threads together are the service Classification: one request  *)
(* at a time, not replaced while update runs although MainWindowHandler    *)
(* .cpp:61 deletes the request that Manager.cpp:169 took a pointer to;     *)
(* one answer to each; all images of the request on the page, or a failure *)
(* and its price.                                                          *)
Service == INSTANCE Classification WITH
  Images <- 1..MaxImages,
  asked <- [n \in 1..request.images |-> n],
  answer <- IF FailureOnItsWay THEN handlerException.kind
            ELSE IF worker # "idle" THEN "pending"
            ELSE IF inbox # <<>> THEN "ok" ELSE "none",
  hosts <- computationHosts,
  final <- handlerException.kind = "resource" /\ ~ FailureOnItsWay
ImplementsClassification == Service!Spec

(* Manager.cpp:279, "if a communication exception occured, delete the      *)
(* associated computationHost", and 249, "there are no shared resoures to  *)
(* worry about": the remote host is gone after every update in which its   *)
(* call failed, also when the local host failed too.                       *)
FailedHostDeleted ==
  (worker = "emit" /\ "fpga" \in failed /\ "placer" \notin failed)
    => "fpga" \notin ToSet(computationHosts)
=============================================================================
